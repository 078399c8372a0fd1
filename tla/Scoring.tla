------------------------------- MODULE Scoring -------------------------------
(***************************************************************************)
(* The qualification scores of a deal: one level per dimension, their      *)
(* total, and the response mode the total falls into.  The scores of a     *)
(* deal outlive the dimensions and levels they were given in, which a new  *)
(* version of the program may drop.                                        *)
(***************************************************************************)
EXTENDS Naturals, Sequences, FiniteSets, FiniteSetsExt

CONSTANTS
  Dimension,     (* SCORING_DIMENSIONS                                     *)
  Sheets,        (* the scores users enter in this instance                *)
  MaxReleases,   (* bound: versions that drop something                    *)
  Unscored       (* no scores, no total, no mode                           *)

(* The three levels of each dimension, by their points; 0: not scored in.  *)
Level == 1..3
Scores == [Dimension -> Level \cup {0}]

ASSUME ScoringAssumption ==
  /\ IsFiniteSet(Dimension) /\ Cardinality(Dimension) = 8
  /\ Sheets \subseteq [Dimension -> Level] /\ MaxReleases \in Nat
  /\ Unscored \notin Scores \cup Nat \cup {"A", "B", "C", "D"}

VARIABLES
  defined,    (* the levels each dimension has now, none once it is gone   *)
  scores,     (* deals.scores of a deal                                    *)
  releases    (* versions so far                                           *)

scoreVars == <<defined, scores, releases>>

ScoringTypeOK ==
  /\ defined \in [Dimension -> SUBSET Level]
  /\ scores \in Scores \cup {Unscored}
  /\ releases \in 0..MaxReleases

ScoringInit ==
  /\ defined = [d \in Dimension |-> Level]
  /\ scores = Unscored
  /\ releases = 0
-----------------------------------------------------------------------------
(* mutant of EnterScores: only the dimensions there are get a key          *)
EnterScoresPartly(sheet) ==
  /\ scores' = [d \in {x \in Dimension : defined[x] # {}} |-> sheet[d]]
  /\ UNCHANGED <<defined, releases>>

(* validate_scores: exactly the dimensions there are, each with one of its *)
(* levels.                                                                 *)
EnterScores(sheet) ==
  /\ \A d \in Dimension : defined[d] # {} => sheet[d] \in defined[d]
  /\ scores' = [d \in Dimension |-> IF defined[d] = {} THEN 0 ELSE sheet[d]]
  /\ UNCHANGED <<defined, releases>>

(* scores: null in the body                                                *)
ClearScores ==
  /\ scores # Unscored
  /\ scores' = Unscored
  /\ UNCHANGED <<defined, releases>>

(* A version without some levels of a dimension, or without the dimension. *)
Release(d, gone) ==
  /\ releases < MaxReleases
  /\ gone \subseteq defined[d] /\ gone # {}
  /\ defined' = [defined EXCEPT ![d] = @ \ gone]
  /\ releases' = releases + 1
  /\ UNCHANGED scores

ScoringNext ==
  \/ \E sheet \in Sheets : EnterScores(sheet)
  \/ ClearScores
  \/ \E d \in Dimension, gone \in SUBSET Level : Release(d, gone)

ScoringSpec == ScoringInit /\ [][ScoringNext]_scoreVars
-----------------------------------------------------------------------------
(* The points of a sheet, one by one: levels that are gone give none.      *)
Points(sheet) ==
  UNION {{d} \X (1..sheet[d]) : d \in {x \in Dimension : sheet[x] \in defined[x]}}

TotalScore(sheet) ==
  IF sheet = Unscored THEN Unscored ELSE Cardinality(Points(sheet))

(* _BANDS                                                                  *)
Bands == << [minimum |-> 20, mode |-> "A"], [minimum |-> 14, mode |-> "B"],
            [minimum |-> 8, mode |-> "C"], [minimum |-> 1, mode |-> "D"] >>

(* mutant of InBand: a total of exactly the minimum is the band below      *)
AboveBand(total, band) == total > band.minimum

InBand(total, band) == total >= band.minimum

(* score_summary: the first band that matches                              *)
ScoreSummary(total) ==
  LET matches == {i \in DOMAIN Bands : total # Unscored /\ InBand(total, Bands[i])}
  IN  IF matches = {} THEN Unscored ELSE Bands[Min(matches)].mode
-----------------------------------------------------------------------------
(* Properties                                                              *)

Slowness(mode) == IF mode = Unscored THEN 5 ELSE
  CHOOSE i \in DOMAIN Bands : Bands[i].mode = mode

(* The totals of a deal scored in every dimension there is start at the    *)
(* minimum of mode C: "No Proposal Yet" is for deals that lost levels.  A  *)
(* deal has a mode as long as one of its levels is defined, and raising    *)
(* one level of a deal never makes the answer slower.                      *)
ModeFollowsTotal ==
  scores # Unscored =>
    LET mode == ScoreSummary(TotalScore(scores))
        raised(d) == [scores EXCEPT ![d] = @ + 1]
    IN  /\ (\A d \in Dimension : scores[d] \in defined[d]) => mode \in {"A", "B", "C"}
        /\ mode = Unscored <=> \A d \in Dimension : scores[d] \notin defined[d]
        /\ \A d \in Dimension :
             scores[d] + 1 \in defined[d] =>
               Slowness(ScoreSummary(TotalScore(raised(d)))) <= Slowness(mode)
=============================================================================

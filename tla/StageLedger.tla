----------------------------- MODULE StageLedger -----------------------------
(***************************************************************************)
(* What the deal pipeline promises about stage moves, with requests,       *)
(* sessions and columns left out: the stage a deal stands in and the       *)
(* ledger that dates the move change together, in one step, or not at all. *)
(*                                                                         *)
(* A move's "from" is some stage the deal was recorded in before, not      *)
(* always the stage it stands in now: a request that read the deal before  *)
(* a competing move committed still names the stage it read.  Rows are     *)
(* written once, except that an administrator may amend one by hand.       *)
(***************************************************************************)

CONSTANTS
  Deal,
  Stage,
  Time,      (* the transaction start times a row can carry                *)
  NoStage    (* "no deal" in stage, and "from" of a deal's first row       *)

VARIABLES
  stage,     (* the stage each deal stands in                              *)
  ledger,    (* the recorded moves                                         *)
  amended    (* deals with a row rewritten by hand                         *)

ledgerVars == <<stage, ledger, amended>>

LedgerInit ==
  /\ stage = [d \in Deal |-> NoStage]
  /\ ledger = {}
  /\ amended = {}

EntryMade(d, x) == \E m \in ledger : m.deal = d /\ m.to = x

Open(d, x, t) ==
  /\ stage[d] = NoStage
  /\ stage' = [stage EXCEPT ![d] = x]
  /\ ledger' = ledger \cup {[deal |-> d, from |-> NoStage, to |-> x, at |-> t]}
  /\ UNCHANGED amended

Move(d, x, y, t) ==
  /\ stage[d] # NoStage
  /\ x # y
  /\ d \in amended \/ EntryMade(d, x)
  /\ stage' = [stage EXCEPT ![d] = y]
  /\ ledger' = ledger \cup {[deal |-> d, from |-> x, to |-> y, at |-> t]}
  /\ UNCHANGED amended

Amend(d, m, x) ==
  /\ m \in ledger /\ m.deal = d
  /\ ledger' = (ledger \ {m}) \cup {[m EXCEPT !.to = x]}
  /\ amended' = amended \cup {d}
  /\ UNCHANGED stage

Close(d) ==
  /\ stage[d] # NoStage
  /\ stage' = [stage EXCEPT ![d] = NoStage]
  /\ ledger' = {m \in ledger : m.deal # d}
  /\ UNCHANGED amended

LedgerNext ==
  \E d \in Deal :
    \/ \E x \in Stage, t \in Time : Open(d, x, t)
    \/ \E x, y \in Stage, t \in Time : Move(d, x, y, t)
    \/ Close(d)
    \/ \E m \in ledger, x \in Stage : Amend(d, m, x)

LedgerSpec == LedgerInit /\ [][LedgerNext]_ledgerVars
=============================================================================

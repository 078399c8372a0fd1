-------------------------------- MODULE Pages --------------------------------
(***************************************************************************)
(* Lists sorted by time and cut into pages, in SQL and in the services.  A *)
(* page is the set of its entries: their moments give their order in it.   *)
(***************************************************************************)
EXTENDS Naturals, FiniteSets

IsNewest(newest, entries, n) ==
  /\ newest \subseteq entries
  /\ Cardinality(newest) =
       IF n < Cardinality(entries) THEN n ELSE Cardinality(entries)
  /\ \A x \in newest, y \in entries \ newest : x.at >= y.at

(* ORDER BY at DESC LIMIT n, or sort and [:n]: no entry that is left out   *)
(* is newer than one that is not.                                          *)
Newest(entries, n) ==
  CHOOSE newest \in SUBSET entries : IsNewest(newest, entries, n)

(* With an OFFSET, or a Python slice.                                      *)
Page(entries, limit, offset) ==
  Newest(entries, offset + limit) \ Newest(entries, offset)
=============================================================================

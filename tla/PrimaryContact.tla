--------------------------- MODULE PrimaryContact ---------------------------
(***************************************************************************)
(* What the account screens promise of an account's primary contact: an    *)
(* account has at most one, and a contact takes the place only when it is  *)
(* free.  Nobody is demoted by somebody else's promotion.                  *)
(***************************************************************************)
CONSTANTS
  Account,   (* the accounts                                               *)
  Contact,   (* the contacts                                               *)
  None       (* an account without a primary contact                       *)

VARIABLE holder   (* the primary contact of each account                   *)

Init == holder = [a \in Account |-> None]

Take(a, c) ==
  /\ holder[a] = None
  /\ holder' = [holder EXCEPT ![a] = c]

(* Contacts that are demoted, or go with their account or by themselves;   *)
(* one deleted contact may have been the primary one of several accounts.  *)
GiveUp(A) == holder' = [a \in Account |-> IF a \in A THEN None ELSE holder[a]]

Next ==
  \/ \E a \in Account, c \in Contact : Take(a, c)
  \/ \E A \in SUBSET Account : GiveUp(A)

Spec == Init /\ [][Next]_holder
=============================================================================

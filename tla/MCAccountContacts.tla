------------------------- MODULE MCAccountContacts -------------------------
(* Instances of AccountContacts for TLC: the requests clients send.        *)
EXTENDS AccountContacts, TLC

CONSTANTS ann, bob, d1, ma, mb

BobsDeal == [d \in {d1} |-> bob]

In(e, p) == [email |-> e, primary |-> p]

(* An account with one contact or two, one handed to a colleague.          *)
CreateBodies ==
  {[owner |-> None, contacts |-> <<In(ma, TRUE)>>],
   [owner |-> None, contacts |-> <<In(ma, FALSE), In(mb, TRUE)>>],
   [owner |-> bob, contacts |-> <<>>]}

Link1(u, a, c, e, p) ==
  [op |-> "link", by |-> u, account |-> a, contact |-> c, email |-> e, primary |-> p]

Edits ==
  {[op |-> "account", by |-> ann, account |-> 1, owner |-> bob, contacts |-> <<>>],
   [op |-> "account", by |-> bob, account |-> 1, owner |-> Unset,
    contacts |-> <<In(mb, TRUE)>>],
   [op |-> "add", by |-> ann, account |-> 1, input |-> In(mb, TRUE)],
   Link1(ann, 1, 1, Unset, FALSE),
   Link1(ann, 1, 1, mb, Unset),
   Link1(ann, 1, 2, Unset, TRUE),
   Link1(bob, 1, 1, Unset, TRUE),
   Link1(bob, 2, 1, Unset, Unset)}

(* Two sessions differ in nothing.                                         *)
Alike == Permutations(Session)
=============================================================================

-------------------------- MODULE MCLeadConversion --------------------------
(* Instances of LeadConversion for TLC: the requests clients send.         *)
EXTENDS LeadConversion, TLC

CONSTANTS l1, l2, ann, bob, ma, mb, mc

Ids == Permutations(Account) \cup Permutations(Contact) \cup Permutations(Session)

Convert(l, u) ==
  [op |-> "convert", lead |-> l, email |-> Unset, owner |-> u, contacts |-> Unset]

Edit(l, e, u, C) ==
  [op |-> "update", lead |-> l, email |-> e, owner |-> u, contacts |-> C]

OwnedLead == {[email |-> ma, owner |-> ann, contacts |-> {mb}]}

OneLead == {[email |-> ma, owner |-> None, contacts |-> {}]}

(* A lead readdressed, reassigned and converted by both sessions; the      *)
(* second lead can take its addresses once they are given up.              *)
RaceRequests ==
  {Convert(l1, Unset), Edit(l1, mc, None, Unset), Edit(l1, Unset, bob, {mc})}

ConvertRequests == {Convert(l1, bob)}

EditRequests == {Convert(l1, ann), Edit(l1, mb, Unset, Unset)}
=============================================================================

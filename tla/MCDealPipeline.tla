--------------------------- MODULE MCDealPipeline ---------------------------
(* Instances of DealPipeline for TLC: the requests clients send.           *)
EXTENDS DealPipeline, TLC

CONSTANTS d1, lead, won, cold, ann, bob, c1, c2

NoBody == [stage |-> Unset, reason |-> Unset, owner |-> Unset, contacts |-> Unset]

DealReq(o, d, b) ==
  [op |-> o, deal |-> d, stage |-> lead, kind |-> "open", body |-> b]

StageReq(o, x, k) ==
  [op |-> o, deal |-> d1, stage |-> x, kind |-> k, body |-> NoBody]

NewDeal(d, x, r) ==
  DealReq("create_deal", d,
          [stage |-> x, reason |-> r, owner |-> ann, contacts |-> {c1}])

Update(d, b) == DealReq("update_deal", d, b)
Patch(d, b) == DealReq("patch_deal", d, b)

MoveTo(x) == [NoBody EXCEPT !.stage = x]
MoveCold(r) == [NoBody EXCEPT !.stage = cold, !.reason = r]
SetReason(r) == [NoBody EXCEPT !.reason = r]
Link(C) == [NoBody EXCEPT !.contacts = C]

AllStages == (lead :> "open") @@ (won :> "open") @@ (cold :> "cold")
ColdAbsent == (lead :> "open") @@ (won :> "open") @@ (cold :> "absent")

(* Every kind of request on one deal: moves by both doors, contacts, the   *)
(* deal's deletion, hand-edited history, stages made, turned and deleted.  *)
AllRequests ==
  {NewDeal(d1, lead, None),
   Update(d1, MoveTo(won)), Update(d1, MoveTo(lead)),
   Update(d1, [MoveCold("given") EXCEPT !.contacts = {c2}]),
   Patch(d1, MoveTo(won)), Patch(d1, SetReason(None)),
   DealReq("delete_deal", d1, NoBody),
   StageReq("patch_history", won, "open"),
   StageReq("create_stage", cold, "cold"), StageReq("update_stage", won, "cold"),
   StageReq("delete_stage", won, "open"), StageReq("delete_stage", cold, "open")}

(* The deals screen: create, move with and without a reason, reassign,     *)
(* relink; the stages are left alone.                                      *)
ScreenRequests ==
  {NewDeal(d1, lead, None), NewDeal(d1, cold, "given"), NewDeal(d1, cold, None)}
    \cup {Update(d1, b) :
            b \in {MoveTo(lead), MoveTo(won), MoveCold("given"), MoveTo(cold),
                   SetReason(None), SetReason("given"), Link({}), Link({c1, c2}),
                   [MoveTo(won) EXCEPT !.owner = bob]}}

(* One open deal that carries a reason, and two edits of it.               *)
ColdRaceRequests ==
  {NewDeal(d1, lead, "given"), Update(d1, SetReason(None)),
   Update(d1, MoveTo(cold)), Update(d1, MoveTo(won))}

MoveRequests ==
  {NewDeal(d1, lead, None)}
    \cup {Update(d1, MoveTo(x)) : x \in {lead, won}}
=============================================================================

------------------------- MODULE DealPipelineProofs -------------------------
(***************************************************************************)
(* Theorems about DealPipeline, for every set of sessions, deals, stages,  *)
(* users, contacts and requests and every bound on transactions.           *)
(*                                                                         *)
(* A deal with a history row rewritten through generic_patch is in amended *)
(* from then on, and the statements about the history leave it out.        *)
(***************************************************************************)
EXTENDS DealPipeline, TLAPS

(* A session that holds a deal row it read and may still write.            *)
HoldsDeal(s) == /\ txs[s].phase \in {"loaded", "cleared"}
                /\ txs[s].req.op \in {"update_deal", "patch_deal"}

ReadRowsTyped == \A s \in Session : HoldsDeal(s) => txs[s].row \in DealRow

TypeInv == TypeOK /\ ReadRowsTyped

-----------------------------------------------------------------------------
(* The session's view of a row.                                            *)

LEMMA ActiveTx ==
  ASSUME TypeOK, NEW s \in Session, txs[s].phase # "idle"
  PROVE  /\ txs[s] \in Tx
         /\ txs[s].req \in Request
         /\ txs[s].req.deal \in Deal /\ txs[s].req.stage \in Stage
         /\ txs[s].req.kind \in Kind /\ txs[s].req.body \in Body
         /\ txs[s].at \in 1..MaxTx
  <1>1. txs[s] \in Tx \cup {Idle}
    BY DEF TypeOK
  <1>2. txs[s] \in Tx
    BY <1>1 DEF Idle
  <1>3. txs[s].req \in Request
    BY <1>2, RequestAssumption DEF Tx
  <1> QED
    BY <1>2, <1>3 DEF Tx, Request

(* After setattr, and after the UPDATE on top of a newer row, the row is a *)
(* row; its stage is the body's exactly when the session saw a change.     *)
LEMMA RowViews ==
  ASSUME NEW t, t.req.body \in Body, t.row \in DealRow
  PROVE  /\ InMemory(t) \in DealRow
         /\ \A current \in DealRow :
              /\ Flushed(t, current) \in DealRow
              /\ Flushed(t, current).stage =
                   IF StageChanged(t) THEN InMemory(t).stage ELSE current.stage
  <1>1. InMemory(t) \in DealRow
    BY DEF InMemory, Body, DealRow
  <1> QED
    BY <1>1 DEF Flushed, StageChanged, DealRow

LEMMA NewRowTyped ==
  ASSUME NEW d \in Deal, NEW x \in Stage \cup {None}, NEW y \in Stage,
         NEW n \in 1..MaxTx
  PROVE  [deal |-> d, from |-> x, to |-> y, at |-> n] \in HistoryRow
  BY DEF HistoryRow

-----------------------------------------------------------------------------
(* Type correctness.                                                       *)

LEMMA InitTypeInv == Init => TypeInv
  <1> SUFFICES ASSUME Init PROVE TypeInv
    OBVIOUS
  <1>1. TypeOK
    BY SeedAssumption, BoundAssumption DEF Init, TypeOK, StageState
  <1>2. ReadRowsTyped
    BY DEF Init, ReadRowsTyped, HoldsDeal, Idle
  <1> QED
    BY <1>1, <1>2 DEF TypeInv

LEMMA FinishKeepsReads ==
  ASSUME TypeOK, ReadRowsTyped, NEW s \in Session, Finish(s)
  PROVE  /\ txs' \in [Session -> Tx \cup {Idle}]
         /\ ReadRowsTyped'
  <1>1. txs' \in [Session -> Tx \cup {Idle}]
    BY DEF Finish, TypeOK
  <1>2. \A o \in Session : txs'[o] = IF o = s THEN Idle ELSE txs[o]
    BY DEF Finish, TypeOK
  <1>3. ReadRowsTyped'
    BY <1>2 DEF ReadRowsTyped, HoldsDeal, Idle
  <1> QED
    BY <1>1, <1>3

LEMMA TypeInvStep == TypeInv /\ [Next]_vars => TypeInv'
  <1> SUFFICES ASSUME TypeInv, [Next]_vars PROVE TypeInv'
    OBVIOUS
  <1> USE DEF TypeInv
  <1>1. CASE UNCHANGED vars
    BY <1>1 DEF vars, TypeOK, ReadRowsTyped, HoldsDeal
  <1>2. ASSUME NEW s \in Session, Serve(s) PROVE TypeInv'
    <2> DEFINE t == txs[s]
               d == t.req.deal
               b == t.req.body
    <2>1. CASE Begin(s)
      <3>1. clock + 1 \in 1..MaxTx /\ clock' \in 0..MaxTx
        BY <2>1, BoundAssumption DEF Begin, TypeOK
      <3>2. PICK q \in Requests :
              txs' = [txs EXCEPT ![s] =
                       [phase |-> "begun", req |-> q, at |-> clock + 1,
                        row |-> None, kind |-> "absent", cleared |-> {}]]
        BY <2>1 DEF Begin
      <3>3. [phase |-> "begun", req |-> q, at |-> clock + 1,
             row |-> None, kind |-> "absent", cleared |-> {}] \in Tx
        BY <3>1 DEF Tx, Phases, StageState
      <3>4. TypeOK'
        BY <2>1, <3>1, <3>2, <3>3 DEF Begin, TypeOK, tables
      <3>5. ReadRowsTyped'
        BY <3>2 DEF ReadRowsTyped, HoldsDeal, TypeOK
      <3> QED
        BY <3>4, <3>5
    <2>2. CASE Rollback(s)
      BY <2>2, FinishKeepsReads DEF Rollback, TypeOK, tables
    <2>3. CASE CreateDeal(s)
      <3>1. /\ t.phase # "idle" /\ t.req.op = "create_deal"
            /\ Finish(s)
        BY <2>3 DEF CreateDeal
      <3>2. t \in Tx /\ d \in Deal /\ b \in Body /\ t.at \in 1..MaxTx
        BY <3>1, ActiveTx
      <3>3. /\ b.stage \in Stage /\ b.reason \in Reason /\ b.owner \in User
            /\ b.contacts \in SUBSET Contact
        BY <3>1, <3>2, RequestAssumption DEF Tx, Body
      <3>4. [stage |-> b.stage, reason |-> b.reason, owner |-> b.owner] \in DealRow
        BY <3>3 DEF DealRow
      <3>5. deals' \in [Deal -> DealRow \cup {None}] /\ issued' \subseteq Deal
        BY <2>3, <3>2, <3>4 DEF CreateDeal, TypeOK
      <3>6. links' \in [Deal -> SUBSET Contact]
        BY <2>3, <3>2, <3>3 DEF CreateDeal, TypeOK
      <3>7. history' \subseteq HistoryRow
        <4>1. [deal |-> d, from |-> None, to |-> b.stage, at |-> t.at] \in HistoryRow
          BY <3>2, <3>3, NewRowTyped
        <4> QED
          BY <4>1, <2>3 DEF CreateDeal, Record, TypeOK
      <3>8. notices' \subseteq Notice
        <4>1. \A u \in Notifiable :
                [type |-> "deal_created", deal |-> d, recipient |-> u, at |-> t.at]
                  \in Notice
          BY <3>2, NotifiableAssumption DEF Notice
        <4> QED
          BY <4>1, <2>3 DEF CreateDeal, TypeOK
      <3> QED
        BY <2>3, <3>1, <3>5, <3>6, <3>7, <3>8, FinishKeepsReads DEF CreateDeal, TypeOK
    <2>4. CASE LoadDeal(s)
      <3>1. t \in Tx /\ d \in Deal
        BY <2>4, ActiveTx DEF LoadDeal
      <3>2. deals[d] \in DealRow
        BY <2>4, <3>1 DEF LoadDeal, TypeOK
      <3>3. stages[deals[d].stage] \in StageState
        BY <3>2 DEF TypeOK, DealRow
      <3> DEFINE u == [t EXCEPT !.phase = "loaded", !.row = deals[d],
                                !.kind = stages[deals[d].stage]]
      <3>4. u \in Tx /\ u.row \in DealRow
        BY <3>1, <3>2, <3>3 DEF Tx, Phases
      <3>5. txs' = [txs EXCEPT ![s] = u]
        BY <2>4 DEF LoadDeal
      <3> HIDE DEF u
      <3>6. TypeOK'
        BY <2>4, <3>4, <3>5 DEF LoadDeal, TypeOK, tables
      <3>7. ReadRowsTyped'
        BY <3>4, <3>5 DEF ReadRowsTyped, HoldsDeal, TypeOK
      <3> QED
        BY <3>6, <3>7
    <2>5. CASE ClearContacts(s)
      <3>1. t \in Tx /\ d \in Deal /\ HoldsDeal(s)
        BY <2>5, ActiveTx DEF ClearContacts, HoldsDeal
      <3> DEFINE u == [t EXCEPT !.phase = "cleared", !.cleared = links[d]]
      <3>2. u \in Tx /\ u.row = t.row
        BY <3>1 DEF Tx, Phases, TypeOK
      <3>3. txs' = [txs EXCEPT ![s] = u]
        BY <2>5 DEF ClearContacts
      <3> HIDE DEF u
      <3>4. TypeOK'
        BY <2>5, <3>2, <3>3 DEF ClearContacts, TypeOK, tables
      <3>5. ReadRowsTyped'
        BY <3>1, <3>2, <3>3 DEF ReadRowsTyped, HoldsDeal, TypeOK
      <3> QED
        BY <3>4, <3>5
    <2>6. CASE UpdateDeal(s)
      <3>1. HoldsDeal(s) /\ t.phase # "idle" /\ Finish(s)
        BY <2>6 DEF UpdateDeal, HoldsDeal
      <3>2. t \in Tx /\ d \in Deal /\ b \in Body /\ t.at \in 1..MaxTx
            /\ t.row \in DealRow
        BY <3>1, ActiveTx DEF ReadRowsTyped
      <3>3. deals[d] \in DealRow
        BY <2>6, <3>2 DEF UpdateDeal, TypeOK
      <3>4. InMemory(t) \in DealRow /\ Flushed(t, deals[d]) \in DealRow
        BY <3>2, <3>3, RowViews
      <3>5. deals' = [deals EXCEPT ![d] = Flushed(t, deals[d])]
        BY <2>6 DEF UpdateDeal
      <3>6. links' \in [Deal -> SUBSET Contact]
        <4>1. b.contacts # Unset => b.contacts \in SUBSET Contact
          BY <3>2 DEF Body
        <4> QED
          BY <2>6, <3>2, <4>1 DEF UpdateDeal, ReplaceLinks, TypeOK
      <3>7. history' \subseteq HistoryRow
        BY <2>6, <3>2, <3>4, NewRowTyped DEF UpdateDeal, Record, TypeOK, DealRow
      <3>8. notices' \subseteq Notice
        BY <2>6, <3>2, <3>4 DEF UpdateDeal, MoveNotice, TypeOK, Notice, DealRow
      <3>9. deals' \in [Deal -> DealRow \cup {None}]
        BY <3>4, <3>5 DEF TypeOK
      <3> QED
        BY <2>6, <3>1, <3>6, <3>7, <3>8, <3>9, FinishKeepsReads DEF UpdateDeal, TypeOK
    <2>7. CASE DeleteDeal(s)
      BY <2>7, FinishKeepsReads DEF DeleteDeal, Cascade, TypeOK
    <2>8. CASE PatchDeal(s)
      <3>1. HoldsDeal(s) /\ t.phase # "idle" /\ Finish(s)
        BY <2>8 DEF PatchDeal, HoldsDeal
      <3>2. t \in Tx /\ d \in Deal /\ b \in Body /\ t.at \in 1..MaxTx
            /\ t.row \in DealRow
        BY <3>1, ActiveTx DEF ReadRowsTyped
      <3>3. deals[d] \in DealRow
        BY <2>8, <3>2 DEF PatchDeal, TypeOK
      <3>4. InMemory(t) \in DealRow /\ Flushed(t, deals[d]) \in DealRow
        BY <3>2, <3>3, RowViews
      <3>5. deals' = [deals EXCEPT ![d] = Flushed(t, deals[d])]
        BY <2>8 DEF PatchDeal
      <3>6. history' \subseteq HistoryRow
        BY <2>8, <3>2, <3>4, NewRowTyped DEF PatchDeal, Record, TypeOK, DealRow
      <3>7. deals' \in [Deal -> DealRow \cup {None}]
        BY <3>4, <3>5 DEF TypeOK
      <3> QED
        BY <2>8, <3>1, <3>6, <3>7, FinishKeepsReads DEF PatchDeal, TypeOK
    <2>9. CASE PatchHistory(s)
      <3>1. t \in Tx /\ t.req.stage \in Stage
        BY <2>9, ActiveTx DEF PatchHistory
      <3>2. PICK h \in HistoryOf(d) :
              history' = (history \ {h}) \cup {[h EXCEPT !.to = t.req.stage]}
        BY <2>9 DEF PatchHistory
      <3>3. h \in HistoryRow
        BY <3>2 DEF HistoryOf, TypeOK
      <3>4. [h EXCEPT !.to = t.req.stage] \in HistoryRow
        BY <3>1, <3>3 DEF HistoryRow
      <3>5. history' \subseteq HistoryRow
        BY <3>2, <3>4 DEF TypeOK
      <3>6. amended' \subseteq Deal
        BY <2>9, ActiveTx DEF PatchHistory, TypeOK
      <3> QED
        BY <2>9, <3>5, <3>6, FinishKeepsReads DEF PatchHistory, TypeOK
    <2>10. CASE CreateStage(s) \/ UpdateStage(s) \/ DeleteStage(s)
      <3>1. t.req.stage \in Stage /\ t.req.kind \in Kind
        BY <2>10, ActiveTx DEF CreateStage, UpdateStage, DeleteStage
      <3>2. stages' \in [Stage -> StageState]
        BY <2>10, <3>1 DEF CreateStage, UpdateStage, DeleteStage, TypeOK, StageState
      <3> QED
        BY <2>10, <3>2, FinishKeepsReads
           DEF CreateStage, UpdateStage, DeleteStage, TypeOK
    <2>11. CASE CheckStageUnused(s)
      <3>1. t \in Tx /\ t.req.op = "delete_stage"
        BY <2>11, ActiveTx DEF CheckStageUnused
      <3> DEFINE u == [t EXCEPT !.phase = "loaded"]
      <3>2. u \in Tx /\ u.req.op = "delete_stage"
        BY <3>1 DEF Tx, Phases
      <3>3. txs' = [txs EXCEPT ![s] = u]
        BY <2>11 DEF CheckStageUnused
      <3> HIDE DEF u
      <3>4. TypeOK'
        BY <2>11, <3>2, <3>3 DEF CheckStageUnused, TypeOK, tables
      <3>5. ReadRowsTyped'
        BY <3>2, <3>3 DEF ReadRowsTyped, HoldsDeal, TypeOK
      <3> QED
        BY <3>4, <3>5
    <2> QED
      BY <1>2, <2>1, <2>2, <2>3, <2>4, <2>5, <2>6, <2>7, <2>8, <2>9, <2>10, <2>11
         DEF Serve
  <1> QED
    BY <1>1, <1>2 DEF Next

(* Every table, session and clock keeps its type, whatever the requests.   *)
THEOREM TypeCorrect == Spec => []TypeOK
  <1>1. TypeInv => TypeOK
    BY DEF TypeInv
  <1> QED
    BY <1>1, InitTypeInv, TypeInvStep, PTL DEF Spec

-----------------------------------------------------------------------------
(* The foreign keys: no stage in use is ever deleted.                      *)

LEMMA StagesInUseStep ==
  TypeInv /\ StagesInUseExist /\ [Next]_vars => StagesInUseExist'
  <1> SUFFICES ASSUME TypeInv, StagesInUseExist, [Next]_vars
               PROVE  StagesInUseExist'
    OBVIOUS
  <1> USE DEF TypeInv
  <1>1. CASE UNCHANGED vars
    BY <1>1 DEF vars, StagesInUseExist, Exists
  <1>2. ASSUME NEW s \in Session, Serve(s) PROVE StagesInUseExist'
    <2> DEFINE t == txs[s]
               d == t.req.deal
    <2>1. CASE UNCHANGED <<deals, history, stages>>
      BY <2>1 DEF StagesInUseExist, Exists
    <2>2. CASE CreateDeal(s)
      <3>1. d \in Deal
        BY <2>2, ActiveTx DEF CreateDeal
      <3> QED
        BY <2>2, <3>1 DEF CreateDeal, Record, StagesInUseExist, Exists, TypeOK
    <2>3. CASE UpdateDeal(s) \/ PatchDeal(s)
      <3>1. /\ HoldsDeal(s) /\ t.phase # "idle" /\ deals[d] # None
            /\ deals' = [deals EXCEPT ![d] = Flushed(t, deals[d])]
            /\ StageChanged(t) => /\ Exists(InMemory(t).stage)
                                  /\ Exists(t.row.stage)
                                  /\ Record(t, t.row.stage, InMemory(t).stage)
            /\ ~StageChanged(t) => history' = history
            /\ stages' = stages
        BY <2>3 DEF UpdateDeal, PatchDeal, HoldsDeal
      <3>2. d \in Deal /\ t.req.body \in Body /\ t.row \in DealRow
        BY <3>1, ActiveTx DEF ReadRowsTyped
      <3>3. deals[d] \in DealRow
        BY <3>1, <3>2 DEF TypeOK
      <3>4. Flushed(t, deals[d]).stage =
              IF StageChanged(t) THEN InMemory(t).stage ELSE deals[d].stage
        BY <3>2, <3>3, RowViews
      <3>5. \A e \in Deal : deals'[e] # None => Exists(deals'[e].stage)
        BY <3>1, <3>2, <3>4 DEF StagesInUseExist, TypeOK
      <3>6. \A h \in history' : Exists(h.to) /\ (h.from = None \/ Exists(h.from))
        BY <3>1 DEF StagesInUseExist, Record
      <3> QED
        BY <3>1, <3>5, <3>6 DEF StagesInUseExist, Exists
    <2>4. CASE DeleteDeal(s)
      <3>1. d \in Deal
        BY <2>4, ActiveTx DEF DeleteDeal
      <3> QED
        BY <2>4, <3>1 DEF DeleteDeal, Cascade, StagesInUseExist, Exists, TypeOK
    <2>5. CASE PatchHistory(s)
      <3>1. Exists(t.req.stage)
        BY <2>5 DEF PatchHistory
      <3>2. PICK h \in HistoryOf(d) :
              history' = (history \ {h}) \cup {[h EXCEPT !.to = t.req.stage]}
        BY <2>5 DEF PatchHistory
      <3>3. h \in history /\ h \in HistoryRow
        BY <3>2 DEF HistoryOf, TypeOK
      <3>4. /\ [h EXCEPT !.to = t.req.stage].to = t.req.stage
            /\ [h EXCEPT !.to = t.req.stage].from = h.from
        BY <3>3 DEF HistoryRow
      <3> QED
        BY <2>5, <3>1, <3>2, <3>3, <3>4 DEF PatchHistory, StagesInUseExist, Exists
    <2>6. CASE CreateStage(s) \/ UpdateStage(s)
      <3>1. t.req.stage \in Stage /\ t.req.kind \in Kind
        BY <2>6, ActiveTx DEF CreateStage, UpdateStage
      <3>2. \A x \in Stage : Exists(x) => stages'[x] \in Kind
        BY <2>6, <3>1 DEF CreateStage, UpdateStage, Exists, TypeOK
      <3>3. /\ \A e \in Deal : deals[e] # None => deals[e].stage \in Stage
            /\ \A h \in history : h.to \in Stage /\ h.from \in Stage \cup {None}
        BY DEF TypeOK, DealRow, HistoryRow
      <3> QED
        BY <2>6, <3>2, <3>3 DEF CreateStage, UpdateStage, StagesInUseExist, Exists
    <2>7. CASE DeleteStage(s)
      <3>1. /\ stages' = [stages EXCEPT ![t.req.stage] = "deleted"]
            /\ \A e \in Deal : deals[e] # None => deals[e].stage # t.req.stage
            /\ \A h \in history : t.req.stage # h.to /\ t.req.stage # h.from
            /\ UNCHANGED <<deals, history>>
        BY <2>7 DEF DeleteStage, Unreferenced, InUse
      <3>2. \A x \in Stage : x # t.req.stage => stages'[x] = stages[x]
        BY <3>1 DEF TypeOK
      <3>3. /\ \A e \in Deal : deals[e] # None => deals[e].stage \in Stage
            /\ \A h \in history : h.to \in Stage /\ h.from \in Stage \cup {None}
        BY DEF TypeOK, DealRow, HistoryRow
      <3> QED
        BY <3>1, <3>2, <3>3 DEF StagesInUseExist, Exists
    <2> QED
      BY <1>2, <2>1, <2>2, <2>3, <2>4, <2>5, <2>6, <2>7
         DEF Serve, Begin, Rollback, LoadDeal, ClearContacts, CheckStageUnused, tables
  <1> QED
    BY <1>1, <1>2 DEF Next

(* No deal and no history row names a deleted stage, under every request   *)
(* the API offers, generic_patch on the history included.                  *)
THEOREM StagesInUseAlwaysExist == Spec => []StagesInUseExist
  <1>1. Init => StagesInUseExist
    BY DEF Init, StagesInUseExist
  <1> QED
    BY <1>1, InitTypeInv, TypeInvStep, StagesInUseStep, PTL DEF Spec

-----------------------------------------------------------------------------
(***************************************************************************)
(* The history.  CurrentStageRecorded is kept by every step on its own: a  *)
(* commit that writes the stage column writes the row too.  The refinement *)
(* needs more: the stage a stale session names as "from" was recorded, and *)
(* still is, because rows only go with their deal and a deal's id never    *)
(* comes back (LiveIssued, and the first half of ReadsRecorded).           *)
(***************************************************************************)

LiveIssued == \A d \in Deal : deals[d] # None => d \in issued

ReadsRecorded ==
  \A s \in Session : HoldsDeal(s) =>
    LET d == txs[s].req.deal
    IN  /\ d \in issued
        /\ deals[d] # None /\ d \notin amended => Entered(d, txs[s].row.stage)

LedgerInv ==
  /\ TypeInv
  /\ CurrentStageRecorded
  /\ NothingOutlivesItsDeal
  /\ LiveIssued
  /\ ReadsRecorded

(* What a commit of update_deal or of generic_patch(deals) does to a deal. *)
Moved(s) ==
  LET t == txs[s]
      d == t.req.deal
  IN  /\ HoldsDeal(s)
      /\ deals[d] # None
      /\ deals' = [deals EXCEPT ![d] = Flushed(t, deals[d])]
      /\ StageChanged(t) => Record(t, t.row.stage, InMemory(t).stage)
      /\ ~StageChanged(t) => history' = history
      /\ \A e \in Deal : e # d => links'[e] = links[e]
      /\ UNCHANGED <<issued, amended>>
      /\ Finish(s)

LEMMA CommitsMove ==
  ASSUME TypeInv, NEW s \in Session, UpdateDeal(s) \/ PatchDeal(s)
  PROVE  Moved(s)
  <1>1. HoldsDeal(s) /\ txs[s].phase # "idle"
    BY DEF UpdateDeal, PatchDeal, HoldsDeal
  <1>2. txs[s].req.deal \in Deal
    BY <1>1, ActiveTx DEF TypeInv
  <1>3. \A e \in Deal : e # txs[s].req.deal => links'[e] = links[e]
    BY <1>2 DEF UpdateDeal, PatchDeal, ReplaceLinks, TypeInv, TypeOK
  <1> QED
    BY <1>1, <1>3 DEF Moved, UpdateDeal, PatchDeal

LEMMA MovedStage ==
  ASSUME TypeInv, NEW s \in Session, Moved(s)
  PROVE  LET t == txs[s]
             d == t.req.deal
         IN  /\ d \in Deal /\ t.at \in 1..MaxTx
             /\ t.row.stage \in Stage /\ InMemory(t).stage \in Stage
             /\ deals'[d] # None
             /\ deals'[d].stage =
                  IF StageChanged(t) THEN InMemory(t).stage ELSE deals[d].stage
             /\ \A e \in Deal : e # d => deals'[e] = deals[e]
  <1> DEFINE t == txs[s]
             d == t.req.deal
  <1>1. HoldsDeal(s) /\ t.phase # "idle"
    BY DEF Moved, HoldsDeal
  <1>2. d \in Deal /\ t.req.body \in Body /\ t.row \in DealRow /\ t.at \in 1..MaxTx
    BY <1>1, ActiveTx DEF TypeInv, ReadRowsTyped
  <1>3. deals[d] \in DealRow
    BY <1>2 DEF Moved, TypeInv, TypeOK
  <1>4. /\ InMemory(t) \in DealRow /\ Flushed(t, deals[d]) \in DealRow
        /\ Flushed(t, deals[d]).stage =
             IF StageChanged(t) THEN InMemory(t).stage ELSE deals[d].stage
    BY <1>2, <1>3, RowViews
  <1>5. /\ deals'[d] = Flushed(t, deals[d])
        /\ \A e \in Deal : e # d => deals'[e] = deals[e]
    BY <1>2 DEF Moved, TypeInv, TypeOK
  <1>6. t.row.stage \in Stage /\ InMemory(t).stage \in Stage
    BY <1>2, <1>4 DEF DealRow
  <1> QED
    BY <1>2, <1>4, <1>5, <1>6, NullAssumption

(* Sessions other than the one that finishes keep what they read.          *)
LEMMA ReadsSurvive ==
  ASSUME LedgerInv, NEW s \in Session, Finish(s), issued \subseteq issued',
         \A d \in issued : deals'[d] # None /\ d \notin amended' =>
            /\ deals[d] # None /\ d \notin amended
            /\ \A x : Entered(d, x) => Entered(d, x)'
  PROVE  ReadsRecorded'
  <1> SUFFICES ASSUME NEW o \in Session, HoldsDeal(o)'
               PROVE  /\ txs'[o].req.deal \in issued'
                      /\ deals'[txs'[o].req.deal] # None /\ txs'[o].req.deal \notin amended'
                           => Entered(txs[o].req.deal, txs[o].row.stage)'
    BY DEF ReadsRecorded
  <1>1. txs'[o] = txs[o] /\ HoldsDeal(o)
    BY DEF HoldsDeal, Finish, Idle, LedgerInv, TypeInv, TypeOK
  <1>2. PICK d, x : d = txs[o].req.deal /\ x = txs[o].row.stage
    OBVIOUS
  <1>3. d \in issued /\ (deals[d] # None /\ d \notin amended => Entered(d, x))
    BY <1>1, <1>2 DEF LedgerInv, ReadsRecorded
  <1>4. deals'[d] # None /\ d \notin amended' => Entered(d, x)'
    BY <1>3
  <1>5. /\ d \in issued'
        /\ deals'[d] # None /\ d \notin amended' =>
             \E h \in history' : h.deal = d /\ h.to = x
    BY <1>3, <1>4 DEF Entered, HistoryOf
  <1> QED
    BY <1>1, <1>2, <1>5 DEF Entered, HistoryOf

LEMMA InitLedgerInv == Init => LedgerInv
  <1> SUFFICES ASSUME Init PROVE LedgerInv
    OBVIOUS
  <1>1. CurrentStageRecorded /\ NothingOutlivesItsDeal /\ LiveIssued
    BY DEF Init, CurrentStageRecorded, NothingOutlivesItsDeal, LiveIssued, HistoryOf
  <1>2. ReadsRecorded
    BY DEF Init, ReadsRecorded, HoldsDeal, Idle
  <1> QED
    BY <1>1, <1>2, InitTypeInv DEF LedgerInv

LEMMA LedgerInvStep ==
  LedgerInv /\ [Next]_vars => LedgerInv'
  <1> SUFFICES ASSUME LedgerInv, [Next]_vars
               PROVE  LedgerInv'
    OBVIOUS
  <1>0. TypeInv'
    BY TypeInvStep DEF LedgerInv
  <1> SUFFICES /\ (CurrentStageRecorded /\ NothingOutlivesItsDeal /\ LiveIssued)'
               /\ ReadsRecorded'
    BY <1>0 DEF LedgerInv
  <1>1. CASE UNCHANGED vars
    BY <1>1 DEF vars, LedgerInv, CurrentStageRecorded, NothingOutlivesItsDeal,
                LiveIssued, ReadsRecorded, HoldsDeal, Entered, HistoryOf
  <1>2. ASSUME NEW s \in Session, Serve(s)
        PROVE  /\ (CurrentStageRecorded /\ NothingOutlivesItsDeal /\ LiveIssued)'
               /\ ReadsRecorded'
    <2> DEFINE t == txs[s]
               d == t.req.deal
    <2>1. ASSUME UNCHANGED <<deals, history, amended, links, issued>>
          PROVE  (CurrentStageRecorded /\ NothingOutlivesItsDeal /\ LiveIssued)'
      BY <2>1 DEF LedgerInv, CurrentStageRecorded, NothingOutlivesItsDeal,
                  LiveIssued, Entered, HistoryOf
    <2>2. ASSUME UNCHANGED <<deals, history, amended, links, issued>>, Finish(s)
          PROVE  ReadsRecorded'
      BY <2>2, ReadsSurvive DEF Entered, HistoryOf
    <2>3. CASE Begin(s)
      <3>1. /\ UNCHANGED <<deals, history, amended, links, issued>>
            /\ \A o \in Session : HoldsDeal(o)' => HoldsDeal(o) /\ txs'[o] = txs[o]
        BY <2>3 DEF Begin, tables, HoldsDeal, LedgerInv, TypeInv, TypeOK
      <3> QED
        BY <2>1, <3>1 DEF LedgerInv, ReadsRecorded, Entered, HistoryOf
    <2>4. CASE Rollback(s) \/ CreateStage(s) \/ UpdateStage(s) \/ DeleteStage(s)
      BY <2>1, <2>2, <2>4
         DEF Rollback, CreateStage, UpdateStage, DeleteStage, tables
    <2>5. CASE CheckStageUnused(s)
      <3>1. /\ UNCHANGED <<deals, history, amended, links, issued>>
            /\ \A o \in Session : HoldsDeal(o)' => HoldsDeal(o) /\ txs'[o] = txs[o]
        <4>1. t \in Tx
          BY <2>5, ActiveTx DEF CheckStageUnused, LedgerInv, TypeInv
        <4>2. [t EXCEPT !.phase = "loaded"].req = t.req
          BY <4>1 DEF Tx
        <4> QED
          BY <2>5, <4>2 DEF CheckStageUnused, tables, HoldsDeal, LedgerInv, TypeInv, TypeOK
      <3> QED
        BY <2>1, <3>1 DEF LedgerInv, ReadsRecorded, Entered, HistoryOf
    <2>6. CASE LoadDeal(s)
      <3>1. t \in Tx /\ d \in Deal /\ deals[d] # None
        BY <2>6, ActiveTx DEF LoadDeal, LedgerInv, TypeInv
      <3>2. d \in issued /\ (d \notin amended => Entered(d, deals[d].stage))
        BY <3>1 DEF LedgerInv, LiveIssued, CurrentStageRecorded
      <3>3. /\ txs'[s].req = t.req /\ txs'[s].row = deals[d]
            /\ \A o \in Session : o # s => txs'[o] = txs[o]
        BY <2>6, <3>1 DEF LoadDeal, Tx, LedgerInv, TypeInv, TypeOK
      <3>4. UNCHANGED <<deals, history, amended, links, issued>>
        BY <2>6 DEF LoadDeal, tables
      <3>5. ReadsRecorded'
        BY <3>2, <3>3, <3>4 DEF LedgerInv, ReadsRecorded, HoldsDeal, Entered, HistoryOf
      <3> QED
        BY <2>1, <3>4, <3>5
    <2>7. CASE ClearContacts(s)
      <3>1. t \in Tx /\ HoldsDeal(s)
        BY <2>7, ActiveTx DEF ClearContacts, HoldsDeal, LedgerInv, TypeInv
      <3>2. /\ txs'[s].req = t.req /\ txs'[s].row = t.row
            /\ \A o \in Session : o # s => txs'[o] = txs[o]
        BY <2>7, <3>1 DEF ClearContacts, Tx, LedgerInv, TypeInv, TypeOK
      <3>3. UNCHANGED <<deals, history, amended, links, issued>>
        BY <2>7 DEF ClearContacts, tables
      <3>4. ReadsRecorded'
        BY <3>1, <3>2, <3>3 DEF LedgerInv, ReadsRecorded, HoldsDeal, Entered, HistoryOf
      <3> QED
        BY <2>1, <3>3, <3>4
    <2>8. CASE CreateDeal(s)
      <3>1. /\ t \in Tx /\ d \in Deal /\ t.req.body \in Body /\ t.req.op = "create_deal"
        BY <2>8, ActiveTx DEF CreateDeal, LedgerInv, TypeInv
      <3>2. t.req.body.stage \in Stage /\ deals[d] = None
        BY <2>8, <3>1, RequestAssumption
           DEF CreateDeal, Tx, Body, LedgerInv, LiveIssued
      <3>3. /\ deals'[d] # None /\ deals'[d].stage = t.req.body.stage
            /\ \A e \in Deal : e # d => deals'[e] = deals[e] /\ links'[e] = links[e]
            /\ issued' = issued \cup {d} /\ amended' = amended
            /\ history' = history \cup
                 {[deal |-> d, from |-> None, to |-> t.req.body.stage, at |-> t.at]}
            /\ Finish(s)
        <4>1. deals'[d] \in DealRow
          BY <1>0, <2>8, <3>1, RequestAssumption
             DEF CreateDeal, Tx, Body, DealRow, LedgerInv, TypeInv, TypeOK
        <4> QED
          BY <2>8, <3>1, <4>1, NullAssumption
             DEF CreateDeal, Record, LedgerInv, TypeInv, TypeOK
      <3>4. CurrentStageRecorded'
        <4>1. \E h \in history' : h.deal = d /\ h.to = deals'[d].stage
          <5> DEFINE r == [deal |-> d, from |-> None, to |-> t.req.body.stage,
                           at |-> t.at]
          <5>1. r \in history' /\ r.deal = d /\ r.to = deals'[d].stage
            BY <3>3
          <5> QED
            BY <5>1
        <4>2. \A e \in Deal : e # d /\ e \notin amended' /\ deals'[e] # None =>
                \E h \in history' : h.deal = e /\ h.to = deals'[e].stage
          BY <3>3 DEF LedgerInv, CurrentStageRecorded, Entered, HistoryOf
        <4> QED
          BY <4>1, <4>2 DEF CurrentStageRecorded, Entered, HistoryOf
      <3>5. NothingOutlivesItsDeal' /\ LiveIssued'
        BY <3>3 DEF LedgerInv, NothingOutlivesItsDeal, LiveIssued, HistoryOf
      <3>6. d \notin issued
        BY <2>8 DEF CreateDeal
      <3>7. \A e \in issued : deals'[e] # None /\ e \notin amended' =>
               deals[e] # None /\ e \notin amended /\ \A x : Entered(e, x) => Entered(e, x)'
        BY <3>3, <3>6 DEF Entered, HistoryOf, LedgerInv, TypeInv, TypeOK
      <3> QED
        BY <3>3, <3>4, <3>5, <3>7, ReadsSurvive
    <2>9. CASE UpdateDeal(s) \/ PatchDeal(s)
      <3>1. Moved(s)
        BY <2>9, CommitsMove DEF LedgerInv
      <3>2. /\ d \in Deal /\ deals'[d] # None
            /\ deals'[d].stage =
                 IF StageChanged(t) THEN InMemory(t).stage ELSE deals[d].stage
            /\ \A e \in Deal : e # d => deals'[e] = deals[e]
        BY <3>1, MovedStage DEF LedgerInv
      <3>3. /\ history' = history \/
               history' = history \cup
                 {[deal |-> d, from |-> t.row.stage, to |-> InMemory(t).stage, at |-> t.at]}
            /\ StageChanged(t) =>
                 \E h \in history' : h.deal = d /\ h.to = InMemory(t).stage
        <4> DEFINE r == [deal |-> d, from |-> t.row.stage, to |-> InMemory(t).stage,
                         at |-> t.at]
        <4>1. /\ StageChanged(t) => history' = history \cup {r}
              /\ ~StageChanged(t) => history' = history
          BY <3>1 DEF Moved, Record
        <4>2. r.deal = d /\ r.to = InMemory(t).stage
          OBVIOUS
        <4> QED
          BY <4>1, <4>2
      <3>4. CurrentStageRecorded'
        <4>1. d \notin amended =>
                \E h \in history' : h.deal = d /\ h.to = deals'[d].stage
          <5>1. CASE StageChanged(t)
            BY <3>2, <3>3, <5>1
          <5>2. CASE ~StageChanged(t) /\ d \notin amended
            <6>1. deals[d] # None /\ deals'[d].stage = deals[d].stage
              BY <3>1, <3>2, <5>2 DEF Moved
            <6>2. PICK h \in history : h.deal = d /\ h.to = deals[d].stage
              BY <3>2, <5>2, <6>1
                 DEF LedgerInv, CurrentStageRecorded, Entered, HistoryOf
            <6>3. h \in history'
              BY <3>3
            <6> QED
              BY <6>1, <6>2, <6>3
          <5> QED
            BY <5>1, <5>2
        <4>2. \A e \in Deal : e # d /\ e \notin amended' /\ deals'[e] # None =>
                \E h \in history' : h.deal = e /\ h.to = deals'[e].stage
          <5>1. amended' = amended /\ history \subseteq history'
            BY <3>1, <3>3 DEF Moved
          <5> QED
            BY <3>2, <5>1 DEF LedgerInv, CurrentStageRecorded, Entered, HistoryOf
        <4> QED
          BY <3>1, <4>1, <4>2 DEF Moved, CurrentStageRecorded, Entered, HistoryOf
      <3>5. NothingOutlivesItsDeal' /\ LiveIssued'
        BY <3>1, <3>2, <3>3
           DEF Moved, LedgerInv, NothingOutlivesItsDeal, LiveIssued, HistoryOf
      <3>6. \A e \in issued : deals'[e] # None /\ e \notin amended' =>
               deals[e] # None /\ e \notin amended /\ \A x : Entered(e, x) => Entered(e, x)'
        BY <3>1, <3>2, <3>3 DEF Moved, Entered, HistoryOf, LedgerInv, TypeInv, TypeOK
      <3> QED
        BY <3>1, <3>4, <3>5, <3>6, ReadsSurvive DEF Moved
    <2>10. CASE DeleteDeal(s)
      <3>1. d \in Deal
        BY <2>10, ActiveTx DEF DeleteDeal, LedgerInv, TypeInv
      <3>2. /\ deals'[d] = None /\ links'[d] = {}
            /\ \A e \in Deal : e # d => deals'[e] = deals[e] /\ links'[e] = links[e]
            /\ \A h : h \in history' <=> h \in history /\ h.deal # d
            /\ UNCHANGED <<issued, amended>> /\ Finish(s)
        BY <2>10, <3>1 DEF DeleteDeal, Cascade, HistoryOf, LedgerInv, TypeInv, TypeOK
      <3>3. (CurrentStageRecorded /\ NothingOutlivesItsDeal /\ LiveIssued)'
        BY <3>2 DEF LedgerInv, CurrentStageRecorded, NothingOutlivesItsDeal,
                    LiveIssued, Entered, HistoryOf
      <3>4. \A e \in issued : deals'[e] # None /\ e \notin amended' =>
               deals[e] # None /\ e \notin amended /\ \A x : Entered(e, x) => Entered(e, x)'
        BY <3>2 DEF Entered, HistoryOf, LedgerInv, TypeInv, TypeOK
      <3> QED
        BY <3>2, <3>3, <3>4, ReadsSurvive
    <2>11. CASE PatchHistory(s)
      <3>1. d \in Deal
        BY <2>11, ActiveTx DEF PatchHistory, LedgerInv, TypeInv
      <3>2. PICK h \in HistoryOf(d) :
              history' = (history \ {h}) \cup {[h EXCEPT !.to = t.req.stage]}
        BY <2>11 DEF PatchHistory
      <3> DEFINE r == [h EXCEPT !.to = t.req.stage]
      <3>3. h \in history /\ h.deal = d /\ r.deal = d
        BY <3>2 DEF HistoryOf, HistoryRow, LedgerInv, TypeInv, TypeOK
      <3>4. \A m : m.deal # d => (m \in history' <=> m \in history)
        BY <3>2, <3>3
      <3>5. /\ UNCHANGED <<deals, links, issued>>
            /\ amended' = amended \cup {d} /\ Finish(s)
        BY <2>11 DEF PatchHistory
      <3> HIDE DEF r
      <3>6. (CurrentStageRecorded /\ NothingOutlivesItsDeal /\ LiveIssued)'
        <4>1. deals[d] # None
          BY <3>1, <3>3 DEF LedgerInv, NothingOutlivesItsDeal, HistoryOf
        <4>2. CurrentStageRecorded'
          BY <3>4, <3>5 DEF LedgerInv, CurrentStageRecorded, Entered, HistoryOf
        <4> QED
          BY <3>4, <3>5, <4>1, <4>2
             DEF LedgerInv, NothingOutlivesItsDeal, LiveIssued, HistoryOf
      <3>7. \A e \in issued : deals'[e] # None /\ e \notin amended' =>
               deals[e] # None /\ e \notin amended /\ \A x : Entered(e, x) => Entered(e, x)'
        BY <3>4, <3>5 DEF Entered, HistoryOf
      <3> QED
        BY <3>5, <3>6, <3>7, ReadsSurvive
    <2> QED
      BY <1>2, <2>3, <2>4, <2>5, <2>6, <2>7, <2>8, <2>9, <2>10, <2>11 DEF Serve
  <1> QED
    BY <1>1, <1>2 DEF Next

LEMMA LedgerInvariant == Spec => []LedgerInv
  <1>1. LedgerInv /\ [Next]_vars => LedgerInv'
    BY LedgerInvStep
  <1> QED
    BY <1>1, InitLedgerInv, PTL DEF Spec

(* Whichever requests race, every deal has a history row into its current  *)
(* stage: the row that dates its close and puts it on the dashboard.       *)
THEOREM CurrentStageAlwaysRecorded == Spec => []CurrentStageRecorded
  <1>1. LedgerInv => CurrentStageRecorded
    BY DEF LedgerInv
  <1> QED
    BY <1>1, LedgerInvariant, PTL

(* A deleted deal leaves neither history nor links, whatever requests had  *)
(* it loaded when it went.                                                 *)
THEOREM NothingEverOutlivesItsDeal == Spec => []NothingOutlivesItsDeal
  <1>1. LedgerInv => NothingOutlivesItsDeal
    BY DEF LedgerInv
  <1> QED
    BY <1>1, LedgerInvariant, PTL

-----------------------------------------------------------------------------
(* The pipeline implements the ledger.                                     *)

LEMMA LedgerStep ==
  LedgerInv /\ [Next]_vars
    => [Ledger!LedgerNext]_(Ledger!ledgerVars)
  <1> SUFFICES ASSUME LedgerInv, [Next]_vars
               PROVE  Ledger!LedgerNext \/ UNCHANGED <<StageOf, history, amended>>
    BY DEF Ledger!ledgerVars
  <1>1. ASSUME UNCHANGED <<deals, history, amended>> PROVE UNCHANGED <<StageOf, history, amended>>
    BY <1>1 DEF StageOf
  <1>2. CASE UNCHANGED vars
    BY <1>1, <1>2 DEF vars
  <1>3. ASSUME NEW s \in Session, Serve(s)
        PROVE  Ledger!LedgerNext \/ UNCHANGED <<StageOf, history, amended>>
    <2> DEFINE t == txs[s]
               d == t.req.deal
    <2> USE DEF LedgerInv, TypeInv
    <2>1. CASE UNCHANGED <<deals, history, amended>>
      BY <1>1, <2>1
    <2>2. CASE CreateDeal(s)
      <3>1. /\ t \in Tx /\ d \in Deal /\ t.req.body \in Body /\ t.at \in 1..MaxTx
            /\ t.req.op = "create_deal"
        BY <2>2, ActiveTx DEF CreateDeal
      <3> DEFINE x == t.req.body.stage
                 row == [stage |-> x, reason |-> t.req.body.reason,
                         owner |-> t.req.body.owner]
      <3>2. x \in Stage /\ row \in DealRow /\ row # None
        BY <3>1, RequestAssumption, NullAssumption DEF Tx, Body, DealRow
      <3>3. deals[d] = None
        BY <2>2, <3>1 DEF CreateDeal, LiveIssued
      <3>4. deals' = [deals EXCEPT ![d] = row]
        BY <2>2 DEF CreateDeal
      <3>5. StageOf[d] = None /\ StageOf' = [StageOf EXCEPT ![d] = x]
        BY <3>1, <3>2, <3>3, <3>4 DEF StageOf, TypeOK
      <3>6. Ledger!Open(d, x, t.at)
        BY <2>2, <3>5 DEF Ledger!Open, CreateDeal, Record
      <3> QED
        BY <3>1, <3>2, <3>6 DEF Ledger!LedgerNext
    <2>3. CASE UpdateDeal(s) \/ PatchDeal(s)
      <3>1. Moved(s)
        BY <2>3, CommitsMove
      <3> DEFINE x == t.row.stage
                 y == InMemory(t).stage
      <3>2. /\ d \in Deal /\ t.at \in 1..MaxTx /\ x \in Stage /\ y \in Stage
            /\ deals'[d] # None
            /\ deals'[d].stage = IF StageChanged(t) THEN y ELSE deals[d].stage
            /\ \A e \in Deal : e # d => deals'[e] = deals[e]
        BY <3>1, MovedStage
      <3>3. deals[d] # None
        BY <3>1 DEF Moved
      <3>4. CASE StageChanged(t)
        <4>1. StageOf[d] # None
          BY <3>2, <3>3, NullAssumption DEF StageOf, TypeOK, DealRow
        <4>2. StageOf' = [StageOf EXCEPT ![d] = y]
          BY <3>2, <3>4 DEF StageOf
        <4>3. d \in amended \/ \E h \in history : h.deal = d /\ h.to = x
          BY <3>1, <3>3 DEF Moved, ReadsRecorded, Entered, HistoryOf
        <4>4. /\ history' = history \cup {[deal |-> d, from |-> x, to |-> y, at |-> t.at]}
              /\ amended' = amended
          BY <3>1, <3>4 DEF Moved, Record
        <4>5. x # y
          BY <3>4 DEF StageChanged
        <4>6. Ledger!Move(d, x, y, t.at)
          BY <4>1, <4>2, <4>3, <4>4, <4>5 DEF Ledger!Move, Ledger!EntryMade
        <4> QED
          BY <3>2, <4>6 DEF Ledger!LedgerNext
      <3>5. CASE ~StageChanged(t)
        <4>1. StageOf' = StageOf
          BY <3>2, <3>3, <3>5 DEF StageOf
        <4> QED
          BY <3>1, <3>5, <4>1 DEF Moved
      <3> QED
        BY <3>4, <3>5
    <2>4. CASE DeleteDeal(s)
      <3>1. d \in Deal /\ deals[d] # None
        BY <2>4, ActiveTx DEF DeleteDeal
      <3>2. StageOf[d] # None /\ StageOf' = [StageOf EXCEPT ![d] = None]
        BY <2>4, <3>1, NullAssumption DEF DeleteDeal, StageOf, TypeOK, DealRow
      <3>3. history' = {m \in history : m.deal # d}
        BY <2>4 DEF DeleteDeal, Cascade, HistoryOf
      <3>4. Ledger!Close(d)
        BY <2>4, <3>2, <3>3 DEF Ledger!Close, DeleteDeal
      <3> QED
        BY <3>1, <3>4 DEF Ledger!LedgerNext
    <2>5. CASE PatchHistory(s)
      <3>1. d \in Deal /\ t.req.stage \in Stage
        BY <2>5, ActiveTx DEF PatchHistory
      <3>2. PICK h \in HistoryOf(d) :
              history' = (history \ {h}) \cup {[h EXCEPT !.to = t.req.stage]}
        BY <2>5 DEF PatchHistory
      <3>3. StageOf' = StageOf /\ amended' = amended \cup {d}
        BY <2>5 DEF PatchHistory, StageOf
      <3>4. Ledger!Amend(d, h, t.req.stage)
        BY <3>2, <3>3 DEF Ledger!Amend, HistoryOf
      <3> QED
        BY <3>1, <3>2, <3>4 DEF Ledger!LedgerNext, HistoryOf
    <2> QED
      BY <1>3, <2>1, <2>2, <2>3, <2>4, <2>5
         DEF Serve, Begin, Rollback, LoadDeal, ClearContacts, CreateStage,
             UpdateStage, CheckStageUnused, DeleteStage, tables
  <1> QED
    BY <1>2, <1>3 DEF Next

(* Stage moves and their rows change together: under any interleaving of   *)
(* requests the pipeline takes only steps of StageLedger.                  *)
THEOREM PipelineKeepsLedger == Spec => LedgerKept
  <1>1. Init => Ledger!LedgerInit
    BY DEF Init, Ledger!LedgerInit, StageOf
  <1>2. LedgerInv /\ [Next]_vars => [Ledger!LedgerNext]_(Ledger!ledgerVars)
    BY LedgerStep
  <1>3. Spec => []LedgerInv
    BY LedgerInvariant
  <1> QED
    BY <1>1, <1>2, <1>3, PTL DEF Spec, LedgerKept, Ledger!LedgerSpec
=============================================================================

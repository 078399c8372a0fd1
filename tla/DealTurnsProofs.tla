--------------------------- MODULE DealTurnsProofs ---------------------------
(***************************************************************************)
(* Theorems about the behaviours of DealPipeline in which requests on one  *)
(* deal take turns, however many sessions there are and however requests   *)
(* on other deals and on stages overlap them.  The statements are false    *)
(* where two requests on one deal overlap.                                 *)
(***************************************************************************)
EXTENDS DealPipelineProofs

DealOps == {"create_deal", "update_deal", "delete_deal", "patch_deal", "patch_history"}

Serving(s, d) ==
  txs[s].phase # "idle" /\ txs[s].req.op \in DealOps /\ txs[s].req.deal = d

DealsTakeTurns ==
  \A s, o \in Session, d \in Deal : Serving(s, d) /\ Serving(o, d) => s = o

(* They do where one session serves all requests, as in the run            *)
(* deal_serial, and wherever requests on one deal never overlap.           *)
LEMMA OneSessionTakesTurns ==
  ASSUME \A s, o \in Session : s = o
  PROVE  Spec => []DealsTakeTurns
  <1>1. DealsTakeTurns
    BY DEF DealsTakeTurns
  <1> QED
    BY <1>1, PTL

-----------------------------------------------------------------------------
(* What a request read is still there when it writes, and every row of a   *)
(* deal is older than the transaction of the request that serves it.       *)

ReadsCurrent ==
  \A s \in Session : HoldsDeal(s) => deals[txs[s].req.deal] = txs[s].row

StampsPast ==
  /\ \A h \in history : h.at <= clock
  /\ \A s \in Session : txs[s].phase # "idle" => txs[s].at <= clock

RowsBefore ==
  \A s \in Session : \A h \in history : Serving(s, h.deal) => h.at < txs[s].at

TurnsInv == LedgerInv /\ ReadsCurrent /\ StampsPast /\ RowsBefore

(* Steps that end their request; the others leave deals and history alone. *)
Ends(s) ==
  \/ Rollback(s) \/ CreateDeal(s) \/ UpdateDeal(s) \/ PatchDeal(s)
  \/ DeleteDeal(s) \/ PatchHistory(s) \/ CreateStage(s) \/ UpdateStage(s)
  \/ DeleteStage(s)

LEMMA EndsFinish ==
  ASSUME TypeInv, NEW s \in Session, Ends(s)
  PROVE  /\ txs[s].phase # "idle" /\ clock' = clock
         /\ txs'[s].phase = "idle"
         /\ \A o \in Session : o # s => txs'[o] = txs[o]
  <1>1. Finish(s) /\ clock' = clock /\ txs[s].phase # "idle"
    BY DEF Ends, Rollback, CreateDeal, UpdateDeal, PatchDeal, DeleteDeal,
           PatchHistory, CreateStage, UpdateStage, DeleteStage, tables
  <1>2. txs \in [Session -> Tx \cup {Idle}]
    BY DEF TypeInv, TypeOK
  <1>3. \A o \in Session : txs'[o] = IF o = s THEN Idle ELSE txs[o]
    BY <1>1, <1>2 DEF Finish
  <1> QED
    BY <1>1, <1>3 DEF Idle

LEMMA StepsOn ==
  ASSUME TypeInv, NEW s \in Session, LoadDeal(s) \/ ClearContacts(s) \/ CheckStageUnused(s)
  PROVE  /\ txs[s].phase # "idle" /\ UNCHANGED <<deals, history, stages, clock>>
         /\ txs'[s].req = txs[s].req /\ txs'[s].at = txs[s].at
         /\ \A o \in Session : o # s => txs'[o] = txs[o]
  <1>1. txs[s].phase # "idle" /\ UNCHANGED <<deals, history, stages, clock>>
    BY DEF LoadDeal, ClearContacts, CheckStageUnused, tables
  <1>2. txs[s] \in Tx /\ txs \in [Session -> Tx \cup {Idle}]
    BY <1>1, ActiveTx DEF TypeInv, TypeOK
  <1>3. CASE LoadDeal(s)
    BY <1>1, <1>2, <1>3 DEF LoadDeal, Tx
  <1>4. CASE ClearContacts(s)
    BY <1>1, <1>2, <1>4 DEF ClearContacts, Tx
  <1>5. CASE CheckStageUnused(s)
    BY <1>1, <1>2, <1>5 DEF CheckStageUnused, Tx
  <1> QED
    BY <1>3, <1>4, <1>5

LEMMA Begun ==
  ASSUME TypeInv, NEW s \in Session, Begin(s)
  PROVE  /\ UNCHANGED <<deals, history, stages>>
         /\ txs'[s].phase = "begun" /\ txs'[s].at = clock + 1
         /\ clock \in Nat /\ clock' = clock + 1
         /\ \A o \in Session : o # s => txs'[o] = txs[o]
  <1>1. txs \in [Session -> Tx \cup {Idle}] /\ clock \in Nat
    BY BoundAssumption DEF TypeInv, TypeOK
  <1>2. PICK q \in Requests :
          txs' = [txs EXCEPT ![s] =
                   [phase |-> "begun", req |-> q, at |-> clock + 1,
                    row |-> None, kind |-> "absent", cleared |-> {}]]
    BY DEF Begin
  <1> QED
    BY <1>1, <1>2 DEF Begin, tables

(* A step changes the deal, and the rows of the deal, that it serves.      *)
LEMMA TouchesOwn ==
  ASSUME TypeInv, NEW s \in Session, Serve(s)
  PROVE  /\ \A e \in Deal : deals'[e] # deals[e] => Serving(s, e) /\ Ends(s)
         /\ \A h \in history' :
              \/ \E g \in history : g.deal = h.deal /\ g.at = h.at
              \/ Ends(s) /\ Serving(s, h.deal) /\ h.at = txs[s].at
  <1> DEFINE t == txs[s]
             d == t.req.deal
  <1>1. CASE UNCHANGED <<deals, history>>
    BY <1>1
  <1>2. CASE CreateDeal(s)
    <2>1. Serving(s, d) /\ d \in Deal /\ Ends(s)
      BY <1>2, ActiveTx DEF CreateDeal, Serving, DealOps, Ends, TypeInv
    <2>2. \A e \in Deal : e # d => deals'[e] = deals[e]
      BY <1>2, <2>1 DEF CreateDeal, TypeInv, TypeOK
    <2>3. history' = history \cup
            {[deal |-> d, from |-> None, to |-> t.req.body.stage, at |-> t.at]}
      BY <1>2 DEF CreateDeal, Record
    <2>4. \A h \in history' : h \in history \/ (h.deal = d /\ h.at = t.at)
      BY <2>3
    <2> QED
      BY <2>1, <2>2, <2>4
  <1>3. CASE UpdateDeal(s) \/ PatchDeal(s)
    <2>1. Serving(s, d) /\ Ends(s)
      BY <1>3 DEF UpdateDeal, PatchDeal, Serving, DealOps, Ends
    <2>2. Moved(s)
      BY <1>3, CommitsMove
    <2>3. \A e \in Deal : e # d => deals'[e] = deals[e]
      BY <2>2, MovedStage
    <2>4. \A h \in history' : h \in history \/ (h.deal = d /\ h.at = t.at)
      BY <2>2 DEF Moved, Record
    <2> QED
      BY <2>1, <2>3, <2>4
  <1>4. CASE DeleteDeal(s)
    <2>1. Serving(s, d) /\ d \in Deal /\ Ends(s)
      BY <1>4, ActiveTx DEF DeleteDeal, Serving, DealOps, Ends, TypeInv
    <2> QED
      BY <1>4, <2>1 DEF DeleteDeal, Cascade, TypeInv, TypeOK
  <1>5. CASE PatchHistory(s)
    <2>1. PICK h \in HistoryOf(d) :
            history' = (history \ {h}) \cup {[h EXCEPT !.to = t.req.stage]}
      BY <1>5 DEF PatchHistory
    <2>2. h \in HistoryRow /\ h \in history
      BY <2>1 DEF HistoryOf, TypeInv, TypeOK
    <2>3. /\ [h EXCEPT !.to = t.req.stage].deal = h.deal
          /\ [h EXCEPT !.to = t.req.stage].at = h.at
      BY <2>2 DEF HistoryRow
    <2>4. deals' = deals
      BY <1>5 DEF PatchHistory
    <2> QED
      BY <2>1, <2>2, <2>3, <2>4
  <1> QED
    BY <1>1, <1>2, <1>3, <1>4, <1>5
       DEF Serve, Begin, Rollback, LoadDeal, ClearContacts, CreateStage,
           UpdateStage, CheckStageUnused, DeleteStage, tables

LEMMA InitTurnsInv == Init => TurnsInv
  <1> SUFFICES ASSUME Init PROVE TurnsInv
    OBVIOUS
  <1>1. history = {} /\ \A s \in Session : txs[s].phase = "idle"
    BY DEF Init, Idle
  <1> QED
    BY <1>1, InitLedgerInv
       DEF TurnsInv, ReadsCurrent, StampsPast, RowsBefore, HoldsDeal, Serving

LEMMA TurnsInvStep == TurnsInv /\ DealsTakeTurns /\ [Next]_vars => TurnsInv'
  <1> SUFFICES ASSUME TurnsInv, DealsTakeTurns, [Next]_vars PROVE TurnsInv'
    OBVIOUS
  <1>0. LedgerInv' /\ TypeInv
    BY LedgerInvStep DEF TurnsInv, LedgerInv
  <1>1. CASE UNCHANGED vars
    BY <1>0, <1>1 DEF vars, TurnsInv, ReadsCurrent, StampsPast, RowsBefore,
                      HoldsDeal, Serving
  <1>2. ASSUME NEW s \in Session, Serve(s)
        PROVE  (ReadsCurrent /\ StampsPast /\ RowsBefore)'
    <2>0. /\ clock \in Nat
          /\ \A h \in history : h.at \in Nat /\ h.deal \in Deal
          /\ \A o \in Session : txs[o].phase # "idle" => txs[o].at \in Nat
      BY <1>0, BoundAssumption, ActiveTx DEF TypeInv, TypeOK, HistoryRow
    <2>1. /\ \A e \in Deal : deals'[e] # deals[e] => Serving(s, e) /\ Ends(s)
          /\ \A h \in history' :
               \/ \E g \in history : g.deal = h.deal /\ g.at = h.at
               \/ Ends(s) /\ Serving(s, h.deal) /\ h.at = txs[s].at
      BY <1>0, <1>2, TouchesOwn
    <2>2. \A o \in Session : HoldsDeal(o) =>
            /\ Serving(o, txs[o].req.deal) /\ txs[o].req.deal \in Deal
            /\ txs[o].phase # "idle"
      BY <1>0, ActiveTx DEF HoldsDeal, Serving, DealOps, TypeInv
    <2>3. ASSUME \A o \in Session : o # s => txs'[o] = txs[o]
          PROVE  \A o \in Session :
                   o # s /\ HoldsDeal(o)' => deals'[txs'[o].req.deal] = txs'[o].row
      <3> SUFFICES ASSUME NEW o \in Session, o # s, HoldsDeal(o)'
                   PROVE  deals'[txs'[o].req.deal] = txs'[o].row
        OBVIOUS
      <3>1. txs'[o] = txs[o] /\ HoldsDeal(o)
        BY <2>3 DEF HoldsDeal
      <3>2. ~Serving(s, txs[o].req.deal)
        BY <2>2, <3>1 DEF DealsTakeTurns
      <3>3. deals'[txs[o].req.deal] = deals[txs[o].req.deal]
        BY <2>1, <2>2, <3>1, <3>2
      <3> QED
        BY <3>1, <3>3 DEF TurnsInv, ReadsCurrent
    <2>4. CASE Begin(s)
      <3>1. /\ UNCHANGED <<deals, history>>
            /\ txs'[s].phase = "begun" /\ txs'[s].at = clock + 1
            /\ clock' = clock + 1
            /\ \A o \in Session : o # s => txs'[o] = txs[o]
        BY <1>0, <2>4, Begun
      <3>2. ReadsCurrent'
        BY <2>3, <3>1 DEF ReadsCurrent, HoldsDeal
      <3>3. StampsPast'
        BY <2>0, <3>1 DEF TurnsInv, StampsPast
      <3>4. ASSUME NEW o \in Session, NEW h \in history, Serving(o, h.deal)'
            PROVE  h.at < txs'[o].at
        <4>1. CASE o = s
          BY <2>0, <3>1, <4>1 DEF TurnsInv, StampsPast
        <4>2. CASE o # s
          BY <3>1, <3>4, <4>2 DEF TurnsInv, RowsBefore, Serving
        <4> QED
          BY <4>1, <4>2
      <3>5. RowsBefore'
        BY <3>1, <3>4 DEF RowsBefore
      <3> QED
        BY <3>2, <3>3, <3>5
    <2>5. CASE LoadDeal(s) \/ ClearContacts(s) \/ CheckStageUnused(s)
      <3>1. /\ txs[s].phase # "idle" /\ UNCHANGED <<deals, history, clock>>
            /\ txs'[s].req = txs[s].req /\ txs'[s].at = txs[s].at
            /\ \A o \in Session : o # s => txs'[o] = txs[o]
        BY <1>0, <2>5, StepsOn
      <3>2. HoldsDeal(s)' => deals'[txs'[s].req.deal] = txs'[s].row
        <4>1. txs[s] \in Tx /\ txs \in [Session -> Tx \cup {Idle}]
          BY <1>0, <3>1, ActiveTx DEF TypeInv, TypeOK
        <4>2. CASE LoadDeal(s)
          BY <3>1, <4>1, <4>2 DEF LoadDeal, Tx
        <4>3. CASE ClearContacts(s)
          <5>1. txs'[s].row = txs[s].row /\ HoldsDeal(s)
            BY <4>1, <4>3 DEF ClearContacts, Tx, HoldsDeal
          <5> QED
            BY <3>1, <5>1 DEF TurnsInv, ReadsCurrent
        <4>4. CASE CheckStageUnused(s)
          BY <3>1, <4>4 DEF CheckStageUnused, HoldsDeal
        <4> QED
          BY <2>5, <4>2, <4>3, <4>4
      <3>3. ReadsCurrent'
        BY <2>3, <3>1, <3>2 DEF ReadsCurrent
      <3>4. \A o \in Session : txs'[o].phase # "idle" =>
              txs[o].phase # "idle" /\ txs'[o].at = txs[o].at
        BY <3>1
      <3>5. StampsPast'
        BY <3>1, <3>4 DEF TurnsInv, StampsPast
      <3>6. \A o \in Session, h \in history : Serving(o, h.deal)' => Serving(o, h.deal)
        BY <3>1, <3>4 DEF Serving
      <3>7. RowsBefore'
        BY <3>1, <3>4, <3>6 DEF TurnsInv, RowsBefore, Serving
      <3> QED
        BY <3>3, <3>5, <3>7
    <2>6. CASE Ends(s)
      <3>1. /\ txs[s].phase # "idle" /\ clock' = clock
            /\ txs'[s].phase = "idle"
            /\ \A o \in Session : o # s => txs'[o] = txs[o]
        BY <1>0, <2>6, EndsFinish
      <3>2. ReadsCurrent'
        BY <2>3, <3>1 DEF ReadsCurrent, HoldsDeal
      <3>3. StampsPast'
        BY <2>0, <2>1, <3>1 DEF TurnsInv, StampsPast
      <3>4. ASSUME NEW o \in Session, NEW h \in history', Serving(o, h.deal)'
            PROVE  h.at < txs'[o].at
        <4>1. o # s /\ txs'[o] = txs[o] /\ Serving(o, h.deal)
          BY <3>1, <3>4 DEF Serving
        <4>2. h.deal \in Deal
          BY <1>0 DEF LedgerInv, TypeInv, TypeOK, HistoryRow
        <4>3. ~Serving(s, h.deal)
          BY <4>1, <4>2 DEF DealsTakeTurns
        <4>4. PICK g \in history : g.deal = h.deal /\ g.at = h.at
          BY <2>1, <4>3
        <4> QED
          BY <4>1, <4>4 DEF TurnsInv, RowsBefore
      <3>5. RowsBefore'
        BY <3>4 DEF RowsBefore
      <3> QED
        BY <3>2, <3>3, <3>5
    <2> QED
      BY <1>2, <2>4, <2>5, <2>6 DEF Serve, Ends
  <1> QED
    BY <1>0, <1>1, <1>2 DEF Next, TurnsInv

LEMMA TurnsInvariant == Spec /\ []DealsTakeTurns => []TurnsInv
  <1>1. TurnsInv /\ DealsTakeTurns /\ [Next]_vars => TurnsInv'
    BY TurnsInvStep
  <1> QED
    BY <1>1, InitTurnsInv, PTL DEF Spec

-----------------------------------------------------------------------------
(* What the commit of a move does when the row it read is current.         *)

LEMMA MovesCurrent ==
  ASSUME TurnsInv, NEW s \in Session, UpdateDeal(s) \/ PatchDeal(s)
  PROVE  LET t == txs[s]
             d == t.req.deal
         IN  /\ d \in Deal /\ Serving(s, d) /\ Ends(s)
             /\ deals[d] = t.row /\ t.row \in DealRow /\ t.at \in Nat
             /\ deals' = [deals EXCEPT ![d] = InMemory(t)]
             /\ deals'[d] = InMemory(t) /\ InMemory(t) \in DealRow
             /\ ~StageChanged(t) => history' = history
             /\ StageChanged(t) => Record(t, t.row.stage, InMemory(t).stage)
             /\ amended' = amended /\ stages' = stages
  <1> DEFINE t == txs[s]
             d == t.req.deal
  <1>1. TypeInv /\ Moved(s)
    BY CommitsMove DEF TurnsInv, LedgerInv
  <1>2. HoldsDeal(s) /\ t.phase # "idle" /\ Serving(s, d) /\ Ends(s) /\ stages' = stages
    BY DEF UpdateDeal, PatchDeal, HoldsDeal, Serving, DealOps, Ends
  <1>3. d \in Deal /\ t.req.body \in Body /\ t.row \in DealRow /\ t.at \in Nat
    BY <1>1, <1>2, ActiveTx DEF TypeInv, ReadRowsTyped
  <1>4. deals[d] = t.row
    BY <1>2 DEF TurnsInv, ReadsCurrent
  <1>5. InMemory(t) \in DealRow
    BY <1>3, RowViews
  <1>6. Flushed(t, t.row) = InMemory(t)
    BY <1>3 DEF Flushed, InMemory
  <1>7. deals' = [deals EXCEPT ![d] = InMemory(t)]
    BY <1>1, <1>4, <1>6 DEF Moved
  <1>8. deals'[d] = InMemory(t)
    BY <1>1, <1>3, <1>7 DEF TypeInv, TypeOK
  <1> QED
    BY <1>1, <1>2, <1>3, <1>4, <1>5, <1>7, <1>8 DEF Moved

-----------------------------------------------------------------------------
(* A row added after all the others is the last one.                       *)

LEMMA LatestIsLast ==
  ASSUME NEW H, NEW r \in H, r.at \in Nat,
         \A h \in H : h = r \/ (h.at \in Nat /\ h.at < r.at)
  PROVE  LastRow(H) = r
  <1>1. \A g \in H : g.at <= r.at
    OBVIOUS
  <1>2. \A h \in H : (\A g \in H : g.at <= h.at) => h = r
    <2> SUFFICES ASSUME NEW h \in H, \A g \in H : g.at <= h.at, h # r PROVE FALSE
      OBVIOUS
    <2> QED
      OBVIOUS
  <1> QED
    BY <1>1, <1>2 DEF LastRow

(* Where requests on one deal take turns, a close is dated by the move     *)
(* that made it, moves through generic_patch and hand-edited rows included.*)
THEOREM CloseAlwaysDatedByItsMove ==
  Spec /\ []DealsTakeTurns => CloseDatedByItsMove
  <1>1. ASSUME TurnsInv, [Next]_vars, NEW d \in Deal,
               deals[d] # None, deals'[d] # None, deals'[d].stage # deals[d].stage,
               NEW h \in history', h \notin history
        PROVE  h.at = LatestEntry(d)'
    <2>0. TypeInv /\ history \subseteq HistoryRow
      BY <1>1 DEF TurnsInv, LedgerInv, TypeInv, TypeOK
    <2>1. PICK s \in Session : Serve(s)
      BY <1>1 DEF Next, vars
    <2>2. Serving(s, d) /\ Ends(s)
      BY <1>1, <2>0, <2>1, TouchesOwn
    <2> DEFINE t == txs[s]
    <2>3. t.req.deal = d
      BY <2>2 DEF Serving
    <2>4. UpdateDeal(s) \/ PatchDeal(s)
      <3>1. ~CreateDeal(s)
        BY <1>1, <2>3 DEF CreateDeal, TurnsInv, LedgerInv, LiveIssued
      <3>2. ~DeleteDeal(s)
        BY <1>1, <2>0, <2>3 DEF DeleteDeal, TypeInv, TypeOK
      <3> QED
        BY <1>1, <2>2, <3>1, <3>2 DEF Ends, Rollback, PatchHistory, CreateStage,
           UpdateStage, DeleteStage, tables
    <2>5. /\ deals[d] = t.row /\ t.at \in Nat /\ deals'[d] = InMemory(t)
          /\ StageChanged(t) => Record(t, t.row.stage, InMemory(t).stage)
      BY <1>1, <2>3, <2>4, MovesCurrent
    <2>6. Record(t, t.row.stage, InMemory(t).stage)
      BY <1>1, <2>5 DEF StageChanged
    <2> DEFINE r == [deal |-> d, from |-> t.row.stage, to |-> InMemory(t).stage, at |-> t.at]
               H == {g \in history' : g.deal = d /\ g.to = deals'[d].stage}
    <2>7. history' = history \cup {r}
      BY <2>3, <2>6 DEF Record
    <2>8. h = r
      BY <1>1, <2>7
    <2>9. r \in H /\ r.at = t.at
      BY <2>5, <2>7
    <2>10. \A g \in H : g = r \/ (g.at \in Nat /\ g.at < r.at)
      <3> SUFFICES ASSUME NEW g \in H, g # r PROVE g.at \in Nat /\ g.at < r.at
        OBVIOUS
      <3>1. g \in history /\ g.deal = d
        BY <2>7
      <3>2. g.at < t.at
        BY <1>1, <2>2, <3>1 DEF TurnsInv, RowsBefore
      <3>3. g.at \in Nat
        BY <2>0, <3>1, BoundAssumption DEF HistoryRow
      <3> QED
        BY <2>9, <3>2, <3>3
    <2> HIDE DEF r
    <2>11. LastRow(H) = r
      BY <2>5, <2>9, <2>10, LatestIsLast
    <2>12. LatestEntry(d)' = LastRow(H).at
      <3>1. H = {g \in HistoryOf(d)' : g.to = deals'[d].stage}
        BY DEF HistoryOf
      <3> QED
        BY <3>1 DEF LatestEntry, LastRow
    <2> QED
      BY <2>8, <2>11, <2>12
  <1>2. TurnsInv /\ [Next]_vars =>
          [\A d \in Deal :
             deals[d] # None /\ deals'[d] # None /\ deals'[d].stage # deals[d].stage
               => \A h \in history' \ history : h.at = LatestEntry(d)']_vars
    BY <1>1
  <1> QED
    BY <1>2, TurnsInvariant, PTL DEF Spec, CloseDatedByItsMove

(* Where requests on one deal take turns, a move's notice goes to the      *)
(* deal's owner after the move.                                            *)
THEOREM MovesNotifyTheirOwner ==
  Spec /\ []DealsTakeTurns => MoveNotifiesOwner
  <1>1. ASSUME TurnsInv, [Next]_vars, NEW n \in notices', n \notin notices,
               n.type = "deal_stage_changed"
        PROVE  n.recipient = deals'[n.deal].owner
    <2>1. PICK s \in Session : Serve(s)
      BY <1>1 DEF Next, vars
    <2> DEFINE t == txs[s]
    <2>2. ~CreateDeal(s)
      <3> SUFFICES ASSUME CreateDeal(s) PROVE FALSE
        OBVIOUS
      <3>1. notices' = notices \cup
              {[type |-> "deal_created", deal |-> t.req.deal, recipient |-> u, at |-> t.at] :
                 u \in Notifiable}
        BY DEF CreateDeal
      <3> QED
        BY <1>1, <3>1
    <2>3. UpdateDeal(s)
      BY <1>1, <2>1, <2>2
         DEF Serve, Begin, Rollback, LoadDeal, ClearContacts, DeleteDeal, PatchDeal,
             PatchHistory, CreateStage, UpdateStage, CheckStageUnused, DeleteStage, tables
    <2>4. n = MoveNotice(t)
      BY <1>1, <2>3 DEF UpdateDeal
    <2>5. deals'[t.req.deal] = InMemory(t)
      BY <1>1, <2>3, MovesCurrent
    <2> QED
      BY <2>4, <2>5 DEF MoveNotice
  <1>2. TurnsInv /\ [Next]_vars =>
          [\A n \in notices' \ notices : n.type = "deal_stage_changed"
             => n.recipient = deals'[n.deal].owner]_vars
    BY <1>1
  <1> QED
    BY <1>2, TurnsInvariant, PTL DEF Spec, MoveNotifiesOwner

-----------------------------------------------------------------------------
(* A history nobody rewrites by hand is one path.                          *)

HistoryUntouched == \A q \in Requests : q.op # "patch_history"

(* With no row rewritten, amended stays empty and the path of every deal   *)
(* is complete: its last row entered the stage the deal stands in.         *)
PathInv == TurnsInv /\ amended = {} /\ HistoryIsAPath

LEMMA PathStep ==
  ASSUME HistoryUntouched
  PROVE  PathInv /\ DealsTakeTurns /\ [Next]_vars => PathInv'
  <1> SUFFICES ASSUME PathInv, DealsTakeTurns, [Next]_vars PROVE PathInv'
    OBVIOUS
  <1>0. TurnsInv' /\ TurnsInv /\ TypeInv
    BY TurnsInvStep DEF PathInv, TurnsInv, LedgerInv
  <1>1. CASE UNCHANGED vars
    BY <1>0, <1>1 DEF vars, PathInv, HistoryIsAPath, HistoryOf, LastRow
  <1>2. ASSUME NEW s \in Session, Serve(s) PROVE amended' = {} /\ HistoryIsAPath'
    <2> DEFINE t == txs[s]
               d == t.req.deal
    <2>0. /\ history \subseteq HistoryRow
          /\ \A h \in history : h.at \in Nat
      BY <1>0, BoundAssumption DEF TypeInv, TypeOK, HistoryRow
    <2>8. PICK c : c = d
      OBVIOUS
    <2> USE <2>8
    <2>1. ~PatchHistory(s)
      <3> SUFFICES ASSUME PatchHistory(s) PROVE FALSE
        OBVIOUS
      <3>1. t \in Tx /\ t.req.op = "patch_history"
        BY <1>0, ActiveTx DEF PatchHistory, TypeInv
      <3> QED
        BY <3>1 DEF Tx, HistoryUntouched
    <2>2. amended' = {}
      BY <1>2, <2>1 DEF PathInv, Serve, Begin, Rollback, CreateDeal, LoadDeal,
         ClearContacts, UpdateDeal, DeleteDeal, PatchDeal, CreateStage,
         UpdateStage, CheckStageUnused, DeleteStage, tables
    (* A deal whose row and history a step leaves alone stays a path.      *)
    <2>3. ASSUME NEW e \in Deal, deals'[e] = deals[e], HistoryOf(e)' = HistoryOf(e),
                 deals'[e] # None
          PROVE  /\ \A h \in HistoryOf(e)' :
                      LET before == {g \in HistoryOf(e)' : g.at < h.at}
                      IN  h.from = IF before = {} THEN None ELSE LastRow(before).to
                 /\ LastRow(HistoryOf(e)').to = deals'[e].stage
      BY <2>3 DEF PathInv, HistoryIsAPath
    <2>4. CASE UNCHANGED <<deals, history>>
      BY <2>2, <2>3, <2>4 DEF HistoryIsAPath, HistoryOf, LastRow
    <2>5. CASE CreateDeal(s)
      <3>1. /\ t \in Tx /\ d \in Deal /\ t.at \in Nat
            /\ t.req.op = "create_deal" /\ t.req.body \in Body
        BY <1>0, <2>5, ActiveTx DEF CreateDeal, TypeInv
      <3> DEFINE x == t.req.body.stage
                 r == [deal |-> d, from |-> None, to |-> x, at |-> t.at]
      <3>2. deals[d] = None /\ HistoryOf(d) = {}
        BY <1>0, <2>5, <3>1
           DEF CreateDeal, TurnsInv, LedgerInv, LiveIssued, NothingOutlivesItsDeal
      <3>3. deals'[c].stage = x /\ \A e \in Deal : e # d => deals'[e] = deals[e]
        BY <1>0, <2>5, <3>1 DEF CreateDeal, TypeInv, TypeOK
      <3>4. history' = history \cup {r}
        BY <2>5 DEF CreateDeal, Record
      <3>5. HistoryOf(c)' = {r}
        BY <3>2, <3>4 DEF HistoryOf
      <3>6. \A e \in Deal : e # d => HistoryOf(e)' = HistoryOf(e)
        BY <3>4 DEF HistoryOf
      <3>7. LastRow({r}) = r
        <4>1. r.at \in Nat
          BY <3>1
        <4> HIDE DEF r
        <4>2. r.at <= r.at /\ \A h \in {r} : h = r
          BY <4>1
        <4> QED
          BY <4>2 DEF LastRow
      <3>8. {g \in {r} : g.at < r.at} = {}
        BY <3>1
      <3>9. /\ \A h \in HistoryOf(c)' :
                 LET before == {g \in HistoryOf(c)' : g.at < h.at}
                 IN  h.from = IF before = {} THEN None ELSE LastRow(before).to
            /\ LastRow(HistoryOf(c)').to = deals'[c].stage
        BY <3>3, <3>5, <3>7, <3>8
      <3>10. \A e \in Deal : deals'[e] # None =>
               /\ \A h \in HistoryOf(e)' :
                    LET before == {g \in HistoryOf(e)' : g.at < h.at}
                    IN  h.from = IF before = {} THEN None ELSE LastRow(before).to
               /\ LastRow(HistoryOf(e)').to = deals'[e].stage
        BY <2>3, <3>3, <3>6, <3>9
      <3> QED
        BY <2>2, <3>10 DEF HistoryIsAPath, HistoryOf, LastRow
    <2>6. CASE UpdateDeal(s) \/ PatchDeal(s)
      <3>1. /\ d \in Deal /\ Serving(s, d)
            /\ deals[d] = t.row /\ t.row \in DealRow /\ t.at \in Nat
            /\ deals' = [deals EXCEPT ![d] = InMemory(t)]
            /\ deals'[c] = InMemory(t) /\ InMemory(t) \in DealRow
            /\ ~StageChanged(t) => history' = history
            /\ StageChanged(t) => Record(t, t.row.stage, InMemory(t).stage)
        BY <1>0, <2>6, MovesCurrent
      <3>2. \A e \in Deal : e # d => deals'[e] = deals[e]
        BY <1>0, <3>1 DEF TypeInv, TypeOK
      <3>3. deals[d] # None
        BY <3>1, NullAssumption
      <3> DEFINE H == HistoryOf(c)
                 r == [deal |-> d, from |-> t.row.stage, to |-> InMemory(t).stage,
                       at |-> t.at]
      <3>4. CASE ~StageChanged(t)
        <4>1. history' = history /\ deals'[c].stage = deals[d].stage
          BY <3>1, <3>4 DEF StageChanged
        <4>2. \A e \in Deal : HistoryOf(e)' = HistoryOf(e) /\ deals'[e].stage = deals[e].stage
          BY <3>2, <4>1 DEF HistoryOf
        <4>3. \A e \in Deal : deals'[e] # None => deals[e] # None
          BY <3>2, <3>3
        <4>4. \A e \in Deal : deals'[e] # None =>
               /\ \A h \in HistoryOf(e)' :
                    LET before == {g \in HistoryOf(e)' : g.at < h.at}
                    IN  h.from = IF before = {} THEN None ELSE LastRow(before).to
               /\ LastRow(HistoryOf(e)').to = deals'[e].stage
          BY <4>2, <4>3 DEF PathInv, HistoryIsAPath
        <4> QED
          BY <2>2, <4>4 DEF HistoryIsAPath, HistoryOf, LastRow
      <3>5. CASE StageChanged(t)
        <4>1. history' = history \cup {r}
          BY <3>1, <3>5 DEF Record
        <4>2. \A e \in Deal : e # d => HistoryOf(e)' = HistoryOf(e)
          BY <4>1 DEF HistoryOf
        <4>3. HistoryOf(c)' = H \cup {r}
          BY <4>1 DEF HistoryOf
        <4>4. \A h \in H : h.at \in Nat /\ h.at < t.at
          BY <1>0, <2>0, <3>1 DEF HistoryOf, TurnsInv, RowsBefore
        <4>5. H # {}
          <5>1. CurrentStageRecorded
            BY <1>0 DEF TurnsInv, LedgerInv
          <5> QED
            BY <3>1, <3>3, <5>1 DEF CurrentStageRecorded, Entered, PathInv
        <4>6. /\ \A h \in H :
                   LET before == {g \in H : g.at < h.at}
                   IN  h.from = IF before = {} THEN None ELSE LastRow(before).to
              /\ LastRow(H).to = t.row.stage
          BY <3>1, <3>3 DEF PathInv, HistoryIsAPath
        <4>7. r.at = t.at /\ r.from = t.row.stage /\ r.to = deals'[c].stage
          BY <3>1
        <4> HIDE DEF r, H
        <4>8. LastRow(H \cup {r}) = r
          BY <3>1, <4>4, <4>7, LatestIsLast
        <4>9. {g \in H \cup {r} : g.at < r.at} = H
          BY <3>1, <4>4, <4>7
        <4>10. \A h \in H : {g \in H \cup {r} : g.at < h.at} = {g \in H : g.at < h.at}
          BY <3>1, <4>4, <4>7
        <4>11. /\ \A h \in HistoryOf(c)' :
                    LET before == {g \in HistoryOf(c)' : g.at < h.at}
                    IN  h.from = IF before = {} THEN None ELSE LastRow(before).to
               /\ LastRow(HistoryOf(c)').to = deals'[c].stage
          <5>1. LastRow(HistoryOf(c)').to = deals'[c].stage
            BY <4>3, <4>7, <4>8
          <5>2. r.from = IF {g \in H \cup {r} : g.at < r.at} = {} THEN None
                         ELSE LastRow({g \in H \cup {r} : g.at < r.at}).to
            BY <4>5, <4>6, <4>7, <4>9
          <5>3. \A h \in H : h.from = IF {g \in H \cup {r} : g.at < h.at} = {} THEN None
                                      ELSE LastRow({g \in H \cup {r} : g.at < h.at}).to
            BY <4>6, <4>10
          <5> QED
            BY <4>3, <5>1, <5>2, <5>3
        <4>12. \A e \in Deal : deals'[e] # None =>
               /\ \A h \in HistoryOf(e)' :
                    LET before == {g \in HistoryOf(e)' : g.at < h.at}
                    IN  h.from = IF before = {} THEN None ELSE LastRow(before).to
               /\ LastRow(HistoryOf(e)').to = deals'[e].stage
          BY <2>3, <3>2, <4>2, <4>11
        <4> QED
          BY <2>2, <4>12 DEF HistoryIsAPath, HistoryOf, LastRow
      <3> QED
        BY <3>4, <3>5
    <2>7. CASE DeleteDeal(s)
      <3>1. d \in Deal
        BY <1>0, <2>7, ActiveTx DEF DeleteDeal, TypeInv
      <3>2. /\ deals'[c] = None
            /\ \A e \in Deal : e # d => deals'[e] = deals[e]
            /\ history' = history \ HistoryOf(d)
        BY <1>0, <2>7, <3>1 DEF DeleteDeal, Cascade, TypeInv, TypeOK
      <3>3. \A e \in Deal : e # d => HistoryOf(e)' = HistoryOf(e)
        BY <3>2 DEF HistoryOf
      <3>4. \A e \in Deal : deals'[e] # None =>
              /\ \A h \in HistoryOf(e)' :
                   LET before == {g \in HistoryOf(e)' : g.at < h.at}
                   IN  h.from = IF before = {} THEN None ELSE LastRow(before).to
              /\ LastRow(HistoryOf(e)').to = deals'[e].stage
        BY <2>3, <3>2, <3>3
      <3> QED
        BY <2>2, <3>4 DEF HistoryIsAPath, HistoryOf, LastRow
    <2> QED
      BY <1>2, <2>1, <2>4, <2>5, <2>6, <2>7
         DEF Serve, Begin, Rollback, LoadDeal, ClearContacts, CreateStage,
             UpdateStage, CheckStageUnused, DeleteStage, tables
  <1> QED
    BY <1>0, <1>1, <1>2 DEF Next, PathInv

(* Where requests on one deal take turns and nobody rewrites a history row *)
(* by hand, what list_stage_history shows is one path that ends where the  *)
(* deal is, moves through generic_patch and deleted stages included.       *)
THEOREM HistoryStaysAPath ==
  ASSUME HistoryUntouched
  PROVE  Spec /\ []DealsTakeTurns => []HistoryIsAPath
  <1>1. Init => PathInv
    BY InitTurnsInv DEF Init, PathInv, HistoryIsAPath
  <1>2. PathInv /\ DealsTakeTurns /\ [Next]_vars => PathInv'
    BY PathStep
  <1>3. PathInv => HistoryIsAPath
    BY DEF PathInv
  <1> QED
    BY <1>1, <1>2, <1>3, PTL DEF Spec

-----------------------------------------------------------------------------
(* The reason of a cold deal.                                              *)

(* Neither generic_patch on a deal nor an edit of a stage.                 *)
CheckedEditsOnly == \A q \in Requests : q.op \notin {"patch_deal", "update_stage"}

(* The kind of the stage, as read with the deal, is still that stage's.    *)
KindRead ==
  \A s \in Session : HoldsDeal(s) => txs[s].kind = stages[txs[s].row.stage]

ReasonInv == TurnsInv /\ StagesInUseExist /\ KindRead /\ ColdReasonOnRecord

LEMMA ReasonStep ==
  ASSUME CheckedEditsOnly
  PROVE  ReasonInv /\ DealsTakeTurns /\ [Next]_vars => ReasonInv'
  <1> SUFFICES ASSUME ReasonInv, DealsTakeTurns, [Next]_vars PROVE ReasonInv'
    OBVIOUS
  <1>0. /\ TurnsInv' /\ TurnsInv /\ TypeInv /\ StagesInUseExist /\ StagesInUseExist'
    BY TurnsInvStep, StagesInUseStep DEF ReasonInv, TurnsInv, LedgerInv
  <1>1. CASE UNCHANGED vars
    BY <1>0, <1>1 DEF vars, ReasonInv, KindRead, HoldsDeal, ColdReasonOnRecord, NeedsReason
  <1>2. ASSUME NEW s \in Session, Serve(s) PROVE KindRead' /\ ColdReasonOnRecord'
    <2> DEFINE t == txs[s]
               d == t.req.deal
    <2>1. ~PatchDeal(s) /\ ~UpdateStage(s)
      <3>1. t.phase # "idle" => t \in Tx
        BY <1>0, ActiveTx DEF TypeInv
      <3> QED
        BY <3>1 DEF PatchDeal, UpdateStage, Tx, CheckedEditsOnly
    (* A stage that a deal stands in keeps its kind.                       *)
    <2>2. \A e \in Deal : deals[e] # None => stages'[deals[e].stage] = stages[deals[e].stage]
      <3>1. CASE UNCHANGED stages
        BY <3>1
      <3>2. CASE CreateStage(s)
        BY <1>0, <3>2 DEF CreateStage, StagesInUseExist, Exists, Kind, TypeInv, TypeOK
      <3>3. CASE DeleteStage(s)
        BY <1>0, <3>3 DEF DeleteStage, Unreferenced, InUse, TypeInv, TypeOK
      <3> QED
        BY <1>2, <2>1, <3>1, <3>2, <3>3
           DEF Serve, Begin, Rollback, CreateDeal, LoadDeal, ClearContacts, UpdateDeal,
               DeleteDeal, PatchHistory, CheckStageUnused, tables
    <2>3. \A o \in Session : HoldsDeal(o) =>
            /\ txs[o].req.deal \in Deal /\ deals[txs[o].req.deal] = txs[o].row
            /\ txs[o].row # None /\ txs[o].kind = stages[txs[o].row.stage]
      <3>1. \A o \in Session : HoldsDeal(o) => txs[o].phase # "idle"
        BY DEF HoldsDeal
      <3> QED
        BY <1>0, <3>1, ActiveTx, NullAssumption
           DEF TypeInv, ReadRowsTyped, TurnsInv, ReadsCurrent, ReasonInv, KindRead
    <2>4. ASSUME NEW o \in Session, HoldsDeal(o)',
                 HoldsDeal(o), txs'[o].row = txs[o].row, txs'[o].kind = txs[o].kind
          PROVE  txs'[o].kind = stages'[txs'[o].row.stage]
      BY <2>2, <2>3, <2>4
    <2>5. KindRead'
      <3>1. CASE Begin(s)
        <4>1. /\ txs'[s].phase = "begun"
              /\ \A o \in Session : o # s => txs'[o] = txs[o]
          BY <1>0, <3>1, Begun
        <4> QED
          BY <2>4, <4>1 DEF KindRead, HoldsDeal
      <3>2. CASE Ends(s)
        <4>1. /\ txs'[s].phase = "idle"
              /\ \A o \in Session : o # s => txs'[o] = txs[o]
          BY <1>0, <3>2, EndsFinish
        <4> QED
          BY <2>4, <4>1 DEF KindRead, HoldsDeal
      <3>3. CASE LoadDeal(s) \/ ClearContacts(s) \/ CheckStageUnused(s)
        <4>1. /\ t.phase # "idle" /\ UNCHANGED <<deals, stages>>
              /\ txs'[s].req = t.req
              /\ \A o \in Session : o # s => txs'[o] = txs[o]
          BY <1>0, <3>3, StepsOn
        <4>2. t \in Tx /\ txs \in [Session -> Tx \cup {Idle}]
          BY <1>0, <4>1, ActiveTx DEF TypeInv, TypeOK
        <4>3. HoldsDeal(s)' => txs'[s].kind = stages'[txs'[s].row.stage]
          <5>1. CASE LoadDeal(s)
            BY <4>1, <4>2, <5>1 DEF LoadDeal, Tx
          <5>2. CASE ClearContacts(s)
            <6>1. HoldsDeal(s) /\ txs'[s].row = t.row /\ txs'[s].kind = t.kind
              BY <4>2, <5>2 DEF ClearContacts, Tx, HoldsDeal
            <6> QED
              BY <2>4, <6>1
          <5>3. CASE CheckStageUnused(s)
            BY <4>1, <5>3 DEF CheckStageUnused, HoldsDeal
          <5> QED
            BY <3>3, <5>1, <5>2, <5>3
        <4> QED
          BY <2>4, <4>1, <4>3 DEF KindRead, HoldsDeal
      <3> QED
        BY <1>2, <3>1, <3>2, <3>3 DEF Serve, Ends
    <2>6. \A e \in Deal : deals'[e] = deals[e] /\ deals'[e] # None =>
            ~NeedsReason(stages'[deals'[e].stage], deals'[e].reason)
      BY <2>2 DEF ReasonInv, ColdReasonOnRecord
    <2>7. ColdReasonOnRecord'
      <3>1. CASE UNCHANGED deals
        BY <2>6, <3>1 DEF ColdReasonOnRecord, NeedsReason
      <3>2. CASE CreateDeal(s)
        <4>1. d \in Deal
          BY <1>0, <3>2, ActiveTx DEF CreateDeal, TypeInv
        <4>2. /\ deals'[d].stage = t.req.body.stage /\ deals'[d].reason = t.req.body.reason
              /\ \A e \in Deal : e # d => deals'[e] = deals[e]
              /\ stages' = stages
              /\ ~NeedsReason(stages[t.req.body.stage], t.req.body.reason)
          BY <1>0, <3>2, <4>1 DEF CreateDeal, TypeInv, TypeOK
        <4> QED
          BY <2>6, <4>2 DEF ColdReasonOnRecord, NeedsReason
      <3>3. CASE UpdateDeal(s)
        <4>1. /\ d \in Deal /\ deals[d] = t.row
              /\ deals' = [deals EXCEPT ![d] = InMemory(t)]
              /\ deals'[d] = InMemory(t) /\ stages' = stages
          BY <1>0, <3>3, MovesCurrent
        <4>2. \A e \in Deal : e # d => deals'[e] = deals[e]
          BY <1>0, <4>1 DEF TypeInv, TypeOK
        <4>3. KindAfter(t) = stages[InMemory(t).stage]
          <5>1. HoldsDeal(s)
            BY <3>3 DEF UpdateDeal, HoldsDeal
          <5> QED
            BY <2>3, <5>1 DEF KindAfter, StageChanged
        <4>4. ~NeedsReason(stages'[deals'[d].stage], deals'[d].reason)
          BY <3>3, <4>1, <4>3 DEF UpdateDeal
        <4> QED
          BY <2>6, <4>2, <4>4 DEF ColdReasonOnRecord, NeedsReason
      <3>4. CASE DeleteDeal(s)
        <4>1. d \in Deal
          BY <1>0, <3>4, ActiveTx DEF DeleteDeal, TypeInv
        <4>2. deals'[d] = None /\ \A e \in Deal : e # d => deals'[e] = deals[e]
          BY <1>0, <3>4, <4>1 DEF DeleteDeal, TypeInv, TypeOK
        <4> QED
          BY <2>6, <4>2 DEF ColdReasonOnRecord, NeedsReason
      <3> QED
        BY <1>2, <2>1, <3>1, <3>2, <3>3, <3>4
           DEF Serve, Begin, Rollback, LoadDeal, ClearContacts, PatchHistory,
               CreateStage, CheckStageUnused, DeleteStage, tables
    <2> QED
      BY <2>5, <2>7
  <1> QED
    BY <1>0, <1>1, <1>2 DEF Next, ReasonInv

(* Where requests on one deal take turns, a deal in a cold stage has its   *)
(* reason, whatever else the deals screen and the making and deleting of   *)
(* stages do.  The two doors without the check are left out: generic_patch *)
(* on a deal, and an edit that turns a stage in use cold.                  *)
THEOREM ColdDealsHaveReasons ==
  ASSUME CheckedEditsOnly
  PROVE  Spec /\ []DealsTakeTurns => []ColdReasonOnRecord
  <1>1. Init => ReasonInv
    BY InitTurnsInv DEF Init, ReasonInv, StagesInUseExist, KindRead, HoldsDeal, Idle,
                        ColdReasonOnRecord
  <1>2. ReasonInv /\ DealsTakeTurns /\ [Next]_vars => ReasonInv'
    BY ReasonStep
  <1>3. ReasonInv => ColdReasonOnRecord
    BY DEF ReasonInv
  <1> QED
    BY <1>1, <1>2, <1>3, PTL DEF Spec
=============================================================================

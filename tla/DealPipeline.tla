---------------------------- MODULE DealPipeline ----------------------------
(***************************************************************************)
(* Deals, pipeline stages and the stage history, as concurrent requests    *)
(* change them.  Every request runs in one database transaction at READ    *)
(* COMMITTED: it reads committed rows when its query runs, keeps them in   *)
(* its own session, and publishes its writes at commit.  Row locks are     *)
(* held from the first write of a row to the commit, so a handler's writes *)
(* are placed at its commit; what the handler read before that, and may    *)
(* have become stale, is kept in txs[s].                                   *)
(*                                                                         *)
(* created_at of a history row is now(), which PostgreSQL fixes when the   *)
(* transaction begins: a row carries txs[s].at, not the time of commit.    *)
(***************************************************************************)
EXTENDS Naturals, FiniteSets

CONSTANTS
  Session,       (* concurrent requests, each with its database session    *)
  Deal,          (* ids the deals sequence can hand out                    *)
  Stage,         (* ids of deal_stages rows                                *)
  User,          (* deal owners                                            *)
  Contact,       (* contacts a deal can link                               *)
  Notifiable,    (* active users holding deals.notify_on_create            *)
  SeededStages,  (* the stages there are at the start, with their kind     *)
  Requests,      (* the requests clients send in this instance             *)
  MaxTx,         (* bound: transactions begun in a behaviour               *)
  None,          (* SQL NULL; also "no such row"                           *)
  Unset          (* a field the request body leaves out                    *)

Ops == {"create_deal", "update_deal", "delete_deal", "patch_deal",
        "patch_history", "create_stage", "update_stage", "delete_stage"}

(* "cold" stands for is_cold or the name Closed Lost: both need a reason.  *)
Kind == {"open", "cold"}
StageState == Kind \cup {"absent", "deleted"}
Reason == {None, "given"}

DealRow == [stage : Stage, reason : Reason, owner : User]

Body == [stage    : Stage \cup {Unset},
         reason   : Reason \cup {Unset},
         owner    : User \cup {Unset},
         contacts : {Unset} \cup SUBSET Contact]

(* deal is the row addressed by deal requests, stage and kind the row and  *)
(* value of stage requests; a request ignores the fields it has no use of. *)
Request == [op : Ops, deal : Deal, stage : Stage, kind : Kind, body : Body]

HistoryRow == [deal : Deal, from : Stage \cup {None}, to : Stage, at : 1..MaxTx]

Notice == [type : {"deal_created", "deal_stage_changed"},
           deal : Deal, recipient : User, at : 1..MaxTx]

ASSUME BoundAssumption == MaxTx \in Nat

ASSUME NullAssumption ==
  /\ None \notin Stage
  /\ \A row \in DealRow : row # None
  /\ Unset \notin Stage /\ Unset \notin User /\ Unset \notin Reason
  /\ \A C \in SUBSET Contact : C # Unset

ASSUME SeedAssumption == SeededStages \in [Stage -> Kind \cup {"absent"}]

ASSUME NotifiableAssumption == Notifiable \subseteq User

(* A new deal names its stage and owner; generic-patch sets one column.    *)
ASSUME RequestAssumption ==
  /\ Requests \subseteq Request
  /\ \A q \in Requests :
       /\ q.op = "create_deal" => /\ q.body.stage # Unset
                                  /\ q.body.reason # Unset
                                  /\ q.body.owner # Unset
                                  /\ q.body.contacts # Unset
       /\ q.op = "patch_deal" => q.body.contacts = Unset

VARIABLES
  deals,     (* deals table: a row or None per id                          *)
  issued,    (* deal ids the sequence has handed out                       *)
  links,     (* deal_contacts: the contacts linked to each deal            *)
  stages,    (* deal_stages table                                          *)
  history,   (* deal_stage_history table                                   *)
  amended,   (* ghost: deals with a history row rewritten by generic_patch *)
  notices,   (* notifications about deals                                  *)
  txs,       (* the request and transaction of each session                *)
  clock      (* transactions begun so far: the database clock              *)

tables == <<deals, issued, links, stages, history, amended, notices>>
vars == <<deals, issued, links, stages, history, amended, notices, txs, clock>>

Phases == {"idle", "begun", "loaded", "cleared"}

(* row and kind: the deal and the kind of its stage as read; cleared: the  *)
(* link rows the replacing DELETE statement saw.                           *)
Tx == [phase : Phases, req : Requests, at : 1..MaxTx,
       row : DealRow \cup {None}, kind : StageState, cleared : SUBSET Contact]

Idle == [phase |-> "idle"]

TypeOK ==
  /\ deals \in [Deal -> DealRow \cup {None}]
  /\ issued \subseteq Deal
  /\ links \in [Deal -> SUBSET Contact]
  /\ stages \in [Stage -> StageState]
  /\ history \subseteq HistoryRow
  /\ amended \subseteq Deal
  /\ notices \subseteq Notice
  /\ txs \in [Session -> Tx \cup {Idle}]
  /\ clock \in 0..MaxTx

Init ==
  /\ deals = [d \in Deal |-> None]
  /\ issued = {}
  /\ links = [d \in Deal |-> {}]
  /\ stages = SeededStages
  /\ history = {}
  /\ amended = {}
  /\ notices = {}
  /\ txs = [s \in Session |-> Idle]
  /\ clock = 0
-----------------------------------------------------------------------------
(* The session's view of a row: what update_deal and generic_patch compute. *)

Exists(x) == stages[x] \in Kind

(* The loaded object after setattr of every field the body carries.        *)
InMemory(t) ==
  LET b == t.req.body
  IN  [stage  |-> IF b.stage = Unset THEN t.row.stage ELSE b.stage,
       reason |-> IF b.reason = Unset THEN t.row.reason ELSE b.reason,
       owner  |-> IF b.owner = Unset THEN t.row.owner ELSE b.owner]

(* mutant of StageChanged: generic_patch writes no history row             *)
StageChangedByUpdate(t) ==
  t.req.op = "update_deal" /\ InMemory(t).stage # t.row.stage

StageChanged(t) == InMemory(t).stage # t.row.stage

(* mutant of KindAfter: the check reads the relationship loaded before     *)
KindBefore(t) == t.kind

(* The stage update_deal's last check looks at: read again when it changed, *)
(* the one loaded with the deal when it did not.                           *)
KindAfter(t) == IF StageChanged(t) THEN stages[InMemory(t).stage] ELSE t.kind

(* The UPDATE names only the columns whose value differs from the one      *)
(* loaded; the others keep what the table holds when the UPDATE runs.      *)
Flushed(t, current) ==
  LET obj == InMemory(t)
  IN  [stage  |-> IF obj.stage = t.row.stage THEN current.stage ELSE obj.stage,
       reason |-> IF obj.reason = t.row.reason THEN current.reason ELSE obj.reason,
       owner  |-> IF obj.owner = t.row.owner THEN current.owner ELSE obj.owner]

(* The row lock of an UPDATE that ran before the handler's last step: only *)
(* update_deal with contacts does more after its flush.                    *)
LockedByOther(s, d) ==
  \E o \in Session \ {s} :
    /\ txs[o].phase = "cleared"
    /\ txs[o].req.deal = d
    /\ InMemory(txs[o]) # txs[o].row

NeedsReason(kind, reason) == kind = "cold" /\ reason = None

(* A stage with a row lock held against deletion by an unfinished insert.  *)
StageLocked(x) ==
  \E o \in Session : /\ txs[o].phase = "cleared"
                     /\ StageChanged(txs[o])
                     /\ x \in {InMemory(txs[o]).stage, txs[o].row.stage}

HistoryOf(d) == {h \in history : h.deal = d}

(* mutants of Record: stamped later than its transaction; from and to      *)
(* swapped                                                                 *)
RecordLate(t, from, to) ==
  history' = history \cup
    {[deal |-> t.req.deal, from |-> from, to |-> to, at |-> clock + 1]}

RecordSwapped(t, from, to) ==
  history' = history \cup
    {[deal |-> t.req.deal, from |-> to, to |-> from, at |-> t.at]}

Record(t, from, to) ==
  history' = history \cup
    {[deal |-> t.req.deal, from |-> from, to |-> to, at |-> t.at]}

(* mutant of MoveNotice: the owner before the request                      *)
MoveNoticeOldOwner(t) ==
  [type |-> "deal_stage_changed", deal |-> t.req.deal,
   recipient |-> t.row.owner, at |-> t.at]

MoveNotice(t) ==
  [type |-> "deal_stage_changed", deal |-> t.req.deal,
   recipient |-> InMemory(t).owner, at |-> t.at]

Finish(s) == txs' = [txs EXCEPT ![s] = Idle]
-----------------------------------------------------------------------------
(* Requests arrive: the first query of a session begins its transaction.   *)

Begin(s) ==
  /\ txs[s].phase = "idle"
  /\ clock < MaxTx
  /\ clock' = clock + 1
  /\ \E q \in Requests :
       txs' = [txs EXCEPT ![s] =
                [phase |-> "begun", req |-> q, at |-> clock + 1,
                 row |-> None, kind |-> "absent", cleared |-> {}]]
  /\ UNCHANGED tables

(* 4xx answers, rejected statements, a lost connection, a stopped worker:  *)
(* the transaction is rolled back and leaves nothing behind.               *)
Rollback(s) ==
  /\ txs[s].phase # "idle"
  /\ Finish(s)
  /\ UNCHANGED <<tables, clock>>

(* create_deal, placed at its commit: the stage it reads is the only row   *)
(* it depends on.  The id is one the sequence never handed out before.     *)
CreateDeal(s) ==
  LET t == txs[s]
      b == t.req.body
      d == t.req.deal
  IN  /\ t.phase = "begun" /\ t.req.op = "create_deal"
      /\ d \notin issued
      /\ Exists(b.stage)
      /\ ~NeedsReason(stages[b.stage], b.reason)
      /\ issued' = issued \cup {d}
      /\ deals' = [deals EXCEPT ![d] =
           [stage |-> b.stage, reason |-> b.reason, owner |-> b.owner]]
      /\ links' = [links EXCEPT ![d] = b.contacts]
      /\ Record(t, None, b.stage)
      /\ notices' = notices \cup
           {[type |-> "deal_created", deal |-> d, recipient |-> u, at |-> t.at] :
              u \in Notifiable}
      /\ Finish(s)
      /\ UNCHANGED <<stages, amended, clock>>

(* update_deal and generic_patch(deals) read the deal with its stage       *)
(* joined, and update_deal checks that a stage it is given exists.         *)
LoadDeal(s) ==
  LET t == txs[s]
      d == t.req.deal
  IN  /\ t.phase = "begun" /\ t.req.op \in {"update_deal", "patch_deal"}
      /\ deals[d] # None
      /\ t.req.op = "update_deal" /\ t.req.body.stage # Unset
           => Exists(t.req.body.stage)
      /\ txs' = [txs EXCEPT ![s] = [t EXCEPT !.phase = "loaded",
                                             !.row = deals[d],
                                             !.kind = stages[deals[d].stage]]]
      /\ UNCHANGED <<tables, clock>>

(* _set_deal_contacts: pending column changes are flushed first, which     *)
(* locks the deal; the DELETE then sees the committed links of the moment. *)
ClearContacts(s) ==
  LET t == txs[s]
      d == t.req.deal
  IN  /\ t.phase = "loaded" /\ t.req.op = "update_deal"
      /\ t.req.body.contacts # Unset
      /\ deals[d] # None
      /\ InMemory(t) # t.row => ~LockedByOther(s, d)
      /\ StageChanged(t) => Exists(InMemory(t).stage) /\ Exists(t.row.stage)
      /\ txs' = [txs EXCEPT ![s] = [t EXCEPT !.phase = "cleared",
                                             !.cleared = links[d]]]
      /\ UNCHANGED <<tables, clock>>

(* A pair the DELETE did not see and the body repeats breaks the unique    *)
(* constraint on (deal_id, contact_id).  The DELETE is of rows, the model  *)
(* knows pairs: one that another request deleted and inserted again since  *)
(* counts as the row that was seen.  No property depends on it.            *)
ReplaceLinks(t, d) ==
  IF t.req.body.contacts = Unset
  THEN UNCHANGED links
  ELSE /\ t.req.body.contacts \cap (links[d] \ t.cleared) = {}
       /\ links' = [links EXCEPT ![d] = (@ \ t.cleared) \cup t.req.body.contacts]

UpdateDeal(s) ==
  LET t == txs[s]
      d == t.req.deal
      obj == InMemory(t)
  IN  /\ t.phase \in {"loaded", "cleared"} /\ t.req.op = "update_deal"
      /\ (t.phase = "cleared") <=> (t.req.body.contacts # Unset)
      /\ deals[d] # None
      /\ obj # t.row => ~LockedByOther(s, d)
      /\ ~NeedsReason(KindAfter(t), obj.reason)
      /\ deals' = [deals EXCEPT ![d] = Flushed(t, @)]
      /\ ReplaceLinks(t, d)
      /\ IF StageChanged(t)
         THEN /\ Exists(obj.stage) /\ Exists(t.row.stage)
              /\ Record(t, t.row.stage, obj.stage)
              /\ notices' = notices \cup {MoveNotice(t)}
         ELSE UNCHANGED <<history, notices>>
      /\ Finish(s)
      /\ UNCHANGED <<issued, stages, amended, clock>>

(* mutant of Cascade: the history's foreign key does not cascade           *)
CascadeLinks(d) ==
  /\ links' = [links EXCEPT ![d] = {}]
  /\ UNCHANGED history

(* ON DELETE CASCADE of deal_contacts and deal_stage_history               *)
Cascade(d) ==
  /\ links' = [links EXCEPT ![d] = {}]
  /\ history' = history \ HistoryOf(d)

(* delete_deal: the history and the links go with the row; notices stay,   *)
(* they hold no foreign key.                                               *)
DeleteDeal(s) ==
  LET t == txs[s]
      d == t.req.deal
  IN  /\ t.phase = "begun" /\ t.req.op = "delete_deal"
      /\ deals[d] # None
      /\ ~LockedByOther(s, d)
      /\ deals' = [deals EXCEPT ![d] = None]
      /\ Cascade(d)
      /\ Finish(s)
      /\ UNCHANGED <<issued, stages, amended, notices, clock>>

(* generic_patch on table deals: no cold-reason check and no notification, *)
(* but a history row when the stage differs from the one loaded.           *)
PatchDeal(s) ==
  LET t == txs[s]
      d == t.req.deal
      obj == InMemory(t)
  IN  /\ t.phase = "loaded" /\ t.req.op = "patch_deal"
      /\ deals[d] # None
      /\ obj # t.row => ~LockedByOther(s, d)
      /\ deals' = [deals EXCEPT ![d] = Flushed(t, @)]
      /\ IF StageChanged(t)
         THEN /\ Exists(obj.stage) /\ Exists(t.row.stage)
              /\ Record(t, t.row.stage, obj.stage)
         ELSE UNCHANGED history
      /\ Finish(s)
      /\ UNCHANGED <<issued, links, stages, amended, notices, clock>>

(* generic_patch on table deal_stage_history, field to_stage_id: one row   *)
(* is rewritten in place.                                                  *)
PatchHistory(s) ==
  LET t == txs[s]
  IN  /\ t.phase = "begun" /\ t.req.op = "patch_history"
      /\ Exists(t.req.stage)
      /\ \E h \in HistoryOf(t.req.deal) :
           history' = (history \ {h}) \cup {[h EXCEPT !.to = t.req.stage]}
      /\ amended' = amended \cup {t.req.deal}
      /\ Finish(s)
      /\ UNCHANGED <<deals, issued, links, stages, notices, clock>>
-----------------------------------------------------------------------------
(* The stages themselves, under the deals that stand in them.              *)

CreateStage(s) ==
  LET t == txs[s]
  IN  /\ t.phase = "begun" /\ t.req.op = "create_stage"
      /\ stages[t.req.stage] = "absent"
      /\ stages' = [stages EXCEPT ![t.req.stage] = t.req.kind]
      /\ Finish(s)
      /\ UNCHANGED <<deals, issued, links, history, amended, notices, clock>>

(* update_deal_stage, and generic_patch on table deal_stages: is_cold or   *)
(* the name is overwritten whatever deals stand in the stage.              *)
UpdateStage(s) ==
  LET t == txs[s]
  IN  /\ t.phase = "begun" /\ t.req.op = "update_stage"
      /\ Exists(t.req.stage)
      /\ stages' = [stages EXCEPT ![t.req.stage] = t.req.kind]
      /\ Finish(s)
      /\ UNCHANGED <<deals, issued, links, history, amended, notices, clock>>

InUse(x) == \E d \in Deal : deals[d] # None /\ deals[d].stage = x

(* delete_deal_stage looks for a deal in the stage, then deletes.          *)
CheckStageUnused(s) ==
  LET t == txs[s]
  IN  /\ t.phase = "begun" /\ t.req.op = "delete_stage"
      /\ Exists(t.req.stage)
      /\ ~InUse(t.req.stage)
      /\ txs' = [txs EXCEPT ![s] = [t EXCEPT !.phase = "loaded"]]
      /\ UNCHANGED <<tables, clock>>

(* mutant of Unreferenced: only the service's own look-up                  *)
NoDealIn(x) == ~InUse(x)

(* The foreign keys on deals.stage_id and on the history's from and to     *)
(* stages refuse the DELETE that the look-up let through.                  *)
Unreferenced(x) ==
  /\ ~InUse(x)
  /\ \A h \in history : x \notin {h.from, h.to}
  /\ ~StageLocked(x)

DeleteStage(s) ==
  LET t == txs[s]
  IN  /\ t.phase = "loaded" /\ t.req.op = "delete_stage"
      /\ Exists(t.req.stage)
      /\ Unreferenced(t.req.stage)
      /\ stages' = [stages EXCEPT ![t.req.stage] = "deleted"]
      /\ Finish(s)
      /\ UNCHANGED <<deals, issued, links, history, amended, notices, clock>>
-----------------------------------------------------------------------------
Serve(s) ==
  \/ Begin(s) \/ Rollback(s)
  \/ CreateDeal(s) \/ LoadDeal(s) \/ ClearContacts(s) \/ UpdateDeal(s)
  \/ DeleteDeal(s) \/ PatchDeal(s) \/ PatchHistory(s)
  \/ CreateStage(s) \/ UpdateStage(s) \/ CheckStageUnused(s) \/ DeleteStage(s)

Next == \E s \in Session : Serve(s)

Spec == Init /\ [][Next]_vars
-----------------------------------------------------------------------------
(* Properties                                                              *)

Entered(d, x) == \E h \in HistoryOf(d) : h.to = x

(* Every deal has a history row into the stage it stands in, whichever of  *)
(* update_deal, generic_patch and create_deal raced to put it there: a     *)
(* deal without one is never dated and drops out of every close-based      *)
(* number (entered_current_stage_in matches no NULL).  Only generic_patch  *)
(* on a history row itself can take the row away.                          *)
CurrentStageRecorded ==
  \A d \in Deal \ amended : deals[d] # None => Entered(d, deals[d].stage)

(* No deal and no history row names a stage that was deleted, though       *)
(* delete_deal_stage only looks at deals and looks before it deletes.      *)
StagesInUseExist ==
  /\ \A d \in Deal : deals[d] # None => Exists(deals[d].stage)
  /\ \A h \in history : Exists(h.to) /\ (h.from = None \/ Exists(h.from))

(* A deal deleted under a request that has loaded it leaves no history row *)
(* and no contact link behind, whatever that request does next.            *)
NothingOutlivesItsDeal ==
  \A d \in Deal : deals[d] = None => HistoryOf(d) = {} /\ links[d] = {}

LastRow(H) == CHOOSE h \in H : \A g \in H : g.at <= h.at

(* What list_stage_history shows is one path: the first row has no from,   *)
(* each row leaves the stage the row before it entered, and the last one   *)
(* enters the stage the deal is in.                                        *)
HistoryIsAPath ==
  \A d \in Deal : deals[d] # None =>
    /\ \A h \in HistoryOf(d) :
         LET before == {g \in HistoryOf(d) : g.at < h.at}
         IN  h.from = IF before = {} THEN None ELSE LastRow(before).to
    /\ LastRow(HistoryOf(d)).to = deals[d].stage

(* mutant of LatestEntry: the first of several entries                     *)
FirstEntry(d) ==
  LET H == {h \in HistoryOf(d) : h.to = deals[d].stage}
  IN  (CHOOSE h \in H : \A g \in H : h.at <= g.at).at

(* _latest_entry_into_current_stage: max(created_at) of the rows into the  *)
(* stage the deal is in.                                                   *)
LatestEntry(d) == LastRow({h \in HistoryOf(d) : h.to = deals[d].stage}).at

(* The date of a close is the date of the move that made it: when a step   *)
(* moves a deal, the latest entry into its stage is the row of that step.  *)
CloseDatedByItsMove ==
  [][\A d \in Deal :
       deals[d] # None /\ deals'[d] # None /\ deals'[d].stage # deals[d].stage
         => \A h \in history' \ history : h.at = LatestEntry(d)']_vars

(* A deal in a cold or Closed Lost stage has a cold_reason on record.      *)
ColdReasonOnRecord ==
  \A d \in Deal : deals[d] # None =>
    ~NeedsReason(stages[deals[d].stage], deals[d].reason)

(* The notice of a stage move goes to the user who owns the deal once the  *)
(* move is committed, also when the same request reassigns it.             *)
MoveNotifiesOwner ==
  [][\A n \in notices' \ notices : n.type = "deal_stage_changed"
       => n.recipient = deals'[n.deal].owner]_vars

(* Stage moves and their history rows are one atomic step: the pipeline    *)
(* implements StageLedger.                                                 *)
StageOf == [d \in Deal |-> IF deals[d] = None THEN None ELSE deals[d].stage]

Ledger == INSTANCE StageLedger WITH
            stage <- StageOf, ledger <- history, amended <- amended,
            Time <- 1..MaxTx, NoStage <- None

LedgerKept == Ledger!LedgerSpec
=============================================================================

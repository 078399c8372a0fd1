---------------------------- MODULE Notifications ----------------------------
(***************************************************************************)
(* The notifications of each user: rows that other requests write, merged  *)
(* in the panel with an entry, computed at each call, for every lead of    *)
(* the user whose follow-up date has passed.  PATCH of one notification    *)
(* and DELETE of several read first and write later, while new rows, other *)
(* devices of the same user and the "read all" statement come between.     *)
(*                                                                         *)
(* Times are numbers: a row has the moment it was written, an overdue      *)
(* entry the midnight of its date.  Rows are soft-deleted.  The `type`     *)
(* filter is abstracted: TASK_OVERDUE or not.                              *)
(***************************************************************************)
EXTENDS Naturals, FiniteSets, Pages

CONSTANTS
  Recipient,    (* users                                                   *)
  Device,       (* concurrent requests                                     *)
  FollowUp,     (* leads with a follow-up date                             *)
  LeadOwner,    (* the owner of each                                       *)
  MaxNotices,   (* bound: rows                                             *)
  NotYet        (* a row not written yet, no read_at                       *)

Notice == 1..MaxNotices

(* Midnights fall between the moments of the rows.                         *)
Moment == 0..(2 * MaxNotices)
Midnight == {m \in Moment : m % 2 = 1}

NoticeRow == [to : Recipient, at : Moment, read : BOOLEAN, deleted : BOOLEAN]

ASSUME NotificationsAssumption ==
  /\ MaxNotices \in Nat
  /\ IsFiniteSet(FollowUp) /\ LeadOwner \in [FollowUp -> Recipient]
  /\ NotYet \notin NoticeRow \cup Moment

VARIABLES
  notices,   (* notifications table                                        *)
  due,       (* the follow-up date of each lead that has passed            *)
  opened     (* the request of each device, with what it has read          *)

noticeVars == <<notices, due, opened>>

NotOpen == [op |-> "none"]

NotificationsTypeOK ==
  /\ notices \in [Notice -> NoticeRow \cup {NotYet}]
  /\ due \in [FollowUp -> Midnight \cup {NotYet}]
  /\ opened \in [Device -> {NotOpen}
       \cup [op : {"read"}, id : Notice, read : BOOLEAN, was : BOOLEAN]
       \cup [op : {"delete"}, ids : SUBSET Notice]]

NotificationsInit ==
  /\ notices = [n \in Notice |-> NotYet]
  /\ due = [l \in FollowUp |-> NotYet]
  /\ opened = [s \in Device |-> NotOpen]
-----------------------------------------------------------------------------
Written(n) == notices[n] # NotYet
Shown(n, u) == Written(n) /\ notices[n].to = u /\ ~notices[n].deleted
WrittenSoFar == Cardinality({n \in Notice : Written(n)})

(* create_notification; overdue dates up to today are older than that.     *)
Notify(u) ==
  LET n == WrittenSoFar + 1
  IN  /\ n \in Notice
      /\ notices' = [notices EXCEPT ![n] =
           [to |-> u, at |-> 2 * n, read |-> FALSE, deleted |-> FALSE]]
      /\ UNCHANGED <<due, opened>>

(* update_lead sets the date, or midnight passes.                          *)
FollowUpPasses(l, m) ==
  /\ m # NotYet => m < 2 * WrittenSoFar
  /\ due[l] # m
  /\ due' = [due EXCEPT ![l] = m]
  /\ UNCHANGED <<notices, opened>>

(* set_read: _get_owned_notification_or_raise                              *)
OpenNotice(s, u, n, read) ==
  /\ opened[s] = NotOpen
  /\ Shown(n, u)
  /\ opened' = [opened EXCEPT ![s] =
                  [op |-> "read", id |-> n, read |-> read, was |-> notices[n].read]]
  /\ UNCHANGED <<notices, due>>

(* is_read is written where it differs from what was read.                 *)
CommitRead(s) ==
  LET o == opened[s]
  IN  /\ o.op = "read"
      /\ notices' = [notices EXCEPT ![o.id].read =
                       IF o.read = o.was THEN @ ELSE o.read]
      /\ opened' = [opened EXCEPT ![s] = NotOpen]
      /\ UNCHANGED due

(* mark_all_read, of all or of the ids given                               *)
MarkAllRead(u, ids) ==
  /\ notices' = [n \in Notice |->
       IF Shown(n, u) /\ n \in ids THEN [notices[n] EXCEPT !.read = TRUE] ELSE notices[n]]
  /\ UNCHANGED <<due, opened>>

(* delete_notifications: all of the ids are the requester's, or none goes. *)
OpenDelete(s, u, ids) ==
  /\ opened[s] = NotOpen
  /\ \A n \in ids : Written(n) /\ notices[n].to = u
  /\ opened' = [opened EXCEPT ![s] = [op |-> "delete", ids |-> ids]]
  /\ UNCHANGED <<notices, due>>

CommitDelete(s) ==
  /\ opened[s].op = "delete"
  /\ notices' = [n \in Notice |->
       IF n \in opened[s].ids THEN [notices[n] EXCEPT !.deleted = TRUE] ELSE notices[n]]
  /\ opened' = [opened EXCEPT ![s] = NotOpen]
  /\ UNCHANGED due

(* A 403 or 404, a lost connection                                         *)
CloseRequest(s) ==
  /\ opened[s] # NotOpen
  /\ opened' = [opened EXCEPT ![s] = NotOpen]
  /\ UNCHANGED <<notices, due>>

NotificationsNext ==
  \/ \E u \in Recipient : Notify(u)
  \/ \E l \in FollowUp, m \in Midnight \cup {NotYet} : FollowUpPasses(l, m)
  \/ \E s \in Device :
       \/ \E u \in Recipient, n \in Notice, read \in BOOLEAN : OpenNotice(s, u, n, read)
       \/ \E u \in Recipient, ids \in SUBSET Notice \ {{}} : OpenDelete(s, u, ids)
       \/ CommitRead(s) \/ CommitDelete(s) \/ CloseRequest(s)
  \/ \E u \in Recipient, ids \in SUBSET Notice : MarkAllRead(u, ids)

NotificationsSpec == NotificationsInit /\ [][NotificationsNext]_noticeVars
-----------------------------------------------------------------------------
(* The panel                                                               *)

(* An entry of the panel; an overdue one has the negated id of its lead.   *)
StoredItems(u, unread) ==
  {[notice |-> TRUE, id |-> n, at |-> notices[n].at] :
     n \in {m \in Notice : Shown(m, u) /\ (unread => ~notices[m].read)}}

(* _overdue_followup_items                                                 *)
OverdueItems(u) ==
  {[notice |-> FALSE, id |-> l, at |-> due[l]] :
     l \in {k \in FollowUp : LeadOwner[k] = u /\ due[k] # NotYet}}

(* mutant of StoredPage: the limit is spent on the overdue entries first   *)
StoredPageLess(u, unread, limit, offset) ==
  LET overdue == Cardinality(OverdueItems(u))
  IN  Page(StoredItems(u, unread), IF overdue < limit THEN limit - overdue ELSE 0, offset)

(* The stored rows of a page, cut by the database.                         *)
StoredPage(u, unread, limit, offset) == Page(StoredItems(u, unread), limit, offset)

(* list_notifications without a type: all overdue entries are merged into  *)
(* every page, and the page is cut again.  The code runs three SELECTs,    *)
(* for the overdue leads, the total and the page; here they read one       *)
(* state, so nothing is said of rows that are written between them.        *)
ListNotifications(u, unread, limit, offset) ==
  [items |-> Newest(OverdueItems(u) \cup StoredPage(u, unread, limit, offset), limit),
   total |-> Cardinality(StoredItems(u, unread)) + Cardinality(OverdueItems(u))]

UnreadCount(u) ==
  Cardinality({n \in Notice : Shown(n, u) /\ ~notices[n].read})
    + Cardinality(OverdueItems(u))
-----------------------------------------------------------------------------
(* Properties                                                              *)

(* The panel shows the newest first: the first page, of whatever length,   *)
(* has an entry for every row and overdue lead that is not older than the  *)
(* last one it shows, and as many as fit; and the badge counts what the    *)
(* unread list would hold.  (Later pages repeat the overdue entries.)      *)
PanelAgrees ==
  \A u \in Recipient, unread \in BOOLEAN, limit \in 1..(MaxNotices + 1) :
    LET page == ListNotifications(u, unread, limit, 0)
        others == (StoredItems(u, unread) \cup OverdueItems(u)) \ page.items
    IN  /\ \A x \in page.items, y \in others : x.at >= y.at
        /\ Cardinality(page.items) < limit => others = {}
        /\ page.total = Cardinality(page.items) + Cardinality(others)
        /\ unread => page.total = UnreadCount(u)
=============================================================================

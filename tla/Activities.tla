----------------------------- MODULE Activities -----------------------------
(***************************************************************************)
(* The activities logged on deals, leads and accounts, and the activity    *)
(* feed of the dashboard, which merges two entries per activity (created,  *)
(* and last edited) out of six limited queries.                            *)
(*                                                                         *)
(* The three services differ in who may reach the entity: everybody for a  *)
(* lead without owner.  Every change here has a moment of its own.         *)
(***************************************************************************)
EXTENDS Naturals, FiniteSets, Pages

CONSTANTS
  Entity,          (* the deals, leads and accounts there are at first     *)
  KindOf,          (* "deal", "lead" or "account"                          *)
  EntityOwner,     (* the owner of each; a lead may have none              *)
  Author,          (* users                                                *)
  Overseers,       (* users with the *.view_all permission of every kind   *)
  Removers,        (* users with *.delete_any_activity                     *)
  MaxActivities,   (* bound: activities                                    *)
  MaxInstant,      (* bound: moments                                       *)
  Nobody           (* no owner, no editor, no row                          *)

TableKinds == {"deal", "lead", "account"}
Activity == 1..MaxActivities
Instant == 0..MaxInstant

ActivityRow == [on : Entity, by : Author, created : Instant,
                editor : Author \cup {Nobody}, updated : Instant]

ASSUME ActivitiesAssumption ==
  /\ KindOf \in [Entity -> TableKinds]
  /\ \A e \in Entity :
       EntityOwner[e] \in Author \/ (KindOf[e] = "lead" /\ EntityOwner[e] = Nobody)
  /\ Overseers \cup Removers \subseteq Author
  /\ MaxActivities \in Nat /\ MaxInstant \in Nat
  /\ Nobody \notin Author \cup ActivityRow

VARIABLES
  instant,      (* the moment of the last change                           *)
  entities,     (* the deals, leads and accounts there still are           *)
  activities    (* the three activities tables                             *)

activityVars == <<instant, entities, activities>>

ActivitiesTypeOK ==
  /\ instant \in Instant
  /\ entities \subseteq Entity
  /\ activities \in [Activity -> ActivityRow \cup {Nobody}]

ActivitiesInit ==
  /\ instant = 0
  /\ entities = Entity
  /\ activities = [i \in Activity |-> Nobody]
-----------------------------------------------------------------------------
Logged == {i \in Activity : activities[i] # Nobody}

(* get_deal, get_lead, get_account                                         *)
MayReach(u, e) ==
  e \in entities /\ (u \in Overseers \/ EntityOwner[e] \in {u, Nobody})

(* An id says nothing: that of a deleted row is taken again.               *)
FreeId == CHOOSE i \in Activity \ Logged : TRUE

PassInstant == instant < MaxInstant /\ instant' = instant + 1

(* create_deal_activity and its two siblings                               *)
LogActivity(u, e) ==
  /\ MayReach(u, e)
  /\ Activity \ Logged # {}
  /\ PassInstant
  /\ activities' = [activities EXCEPT ![FreeId] =
       [on |-> e, by |-> u, created |-> instant', editor |-> Nobody,
        updated |-> instant']]
  /\ UNCHANGED entities

(* update_deal_activity: an owner of the entity, so nobody for a lead that *)
(* has none, or an overseer.                                               *)
EditActivity(u, i) ==
  /\ i \in Logged
  /\ MayReach(u, activities[i].on)
  /\ u \in Overseers \/ EntityOwner[activities[i].on] = u
  /\ PassInstant
  /\ activities' = [activities EXCEPT ![i].editor = u, ![i].updated = instant']
  /\ UNCHANGED entities

Remaining(gone) == [i \in Activity |-> IF i \in gone THEN Nobody ELSE activities[i]]

DeleteActivity(u, i) ==
  /\ i \in Logged
  /\ u \in Removers /\ MayReach(u, activities[i].on)
  /\ activities' = Remaining({i})
  /\ UNCHANGED <<instant, entities>>

(* The rows go with their deal, lead or account.                           *)
DeleteEntity(u, e) ==
  /\ MayReach(u, e)
  /\ entities' = entities \ {e}
  /\ activities' = Remaining({i \in Logged : activities[i].on = e})
  /\ UNCHANGED instant

ActivitiesNext ==
  \E u \in Author :
    \/ \E e \in Entity : LogActivity(u, e) \/ DeleteEntity(u, e)
    \/ \E i \in Activity : EditActivity(u, i) \/ DeleteActivity(u, i)

ActivitiesSpec == ActivitiesInit /\ [][ActivitiesNext]_activityVars
-----------------------------------------------------------------------------
(* The feed                                                                *)

Entry == [activity : Activity, at : Instant, edited : BOOLEAN]

(* The rows of one table created, or else edited, in a period of moments.  *)
Created(kind, lo, hi) ==
  {[activity |-> i, at |-> activities[i].created, edited |-> FALSE] :
     i \in {j \in Logged : KindOf[activities[j].on] = kind
                           /\ activities[j].created \in lo..hi}}

Edited(kind, lo, hi) ==
  {[activity |-> i, at |-> activities[i].updated, edited |-> TRUE] :
     i \in {j \in Logged : KindOf[activities[j].on] = kind
                           /\ activities[j].editor # Nobody
                           /\ activities[j].updated \in lo..hi}}

(* mutant of Queried: every query is limited to the page                   *)
QueriedPage(rows, limit, offset) == Newest(rows, limit)

(* One of the six queries: .limit(limit + offset)                          *)
Queried(rows, limit, offset) == Newest(rows, limit + offset)

(* get_activity_feed                                                       *)
ActivityFeed(lo, hi, limit, offset) ==
  LET merged == UNION {Queried(Created(k, lo, hi), limit, offset)
                         \cup Queried(Edited(k, lo, hi), limit, offset) : k \in TableKinds}
  IN  Page(merged, limit, offset)
-----------------------------------------------------------------------------
(* Properties                                                              *)

(* Turning the pages of the feed shows every entry of the period once and  *)
(* in order, whatever the length of a page and however the entries are     *)
(* spread over the three tables, and only the last page is not full; an    *)
(* edited activity has two entries.                                        *)
FeedPagesComplete ==
  \A lo, hi \in 0..instant, limit \in 1..MaxActivities : lo <= hi =>
    LET numbers == 1..(2 * Cardinality(Logged))
        page == [p \in numbers |-> ActivityFeed(lo, hi, limit, (p - 1) * limit)]
        happened == {i \in Logged : activities[i].created \in lo..hi}
        changed == {i \in Logged : activities[i].editor # Nobody
                                   /\ activities[i].updated \in lo..hi}
    IN  /\ \A p, q \in numbers : p < q =>
             /\ \A x \in page[p], y \in page[q] : x.at > y.at
             /\ page[q] # {} => Cardinality(page[p]) = limit
        /\ UNION {page[p] : p \in numbers} =
             {[activity |-> i, at |-> activities[i].created, edited |-> FALSE] : i \in happened}
               \cup {[activity |-> i, at |-> activities[i].updated, edited |-> TRUE] : i \in changed}
=============================================================================

------------------------------ MODULE Sessions ------------------------------
(***************************************************************************)
(* Users and their sessions: log in, refresh, log out, change or reset the *)
(* password, and the roster (invite, deactivate, delete, activate,         *)
(* reinvite), with the clocks they compare.                                *)
(*                                                                         *)
(* A login authenticates, then issues tokens; a refresh reads its token,   *)
(* then the user; a password change and a reset read and stamp first, then *)
(* commit; roster requests read the user, then write the columns that      *)
(* differ from what they read.  Between the two steps other requests       *)
(* commit.  A change's UPDATE of the user row and that of issue_tokens     *)
(* exclude each other, so the SELECT of revoke_all_refresh_tokens is       *)
(* placed at the commit.                                                   *)
(*                                                                         *)
(* Time is in ticks, UTC.  The database's wall clock is Zone ticks ahead;  *)
(* a JWT's iat and exp are cut to whole seconds of Second ticks.  Whoever  *)
(* logs in knows the current password; names, roles and e-mails are left   *)
(* out.  A refresh token's 30 days outlast every run.  Rows of tokens that *)
(* can never be accepted again are reused.                                 *)
(***************************************************************************)
EXTENDS Integers, FiniteSets

CONSTANTS
  User,         (* e-mail addresses, each of one user                      *)
  Session,      (* concurrent logins, changes and resets                   *)
  AdminSession, (* concurrent roster requests                              *)
  Refresh,      (* refresh tokens                                          *)
  Reset,        (* password reset tokens                                   *)
  Zone,         (* how far IST is ahead of UTC                             *)
  Second,       (* ticks of a second                                       *)
  AccessTtl, ResetTtl,  (* lifetimes of the tokens                         *)
  MaxTime,      (* bound: the clock stops here                             *)
  MaxEdits,     (* bound: password and roster requests in a behaviour      *)
  Ops,          (* the password and roster requests in this instance       *)
  None,         (* SQL NULL                                                *)
  Absent        (* no such row                                             *)

Time == 0..MaxTime

AllOps == {"change", "reset", "invite",
           "deactivate", "delete", "activate", "reinvite"}

(* changed: password_changed_at as stored; loggedIn: last_login_at is set. *)
UserRow == [active : BOOLEAN, deleted : BOOLEAN, loggedIn : BOOLEAN,
            changed : 0..(MaxTime + Zone) \cup {None}]

(* knew, a ghost: the version of the password the session was let in with. *)
RefreshRow == [user : User, revoked : BOOLEAN, knew : Nat]
ResetRow == [user : User, expires : Nat, used : BOOLEAN]
AccessToken == [user : User, iat : Nat, exp : Nat, knew : Nat]

ASSUME ClockAssumption ==
  /\ Zone \in Nat /\ Second \in Nat \ {0} /\ MaxTime \in Nat /\ MaxEdits \in Nat
  /\ AccessTtl \in Nat /\ ResetTtl \in Nat

ASSUME OpsAssumption == Ops \subseteq AllOps

ASSUME SessionAssumption ==
  /\ Session \cap AdminSession = {}
  /\ None \notin Nat /\ None \notin User /\ None \notin Reset
  /\ Absent \notin UserRow \cup RefreshRow \cup ResetRow

VARIABLES
  now,        (* UTC                                                       *)
  users,      (* users table                                               *)
  refresh,    (* refresh_tokens table                                      *)
  access,     (* the access tokens handed out                              *)
  resets,     (* password_reset_tokens table                               *)
  changedAt,  (* ghost: when, in UTC, each password was last stamped       *)
  version,    (* ghost: changes and resets of each password                *)
  ended,      (* ghost: the version the last undisturbed one of them made  *)
  edits,      (* password and roster requests begun                        *)
  txs         (* the request each session is serving                       *)

ghosts == <<changedAt, version, ended>>
vars == <<now, users, refresh, access, resets, ghosts, edits, txs>>

Idle == [phase |-> "idle"]

(* A login has checked the password, a refresh its token.                  *)
Login == [phase : {"login", "refresh"}, user : User, knew : Nat]

(* stamp: the password_changed_at to store, at: the same moment in UTC.    *)
Password == [phase : {"password"}, user : User, token : Reset \cup {None},
             stamp : Nat, at : Time]

Roster == [phase : {"roster"}, op : AllOps, user : User, active : BOOLEAN]

TypeOK ==
  /\ now \in Time
  /\ users \in [User -> UserRow \cup {Absent}]
  /\ refresh \in [Refresh -> RefreshRow \cup {Absent}]
  /\ access \subseteq AccessToken
  /\ resets \in [Reset -> ResetRow \cup {Absent}]
  /\ changedAt \in [User -> Time \cup {None}]
  /\ version \in [User -> Nat]
  /\ ended \in [User -> Nat]
  /\ edits \in 0..MaxEdits
  /\ txs \in [Session \cup AdminSession -> Login \cup Password \cup Roster \cup {Idle}]

Init ==
  /\ now = 0
  /\ users = [u \in User |-> Absent]
  /\ refresh = [r \in Refresh |-> Absent]
  /\ access = {}
  /\ resets = [p \in Reset |-> Absent]
  /\ changedAt = [u \in User |-> None]
  /\ version = [u \in User |-> 0]
  /\ ended = [u \in User |-> 0]
  /\ edits = 0
  /\ txs = [s \in Session \cup AdminSession |-> Idle]
-----------------------------------------------------------------------------
(* _now_ist                                                                *)
NowIst == now + Zone

WholeSecond(t) == t - (t % Second)

Exists(u) == users[u] # Absent
Active(u) == Exists(u) /\ users[u].active

(* decode_access_token: the token has not expired.                         *)
Unexpired(k, t) == WholeSecond(t) <= k.exp

(* enforce_rbac: the naive UTC iat against the stored timestamp.           *)
IssuedBefore(k, changed) == changed # None /\ k.iat < changed

Accepted(k) ==
  /\ Unexpired(k, now)
  /\ Active(k.user)
  /\ ~IssuedBefore(k, users[k.user].changed)

(* create_access_token                                                     *)
NewAccess(t) == [user |-> t.user, iat |-> WholeSecond(now),
                 exp |-> WholeSecond(now) + AccessTtl, knew |-> t.knew]

Usable(r) == refresh[r] # Absent /\ ~refresh[r].revoked

ResetUsable(p) == resets[p] # Absent /\ ~resets[p].used /\ resets[p].expires >= NowIst

TokensOf(u) == {r \in Refresh : refresh[r] # Absent /\ refresh[r].user = u}

Finish(s) == txs' = [txs EXCEPT ![s] = Idle]

Bounded == edits < MaxEdits /\ edits' = edits + 1

(* A password is not changed so late that the clock stops before a token   *)
(* issued afterwards can be accepted.                                      *)
ClockLasts(ahead) == now + ahead <= WholeSecond(MaxTime)

(* Time passes; an access token that has expired is not accepted again.    *)
Tick ==
  /\ now < MaxTime
  /\ now' = now + 1
  /\ access' = {k \in access : Unexpired(k, now')}
  /\ UNCHANGED <<users, refresh, resets, ghosts, edits, txs>>
-----------------------------------------------------------------------------
(* authenticate_user: the password is right and the user is active.  A row *)
(* for the refresh token is left.                                          *)
Authenticate(s, u) ==
  /\ txs[s].phase = "idle"
  /\ Active(u)
  /\ \E r \in Refresh : ~Usable(r)
  /\ txs' = [txs EXCEPT ![s] = [phase |-> "login", user |-> u, knew |-> version[u]]]
  /\ UNCHANGED <<now, users, refresh, access, resets, ghosts, edits>>

(* mutant of LoggedIn: a login stamps password_changed_at too              *)
LoggedInStamped(row) == [row EXCEPT !.loggedIn = TRUE, !.changed = NowIst + MaxTime]

LoggedIn(row) == [row EXCEPT !.loggedIn = TRUE]

(* issue_tokens: both tokens and last_login_at.                            *)
IssueTokens(s, r) ==
  LET t == txs[s]
  IN  /\ t.phase = "login"
      /\ ~Usable(r)
      /\ refresh' = [refresh EXCEPT ![r] =
                       [user |-> t.user, revoked |-> FALSE, knew |-> t.knew]]
      /\ access' = access \cup {NewAccess(t)}
      /\ users' = [users EXCEPT ![t.user] = LoggedIn(@)]
      /\ Finish(s)
      /\ UNCHANGED <<now, resets, ghosts, edits>>

(* refresh_access_token, without rotation, reads the refresh token.        *)
ReadRefresh(s, r) ==
  /\ txs[s].phase = "idle"
  /\ Usable(r)
  /\ txs' = [txs EXCEPT ![s] =
       [phase |-> "refresh", user |-> refresh[r].user, knew |-> refresh[r].knew]]
  /\ UNCHANGED <<now, users, refresh, access, resets, ghosts, edits>>

(* It then reads the user, who is active, and makes an access token.       *)
RefreshAccess(s) ==
  /\ txs[s].phase = "refresh"
  /\ Active(txs[s].user)
  /\ access' = access \cup {NewAccess(txs[s])}
  /\ Finish(s)
  /\ UNCHANGED <<now, users, refresh, resets, ghosts, edits>>

(* logout: revoke_refresh_token of the caller's own token.                 *)
Logout(k, r) ==
  /\ Accepted(k)
  /\ Usable(r) /\ refresh[r].user = k.user
  /\ refresh' = [refresh EXCEPT ![r].revoked = TRUE]
  /\ UNCHANGED <<now, users, access, resets, ghosts, edits, txs>>

(* request_password_reset: a token for an active user, and nothing for     *)
(* anybody else.                                                           *)
RequestReset(u, p) ==
  /\ "reset" \in Ops
  /\ Active(u)
  /\ ~ResetUsable(p)
  /\ resets' = [resets EXCEPT ![p] =
                  [user |-> u, expires |-> NowIst + ResetTtl, used |-> FALSE]]
  /\ UNCHANGED <<now, users, refresh, access, ghosts, edits, txs>>

(* mutant of ResetStamp: the stamp never passes                            *)
ResetStampLate == NowIst + MaxTime + Second

(* reset_password stamps with the database's wall clock.                   *)
ResetStamp == NowIst

(* reset_password: the token is good and its user active.                  *)
BeginReset(s, p) ==
  /\ txs[s].phase = "idle"
  /\ ResetUsable(p)
  /\ Active(resets[p].user)
  /\ ClockLasts(Zone) /\ Bounded
  /\ txs' = [txs EXCEPT ![s] =
       [phase |-> "password", user |-> resets[p].user, token |-> p,
        stamp |-> ResetStamp, at |-> now]]
  /\ UNCHANGED <<now, users, refresh, access, resets, ghosts>>

(* change_my_password: enforce_rbac, then the stamp in UTC.                *)
BeginChange(s, k) ==
  /\ "change" \in Ops
  /\ txs[s].phase = "idle"
  /\ Accepted(k)
  /\ ClockLasts(0) /\ Bounded
  /\ txs' = [txs EXCEPT ![s] =
       [phase |-> "password", user |-> k.user, token |-> None,
        stamp |-> now, at |-> now]]
  /\ UNCHANGED <<now, users, refresh, access, resets, ghosts>>

(* mutant of RevokedWith: the session in use is spared                     *)
RevokedSparing(u) == {r \in TokensOf(u) : r # CHOOSE q \in TokensOf(u) : TRUE}

(* revoke_all_refresh_tokens: what its SELECT sees.                        *)
RevokedWith(u) == {r \in TokensOf(u) : ~refresh[r].revoked}

(* Nothing of the user's overlaps with the change that could outlive it:   *)
(* no login or refresh let in before it is pending, no change stamped      *)
(* before it is, and no access token was made since it was stamped.        *)
Undisturbed(s) ==
  LET t == txs[s]
  IN  /\ \A o \in Session \ {s} :
           /\ txs[o].phase \in {"login", "refresh"} => txs[o].user # t.user
           /\ txs[o].phase = "password" /\ txs[o].user = t.user => t.stamp <= txs[o].stamp
      /\ \A k \in access : k.user = t.user => k.iat < t.stamp

CommitPassword(s) ==
  LET t == txs[s]
  IN  /\ t.phase = "password"
      /\ users' = [users EXCEPT ![t.user].changed = t.stamp]
      /\ refresh' = [r \in Refresh |->
                       IF r \in RevokedWith(t.user)
                       THEN [refresh[r] EXCEPT !.revoked = TRUE] ELSE refresh[r]]
      /\ resets' = IF t.token = None THEN resets
                   ELSE [resets EXCEPT ![t.token].used = TRUE]
      /\ changedAt' = [changedAt EXCEPT ![t.user] = t.at]
      /\ version' = [version EXCEPT ![t.user] = @ + 1]
      /\ ended' = [ended EXCEPT ![t.user] = IF Undisturbed(s) THEN version[t.user] + 1 ELSE @]
      /\ Finish(s)
      /\ UNCHANGED <<now, access, edits>>

(* 4xx answers (a wrong current password, say), a lost connection.         *)
Rollback(s) ==
  /\ txs[s].phase # "idle"
  /\ Finish(s)
  /\ UNCHANGED <<now, users, refresh, access, resets, ghosts, edits>>
-----------------------------------------------------------------------------
(* create_user: a new row, or the deleted one with this address revived.   *)
Invite(u) ==
  /\ "invite" \in Ops
  /\ Exists(u) => users[u].deleted
  /\ Bounded
  /\ users' = [users EXCEPT ![u] =
       IF Exists(u) THEN [@ EXCEPT !.active = TRUE, !.deleted = FALSE]
       ELSE [active |-> TRUE, deleted |-> FALSE, loggedIn |-> FALSE, changed |-> None]]
  /\ UNCHANGED <<now, refresh, access, resets, ghosts, txs>>

(* mutant of OnRoster: a deleted user can still be activated               *)
AnyRow(u) == Exists(u)

(* The SELECT of the four roster requests.                                 *)
OnRoster(u) == Exists(u) /\ ~users[u].deleted

(* soft_delete_user, activate_user and reinvite_user read the user; the    *)
(* first two return at once when there is nothing to do.                   *)
BeginRoster(s, op, u) ==
  /\ txs[s].phase = "idle"
  /\ op \in Ops \cap {"deactivate", "delete", "activate", "reinvite"}
  /\ OnRoster(u)
  /\ op = "deactivate" => users[u].active
  /\ op = "activate" => ~users[u].active
  /\ Bounded
  /\ txs' = [txs EXCEPT ![s] =
       [phase |-> "roster", op |-> op, user |-> u, active |-> users[u].active]]
  /\ UNCHANGED <<now, users, refresh, access, resets, ghosts>>

(* The row as the request leaves it in memory: is_active is written only   *)
(* where it differs from what was read.                                    *)
CommitRoster(s) ==
  LET t == txs[s]
      row == users[t.user]
      wanted == t.op \in {"activate", "reinvite"}
  IN  /\ t.phase = "roster"
      /\ users' = [users EXCEPT ![t.user] =
           [row EXCEPT !.active = IF wanted = t.active THEN row.active ELSE wanted,
                       !.deleted = row.deleted \/ t.op = "delete"]]
      /\ Finish(s)
      /\ UNCHANGED <<now, refresh, access, resets, ghosts, edits>>
-----------------------------------------------------------------------------
Next ==
  \/ Tick
  \/ \E s \in Session :
       \/ \E u \in User : Authenticate(s, u)
       \/ \E r \in Refresh : IssueTokens(s, r)
       \/ \E r \in Refresh : ReadRefresh(s, r)
       \/ RefreshAccess(s)
       \/ \E p \in Reset : BeginReset(s, p)
       \/ \E k \in access : BeginChange(s, k)
       \/ CommitPassword(s)
  \/ \E k \in access, r \in Refresh : Logout(k, r)
  \/ \E u \in User, p \in Reset : RequestReset(u, p)
  \/ \E u \in User : Invite(u)
  \/ \E s \in AdminSession :
       \/ \E op \in Ops, u \in User : BeginRoster(s, op, u)
       \/ CommitRoster(s)
  \/ \E s \in Session \cup AdminSession : Rollback(s)

Spec == Init /\ [][Next]_vars

(* The clock runs, a request that was begun ends, a user who is not let in *)
(* logs in again or refreshes, as a 401 asks for, and not every login or   *)
(* refresh loses its connection.                                           *)
Fairness ==
  /\ WF_vars(Tick)
  /\ \A s \in Session :
       /\ WF_vars(CommitPassword(s))
       /\ \A u \in User : WF_vars(Authenticate(s, u))
       /\ SF_vars(\E r \in Refresh : IssueTokens(s, r))
       /\ \A r \in Refresh : WF_vars(ReadRefresh(s, r))
       /\ SF_vars(RefreshAccess(s))

FairSpec == Spec /\ Fairness
-----------------------------------------------------------------------------
(* What the roster shows                                                   *)

(* User.status                                                             *)
Status(u) ==
  CASE ~users[u].active -> "deactivated"
    [] users[u].active /\ ~users[u].loggedIn -> "invited"
    [] users[u].active /\ users[u].loggedIn -> "active"

(* mutant of ListUsers: invited is never having logged in, active or not   *)
ListUsersInvited(status) ==
  {u \in User : OnRoster(u) /\
     CASE status = "deactivated" -> ~users[u].active
       [] status = "invited" -> ~users[u].loggedIn
       [] status = "active" -> users[u].active /\ users[u].loggedIn}

(* list_users with a status filter, in SQL                                 *)
ListUsers(status) ==
  {u \in User : OnRoster(u) /\
     CASE status = "deactivated" -> ~users[u].active
       [] status = "invited" -> users[u].active /\ ~users[u].loggedIn
       [] status = "active" -> users[u].active /\ users[u].loggedIn}
-----------------------------------------------------------------------------
(* Properties                                                              *)

Works(u) == \E k \in access : k.user = u /\ Accepted(k)

(* Forced to log in again, for good: after a password change or reset that *)
(* nothing of the user's disturbed, no refresh token and no access token   *)
(* of a session let in before is accepted any more, however many logins,   *)
(* refreshes, resets and overlapping changes, deletions and revivals       *)
(* follow.  (A login or refresh that is pending, a change that is stamped  *)
(* earlier and commits later, and a token made in the meantime do disturb  *)
(* it: each can keep or bring back an earlier session.)                    *)
EarlierSessionsEnded ==
  /\ \A r \in Refresh : Usable(r) => refresh[r].knew >= ended[refresh[r].user]
  /\ \A k \in access : Accepted(k) => k.knew >= ended[k.user]

(* A deleted user is inactive, so cannot log in, through revivals and      *)
(* re-invitations, as long as roster requests do not overlap.              *)
DeletedIsInactive ==
  \A u \in User : Exists(u) /\ users[u].deleted => ~users[u].active

(* The status filter of the user list and the status shown for a user are  *)
(* two definitions of one thing: a user on the roster is in exactly the    *)
(* list of the status it shows, and nobody else is in any.                 *)
StatusListsAgree ==
  \A status \in {"deactivated", "invited", "active"} :
    ListUsers(status) = {u \in User : OnRoster(u) /\ Status(u) = status}

(* Nobody is locked out for good: an active user who keeps logging in can  *)
(* work in the end, after any password change or reset, unless             *)
(* deactivated meanwhile.                                                  *)
NobodyLockedOut ==
  \A u \in User : Active(u) ~> Works(u) \/ ~Active(u)

(* An access token issued a second or more after the last password change  *)
(* is accepted: "it compares directly against the JWT iat claim".          *)
AcceptedAfterChange ==
  \A k \in access :
    /\ Active(k.user) /\ Unexpired(k, now)
    /\ changedAt[k.user] # None
    /\ k.iat >= changedAt[k.user] + Second
    => Accepted(k)
=============================================================================

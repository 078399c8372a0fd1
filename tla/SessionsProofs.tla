--------------------------- MODULE SessionsProofs ---------------------------
(***************************************************************************)
(* Theorems about Sessions, for every set of users, sessions and tokens,   *)
(* every difference of the clocks, every lifetime and every bound.         *)
(***************************************************************************)
EXTENDS Sessions, TLAPS

-----------------------------------------------------------------------------
(* Type correctness.                                                       *)

(* Users' rows are revived, never removed: the user a request read is      *)
(* there when it commits, and so is the reset token it checked.            *)
RowsThere ==
  \A s \in Session \cup AdminSession :
    /\ txs[s].phase # "idle" => users[txs[s].user] # Absent
    /\ txs[s].phase = "password" /\ txs[s].token # None => resets[txs[s].token] # Absent

(* The stamp to store is not before the moment it stands for, and fits.    *)
StampsBounded ==
  \A s \in Session \cup AdminSession : txs[s].phase = "password" =>
    txs[s].at <= txs[s].stamp /\ txs[s].stamp <= MaxTime + Zone

(* Every refresh token is some user's.                                     *)
TokensOwned == \A r \in Refresh : refresh[r] # Absent => Exists(refresh[r].user)

TypeInv == TypeOK /\ RowsThere /\ StampsBounded /\ TokensOwned

LEMMA WholeSecondTyped ==
  ASSUME NEW t \in Nat
  PROVE  WholeSecond(t) \in Nat /\ WholeSecond(t) <= t
  BY ClockAssumption DEF WholeSecond

LEMMA NewAccessTyped ==
  ASSUME TypeOK, NEW t \in Login
  PROVE  NewAccess(t) \in AccessToken
  <1>1. WholeSecond(now) \in Nat
    BY WholeSecondTyped, ClockAssumption DEF TypeOK, Time
  <1> QED
    BY <1>1, ClockAssumption DEF NewAccess, AccessToken, Login

(* The session's view of its request.                                      *)
LEMMA ActiveTx ==
  ASSUME TypeOK, NEW s \in Session \cup AdminSession
  PROVE  /\ txs[s].phase \in {"login", "refresh"} => txs[s] \in Login
         /\ txs[s].phase = "password" => txs[s] \in Password
         /\ txs[s].phase = "roster" => txs[s] \in Roster
         /\ txs[s].phase # "idle" => txs[s].user \in User
  <1>1. txs[s] \in Login \cup Password \cup Roster \cup {Idle}
    BY DEF TypeOK
  <1> QED
    BY <1>1 DEF Login, Password, Roster, Idle

LEMMA InitTypeInv == Init => TypeInv
  <1> SUFFICES ASSUME Init PROVE TypeInv
    OBVIOUS
  <1>1. TypeOK
    BY ClockAssumption DEF Init, TypeOK, Time
  <1>2. RowsThere /\ StampsBounded /\ TokensOwned
    BY DEF Init, RowsThere, StampsBounded, TokensOwned, Idle
  <1> QED
    BY <1>1, <1>2 DEF TypeInv

(* A request that begins, ends, or changes no request of its own, while    *)
(* rows stay.                                                              *)
LEMMA RequestsKept ==
  ASSUME TypeInv,
         \A u \in User : users[u] # Absent => users'[u] # Absent,
         \A p \in Reset : resets[p] # Absent => resets'[p] # Absent,
         \A r \in Refresh : refresh'[r] # Absent =>
           \/ refresh[r] # Absent /\ refresh'[r].user = refresh[r].user
           \/ users'[refresh'[r].user] # Absent,
         \A s \in Session \cup AdminSession :
           \/ txs'[s] = txs[s]
           \/ txs'[s] = Idle
           \/ /\ txs'[s] \in Login \cup Password \cup Roster
              /\ users'[txs'[s].user] # Absent
              /\ txs'[s].phase = "password" =>
                   /\ txs'[s].token # None => resets'[txs'[s].token] # Absent
                   /\ txs'[s].at <= txs'[s].stamp /\ txs'[s].stamp <= MaxTime + Zone
  PROVE  RowsThere' /\ StampsBounded' /\ TokensOwned'
  <1>0. TokensOwned'
    <2>1. \A r \in Refresh : refresh[r] # Absent => refresh[r].user \in User
      BY DEF TypeInv, TypeOK, RefreshRow
    <2> QED
      BY <2>1 DEF TypeInv, TokensOwned, Exists
  <1> SUFFICES ASSUME NEW s \in Session \cup AdminSession
               PROVE  /\ txs'[s].phase # "idle" => users'[txs'[s].user] # Absent
                      /\ txs'[s].phase = "password" =>
                           /\ txs'[s].token # None => resets'[txs'[s].token] # Absent
                           /\ txs'[s].at <= txs'[s].stamp
                           /\ txs'[s].stamp <= MaxTime + Zone
    BY <1>0 DEF RowsThere, StampsBounded
  <1>1. CASE txs'[s] = txs[s]
    <2>1. txs[s].phase # "idle" => txs[s].user \in User
      BY ActiveTx DEF TypeInv
    <2>2. txs[s].phase = "password" => txs[s].token \in Reset \cup {None}
      BY ActiveTx DEF TypeInv, Password
    <2> QED
      BY <1>1, <2>1, <2>2 DEF TypeInv, RowsThere, StampsBounded
  <1>2. CASE txs'[s] = Idle
    BY <1>2 DEF Idle
  <1> QED
    BY <1>1, <1>2

(* A roster request writes is_active and deleted_at of the user it read.   *)
LEMMA RosterWrites ==
  ASSUME TypeOK, RowsThere, NEW s \in AdminSession, CommitRoster(s)
  PROVE  LET t == txs[s]
             wanted == t.op \in {"activate", "reinvite"}
             act == IF wanted = t.active THEN users[t.user].active ELSE wanted
             del == users[t.user].deleted \/ t.op = "delete"
         IN  /\ t \in Roster /\ t.user \in User /\ users[t.user] \in UserRow
             /\ act \in BOOLEAN /\ del \in BOOLEAN
             /\ users' = [users EXCEPT ![t.user] =
                             [users[t.user] EXCEPT !.active = act, !.deleted = del]]
  <1> DEFINE t == txs[s]
  <1>1. t \in Roster /\ t.phase = "roster" /\ t.user \in User
    BY ActiveTx DEF CommitRoster
  <1>2. users[t.user] \in UserRow
    BY <1>1 DEF RowsThere, TypeOK
  <1>3. users[t.user].active \in BOOLEAN /\ users[t.user].deleted \in BOOLEAN
    BY <1>2 DEF UserRow
  <1>4. (users[t.user].deleted \/ t.op = "delete") \in BOOLEAN
    OBVIOUS
  <1> DEFINE wanted == t.op \in {"activate", "reinvite"}
  <1>5. users' = [users EXCEPT ![t.user] =
           [users[t.user] EXCEPT
              !.active = IF wanted = t.active THEN users[t.user].active ELSE wanted,
              !.deleted = users[t.user].deleted \/ t.op = "delete"]]
    BY Zenon DEF CommitRoster
  <1>6. (IF wanted = t.active THEN users[t.user].active ELSE wanted) \in BOOLEAN
    <2>1. wanted \in BOOLEAN
      OBVIOUS
    <2> HIDE DEF wanted
    <2> QED
      BY <1>3, <2>1
  <1> QED
    BY <1>1, <1>2, <1>4, <1>5, <1>6

LEMMA TypeInvStep == TypeInv /\ [Next]_vars => TypeInv'
  <1> SUFFICES ASSUME TypeInv, [Next]_vars PROVE TypeInv'
    OBVIOUS
  <1>0. TypeOK
    BY DEF TypeInv
  <1> DEFINE S == Session \cup AdminSession
  <1>1. CASE UNCHANGED vars
    BY <1>1 DEF TypeInv, TypeOK, RowsThere, StampsBounded, TokensOwned, Exists, vars, ghosts
  <1>2. CASE Tick
    <2>1. now' \in Time
      BY <1>0, <1>2, ClockAssumption DEF Tick, TypeOK, Time
    <2> QED
      BY <1>2, <2>1 DEF Tick, TypeInv, TypeOK, RowsThere, StampsBounded, TokensOwned, Exists,
                        ghosts
  <1>3. ASSUME NEW s \in Session, NEW t \in Login, users[t.user] # Absent,
               txs' = [txs EXCEPT ![s] = t],
               UNCHANGED <<now, users, refresh, access, resets, ghosts, edits>>
        PROVE  TypeInv'
    <2>1. t.phase # "password"
      BY DEF Login
    <2>2. TypeOK'
      BY <1>0, <1>3 DEF TypeOK, ghosts
    <2>3. \A o \in S : txs'[o] = IF o = s THEN t ELSE txs[o]
      BY <1>0, <1>3 DEF TypeOK
    <2> QED
      BY <1>3, <2>1, <2>2, <2>3, RequestsKept DEF TypeInv
  <1>31. ASSUME NEW s \in Session, NEW u \in User, Authenticate(s, u)
         PROVE  TypeInv'
    <2>1. PICK t : t = [phase |-> "login", user |-> u, knew |-> version[u]]
      OBVIOUS
    <2>2. t \in Login /\ t.user = u
      BY <1>0, <2>1 DEF Login, TypeOK
    <2> QED
      BY <1>3, <1>31, <2>1, <2>2 DEF Authenticate, Active, Exists
  <1>32. ASSUME NEW s \in Session, NEW r \in Refresh, ReadRefresh(s, r)
         PROVE  TypeInv'
    <2>1. PICK t : t = [phase |-> "refresh", user |-> refresh[r].user,
                        knew |-> refresh[r].knew]
      OBVIOUS
    <2>2. refresh[r] \in RefreshRow
      BY <1>0, <1>32 DEF ReadRefresh, Usable, TypeOK
    <2>3. t \in Login /\ t.user = refresh[r].user
      BY <2>1, <2>2 DEF Login, RefreshRow
    <2>4. users[t.user] # Absent
      BY <1>32, <2>3 DEF ReadRefresh, Usable, TypeInv, TokensOwned, Exists
    <2> QED
      BY <1>3, <1>32, <2>1, <2>3, <2>4 DEF ReadRefresh
  <1>4. ASSUME NEW s \in Session, NEW r \in Refresh, IssueTokens(s, r)
        PROVE  TypeInv'
    <2> DEFINE t == txs[s]
               u == t.user
               row == [user |-> u, revoked |-> FALSE, knew |-> t.knew]
    <2>1. t \in Login /\ u \in User /\ users[u] # Absent
      BY <1>0, <1>4, ActiveTx DEF IssueTokens, TypeInv, RowsThere
    <2>2. /\ refresh' = [refresh EXCEPT ![r] = row]
          /\ access' = access \cup {NewAccess(t)}
          /\ users' = [users EXCEPT ![u] = LoggedIn(users[u])]
          /\ Finish(s)
          /\ UNCHANGED <<now, resets, ghosts, edits>>
      BY <1>4 DEF IssueTokens
    <2>3. row \in RefreshRow /\ NewAccess(t) \in AccessToken
      BY <1>0, <2>1, NewAccessTyped DEF RefreshRow, Login
    <2> HIDE DEF row, u, t
    <2>4. LoggedIn(users[u]) \in UserRow
      <3>1. users[u] \in UserRow
        BY <1>0, <2>1 DEF TypeOK
      <3> QED
        BY <3>1 DEF LoggedIn, UserRow
    <2>5. TypeOK'
      BY <1>0, <2>2, <2>3, <2>4 DEF TypeOK, Finish, ghosts
    <2>6. \A v \in User : users[v] # Absent => users'[v] # Absent
      BY <1>0, <2>2, <2>4, SessionAssumption DEF TypeOK
    <2>7. users'[u] # Absent /\ row.user = u
      BY <1>0, <2>1, <2>2, <2>4, SessionAssumption DEF TypeOK, row
    <2>8. \A q \in Refresh : refresh'[q] = IF q = r THEN row ELSE refresh[q]
      BY <1>0, <2>2 DEF TypeOK
    <2>9. \A o \in S : txs'[o] = txs[o] \/ txs'[o] = Idle
      BY <1>0, <2>2 DEF TypeOK, Finish
    <2> QED
      BY <2>2, <2>5, <2>6, <2>7, <2>8, <2>9, RequestsKept DEF TypeInv
  <1>5. ASSUME NEW s \in Session, RefreshAccess(s)
        PROVE  TypeInv'
    <2>1. NewAccess(txs[s]) \in AccessToken
      BY <1>0, <1>5, ActiveTx, NewAccessTyped DEF RefreshAccess
    <2>2. TypeOK'
      BY <1>0, <1>5, <2>1 DEF RefreshAccess, TypeOK, Finish, ghosts
    <2>3. \A o \in S : txs'[o] = txs[o] \/ txs'[o] = Idle
      BY <1>0, <1>5 DEF RefreshAccess, Finish, TypeOK
    <2> QED
      BY <1>5, <2>2, <2>3, RequestsKept DEF RefreshAccess, TypeInv
  <1>6. ASSUME NEW k \in access, NEW r \in Refresh, Logout(k, r)
        PROVE  TypeInv'
    <2>1. [refresh[r] EXCEPT !.revoked = TRUE] \in RefreshRow
      BY <1>0, <1>6 DEF Logout, Usable, TypeOK, RefreshRow
    <2>2. refresh' = [refresh EXCEPT ![r] = [refresh[r] EXCEPT !.revoked = TRUE]]
      BY <1>6 DEF Logout
    <2>3. TypeOK'
      BY <1>0, <1>6, <2>1, <2>2 DEF Logout, TypeOK, ghosts
    <2>4. \A q \in Refresh : refresh'[q] # Absent =>
            refresh[q] # Absent /\ refresh'[q].user = refresh[q].user
      BY <1>0, <1>6, <2>2 DEF Logout, Usable, TypeOK, RefreshRow
    <2> QED
      BY <1>6, <2>3, <2>4, RequestsKept DEF Logout, TypeInv
  <1>7. ASSUME NEW u \in User, NEW p \in Reset, RequestReset(u, p)
        PROVE  TypeInv'
    <2> DEFINE row == [user |-> u, expires |-> NowIst + ResetTtl, used |-> FALSE]
    <2>1. row \in ResetRow
      BY <1>0, ClockAssumption DEF ResetRow, NowIst, TypeOK, Time
    <2>2. /\ resets' = [resets EXCEPT ![p] = row]
          /\ UNCHANGED <<now, users, refresh, access, ghosts, edits, txs>>
      BY <1>7 DEF RequestReset
    <2> HIDE DEF row
    <2>3. TypeOK'
      BY <1>0, <2>1, <2>2 DEF TypeOK, ghosts
    <2>4. \A q \in Reset : resets[q] # Absent => resets'[q] # Absent
      BY <1>0, <2>1, <2>2, SessionAssumption DEF TypeOK
    <2> QED
      BY <2>2, <2>3, <2>4, RequestsKept DEF TypeInv
  <1>8. ASSUME NEW s \in Session, NEW p \in Reset, BeginReset(s, p)
        PROVE  TypeInv'
    <2> DEFINE t == [phase |-> "password", user |-> resets[p].user, token |-> p,
                     stamp |-> ResetStamp, at |-> now]
    <2>1. /\ resets[p] # Absent /\ users[resets[p].user] # Absent
          /\ edits' = edits + 1 /\ edits < MaxEdits
          /\ txs' = [txs EXCEPT ![s] = t]
          /\ UNCHANGED <<now, users, refresh, access, resets, ghosts>>
      BY <1>8 DEF BeginReset, ResetUsable, Active, Exists, Bounded
    <2>2. resets[p].user \in User
      BY <1>0, <2>1 DEF TypeOK, ResetRow
    <2>3. ResetStamp \in Nat /\ now <= ResetStamp /\ ResetStamp <= MaxTime + Zone
      BY <1>0, ClockAssumption DEF ResetStamp, NowIst, TypeOK, Time
    <2>4. t \in Password
      BY <1>0, <2>2, <2>3 DEF Password, TypeOK
    <2>5. /\ t.user = resets[p].user /\ t.token = p /\ t.phase = "password"
          /\ t.at = now /\ t.stamp = ResetStamp
      OBVIOUS
    <2> HIDE DEF t
    <2>6. TypeOK'
      BY <1>0, <2>1, <2>4, ClockAssumption DEF TypeOK, ghosts
    <2>7. \A o \in S : txs'[o] = IF o = s THEN t ELSE txs[o]
      BY <1>0, <2>1 DEF TypeOK
    <2> QED
      BY <2>1, <2>3, <2>4, <2>5, <2>6, <2>7, RequestsKept DEF TypeInv
  <1>9. ASSUME NEW s \in Session, NEW k \in access, BeginChange(s, k)
        PROVE  TypeInv'
    <2> DEFINE t == [phase |-> "password", user |-> k.user, token |-> None,
                     stamp |-> now, at |-> now]
    <2>1. /\ users[k.user] # Absent
          /\ edits' = edits + 1 /\ edits < MaxEdits
          /\ txs' = [txs EXCEPT ![s] = t]
          /\ UNCHANGED <<now, users, refresh, access, resets, ghosts>>
      BY <1>9 DEF BeginChange, Accepted, Active, Exists, Bounded
    <2>2. k.user \in User
      BY <1>0 DEF TypeOK, AccessToken
    <2>3. now \in Nat /\ now <= now /\ now <= MaxTime + Zone
      BY <1>0, ClockAssumption DEF TypeOK, Time
    <2>4. t \in Password
      BY <1>0, <2>2, <2>3 DEF Password, TypeOK
    <2>5. /\ t.user = k.user /\ t.token = None /\ t.phase = "password"
          /\ t.at = now /\ t.stamp = now
      OBVIOUS
    <2> HIDE DEF t
    <2>6. TypeOK'
      BY <1>0, <2>1, <2>4, ClockAssumption DEF TypeOK, ghosts
    <2>7. \A o \in S : txs'[o] = IF o = s THEN t ELSE txs[o]
      BY <1>0, <2>1 DEF TypeOK
    <2> QED
      BY <2>1, <2>3, <2>4, <2>5, <2>6, <2>7, RequestsKept DEF TypeInv
  <1>10. ASSUME NEW s \in Session, CommitPassword(s)
         PROVE  TypeInv'
    <2> DEFINE t == txs[s]
    <2>1. /\ t.phase = "password" /\ Finish(s)
          /\ users' = [users EXCEPT ![t.user] = [users[t.user] EXCEPT !.changed = t.stamp]]
          /\ refresh' = [r \in Refresh |->
                           IF r \in RevokedWith(t.user)
                           THEN [refresh[r] EXCEPT !.revoked = TRUE] ELSE refresh[r]]
          /\ resets' = IF t.token = None THEN resets
                       ELSE [resets EXCEPT ![t.token] =
                               [resets[t.token] EXCEPT !.used = TRUE]]
          /\ changedAt' = [changedAt EXCEPT ![t.user] = t.at]
          /\ version' = [version EXCEPT ![t.user] = version[t.user] + 1]
          /\ ended' = [ended EXCEPT ![t.user] = IF Undisturbed(s) THEN version[t.user] + 1
                                              ELSE ended[t.user]]
          /\ UNCHANGED <<now, access, edits>>
      BY <1>10 DEF CommitPassword
    <2>2. /\ t \in Password /\ t.user \in User /\ users[t.user] # Absent
          /\ t.token # None => resets[t.token] # Absent
          /\ t.stamp <= MaxTime + Zone
      BY <1>0, <2>1, ActiveTx DEF TypeInv, RowsThere, StampsBounded
    <2>3. t.at \in Time /\ t.stamp \in 0..(MaxTime + Zone) /\ t.token \in Reset \cup {None}
      BY <2>2, ClockAssumption DEF Password
    <2>4. [users[t.user] EXCEPT !.changed = t.stamp] \in UserRow
      BY <1>0, <2>2, <2>3 DEF TypeOK, UserRow
    <2>5. t.token # None => [resets[t.token] EXCEPT !.used = TRUE] \in ResetRow
      BY <1>0, <2>2, <2>3 DEF TypeOK, ResetRow
    <2>6. \A r \in RevokedWith(t.user) : [refresh[r] EXCEPT !.revoked = TRUE] \in RefreshRow
      BY <1>0 DEF RevokedWith, TokensOf, TypeOK, RefreshRow
    <2> HIDE DEF t
    <2>7. users' \in [User -> UserRow \cup {Absent}] /\ changedAt' \in [User -> Time \cup {None}]
      BY <1>0, <2>1, <2>3, <2>4 DEF TypeOK
    <2>8. refresh' \in [Refresh -> RefreshRow \cup {Absent}]
      BY <1>0, <2>1, <2>6 DEF TypeOK
    <2>9. resets' \in [Reset -> ResetRow \cup {Absent}]
      BY <1>0, <2>1, <2>5 DEF TypeOK
    <2>91. version' \in [User -> Nat] /\ ended' \in [User -> Nat]
      BY <1>0, <2>1, <2>2 DEF TypeOK
    <2>10. TypeOK'
      BY <1>0, <2>1, <2>7, <2>8, <2>9, <2>91 DEF TypeOK, Finish
    <2>11. \A u \in User : users[u] # Absent => users'[u] # Absent
      BY <1>0, <2>1, <2>4, SessionAssumption DEF TypeOK
    <2>12. \A p \in Reset : resets[p] # Absent => resets'[p] # Absent
      BY <1>0, <2>1, <2>5, SessionAssumption DEF TypeOK
    <2>13. \A o \in S : txs'[o] = txs[o] \/ txs'[o] = Idle
      BY <1>0, <2>1 DEF Finish, TypeOK
    <2>14. \A r \in Refresh : refresh'[r] # Absent =>
             refresh[r] # Absent /\ refresh'[r].user = refresh[r].user
      BY <1>0, <2>1 DEF RevokedWith, TokensOf, TypeOK, RefreshRow
    <2> QED
      BY <2>10, <2>11, <2>12, <2>13, <2>14, RequestsKept DEF TypeInv
  <1>11. ASSUME NEW u \in User, Invite(u)
         PROVE  TypeInv'
    <2> DEFINE row == IF Exists(u) THEN [users[u] EXCEPT !.active = TRUE, !.deleted = FALSE]
                      ELSE [active |-> TRUE, deleted |-> FALSE, loggedIn |-> FALSE,
                            changed |-> None]
    <2>1. /\ users' = [users EXCEPT ![u] = row]
          /\ edits' = edits + 1 /\ edits < MaxEdits
          /\ UNCHANGED <<now, refresh, access, resets, ghosts, txs>>
      BY <1>11 DEF Invite, Bounded
    <2>2. row \in UserRow
      <3>1. CASE Exists(u)
        <4>1. users[u] \in UserRow
          BY <1>0, <3>1 DEF Exists, TypeOK
        <4> QED
          BY <3>1, <4>1 DEF UserRow
      <3>2. CASE ~Exists(u)
        BY <3>2 DEF UserRow
      <3> QED
        BY <3>1, <3>2
    <2> HIDE DEF row
    <2>3. TypeOK'
      BY <1>0, <2>1, <2>2, ClockAssumption DEF TypeOK, ghosts
    <2>4. \A v \in User : users[v] # Absent => users'[v] # Absent
      BY <1>0, <2>1, <2>2, SessionAssumption DEF TypeOK
    <2> QED
      BY <2>1, <2>3, <2>4, RequestsKept DEF TypeInv
  <1>12. ASSUME NEW s \in AdminSession, NEW op \in Ops, NEW u \in User, BeginRoster(s, op, u)
         PROVE  TypeInv'
    <2> DEFINE t == [phase |-> "roster", op |-> op, user |-> u, active |-> users[u].active]
    <2>1. /\ users[u] # Absent
          /\ edits' = edits + 1 /\ edits < MaxEdits
          /\ txs' = [txs EXCEPT ![s] = t]
          /\ UNCHANGED <<now, users, refresh, access, resets, ghosts>>
      BY <1>12 DEF BeginRoster, OnRoster, Exists, Bounded
    <2>2. t \in Roster /\ t.user = u /\ t.phase = "roster"
      BY <1>0, <2>1, OpsAssumption DEF Roster, TypeOK, UserRow
    <2> HIDE DEF t
    <2>3. TypeOK'
      BY <1>0, <2>1, <2>2, ClockAssumption DEF TypeOK, ghosts
    <2>4. \A o \in S : txs'[o] = IF o = s THEN t ELSE txs[o]
      BY <1>0, <2>1 DEF TypeOK
    <2> QED
      BY <2>1, <2>2, <2>3, <2>4, RequestsKept DEF TypeInv
  <1>13. ASSUME NEW s \in AdminSession, CommitRoster(s)
         PROVE  TypeInv'
    <2>1. PICK u \in User, act \in BOOLEAN, del \in BOOLEAN :
            /\ users[u] \in UserRow
            /\ users' = [users EXCEPT ![u] = [users[u] EXCEPT !.active = act, !.deleted = del]]
      BY <1>0, <1>13, RosterWrites DEF TypeInv
    <2>2. [users[u] EXCEPT !.active = act, !.deleted = del] \in UserRow
      BY <2>1 DEF UserRow
    <2>3. Finish(s) /\ UNCHANGED <<now, refresh, access, resets, ghosts, edits>>
      BY <1>13 DEF CommitRoster
    <2>4. TypeOK'
      BY <1>0, <2>1, <2>2, <2>3 DEF TypeOK, Finish, ghosts
    <2>5. \A v \in User : users[v] # Absent => users'[v] # Absent
      BY <1>0, <2>1, <2>2, SessionAssumption DEF TypeOK
    <2>6. \A o \in S : txs'[o] = txs[o] \/ txs'[o] = Idle
      BY <1>0, <2>3 DEF Finish, TypeOK
    <2> QED
      BY <2>3, <2>4, <2>5, <2>6, RequestsKept DEF TypeInv
  <1>14. ASSUME NEW s \in S, Rollback(s)
         PROVE  TypeInv'
    <2>1. TypeOK'
      BY <1>0, <1>14 DEF Rollback, Finish, TypeOK, ghosts
    <2>2. \A o \in S : txs'[o] = txs[o] \/ txs'[o] = Idle
      BY <1>0, <1>14 DEF Rollback, Finish, TypeOK
    <2> QED
      BY <1>14, <2>1, <2>2, RequestsKept DEF Rollback, TypeInv
  <1> QED
    BY <1>1, <1>2, <1>31, <1>32, <1>4, <1>5, <1>6, <1>7, <1>8, <1>9, <1>10, <1>11, <1>12,
       <1>13, <1>14
       DEF Next

(* Every table, token and pending request keeps its type.                  *)
THEOREM TypeCorrect == Spec => []TypeOK
  <1>1. TypeInv => TypeOK
    BY DEF TypeInv
  <1> QED
    BY <1>1, InitTypeInv, TypeInvStep, PTL DEF Spec

-----------------------------------------------------------------------------
(* Passwords.                                                              *)

(* A token let in before the user's last undisturbed change is rejected,   *)
(* and whichever change is pending will leave it rejected.                 *)
Outdated(k) ==
  /\ Exists(k.user)
  /\ IssuedBefore(k, users[k.user].changed)
  /\ \A s \in Session :
       txs[s].phase = "password" /\ txs[s].user = k.user => k.iat < txs[s].stamp

VersionsEnded == \A u \in User : ended[u] <= version[u]

RefreshCurrent ==
  \A r \in Refresh : Usable(r) => ended[refresh[r].user] <= refresh[r].knew

RequestsCurrent ==
  \A s \in Session : txs[s].phase \in {"login", "refresh"} =>
    ended[txs[s].user] <= txs[s].knew

StampsPast ==
  /\ \A s \in Session : txs[s].phase = "password" => txs[s].stamp <= NowIst
  /\ \A u \in User : Exists(u) /\ users[u].changed # None => users[u].changed <= NowIst

AccessOutdated ==
  \A k \in access : k.iat <= now /\ (k.knew < ended[k.user] => Outdated(k))

EndedInv ==
  VersionsEnded /\ RefreshCurrent /\ RequestsCurrent /\ StampsPast /\ AccessOutdated

LEMMA EndedInvInit == Init => EndedInv
  BY DEF Init, EndedInv, VersionsEnded, RefreshCurrent, RequestsCurrent, StampsPast,
         AccessOutdated, Usable, Exists, Idle

LEMMA EndedInvSafe == TypeInv /\ EndedInv => EarlierSessionsEnded
  <1> SUFFICES ASSUME TypeInv, EndedInv PROVE EarlierSessionsEnded
    OBVIOUS
  <1>1. ASSUME NEW r \in Refresh, Usable(r)
        PROVE  refresh[r].knew >= ended[refresh[r].user]
    <2>1. refresh[r].knew \in Nat /\ ended[refresh[r].user] \in Nat
      BY <1>1 DEF Usable, TypeInv, TypeOK, RefreshRow
    <2> QED
      BY <1>1, <2>1 DEF EndedInv, RefreshCurrent
  <1>2. ASSUME NEW k \in access, Accepted(k)
        PROVE  k.knew >= ended[k.user]
    <2>1. k.knew \in Nat /\ ended[k.user] \in Nat
      BY DEF TypeInv, TypeOK, AccessToken
    <2>2. ~(k.knew < ended[k.user])
      BY <1>2 DEF Accepted, EndedInv, AccessOutdated, Outdated
    <2> QED
      BY <2>1, <2>2
  <1> QED
    BY <1>1, <1>2 DEF EarlierSessionsEnded

(* A step that commits no change: what it hands out is of the version it   *)
(* was let in with, and a change it begins is stamped after every token    *)
(* that is outdated.                                                       *)
LEMMA EndedInvKept ==
  ASSUME TypeInv, EndedInv, UNCHANGED <<now, version, ended>>,
         \A u \in User :
           /\ users[u] # Absent => /\ users'[u] # Absent
                                   /\ users'[u].changed = users[u].changed
           /\ users[u] = Absent /\ users'[u] # Absent => users'[u].changed = None,
         \A r \in Refresh : Usable(r)' =>
           \/ Usable(r) /\ refresh'[r] = refresh[r]
           \/ ended[refresh'[r].user] <= refresh'[r].knew,
         \A k \in access' :
           \/ k \in access
           \/ k.iat <= now /\ ~(k.knew < ended[k.user]),
         \A s \in Session :
           \/ txs'[s] = txs[s]
           \/ txs'[s].phase = "idle"
           \/ /\ txs'[s].phase \in {"login", "refresh"}
              /\ ended[txs'[s].user] <= txs'[s].knew
           \/ /\ txs'[s].phase = "password"
              /\ txs'[s].stamp <= NowIst
              /\ \A k \in access :
                   k.user = txs'[s].user /\ Outdated(k) => k.iat < txs'[s].stamp
  PROVE  EndedInv'
  <1>0. TypeOK /\ VersionsEnded /\ RefreshCurrent /\ RequestsCurrent /\ StampsPast
        /\ AccessOutdated
    BY DEF TypeInv, EndedInv
  <1>1. VersionsEnded'
    BY <1>0 DEF VersionsEnded
  <1>2. RefreshCurrent'
    BY <1>0 DEF RefreshCurrent
  <1>3. RequestsCurrent'
    BY <1>0 DEF RequestsCurrent
  <1>4. StampsPast'
    <2>1. NowIst' = NowIst
      BY DEF NowIst
    <2>2. \A s \in Session : txs'[s].phase = "password" => txs'[s].stamp <= NowIst
      BY <1>0 DEF StampsPast
    <2>3. \A u \in User : users'[u] # Absent /\ users'[u].changed # None =>
            users'[u].changed <= NowIst
      BY <1>0 DEF StampsPast, Exists
    <2> QED
      BY <2>1, <2>2, <2>3 DEF StampsPast, Exists
  <1>5. ASSUME NEW k \in access, Outdated(k)
        PROVE  Outdated(k)'
    <2>1. k.user \in User
      BY <1>0 DEF TypeOK, AccessToken
    <2>2. Exists(k.user)' /\ IssuedBefore(k, users'[k.user].changed)
      BY <1>5, <2>1 DEF Outdated, Exists, IssuedBefore
    <2>3. \A s \in Session :
            txs'[s].phase = "password" /\ txs'[s].user = k.user => k.iat < txs'[s].stamp
      BY <1>5 DEF Outdated
    <2> QED
      BY <2>2, <2>3 DEF Outdated, IssuedBefore
  <1>6. AccessOutdated'
    BY <1>0, <1>5 DEF AccessOutdated
  <1> QED
    BY <1>1, <1>2, <1>3, <1>4, <1>6 DEF EndedInv

(* A change that commits ends what was let in before, or leaves it ended.  *)
LEMMA EndedInvCommit ==
  ASSUME TypeInv, TypeInv', EndedInv, NEW s \in Session, CommitPassword(s)
  PROVE  EndedInv'
  <1> DEFINE t == txs[s]
             u == t.user
  <1>0. /\ TypeOK /\ TypeOK' /\ VersionsEnded /\ RefreshCurrent /\ RequestsCurrent
        /\ StampsPast /\ AccessOutdated
    BY DEF TypeInv, EndedInv
  <1>1. /\ t.phase = "password" /\ Finish(s)
        /\ users' = [users EXCEPT ![u] = [users[u] EXCEPT !.changed = t.stamp]]
        /\ refresh' = [r \in Refresh |->
                         IF r \in RevokedWith(u)
                         THEN [refresh[r] EXCEPT !.revoked = TRUE] ELSE refresh[r]]
        /\ version' = [version EXCEPT ![u] = version[u] + 1]
        /\ ended' = [ended EXCEPT ![u] = IF Undisturbed(s) THEN version[u] + 1 ELSE ended[u]]
        /\ UNCHANGED <<now, access>>
    BY DEF CommitPassword
  <1>2. /\ u \in User /\ t.stamp \in Nat /\ t.stamp # None
        /\ users[u] \in UserRow /\ t.stamp <= NowIst
    BY <1>0, <1>1, ActiveTx, SessionAssumption
       DEF TypeInv, RowsThere, TypeOK, Password, StampsPast
  <1>3. \A o \in Session : txs'[o] = IF o = s THEN Idle ELSE txs[o]
    BY <1>0, <1>1 DEF Finish, TypeOK
  <1>4. /\ users'[u].changed = t.stamp
        /\ \A v \in User : v # u => users'[v] = users[v]
        /\ users'[u] # Absent
    <2>1. users'[u] = [users[u] EXCEPT !.changed = t.stamp]
      BY <1>0, <1>1, <1>2 DEF TypeOK
    <2>2. users'[u].changed = t.stamp
      BY <1>2, <2>1 DEF UserRow
    <2>3. users'[u] # Absent
      <3>1. t.stamp \in 0..(MaxTime + Zone)
        BY <1>1, <1>2, ClockAssumption DEF TypeInv, StampsBounded
      <3>2. users'[u] \in UserRow
        BY <1>2, <2>1, <3>1 DEF UserRow
      <3> QED
        BY <3>2, SessionAssumption
    <2> QED
      BY <1>0, <1>1, <2>2, <2>3 DEF TypeOK
  <1>5. /\ \A v \in User : v # u => ended'[v] = ended[v] /\ version'[v] = version[v]
        /\ ended'[u] = IF Undisturbed(s) THEN version[u] + 1 ELSE ended[u]
        /\ version'[u] = version[u] + 1
        /\ \A v \in User : ended[v] \in Nat /\ version[v] \in Nat
    BY <1>0, <1>1, <1>2 DEF TypeOK
  <1> HIDE DEF u
  <1>6. VersionsEnded'
    BY <1>0, <1>5 DEF VersionsEnded
  <1>7. ASSUME NEW r \in Refresh, Usable(r)'
        PROVE  refresh'[r] = refresh[r] /\ refresh[r].user # u /\ Usable(r)
    <2>1. CASE r \in RevokedWith(u)
      <3>1. refresh[r] \in RefreshRow
        BY <1>0, <2>1 DEF RevokedWith, TokensOf, TypeOK
      <3>2. refresh'[r] = [refresh[r] EXCEPT !.revoked = TRUE]
        BY <1>1, <2>1
      <3> QED
        BY <1>7, <3>1, <3>2 DEF Usable, RefreshRow
    <2>2. CASE r \notin RevokedWith(u)
      <3>1. refresh'[r] = refresh[r]
        BY <1>1, <2>2
      <3> QED
        BY <1>7, <2>2, <3>1 DEF Usable, RevokedWith, TokensOf
    <2> QED
      BY <2>1, <2>2
  <1>8. RefreshCurrent'
    <2>1. \A r \in Refresh : Usable(r) => refresh[r].user \in User
      BY <1>0 DEF Usable, TypeOK, RefreshRow
    <2> QED
      BY <1>0, <1>5, <1>7, <2>1 DEF RefreshCurrent
  <1>9. RequestsCurrent'
    <2> SUFFICES ASSUME NEW o \in Session, o # s, txs[o].phase \in {"login", "refresh"}
                 PROVE  ended'[txs[o].user] <= txs[o].knew
      BY <1>3 DEF RequestsCurrent, Idle
    <2>1. txs[o].user \in User
      BY <1>0, ActiveTx
    <2>2. Undisturbed(s) => txs[o].user # u
      BY DEF Undisturbed, u
    <2>3. ended'[txs[o].user] = ended[txs[o].user]
      BY <1>5, <2>1, <2>2
    <2> QED
      BY <1>0, <2>3 DEF RequestsCurrent
  <1>10. StampsPast'
    <2>1. NowIst' = NowIst
      BY <1>1 DEF NowIst
    <2>2. \A o \in Session : txs'[o].phase = "password" => txs'[o].stamp <= NowIst
      BY <1>0, <1>3 DEF StampsPast, Idle
    <2>3. \A v \in User : users'[v] # Absent /\ users'[v].changed # None =>
            users'[v].changed <= NowIst
      BY <1>0, <1>2, <1>4 DEF StampsPast, Exists
    <2> QED
      BY <2>1, <2>2, <2>3 DEF StampsPast, Exists
  <1>11. ASSUME NEW k \in access, k.user = u, k.iat < t.stamp,
                \A o \in Session \ {s} :
                  txs[o].phase = "password" /\ txs[o].user = u => k.iat < txs[o].stamp
         PROVE  Outdated(k)'
    <2>1. IssuedBefore(k, users'[k.user].changed) /\ users'[k.user] # Absent
      BY <1>2, <1>4, <1>11 DEF IssuedBefore
    <2>2. \A o \in Session :
            txs'[o].phase = "password" /\ txs'[o].user = k.user => k.iat < txs'[o].stamp
      BY <1>3, <1>11 DEF Idle
    <2> QED
      BY <2>1, <2>2 DEF Outdated, IssuedBefore, Exists
  <1>12. ASSUME NEW k \in access, k.knew < ended'[k.user]
         PROVE  Outdated(k)'
    <2>0. k.user \in User /\ k.iat \in Nat
      BY <1>0 DEF TypeOK, AccessToken
    <2>1. CASE k.user # u
      <3>1. Outdated(k)
        BY <1>0, <1>5, <1>12, <2>0, <2>1 DEF AccessOutdated
      <3>2. users'[k.user] = users[k.user]
        BY <1>4, <2>0, <2>1
      <3>3. \A o \in Session :
              txs'[o].phase = "password" /\ txs'[o].user = k.user => k.iat < txs'[o].stamp
        BY <1>3, <3>1 DEF Outdated, Idle
      <3> QED
        BY <3>1, <3>2, <3>3 DEF Outdated, Exists, IssuedBefore
    <2>2. CASE k.user = u /\ Undisturbed(s)
      <3>1. k.iat < t.stamp
        BY <2>2 DEF Undisturbed, u
      <3>2. \A o \in Session \ {s} :
              txs[o].phase = "password" /\ txs[o].user = u => t.stamp <= txs[o].stamp
        BY <2>2 DEF Undisturbed, u
      <3>3. \A o \in Session : txs[o].phase = "password" => txs[o].stamp \in Nat
        BY <1>0, ActiveTx DEF Password
      <3>4. \A o \in Session \ {s} :
              txs[o].phase = "password" /\ txs[o].user = u => k.iat < txs[o].stamp
        BY <1>2, <2>0, <3>1, <3>2, <3>3
      <3> QED
        BY <1>11, <2>2, <3>1, <3>4
    <2>3. CASE k.user = u /\ ~Undisturbed(s)
      <3>1. Outdated(k)
        BY <1>0, <1>2, <1>5, <1>12, <2>3 DEF AccessOutdated
      <3>2. k.iat < t.stamp
        BY <1>1, <2>3, <3>1 DEF Outdated, u
      <3> QED
        BY <1>11, <2>3, <3>1, <3>2 DEF Outdated
    <2> QED
      BY <2>1, <2>2, <2>3
  <1>13. AccessOutdated'
    BY <1>0, <1>1, <1>12 DEF AccessOutdated
  <1> QED
    BY <1>6, <1>8, <1>9, <1>10, <1>13 DEF EndedInv

LEMMA EndedInvTick ==
  ASSUME TypeInv, EndedInv, Tick
  PROVE  EndedInv'
  <1>0. /\ TypeOK /\ VersionsEnded /\ RefreshCurrent /\ RequestsCurrent
        /\ StampsPast /\ AccessOutdated
    BY DEF TypeInv, EndedInv
  <1>1. /\ now' = now + 1 /\ access' \subseteq access
        /\ UNCHANGED <<users, refresh, resets, changedAt, version, ended, edits, txs>>
    BY DEF Tick, ghosts
  <1>2. VersionsEnded' /\ RefreshCurrent' /\ RequestsCurrent'
    BY <1>0, <1>1 DEF VersionsEnded, RefreshCurrent, RequestsCurrent, Usable
  <1>3. NowIst \in Nat /\ NowIst' = NowIst + 1
    BY <1>0, <1>1, ClockAssumption DEF NowIst, TypeOK, Time
  <1>4. \A n \in Nat : n <= NowIst => n <= NowIst'
    BY <1>3
  <1>5. \A s \in Session : txs[s].phase = "password" => txs[s].stamp \in Nat
    BY <1>0, ActiveTx DEF Password
  <1>6. \A u \in User : Exists(u) /\ users[u].changed # None => users[u].changed \in Nat
    BY <1>0, ClockAssumption DEF TypeOK, Exists, UserRow
  <1>7. StampsPast'
    BY <1>0, <1>1, <1>4, <1>5, <1>6 DEF StampsPast, Exists
  <1>8. ASSUME NEW k \in access
        PROVE  k.iat <= now' /\ Outdated(k)' = Outdated(k)
    <2>1. k.iat \in Nat /\ k.iat <= now /\ now \in Nat
      BY <1>0, ClockAssumption DEF TypeOK, AccessToken, AccessOutdated, Time
    <2>2. k.iat <= now'
      BY <1>1, <2>1
    <2> QED
      BY <1>1, <2>2 DEF Outdated, Exists, IssuedBefore
  <1>9. AccessOutdated'
    BY <1>0, <1>1, <1>8 DEF AccessOutdated
  <1> QED
    BY <1>2, <1>7, <1>9 DEF EndedInv

LEMMA EndedInvStep == TypeInv /\ EndedInv /\ [Next]_vars => EndedInv'
  <1> SUFFICES ASSUME TypeInv, EndedInv, [Next]_vars PROVE EndedInv'
    OBVIOUS
  <1>0. /\ TypeOK /\ TypeInv' /\ VersionsEnded /\ RefreshCurrent /\ RequestsCurrent
        /\ StampsPast /\ AccessOutdated
    BY TypeInvStep DEF TypeInv, EndedInv
  <1>00. now \in Nat /\ \A u \in User : ended[u] \in Nat
    BY <1>0, ClockAssumption DEF TypeOK, Time
  <1>1. CASE UNCHANGED <<now, users, refresh, access, version, ended, txs>>
    BY <1>1, EndedInvKept DEF Usable
  <1>2. ASSUME NEW s \in Session, NEW u \in User, Authenticate(s, u)
        PROVE  EndedInv'
    <2> DEFINE t == [phase |-> "login", user |-> u, knew |-> version[u]]
    <2>1. /\ txs' = [txs EXCEPT ![s] = t]
          /\ UNCHANGED <<now, users, refresh, access, version, ended>>
      BY <1>2 DEF Authenticate, ghosts
    <2>2. t.phase = "login" /\ ended[t.user] <= t.knew
      BY <1>0 DEF VersionsEnded
    <2> HIDE DEF t
    <2>3. \A o \in Session : txs'[o] = IF o = s THEN t ELSE txs[o]
      BY <1>0, <2>1 DEF TypeOK
    <2> QED
      BY <2>1, <2>2, <2>3, EndedInvKept DEF Usable
  <1>3. ASSUME NEW s \in Session, NEW r \in Refresh, IssueTokens(s, r)
        PROVE  EndedInv'
    <2> DEFINE t == txs[s]
               row == [user |-> t.user, revoked |-> FALSE, knew |-> t.knew]
    <2>1. /\ t.phase = "login" /\ Finish(s)
          /\ refresh' = [refresh EXCEPT ![r] = row]
          /\ access' = access \cup {NewAccess(t)}
          /\ users' = [users EXCEPT ![t.user] = LoggedIn(users[t.user])]
          /\ UNCHANGED <<now, version, ended>>
      BY <1>3 DEF IssueTokens, ghosts
    <2>2. /\ t \in Login /\ t.user \in User /\ users[t.user] \in UserRow
          /\ ended[t.user] <= t.knew
      BY <1>0, <2>1, ActiveTx DEF TypeInv, RowsThere, TypeOK, RequestsCurrent
    <2>3. /\ NewAccess(t).iat <= now
          /\ ~(NewAccess(t).knew < ended[NewAccess(t).user])
      BY <1>00, <2>2, WholeSecondTyped DEF NewAccess, Login
    <2>4. /\ LoggedIn(users[t.user]).changed = users[t.user].changed
          /\ LoggedIn(users[t.user]) \in UserRow
      BY <2>2 DEF LoggedIn, UserRow
    <2>5. row.user = t.user /\ row.knew = t.knew
      OBVIOUS
    <2> HIDE DEF row
    <2>6. \A q \in Refresh : refresh'[q] = IF q = r THEN row ELSE refresh[q]
      BY <1>0, <2>1 DEF TypeOK
    <2>7. \A o \in Session : txs'[o] = IF o = s THEN Idle ELSE txs[o]
      BY <1>0, <2>1 DEF TypeOK, Finish
    <2> HIDE DEF t
    <2>8. \A u \in User :
            /\ users[u] # Absent => /\ users'[u] # Absent
                                    /\ users'[u].changed = users[u].changed
            /\ users[u] = Absent => users'[u] = Absent
      BY <1>0, <2>1, <2>2, <2>4, SessionAssumption DEF TypeOK
    <2>9. \A q \in Refresh : Usable(q)' =>
            \/ Usable(q) /\ refresh'[q] = refresh[q]
            \/ ended[refresh'[q].user] <= refresh'[q].knew
      BY <2>2, <2>5, <2>6 DEF Usable
    <2>10. \A o \in Session : txs'[o] = txs[o] \/ txs'[o].phase = "idle"
      BY <2>7 DEF Idle
    <2>11. \A k \in access' : k \in access \/ (k.iat <= now /\ ~(k.knew < ended[k.user]))
      BY <2>1, <2>3
    <2>12. UNCHANGED <<now, version, ended>>
      BY <2>1
    <2> QED
      BY <2>8, <2>9, <2>10, <2>11, <2>12, EndedInvKept
  <1>4. ASSUME NEW s \in Session, NEW r \in Refresh, ReadRefresh(s, r)
        PROVE  EndedInv'
    <2> DEFINE t == [phase |-> "refresh", user |-> refresh[r].user,
                     knew |-> refresh[r].knew]
    <2>1. /\ txs' = [txs EXCEPT ![s] = t]
          /\ UNCHANGED <<now, users, refresh, access, version, ended>>
      BY <1>4 DEF ReadRefresh, ghosts
    <2>2. t.phase = "refresh" /\ ended[t.user] <= t.knew
      BY <1>0, <1>4 DEF ReadRefresh, RefreshCurrent
    <2> HIDE DEF t
    <2>3. \A o \in Session : txs'[o] = IF o = s THEN t ELSE txs[o]
      BY <1>0, <2>1 DEF TypeOK
    <2> QED
      BY <2>1, <2>2, <2>3, EndedInvKept DEF Usable
  <1>5. ASSUME NEW s \in Session, RefreshAccess(s)
        PROVE  EndedInv'
    <2> DEFINE t == txs[s]
    <2>1. /\ t.phase = "refresh" /\ Finish(s)
          /\ access' = access \cup {NewAccess(t)}
          /\ UNCHANGED <<now, users, refresh, version, ended>>
      BY <1>5 DEF RefreshAccess, ghosts
    <2>2. t \in Login /\ t.user \in User /\ ended[t.user] <= t.knew
      BY <1>0, <2>1, ActiveTx DEF RequestsCurrent
    <2>3. /\ NewAccess(t).iat <= now
          /\ ~(NewAccess(t).knew < ended[NewAccess(t).user])
      BY <1>00, <2>2, WholeSecondTyped DEF NewAccess, Login
    <2>4. \A o \in Session : txs'[o] = txs[o] \/ txs'[o].phase = "idle"
      BY <1>0, <2>1 DEF TypeOK, Finish, Idle
    <2> QED
      BY <2>1, <2>3, <2>4, EndedInvKept DEF Usable
  <1>6. ASSUME NEW k \in access, NEW r \in Refresh, Logout(k, r)
        PROVE  EndedInv'
    <2>1. /\ refresh' = [refresh EXCEPT ![r] = [refresh[r] EXCEPT !.revoked = TRUE]]
          /\ refresh[r] \in RefreshRow
          /\ UNCHANGED <<now, users, access, version, ended, txs>>
      BY <1>0, <1>6 DEF Logout, Usable, TypeOK, ghosts
    <2>2. \A q \in Refresh : Usable(q)' => Usable(q) /\ refresh'[q] = refresh[q]
      BY <1>0, <2>1 DEF Usable, TypeOK, RefreshRow
    <2> QED
      BY <2>1, <2>2, EndedInvKept
  <1>7. ASSUME NEW s \in Session, NEW p \in Reset, BeginReset(s, p)
        PROVE  EndedInv'
    <2> DEFINE t == [phase |-> "password", user |-> resets[p].user, token |-> p,
                     stamp |-> ResetStamp, at |-> now]
    <2>1. /\ txs' = [txs EXCEPT ![s] = t]
          /\ UNCHANGED <<now, users, refresh, access, version, ended>>
      BY <1>7 DEF BeginReset, ghosts
    <2>2. t.phase = "password" /\ t.stamp = NowIst
      BY DEF ResetStamp
    <2> HIDE DEF t
    <2>3. \A o \in Session : txs'[o] = IF o = s THEN t ELSE txs[o]
      BY <1>0, <2>1 DEF TypeOK
    <2>4. NowIst \in Nat
      BY <1>00, ClockAssumption DEF NowIst
    <2>5. ASSUME NEW k \in access, Outdated(k)
          PROVE  k.iat < NowIst
      <3>1. k.iat \in Nat /\ k.user \in User
        BY <1>0 DEF TypeOK, AccessToken
      <3>2. users[k.user].changed \in Nat /\ users[k.user].changed <= NowIst
        BY <1>0, <2>5, <3>1, ClockAssumption
           DEF Outdated, Exists, IssuedBefore, TypeOK, UserRow, StampsPast
      <3>3. k.iat < users[k.user].changed
        BY <2>5 DEF Outdated, IssuedBefore
      <3> QED
        BY <2>4, <3>1, <3>2, <3>3
    <2>6. t.stamp <= NowIst
      BY <2>2, <2>4
    <2> QED
      BY <2>1, <2>2, <2>3, <2>5, <2>6, EndedInvKept DEF Usable
  <1>8. ASSUME NEW s \in Session, NEW c \in access, BeginChange(s, c)
        PROVE  EndedInv'
    <2> DEFINE t == [phase |-> "password", user |-> c.user, token |-> None,
                     stamp |-> now, at |-> now]
    <2>1. /\ txs' = [txs EXCEPT ![s] = t]
          /\ UNCHANGED <<now, users, refresh, access, version, ended>>
      BY <1>8 DEF BeginChange, ghosts
    <2>2. t.phase = "password" /\ t.stamp = now /\ t.user = c.user
      OBVIOUS
    <2> HIDE DEF t
    <2>3. \A o \in Session : txs'[o] = IF o = s THEN t ELSE txs[o]
      BY <1>0, <2>1 DEF TypeOK
    <2>4. ASSUME NEW k \in access, k.user = c.user, Outdated(k)
          PROVE  k.iat < now
      <3>1. k.iat \in Nat /\ c.iat \in Nat /\ k.user \in User /\ c.iat <= now
        BY <1>0 DEF TypeOK, AccessToken, AccessOutdated
      <3>2. users[k.user].changed \in Nat
        BY <1>0, <2>4, <3>1, ClockAssumption DEF Outdated, Exists, IssuedBefore, TypeOK, UserRow
      <3>3. k.iat < users[k.user].changed /\ ~(c.iat < users[k.user].changed)
        BY <1>8, <2>4 DEF BeginChange, Accepted, Outdated, IssuedBefore
      <3> QED
        BY <1>00, <3>1, <3>2, <3>3
    <2>5. t.stamp <= NowIst
      BY <1>00, <2>2, ClockAssumption DEF NowIst
    <2> QED
      BY <2>1, <2>2, <2>3, <2>4, <2>5, EndedInvKept DEF Usable
  <1>9. ASSUME NEW u \in User, Invite(u)
        PROVE  EndedInv'
    <2> DEFINE row == IF Exists(u) THEN [users[u] EXCEPT !.active = TRUE, !.deleted = FALSE]
                      ELSE [active |-> TRUE, deleted |-> FALSE, loggedIn |-> FALSE,
                            changed |-> None]
    <2>1. /\ users' = [users EXCEPT ![u] = row]
          /\ UNCHANGED <<now, refresh, access, version, ended, txs>>
      BY <1>9 DEF Invite, ghosts
    <2>2. row \in UserRow /\ row.changed = IF Exists(u) THEN users[u].changed ELSE None
      <3>1. CASE Exists(u)
        <4>1. users[u] \in UserRow
          BY <1>0, <3>1 DEF Exists, TypeOK
        <4> QED
          BY <3>1, <4>1 DEF UserRow
      <3>2. CASE ~Exists(u)
        BY <3>2 DEF UserRow
      <3> QED
        BY <3>1, <3>2
    <2> HIDE DEF row
    <2>3. \A v \in User :
            /\ users[v] # Absent => /\ users'[v] # Absent
                                    /\ users'[v].changed = users[v].changed
            /\ users[v] = Absent /\ users'[v] # Absent => users'[v].changed = None
      BY <1>0, <2>1, <2>2, SessionAssumption DEF TypeOK, Exists
    <2> QED
      BY <2>1, <2>3, EndedInvKept DEF Usable
  <1>10. ASSUME NEW s \in AdminSession, NEW op \in Ops, NEW u \in User, BeginRoster(s, op, u)
         PROVE  EndedInv'
    <2>1. UNCHANGED <<now, users, refresh, access, version, ended>>
      BY <1>10 DEF BeginRoster, ghosts
    <2>2. \A o \in Session : txs'[o] = txs[o]
      BY <1>0, <1>10, SessionAssumption DEF BeginRoster, TypeOK
    <2> QED
      BY <2>1, <2>2, EndedInvKept DEF Usable
  <1>11. ASSUME NEW s \in AdminSession, CommitRoster(s)
         PROVE  EndedInv'
    <2>1. PICK u \in User, act \in BOOLEAN, del \in BOOLEAN :
            /\ users[u] \in UserRow
            /\ users' = [users EXCEPT ![u] = [users[u] EXCEPT !.active = act, !.deleted = del]]
      BY <1>0, <1>11, RosterWrites DEF TypeInv
    <2>2. UNCHANGED <<now, refresh, access, version, ended>>
      BY <1>11 DEF CommitRoster, ghosts
    <2>3. \A o \in Session : txs'[o] = txs[o]
      BY <1>0, <1>11, SessionAssumption DEF CommitRoster, Finish, TypeOK
    <2>4. \A v \in User :
            /\ users[v] # Absent => /\ users'[v] # Absent
                                    /\ users'[v].changed = users[v].changed
            /\ users[v] = Absent => users'[v] = Absent
      <3> DEFINE row == [users[u] EXCEPT !.active = act, !.deleted = del]
      <3>1. row \in UserRow /\ row.changed = users[u].changed
        BY <2>1 DEF UserRow
      <3>2. users' = [users EXCEPT ![u] = row]
        BY <2>1
      <3> HIDE DEF row
      <3> QED
        BY <1>0, <2>1, <3>1, <3>2, SessionAssumption DEF TypeOK
    <2> QED
      BY <2>2, <2>3, <2>4, EndedInvKept DEF Usable
  <1>12. ASSUME NEW s \in Session \cup AdminSession, Rollback(s)
         PROVE  EndedInv'
    <2>1. UNCHANGED <<now, users, refresh, access, version, ended>>
      BY <1>12 DEF Rollback, ghosts
    <2>2. \A o \in Session : txs'[o] = txs[o] \/ txs'[o].phase = "idle"
      BY <1>0, <1>12 DEF Rollback, Finish, TypeOK, Idle
    <2> QED
      BY <2>1, <2>2, EndedInvKept DEF Usable
  <1>13. ASSUME NEW s \in Session, CommitPassword(s)
         PROVE  EndedInv'
    BY <1>0, <1>13, EndedInvCommit
  <1>14. ASSUME NEW u \in User, NEW p \in Reset, RequestReset(u, p)
         PROVE  EndedInv'
    BY <1>1, <1>14 DEF RequestReset, ghosts
  <1>15. CASE UNCHANGED vars
    BY <1>1, <1>15 DEF vars, ghosts
  <1> QED
    BY <1>2, <1>3, <1>4, <1>5, <1>6, <1>7, <1>8, <1>9, <1>10, <1>11, <1>12, <1>13, <1>14,
       <1>15, EndedInvTick
       DEF Next

(* A session let in before an undisturbed password change or reset is      *)
(* never let in again, whatever overlaps or follows.                       *)
THEOREM EarlierSessionsStayEnded == Spec => []EarlierSessionsEnded
  BY InitTypeInv, TypeInvStep, EndedInvInit, EndedInvStep, EndedInvSafe, PTL DEF Spec

-----------------------------------------------------------------------------
(* The roster.                                                             *)

LEMMA ListsFollowStatus == TypeOK => StatusListsAgree
  <1> SUFFICES ASSUME TypeOK, NEW status \in {"deactivated", "invited", "active"},
                      NEW u \in User, OnRoster(u)
               PROVE  (CASE status = "deactivated" -> ~users[u].active
                         [] status = "invited" -> users[u].active /\ ~users[u].loggedIn
                         [] status = "active" -> users[u].active /\ users[u].loggedIn)
                        <=> Status(u) = status
    BY DEF StatusListsAgree, ListUsers
  <1>1. users[u].active \in BOOLEAN /\ users[u].loggedIn \in BOOLEAN
    BY DEF OnRoster, Exists, TypeOK, UserRow
  <1>2. CASE ~users[u].active
    BY <1>2 DEF Status
  <1>3. CASE users[u].active /\ ~users[u].loggedIn
    BY <1>3 DEF Status
  <1>4. CASE users[u].active /\ users[u].loggedIn
    BY <1>4 DEF Status
  <1> QED
    BY <1>1, <1>2, <1>3, <1>4

(* A user on the roster is in the list of the status it shows, and in no   *)
(* other list.                                                             *)
THEOREM ListsAlwaysFollowStatus == Spec => []StatusListsAgree
  BY TypeCorrect, ListsFollowStatus, PTL

(* What a pending roster request read is still so: nothing else writes     *)
(* is_active or deleted_at of a user who is not deleted.                   *)
RosterReadsCurrent ==
  \A s \in AdminSession : txs[s].phase = "roster" =>
    OnRoster(txs[s].user) /\ users[txs[s].user].active = txs[s].active

DeletedInv == DeletedIsInactive /\ RosterReadsCurrent

LEMMA DeletedInvStep ==
  ASSUME \A s, o \in AdminSession : s = o, TypeInv, DeletedInv, [Next]_vars
  PROVE  DeletedInv'
  <1>0. TypeOK /\ TypeOK' /\ DeletedIsInactive /\ RosterReadsCurrent
    BY TypeInvStep DEF TypeInv, DeletedInv
  <1> DEFINE Kept(u) ==
               /\ users'[u] = Absent <=> users[u] = Absent
               /\ users[u] # Absent => /\ users'[u].active = users[u].active
                                       /\ users'[u].deleted = users[u].deleted
  <1>1. ASSUME \A u \in User : Kept(u),
               \A s \in AdminSession :
                 txs'[s].phase = "roster" => txs'[s] = txs[s]
        PROVE  DeletedInv'
    <2>1. DeletedIsInactive'
      BY <1>0, <1>1 DEF DeletedIsInactive, Exists
    <2>2. \A s \in AdminSession : txs'[s].phase = "roster" => txs[s].user \in User
      BY <1>0, <1>1, ActiveTx
    <2>3. RosterReadsCurrent'
      BY <1>0, <1>1, <2>2 DEF RosterReadsCurrent, OnRoster, Exists
    <2> QED
      BY <2>1, <2>3 DEF DeletedInv
  <1>2. CASE users' = users /\ \A s \in AdminSession : txs'[s].phase = "roster" => txs'[s] = txs[s]
    BY <1>1, <1>2
  <1>3. ASSUME NEW s \in Session,
               Finish(s) \/ \E t : txs' = [txs EXCEPT ![s] = t]
        PROVE  \A o \in AdminSession : txs'[o] = txs[o]
    BY <1>0, <1>3, SessionAssumption DEF Finish, TypeOK
  <1>4. ASSUME NEW s \in Session, NEW r \in Refresh, IssueTokens(s, r)
        PROVE  DeletedInv'
    <2> DEFINE u == txs[s].user
    <2>1. users[u] \in UserRow /\ u \in User
      BY <1>0, <1>4, ActiveTx DEF IssueTokens, TypeInv, RowsThere, TypeOK
    <2>2. /\ Finish(s) /\ users' = [users EXCEPT ![u] = LoggedIn(users[u])]
          /\ LoggedIn(users[u]).active = users[u].active
          /\ LoggedIn(users[u]).deleted = users[u].deleted
          /\ LoggedIn(users[u]) \in UserRow
      BY <1>4, <2>1 DEF IssueTokens, LoggedIn, UserRow
    <2> HIDE DEF u
    <2>3. \A v \in User : Kept(v)
      BY <1>0, <2>1, <2>2, SessionAssumption DEF TypeOK
    <2> QED
      BY <1>1, <1>3, <2>2, <2>3
  <1>5. ASSUME NEW s \in Session, CommitPassword(s)
        PROVE  DeletedInv'
    <2> DEFINE u == txs[s].user
               row == [users[u] EXCEPT !.changed = txs[s].stamp]
    <2>1. users[u] \in UserRow /\ u \in User
      BY <1>0, <1>5, ActiveTx DEF CommitPassword, TypeInv, RowsThere, TypeOK
    <2>2. /\ Finish(s) /\ users' = [users EXCEPT ![u] = row]
          /\ row.active = users[u].active /\ row.deleted = users[u].deleted
      BY <1>5, <2>1 DEF CommitPassword, UserRow
    <2>3. users'[u] = row /\ users'[u] \in UserRow \cup {Absent}
      BY <1>0, <2>1, <2>2 DEF TypeOK
    <2>4. row \in UserRow
      <3>1. txs[s].stamp \in 0..(MaxTime + Zone)
        BY <1>0, <1>5, ActiveTx, ClockAssumption
           DEF CommitPassword, TypeInv, StampsBounded, Password
      <3> QED
        BY <2>1, <3>1 DEF UserRow
    <2> HIDE DEF u, row
    <2>5. \A v \in User : Kept(v)
      BY <1>0, <2>1, <2>2, <2>4, SessionAssumption DEF TypeOK
    <2> QED
      BY <1>1, <1>3, <2>2, <2>5
  <1>6. ASSUME NEW u \in User, Invite(u)
        PROVE  DeletedInv'
    <2>1. /\ Exists(u) => users[u].deleted
          /\ txs' = txs
          /\ \A v \in User : v # u => users'[v] = users[v]
          /\ users'[u] \in UserRow /\ ~users'[u].deleted
      <3> DEFINE row == IF Exists(u) THEN [users[u] EXCEPT !.active = TRUE, !.deleted = FALSE]
                        ELSE [active |-> TRUE, deleted |-> FALSE, loggedIn |-> FALSE,
                              changed |-> None]
      <3>1. users' = [users EXCEPT ![u] = row] /\ txs' = txs
        BY <1>6 DEF Invite
      <3>2. row \in UserRow /\ ~row.deleted
        <4>1. CASE Exists(u)
          <5>1. users[u] \in UserRow
            BY <1>0, <4>1 DEF Exists, TypeOK
          <5> QED
            BY <4>1, <5>1 DEF UserRow
        <4>2. CASE ~Exists(u)
          BY <4>2 DEF UserRow
        <4> QED
          BY <4>1, <4>2
      <3> HIDE DEF row
      <3> QED
        BY <1>0, <1>6, <3>1, <3>2 DEF Invite, TypeOK
    <2>2. \A s \in AdminSession : txs[s].phase = "roster" => txs[s].user # u
      BY <1>0, <2>1 DEF RosterReadsCurrent, OnRoster
    <2>3. \A s \in AdminSession : txs[s].phase = "roster" => txs[s].user \in User
      BY <1>0, ActiveTx
    <2>4. RosterReadsCurrent'
      BY <1>0, <2>1, <2>2, <2>3 DEF RosterReadsCurrent, OnRoster, Exists
    <2>5. DeletedIsInactive'
      BY <1>0, <2>1 DEF DeletedIsInactive, Exists
    <2> QED
      BY <2>4, <2>5 DEF DeletedInv
  <1>7. ASSUME NEW s \in AdminSession, NEW op \in Ops, NEW u \in User, BeginRoster(s, op, u)
        PROVE  DeletedInv'
    <2> DEFINE t == [phase |-> "roster", op |-> op, user |-> u, active |-> users[u].active]
    <2>1. OnRoster(u) /\ users' = users /\ txs' = [txs EXCEPT ![s] = t]
      BY <1>7 DEF BeginRoster
    <2>2. t.user = u /\ t.active = users[u].active
      OBVIOUS
    <2> HIDE DEF t
    <2>3. \A o \in AdminSession : txs'[o] = IF o = s THEN t ELSE txs[o]
      BY <1>0, <2>1 DEF TypeOK
    <2>4. DeletedIsInactive' /\ RosterReadsCurrent'
      BY <1>0, <2>1, <2>2, <2>3
         DEF DeletedIsInactive, RosterReadsCurrent, OnRoster, Exists
    <2> QED
      BY <2>4 DEF DeletedInv
  <1>8. ASSUME NEW s \in AdminSession, CommitRoster(s)
        PROVE  DeletedInv'
    <2> DEFINE t == txs[s]
               u == t.user
               wanted == t.op \in {"activate", "reinvite"}
    <2>1. /\ t.phase = "roster" /\ u \in User /\ users[u] \in UserRow
          /\ t.active \in BOOLEAN /\ wanted \in BOOLEAN
          /\ OnRoster(u) /\ users[u].active = t.active
      BY <1>0, <1>8, RosterWrites
         DEF CommitRoster, TypeInv, RosterReadsCurrent, Roster
    <2>2. /\ \A v \in User : v # u => users'[v] = users[v]
          /\ users'[u].active = IF wanted = t.active THEN users[u].active ELSE wanted
          /\ users'[u].deleted <=> users[u].deleted \/ t.op = "delete"
      BY <1>0, <1>8, <2>1 DEF CommitRoster, TypeOK, UserRow
    <2>3. users'[u].active = wanted /\ ~users[u].deleted
      BY <2>1, <2>2 DEF OnRoster
    <2>4. users'[u].deleted => ~users'[u].active
      BY <2>2, <2>3
    <2> HIDE DEF u, t
    <2>5. DeletedIsInactive'
      BY <1>0, <2>2, <2>4 DEF DeletedIsInactive, Exists
    <2>6. \A o \in AdminSession : txs'[o] = Idle
      BY <1>0, <1>8 DEF CommitRoster, Finish, TypeOK
    <2>7. RosterReadsCurrent'
      BY <2>6 DEF RosterReadsCurrent, Idle
    <2> QED
      BY <2>5, <2>7 DEF DeletedInv
  <1>9. ASSUME NEW s \in Session \cup AdminSession, Rollback(s)
        PROVE  DeletedInv'
    <2>1. \A o \in AdminSession : txs'[o] = txs[o] \/ txs'[o] = Idle
      BY <1>0, <1>9 DEF Rollback, Finish, TypeOK
    <2> QED
      BY <1>2, <1>9, <2>1 DEF Rollback, Idle
  <1>10. ASSUME NEW s \in Session, UNCHANGED users,
                Finish(s) \/ \E t : txs' = [txs EXCEPT ![s] = t]
         PROVE  DeletedInv'
    BY <1>2, <1>3, <1>10
  <1>11. ASSUME NEW s \in Session, NEW u \in User, Authenticate(s, u)
         PROVE  DeletedInv'
    BY <1>10, <1>11 DEF Authenticate
  <1>12. ASSUME NEW s \in Session, NEW r \in Refresh, ReadRefresh(s, r)
         PROVE  DeletedInv'
    BY <1>10, <1>12 DEF ReadRefresh
  <1>13. ASSUME NEW s \in Session, RefreshAccess(s)
         PROVE  DeletedInv'
    BY <1>10, <1>13 DEF RefreshAccess
  <1>14. ASSUME NEW s \in Session, NEW p \in Reset, BeginReset(s, p)
         PROVE  DeletedInv'
    BY <1>10, <1>14 DEF BeginReset
  <1>15. ASSUME NEW s \in Session, NEW k \in access, BeginChange(s, k)
         PROVE  DeletedInv'
    BY <1>10, <1>15 DEF BeginChange
  <1> QED
    BY <1>2, <1>4, <1>5, <1>6, <1>7, <1>8, <1>9, <1>11, <1>12, <1>13, <1>14, <1>15
       DEF Next, Tick, Logout, RequestReset, vars

(* As long as roster requests do not overlap, a deleted user is inactive,  *)
(* through any revivals and re-invitations.                                *)
THEOREM DeletedStayInactive ==
  ASSUME \A s, o \in AdminSession : s = o
  PROVE  Spec => []DeletedIsInactive
  <1>1. Init => DeletedInv
    BY DEF Init, DeletedInv, DeletedIsInactive, RosterReadsCurrent, Exists, Idle
  <1>2. TypeInv /\ DeletedInv /\ [Next]_vars => DeletedInv'
    BY DeletedInvStep
  <1>3. DeletedInv => DeletedIsInactive
    BY DEF DeletedInv
  <1> QED
    BY <1>1, <1>2, <1>3, InitTypeInv, TypeInvStep, PTL DEF Spec
=============================================================================

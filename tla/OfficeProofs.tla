---------------------------- MODULE OfficeProofs ----------------------------
(***************************************************************************)
(* Theorems about what screens compute: the notification panel, the        *)
(* activity feed, the lists and widgets of the dashboard and the score of  *)
(* a deal, for every set of users, rows and entities and every bound.      *)
(***************************************************************************)
EXTENDS Notifications, Activities, Dashboard, Scoring, FiniteSetTheorems,
        WellFoundedInduction, TLAPS

-----------------------------------------------------------------------------
(* Finite sets.                                                            *)

(* Of some subsets of a finite set, one has no other of them inside.       *)
LEMMA HasLeast ==
  ASSUME NEW S, IsFiniteSet(S), NEW family, family \subseteq SUBSET S, family # {}
  PROVE  \E A \in family : \A B \in family : B \subseteq A => B = A
  <1>1. family \subseteq FiniteSubsetsOf(S)
    BY FS_FiniteSubsetsOfFinite
  <1>2. IsWellFoundedOn(StrictSubsetOrdering(S), FiniteSubsetsOf(S))
    BY FS_StrictSubsetOrderingWellFounded
  <1>3. PICK A \in family :
          \A B \in family : ~(<<B, A>> \in StrictSubsetOrdering(S))
    BY <1>1, <1>2, WFMin
  <1> QED
    BY <1>3 DEF StrictSubsetOrdering

Timed(S) == IsFiniteSet(S) /\ \A x \in S : x.at \in Nat

LEMMA TimedParts ==
  ASSUME NEW S, Timed(S), NEW T, T \subseteq S
  PROVE  /\ Timed(T) /\ Cardinality(T) \in Nat /\ Cardinality(S) \in Nat
         /\ Cardinality(T) <= Cardinality(S)
         /\ Cardinality(T) = Cardinality(S) => T = S
         /\ Timed(S \ T) /\ Cardinality(S \ T) = Cardinality(S) - Cardinality(T)
  <1>1. IsFiniteSet(T) /\ Cardinality(T) <= Cardinality(S)
        /\ (Cardinality(S) = Cardinality(T) => S = T)
    BY FS_Subset DEF Timed
  <1>2. IsFiniteSet(S \ T) /\ Cardinality(S \ T) = Cardinality(S) - Cardinality(S \cap T)
    BY FS_Difference DEF Timed
  <1>3. S \cap T = T
    OBVIOUS
  <1> QED
    BY <1>1, <1>2, <1>3, FS_CardinalityType DEF Timed

LEMMA HasNewest ==
  ASSUME NEW S, Timed(S), S # {}
  PROVE  \E x \in S : \A y \in S : x.at >= y.at
  <1> DEFINE Newer(x) == {y \in S : y.at > x.at}
             family == {Newer(x) : x \in S}
  <1>1. family \subseteq SUBSET S /\ family # {}
    OBVIOUS
  <1>2. PICK A \in family : \A B \in family : B \subseteq A => B = A
    <2> HIDE DEF family
    <2> QED
      BY <1>1, HasLeast DEF Timed
  <1>3. PICK x \in S : A = Newer(x)
    BY <1>2
  <1>4. ASSUME NEW y \in S, y.at > x.at PROVE FALSE
    <2>0. x.at \in Nat /\ y.at \in Nat /\ \A z \in S : z.at \in Nat
      BY DEF Timed
    <2>1. Newer(y) \subseteq Newer(x)
      BY <1>4, <2>0
    <2>2. y \in Newer(x) /\ y \notin Newer(y)
      BY <1>4, <2>0
    <2> QED
      BY <1>2, <1>3, <2>1, <2>2
  <1> QED
    BY <1>4 DEF Timed

-----------------------------------------------------------------------------
(* Pages.                                                                  *)

(* There is always a first page: of the sets of at most n entries that no  *)
(* entry left out is newer than, one that leaves out as few as can be.     *)
LEMMA NewestExists ==
  ASSUME NEW S, Timed(S), NEW n \in Nat
  PROVE  IsNewest(Newest(S, n), S, n)
  <1> DEFINE Full(T) == \A x \in T, y \in S \ T : x.at >= y.at
             fronts == {T \in SUBSET S : Cardinality(T) <= n /\ Full(T)}
             rests == {S \ T : T \in fronts}
  <1>1. {} \in fronts
    BY FS_EmptySet
  <1>2. rests \subseteq SUBSET S /\ rests # {}
    BY <1>1
  <1>3. PICK A \in rests : \A B \in rests : B \subseteq A => B = A
    <2> HIDE DEF rests
    <2> QED
      BY <1>2, HasLeast DEF Timed
  <1>4. PICK T \in fronts : A = S \ T
    BY <1>3
  <1>5. T \subseteq S /\ Cardinality(T) <= n /\ Full(T)
    BY <1>4
  <1>6. /\ Timed(T) /\ Timed(S \ T) /\ Cardinality(T) \in Nat
        /\ Cardinality(S) \in Nat /\ Cardinality(T) <= Cardinality(S)
        /\ Cardinality(T) = Cardinality(S) => T = S
    BY <1>5, TimedParts
  <1>7. ASSUME Cardinality(T) < n, T # S PROVE FALSE
    <2>1. PICK z \in S \ T : \A y \in S \ T : z.at >= y.at
      BY <1>5, <1>6, <1>7, HasNewest
    <2>2. Cardinality(T \cup {z}) = Cardinality(T) + 1
      BY <1>6, <2>1, FS_AddElement DEF Timed
    <2>3. Full(T \cup {z})
      BY <1>5, <2>1
    <2>4. T \cup {z} \in fronts
      <3>1. Cardinality(T \cup {z}) <= n
        BY <1>6, <1>7, <2>2
      <3> QED
        BY <1>5, <2>1, <2>3, <3>1
    <2>5. S \ (T \cup {z}) \in rests /\ S \ (T \cup {z}) \subseteq A
          /\ z \in A /\ z \notin S \ (T \cup {z})
      BY <1>4, <2>1, <2>4
    <2> QED
      BY <1>3, <2>5
  <1>8. Cardinality(T) = IF n < Cardinality(S) THEN n ELSE Cardinality(S)
    BY <1>5, <1>6, <1>7
  <1>9. IsNewest(T, S, n)
    BY <1>5, <1>8 DEF IsNewest
  <1> QED
    BY <1>5, <1>9 DEF Newest

(* Where no two entries have the same moment, an entry is on the first     *)
(* page exactly if fewer entries than it holds are newer.                  *)
NewerThan(S, x) == {y \in S : y.at > x.at}
Rank(S, x) == Cardinality(NewerThan(S, x))
Distinct(S) == Timed(S) /\ \A x, y \in S : x.at = y.at => x = y

LEMMA FrontByRank ==
  ASSUME NEW S, Distinct(S), NEW n \in Nat, NEW T, IsNewest(T, S, n)
  PROVE  T = {x \in S : Rank(S, x) < n}
  <1>0. Timed(S) /\ \A x \in S : x.at \in Nat
    BY DEF Distinct, Timed
  <1>1. T \subseteq S /\ \A x \in T, y \in S \ T : x.at >= y.at
    BY <1>0 DEF IsNewest
  <1>2. /\ Timed(T) /\ Cardinality(T) \in Nat /\ Cardinality(S) \in Nat
        /\ Cardinality(T) = Cardinality(S) => T = S
    BY <1>0, <1>1, TimedParts
  <1>3. Cardinality(T) <= n /\ (T # S => Cardinality(T) = n)
    BY <1>0, <1>2 DEF IsNewest
  <1>4. ASSUME NEW x \in T PROVE Rank(S, x) < n
    <2> DEFINE A == NewerThan(S, x)
    <2>1. A \subseteq T /\ x \notin A
      BY <1>0, <1>1 DEF NewerThan
    <2> HIDE DEF A
    <2>2. Timed(A) /\ Cardinality(A) \in Nat
      BY <1>2, <2>1, TimedParts
    <2>3. Cardinality(A \cup {x}) = Cardinality(A) + 1
      BY <2>1, <2>2, FS_AddElement DEF Timed
    <2>4. Cardinality(A \cup {x}) <= Cardinality(T)
      BY <1>2, <2>1, TimedParts
    <2> QED
      BY <1>2, <1>3, <2>2, <2>3, <2>4 DEF Rank, A
  <1>5. ASSUME NEW x \in S, x \notin T PROVE ~(Rank(S, x) < n)
    <2> DEFINE A == NewerThan(S, x)
    <2>1. T \subseteq A
      <3> SUFFICES ASSUME NEW y \in T PROVE y \in A
        OBVIOUS
      <3>1. y.at >= x.at /\ y # x /\ y \in S
        BY <1>1, <1>5
      <3>2. y.at # x.at
        BY <3>1 DEF Distinct
      <3> QED
        BY <1>0, <3>1, <3>2 DEF NewerThan
    <2>2. A \subseteq S
      BY DEF NewerThan
    <2> HIDE DEF A
    <2>3. Timed(A) /\ Cardinality(A) \in Nat
      BY <1>0, <2>2, TimedParts
    <2>4. Cardinality(T) <= Cardinality(A)
      BY <2>1, <2>3, TimedParts
    <2> QED
      BY <1>2, <1>3, <1>5, <2>3, <2>4 DEF Rank, A
  <1> QED
    BY <1>1, <1>4, <1>5

LEMMA NewestByRank ==
  ASSUME NEW S, Distinct(S), NEW n \in Nat
  PROVE  Newest(S, n) = {x \in S : Rank(S, x) < n}
  <1>1. IsNewest(Newest(S, n), S, n)
    BY NewestExists DEF Distinct
  <1> HIDE DEF Newest
  <1> QED
    BY <1>1, FrontByRank

(* A merge of queries that kept every entry of a low rank has the same     *)
(* first pages as all entries together.                                    *)
LEMMA MergedByRank ==
  ASSUME NEW S, Distinct(S), NEW M \in SUBSET S, NEW n \in Nat,
         \A x \in S : Rank(S, x) < n => x \in M
  PROVE  Newest(M, n) = {x \in S : Rank(S, x) < n}
  <1> DEFINE T == Newest(S, n)
  <1>1. Timed(S) /\ Timed(M) /\ Distinct(M)
    BY TimedParts DEF Distinct
  <1>2. T = {x \in S : Rank(S, x) < n} /\ IsNewest(T, S, n)
    BY <1>1, NewestByRank, NewestExists
  <1> HIDE DEF T
  <1>3. T \subseteq M
    BY <1>2
  <1>4. /\ Cardinality(T) \in Nat /\ Cardinality(M) \in Nat /\ Cardinality(S) \in Nat
        /\ Cardinality(T) <= Cardinality(M) /\ Cardinality(M) <= Cardinality(S)
    BY <1>1, <1>3, TimedParts
  <1>5. IsNewest(T, M, n)
    <2>1. Cardinality(T) = IF n < Cardinality(M) THEN n ELSE Cardinality(M)
      BY <1>2, <1>4 DEF IsNewest
    <2>2. \A x \in T, y \in M \ T : x.at >= y.at
      BY <1>2 DEF IsNewest
    <2> QED
      BY <1>3, <2>1, <2>2 DEF IsNewest
  <1>6. T = {x \in M : Rank(M, x) < n}
    BY <1>1, <1>5, FrontByRank
  <1>7. Newest(M, n) = {x \in M : Rank(M, x) < n}
    BY <1>1, NewestByRank
  <1> QED
    BY <1>2, <1>6, <1>7

LEMMA Ranks ==
  ASSUME NEW S, Distinct(S), NEW x \in S
  PROVE  /\ Rank(S, x) \in Nat /\ Rank(S, x) < Cardinality(S) /\ Cardinality(S) \in Nat
         /\ \A y \in S : Rank(S, x) < Rank(S, y) => x.at > y.at
         /\ \A T \in SUBSET S : Rank(T, x) <= Rank(S, x)
  <1>0. Timed(S) /\ \A y \in S : y.at \in Nat
    BY DEF Distinct, Timed
  <1>1. \A y \in S : NewerThan(S, y) \subseteq S
    BY DEF NewerThan
  <1>2. \A y \in S : Timed(NewerThan(S, y)) /\ Rank(S, y) \in Nat
    BY <1>0, <1>1, TimedParts DEF Rank
  <1>3. Rank(S, x) < Cardinality(S) /\ Cardinality(S) \in Nat
    <2>1. x \notin NewerThan(S, x)
      BY <1>0 DEF NewerThan
    <2>2. /\ Cardinality(NewerThan(S, x)) <= Cardinality(S) /\ Cardinality(S) \in Nat
          /\ Cardinality(NewerThan(S, x)) # Cardinality(S)
      BY <1>0, <1>1, <2>1, TimedParts
    <2> QED
      BY <1>2, <2>2 DEF Rank
  <1>4. ASSUME NEW y \in S, Rank(S, x) < Rank(S, y), ~(x.at > y.at) PROVE FALSE
    <2>1. NewerThan(S, y) \subseteq NewerThan(S, x)
      BY <1>0, <1>4 DEF NewerThan
    <2>2. Rank(S, y) <= Rank(S, x)
      BY <1>2, <2>1, TimedParts DEF Rank
    <2> QED
      BY <1>2, <1>4, <2>2
  <1>5. ASSUME NEW T \in SUBSET S PROVE Rank(T, x) <= Rank(S, x)
    <2>1. NewerThan(T, x) \subseteq NewerThan(S, x)
      BY DEF NewerThan
    <2> QED
      BY <1>2, <2>1, TimedParts DEF Rank
  <1> QED
    BY <1>2, <1>3, <1>4, <1>5

(* Pages of l entries: of p such pages, and of the next.                   *)
LEMMA PageNumbers ==
  ASSUME NEW l \in Nat \ {0}
  PROVE  /\ \A p \in Nat \ {0} :
              /\ (p - 1) * l \in Nat /\ p * l \in Nat
              /\ (p - 1) * l + l = p * l /\ l + (p - 1) * l = p * l
         /\ \A p, q \in Nat \ {0} : p < q => p * l <= (q - 1) * l
         /\ \A r \in Nat : \E p \in 1..(r + 1) : (p - 1) * l <= r /\ r < p * l
  <1>1. ASSUME NEW p \in Nat \ {0}
        PROVE  /\ (p - 1) * l \in Nat /\ p * l \in Nat
               /\ (p - 1) * l + l = p * l /\ l + (p - 1) * l = p * l
    OBVIOUS
  <1>2. ASSUME NEW p \in Nat \ {0}, NEW q \in Nat \ {0}, p < q
        PROVE  p * l <= (q - 1) * l
    <2> DEFINE k == q - 1 - p
    <2>1. k \in Nat /\ q - 1 = p + k
      BY <1>2
    <2> HIDE DEF k
    <2>2. k * l \in Nat /\ (p + k) * l = p * l + k * l /\ p * l \in Nat
      BY <2>1
    <2> QED
      BY <2>1, <2>2
  <1>3. ASSUME NEW r \in Nat
        PROVE  \E p \in 1..(r + 1) : (p - 1) * l <= r /\ r < p * l
    <2> DEFINE k == r \div l
    <2>1. k \in Nat /\ k * l <= r /\ r < (k + 1) * l
      OBVIOUS
    <2> HIDE DEF k
    <2>2. k <= r
      <3>1. l - 1 \in Nat /\ k * (l - 1) \in Nat /\ k * l = k * (l - 1) + k
        BY <2>1
      <3> QED
        BY <2>1, <3>1
    <2>3. k + 1 \in 1..(r + 1) /\ (k + 1) - 1 = k
      BY <2>1, <2>2
    <2> QED
      BY <2>1, <2>3
  <1> QED
    BY <1>1, <1>2, <1>3

LEMMA NoneNewest ==
  ASSUME NEW S, Timed(S)
  PROVE  Newest(S, 0) = {}
  <1> DEFINE T == Newest(S, 0)
  <1>1. IsNewest(T, S, 0)
    BY NewestExists
  <1> HIDE DEF T
  <1>2. Timed(T) /\ Cardinality(S) \in Nat
    BY <1>1, TimedParts DEF IsNewest
  <1>3. Cardinality(T) = 0
    BY <1>1, <1>2 DEF IsNewest
  <1> QED
    BY <1>2, <1>3, FS_EmptySet DEF Timed, T

(* The first page of a list merged with the first page of another is the   *)
(* first page of both lists together.                                      *)
LEMMA MergedFirstPage ==
  ASSUME NEW S, NEW O, Timed(S), Timed(O), S \cap O = {}, NEW limit \in Nat,
         NEW P, IsNewest(P, S, limit), NEW items, IsNewest(items, O \cup P, limit),
         NEW others, others = (S \cup O) \ items
  PROVE  /\ \A x \in items, y \in others : x.at >= y.at
         /\ Cardinality(items) < limit => others = {}
         /\ Cardinality(S) + Cardinality(O) = Cardinality(items) + Cardinality(others)
  <1> DEFINE M == O \cup P
  <1>1. P \subseteq S /\ items \subseteq M
    BY DEF IsNewest
  <1>2. /\ Timed(P) /\ Cardinality(P) \in Nat /\ Cardinality(S) \in Nat
        /\ Cardinality(P) <= Cardinality(S)
        /\ Cardinality(P) = Cardinality(S) => P = S
    BY <1>1, TimedParts
  <1>3. Timed(M) /\ Timed(S \cup O)
    BY <1>2, FS_Union DEF Timed
  <1>4. items \subseteq S \cup O
    BY <1>1
  <1>5. /\ Timed(items) /\ Cardinality(items) \in Nat /\ Cardinality(M) \in Nat
        /\ Cardinality(items) <= Cardinality(M)
        /\ Cardinality(items) = Cardinality(M) => items = M
    BY <1>1, <1>3, TimedParts
  <1>6. Cardinality(P) <= Cardinality(M)
    BY <1>3, TimedParts
  <1>7. P # S => Cardinality(P) = limit
    BY <1>2 DEF IsNewest
  <1>8. items # M => Cardinality(items) = limit
    BY <1>5 DEF IsNewest
  <1>9. P # S => Cardinality(items) = limit
    BY <1>2, <1>5, <1>6, <1>7 DEF IsNewest
  <1>10. ASSUME NEW x \in items, NEW y \in others PROVE x.at >= y.at
    <2>0. /\ \A z \in S \cup O : z.at \in Nat
          /\ \A v \in items, w \in M \ items : v.at >= w.at
          /\ \A v \in P, w \in S \ P : v.at >= w.at
      BY <1>3 DEF IsNewest, Timed
    <2>1. CASE y \in M
      BY <2>0, <2>1
    <2>2. CASE y \notin M /\ x \in P
      BY <2>0, <2>2
    <2>3. CASE y \notin M /\ x \notin P
      <3>1. y \in S \ P
        BY <2>3
      <3>2. Cardinality(P) = Cardinality(items)
        BY <1>7, <1>9, <3>1
      <3>3. ~(P \subseteq items)
        <4> SUFFICES ASSUME P \subseteq items PROVE FALSE
          OBVIOUS
        <4>1. P = items
          BY <1>5, <3>2, TimedParts
        <4> QED
          BY <2>3, <4>1
      <3>4. PICK p \in P : p \notin items
        BY <3>3
      <3>5. x.at >= p.at /\ p.at >= y.at
        BY <2>0, <3>1, <3>4
      <3>6. x.at \in Nat /\ p.at \in Nat /\ y.at \in Nat
        BY <2>0, <3>1, <3>4, <1>1, <1>4
      <3> QED
        BY <3>5, <3>6
    <2> QED
      BY <2>1, <2>2, <2>3
  <1>11. ASSUME Cardinality(items) < limit PROVE others = {}
    BY <1>5, <1>8, <1>9, <1>11
  <1>12. Cardinality(S) + Cardinality(O) = Cardinality(items) + Cardinality(others)
    <2>1. Cardinality(S \cup O) = Cardinality(S) + Cardinality(O) - Cardinality(S \cap O)
      BY FS_Union DEF Timed
    <2>2. Cardinality(S \cap O) = 0
      BY FS_EmptySet
    <2>3. Cardinality(others) = Cardinality(S \cup O) - Cardinality(items)
      BY <1>3, <1>4, TimedParts
    <2>4. Cardinality(O) \in Nat /\ Cardinality(S \cup O) \in Nat
      BY <1>3, FS_CardinalityType DEF Timed
    <2> QED
      BY <1>2, <1>5, <2>1, <2>2, <2>3, <2>4
  <1> QED
    BY <1>10, <1>11, <1>12

-----------------------------------------------------------------------------
(* The panel.                                                              *)

(* A request writes to rows it has read, and rows stay.                    *)
NoticesInv ==
  /\ NotificationsTypeOK
  /\ \A s \in Device :
       /\ opened[s].op = "read" => Written(opened[s].id)
       /\ opened[s].op = "delete" => \A n \in opened[s].ids : Written(n)

LEMMA NoticesInit == NotificationsInit => NoticesInv
  BY NotificationsAssumption DEF NotificationsInit, NoticesInv, NotificationsTypeOK, NotOpen

LEMMA NoticesKept ==
  ASSUME NoticesInv, opened' = opened, due' = due,
         notices' \in [Notice -> NoticeRow \cup {NotYet}],
         \A m \in Notice : notices[m] # NotYet => notices'[m] # NotYet
  PROVE  NoticesInv'
  <1>1. NotificationsTypeOK
    BY DEF NoticesInv
  <1>2. ASSUME NEW s \in Device
        PROVE  /\ opened[s].op = "read" => notices'[opened[s].id] # NotYet
               /\ opened[s].op = "delete" =>
                    \A n \in opened[s].ids : notices'[n] # NotYet
    <2> DEFINE o == opened[s]
    <2>1. /\ o.op = "read" => o.id \in Notice
          /\ o.op = "delete" => o.ids \subseteq Notice
      BY <1>1 DEF NotificationsTypeOK, NotOpen
    <2>2. /\ o.op = "read" => notices[o.id] # NotYet
          /\ o.op = "delete" => \A n \in o.ids : notices[n] # NotYet
      BY DEF NoticesInv, Written
    <2> QED
      BY <2>1, <2>2
  <1> QED
    BY <1>1, <1>2 DEF NoticesInv, NotificationsTypeOK, Written

LEMMA NoticesStep == NoticesInv /\ [NotificationsNext]_noticeVars => NoticesInv'
  <1> SUFFICES ASSUME NoticesInv, [NotificationsNext]_noticeVars PROVE NoticesInv'
    OBVIOUS
  <1> USE NotificationsAssumption
  <1>0. NotificationsTypeOK
    BY DEF NoticesInv
  <1>1. CASE UNCHANGED noticeVars
    BY <1>0, <1>1 DEF NoticesInv, NotificationsTypeOK, noticeVars, Written
  <1>2. ASSUME NEW u \in Recipient, Notify(u) PROVE NoticesInv'
    <2> DEFINE n == WrittenSoFar + 1
               row == [to |-> u, at |-> 2 * n, read |-> FALSE, deleted |-> FALSE]
    <2>1. n \in Notice /\ notices' = [notices EXCEPT ![n] = row] /\ UNCHANGED <<due, opened>>
      BY <1>2 DEF Notify
    <2> HIDE DEF n
    <2>2. row \in NoticeRow /\ row # NotYet
      <3>1. n \in 1..MaxNotices /\ MaxNotices \in Nat
        BY <2>1 DEF Notice
      <3>2. 2 * n \in Moment
        BY <3>1 DEF Moment
      <3>3. row \in NoticeRow
        BY <3>2 DEF NoticeRow
      <3> QED
        BY <3>3
    <2> HIDE DEF row
    <2>3. notices' \in [Notice -> NoticeRow \cup {NotYet}]
      BY <1>0, <2>1, <2>2 DEF NotificationsTypeOK
    <2>4. \A m \in Notice : notices[m] # NotYet => notices'[m] # NotYet
      BY <1>0, <2>1, <2>2 DEF NotificationsTypeOK
    <2> QED
      BY <2>1, <2>3, <2>4, NoticesKept
  <1>3. ASSUME NEW l \in FollowUp, NEW m \in Midnight \cup {NotYet}, FollowUpPasses(l, m)
        PROVE  NoticesInv'
    BY <1>0, <1>3 DEF FollowUpPasses, NoticesInv, NotificationsTypeOK, Written
  <1>4. ASSUME NEW s \in Device, NEW u \in Recipient, NEW n \in Notice, NEW read \in BOOLEAN,
               OpenNotice(s, u, n, read)
        PROVE  NoticesInv'
    <2> DEFINE o == [op |-> "read", id |-> n, read |-> read, was |-> notices[n].read]
    <2>1. notices[n] \in NoticeRow /\ Written(n)
      BY <1>0, <1>4 DEF OpenNotice, Shown, Written, NotificationsTypeOK
    <2>2. o \in [op : {"read"}, id : Notice, read : BOOLEAN, was : BOOLEAN]
      BY <2>1 DEF NoticeRow
    <2>3. opened' = [opened EXCEPT ![s] = o] /\ UNCHANGED <<notices, due>>
      BY <1>4 DEF OpenNotice
    <2>4. o.op = "read" /\ o.id = n
      OBVIOUS
    <2> HIDE DEF o
    <2>5. opened' \in [Device -> {NotOpen}
            \cup [op : {"read"}, id : Notice, read : BOOLEAN, was : BOOLEAN]
            \cup [op : {"delete"}, ids : SUBSET Notice]]
      BY <1>0, <2>2, <2>3 DEF NotificationsTypeOK
    <2>6. \A t \in Device : opened'[t] = IF t = s THEN o ELSE opened[t]
      BY <1>0, <2>3 DEF NotificationsTypeOK
    <2> QED
      BY <1>0, <2>1, <2>3, <2>4, <2>5, <2>6 DEF NoticesInv, NotificationsTypeOK, Written
  <1>5. ASSUME NEW s \in Device, CommitRead(s) PROVE NoticesInv'
    <2> DEFINE o == opened[s]
    <2>1. o.id \in Notice /\ Written(o.id) /\ o.read \in BOOLEAN
      BY <1>0, <1>5 DEF CommitRead, NoticesInv, NotificationsTypeOK, NotOpen
    <2>2. notices[o.id] \in NoticeRow
      BY <1>0, <2>1 DEF NotificationsTypeOK, Written
    <2>3. PICK b \in BOOLEAN : notices' = [notices EXCEPT ![o.id].read = b]
      <3>1. CASE o.read = o.was
        BY <1>5, <2>2, <3>1 DEF CommitRead, NoticeRow
      <3>2. CASE o.read # o.was
        BY <1>5, <2>1, <3>2 DEF CommitRead
      <3> QED
        BY <3>1, <3>2
    <2>4. opened' = [opened EXCEPT ![s] = NotOpen] /\ UNCHANGED due
      BY <1>5 DEF CommitRead
    <2>5. [notices[o.id] EXCEPT !.read = b] \in NoticeRow
      BY <2>2 DEF NoticeRow
    <2>6. notices' \in [Notice -> NoticeRow \cup {NotYet}]
          /\ \A m \in Notice : Written(m) => Written(m)'
      BY <1>0, <2>1, <2>3, <2>5 DEF NotificationsTypeOK, Written
    <2> QED
      BY <1>0, <2>4, <2>6 DEF NoticesInv, NotificationsTypeOK, NotOpen
  <1>6. ASSUME NEW u \in Recipient, NEW ids \in SUBSET Notice, MarkAllRead(u, ids)
        PROVE  NoticesInv'
    <2>1. /\ UNCHANGED <<due, opened>>
          /\ notices' = [n \in Notice |->
               IF Shown(n, u) /\ n \in ids THEN [notices[n] EXCEPT !.read = TRUE] ELSE notices[n]]
      BY <1>6 DEF MarkAllRead
    <2>2. ASSUME NEW n \in Notice
          PROVE  notices'[n] \in NoticeRow \cup {NotYet} /\ (notices[n] # NotYet => notices'[n] # NotYet)
      <3>1. notices[n] \in NoticeRow =>
              [notices[n] EXCEPT !.read = TRUE] \in NoticeRow
        BY DEF NoticeRow
      <3> QED
        BY <1>0, <2>1, <3>1 DEF NotificationsTypeOK, Written, Shown
    <2>3. notices' \in [Notice -> NoticeRow \cup {NotYet}]
      BY <2>1, <2>2
    <2> QED
      BY <2>1, <2>2, <2>3, NoticesKept
  <1>7. ASSUME NEW s \in Device, NEW u \in Recipient, NEW ids \in SUBSET Notice \ {{}},
               OpenDelete(s, u, ids)
        PROVE  NoticesInv'
    <2> DEFINE o == [op |-> "delete", ids |-> ids]
    <2>1. /\ opened' = [opened EXCEPT ![s] = o] /\ UNCHANGED <<notices, due>>
          /\ \A n \in ids : Written(n)
      BY <1>7 DEF OpenDelete
    <2>2. o \in [op : {"delete"}, ids : SUBSET Notice] /\ o.op = "delete" /\ o.ids = ids
      OBVIOUS
    <2> HIDE DEF o
    <2>3. opened' \in [Device -> {NotOpen}
            \cup [op : {"read"}, id : Notice, read : BOOLEAN, was : BOOLEAN]
            \cup [op : {"delete"}, ids : SUBSET Notice]]
      BY <1>0, <2>1, <2>2 DEF NotificationsTypeOK
    <2>4. \A t \in Device : opened'[t] = IF t = s THEN o ELSE opened[t]
      BY <1>0, <2>1 DEF NotificationsTypeOK
    <2> QED
      BY <1>0, <2>1, <2>2, <2>3, <2>4 DEF NoticesInv, NotificationsTypeOK, Written
  <1>8. ASSUME NEW s \in Device, CommitDelete(s) PROVE NoticesInv'
    <2>1. \A n \in opened[s].ids : n \in Notice /\ Written(n)
      BY <1>0, <1>8 DEF CommitDelete, NoticesInv, NotificationsTypeOK, NotOpen
    <2>2. /\ opened' = [opened EXCEPT ![s] = NotOpen] /\ UNCHANGED due
          /\ notices' = [n \in Notice |->
               IF n \in opened[s].ids THEN [notices[n] EXCEPT !.deleted = TRUE] ELSE notices[n]]
      BY <1>8 DEF CommitDelete
    <2>3. ASSUME NEW n \in Notice
          PROVE  notices'[n] \in NoticeRow \cup {NotYet} /\ (Written(n) => Written(n)')
      <3>1. notices[n] \in NoticeRow =>
              [notices[n] EXCEPT !.deleted = TRUE] \in NoticeRow
        BY DEF NoticeRow
      <3> QED
        BY <1>0, <2>1, <2>2, <3>1 DEF NotificationsTypeOK, Written
    <2>4. notices' \in [Notice -> NoticeRow \cup {NotYet}]
      BY <2>2, <2>3
    <2> QED
      BY <1>0, <2>2, <2>3, <2>4 DEF NoticesInv, NotificationsTypeOK, NotOpen, Written
  <1>9. ASSUME NEW s \in Device, CloseRequest(s) PROVE NoticesInv'
    BY <1>0, <1>9 DEF CloseRequest, NoticesInv, NotificationsTypeOK, NotOpen, Written
  <1>10. ASSUME NotificationsNext PROVE NoticesInv'
    <2>1. CASE \E u \in Recipient : Notify(u)
      BY <1>2, <2>1
    <2>2. CASE \E l \in FollowUp, m \in Midnight \cup {NotYet} : FollowUpPasses(l, m)
      BY <1>3, <2>2
    <2>3. CASE \E s \in Device :
            \E u \in Recipient, n \in Notice, read \in BOOLEAN : OpenNotice(s, u, n, read)
      BY <1>4, <2>3
    <2>4. CASE \E s \in Device :
            \E u \in Recipient, ids \in SUBSET Notice \ {{}} : OpenDelete(s, u, ids)
      BY <1>7, <2>4
    <2>5. CASE \E s \in Device : CommitRead(s) \/ CommitDelete(s) \/ CloseRequest(s)
      BY <1>5, <1>8, <1>9, <2>5
    <2>6. CASE \E u \in Recipient, ids \in SUBSET Notice : MarkAllRead(u, ids)
      BY <1>6, <2>6
    <2> QED
      BY <1>10, <2>1, <2>2, <2>3, <2>4, <2>5, <2>6 DEF NotificationsNext
  <1> QED
    BY <1>1, <1>10

(* An item for each row the reader sees, and for each overdue lead.        *)
LEMMA StoredItemsTimed ==
  ASSUME NotificationsTypeOK, NEW u \in Recipient, NEW unread \in BOOLEAN
  PROVE  /\ Timed(StoredItems(u, unread))
         /\ Cardinality(StoredItems(u, unread)) =
              Cardinality({m \in Notice : Shown(m, u) /\ (unread => ~notices[m].read)})
  <1> DEFINE A == {m \in Notice : Shown(m, u) /\ (unread => ~notices[m].read)}
             f == [n \in A |-> [notice |-> TRUE, id |-> n, at |-> notices[n].at]]
             S == StoredItems(u, unread)
  <1>1. S = {f[n] : n \in A}
    BY DEF StoredItems
  <1>2. A \subseteq Notice /\ \A n \in A : f[n].id = n /\ f[n].at = notices[n].at
    OBVIOUS
  <1>3. f \in [A -> S] /\ DOMAIN f = A
    BY <1>1
  <1>4. \A n \in A : notices[n].at \in Nat
    <2> SUFFICES ASSUME NEW n \in A PROVE notices[n].at \in Nat
      OBVIOUS
    <2>1. notices[n] \in NoticeRow
      BY DEF Shown, Written, NotificationsTypeOK
    <2>2. notices[n].at \in Moment
      BY <2>1 DEF NoticeRow
    <2> QED
      BY <2>2, NotificationsAssumption DEF Moment
  <1>5. IsFiniteSet(A)
    <2>1. IsFiniteSet(Notice)
      BY NotificationsAssumption, FS_Interval DEF Notice
    <2> QED
      BY <1>2, <2>1, FS_Subset
  <1> HIDE DEF f, S, A
  <1>6. f \in Bijection(A, S)
    BY <1>1, <1>2, <1>3 DEF Bijection, Injection, Surjection, IsInjective
  <1>7. IsFiniteSet(S) /\ Cardinality(S) = Cardinality(A)
    BY <1>5, <1>6, FS_Bijection DEF ExistsBijection
  <1>8. \A x \in S : x.at \in Nat
    BY <1>1, <1>2, <1>4
  <1> QED
    BY <1>7, <1>8 DEF Timed, S, A

LEMMA OverdueItemsTimed ==
  ASSUME NotificationsTypeOK, NEW u \in Recipient
  PROVE  Timed(OverdueItems(u))
  <1> DEFINE A == {k \in FollowUp : LeadOwner[k] = u /\ due[k] # NotYet}
             f == [l \in A |-> [notice |-> FALSE, id |-> l, at |-> due[l]]]
             S == OverdueItems(u)
  <1>1. S = {f[l] : l \in A}
    BY DEF OverdueItems
  <1>2. A \subseteq FollowUp /\ \A l \in A : f[l].at = due[l]
    OBVIOUS
  <1>3. f \in [A -> S]
    BY <1>1
  <1>4. \A l \in A : due[l] \in Nat
    BY NotificationsAssumption DEF NotificationsTypeOK, Midnight, Moment
  <1>5. IsFiniteSet(A)
    BY <1>2, NotificationsAssumption, FS_Subset
  <1> HIDE DEF f, S, A
  <1>6. f \in Surjection(A, S)
    BY <1>1, <1>3 DEF Surjection
  <1>7. IsFiniteSet(S)
    BY <1>5, <1>6, FS_Surjection
  <1>8. \A x \in S : x.at \in Nat
    BY <1>1, <1>2, <1>4
  <1> QED
    BY <1>7, <1>8 DEF Timed, S

LEMMA PanelFollows == NotificationsTypeOK => PanelAgrees
  <1> SUFFICES ASSUME NotificationsTypeOK,
                      NEW u \in Recipient, NEW unread \in BOOLEAN,
                      NEW limit \in 1..(MaxNotices + 1)
               PROVE  LET page == ListNotifications(u, unread, limit, 0)
                          others == (StoredItems(u, unread) \cup OverdueItems(u)) \ page.items
                      IN  /\ \A x \in page.items, y \in others : x.at >= y.at
                          /\ Cardinality(page.items) < limit => others = {}
                          /\ page.total = Cardinality(page.items) + Cardinality(others)
                          /\ unread => page.total = UnreadCount(u)
    BY DEF PanelAgrees
  <1> DEFINE S == StoredItems(u, unread)
             O == OverdueItems(u)
             P == StoredPage(u, unread, limit, 0)
             items == Newest(O \cup P, limit)
             others == (S \cup O) \ items
             page == ListNotifications(u, unread, limit, 0)
  <1>1. limit \in Nat /\ 0 + limit = limit
    BY NotificationsAssumption
  <1>2. Timed(S) /\ Timed(O)
    BY StoredItemsTimed, OverdueItemsTimed
  <1>3. S \cap O = {}
    <2>1. (\A x \in S : x.notice = TRUE) /\ \A x \in O : x.notice = FALSE
      BY DEF StoredItems, OverdueItems
    <2> QED
      BY <2>1
  <1>4. page.items = items /\ page.total = Cardinality(S) + Cardinality(O)
    BY DEF ListNotifications
  <1>5. IsNewest(P, S, limit)
    <2>1. P = Newest(S, limit)
      <3>1. P = Newest(S, 0 + limit) \ Newest(S, 0)
        BY DEF StoredPage, Page
      <3>2. Newest(S, 0) = {}
        BY <1>2, NoneNewest
      <3> QED
        BY <1>1, <3>1, <3>2
    <2> QED
      BY <1>1, <1>2, <2>1, NewestExists
  <1>6. Timed(O \cup P)
    <2> HIDE DEF S, O, P
    <2>1. P \subseteq S
      BY <1>5 DEF IsNewest
    <2>2. Timed(P)
      BY <1>2, <2>1, TimedParts
    <2> QED
      BY <1>2, <2>2, FS_Union DEF Timed
  <1>7. IsNewest(items, O \cup P, limit)
    BY <1>1, <1>6, NewestExists
  <1>8. unread => page.total = UnreadCount(u)
    <2> SUFFICES ASSUME unread PROVE page.total = UnreadCount(u)
      OBVIOUS
    <2>1. {m \in Notice : Shown(m, u) /\ (unread => ~notices[m].read)}
            = {n \in Notice : Shown(n, u) /\ ~notices[n].read}
      OBVIOUS
    <2> QED
      BY <1>4, <2>1, StoredItemsTimed DEF UnreadCount
  <1>9. /\ \A x \in items, y \in others : x.at >= y.at
        /\ Cardinality(items) < limit => others = {}
        /\ Cardinality(S) + Cardinality(O) = Cardinality(items) + Cardinality(others)
    <2>1. others = (S \cup O) \ items
      OBVIOUS
    <2> HIDE DEF S, O, P, items, others
    <2> QED
      BY <1>1, <1>2, <1>3, <1>5, <1>7, <2>1, MergedFirstPage
  <1> HIDE DEF page, items
  <1> QED
    BY <1>4, <1>8, <1>9 DEF page

(* The notification panel never hides an entry behind an older one, never  *)
(* leaves a place empty that an entry could have, and its badge and total  *)
(* count what it lists: for any users, leads and number of rows, whatever  *)
(* reads, deletions and new rows come between the requests.                *)
THEOREM PanelAlwaysAgrees == NotificationsSpec => []PanelAgrees
  <1>1. NoticesInv => PanelAgrees
    BY PanelFollows DEF NoticesInv
  <1> QED
    BY NoticesInit, NoticesStep, <1>1, PTL DEF NotificationsSpec

-----------------------------------------------------------------------------
(* The activity feed.                                                      *)

(* A row was last changed when it was created, or edited later; and no two *)
(* rows were written at the same moment.                                   *)
RowOK(row) ==
  /\ row \in ActivityRow
  /\ row.created <= row.updated /\ row.updated <= instant
  /\ row.editor # Nobody => row.created < row.updated

Apart(row, other) == {row.created, row.updated} \cap {other.created, other.updated} = {}

ActivitiesInv ==
  /\ ActivitiesTypeOK
  /\ \A i \in Logged : RowOK(activities[i])
  /\ \A i, j \in Logged : i # j => Apart(activities[i], activities[j])

LEMMA ActivitiesStart == ActivitiesInit => ActivitiesInv
  BY ActivitiesAssumption DEF ActivitiesInit, ActivitiesInv, ActivitiesTypeOK, Logged, Instant

(* A row written now differs in its moments from every other row.          *)
LEMMA RowWritten ==
  ASSUME ActivitiesInv, instant < MaxInstant, instant' = instant + 1, entities' = entities,
         NEW i \in Activity, NEW row \in ActivityRow,
         activities' = [activities EXCEPT ![i] = row],
         row.updated = instant + 1,
         \/ (row.created = instant + 1 /\ row.editor = Nobody)
         \/ (i \in Logged /\ row.created = activities[i].created)
  PROVE  ActivitiesInv'
  <1> USE ActivitiesAssumption
  <1>1. /\ ActivitiesTypeOK
        /\ \A j \in Logged : RowOK(activities[j])
        /\ \A j, k \in Logged : j # k => Apart(activities[j], activities[k])
    BY DEF ActivitiesInv
  <1>2. instant \in Nat /\ instant' \in Instant
    BY <1>1 DEF ActivitiesTypeOK, Instant
  <1>3. /\ activities' \in [Activity -> ActivityRow \cup {Nobody}]
        /\ \A j \in Activity : activities'[j] = IF j = i THEN row ELSE activities[j]
    BY <1>1 DEF ActivitiesTypeOK
  <1>4. Logged' = Logged \cup {i} /\ Logged \subseteq Activity
    BY <1>3 DEF Logged
  <1>5. ASSUME NEW j \in Logged
        PROVE  /\ activities[j] \in ActivityRow
               /\ activities[j].created \in Nat /\ activities[j].updated \in Nat
               /\ activities[j].created <= activities[j].updated
               /\ activities[j].updated <= instant
               /\ activities[j].editor # Nobody =>
                    activities[j].created < activities[j].updated
    BY <1>1 DEF RowOK, ActivityRow, Instant
  <1>6. row.created \in Nat /\ row.created <= row.updated
        /\ (row.editor # Nobody => row.created < row.updated)
    BY <1>2, <1>5
  <1>7. ASSUME NEW j \in Logged' PROVE RowOK(activities[j])'
    <2>1. CASE j = i
      BY <1>2, <1>3, <1>6, <2>1 DEF RowOK
    <2>2. CASE j # i
      BY <1>2, <1>3, <1>4, <1>5, <2>2 DEF RowOK
    <2> QED
      BY <2>1, <2>2
  <1>8. ASSUME NEW j \in Logged, j # i
        PROVE  Apart(row, activities[j]) /\ Apart(activities[j], row)
    <2>1. row.updated \notin {activities[j].created, activities[j].updated}
      BY <1>2, <1>5
    <2>2. row.created \notin {activities[j].created, activities[j].updated}
      <3>1. CASE row.created = instant + 1
        BY <1>2, <1>5, <3>1
      <3>2. CASE i \in Logged /\ row.created = activities[i].created
        BY <1>1, <1>8, <3>2 DEF Apart
      <3> QED
        BY <3>1, <3>2
    <2> QED
      BY <2>1, <2>2 DEF Apart
  <1>9. ASSUME NEW j \in Logged', NEW k \in Logged', j # k
        PROVE  Apart(activities[j], activities[k])'
    <2>1. Apart(activities'[j], activities'[k])
      BY <1>1, <1>3, <1>4, <1>8, <1>9
    <2> QED
      BY <2>1 DEF Apart
  <1>10. ActivitiesTypeOK'
    BY <1>1, <1>2, <1>3 DEF ActivitiesTypeOK
  <1> QED
    BY <1>7, <1>9, <1>10 DEF ActivitiesInv

(* The rows that remain are those there were.                              *)
LEMMA RowsGone ==
  ASSUME ActivitiesInv, instant' = instant, entities' \subseteq entities, NEW gone,
         activities' = Remaining(gone)
  PROVE  ActivitiesInv'
  <1>1. /\ ActivitiesTypeOK
        /\ \A j \in Logged : RowOK(activities[j])
        /\ \A j, k \in Logged : j # k => Apart(activities[j], activities[k])
    BY DEF ActivitiesInv
  <1>2. /\ activities' \in [Activity -> ActivityRow \cup {Nobody}]
        /\ \A j \in Activity : activities'[j] = IF j \in gone THEN Nobody ELSE activities[j]
    BY <1>1 DEF ActivitiesTypeOK, Remaining
  <1>3. Logged' \subseteq Logged /\ \A j \in Logged' : activities'[j] = activities[j]
    BY <1>2 DEF Logged
  <1>4. ASSUME NEW j \in Logged' PROVE RowOK(activities[j])'
    BY <1>1, <1>3, <1>4 DEF RowOK
  <1>5. ASSUME NEW j \in Logged', NEW k \in Logged', j # k
        PROVE  Apart(activities[j], activities[k])'
    BY <1>1, <1>3, <1>5 DEF Apart
  <1>6. ActivitiesTypeOK'
    BY <1>1, <1>2 DEF ActivitiesTypeOK
  <1> QED
    BY <1>4, <1>5, <1>6 DEF ActivitiesInv

LEMMA ActivitiesStep == ActivitiesInv /\ [ActivitiesNext]_activityVars => ActivitiesInv'
  <1> SUFFICES ASSUME ActivitiesInv, [ActivitiesNext]_activityVars PROVE ActivitiesInv'
    OBVIOUS
  <1>0. ActivitiesTypeOK /\ instant \in Nat
    BY ActivitiesAssumption DEF ActivitiesInv, ActivitiesTypeOK, Instant
  <1>1. CASE UNCHANGED activityVars
    BY <1>1 DEF activityVars, ActivitiesInv, ActivitiesTypeOK, Logged, RowOK, Apart
  <1>2. ASSUME NEW u \in Author, NEW e \in Entity, LogActivity(u, e) PROVE ActivitiesInv'
    <2>1. PICK i \in Activity :
            activities' = [activities EXCEPT ![i] =
              [on |-> e, by |-> u, created |-> instant', editor |-> Nobody,
               updated |-> instant']]
      BY <1>2 DEF LogActivity, FreeId
    <2>2. PICK row : row = [on |-> e, by |-> u, created |-> instant', editor |-> Nobody,
                            updated |-> instant']
      OBVIOUS
    <2>3. /\ instant < MaxInstant /\ instant' = instant + 1 /\ entities' = entities
          /\ activities' = [activities EXCEPT ![i] = row]
      BY <1>2, <2>1, <2>2 DEF LogActivity, PassInstant
    <2>4. row \in ActivityRow
      BY <1>0, <2>2, <2>3, ActivitiesAssumption DEF ActivityRow, Instant
    <2>5. row.updated = instant + 1 /\ row.created = instant + 1 /\ row.editor = Nobody
      BY <2>2, <2>3
    <2> QED
      BY <2>3, <2>4, <2>5, RowWritten
  <1>3. ASSUME NEW u \in Author, NEW i \in Activity, EditActivity(u, i) PROVE ActivitiesInv'
    <2>1. /\ instant < MaxInstant /\ instant' = instant + 1 /\ entities' = entities
          /\ i \in Logged /\ activities[i] \in ActivityRow
      BY <1>0, <1>3 DEF EditActivity, PassInstant, Logged, ActivitiesTypeOK
    <2>2. PICK row : row = [activities[i] EXCEPT !.editor = u, !.updated = instant']
      OBVIOUS
    <2>3. activities' = [activities EXCEPT ![i] = row]
      BY <1>0, <1>3, <2>1, <2>2 DEF EditActivity, ActivityRow, ActivitiesTypeOK
    <2>4. row.updated = instant + 1 /\ row.created = activities[i].created
      BY <2>1, <2>2 DEF ActivityRow
    <2>5. row \in ActivityRow
      <3>1. instant' \in Instant
        BY <1>0, <2>1, ActivitiesAssumption DEF Instant
      <3> QED
        BY <2>1, <2>2, <3>1 DEF ActivityRow
    <2> QED
      BY <2>1, <2>3, <2>4, <2>5, RowWritten
  <1>4. ASSUME NEW u \in Author, NEW i \in Activity, DeleteActivity(u, i) PROVE ActivitiesInv'
    BY <1>4, RowsGone DEF DeleteActivity
  <1>5. ASSUME NEW u \in Author, NEW e \in Entity, DeleteEntity(u, e) PROVE ActivitiesInv'
    <2>1. entities' \subseteq entities /\ instant' = instant
      BY <1>5 DEF DeleteEntity
    <2>2. PICK gone : activities' = Remaining(gone)
      BY <1>5 DEF DeleteEntity
    <2> QED
      BY <2>1, <2>2, RowsGone
  <1> QED
    BY <1>1, <1>2, <1>3, <1>4, <1>5 DEF ActivitiesNext

(* The entries of a period: those of the rows created in it, and those of  *)
(* the rows last edited in it.                                             *)
Happened(lo, hi) == {i \in Logged : activities[i].created \in lo..hi}
Changed(lo, hi) == {i \in Logged : activities[i].editor # Nobody
                                   /\ activities[i].updated \in lo..hi}
CreatedEntries(lo, hi) ==
  {[activity |-> i, at |-> activities[i].created, edited |-> FALSE] : i \in Happened(lo, hi)}
EditedEntries(lo, hi) ==
  {[activity |-> i, at |-> activities[i].updated, edited |-> TRUE] : i \in Changed(lo, hi)}
Entries(lo, hi) == CreatedEntries(lo, hi) \cup EditedEntries(lo, hi)

(* No two entries have the same moment, and there are at most two of each  *)
(* row.                                                                    *)
LEMMA EntriesDistinct ==
  ASSUME ActivitiesInv, NEW lo, NEW hi
  PROVE  /\ Distinct(Entries(lo, hi))
         /\ Cardinality(Entries(lo, hi)) <= 2 * Cardinality(Logged)
         /\ Cardinality(Logged) \in Nat
  <1> DEFINE H == Happened(lo, hi)
             C == Changed(lo, hi)
             A == CreatedEntries(lo, hi)
             B == EditedEntries(lo, hi)
             f == [i \in H |-> [activity |-> i, at |-> activities[i].created, edited |-> FALSE]]
             g == [i \in C |-> [activity |-> i, at |-> activities[i].updated, edited |-> TRUE]]
  <1>1. H \subseteq Logged /\ C \subseteq Logged /\ Logged \subseteq Activity
    BY DEF Happened, Changed, Logged
  <1>2. IsFiniteSet(Logged) /\ IsFiniteSet(H) /\ IsFiniteSet(C)
    <2>1. IsFiniteSet(Activity)
      BY ActivitiesAssumption, FS_Interval DEF Activity
    <2> QED
      BY <1>1, <2>1, FS_Subset
  <1>3. /\ Cardinality(Logged) \in Nat
        /\ Cardinality(H) <= Cardinality(Logged) /\ Cardinality(H) \in Nat
        /\ Cardinality(C) <= Cardinality(Logged) /\ Cardinality(C) \in Nat
    BY <1>1, <1>2, FS_Subset, FS_CardinalityType
  <1>4. ASSUME NEW i \in Logged
        PROVE  /\ activities[i].created \in Nat /\ activities[i].updated \in Nat
               /\ activities[i].editor # Nobody =>
                    activities[i].created < activities[i].updated
    BY <1>1, ActivitiesAssumption DEF ActivitiesInv, RowOK, ActivityRow, Instant
  <1>5. \A i, j \in Logged : i # j => Apart(activities[i], activities[j])
    BY DEF ActivitiesInv
  <1>6. /\ f \in Surjection(H, A) /\ g \in Surjection(C, B)
    <2>1. A = {f[i] : i \in H} /\ B = {g[i] : i \in C}
      BY DEF CreatedEntries, EditedEntries
    <2>2. f \in [H -> A] /\ g \in [C -> B]
      BY <2>1
    <2> HIDE DEF f, g, A, B, H, C
    <2> QED
      BY <2>1, <2>2 DEF Surjection
  <1>7. IsFiniteSet(A) /\ Cardinality(A) <= Cardinality(H)
    <2> HIDE DEF f, A, H
    <2> QED
      BY <1>2, <1>6, FS_Surjection
  <1>8. IsFiniteSet(B) /\ Cardinality(B) <= Cardinality(C)
    <2> HIDE DEF g, B, C
    <2> QED
      BY <1>2, <1>6, FS_Surjection
  <1>9. \A x \in A : \E i \in H : /\ x = [activity |-> i, at |-> activities[i].created,
                                          edited |-> FALSE]
                                  /\ x.at = activities[i].created
    BY DEF CreatedEntries
  <1>10. \A x \in B : \E i \in C : /\ x = [activity |-> i, at |-> activities[i].updated,
                                           edited |-> TRUE]
                                   /\ x.at = activities[i].updated
                                   /\ activities[i].editor # Nobody
    BY DEF EditedEntries, Changed
  <1> HIDE DEF f, g, A, B, H, C
  <1>11. IsFiniteSet(A \cup B) /\ Cardinality(A \cup B) <= 2 * Cardinality(Logged)
    <2>1. IsFiniteSet(A \cup B)
          /\ Cardinality(A \cup B) = Cardinality(A) + Cardinality(B) - Cardinality(A \cap B)
      BY <1>7, <1>8, FS_Union
    <2>2. IsFiniteSet(A \cap B)
      BY <1>7, FS_Subset, A \cap B \subseteq A
    <2>3. Cardinality(A) \in Nat /\ Cardinality(B) \in Nat /\ Cardinality(A \cap B) \in Nat
      BY <1>7, <1>8, <2>2, FS_CardinalityType
    <2> QED
      BY <1>3, <1>7, <1>8, <2>1, <2>3
  <1>12. \A x \in A \cup B : x.at \in Nat
    BY <1>1, <1>4, <1>9, <1>10
  <1>13. ASSUME NEW x \in A \cup B, NEW y \in A \cup B, x.at = y.at PROVE x = y
    <2>1. PICK i \in Logged :
            \/ /\ x = [activity |-> i, at |-> activities[i].created, edited |-> FALSE]
               /\ x.at = activities[i].created
            \/ /\ x = [activity |-> i, at |-> activities[i].updated, edited |-> TRUE]
               /\ x.at = activities[i].updated
               /\ activities[i].editor # Nobody
      BY <1>1, <1>9, <1>10
    <2>2. PICK j \in Logged :
            \/ /\ y = [activity |-> j, at |-> activities[j].created, edited |-> FALSE]
               /\ y.at = activities[j].created
            \/ /\ y = [activity |-> j, at |-> activities[j].updated, edited |-> TRUE]
               /\ y.at = activities[j].updated
               /\ activities[j].editor # Nobody
      BY <1>1, <1>9, <1>10
    <2>3. i = j
      BY <1>5, <1>13, <2>1, <2>2 DEF Apart
    <2>4. activities[i].editor # Nobody =>
            activities[i].created # activities[i].updated
      BY <1>4
    <2> QED
      BY <1>13, <2>1, <2>2, <2>3, <2>4, Zenon
  <1> QED
    BY <1>3, <1>11, <1>12, <1>13 DEF Distinct, Timed, Entries, A, B

(* The merge of the six queries shows the same page as all entries.        *)
LEMMA FeedByRank ==
  ASSUME ActivitiesInv, NEW lo, NEW hi, NEW limit \in Nat, NEW offset \in Nat
  PROVE  ActivityFeed(lo, hi, limit, offset) =
           {x \in Entries(lo, hi) : offset <= Rank(Entries(lo, hi), x)
                                    /\ Rank(Entries(lo, hi), x) < offset + limit}
  <1> DEFINE S == Entries(lo, hi)
             n == limit + offset
             Q(k) == Newest(Created(k, lo, hi), n) \cup Newest(Edited(k, lo, hi), n)
             M == UNION {Q(k) : k \in TableKinds}
  <1>1. Distinct(S)
    BY EntriesDistinct
  <1>2. /\ \A k \in TableKinds : Created(k, lo, hi) \subseteq S /\ Edited(k, lo, hi) \subseteq S
        /\ \A x \in S : \E k \in TableKinds : x \in Created(k, lo, hi) \cup Edited(k, lo, hi)
    <2>1. \A i \in Logged : KindOf[activities[i].on] \in TableKinds
      BY ActivitiesAssumption DEF ActivitiesInv, RowOK, ActivityRow
    <2>2. \A k \in TableKinds : Created(k, lo, hi) \subseteq CreatedEntries(lo, hi)
      BY DEF Created, CreatedEntries, Happened
    <2>3. \A k \in TableKinds : Edited(k, lo, hi) \subseteq EditedEntries(lo, hi)
      BY DEF Edited, EditedEntries, Changed
    <2>4. ASSUME NEW x \in CreatedEntries(lo, hi)
          PROVE  \E k \in TableKinds : x \in Created(k, lo, hi)
      <3>1. PICK i \in Happened(lo, hi) :
              x = [activity |-> i, at |-> activities[i].created, edited |-> FALSE]
        BY DEF CreatedEntries
      <3>2. x \in Created(KindOf[activities[i].on], lo, hi) /\ i \in Logged
        BY <3>1 DEF Created, Happened
      <3> QED
        BY <2>1, <3>2
    <2>5. ASSUME NEW x \in EditedEntries(lo, hi)
          PROVE  \E k \in TableKinds : x \in Edited(k, lo, hi)
      <3>1. PICK i \in Changed(lo, hi) :
              x = [activity |-> i, at |-> activities[i].updated, edited |-> TRUE]
        BY DEF EditedEntries
      <3>2. x \in Edited(KindOf[activities[i].on], lo, hi) /\ i \in Logged
        BY <3>1 DEF Edited, Changed
      <3> QED
        BY <2>1, <3>2
    <2> QED
      BY <2>2, <2>3, <2>4, <2>5 DEF Entries
  <1>3. n \in Nat /\ n = offset + limit /\ offset <= n
    OBVIOUS
  <1>4. \A x \in S : Rank(S, x) \in Nat
    BY <1>1, Ranks
  <1>5. ASSUME NEW T \in SUBSET S
        PROVE  Newest(T, n) \subseteq T /\ \A x \in T : Rank(S, x) < n => x \in Newest(T, n)
    <2>1. Distinct(T)
      BY <1>1, TimedParts DEF Distinct
    <2>2. Newest(T, n) = {x \in T : Rank(T, x) < n}
      BY <1>3, <2>1, NewestByRank
    <2>3. \A x \in T : Rank(T, x) <= Rank(S, x) /\ Rank(T, x) \in Nat
      BY <1>1, <2>1, Ranks
    <2> QED
      BY <1>3, <1>4, <2>2, <2>3
  <1>6. ActivityFeed(lo, hi, limit, offset) = Newest(M, offset + limit) \ Newest(M, offset)
    BY DEF ActivityFeed, Queried, Page
  <1>7. M \subseteq S /\ \A x \in S : Rank(S, x) < n => x \in M
    <2>1. \A k \in TableKinds : Q(k) \subseteq S
      BY <1>2, <1>5
    <2>2. ASSUME NEW x \in S, Rank(S, x) < n PROVE x \in M
      <3>1. PICK k \in TableKinds : x \in Created(k, lo, hi) \cup Edited(k, lo, hi)
        BY <1>2
      <3>2. x \in Q(k)
        BY <1>2, <1>5, <2>2, <3>1
      <3> QED
        BY <3>2
    <2> QED
      BY <2>1, <2>2
  <1> HIDE DEF M, S, n
  <1>8. Newest(M, n) = {x \in S : Rank(S, x) < n}
    BY <1>1, <1>3, <1>7, MergedByRank
  <1>9. Newest(M, offset) = {x \in S : Rank(S, x) < offset}
    <2>1. \A x \in S : Rank(S, x) < offset => x \in M
      BY <1>3, <1>4, <1>7
    <2> QED
      BY <1>1, <1>7, <2>1, MergedByRank
  <1>10. ActivityFeed(lo, hi, limit, offset) =
           {x \in S : offset <= Rank(S, x) /\ Rank(S, x) < offset + limit}
    BY <1>3, <1>4, <1>6, <1>8, <1>9
  <1> QED
    BY <1>10 DEF S

LEMMA FeedFollows == ActivitiesInv => FeedPagesComplete
  <1> SUFFICES ASSUME ActivitiesInv, NEW lo \in 0..instant, NEW hi \in 0..instant,
                      NEW limit \in 1..MaxActivities
               PROVE  LET numbers == 1..(2 * Cardinality(Logged))
                          page == [p \in numbers |-> ActivityFeed(lo, hi, limit, (p - 1) * limit)]
                      IN  /\ \A p, q \in numbers : p < q =>
                               /\ \A x \in page[p], y \in page[q] : x.at > y.at
                               /\ page[q] # {} => Cardinality(page[p]) = limit
                          /\ UNION {page[p] : p \in numbers} = Entries(lo, hi)
    BY DEF FeedPagesComplete, Entries, CreatedEntries, EditedEntries, Happened, Changed
  <1> DEFINE numbers == 1..(2 * Cardinality(Logged))
             page == [p \in numbers |-> ActivityFeed(lo, hi, limit, (p - 1) * limit)]
             S == Entries(lo, hi)
  <1>1. limit \in Nat \ {0}
    BY ActivitiesAssumption
  <1>2. /\ Distinct(S) /\ Timed(S)
        /\ Cardinality(S) <= 2 * Cardinality(Logged) /\ Cardinality(Logged) \in Nat
    BY EntriesDistinct DEF Distinct
  <1>3. \A p \in numbers : p \in Nat \ {0}
    OBVIOUS
  <1>4. ASSUME NEW p \in numbers
        PROVE  /\ page[p] = {x \in S : (p - 1) * limit <= Rank(S, x) /\ Rank(S, x) < p * limit}
               /\ (p - 1) * limit \in Nat /\ p * limit \in Nat
               /\ (p - 1) * limit + limit = p * limit
    <2>1. /\ (p - 1) * limit \in Nat /\ p * limit \in Nat
          /\ (p - 1) * limit + limit = p * limit
      BY <1>1, <1>3, PageNumbers
    <2>2. PICK offset \in Nat : offset = (p - 1) * limit
      BY <2>1
    <2>3. page[p] = ActivityFeed(lo, hi, limit, offset)
      BY <2>2
    <2> HIDE DEF page
    <2>4. page[p] = {x \in S : offset <= Rank(S, x) /\ Rank(S, x) < offset + limit}
      BY <1>1, <2>3, FeedByRank
    <2> QED
      BY <2>1, <2>2, <2>4
  <1> HIDE DEF page, S
  <1>5. \A x \in S : /\ Rank(S, x) \in Nat /\ Rank(S, x) < Cardinality(S)
                     /\ Cardinality(S) \in Nat
                     /\ \A y \in S : Rank(S, x) < Rank(S, y) => x.at > y.at
    BY <1>2, Ranks
  <1>6. ASSUME NEW p \in numbers, NEW q \in numbers, p < q
        PROVE  /\ \A x \in page[p], y \in page[q] : x.at > y.at
               /\ page[q] # {} => Cardinality(page[p]) = limit
    <2>1. p * limit <= (q - 1) * limit
      BY <1>1, <1>3, <1>6, PageNumbers
    <2>2. ASSUME NEW x \in page[p], NEW y \in page[q] PROVE x.at > y.at
      <3>1. /\ x \in S /\ y \in S
            /\ Rank(S, x) < p * limit /\ (q - 1) * limit <= Rank(S, y)
        BY <1>4
      <3>2. Rank(S, x) < Rank(S, y)
        BY <1>4, <1>5, <2>1, <3>1
      <3> QED
        BY <1>5, <3>1, <3>2
    <2>3. ASSUME NEW y \in page[q] PROVE Cardinality(page[p]) = limit
      <3> DEFINE T == Newest(S, p * limit)
                 T0 == Newest(S, (p - 1) * limit)
      <3>1. /\ T = {x \in S : Rank(S, x) < p * limit} /\ IsNewest(T, S, p * limit)
            /\ T0 = {x \in S : Rank(S, x) < (p - 1) * limit}
            /\ IsNewest(T0, S, (p - 1) * limit)
        BY <1>2, <1>4, NewestByRank, NewestExists
      <3>2. y \in S /\ p * limit <= Rank(S, y)
        BY <1>4, <1>5, <2>1
      <3> HIDE DEF T, T0
      <3>3. T0 \subseteq T /\ T \subseteq S /\ y \notin T /\ y \notin T0
        BY <1>1, <1>4, <1>5, <3>1, <3>2
      <3>4. page[p] = T \ T0
        BY <1>4, <1>5, <3>1
      <3>5. /\ Timed(T) /\ Cardinality(S) \in Nat
            /\ Cardinality(T) \in Nat /\ Cardinality(T) # Cardinality(S)
        BY <1>2, <3>2, <3>3, TimedParts
      <3>6. Cardinality(T0) \in Nat /\ Cardinality(T0) # Cardinality(S)
        BY <1>2, <3>2, <3>3, TimedParts
      <3>7. Cardinality(T) = p * limit /\ Cardinality(T0) = (p - 1) * limit
        BY <3>1, <3>5, <3>6 DEF IsNewest
      <3>8. Cardinality(T \ T0) = Cardinality(T) - Cardinality(T0)
        BY <3>3, <3>5, TimedParts
      <3> QED
        BY <1>1, <1>4, <3>4, <3>7, <3>8
    <2> QED
      BY <2>2, <2>3
  <1>7. UNION {page[p] : p \in numbers} = S
    <2>1. \A p \in numbers : page[p] \subseteq S
      BY <1>4
    <2>2. ASSUME NEW x \in S PROVE \E p \in numbers : x \in page[p]
      <3>1. PICK p \in 1..(Rank(S, x) + 1) :
              (p - 1) * limit <= Rank(S, x) /\ Rank(S, x) < p * limit
        BY <1>1, <1>5, PageNumbers
      <3>2. p \in numbers
        BY <1>2, <1>5, <3>1
      <3> QED
        BY <1>4, <3>1, <3>2
    <2> QED
      BY <2>1, <2>2
  <1> QED
    BY <1>6, <1>7 DEF page, S

(* Turning the pages of the activity feed, of whatever length, shows every *)
(* entry of the period once and newest first, and only the last page has   *)
(* room left: for any entities, users, rows and history of edits and       *)
(* deletions, however the rows are spread over the three tables.           *)
THEOREM FeedPagesAlwaysComplete == ActivitiesSpec => []FeedPagesComplete
  BY ActivitiesStart, ActivitiesStep, FeedFollows, PTL DEF ActivitiesSpec

-----------------------------------------------------------------------------
(* The dashboard and the lists.                                            *)

(* The moves are the finitely many of the requests so far, each at a       *)
(* moment of its own; a deal that every request checked has a move into    *)
(* its stage, and a reason where one is asked for.                         *)
MovesInv ==
  /\ IsFiniteSet(moves)
  /\ \A m \in moves : m.at <= time
  /\ \A m, n \in moves : m.at = n.at => m = n

CheckedDeal(d) ==
  /\ \E m \in moves : m.deal = d /\ m.to = deals[d].stage
  /\ deals[d].stage \in ColdOrLost => deals[d].cold

DealsInv ==
  /\ IsFiniteSet(Stored(deals))
  /\ \A d \in Stored(deals) \ unchecked : CheckedDeal(d)

DashboardInv ==
  /\ DashboardTypeOK /\ MovesInv /\ DealsInv
  /\ IsFiniteSet(Stored(leads)) /\ IsFiniteSet(accounts)

LEMMA DashboardStart == DashboardInit => DashboardInv
  <1> SUFFICES ASSUME DashboardInit PROVE DashboardInv
    OBVIOUS
  <1>1. Stored(deals) = {} /\ Stored(leads) = {} /\ moves = {} /\ accounts = {} /\ time = 0
    BY DEF DashboardInit, Stored
  <1>2. DashboardTypeOK
    BY DashboardAssumption DEF DashboardInit, DashboardTypeOK, Time
  <1>3. IsFiniteSet({})
    BY FS_EmptySet
  <1> QED
    BY <1>1, <1>2, <1>3 DEF DashboardInv, MovesInv, DealsInv

LEMMA TimePasses ==
  ASSUME DashboardTypeOK, Pass
  PROVE  time' = time + 1 /\ time' \in Time /\ time' <= MaxTime
  BY DashboardAssumption DEF DashboardTypeOK, Pass, Time

(* The moves that are there stay in order when time passes.                *)
LEMMA MovesLater ==
  ASSUME DashboardTypeOK, MovesInv, time' \in Time, time <= time', moves' \subseteq moves
  PROVE  MovesInv'
  <1>1. IsFiniteSet(moves')
    BY FS_Subset DEF MovesInv
  <1>2. \A m \in moves : m.at \in Nat /\ m.at <= time
    BY DashboardAssumption DEF DashboardTypeOK, MovesInv, MoveRow, Time
  <1>3. time \in Nat /\ time' \in Nat
    BY DashboardAssumption DEF DashboardTypeOK, Time
  <1>4. \A m \in moves' : m.at <= time'
    BY <1>2, <1>3
  <1> QED
    BY <1>1, <1>4 DEF MovesInv

(* A move at a new moment                                                  *)
LEMMA MoveAdded ==
  ASSUME DashboardTypeOK, MovesInv, Pass,
         NEW d \in Deal, NEW from \in Stage \cup {Null}, NEW to \in Stage,
         moves' = moves \cup {[deal |-> d, from |-> from, to |-> to, at |-> time']}
  PROVE  MovesInv' /\ moves' \subseteq MoveRow
  <1>1. PICK new : new = [deal |-> d, from |-> from, to |-> to, at |-> time']
    OBVIOUS
  <1>2. moves' = moves \cup {new} /\ new.at = time + 1
    BY <1>1, TimePasses
  <1>3. time \in Nat /\ time' \in Time /\ time' = time + 1
    BY TimePasses, DashboardAssumption DEF DashboardTypeOK, Time
  <1>4. new \in MoveRow
    BY <1>1, <1>3 DEF MoveRow
  <1>5. \A m \in moves : m.at \in Nat /\ m.at <= time
    BY DashboardAssumption DEF DashboardTypeOK, MovesInv, MoveRow, Time
  <1>6. IsFiniteSet(moves')
    BY <1>2, FS_AddElement DEF MovesInv
  <1>7. \A m \in moves' : m.at <= time'
    BY <1>2, <1>3, <1>5
  <1>8. \A m, n \in moves' : m.at = n.at => m = n
    BY <1>2, <1>3, <1>5 DEF MovesInv
  <1> QED
    BY <1>2, <1>4, <1>6, <1>7, <1>8 DEF MovesInv, DashboardTypeOK

(* A deal is written: it is checked when its row is as the check wants it  *)
(* and either the stage is new or a move into it was there.                *)
LEMMA DealWritten ==
  ASSUME DashboardInv, NEW d \in Deal, NEW row \in DealFields,
         NEW from \in Stage \cup {Null}, NEW created \in Time,
         WriteDeal(d, row, from, created),
         unchecked' \subseteq Deal, unchecked \ {d} \subseteq unchecked',
         d \notin unchecked' =>
           /\ row.stage \in ColdOrLost => row.cold
           /\ row.stage # from \/ \E m \in moves : m.deal = d /\ m.to = row.stage
  PROVE  DashboardInv'
  <1> DEFINE written == [stage |-> row.stage, owner |-> row.owner, cold |-> row.cold,
                         at |-> created]
  <1>0. DashboardTypeOK /\ MovesInv /\ DealsInv
    BY DEF DashboardInv
  <1>1. /\ Pass /\ deals' = [deals EXCEPT ![d] = written]
        /\ moves' = IF row.stage = from THEN moves
                    ELSE moves \cup {[deal |-> d, from |-> from, to |-> row.stage,
                                       at |-> time']}
        /\ UNCHANGED <<stages, leads, accounts>>
    BY DEF WriteDeal
  <1>2. written \in DealRow /\ written # Null /\ row.stage \in Stage
    BY DashboardAssumption DEF DealFields, DealRow
  <1>3. written.stage = row.stage /\ written.cold = row.cold
    OBVIOUS
  <1> HIDE DEF written
  <1>4. PICK to \in Stage : to = row.stage
    BY <1>2
  <1>5. MovesInv' /\ moves' \subseteq MoveRow
    <2>1. CASE row.stage = from
      <3>1. time' \in Time /\ time <= time'
        BY <1>0, <1>1, TimePasses, DashboardAssumption DEF DashboardTypeOK, Time
      <3> QED
        BY <1>0, <1>1, <2>1, <3>1, MovesLater DEF DashboardTypeOK
    <2>2. CASE row.stage # from
      <3>1. moves' = moves \cup {[deal |-> d, from |-> from, to |-> to, at |-> time']}
        BY <1>1, <1>4, <2>2
      <3> QED
        BY <1>0, <1>1, <3>1, MoveAdded
    <2> QED
      BY <2>1, <2>2
  <1>6. moves \subseteq moves'
    BY <1>1
  <1>7. row.stage # from => \E m \in moves' : m.deal = d /\ m.to = row.stage
    <2> SUFFICES ASSUME row.stage # from
                 PROVE  \E m \in moves' : m.deal = d /\ m.to = row.stage
      OBVIOUS
    <2>1. PICK new : new = [deal |-> d, from |-> from, to |-> row.stage, at |-> time']
      OBVIOUS
    <2>2. new \in moves' /\ new.deal = d /\ new.to = row.stage
      BY <1>1, <2>1
    <2> QED
      BY <2>2
  <1>8. deals' \in [Deal -> DealRow \cup {Null}]
        /\ \A c \in Deal : deals'[c] = IF c = d THEN written ELSE deals[c]
    BY <1>0, <1>1, <1>2 DEF DashboardTypeOK
  <1>9. Stored(deals)' = Stored(deals) \cup {d}
    <2>1. DOMAIN deals = Deal /\ DOMAIN deals' = Deal
      BY <1>0, <1>8 DEF DashboardTypeOK
    <2>2. \A c \in Deal : deals'[c] # Null <=> (deals[c] # Null \/ c = d)
      BY <1>2, <1>8
    <2> QED
      BY <2>1, <2>2 DEF Stored
  <1>10. IsFiniteSet(Stored(deals)')
    <2>1. IsFiniteSet(Stored(deals) \cup {d})
      BY <1>0, FS_AddElement DEF DealsInv
    <2> QED
      BY <1>9, <2>1
  <1>11. ColdOrLost' = ColdOrLost
    BY <1>1 DEF ColdOrLost
  <1>12. ASSUME NEW c \in Stored(deals)', c \notin unchecked'
         PROVE  CheckedDeal(c)'
    <2>1. CASE c = d
      <3>1. deals'[c] = written
        BY <1>8, <2>1
      <3>2. \E m \in moves' : m.deal = c /\ m.to = row.stage
        BY <1>6, <1>7, <1>12, <2>1
      <3> QED
        BY <1>3, <1>11, <1>12, <2>1, <3>1, <3>2 DEF CheckedDeal
    <2>2. CASE c # d
      <3>1. c \in Stored(deals) /\ c \notin unchecked /\ c \in Deal
        BY <1>0, <1>9, <1>12, <2>2 DEF Stored, DashboardTypeOK
      <3>2. CheckedDeal(c) /\ deals'[c] = deals[c]
        BY <1>0, <1>8, <2>2, <3>1 DEF DealsInv
      <3> QED
        BY <1>6, <1>11, <3>2 DEF CheckedDeal
    <2> QED
      BY <2>1, <2>2
  <1>13. DealsInv'
    BY <1>10, <1>12 DEF DealsInv
  <1>14. IsFiniteSet(Stored(leads))' /\ IsFiniteSet(accounts)'
    BY <1>1 DEF DashboardInv, Stored
  <1>15. DashboardTypeOK'
    BY <1>0, <1>1, <1>5, <1>8, TimePasses DEF DashboardTypeOK
  <1> QED
    BY <1>5, <1>13, <1>14, <1>15 DEF DashboardInv

(* No deal is written and no stage edited.                                 *)
LEMMA DealsLeft ==
  ASSUME DashboardInv, time' \in Time, time <= time', UNCHANGED <<stages, deals, moves, unchecked>>,
         leads' \in [Lead -> LeadRow \cup {Null}], IsFiniteSet(Stored(leads)'),
         accounts' \subseteq AccountRow, IsFiniteSet(accounts')
  PROVE  DashboardInv'
  <1>0. DashboardTypeOK /\ MovesInv /\ DealsInv
    BY DEF DashboardInv
  <1>1. MovesInv'
    BY <1>0, MovesLater
  <1>2. DealsInv'
    BY <1>0 DEF DealsInv, CheckedDeal, ColdOrLost, Stored
  <1>3. DashboardTypeOK'
    BY <1>0 DEF DashboardTypeOK
  <1> QED
    BY <1>1, <1>2, <1>3 DEF DashboardInv

LEMMA DashboardStep == DashboardInv /\ [DashboardNext]_dashboardVars => DashboardInv'
  <1> SUFFICES ASSUME DashboardInv, [DashboardNext]_dashboardVars PROVE DashboardInv'
    OBVIOUS
  <1>0. /\ DashboardTypeOK /\ MovesInv /\ DealsInv
        /\ IsFiniteSet(Stored(leads)) /\ IsFiniteSet(accounts)
        /\ time \in Nat /\ time \in Time
    BY DashboardAssumption DEF DashboardInv, DashboardTypeOK, Time
  <1>1. ASSUME Pass
        PROVE  time' = time + 1 /\ time' \in Time /\ time <= time'
    BY <1>0, <1>1, TimePasses
  <1>2. CASE UNCHANGED dashboardVars
    BY <1>0, <1>2, DealsLeft DEF dashboardVars, DashboardTypeOK, Stored
  <1>3. CASE PassTime
    BY <1>0, <1>1, <1>3, DealsLeft DEF PassTime, DashboardTypeOK, Stored
  <1>4. ASSUME NEW d \in Deal, NEW row \in DealRows, OpenDeal(d, row) PROVE DashboardInv'
    <2>1. PICK from \in Stage \cup {Null} : from = Null
      OBVIOUS
    <2>2. PICK created \in Time : created = time'
      BY <1>1, <1>4 DEF OpenDeal, WriteDeal
    <2>3. WriteDeal(d, row, from, created)
      BY <1>4, <2>1, <2>2 DEF OpenDeal, WriteDeal
    <2>4. row \in DealFields /\ row.stage # from
      BY <2>1, DashboardAssumption DEF DealFields
    <2>5. /\ unchecked' \subseteq Deal /\ unchecked \ {d} \subseteq unchecked'
          /\ row.stage \in ColdOrLost => row.cold
      BY <1>0, <1>4 DEF OpenDeal, DashboardTypeOK
    <2> QED
      BY <2>3, <2>4, <2>5, DealWritten
  <1>5. ASSUME NEW d \in Stored(deals), NEW row \in DealRows,
               WriteDeal(d, row, deals[d].stage, deals[d].at),
               unchecked' \subseteq Deal, unchecked \subseteq unchecked',
               d \notin unchecked' => (row.stage \in ColdOrLost => row.cold)
        PROVE  DashboardInv'
    <2>1. d \in Deal /\ deals[d] \in DealRow
      BY <1>0 DEF Stored, DashboardTypeOK
    <2>2. PICK from \in Stage \cup {Null} : from = deals[d].stage
      BY <2>1 DEF DealRow
    <2>3. PICK created \in Time : created = deals[d].at
      BY <2>1 DEF DealRow
    <2>4. WriteDeal(d, row, from, created)
      BY <1>5, <2>2, <2>3
    <2>5. d \notin unchecked' =>
            row.stage # from \/ \E m \in moves : m.deal = d /\ m.to = row.stage
      BY <1>0, <1>5, <2>2 DEF DealsInv, CheckedDeal
    <2>6. row \in DealFields
      BY DashboardAssumption
    <2> QED
      BY <1>5, <2>1, <2>4, <2>5, <2>6, DealWritten
  <1>6. ASSUME NEW u \in User, NEW d \in Deal, NEW row \in DealRows, UpdateDeal(u, d, row)
        PROVE  DashboardInv'
    BY <1>0, <1>5, <1>6 DEF UpdateDeal, MayOpenDeal, DashboardTypeOK
  <1>7. ASSUME NEW d \in Deal, NEW row \in DealRows, PatchDeal(d, row)
        PROVE  DashboardInv'
    <2>1. /\ d \in Stored(deals)
          /\ Cardinality({f \in {"stage", "owner", "cold"} : row[f] # deals[d][f]}) = 1
          /\ WriteDeal(d, row, deals[d].stage, deals[d].at)
          /\ unchecked' = IF row.owner = deals[d].owner THEN unchecked \cup {d} ELSE unchecked
      BY <1>7 DEF PatchDeal
    <2>2. row \in DealFields /\ deals[d] \in DealRow
      BY <1>0, <2>1, DashboardAssumption DEF Stored, DashboardTypeOK
    <2>3. row.owner # deals[d].owner => row.stage = deals[d].stage /\ row.cold = deals[d].cold
      <3> DEFINE F == {f \in {"stage", "owner", "cold"} : row[f] # deals[d][f]}
      <3>1. ASSUME NEW f \in {"stage", "cold"}, row.owner # deals[d].owner, row[f] # deals[d][f]
            PROVE  FALSE
        <4>1. {"owner", f} \subseteq F
          BY <3>1
        <4>2. IsFiniteSet(F)
          <5>1. IsFiniteSet({"stage"})
            BY FS_Singleton
          <5>2. IsFiniteSet({"stage"} \cup {"owner"})
            BY <5>1, FS_AddElement
          <5>3. IsFiniteSet({"stage"} \cup {"owner"} \cup {"cold"})
            BY <5>2, FS_AddElement
          <5>4. F \subseteq {"stage"} \cup {"owner"} \cup {"cold"}
            OBVIOUS
          <5> HIDE DEF F
          <5> QED
            BY <5>3, <5>4, FS_Subset
        <4>3. Cardinality(F) = 1
          BY <2>1
        <4>4. \E x : F = {x}
          <5> HIDE DEF F
          <5> QED
            BY <4>2, <4>3, FS_Singleton
        <4> QED
          BY <4>1, <4>4
      <3> QED
        BY <3>1
    <2>4. d \notin unchecked' => (row.stage \in ColdOrLost => row.cold)
      BY <1>0, <2>1, <2>3 DEF DealsInv, CheckedDeal
    <2>5. unchecked' \subseteq Deal /\ unchecked \subseteq unchecked'
      BY <1>0, <2>1 DEF DashboardTypeOK
    <2> QED
      BY <1>5, <2>1, <2>4, <2>5
  <1>8. ASSUME NEW m \in moves, NEW row \in MoveRow, PatchMove(m, row) PROVE DashboardInv'
    <2>1. /\ Pass /\ row.at = m.at /\ moves' = (moves \ {m}) \cup {row}
          /\ unchecked' = unchecked \cup {m.deal, row.deal}
          /\ UNCHANGED <<stages, deals, leads, accounts>>
      BY <1>8 DEF PatchMove
    <2>2. MovesInv'
      <3>1. IsFiniteSet(moves')
        <4>1. IsFiniteSet(moves \ {m})
          BY <1>0, FS_Subset DEF MovesInv
        <4> QED
          BY <2>1, <4>1, FS_AddElement
      <3>2. \A n \in moves : n.at \in Nat /\ n.at <= time
        BY <1>0, DashboardAssumption DEF DashboardTypeOK, MovesInv, MoveRow, Time
      <3>3. \A n \in moves' : n.at <= time'
        BY <1>0, <1>1, <2>1, <3>2
      <3>4. \A n, o \in moves' : n.at = o.at => n = o
        BY <1>0, <2>1 DEF MovesInv
      <3> QED
        BY <3>1, <3>3, <3>4 DEF MovesInv
    <2>3. DealsInv'
      <3>1. ASSUME NEW d \in Stored(deals), d \notin unchecked'
            PROVE  CheckedDeal(d)'
        <4>1. CheckedDeal(d) /\ d # m.deal
          BY <1>0, <2>1, <3>1 DEF DealsInv
        <4> QED
          BY <2>1, <4>1 DEF CheckedDeal, ColdOrLost
      <3> QED
        BY <1>0, <2>1, <3>1 DEF DealsInv, Stored
    <2>4. DashboardTypeOK'
      BY <1>0, <1>1, <2>1 DEF DashboardTypeOK, MoveRow
    <2> QED
      BY <1>0, <2>1, <2>2, <2>3, <2>4 DEF DashboardInv, Stored
  <1>9. ASSUME NEW s \in Stage, NEW row \in StageRows, UpdateStage(s, row) PROVE DashboardInv'
    <2>1. /\ Pass /\ stages' = [stages EXCEPT ![s] = row]
          /\ unchecked' = unchecked \cup {d \in Stored(deals) : deals[d].stage = s}
          /\ UNCHANGED <<deals, moves, leads, accounts>>
      BY <1>9 DEF UpdateStage
    <2>2. row \in StageRow
      BY DashboardAssumption
    <2>3. \A x \in Stage : x # s => (x \in ColdOrLost' <=> x \in ColdOrLost)
      BY <1>0, <2>1 DEF ColdOrLost, DashboardTypeOK
    <2>4. DealsInv'
      <3>1. ASSUME NEW d \in Stored(deals), d \notin unchecked'
            PROVE  CheckedDeal(d)'
        <4>1. CheckedDeal(d) /\ deals[d].stage # s /\ deals[d].stage \in Stage
          BY <1>0, <2>1, <3>1 DEF DealsInv, Stored, DashboardTypeOK, DealRow
        <4> QED
          BY <2>1, <2>3, <4>1 DEF CheckedDeal
      <3> QED
        BY <1>0, <2>1, <3>1 DEF DealsInv, Stored
    <2>5. MovesInv'
      BY <1>0, <1>1, <2>1, MovesLater
    <2>6. DashboardTypeOK'
      BY <1>0, <1>1, <2>1, <2>2 DEF DashboardTypeOK, Stored
    <2> QED
      BY <1>0, <2>1, <2>4, <2>5, <2>6 DEF DashboardInv, Stored
  <1>10. ASSUME NEW u \in User, NEW d \in Deal, DropDeal(u, d) PROVE DashboardInv'
    <2>1. /\ Pass /\ deals' = [deals EXCEPT ![d] = Null]
          /\ moves' = {m \in moves : m.deal # d}
          /\ UNCHANGED <<stages, leads, accounts, unchecked>>
      BY <1>10 DEF DropDeal
    <2>2. deals' \in [Deal -> DealRow \cup {Null}]
          /\ \A c \in Deal : deals'[c] = IF c = d THEN Null ELSE deals[c]
      BY <1>0, <2>1 DEF DashboardTypeOK
    <2>3. Stored(deals)' \subseteq Stored(deals)
          /\ \A c \in Stored(deals)' : c # d /\ deals'[c] = deals[c]
      BY <1>0, <2>2 DEF Stored, DashboardTypeOK
    <2>4. DealsInv'
      <3>1. IsFiniteSet(Stored(deals)')
        BY <1>0, <2>3, FS_Subset DEF DealsInv
      <3>2. ASSUME NEW c \in Stored(deals)', c \notin unchecked'
            PROVE  CheckedDeal(c)'
        <4>1. c \in Stored(deals) \ unchecked /\ c # d /\ deals'[c] = deals[c]
          BY <2>1, <2>3, <3>2
        <4>2. CheckedDeal(c)
          BY <1>0, <4>1 DEF DealsInv
        <4>3. PICK m \in moves : m.deal = c /\ m.to = deals[c].stage
          BY <4>2 DEF CheckedDeal
        <4>4. m \in moves'
          BY <2>1, <4>1, <4>3
        <4>5. ColdOrLost' = ColdOrLost
          BY <2>1 DEF ColdOrLost
        <4> QED
          BY <4>1, <4>2, <4>3, <4>4, <4>5 DEF CheckedDeal
      <3> QED
        BY <3>1, <3>2 DEF DealsInv
    <2>5. MovesInv' /\ moves' \subseteq moves
      BY <1>0, <1>1, <2>1, MovesLater
    <2>6. DashboardTypeOK'
      BY <1>0, <1>1, <2>1, <2>2, <2>5 DEF DashboardTypeOK
    <2> QED
      BY <1>0, <2>1, <2>4, <2>5, <2>6 DEF DashboardInv, Stored
  <1>11. ASSUME NEW l \in Lead, NEW row \in LeadRow \cup {Null},
                leads' = [leads EXCEPT ![l] = row]
         PROVE  leads' \in [Lead -> LeadRow \cup {Null}] /\ IsFiniteSet(Stored(leads)')
    <2>1. leads' \in [Lead -> LeadRow \cup {Null}] /\ Stored(leads') \subseteq Stored(leads) \cup {l}
      BY <1>0, <1>11 DEF DashboardTypeOK, Stored
    <2>2. IsFiniteSet(Stored(leads) \cup {l})
      BY <1>0, FS_AddElement
    <2>3. IsFiniteSet(Stored(leads'))
      BY <2>1, <2>2, FS_Subset
    <2> QED
      BY <2>1, <2>3 DEF Stored
  <1>12. ASSUME NEW l \in Lead, NEW o \in User \cup {Null}, EnterLead(l, o) PROVE DashboardInv'
    <2>1. PICK row : row = [owner |-> o, at |-> time', converted |-> FALSE]
      OBVIOUS
    <2>2. row \in LeadRow
      BY <1>1, <1>12, <2>1 DEF EnterLead, LeadRow
    <2>3. leads' \in [Lead -> LeadRow \cup {Null}] /\ IsFiniteSet(Stored(leads)')
      BY <1>11, <1>12, <2>1, <2>2 DEF EnterLead
    <2> QED
      BY <1>0, <1>1, <1>12, <2>3, DealsLeft DEF EnterLead, DashboardTypeOK
  <1>13. ASSUME NEW u \in User, NEW l \in Lead, MayOpenLead(u, l),
                leads' = [leads EXCEPT ![l].converted = TRUE]
         PROVE  leads' \in [Lead -> LeadRow \cup {Null}] /\ IsFiniteSet(Stored(leads)')
    <2>1. leads[l] \in LeadRow
      BY <1>0, <1>13 DEF MayOpenLead, Stored, DashboardTypeOK
    <2>2. PICK row : row = [leads[l] EXCEPT !.converted = TRUE]
      OBVIOUS
    <2>3. row \in LeadRow /\ leads' = [leads EXCEPT ![l] = row]
      BY <1>13, <2>1, <2>2 DEF LeadRow
    <2> QED
      BY <1>11, <2>3
  <1>14. ASSUME NEW t \in Time, NEW l \in Lead
         PROVE  [lead |-> l, at |-> t] \in AccountRow
    BY DEF AccountRow
  <1>15. ASSUME NEW u \in User, NEW l \in Lead, ConvertToAccount(u, l) PROVE DashboardInv'
    <2>1. PICK new : new = [lead |-> l, at |-> time']
      OBVIOUS
    <2>2. /\ Pass /\ accounts' = accounts \cup {new}
          /\ UNCHANGED <<stages, deals, moves, unchecked>>
      BY <1>15, <2>1 DEF ConvertToAccount
    <2>3. new \in AccountRow
      BY <1>1, <2>1, <2>2 DEF AccountRow
    <2>4. accounts' \subseteq AccountRow /\ IsFiniteSet(accounts')
      BY <1>0, <2>2, <2>3, FS_AddElement DEF DashboardTypeOK
    <2>5. leads' \in [Lead -> LeadRow \cup {Null}] /\ IsFiniteSet(Stored(leads)')
      BY <1>13, <1>15 DEF ConvertToAccount
    <2> QED
      BY <1>1, <2>2, <2>4, <2>5, DealsLeft
  <1>16. ASSUME NEW u \in User, NEW v \in User, NEW l \in Lead, ConvertTwice(u, v, l)
         PROVE  DashboardInv'
    <2>1. PICK t \in Time, o \in Time : t = time + 1 /\ o = time + 2
      BY <1>0, <1>16, DashboardAssumption DEF ConvertTwice, Time
    <2>2. PICK new, other : new = [lead |-> l, at |-> t] /\ other = [lead |-> l, at |-> o]
      OBVIOUS
    <2>3. /\ time' = time + 2 /\ accounts' = (accounts \cup {new}) \cup {other}
          /\ UNCHANGED <<stages, deals, moves, unchecked>>
      BY <1>16, <2>1, <2>2 DEF ConvertTwice
    <2>4. IsFiniteSet(accounts')
      BY <1>0, <2>3, FS_AddElement
    <2>5. accounts' \subseteq AccountRow
      BY <1>0, <1>14, <2>2, <2>3 DEF DashboardTypeOK
    <2>6. leads' \in [Lead -> LeadRow \cup {Null}] /\ IsFiniteSet(Stored(leads)')
      BY <1>13, <1>16 DEF ConvertTwice
    <2>7. time' \in Time /\ time <= time'
      BY <1>0, <2>1, <2>3
    <2> QED
      BY <2>3, <2>4, <2>5, <2>6, <2>7, DealsLeft
  <1>17. ASSUME NEW a \in accounts, DropAccount(a) PROVE DashboardInv'
    <2>1. accounts' \subseteq accounts
      BY <1>17 DEF DropAccount
    <2>2. accounts' \subseteq AccountRow /\ IsFiniteSet(accounts')
      BY <1>0, <2>1, FS_Subset DEF DashboardTypeOK
    <2> QED
      BY <1>0, <1>1, <1>17, <2>2, DealsLeft DEF DropAccount, DashboardTypeOK, Stored
  <1>18. ASSUME NEW u \in User, NEW l \in Lead, DropLead(u, l) PROVE DashboardInv'
    <2>1. leads' \in [Lead -> LeadRow \cup {Null}] /\ IsFiniteSet(Stored(leads)')
      BY <1>11, <1>18 DEF DropLead
    <2> QED
      BY <1>0, <1>1, <1>18, <2>1, DealsLeft DEF DropLead, DashboardTypeOK
  <1> QED
    BY <1>2, <1>3, <1>4, <1>6, <1>7, <1>8, <1>9, <1>10, <1>12, <1>15, <1>16, <1>17, <1>18
       DEF DashboardNext

(* A deal counts where its one latest move into its stage does, and a deal *)
(* that every request checked has one.                                     *)
LEMMA OneCounted ==
  ASSUME DashboardInv, NEW d \in Stored(deals)
  PROVE  /\ d \in Deal /\ deals[d] \in DealRow
         /\ \/ EntriesCounted(d) = {}
            \/ \E m \in moves : EntriesCounted(d) = {m} /\ m.deal = d /\ m.at \in Nat
         /\ d \notin unchecked => EntriesCounted(d) # {}
  <1> DEFINE entries == {m \in moves : m.deal = d /\ m.to = deals[d].stage}
  <1>1. DashboardTypeOK /\ MovesInv /\ DealsInv
    BY DEF DashboardInv
  <1>2. d \in Deal /\ deals[d] \in DealRow
    BY <1>1 DEF DashboardTypeOK, Stored
  <1>3. \A m \in moves : m.at \in Nat
    BY <1>1, DashboardAssumption DEF DashboardTypeOK, MoveRow, Time
  <1>4. entries \subseteq moves /\ (d \notin unchecked => entries # {})
    BY <1>1 DEF DealsInv, CheckedDeal
  <1>5. Timed(entries)
    BY <1>1, <1>3, <1>4, FS_Subset DEF MovesInv, Timed
  <1>6. EntriesCounted(d) = {m \in entries : \A n \in entries : n.at <= m.at}
    BY DEF EntriesCounted
  <1>7. \A m \in entries : m.deal = d
    OBVIOUS
  <1> HIDE DEF entries
  <1>8. CASE entries = {}
    BY <1>2, <1>4, <1>6, <1>8
  <1>9. CASE entries # {}
    <2>1. PICK m \in entries : \A n \in entries : m.at >= n.at
      BY <1>5, <1>9, HasNewest
    <2>2. m \in EntriesCounted(d)
      BY <1>3, <1>4, <1>6, <2>1
    <2>3. ASSUME NEW n \in EntriesCounted(d) PROVE n = m
      <3>1. n \in entries /\ n.at = m.at
        BY <1>3, <1>4, <1>6, <2>1
      <3> QED
        BY <1>1, <1>4, <3>1 DEF MovesInv
    <2>4. EntriesCounted(d) = {m}
      BY <2>2, <2>3
    <2> QED
      BY <1>2, <1>3, <1>4, <1>7, <2>4
  <1> QED
    BY <1>8, <1>9

LEMMA ListsFollow == DashboardInv => ListsMatchAccess
  <1> SUFFICES ASSUME DashboardInv, NEW u \in User
               PROVE  LET openable == {d \in Deal : MayOpenDeal(u, d)}
                      IN  /\ ListDeals(u, "all") = openable
                          /\ ListDeals(u, "open") \cup ListDeals(u, "closed") = openable
                          /\ ListDeals(u, "open") \cap ListDeals(u, "closed") = {}
                          /\ UNION {Board(u)[s] : s \in DOMAIN Board(u)} = openable
                          /\ \A s \in DOMAIN Board(u) : Board(u)[s] # {}
                          /\ ListLeads(u) =
                               {l \in Lead : MayOpenLead(u, l) /\ ~leads[l].converted}
    BY DEF ListsMatchAccess
  <1> DEFINE openable == {d \in Deal : MayOpenDeal(u, d)}
  <1>1. \A d \in Stored(deals) : d \in Deal
    BY OneCounted
  <1>3. \A d \in Stored(deals) :
          ((IF u \in DealsViewAll THEN Null ELSE u) # Null =>
             deals[d].owner = (IF u \in DealsViewAll THEN Null ELSE u))
          <=> (u \in DealsViewAll \/ deals[d].owner = u)
    BY DashboardAssumption
  <1>4. openable = {d \in Stored(deals) : u \in DealsViewAll \/ deals[d].owner = u}
    BY <1>1 DEF MayOpenDeal
  <1> HIDE DEF openable
  <1>5. ASSUME NEW d \in Stored(deals)
        PROVE  DealFilter(u, Null, d, "all") <=> d \in openable
    <2>1. d \in openable <=> u \in DealsViewAll \/ deals[d].owner = u
      BY <1>4
    <2> QED
      BY <1>3, <2>1 DEF DealFilter
  <1>6. ASSUME NEW d \in Stored(deals)
        PROVE  (DealFilter(u, Null, d, "open") \/ DealFilter(u, Null, d, "closed"))
                 <=> d \in openable
    <2>1. d \in openable <=> u \in DealsViewAll \/ deals[d].owner = u
      BY <1>4
    <2>2. CASE deals[d].stage \in Terminal
      BY <1>3, <2>1, <2>2 DEF DealFilter
    <2>3. CASE deals[d].stage \notin Terminal
      BY <1>3, <2>1, <2>3 DEF DealFilter
    <2> QED
      BY <2>2, <2>3
  <1>7. openable \subseteq Stored(deals)
    BY <1>4
  <1>8. ListDeals(u, "all") = openable
    BY <1>5, <1>7 DEF ListDeals
  <1>9. ListDeals(u, "open") \cup ListDeals(u, "closed") = openable
        /\ ListDeals(u, "open") \cap ListDeals(u, "closed") = {}
    BY <1>6, <1>7 DEF ListDeals, DealFilter
  <1>10. /\ UNION {Board(u)[s] : s \in DOMAIN Board(u)} = openable
         /\ \A s \in DOMAIN Board(u) : Board(u)[s] # {}
    <2>1. {d \in Stored(deals) : DealFilter(u, Null, d, "all")} = openable
      BY <1>5, <1>7
    <2>2. Board(u) = [s \in {deals[d].stage : d \in openable} |->
                        {d \in openable : deals[d].stage = s}]
      BY <2>1 DEF Board
    <2>3. DOMAIN Board(u) = {deals[d].stage : d \in openable}
          /\ \A s \in DOMAIN Board(u) : Board(u)[s] = {d \in openable : deals[d].stage = s}
      BY <2>2
    <2> HIDE DEF Board
    <2>4. \A d \in openable : d \in Board(u)[deals[d].stage]
      BY <2>3
    <2> QED
      BY <2>3, <2>4
  <1>11. ListLeads(u) = {l \in Lead : MayOpenLead(u, l) /\ ~leads[l].converted}
    <2>1. DOMAIN leads = Lead
      BY DEF DashboardInv, DashboardTypeOK
    <2> QED
      BY <2>1 DEF ListLeads, MayOpenLead, Stored
  <1> QED
    BY <1>8, <1>9, <1>10, <1>11 DEF openable

(* The list of deals, its open and closed halves, the columns of the board *)
(* and the list of leads hold what their reader may open, and nothing      *)
(* else: for any users, rights, deals, stages and history of moves,        *)
(* hand-overs and deletions.                                               *)
THEOREM ListsAlwaysMatchAccess == DashboardSpec => []ListsMatchAccess
  BY DashboardStart, DashboardStep, ListsFollow, PTL DEF DashboardSpec

(* A chart with a bar for each group of rows adds up to the rows that are  *)
(* in a group it shows.                                                    *)
LEMMA Bars ==
  ASSUME NEW A, IsFiniteSet(A), NEW g, NEW D, NEW f, DOMAIN f = D,
         \A b \in D : f[b] = Cardinality({a \in A : g[a] = b})
  PROVE  Total(f) = Cardinality({a \in A : g[a] \in D})
  <1> DEFINE group(b) == {a \in A : g[a] = b}
             B == {a \in A : g[a] \in D}
             U == UNION {{x} \X (1..f[x]) : x \in DOMAIN f}
             h == [b \in D |-> CHOOSE k : k \in Bijection(group(b), 1..f[b])]
             e == [a \in B |-> <<g[a], h[g[a]][a]>>]
  <1>1. IsFiniteSet(B)
    <2>1. B \subseteq A
      OBVIOUS
    <2> QED
      BY <2>1, FS_Subset
  <1>2. ASSUME NEW b \in D PROVE h[b] \in Bijection(group(b), 1..f[b])
    <2>1. group(b) \subseteq A /\ f[b] = Cardinality(group(b))
      OBVIOUS
    <2> HIDE DEF group
    <2>2. IsFiniteSet(group(b)) /\ f[b] \in Nat
      BY <2>1, FS_Subset, FS_CardinalityType
    <2>3. IsFiniteSet(1..f[b]) /\ Cardinality(1..f[b]) = f[b]
      BY <2>2, FS_Interval
    <2>4. \E k : k \in Bijection(group(b), 1..f[b])
      BY <2>1, <2>2, <2>3, FS_SameCardinalityBij DEF ExistsBijection
    <2> QED
      BY <2>4
  <1> HIDE DEF h
  <1>3. ASSUME NEW b \in D
        PROVE  /\ \A a \in group(b) : h[b][a] \in 1..f[b]
               /\ \A a, c \in group(b) : h[b][a] = h[b][c] => a = c
               /\ \A k \in 1..f[b] : \E a \in group(b) : h[b][a] = k
    <2>1. PICK k : k = h[b]
      OBVIOUS
    <2>2. k \in Bijection(group(b), 1..f[b])
      BY <1>2, <2>1
    <2> HIDE DEF group
    <2>3. /\ k \in [group(b) -> 1..f[b]]
          /\ \A a, c \in group(b) : k[a] = k[c] => a = c
          /\ \A n \in 1..f[b] : \E a \in group(b) : k[a] = n
      BY <2>2 DEF Bijection, Injection, Surjection, IsInjective
    <2> QED
      BY <2>1, <2>3
  <1>4. \A a \in B : g[a] \in D /\ a \in group(g[a])
    OBVIOUS
  <1>5. \A b \in D : \A a \in group(b) : a \in B /\ g[a] = b
    OBVIOUS
  <1> HIDE DEF group
  <1>6. \A a \in B : e[a] = <<g[a], h[g[a]][a]>>
    OBVIOUS
  <1>7. \A b \in D : \A k \in 1..f[b] : <<b, k>> \in U
    OBVIOUS
  <1>8. \A x \in U : \E b \in D : \E k \in 1..f[b] : x = <<b, k>>
    OBVIOUS
  <1>9. e \in [B -> U]
    <2>1. \A a \in B : e[a] \in U
      BY <1>3, <1>4, <1>6, <1>7
    <2> QED
      BY <2>1
  <1> HIDE DEF e, B, U
  <1>10. \A a, c \in B : e[a] = e[c] => a = c
    BY <1>3, <1>4, <1>6
  <1>11. \A x \in U : \E a \in B : e[a] = x
    BY <1>3, <1>5, <1>6, <1>8
  <1>12. e \in Bijection(B, U)
    BY <1>9, <1>10, <1>11 DEF Bijection, Injection, Surjection, IsInjective
  <1>13. Cardinality(U) = Cardinality(B)
    BY <1>1, <1>12, FS_Bijection DEF ExistsBijection
  <1> QED
    BY <1>13 DEF Total, U, B

(* Two periods that meet: a deal counts in one of them, never in both.     *)
LEMMA PeriodsMeet ==
  ASSUME DashboardInv, NEW lo \in Int, NEW mid \in Int, NEW hi \in Int, lo <= mid, mid <= hi
  PROVE  /\ Entered(mid, hi) \cap Entered(lo, mid - 1) = {}
         /\ Entered(mid, hi) \cup Entered(lo, mid - 1) = Entered(lo, hi)
  <1>1. DayLength \in Nat \ {0}
    BY DashboardAssumption
  <1>2. /\ lo * DayLength \in Int /\ mid * DayLength \in Int /\ (hi + 1) * DayLength \in Int
        /\ lo * DayLength <= mid * DayLength
        /\ mid * DayLength <= (hi + 1) * DayLength
        /\ (mid - 1 + 1) * DayLength = mid * DayLength
    <2>1. /\ (mid - lo) * DayLength \in Nat /\ (hi + 1 - mid) * DayLength \in Nat
          /\ mid * DayLength = lo * DayLength + (mid - lo) * DayLength
          /\ (hi + 1) * DayLength = mid * DayLength + (hi + 1 - mid) * DayLength
      BY <1>1
    <2> QED
      BY <1>1, <2>1
  <1>3. \A t \in Nat :
          /\ ~(Within(t, mid, hi) /\ Within(t, lo, mid - 1))
          /\ Within(t, lo, hi) <=> (Within(t, mid, hi) \/ Within(t, lo, mid - 1))
    BY <1>2 DEF Within
  <1>4. ASSUME NEW d \in Stored(deals)
        PROVE  /\ ~(EnteredIn(d, mid, hi) /\ EnteredIn(d, lo, mid - 1))
               /\ EnteredIn(d, lo, hi) <=> (EnteredIn(d, mid, hi) \/ EnteredIn(d, lo, mid - 1))
    <2>1. CASE EntriesCounted(d) = {}
      BY <2>1 DEF EnteredIn
    <2>2. CASE EntriesCounted(d) # {}
      <3>1. PICK m \in moves : EntriesCounted(d) = {m} /\ m.at \in Nat
        BY <2>2, OneCounted
      <3> QED
        BY <1>3, <3>1 DEF EnteredIn
    <2> QED
      BY <2>1, <2>2
  <1> QED
    BY <1>4 DEF Entered

(* A lost deal has one row at most, and if every request checked it, one   *)
(* in the period of its latest move into its stage.                        *)
LEMMA LostOnce ==
  ASSUME DashboardInv, NEW lo, NEW hi
  PROVE  /\ \A r, q \in DropOff(lo, hi) : r.deal = q.deal => r = q
         /\ \A d \in Stored(deals) \ unchecked :
              (\E r \in DropOff(lo, hi) : r.deal = d)
                <=> d \in Entered(lo, hi) /\ deals[d].stage \in ColdOrLost
  <1> DEFINE lost == {d \in Stored(deals) : deals[d].cold /\ deals[d].stage \in ColdOrLost}
  <1>1. \A d \in Stored(deals) : \E row : LostRows(d) = {row} /\ row.deal = d
    <2> SUFFICES ASSUME NEW d \in Stored(deals)
                 PROVE  \E row : LostRows(d) = {row} /\ row.deal = d
      OBVIOUS
    <2>1. CASE EntriesCounted(d) = {}
      <3>1. PICK row : row = [deal |-> d, lostFrom |-> Null, at |-> deals[d].at]
        OBVIOUS
      <3>2. LostRows(d) = {row} /\ row.deal = d
        BY <2>1, <3>1 DEF LostRows
      <3> QED
        BY <3>2
    <2>2. CASE EntriesCounted(d) # {}
      <3>1. PICK m \in moves : EntriesCounted(d) = {m}
        BY <2>2, OneCounted
      <3>2. PICK row : row = [deal |-> d, lostFrom |-> m.from, at |-> m.at]
        OBVIOUS
      <3>3. LostRows(d) = {row} /\ row.deal = d
        BY <2>2, <3>1, <3>2 DEF LostRows
      <3> QED
        BY <3>3
    <2> QED
      BY <2>1, <2>2
  <1>2. \A r \in DropOff(lo, hi) : \E d \in lost : r \in LostRows(d) /\ Within(r.at, lo, hi)
    BY DEF DropOff
  <1>3. \A d \in lost : \A r \in LostRows(d) : Within(r.at, lo, hi) => r \in DropOff(lo, hi)
    BY DEF DropOff
  <1>4. lost \subseteq Stored(deals)
    OBVIOUS
  <1>5. \A r, q \in DropOff(lo, hi) : r.deal = q.deal => r = q
    <2> HIDE DEF lost
    <2> QED
      BY <1>1, <1>2, <1>4
  <1>6. ASSUME NEW d \in Stored(deals) \ unchecked
        PROVE  (\E r \in DropOff(lo, hi) : r.deal = d)
                 <=> d \in Entered(lo, hi) /\ deals[d].stage \in ColdOrLost
    <2>1. PICK m \in moves : EntriesCounted(d) = {m}
      BY OneCounted
    <2>2. PICK row : row = [deal |-> d, lostFrom |-> m.from, at |-> m.at]
      OBVIOUS
    <2>3. LostRows(d) = {row} /\ row.deal = d /\ row.at = m.at
      BY <2>1, <2>2 DEF LostRows
    <2>4. d \in Entered(lo, hi) <=> Within(row.at, lo, hi)
      BY <2>1, <2>3 DEF Entered, EnteredIn
    <2>5. d \in lost <=> deals[d].stage \in ColdOrLost
      BY DEF DashboardInv, DealsInv, CheckedDeal
    <2> HIDE DEF lost
    <2>6. ASSUME NEW r \in DropOff(lo, hi), r.deal = d PROVE d \in lost /\ r = row
      BY <1>1, <1>2, <1>4, <2>3, <2>6
    <2>7. (\E r \in DropOff(lo, hi) : r.deal = d) <=> d \in lost /\ Within(row.at, lo, hi)
      BY <1>2, <1>3, <2>3, <2>6
    <2> QED
      BY <2>4, <2>5, <2>7
  <1> QED
    BY <1>5, <1>6

LEMMA TilesAgree ==
  ASSUME DashboardInv, NEW lo, NEW hi
  PROVE  LET funnel == Funnel(lo, hi)
         IN  /\ DealsInPipeline(lo, hi) = Total([s \in Stage \ Terminal |-> funnel[s]])
             /\ DealsClosed(lo, hi) = Total([s \in Won |-> funnel[s]])
             /\ DealsClosed(lo, hi) = Total(Leaderboard(lo, hi))
  <1> DEFINE funnel == Funnel(lo, hi)
             A == Entered(lo, hi)
             g == [d \in A |-> deals[d].stage]
             won == {d \in A : deals[d].stage \in Won}
  <1>1. /\ IsFiniteSet(A) /\ A \subseteq Stored(deals)
        /\ \A d \in Stored(deals) : d \in A <=> EnteredIn(d, lo, hi)
    <2>1. A \subseteq Stored(deals)
      BY DEF Entered
    <2> QED
      BY <2>1, FS_Subset DEF DashboardInv, DealsInv, Entered
  <1>2. \A d \in A : deals[d].stage \in Stage /\ g[d] = deals[d].stage
    <2>1. \A d \in Stored(deals) : deals[d].stage \in Stage
      BY OneCounted DEF DealRow
    <2> QED
      BY <1>1, <2>1
  <1>3. ASSUME NEW D \in SUBSET Stage
        PROVE  Total([s \in D |-> funnel[s]]) = Cardinality({d \in A : deals[d].stage \in D})
    <2> DEFINE f == [s \in D |-> funnel[s]]
    <2>1. \A s \in D : f[s] = Cardinality({d \in A : g[d] = s})
      <3>1. \A s \in D : {d \in A : deals[d].stage = s} = {d \in A : g[d] = s}
        BY <1>2
      <3>2. \A s \in D : f[s] = Cardinality({d \in A : deals[d].stage = s})
        BY DEF Funnel
      <3> QED
        BY <3>1, <3>2
    <2>2. DOMAIN f = D
      OBVIOUS
    <2>3. {d \in A : g[d] \in D} = {d \in A : deals[d].stage \in D}
      BY <1>2
    <2>4. Total([s \in D |-> funnel[s]]) = Total(f)
      OBVIOUS
    <2> HIDE DEF f, g, A
    <2>5. Total(f) = Cardinality({d \in A : g[d] \in D})
      BY <1>1, <2>1, <2>2, Bars
    <2> QED
      BY <2>3, <2>4, <2>5
  <1>4. DealsInPipeline(lo, hi) = Total([s \in Stage \ Terminal |-> funnel[s]])
    <2>1. {d \in A : deals[d].stage \in Stage \ Terminal}
            = {d \in Stored(deals) : deals[d].stage \notin Terminal /\ EnteredIn(d, lo, hi)}
      BY <1>1, <1>2
    <2> QED
      BY <1>3, <2>1 DEF DealsInPipeline
  <1>5. DealsClosed(lo, hi) = Cardinality(won)
    <2>1. won = {d \in Stored(deals) : deals[d].stage \in Won /\ EnteredIn(d, lo, hi)}
      BY <1>1
    <2> QED
      BY <2>1 DEF DealsClosed
  <1>6. Total([s \in Won |-> funnel[s]]) = Cardinality(won)
    <2>1. Won \in SUBSET Stage
      BY DEF Won
    <2> HIDE DEF funnel, A
    <2> QED
      BY <1>3, <2>1
  <1>7. Total(Leaderboard(lo, hi)) = Cardinality(won)
    <2> DEFINE D == {deals[d].owner : d \in won}
               owner == [d \in won |-> deals[d].owner]
               f == Leaderboard(lo, hi)
    <2>1. f = [o \in D |-> Cardinality({d \in won : deals[d].owner = o})]
      BY DEF Leaderboard
    <2>2. \A o \in D : {d \in won : deals[d].owner = o} = {d \in won : owner[d] = o}
      OBVIOUS
    <2>3. DOMAIN f = D /\ \A o \in D : f[o] = Cardinality({d \in won : owner[d] = o})
      BY <2>1, <2>2
    <2>4. {d \in won : owner[d] \in D} = won
      OBVIOUS
    <2>5. IsFiniteSet(won)
      <3>1. won \subseteq A
        OBVIOUS
      <3> QED
        BY <1>1, <3>1, FS_Subset
    <2> HIDE DEF f, D, owner, won
    <2>6. Total(f) = Cardinality({d \in won : owner[d] \in D})
      BY <2>3, <2>5, Bars
    <2> QED
      BY <2>4, <2>6 DEF f
  <1> QED
    BY <1>4, <1>5, <1>6, <1>7

LEMMA OverseersListAgrees ==
  ASSUME DashboardInv, NEW lo, NEW hi, NEW u \in DealsViewAll
  PROVE  /\ Cardinality(ListDealsIn(u, "all", lo, hi)) = Total(Distribution(lo, hi))
         /\ Cardinality(ListDealsIn(u, "open", lo, hi)) = DealsInPipeline(lo, hi)
  <1> DEFINE A == Entered(lo, hi)
             D == Tier \cup {Null}
             g == [d \in A |-> TierOf[d]]
             f == Distribution(lo, hi)
  <1>1. \A d \in Stored(deals) :
          /\ DealFilter(u, Null, d, "all")
          /\ DealFilter(u, Null, d, "open") <=> deals[d].stage \notin Terminal
    BY DEF DealFilter
  <1>2. ListDealsIn(u, "all", lo, hi) = A
    BY <1>1 DEF ListDealsIn, Entered
  <1>3. ListDealsIn(u, "open", lo, hi) =
          {d \in Stored(deals) : deals[d].stage \notin Terminal /\ EnteredIn(d, lo, hi)}
    BY <1>1 DEF ListDealsIn
  <1>4. A \subseteq Stored(deals) /\ IsFiniteSet(A)
    <2>1. A \subseteq Stored(deals)
      BY DEF Entered
    <2> QED
      BY <2>1, FS_Subset DEF DashboardInv, DealsInv
  <1>5. {d \in A : g[d] \in D} = A
    <2>1. \A d \in A : TierOf[d] \in D
      BY <1>4, OneCounted, DashboardAssumption
    <2> QED
      BY <2>1
  <1>6. DOMAIN f = D /\ \A t \in D : f[t] = Cardinality({d \in A : g[d] = t})
    <2>1. \A t \in D : {d \in A : TierOf[d] = t} = {d \in A : g[d] = t}
      OBVIOUS
    <2>2. f = [t \in D |-> Cardinality({d \in A : TierOf[d] = t})]
      BY DEF Distribution
    <2> QED
      BY <2>1, <2>2
  <1> HIDE DEF f, g, D, A
  <1>7. Total(f) = Cardinality({d \in A : g[d] \in D})
    BY <1>4, <1>6, Bars
  <1>8. Total(Distribution(lo, hi)) = Cardinality(A)
    BY <1>5, <1>7 DEF f
  <1> QED
    BY <1>2, <1>3, <1>8 DEF DealsInPipeline

LEMMA TrendAgrees ==
  ASSUME DashboardInv, NEW lo, NEW hi, NEW days
  PROVE  LET trend == Trend(lo, hi, days)
         IN  /\ Total([b \in DOMAIN trend |-> trend[b].created]) = LeadsGenerated(lo, hi)
             /\ Total([b \in DOMAIN trend |-> trend[b].converted]) = LeadsToAccounts(lo, hi)
  <1> DEFINE bucket(t) == Day(t) \div days
             made == {l \in Stored(leads) : Within(leads[l].at, lo, hi)}
             turned == {a \in accounts : Within(a.at, lo, hi)}
             g == [l \in made |-> bucket(leads[l].at)]
             h == [a \in turned |-> bucket(a.at)]
             D == {bucket(leads[l].at) : l \in made} \cup {bucket(a.at) : a \in turned}
             trend == Trend(lo, hi, days)
             f == [b \in DOMAIN trend |-> trend[b].created]
             e == [b \in DOMAIN trend |-> trend[b].converted]
  <1>1. IsFiniteSet(made) /\ IsFiniteSet(turned)
    <2>1. made \subseteq Stored(leads) /\ turned \subseteq accounts
      OBVIOUS
    <2> QED
      BY <2>1, FS_Subset DEF DashboardInv
  <1>2. trend = [b \in D |->
                   [created |-> Cardinality({l \in made : bucket(leads[l].at) = b}),
                    converted |-> Cardinality({a \in turned : bucket(a.at) = b})]]
    BY DEF Trend
  <1> HIDE DEF trend, made, turned
  <1>3. {l \in made : g[l] \in D} = made
    <2> HIDE DEF bucket
    <2> QED
      OBVIOUS
  <1>4. {a \in turned : h[a] \in D} = turned
    <2> HIDE DEF bucket
    <2> QED
      OBVIOUS
  <1>5. \A b : /\ {l \in made : bucket(leads[l].at) = b} = {l \in made : g[l] = b}
               /\ {a \in turned : bucket(a.at) = b} = {a \in turned : h[a] = b}
    <2> HIDE DEF bucket
    <2> QED
      OBVIOUS
  <1>6. /\ DOMAIN f = D /\ DOMAIN e = D
        /\ \A b \in D : f[b] = Cardinality({l \in made : g[l] = b})
        /\ \A b \in D : e[b] = Cardinality({a \in turned : h[a] = b})
    <2> HIDE DEF bucket, D, g, h
    <2> QED
      BY <1>2, <1>5
  <1>7. Total(f) = Cardinality(made)
    <2> HIDE DEF f, D, g
    <2>1. Total(f) = Cardinality({l \in made : g[l] \in D})
      BY <1>1, <1>6, Bars
    <2> QED
      BY <1>3, <2>1
  <1>8. Total(e) = Cardinality(turned)
    <2> HIDE DEF e, D, h
    <2>1. Total(e) = Cardinality({a \in turned : h[a] \in D})
      BY <1>1, <1>6, Bars
    <2> QED
      BY <1>4, <2>1
  <1>9. LeadsGenerated(lo, hi) = Cardinality(made)
        /\ LeadsToAccounts(lo, hi) = Cardinality(turned)
    BY DEF LeadsGenerated, LeadsToAccounts, made, turned
  <1> QED
    BY <1>7, <1>8, <1>9 DEF trend

LEMMA WidgetsFollow == DashboardInv => WidgetsAgree
  <1> SUFFICES ASSUME DashboardInv, NEW lo \in Days, NEW hi \in Days, lo <= hi
               PROVE  LET funnel == Funnel(lo, hi)
                          p == PeriodBounds(lo, hi)
                          lost == DropOff(lo, hi)
                      IN  /\ DealsInPipeline(lo, hi) = Total([s \in Stage \ Terminal |-> funnel[s]])
                          /\ DealsClosed(lo, hi) = Total([s \in Won |-> funnel[s]])
                          /\ DealsClosed(lo, hi) = Total(Leaderboard(lo, hi))
                          /\ \A r, q \in lost : r.deal = q.deal => r = q
                          /\ \A d \in Stored(deals) \ unchecked :
                               (\E r \in lost : r.deal = d)
                                 <=> d \in Entered(lo, hi) /\ deals[d].stage \in ColdOrLost
                          /\ \A u \in DealsViewAll :
                               /\ Cardinality(ListDealsIn(u, "all", lo, hi)) = Total(Distribution(lo, hi))
                               /\ Cardinality(ListDealsIn(u, "open", lo, hi)) = DealsInPipeline(lo, hi)
                          /\ \A days \in 1..2 :
                               LET trend == Trend(lo, hi, days)
                               IN  /\ Total([b \in DOMAIN trend |-> trend[b].created])
                                        = LeadsGenerated(lo, hi)
                                   /\ Total([b \in DOMAIN trend |-> trend[b].converted])
                                        = LeadsToAccounts(lo, hi)
                          /\ Entered(p.lo, p.hi) \cap Entered(p.prevLo, p.prevHi) = {}
                          /\ Entered(p.lo, p.hi) \cup Entered(p.prevLo, p.prevHi)
                               = Entered(p.prevLo, p.hi)
    BY DEF WidgetsAgree
  <1> DEFINE p == PeriodBounds(lo, hi)
  <1>1. lo \in Int /\ hi \in Int
    BY DEF Days
  <1>2. PICK before \in Int : before = lo - 1 - (hi - lo)
    BY <1>1
  <1>3. /\ before <= lo
        /\ p.lo = lo /\ p.hi = hi /\ p.prevHi = lo - 1 /\ p.prevLo = before
    BY <1>1, <1>2 DEF PeriodBounds
  <1> HIDE DEF p
  <1>4. /\ Entered(p.lo, p.hi) \cap Entered(p.prevLo, p.prevHi) = {}
        /\ Entered(p.lo, p.hi) \cup Entered(p.prevLo, p.prevHi) = Entered(p.prevLo, p.hi)
    <2>1. /\ Entered(lo, hi) \cap Entered(before, lo - 1) = {}
          /\ Entered(lo, hi) \cup Entered(before, lo - 1) = Entered(before, hi)
      BY <1>1, <1>2, <1>3, PeriodsMeet
    <2> QED
      BY <1>3, <2>1
  <1>5. LET funnel == Funnel(lo, hi)
        IN  /\ DealsInPipeline(lo, hi) = Total([s \in Stage \ Terminal |-> funnel[s]])
            /\ DealsClosed(lo, hi) = Total([s \in Won |-> funnel[s]])
            /\ DealsClosed(lo, hi) = Total(Leaderboard(lo, hi))
    BY TilesAgree
  <1>8. /\ \A r, q \in DropOff(lo, hi) : r.deal = q.deal => r = q
        /\ \A d \in Stored(deals) \ unchecked :
             (\E r \in DropOff(lo, hi) : r.deal = d)
               <=> d \in Entered(lo, hi) /\ deals[d].stage \in ColdOrLost
    BY LostOnce
  <1>6. \A u \in DealsViewAll :
          /\ Cardinality(ListDealsIn(u, "all", lo, hi)) = Total(Distribution(lo, hi))
          /\ Cardinality(ListDealsIn(u, "open", lo, hi)) = DealsInPipeline(lo, hi)
    BY OverseersListAgrees
  <1>7. \A days \in 1..2 :
          LET trend == Trend(lo, hi, days)
          IN  /\ Total([b \in DOMAIN trend |-> trend[b].created]) = LeadsGenerated(lo, hi)
              /\ Total([b \in DOMAIN trend |-> trend[b].converted]) = LeadsToAccounts(lo, hi)
    BY TrendAgrees
  <1> QED
    BY <1>4, <1>5, <1>6, <1>7, <1>8, Zenon DEF p

(* All widgets of the dashboard count the same deals and leads, in every   *)
(* period, and a deal counts in one of two periods that meet and not in    *)
(* both: for any users, deals, stages, tiers and history, the patches of   *)
(* deals and moves and the edits of stages included.  The drop-off report  *)
(* lists a lost deal once at most, and exactly when the funnel counts it,  *)
(* unless a request without the cold-reason check wrote the deal or its    *)
(* history, or edited its stage.                                           *)
THEOREM WidgetsAlwaysAgree == DashboardSpec => []WidgetsAgree
  BY DashboardStart, DashboardStep, WidgetsFollow, PTL DEF DashboardSpec

-----------------------------------------------------------------------------
(* The score of a deal.                                                    *)

LEMMA ScoringStart == ScoringInit => ScoringTypeOK
  BY ScoringAssumption DEF ScoringInit, ScoringTypeOK

LEMMA ScoringStep == ScoringTypeOK /\ [ScoringNext]_scoreVars => ScoringTypeOK'
  <1> SUFFICES ASSUME ScoringTypeOK, [ScoringNext]_scoreVars PROVE ScoringTypeOK'
    OBVIOUS
  <1>1. CASE UNCHANGED scoreVars
    BY <1>1 DEF scoreVars, ScoringTypeOK
  <1>2. ASSUME NEW sheet \in Sheets, EnterScores(sheet) PROVE ScoringTypeOK'
    <2>1. sheet \in [Dimension -> Level]
      BY ScoringAssumption
    <2>2. scores' \in Scores
      BY <1>2, <2>1 DEF EnterScores, Scores, Level
    <2> QED
      BY <1>2, <2>2 DEF EnterScores, ScoringTypeOK
  <1>3. CASE ClearScores
    BY <1>3 DEF ClearScores, ScoringTypeOK
  <1>4. ASSUME NEW d \in Dimension, NEW gone \in SUBSET Level, Release(d, gone)
        PROVE  ScoringTypeOK'
    <2>1. releases' \in 0..MaxReleases
      BY <1>4, ScoringAssumption DEF Release, ScoringTypeOK
    <2>2. defined' \in [Dimension -> SUBSET Level]
      BY <1>4 DEF Release, ScoringTypeOK
    <2> QED
      BY <1>4, <2>1, <2>2 DEF Release, ScoringTypeOK
  <1> QED
    BY <1>1, <1>2, <1>3, <1>4 DEF ScoringNext

(* A sheet has at least a point for every level that is still defined.     *)
LEMMA PointsCounted ==
  ASSUME ScoringTypeOK, NEW sheet \in Scores
  PROVE  /\ IsFiniteSet(Points(sheet)) /\ TotalScore(sheet) = Cardinality(Points(sheet))
         /\ TotalScore(sheet) \in Nat
         /\ TotalScore(sheet) = 0 <=> \A d \in Dimension : sheet[d] \notin defined[d]
         /\ (\A d \in Dimension : sheet[d] \in defined[d]) => TotalScore(sheet) >= 8
  <1> DEFINE P == Points(sheet)
             counted == {x \in Dimension : sheet[x] \in defined[x]}
             ones == [d \in counted |-> <<d, 1>>]
             firsts == {<<d, 1>> : d \in counted}
  <1>1. \A d \in counted : sheet[d] \in 1..3
    BY DEF ScoringTypeOK, Level
  <1>2. IsFiniteSet(Dimension) /\ Cardinality(Dimension) = 8
    BY ScoringAssumption
  <1>3. IsFiniteSet(counted)
    BY <1>2, FS_Subset
  <1>4. P = {p \in counted \X (1..3) : p[2] <= sheet[p[1]]}
    BY <1>1 DEF Points
  <1>5. IsFiniteSet(P)
    <2>1. IsFiniteSet(counted \X (1..3))
      <3>1. IsFiniteSet(1..3)
        <4>1. 1 \in Int /\ 3 \in Int
          OBVIOUS
        <4> QED
          BY <4>1, FS_Interval
      <3> HIDE DEF counted
      <3> QED
        BY <1>3, <3>1, FS_Product
    <2> QED
      BY <1>4, <2>1, FS_Subset
  <1>6. firsts \subseteq P
    BY <1>1, <1>4
  <1>7. IsFiniteSet(firsts) /\ Cardinality(firsts) = Cardinality(counted)
    <2>1. ones \in [counted -> firsts] /\ firsts = {ones[d] : d \in counted}
      OBVIOUS
    <2>2. \A d, e \in counted : ones[d] = ones[e] => d = e
      OBVIOUS
    <2> HIDE DEF ones, firsts, counted
    <2>3. ones \in Bijection(counted, firsts)
      BY <2>1, <2>2 DEF Bijection, Injection, Surjection, IsInjective
    <2> QED
      BY <1>3, <2>3, FS_Bijection DEF ExistsBijection
  <1>8. sheet # Unscored
    BY ScoringAssumption
  <1>9. TotalScore(sheet) = Cardinality(P) /\ Cardinality(P) \in Nat
    BY <1>5, <1>8, FS_CardinalityType DEF TotalScore
  <1>10. Cardinality(P) >= Cardinality(counted) /\ Cardinality(counted) \in Nat
    BY <1>3, <1>5, <1>6, <1>7, FS_Subset, FS_CardinalityType
  <1>11. Cardinality(P) = 0 <=> counted = {}
    <2>1. counted = {} => P = {}
      BY <1>4
    <2>2. P = {} => counted = {}
      <3>1. \A d \in counted : <<d, 1>> \in P
        BY <1>6
      <3> HIDE DEF P, counted
      <3> QED
        BY <3>1
    <2>3. Cardinality(P) = 0 <=> P = {}
      <3> HIDE DEF P
      <3> QED
        BY <1>5, FS_EmptySet
    <2> QED
      BY <2>1, <2>2, <2>3
  <1>12. (\A d \in Dimension : sheet[d] \in defined[d]) => Cardinality(P) >= 8
    <2>1. (\A d \in Dimension : sheet[d] \in defined[d]) => counted = Dimension
      OBVIOUS
    <2> QED
      BY <1>2, <1>10, <2>1
  <1> QED
    BY <1>5, <1>9, <1>11, <1>12

(* The mode of a total: a number between 1 and 5, lower for a higher total. *)
LEMMA ModeOfTotal ==
  ASSUME NEW total \in Nat
  PROVE  /\ total >= 20 => ScoreSummary(total) = "A"
         /\ total >= 14 /\ total < 20 => ScoreSummary(total) = "B"
         /\ total >= 8 /\ total < 14 => ScoreSummary(total) = "C"
         /\ total >= 1 /\ total < 8 => ScoreSummary(total) = "D"
         /\ total = 0 => ScoreSummary(total) = Unscored
  <1> DEFINE matches == {i \in DOMAIN Bands : total # Unscored /\ InBand(total, Bands[i])}
  <1>1. /\ DOMAIN Bands = 1..4
        /\ Bands[1].minimum = 20 /\ Bands[2].minimum = 14
        /\ Bands[3].minimum = 8 /\ Bands[4].minimum = 1
        /\ Bands[1].mode = "A" /\ Bands[2].mode = "B"
        /\ Bands[3].mode = "C" /\ Bands[4].mode = "D"
    BY DEF Bands
  <1>2. total # Unscored
    BY ScoringAssumption
  <1>3. /\ matches \subseteq 1..4
        /\ 1 \in matches <=> total >= 20
        /\ 2 \in matches <=> total >= 14
        /\ 3 \in matches <=> total >= 8
        /\ 4 \in matches <=> total >= 1
    BY <1>1, <1>2 DEF InBand
  <1>4. ScoreSummary(total) = IF matches = {} THEN Unscored ELSE Bands[Min(matches)].mode
    BY DEF ScoreSummary
  <1> HIDE DEF matches
  <1>5. ASSUME NEW k \in matches, \A i \in matches : k <= i
        PROVE  ScoreSummary(total) = Bands[k].mode
    <2>1. Min(matches) = k
      <3>1. \A x \in matches : (\A y \in matches : x <= y) => x = k
        BY <1>3, <1>5
      <3> QED
        BY <1>5, <3>1 DEF Min
    <2> QED
      BY <1>4, <2>1
  <1>6. CASE total >= 20
    BY <1>1, <1>3, <1>5, <1>6
  <1>7. CASE total >= 14 /\ total < 20
    BY <1>1, <1>3, <1>5, <1>7
  <1>8. CASE total >= 8 /\ total < 14
    <2>1. 3 \in matches /\ \A i \in matches : 3 <= i
      BY <1>3, <1>8
    <2>2. ScoreSummary(total) = "C"
      BY <1>1, <1>5, <2>1
    <2> QED
      BY <1>8, <2>2
  <1>9. CASE total >= 1 /\ total < 8
    <2>1. 4 \in matches /\ \A i \in matches : 4 <= i
      BY <1>3, <1>9
    <2>2. ScoreSummary(total) = "D"
      BY <1>1, <1>5, <2>1
    <2> QED
      BY <1>9, <2>2
  <1>10. CASE total = 0
    <2>1. matches = {}
      BY <1>3, <1>10
    <2> QED
      BY <1>4, <1>10, <2>1
  <1> QED
    BY <1>6, <1>7, <1>8, <1>9, <1>10

LEMMA FasterModes ==
  /\ Slowness("A") = 1 /\ Slowness("B") = 2 /\ Slowness("C") = 3 /\ Slowness("D") = 4
  /\ Slowness(Unscored) = 5
  <1>1. /\ DOMAIN Bands = 1..4
        /\ Bands[1].mode = "A" /\ Bands[2].mode = "B"
        /\ Bands[3].mode = "C" /\ Bands[4].mode = "D"
    BY DEF Bands
  <1>2. Unscored \notin {"A", "B", "C", "D"}
    BY ScoringAssumption
  <1>3. ASSUME NEW i \in 1..4 PROVE Slowness(Bands[i].mode) = i
    <2>1. \A j \in 1..4 : Bands[j].mode = Bands[i].mode => j = i
      BY <1>1
    <2>2. Bands[i].mode # Unscored
      BY <1>1, <1>2
    <2> QED
      BY <1>1, <2>1, <2>2 DEF Slowness
  <1> QED
    BY <1>1, <1>3 DEF Slowness

LEMMA MoreIsFaster ==
  ASSUME NEW a \in Nat, NEW b \in Nat, a <= b
  PROVE  Slowness(ScoreSummary(b)) <= Slowness(ScoreSummary(a))
  BY ModeOfTotal, FasterModes

LEMMA ModeFollows == ScoringTypeOK => ModeFollowsTotal
  <1> SUFFICES ASSUME ScoringTypeOK, scores # Unscored PROVE ModeFollowsTotal
    BY DEF ModeFollowsTotal
  <1> DEFINE total == TotalScore(scores)
             mode == ScoreSummary(total)
  <1>1. scores \in Scores
    BY DEF ScoringTypeOK
  <1>2. /\ total \in Nat
        /\ total = 0 <=> \A d \in Dimension : scores[d] \notin defined[d]
        /\ (\A d \in Dimension : scores[d] \in defined[d]) => total >= 8
    BY <1>1, PointsCounted
  <1> HIDE DEF total
  <1>3. (\A d \in Dimension : scores[d] \in defined[d]) => mode \in {"A", "B", "C"}
    BY <1>2, ModeOfTotal
  <1>4. mode = Unscored <=> \A d \in Dimension : scores[d] \notin defined[d]
    <2>1. mode = Unscored <=> total = 0
      BY <1>2, ModeOfTotal, ScoringAssumption
    <2> QED
      BY <1>2, <2>1
  <1>5. ASSUME NEW d \in Dimension, scores[d] + 1 \in defined[d]
        PROVE  Slowness(ScoreSummary(TotalScore([scores EXCEPT ![d] = @ + 1])))
                 <= Slowness(mode)
    <2> DEFINE raised == [scores EXCEPT ![d] = scores[d] + 1]
    <2>1. raised \in Scores /\ raised[d] \in 1..3
      BY <1>1, <1>5 DEF Scores, Level, ScoringTypeOK
    <2>2. \A x \in Dimension : raised[x] = IF x = d THEN scores[d] + 1 ELSE scores[x]
      BY <1>1 DEF Scores
    <2> HIDE DEF raised
    <2>3. Points(scores) \subseteq Points(raised)
      <3> SUFFICES ASSUME NEW x \in Dimension, scores[x] \in defined[x],
                          NEW p \in 1..scores[x]
                   PROVE  <<x, p>> \in Points(raised)
        BY DEF Points
      <3>1. raised[x] \in defined[x]
        BY <1>5, <2>2
      <3>2. p \in 1..raised[x]
        BY <1>1, <2>1, <2>2 DEF Scores, Level
      <3> QED
        BY <3>1, <3>2 DEF Points
    <2>4. /\ IsFiniteSet(Points(raised)) /\ TotalScore(raised) = Cardinality(Points(raised))
          /\ TotalScore(raised) \in Nat /\ total = Cardinality(Points(scores))
      BY <1>1, <2>1, PointsCounted DEF total
    <2>5. total <= TotalScore(raised)
      BY <2>3, <2>4, FS_Subset
    <2>6. Slowness(ScoreSummary(TotalScore(raised))) <= Slowness(mode)
      BY <1>2, <2>4, <2>5, MoreIsFaster
    <2> QED
      BY <2>6 DEF raised
  <1> QED
    BY <1>3, <1>4, <1>5 DEF ModeFollowsTotal, total

(* A deal scored in all eight dimensions answers at least in mode C, has a *)
(* mode as long as one of its levels is defined, and never answers slower  *)
(* for a higher level, whatever levels later versions drop.                *)
THEOREM ModeAlwaysFollowsTotal == ScoringSpec => []ModeFollowsTotal
  BY ScoringStart, ScoringStep, ModeFollows, PTL DEF ScoringSpec
=============================================================================

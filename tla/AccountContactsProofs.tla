----------------------- MODULE AccountContactsProofs -----------------------
(***************************************************************************)
(* Theorems about AccountContacts, for every set of sessions, users, deals *)
(* and requests and every bound on ids: types, what the unique indexes     *)
(* keep, what the screens show, and the refinement of PrimaryContact.      *)
(***************************************************************************)
EXTENDS AccountContacts, FiniteSetTheorems, WellFoundedInduction, TLAPS

-----------------------------------------------------------------------------
(* Ids.                                                                    *)

(* A set of bounded numbers has a largest one: the numbers above it are as *)
(* few as can be.                                                          *)
LEMMA HasMax ==
  ASSUME NEW n \in Nat, NEW T \in SUBSET (0..n), T # {}
  PROVE  \E m \in T : \A x \in T : x <= m
  <1> DEFINE Above(x) == {y \in T : y > x}
             family == {Above(x) : x \in T}
  <1> \A x \in T : x \in Int
    OBVIOUS
  <1>1. IsFiniteSet(0..n)
    BY FS_Interval
  <1>2. family \subseteq FiniteSubsetsOf(0..n) /\ family # {}
    <2>1. \A x \in T : Above(x) \in SUBSET (0..n)
      OBVIOUS
    <2>2. \A x \in T : IsFiniteSet(Above(x))
      BY <1>1, <2>1, FS_Subset
    <2> QED
      BY <2>1, <2>2 DEF FiniteSubsetsOf
  <1>3. PICK A \in family :
          \A B \in family : ~(<<B, A>> \in StrictSubsetOrdering(0..n))
    <2>1. IsWellFoundedOn(StrictSubsetOrdering(0..n), FiniteSubsetsOf(0..n))
      BY FS_StrictSubsetOrderingWellFounded
    <2> HIDE DEF family
    <2> QED
      BY <1>2, <2>1, WFMin
  <1>4. PICK m \in T : A = Above(m)
    BY <1>3
  <1>5. ASSUME NEW x \in T, x > m
        PROVE  FALSE
    <2>0. /\ m \in Int /\ x \in Int /\ m < x /\ ~(x < x)
          /\ \A y \in T : y > x => y > m
      BY <1>5
    <2>1. Above(x) \subseteq Above(m) /\ x \in Above(m) /\ x \notin Above(x)
      BY <1>5, <2>0
    <2>2. <<Above(x), Above(m)>> \in StrictSubsetOrdering(0..n)
      BY <2>1 DEF StrictSubsetOrdering
    <2> QED
      BY <1>3, <1>4, <2>2
  <1>6. \A x \in T : x <= m
    BY <1>5
  <1> QED
    BY <1>6

(* And a smallest one.                                                     *)
LEMMA HasMin ==
  ASSUME NEW n \in Nat, NEW T \in SUBSET (0..n), T # {}
  PROVE  \E m \in T : \A x \in T : m <= x
  <1> DEFINE U == {n - x : x \in T}
  <1>0. \A x \in T : x \in Int /\ n - x \in 0..n
    OBVIOUS
  <1>1. U \in SUBSET (0..n) /\ U # {}
    BY <1>0
  <1>2. PICK m \in U : \A x \in U : x <= m
    <2> HIDE DEF U
    <2> QED
      BY <1>1, HasMax
  <1>3. PICK k \in T : m = n - k
    OBVIOUS
  <1>4. \A x \in T : n - x <= n - k
    BY <1>2, <1>3
  <1>5. \A x \in T : k <= x
    BY <1>0, <1>4
  <1> QED
    BY <1>5

(* The latest id in use is one, and no id in use is later.                 *)
LEMMA LastLinkIsLast ==
  ASSUME TypeOK
  PROVE  /\ LastLink \in 0..MaxLinks
         /\ \A m \in LinkIds : m \in 0..MaxLinks /\ m <= LastLink
  <1>1. \A k \in links : k.id \in 1..MaxLinks
    BY DEF TypeOK, Link, LinkId
  <1>2. \A s \in Session : txs[s].phase = "checked" => txs[s].id \in 0..MaxLinks
    BY BoundsAssumption DEF TypeOK, Tx, Idle, LinkId
  <1>3. LinkIds \cup {0} \in SUBSET (0..MaxLinks)
    BY <1>1, <1>2, BoundsAssumption DEF LinkIds
  <1>4. \E n \in LinkIds \cup {0} : \A m \in LinkIds \cup {0} : m <= n
    BY <1>3, BoundsAssumption, HasMax
  <1>5. LastLink \in LinkIds \cup {0} /\ \A m \in LinkIds : m <= LastLink
    BY <1>4 DEF LastLink
  <1> QED
    BY <1>3, <1>5

(* Contacts get their ids in order.                                        *)
InOrder ==
  \E n \in 0..MaxContacts : \A c \in Contact : contacts[c] # Absent <=> c <= n

(* So the next id is the first one no contact has had.                     *)
LEMMA NextContactIsFree ==
  ASSUME InOrder
  PROVE  /\ NextContact \in 1..MaxContacts + 1
         /\ \A c \in Contact : contacts[c] # Absent <=> c < NextContact
  <1>1. PICK n \in 0..MaxContacts :
          \A c \in Contact : contacts[c] # Absent <=> c <= n
    BY DEF InOrder
  <1>2. {c \in Contact : contacts[c] # Absent} = 1..n
    BY <1>1, BoundsAssumption DEF Contact
  <1>3. Cardinality(1..n) = n
    BY <1>1, BoundsAssumption, FS_Interval
  <1>4. NextContact = n + 1
    BY <1>2, <1>3 DEF NextContact
  <1> QED
    BY <1>1, <1>4, BoundsAssumption DEF Contact

-----------------------------------------------------------------------------
(* Type correctness.                                                       *)

(* A request that is to insert a link took its id with the INSERT; the     *)
(* contacts of one that is to add some passed the checks.                  *)
ReadsChecked ==
  \A s \in Session : txs[s].phase = "checked" =>
    /\ txs[s].req.op = "link" /\ txs[s].flag = Absent => txs[s].id \in LinkId
    /\ txs[s].req.op = "account" => Addable(txs[s].req.contacts)

TypeInv == TypeOK /\ ReadsChecked /\ InOrder

LEMMA ActiveTx ==
  ASSUME TypeOK, NEW s \in Session, txs[s].phase # "idle"
  PROVE  /\ txs[s] \in Tx /\ txs[s].phase = "checked"
         /\ txs[s].req \in Request /\ txs[s].req.account \in Account
  <1>1. txs[s] \in Tx
    BY DEF TypeOK, Idle
  <1>2. txs[s].req \in Request
    BY <1>1, RequestAssumption DEF Tx
  <1> QED
    BY <1>1, <1>2 DEF Tx, Request

(* What a request that adds contacts to account a leaves: contacts that    *)
(* were not there, each with one link, of later ids.                       *)
AddsTo(a) ==
  LET new == links' \ links
  IN  /\ contacts' \in [Contact -> ContactRow \cup NoRow]
      /\ \A c \in Contact : contacts[c] # Absent => contacts'[c] = contacts[c]
      /\ InOrder'
      /\ links \subseteq links' /\ links' \subseteq Link
      /\ \A k \in new :
           /\ k.account = a /\ k.id > LastLink
           /\ contacts[k.contact] = Absent /\ contacts'[k.contact] \in ContactRow
           /\ k.primary => ~HasPrimary(a)
      /\ \A k, o \in new :
           k.id = o.id \/ k.contact = o.contact \/ (k.primary /\ o.primary) => k = o

LEMMA AddContactsAdds ==
  ASSUME TypeOK, InOrder, NEW a \in Account, NEW C \in Seq(Input),
         Addable(C), AddContacts(a, C)
  PROVE  AddsTo(a)
  <1> DEFINE first == NextContact - 1
             LinkAt(i) == [id |-> LastLink + i, contact |-> first + i, account |-> a,
                           primary |-> C[i].primary]
  <1>1. /\ first + Len(C) <= MaxContacts /\ LastLink + Len(C) <= MaxLinks
        /\ AnyPrimary(C) => ~HasPrimary(a)
        /\ contacts' = [c \in Contact |->
                          IF c - first \in DOMAIN C
                          THEN [email |-> C[c - first].email, creator |-> None]
                          ELSE contacts[c]]
        /\ links' = links \cup {LinkAt(i) : i \in DOMAIN C}
    BY DEF AddContacts
  <1>2. first \in Nat /\ \A c \in Contact : contacts[c] # Absent <=> c <= first
    BY NextContactIsFree, BoundsAssumption DEF Contact
  <1>3. /\ LastLink \in Nat /\ Len(C) \in Nat /\ DOMAIN C = 1..Len(C)
        /\ \A i \in DOMAIN C : i \in Nat \ {0} /\ C[i] \in Input
    BY LastLinkIsLast, BoundsAssumption
  <1> HIDE DEF first
  <1>0. \A i \in DOMAIN C : [email |-> C[i].email, creator |-> None] \in ContactRow
    BY <1>3 DEF ContactRow, Input
  <1>4. contacts' \in [Contact -> ContactRow \cup NoRow]
    BY <1>0, <1>1 DEF TypeOK
  <1>5. \A c \in Contact : contacts[c] # Absent => contacts'[c] = contacts[c]
    BY <1>1, <1>2, <1>3 DEF Contact
  <1>6. \A i \in DOMAIN C :
          /\ first + i \in Contact /\ contacts[first + i] = Absent
          /\ contacts'[first + i] = [email |-> C[i].email, creator |-> None]
    BY <1>1, <1>2, <1>3, BoundsAssumption DEF Contact
  <1>7. \A i \in DOMAIN C :
          /\ contacts'[first + i] \in ContactRow
          /\ LinkAt(i) \in Link
    <2> SUFFICES ASSUME NEW i \in DOMAIN C
                 PROVE  contacts'[first + i] \in ContactRow /\ LinkAt(i) \in Link
      OBVIOUS
    <2>1. contacts'[first + i] \in ContactRow
      BY <1>0, <1>6
    <2>2. LastLink + i \in LinkId
      BY <1>1, <1>3, BoundsAssumption DEF LinkId
    <2>3. C[i].primary \in BOOLEAN
      BY <1>3 DEF Input
    <2> QED
      BY <1>6, <2>1, <2>2, <2>3 DEF Link
  <1>8. InOrder'
    <2>1. first + Len(C) \in 0..MaxContacts
      BY <1>1, <1>2, <1>3, BoundsAssumption
    <2>2. \A c \in Contact :
            contacts'[c] # Absent <=> c <= first + Len(C)
      <3>1. \A c \in Contact : c - first \in DOMAIN C => contacts'[c] # Absent
        BY <1>1, <1>3, <1>7, NullAssumption DEF NoRow, ContactRow, Input
      <3> QED
        BY <1>1, <1>2, <1>3, <3>1 DEF Contact
    <2> QED
      BY <2>1, <2>2 DEF InOrder
  <1>9. \A i, j \in DOMAIN C : (C[i].primary /\ C[j].primary) => i = j
    BY DEF Addable
  <1>10. \A k \in links' \ links : \E i \in DOMAIN C : k = LinkAt(i)
    BY <1>1
  <1>11. \A k \in links' \ links :
           /\ k.account = a /\ k.id > LastLink
           /\ contacts[k.contact] = Absent /\ contacts'[k.contact] \in ContactRow
           /\ k.primary => ~HasPrimary(a)
    <2> SUFFICES ASSUME NEW k \in links' \ links
                 PROVE  /\ k.account = a /\ k.id > LastLink
                        /\ contacts[k.contact] = Absent
                        /\ contacts'[k.contact] \in ContactRow
                        /\ k.primary => ~HasPrimary(a)
      OBVIOUS
    <2>1. PICK i \in DOMAIN C : k = LinkAt(i)
      BY <1>10
    <2>2. /\ k.id = LastLink + i /\ k.contact = first + i /\ k.account = a
          /\ k.primary = C[i].primary
      BY <2>1
    <2>3. k.id > LastLink
      BY <1>3, <2>2
    <2>4. k.primary => ~HasPrimary(a)
      BY <1>1, <2>2 DEF AnyPrimary
    <2> QED
      BY <1>6, <1>7, <2>2, <2>3, <2>4
  <1>12. \A k, o \in links' \ links :
           k.id = o.id \/ k.contact = o.contact \/ (k.primary /\ o.primary) => k = o
    <2> SUFFICES ASSUME NEW k \in links' \ links, NEW o \in links' \ links,
                        k.id = o.id \/ k.contact = o.contact \/ (k.primary /\ o.primary)
                 PROVE  k = o
      OBVIOUS
    <2>1. PICK i \in DOMAIN C : k = LinkAt(i)
      BY <1>10
    <2>2. PICK j \in DOMAIN C : o = LinkAt(j)
      BY <1>10
    <2>3. i = j
      BY <1>2, <1>3, <1>9, <2>1, <2>2
    <2> QED
      BY <2>1, <2>2, <2>3
  <1>13. links \subseteq links' /\ links' \subseteq Link
    BY <1>1, <1>7 DEF TypeOK
  <1> QED
    BY <1>4, <1>5, <1>8, <1>11, <1>12, <1>13 DEF AddsTo

(* A contact gets the next id.                                             *)
LEMMA ContactIsNew ==
  ASSUME TypeOK, InOrder, NEW row \in ContactRow, NextContact \in Contact,
         contacts' = [contacts EXCEPT ![NextContact] = row]
  PROVE  /\ contacts' \in [Contact -> ContactRow \cup NoRow]
         /\ InOrder'
         /\ contacts[NextContact] = Absent /\ contacts'[NextContact] = row
         /\ \A c \in Contact : contacts[c] # Absent => contacts'[c] = contacts[c]
  <1>1. row # Absent
    BY NullAssumption DEF NoRow
  <1>2. \A c \in Contact : contacts[c] # Absent <=> c < NextContact
    BY NextContactIsFree
  <1>3. contacts[NextContact] = Absent /\ contacts'[NextContact] = row
    BY <1>2 DEF Contact, TypeOK
  <1>4. InOrder'
    <2>1. \A c \in Contact : contacts'[c] # Absent <=> c <= NextContact
      BY <1>1, <1>2 DEF Contact, TypeOK
    <2>2. NextContact \in 0..MaxContacts
      BY BoundsAssumption DEF Contact
    <2> QED
      BY <2>1, <2>2 DEF InOrder
  <1> QED
    BY <1>3, <1>4 DEF TypeOK

LEMMA CommitAddAdds ==
  ASSUME TypeOK, InOrder, NEW s \in Session, CommitAdd(s)
  PROVE  AddsTo(txs[s].req.account)
  <1> DEFINE q == txs[s].req
             new == [id |-> LastLink + 1, contact |-> NextContact,
                     account |-> q.account, primary |-> q.input.primary]
             row == [email |-> q.input.email, creator |-> q.by]
  <1>1. q \in Request /\ q.op = "add" /\ q.account \in Account
    BY ActiveTx DEF CommitAdd
  <1>2. q.input \in Input /\ q.by \in User
    BY <1>1 DEF Request
  <1>3. /\ NextContact \in Contact /\ LastLink < MaxLinks
        /\ q.input.primary => ~HasPrimary(q.account)
        /\ contacts' = [contacts EXCEPT ![NextContact] = row]
        /\ links' = links \cup {new}
    BY DEF CommitAdd
  <1>4. row \in ContactRow
    BY <1>2 DEF ContactRow, Input
  <1>5. new \in Link
    BY <1>1, <1>2, <1>3, LastLinkIsLast, BoundsAssumption DEF Link, LinkId, Input
  <1>6. LastLink \in Nat
    BY LastLinkIsLast, BoundsAssumption
  <1> HIDE DEF row
  <1>7. /\ contacts' \in [Contact -> ContactRow \cup NoRow]
        /\ InOrder'
        /\ contacts[NextContact] = Absent /\ contacts'[NextContact] = row
        /\ \A c \in Contact : contacts[c] # Absent => contacts'[c] = contacts[c]
    BY <1>3, <1>4, ContactIsNew
  <1>8. \A k \in links' \ links : k = new
    BY <1>3
  <1>9. \A k \in links' \ links :
          /\ k.account = q.account /\ k.id > LastLink
          /\ contacts[k.contact] = Absent /\ contacts'[k.contact] \in ContactRow
          /\ k.primary => ~HasPrimary(q.account)
    BY <1>3, <1>4, <1>6, <1>7, <1>8
  <1>10. links \subseteq links' /\ links' \subseteq Link
    BY <1>3, <1>5 DEF TypeOK
  <1> HIDE DEF new
  <1> QED
    BY <1>7, <1>8, <1>9, <1>10 DEF AddsTo

(* The ways update_account_contact leaves the links.                       *)
LEMMA CommitLinkWrites ==
  ASSUME TypeInv, NEW s \in Session, CommitLink(s)
  PROVE  LET t == txs[s]
             q == t.req
             flag == FlagWanted(t)
             new == [id |-> t.id, contact |-> q.contact, account |-> q.account,
                     primary |-> flag]
         IN  /\ t \in Tx /\ t.phase = "checked" /\ q.op = "link" /\ flag \in BOOLEAN
             /\ q.contact \in Contact /\ q.account \in Account
             /\ flag => PrimaryAllowed(q) \/ links' = links
             /\ \/ /\ t.flag = Absent /\ new \in Link /\ links' = links \cup {new}
                   /\ \A k \in links : ~SameLink(q, k)
                   /\ AccountExists(q.account) /\ ContactExists(q.contact)
                \/ /\ t.flag # Absent /\ flag # t.flag
                   /\ links' = SetFlag(q, flag) /\ links' \subseteq Link
                \/ links' = links
  <1> DEFINE t == txs[s]
             q == t.req
             flag == FlagWanted(t)
  <1>1. t \in Tx /\ t.phase = "checked" /\ q \in Request /\ q.op = "link"
    BY ActiveTx DEF TypeInv, CommitLink
  <1>2. /\ q.contact \in Contact /\ q.account \in Account
        /\ q.primary \in BOOLEAN \cup {Unset}
    BY <1>1 DEF Request
  <1>3. flag \in BOOLEAN
    BY <1>2 DEF FlagWanted
  <1>4. t.flag = Absent => t.id \in LinkId
    BY <1>1 DEF TypeInv, ReadsChecked
  <1>5. t.flag = Absent =>
          [id |-> t.id, contact |-> q.contact, account |-> q.account,
           primary |-> flag] \in Link
    BY <1>2, <1>3, <1>4 DEF Link
  <1>6. SetFlag(q, flag) \subseteq Link
    <2>1. \A k \in links : [k EXCEPT !.primary = flag] \in Link
      BY <1>3 DEF TypeInv, TypeOK, Link
    <2> QED
      BY <2>1 DEF SetFlag, TypeInv, TypeOK
  <1>7. WriteLink(t)
    BY DEF CommitLink
  <1> HIDE DEF t
  <1> HIDE DEF flag
  <1> QED
    BY <1>1, <1>2, <1>3, <1>5, <1>6, <1>7 DEF WriteLink, t, flag

LEMMA FinishKeepsTxs ==
  ASSUME TypeOK, ReadsChecked, NEW s \in Session, Finish(s)
  PROVE  txs' \in [Session -> Tx \cup {Idle}] /\ ReadsChecked'
  <1>1. txs' \in [Session -> Tx \cup {Idle}]
    BY DEF Finish, TypeOK
  <1>2. \A o \in Session : txs'[o] = IF o = s THEN Idle ELSE txs[o]
    BY DEF Finish, TypeOK
  <1> QED
    BY <1>1, <1>2 DEF ReadsChecked, Idle

LEMMA InOrderKept ==
  ASSUME InOrder, \A c \in Contact : contacts'[c] = Absent <=> contacts[c] = Absent
  PROVE  InOrder'
  BY DEF InOrder

LEMMA InitTypeInv == Init => TypeInv
  <1> SUFFICES ASSUME Init PROVE TypeInv
    OBVIOUS
  <1>1. TypeOK
    BY DEF Init, TypeOK, NoRow
  <1>2. ReadsChecked
    BY DEF Init, ReadsChecked, Idle
  <1>3. InOrder
    <2>1. 0 \in 0..MaxContacts /\ \A c \in Contact : ~(c <= 0)
      BY BoundsAssumption DEF Contact
    <2>2. \A c \in Contact : contacts[c] # Absent <=> c <= 0
      BY <2>1 DEF Init
    <2> QED
      BY <2>1, <2>2 DEF InOrder
  <1> QED
    BY <1>1, <1>2, <1>3 DEF TypeInv

LEMMA BeginKeepsTypes ==
  ASSUME TypeInv, NEW s \in Session, NEW q \in Requests, Begin(s, q)
  PROVE  TypeInv'
  <1> USE DEF TypeInv
  <1> DEFINE t == [phase |-> "checked", req |-> q, owner |-> accounts[q.account],
                   email |-> IF q.op = "link" THEN contacts[q.contact].email ELSE None,
                   flag |-> FlagRead(q), id |-> IF Inserts(q) THEN LastLink + 1 ELSE 0]
  <1>1. /\ MayAccess(q.by, q.account) /\ Checked(q, FlagRead(q))
        /\ Inserts(q) => LastLink < MaxLinks
        /\ txs' = [txs EXCEPT ![s] = t]
        /\ UNCHANGED tables
    BY DEF Begin
  <1>2. q \in Request /\ q.account \in Account
    BY RequestAssumption DEF Request
  <1>3. accounts[q.account] \in User
    BY <1>1, <1>2 DEF MayAccess, AccountExists, TypeOK
  <1>4. q.op = "link" => contacts[q.contact].email \in Email
    <2> SUFFICES ASSUME q.op = "link" PROVE contacts[q.contact].email \in Email
      OBVIOUS
    <2>1. q.contact \in Contact
      BY <1>2 DEF Request
    <2>2. ContactExists(q.contact)
      BY <1>1 DEF Checked
    <2> QED
      BY <2>1, <2>2 DEF ContactExists, TypeOK, ContactRow
  <1>5. FlagRead(q) \in BOOLEAN \cup {Absent}
    BY DEF FlagRead, TypeOK, Link
  <1>6. Inserts(q) => LastLink + 1 \in LinkId
    BY <1>1, LastLinkIsLast, BoundsAssumption DEF LinkId
  <1>7. t \in Tx
    BY <1>3, <1>4, <1>5, <1>6 DEF Tx
  <1>8. t.req = q /\ t.flag = FlagRead(q) /\ (Inserts(q) => t.id \in LinkId)
    BY <1>6
  <1> HIDE DEF t
  <1>9. TypeOK'
    BY <1>1, <1>7 DEF TypeOK, tables
  <1>10. ReadsChecked'
    BY <1>1, <1>8 DEF ReadsChecked, Inserts, Checked, TypeOK
  <1>11. InOrder'
    BY <1>1 DEF InOrder, tables
  <1> QED
    BY <1>9, <1>10, <1>11

LEMMA CreateAccountAdds ==
  ASSUME TypeOK, InOrder, NEW u \in User, NEW b \in NewAccounts, CreateAccount(u, b)
  PROVE  /\ NextAccount \in Account /\ AddsTo(NextAccount)
         /\ accounts' \in [Account -> User \cup NoRow]
         /\ accounts'[NextAccount] \in User
         /\ \A a \in Account \ {NextAccount} : accounts'[a] = accounts[a]
  <1>1. b.contacts \in Seq(Input) /\ b.owner \in User \cup {None}
    BY RequestAssumption DEF NewAccount
  <1>2. AddsTo(NextAccount)
    BY <1>1, AddContactsAdds DEF CreateAccount
  <1> QED
    BY <1>1, <1>2 DEF CreateAccount, TypeOK

LEMMA CommitAccountAdds ==
  ASSUME TypeInv, NEW s \in Session, CommitAccount(s)
  PROVE  LET a == txs[s].req.account
         IN  /\ a \in Account /\ AddsTo(a)
             /\ accounts' \in [Account -> User \cup NoRow]
             /\ \/ accounts' = accounts
                \/ AccountExists(a) /\ accounts' = [accounts EXCEPT ![a] = txs[s].req.owner]
                   /\ txs[s].req.owner \in User
             /\ links' # links => AccountExists(a)
  <1>1. txs[s].req \in Request /\ txs[s].req.op = "account"
    BY ActiveTx DEF CommitAccount, TypeInv
  <1>2. /\ txs[s].req.account \in Account /\ txs[s].req.contacts \in Seq(Input)
        /\ txs[s].req.owner \in User \cup {Unset}
    BY <1>1 DEF Request
  <1>3. AddsTo(txs[s].req.account)
    BY <1>2, AddContactsAdds DEF CommitAccount, TypeInv, ReadsChecked
  <1>4. txs[s].req.contacts = <<>> => links' = links
    BY DEF CommitAccount, AddContacts
  <1> QED
    BY <1>2, <1>3, <1>4 DEF CommitAccount, OwnerChanged, TypeInv, TypeOK

LEMMA TypeInvStep == TypeInv /\ [Next]_vars => TypeInv'
  <1> SUFFICES ASSUME TypeInv, [Next]_vars PROVE TypeInv'
    OBVIOUS
  <1>0. TypeOK /\ ReadsChecked /\ InOrder
    BY DEF TypeInv
  <1>1. CASE UNCHANGED vars
    BY <1>0, <1>1 DEF TypeInv, TypeOK, ReadsChecked, InOrder, vars
  <1>2. ASSUME NEW u \in User, NEW b \in NewAccounts, CreateAccount(u, b)
        PROVE  TypeInv'
    <2>1. UNCHANGED <<stakeholders, txs>>
      BY <1>2 DEF CreateAccount
    <2>2. AddsTo(NextAccount) /\ accounts' \in [Account -> User \cup NoRow]
      BY <1>0, <1>2, CreateAccountAdds
    <2> QED
      BY <1>0, <2>1, <2>2 DEF AddsTo, TypeInv, TypeOK, ReadsChecked
  <1>3. ASSUME NEW u \in User, NEW a \in Account, DeleteAccount(u, a)
        PROVE  TypeInv'
    BY <1>0, <1>3 DEF DeleteAccount, Kept, TypeInv, TypeOK, ReadsChecked, InOrder, NoRow
  <1>4. ASSUME NEW s \in Session, NEW q \in Requests, Begin(s, q)
        PROVE  TypeInv'
    BY <1>4, BeginKeepsTypes
  <1>5. ASSUME NEW s \in Session, CommitAccount(s)
        PROVE  TypeInv'
    <2>1. Finish(s) /\ stakeholders' = stakeholders
      BY <1>5 DEF CommitAccount
    <2> QED
      BY <1>0, <1>5, <2>1, CommitAccountAdds, FinishKeepsTxs DEF AddsTo, TypeInv, TypeOK
  <1>6. ASSUME NEW s \in Session, CommitAdd(s)
        PROVE  TypeInv'
    <2>1. Finish(s) /\ accounts' = accounts /\ stakeholders' = stakeholders
      BY <1>6 DEF CommitAdd
    <2> QED
      BY <1>0, <1>6, <2>1, CommitAddAdds, FinishKeepsTxs DEF AddsTo, TypeInv, TypeOK
  <1>7. ASSUME NEW s \in Session, CommitLink(s)
        PROVE  TypeInv'
    <2> DEFINE q == txs[s].req
    <2>1. /\ Finish(s) /\ UNCHANGED <<accounts, stakeholders>>
          /\ \/ contacts' = contacts
             \/ /\ ContactExists(q.contact) /\ q.email # Unset
                /\ contacts' = [contacts EXCEPT ![q.contact].email = q.email]
      BY <1>7 DEF CommitLink
    <2>2. q \in Request /\ q.op = "link"
      BY <1>0, <1>7, ActiveTx DEF CommitLink
    <2>3. q.contact \in Contact /\ q.email \in Email \cup {Unset}
      BY <2>2 DEF Request
    <2>4. /\ contacts' \in [Contact -> ContactRow \cup NoRow]
          /\ \A c \in Contact : contacts'[c] = Absent <=> contacts[c] = Absent
      <3>1. CASE contacts' = contacts
        BY <1>0, <3>1 DEF TypeOK
      <3>2. CASE contacts' # contacts
        <4>1. contacts[q.contact] \in ContactRow
          BY <1>0, <2>1, <2>3, <3>2 DEF ContactExists, TypeOK
        <4>2. [contacts[q.contact] EXCEPT !.email = q.email] \in ContactRow
          BY <2>1, <2>3, <3>2, <4>1 DEF ContactRow
        <4>3. contacts' = [contacts EXCEPT ![q.contact] =
                            [contacts[q.contact] EXCEPT !.email = q.email]]
          BY <2>1, <3>2
        <4> QED
          BY <1>0, <2>3, <4>1, <4>2, <4>3, NullAssumption DEF TypeOK, NoRow
      <3> QED
        BY <3>1, <3>2
    <2>5. links' \subseteq Link
      BY <1>0, <1>7, CommitLinkWrites DEF TypeOK
    <2> QED
      BY <1>0, <2>1, <2>4, <2>5, FinishKeepsTxs, InOrderKept DEF TypeInv, TypeOK
  <1>8. ASSUME NEW s \in Session, Rollback(s)
        PROVE  TypeInv'
    BY <1>0, <1>8, FinishKeepsTxs DEF Rollback, tables, TypeInv, TypeOK, InOrder
  <1>9. ASSUME NEW u \in User, NEW e \in Email, CreateContact(u, e)
        PROVE  TypeInv'
    <2>1. [email |-> e, creator |-> u] \in ContactRow
      BY DEF ContactRow
    <2> QED
      BY <1>0, <1>9, <2>1, ContactIsNew DEF CreateContact, TypeInv, TypeOK, ReadsChecked
  <1>10. ASSUME NEW u \in User, NEW c \in Contact, NEW e \in Email, UpdateContact(u, c, e)
         PROVE  TypeInv'
    <2>1. contacts[c] \in ContactRow
      BY <1>0, <1>10 DEF UpdateContact, Sees, ContactExists, TypeOK
    <2>2. [contacts[c] EXCEPT !.email = e] \in ContactRow
      BY <2>1 DEF ContactRow
    <2>3. contacts' = [contacts EXCEPT ![c] = [contacts[c] EXCEPT !.email = e]]
      BY <1>10 DEF UpdateContact
    <2>4. /\ contacts' \in [Contact -> ContactRow \cup NoRow]
          /\ \A o \in Contact : contacts'[o] = Absent <=> contacts[o] = Absent
      BY <1>0, <2>1, <2>2, <2>3, NullAssumption DEF TypeOK, NoRow
    <2> QED
      BY <1>0, <1>10, <2>4, InOrderKept DEF UpdateContact, TypeInv, TypeOK, ReadsChecked
  <1>11. ASSUME NEW u \in User, NEW c \in Contact, DeleteContact(u, c)
         PROVE  TypeInv'
    <2>1. \A o \in Contact : contacts'[o] = Absent <=> contacts[o] = Absent
      BY <1>0, <1>11, NullAssumption
         DEF DeleteContact, Sees, ContactExists, NoRow, TypeOK
    <2> QED
      BY <1>0, <1>11, <2>1, InOrderKept
         DEF DeleteContact, Kept, NoRow, TypeInv, TypeOK, ReadsChecked
  <1>12. ASSUME NEW d \in Deal, NEW C \in SUBSET Contact, SetStakeholders(d, C)
         PROVE  TypeInv'
    BY <1>0, <1>12 DEF SetStakeholders, TypeInv, TypeOK, ReadsChecked, InOrder
  <1> QED
    BY <1>1, <1>2, <1>3, <1>4, <1>5, <1>6, <1>7, <1>8, <1>9, <1>10, <1>11, <1>12
       DEF Next

(* Every table and every pending request keeps its type.                   *)
THEOREM TypeCorrect == Spec => []TypeOK
  <1>1. TypeInv => TypeOK
    BY DEF TypeInv
  <1> QED
    BY <1>1, InitTypeInv, TypeInvStep, PTL DEF Spec

-----------------------------------------------------------------------------
(* No two contacts share an address.                                       *)

LEMMA OneAddressSet ==
  ASSUME TypeOK, UniqueContacts, NEW c \in Contact, NEW o \in {c, None}, NEW row,
         contacts' = [contacts EXCEPT ![c] = row], EmailFree(row.email, o)
  PROVE  UniqueContacts'
  <1>1. \A b \in Contact : b # c /\ ContactExists(b) => contacts[b].email # row.email
    BY NullAssumption DEF EmailFree
  <1>2. \A b \in Contact : contacts'[b] = IF b = c THEN row ELSE contacts[b]
    BY DEF TypeOK
  <1> QED
    BY <1>1, <1>2 DEF UniqueContacts, ContactExists

LEMMA AddedAddressesUnique ==
  ASSUME TypeOK, InOrder, UniqueContacts, NEW a, NEW C \in Seq(Input),
         Addable(C), AddContacts(a, C)
  PROVE  UniqueContacts'
  <1> DEFINE first == NextContact - 1
  <1>1. /\ \A i \in DOMAIN C : EmailFree(C[i].email, None)
        /\ contacts' = [c \in Contact |->
                          IF c - first \in DOMAIN C
                          THEN [email |-> C[c - first].email, creator |-> None]
                          ELSE contacts[c]]
    BY DEF AddContacts
  <1>2. \A i \in DOMAIN C, b \in Contact :
          ContactExists(b) => contacts[b].email # C[i].email
    BY <1>1, NullAssumption DEF EmailFree
  <1>3. \A i, j \in DOMAIN C : C[i].email = C[j].email => i = j
    BY DEF Addable
  <1>4. \A b, c \in Contact : b - first = c - first => b = c
    <2>1. first \in Int
      BY NextContactIsFree, BoundsAssumption
    <2> QED
      BY <2>1 DEF Contact
  <1> HIDE DEF first
  <1>5. \A c \in Contact :
          /\ c - first \in DOMAIN C => contacts'[c].email = C[c - first].email
          /\ c - first \notin DOMAIN C => contacts'[c] = contacts[c]
    BY <1>1
  <1>6. ASSUME NEW c \in Contact, NEW o \in Contact, ContactExists(c)', ContactExists(o)',
               contacts'[c].email = contacts'[o].email
        PROVE  c = o
    <2> USE DEF ContactExists
    <2>1. CASE c - first \in DOMAIN C /\ o - first \in DOMAIN C
      BY <1>3, <1>4, <1>5, <1>6, <2>1
    <2>2. CASE c - first \notin DOMAIN C /\ o - first \in DOMAIN C
      BY <1>2, <1>5, <1>6, <2>2
    <2>3. CASE c - first \in DOMAIN C /\ o - first \notin DOMAIN C
      BY <1>2, <1>5, <1>6, <2>3
    <2>4. CASE c - first \notin DOMAIN C /\ o - first \notin DOMAIN C
      BY <1>5, <1>6, <2>4 DEF UniqueContacts
    <2> QED
      BY <2>1, <2>2, <2>3, <2>4
  <1> QED
    BY <1>6 DEF UniqueContacts, ContactExists

LEMMA UniqueContactsStep ==
  TypeInv /\ UniqueContacts /\ [Next]_vars => UniqueContacts'
  <1> SUFFICES ASSUME TypeInv, UniqueContacts, [Next]_vars PROVE UniqueContacts'
    OBVIOUS
  <1>0. TypeOK /\ InOrder
    BY DEF TypeInv
  <1>1. CASE contacts' = contacts
    BY <1>1 DEF UniqueContacts, ContactExists
  <1>2. ASSUME NEW u \in User, NEW b \in NewAccounts, CreateAccount(u, b)
        PROVE  UniqueContacts'
    <2>1. b.contacts \in Seq(Input)
      BY RequestAssumption DEF NewAccount
    <2> QED
      BY <1>0, <1>2, <2>1, AddedAddressesUnique DEF CreateAccount
  <1>3. ASSUME NEW s \in Session, CommitAccount(s)
        PROVE  UniqueContacts'
    <2>1. txs[s].req \in Request /\ txs[s].req.op = "account"
      BY <1>0, <1>3, ActiveTx DEF CommitAccount
    <2>2. txs[s].req.contacts \in Seq(Input)
      BY <2>1 DEF Request
    <2>3. Addable(txs[s].req.contacts)
      BY <1>3 DEF CommitAccount, TypeInv, ReadsChecked
    <2> QED
      BY <1>0, <1>3, <2>2, <2>3, AddedAddressesUnique DEF CommitAccount
  <1>4. ASSUME NEW s \in Session, CommitAdd(s)
        PROVE  UniqueContacts'
    <2> DEFINE row == [email |-> txs[s].req.input.email, creator |-> txs[s].req.by]
    <2>1. /\ NextContact \in Contact /\ EmailFree(row.email, None)
          /\ contacts' = [contacts EXCEPT ![NextContact] = row]
      BY <1>4 DEF CommitAdd
    <2> HIDE DEF row
    <2> QED
      BY <1>0, <2>1, OneAddressSet
  <1>5. ASSUME NEW u \in User, NEW e \in Email, CreateContact(u, e)
        PROVE  UniqueContacts'
    <2> DEFINE row == [email |-> e, creator |-> u]
    <2>1. /\ NextContact \in Contact /\ EmailFree(row.email, None)
          /\ contacts' = [contacts EXCEPT ![NextContact] = row]
      BY <1>5 DEF CreateContact
    <2> HIDE DEF row
    <2> QED
      BY <1>0, <2>1, OneAddressSet
  <1>6. ASSUME NEW c \in Contact, NEW e, ContactExists(c), EmailFree(e, c),
               contacts' = [contacts EXCEPT ![c].email = e]
        PROVE  UniqueContacts'
    <2> DEFINE row == [contacts[c] EXCEPT !.email = e]
    <2>1. contacts[c] \in ContactRow
      BY <1>0, <1>6 DEF ContactExists, TypeOK
    <2>2. row.email = e
      BY <2>1 DEF ContactRow
    <2>3. contacts' = [contacts EXCEPT ![c] = row] /\ EmailFree(row.email, c)
      BY <1>6, <2>2
    <2> HIDE DEF row
    <2> QED
      BY <1>0, <2>3, OneAddressSet
  <1>7. ASSUME NEW s \in Session, CommitLink(s)
        PROVE  UniqueContacts'
    BY <1>1, <1>6, <1>7, CommitLinkWrites DEF CommitLink
  <1>8. ASSUME NEW u \in User, NEW c \in Contact, NEW e \in Email, UpdateContact(u, c, e)
        PROVE  UniqueContacts'
    BY <1>6, <1>8 DEF UpdateContact, Sees
  <1>9. ASSUME NEW u \in User, NEW c \in Contact, DeleteContact(u, c)
        PROVE  UniqueContacts'
    BY <1>0, <1>9 DEF DeleteContact, UniqueContacts, ContactExists, NoRow, TypeOK
  <1> QED
    BY <1>1, <1>2, <1>3, <1>4, <1>5, <1>7, <1>8, <1>9
       DEF Next, DeleteAccount, Begin, Rollback, SetStakeholders, tables, vars

(* No two contacts share an address: what _add_contacts, the contact       *)
(* requests and the unique index leave, whatever overlaps.                 *)
THEOREM AddressesUnique == Spec => []UniqueContacts
  <1>1. Init => UniqueContacts
    BY DEF Init, UniqueContacts, ContactExists, NoRow
  <1> QED
    BY <1>1, InitTypeInv, TypeInvStep, UniqueContactsStep, PTL DEF Spec

-----------------------------------------------------------------------------
(* No link dangles, and an account has one primary contact at most.        *)

(* The ids of links, those of uncommitted inserts included, are distinct.  *)
Inserting(s) == txs[s].phase = "checked" /\ txs[s].id # 0

DistinctIds ==
  /\ \A k, o \in links : k.id = o.id => k = o
  /\ \A s \in Session, k \in links : Inserting(s) => txs[s].id # k.id
  /\ \A s, o \in Session :
       Inserting(s) /\ Inserting(o) /\ txs[s].id = txs[o].id => s = o

LinksInv == TypeInv /\ NothingDangles /\ OnePrimary /\ DistinctIds

(* Requests that end, and links that go.                                   *)
LEMMA DistinctIdsKept ==
  ASSUME TypeOK, DistinctIds, links' \subseteq links,
         txs' = txs \/ \E s \in Session : Finish(s)
  PROVE  DistinctIds'
  <1>1. \A o \in Session : txs'[o] = txs[o] \/ txs'[o] = Idle
    BY DEF Finish, TypeOK
  <1>2. \A o \in Session : Inserting(o)' => Inserting(o) /\ txs'[o] = txs[o]
    BY <1>1 DEF Inserting, Idle
  <1> QED
    BY <1>2 DEF DistinctIds

LEMMA FewerLinks ==
  ASSUME OnePrimary, links' \subseteq links
  PROVE  OnePrimary'
  BY DEF OnePrimary, SameLink

(* Contacts added to an account that is there, each with one link.         *)
LEMMA AddsToKeeps ==
  ASSUME LinksInv, NEW a \in Account, AddsTo(a),
         \A b \in Account : AccountExists(b) => AccountExists(b)',
         links' # links => AccountExists(a)',
         stakeholders' = stakeholders,
         txs' = txs \/ \E s \in Session : Finish(s)
  PROVE  NothingDangles' /\ OnePrimary' /\ DistinctIds'
  <1> DEFINE new == links' \ links
  <1>1. TypeOK /\ NothingDangles /\ OnePrimary /\ DistinctIds
    BY DEF LinksInv, TypeInv
  <1>2. /\ \A c \in Contact : contacts[c] # Absent => contacts'[c] = contacts[c]
        /\ links' = links \cup new /\ new \subseteq Link
        /\ \A k \in new :
             /\ k.account = a /\ k.id > LastLink
             /\ contacts[k.contact] = Absent /\ contacts'[k.contact] \in ContactRow
             /\ k.primary => ~HasPrimary(a)
        /\ \A k, o \in new :
             k.id = o.id \/ k.contact = o.contact \/ (k.primary /\ o.primary) => k = o
    BY DEF AddsTo
  <1> HIDE DEF new
  <1>3. \A k \in links : k \in Link /\ AccountExists(k.account) /\ ContactExists(k.contact)
    BY <1>1 DEF NothingDangles, TypeOK
  <1>4. \A c \in Contact : ContactExists(c) => ContactExists(c)'
    BY <1>2 DEF ContactExists, NoRow
  <1>5. \A k \in new : AccountExists(k.account)' /\ ContactExists(k.contact)'
    <2>1. \A k \in new : contacts'[k.contact] \notin NoRow
      BY <1>2, NullAssumption
    <2>2. new # {} => links' # links
      BY <1>2 DEF new
    <2> QED
      BY <1>2, <2>1, <2>2 DEF ContactExists
  <1>6. NothingDangles'
    <2>1. \A k \in links : AccountExists(k.account)' /\ ContactExists(k.contact)'
      BY <1>3, <1>4 DEF Link
    <2>2. \A d \in Deal : \A c \in stakeholders[d] : ContactExists(c)'
      BY <1>1, <1>4 DEF NothingDangles, TypeOK
    <2> QED
      BY <1>2, <1>5, <2>1, <2>2 DEF NothingDangles, ContactExists, AccountExists
  <1>7. OnePrimary'
    <2>1. \A k \in new, o \in links : k.contact # o.contact
      BY <1>2, <1>3 DEF ContactExists, NoRow
    <2>2. \A k \in new, o \in links : ~(k.account = o.account /\ k.primary /\ o.primary)
      BY <1>2 DEF HasPrimary, LinksOf
    <2> QED
      BY <1>1, <1>2, <2>1, <2>2 DEF OnePrimary, SameLink
  <1>8. DistinctIds'
    <2>1. \A o \in Session : txs'[o] = txs[o] \/ txs'[o] = Idle
      BY <1>1 DEF Finish, TypeOK
    <2>2. \A o \in Session : Inserting(o)' => Inserting(o) /\ txs'[o] = txs[o]
      BY <2>1 DEF Inserting, Idle
    <2>3. \A k \in new : k.id \notin LinkIds
      <3>1. \A m \in LinkIds : m \in Int /\ LastLink \in Int /\ m <= LastLink
        BY <1>1, LastLinkIsLast
      <3>2. \A k \in new : k.id \in Int
        BY <1>2 DEF Link, LinkId
      <3> QED
        BY <1>2, <3>1, <3>2
    <2>4. \A k \in new, o \in links : k.id # o.id
      BY <2>3 DEF LinkIds
    <2>5. \A k \in new, s \in Session : Inserting(s) => k.id # txs[s].id
      BY <2>3 DEF LinkIds, Inserting
    <2> QED
      BY <1>1, <1>2, <2>2, <2>4, <2>5 DEF DistinctIds
  <1> QED
    BY <1>6, <1>7, <1>8

(* A request that takes the id of its link.                                *)
LEMMA BeginKeepsIds ==
  ASSUME LinksInv, NEW s \in Session, NEW q \in Requests, Begin(s, q)
  PROVE  DistinctIds'
  <1>1. TypeOK /\ DistinctIds
    BY DEF LinksInv, TypeInv
  <1>2. /\ txs[s].phase = "idle" /\ links' = links
        /\ \A o \in Session : o # s => txs'[o] = txs[o]
        /\ txs'[s].id = IF Inserts(q) THEN LastLink + 1 ELSE 0
    BY <1>1 DEF Begin, tables, TypeOK
  <1>3. \A m \in LinkIds : m # LastLink + 1
    BY <1>1, LastLinkIsLast, BoundsAssumption
  <1>4. \A k \in links : k.id # LastLink + 1
    BY <1>3 DEF LinkIds
  <1>5. \A o \in Session : Inserting(o) => txs[o].id # LastLink + 1
    BY <1>3 DEF LinkIds, Inserting
  <1>6. \A o \in Session : o # s /\ Inserting(o)' => Inserting(o) /\ txs'[o] = txs[o]
    BY <1>2 DEF Inserting
  <1>7. Inserting(s)' => txs'[s].id = LastLink + 1
    BY <1>2 DEF Inserting
  <1> QED
    BY <1>1, <1>2, <1>4, <1>5, <1>6, <1>7 DEF DistinctIds

(* The link of a request: inserted, its flag set, or left.                 *)
LEMMA CommitLinkKeeps ==
  ASSUME LinksInv, NEW s \in Session, CommitLink(s)
  PROVE  NothingDangles' /\ OnePrimary' /\ DistinctIds'
  <1> DEFINE t == txs[s]
             q == t.req
             flag == FlagWanted(t)
             new == [id |-> t.id, contact |-> q.contact, account |-> q.account,
                     primary |-> flag]
  <1>1. TypeInv /\ TypeOK /\ NothingDangles /\ OnePrimary /\ DistinctIds
    BY DEF LinksInv, TypeInv
  <1>2. /\ t \in Tx /\ t.phase = "checked" /\ q.op = "link" /\ flag \in BOOLEAN
        /\ q.contact \in Contact /\ q.account \in Account
        /\ flag => PrimaryAllowed(q) \/ links' = links
        /\ \/ /\ t.flag = Absent /\ new \in Link /\ links' = links \cup {new}
              /\ \A k \in links : ~SameLink(q, k)
              /\ AccountExists(q.account) /\ ContactExists(q.contact)
           \/ /\ t.flag # Absent /\ flag # t.flag
              /\ links' = SetFlag(q, flag) /\ links' \subseteq Link
           \/ links' = links
    BY <1>1, CommitLinkWrites
  <1>3. Finish(s) /\ UNCHANGED <<accounts, stakeholders>>
    BY DEF CommitLink
  <1>4. \A c \in Contact : ContactExists(c) => ContactExists(c)'
    <2>1. \A c \in Contact :
            contacts'[c] = contacts[c] \/ contacts'[c] = [contacts[c] EXCEPT !.email = q.email]
      BY <1>1, <1>2 DEF CommitLink, TypeOK
    <2>2. \A c \in Contact : contacts[c] \in ContactRow =>
            [contacts[c] EXCEPT !.email = q.email] \notin NoRow \/ contacts'[c] = contacts[c]
      <3>1. CASE contacts' = contacts
        BY <3>1
      <3>2. CASE contacts' # contacts
        <4>1. q \in Request /\ q.email # Unset
          BY <1>1, <1>2, <3>2, ActiveTx DEF CommitLink
        <4>2. q.email \in Email
          BY <1>2, <4>1 DEF Request
        <4>3. \A c \in Contact : contacts[c] \in ContactRow =>
                [contacts[c] EXCEPT !.email = q.email] \in ContactRow
          BY <4>2 DEF ContactRow
        <4> QED
          BY <4>3, NullAssumption
      <3> QED
        BY <3>1, <3>2
    <2> QED
      BY <1>1, <2>1, <2>2 DEF ContactExists, TypeOK
  <1>5. \A a : AccountExists(a)' <=> AccountExists(a)
    BY <1>3 DEF AccountExists
  <1>6. \A d \in Deal : \A c \in stakeholders'[d] : ContactExists(c)'
    BY <1>1, <1>3, <1>4 DEF NothingDangles, TypeOK
  <1> HIDE DEF t
  <1> HIDE DEF flag
  <1>7. CASE links' = links
    <2>1. NothingDangles'
      BY <1>1, <1>4, <1>5, <1>6, <1>7 DEF NothingDangles, TypeOK, Link
    <2> QED
      BY <1>1, <1>3, <1>7, <2>1, FewerLinks, DistinctIdsKept
  <1>8. CASE /\ t.flag = Absent /\ new \in Link /\ links' = links \cup {new}
             /\ \A k \in links : ~SameLink(q, k)
             /\ AccountExists(q.account) /\ ContactExists(q.contact)
             /\ flag => PrimaryAllowed(q)
    <2>1. \A k \in links : AccountExists(k.account)' /\ ContactExists(k.contact)'
      BY <1>1, <1>4, <1>5 DEF NothingDangles, TypeOK, Link
    <2>2. \A k \in {new} : AccountExists(k.account)' /\ ContactExists(k.contact)'
      BY <1>2, <1>4, <1>5, <1>8
    <2>3. NothingDangles'
      BY <1>6, <1>8, <2>1, <2>2 DEF NothingDangles
    <2>4. OnePrimary'
      BY <1>1, <1>8 DEF OnePrimary, PrimaryAllowed, LinksOf, SameLink
    <2>5. t.id # 0 /\ Inserting(s)
      BY <1>2, <1>8 DEF Link, LinkId, Inserting, t
    <2>6. \A k \in links : t.id # k.id
      BY <1>1, <2>5 DEF DistinctIds, t
    <2>7. \A o \in Session : Inserting(o)' => Inserting(o) /\ txs'[o] = txs[o] /\ o # s
      BY <1>1, <1>3 DEF Finish, Inserting, Idle, TypeOK
    <2>8. \A o \in Session : Inserting(o)' => txs'[o].id # t.id
      BY <1>1, <2>5, <2>7 DEF DistinctIds, t
    <2>9. DistinctIds'
      BY <1>1, <1>8, <2>6, <2>7, <2>8 DEF DistinctIds
    <2> QED
      BY <2>3, <2>4, <2>9
  <1>9. CASE links' = SetFlag(q, flag) /\ (flag => PrimaryAllowed(q))
    <2>1. \A k \in links' : \E o \in links :
            k = IF SameLink(q, o) THEN [o EXCEPT !.primary = flag] ELSE o
      BY <1>9 DEF SetFlag
    <2>2. \A k \in links' : \E o \in links :
            /\ k.id = o.id /\ k.contact = o.contact /\ k.account = o.account
            /\ k = IF SameLink(q, o) THEN [o EXCEPT !.primary = flag] ELSE o
            /\ k.primary = IF SameLink(q, o) THEN flag ELSE o.primary
      <3>1. \A o \in links : o \in Link
        BY <1>1 DEF TypeOK
      <3> QED
        BY <2>1, <3>1 DEF Link
    <2>3. NothingDangles'
      <3>1. \A k \in links : AccountExists(k.account)' /\ ContactExists(k.contact)'
        BY <1>1, <1>4, <1>5 DEF NothingDangles, TypeOK, Link
      <3> QED
        BY <1>6, <2>2, <3>1 DEF NothingDangles
    <2>4. ASSUME NEW k \in links', NEW o \in links',
                 \/ k.account = o.account /\ k.primary /\ o.primary
                 \/ SameLink(k, o)
                 \/ k.id = o.id
          PROVE  k = o
      <3>1. PICK k0 \in links :
              /\ k.id = k0.id /\ k.contact = k0.contact /\ k.account = k0.account
              /\ k = IF SameLink(q, k0) THEN [k0 EXCEPT !.primary = flag] ELSE k0
              /\ k.primary = IF SameLink(q, k0) THEN flag ELSE k0.primary
        BY <2>2
      <3>2. PICK o0 \in links :
              /\ o.id = o0.id /\ o.contact = o0.contact /\ o.account = o0.account
              /\ o = IF SameLink(q, o0) THEN [o0 EXCEPT !.primary = flag] ELSE o0
              /\ o.primary = IF SameLink(q, o0) THEN flag ELSE o0.primary
        BY <2>2
      <3>3. SameLink(k0, o0) \/ k0.id = o0.id => k0 = o0
        BY <1>1 DEF OnePrimary, DistinctIds
      <3>4. k.account = o.account /\ k.primary /\ o.primary => k0 = o0
        BY <1>1, <1>9, <3>1, <3>2, <3>3 DEF OnePrimary, PrimaryAllowed, LinksOf, SameLink
      <3>5. k0 = o0
        BY <2>4, <3>1, <3>2, <3>3, <3>4 DEF SameLink
      <3> QED
        BY <3>1, <3>2, <3>5
    <2>5. OnePrimary'
      BY <2>4 DEF OnePrimary, SameLink
    <2>6. \A o \in Session : Inserting(o)' => Inserting(o) /\ txs'[o] = txs[o]
      BY <1>1, <1>3 DEF Finish, Inserting, Idle, TypeOK
    <2>7. DistinctIds'
      BY <1>1, <2>2, <2>4, <2>6 DEF DistinctIds
    <2> QED
      BY <2>3, <2>5, <2>7
  <1> QED
    BY <1>2, <1>7, <1>8, <1>9

LEMMA LinksInvStep == LinksInv /\ [Next]_vars => LinksInv'
  <1> SUFFICES ASSUME LinksInv, [Next]_vars PROVE LinksInv'
    OBVIOUS
  <1>0. TypeInv /\ TypeOK /\ InOrder /\ NothingDangles /\ OnePrimary /\ DistinctIds
    BY DEF LinksInv, TypeInv
  <1> SUFFICES NothingDangles' /\ OnePrimary' /\ DistinctIds'
    BY <1>0, TypeInvStep DEF LinksInv
  <1>1. CASE UNCHANGED tables /\ (txs' = txs \/ \E s \in Session : Finish(s))
    <2>1. NothingDangles'
      BY <1>0, <1>1 DEF tables, NothingDangles, AccountExists, ContactExists
    <2> QED
      BY <1>0, <1>1, <2>1, FewerLinks, DistinctIdsKept DEF tables
  <1>2. ASSUME NEW u \in User, NEW b \in NewAccounts, CreateAccount(u, b)
        PROVE  NothingDangles' /\ OnePrimary' /\ DistinctIds'
    <2>1. PICK a \in Account :
            /\ AddsTo(a) /\ accounts'[a] \in User
            /\ \A o \in Account \ {a} : accounts'[o] = accounts[o]
      BY <1>0, <1>2, CreateAccountAdds
    <2>2. AccountExists(a)'
      BY <2>1, NullAssumption DEF AccountExists
    <2>3. \A o \in Account : AccountExists(o) => AccountExists(o)'
      BY <2>1, <2>2 DEF AccountExists
    <2> QED
      BY <1>2, <2>1, <2>2, <2>3, AddsToKeeps DEF CreateAccount
  <1>3. ASSUME NEW u \in User, NEW a \in Account, DeleteAccount(u, a)
        PROVE  NothingDangles' /\ OnePrimary' /\ DistinctIds'
    <2>1. NothingDangles'
      BY <1>0, <1>3
         DEF DeleteAccount, Kept, LinksOf, NothingDangles, AccountExists, ContactExists, TypeOK
    <2> QED
      BY <1>0, <1>3, <2>1, FewerLinks, DistinctIdsKept DEF DeleteAccount, Kept
  <1>4. ASSUME NEW s \in Session, NEW q \in Requests, Begin(s, q)
        PROVE  NothingDangles' /\ OnePrimary' /\ DistinctIds'
    BY <1>0, <1>4, BeginKeepsIds
       DEF Begin, tables, NothingDangles, AccountExists, ContactExists, OnePrimary, SameLink
  <1>5. ASSUME NEW s \in Session, CommitAccount(s)
        PROVE  NothingDangles' /\ OnePrimary' /\ DistinctIds'
    <2>1. PICK a \in Account :
            /\ AddsTo(a)
            /\ \/ accounts' = accounts
               \/ \E u \in User : accounts' = [accounts EXCEPT ![a] = u]
            /\ links' # links => AccountExists(a)
      BY <1>0, <1>5, CommitAccountAdds
    <2>2. \A b \in Account : AccountExists(b) => AccountExists(b)'
      BY <1>0, <2>1, NullAssumption DEF AccountExists, TypeOK
    <2>3. Finish(s) /\ stakeholders' = stakeholders
      BY <1>5 DEF CommitAccount
    <2> QED
      BY <2>1, <2>2, <2>3, AddsToKeeps
  <1>6. ASSUME NEW s \in Session, CommitAdd(s)
        PROVE  NothingDangles' /\ OnePrimary' /\ DistinctIds'
    <2>1. PICK a \in Account : AddsTo(a) /\ AccountExists(a)
      BY <1>0, <1>6, ActiveTx, CommitAddAdds DEF CommitAdd
    <2>2. /\ Finish(s) /\ accounts' = accounts /\ stakeholders' = stakeholders
      BY <1>6 DEF CommitAdd
    <2> QED
      BY <2>1, <2>2, AddsToKeeps DEF AccountExists
  <1>7. ASSUME NEW s \in Session, CommitLink(s)
        PROVE  NothingDangles' /\ OnePrimary' /\ DistinctIds'
    BY <1>7, CommitLinkKeeps
  <1>8. CASE /\ UNCHANGED <<accounts, links, stakeholders, txs>>
             /\ \A c \in Contact : ContactExists(c) => ContactExists(c)'
    <2>1. NothingDangles'
      BY <1>0, <1>8 DEF NothingDangles, AccountExists, TypeOK, Link
    <2> QED
      BY <1>0, <1>8, <2>1, FewerLinks, DistinctIdsKept
  <1>9. ASSUME NEW u \in User, NEW e \in Email, CreateContact(u, e)
        PROVE  NothingDangles' /\ OnePrimary' /\ DistinctIds'
    <2>1. [email |-> e, creator |-> u] \in ContactRow
      BY DEF ContactRow
    <2>2. \A c \in Contact : contacts[c] # Absent => contacts'[c] = contacts[c]
      BY <1>0, <1>9, <2>1, ContactIsNew DEF CreateContact
    <2> QED
      BY <1>8, <1>9, <2>2 DEF CreateContact, ContactExists, NoRow
  <1>10. ASSUME NEW u \in User, NEW c \in Contact, NEW e \in Email, UpdateContact(u, c, e)
         PROVE  NothingDangles' /\ OnePrimary' /\ DistinctIds'
    <2>1. contacts[c] \in ContactRow
      BY <1>0, <1>10 DEF UpdateContact, Sees, ContactExists, TypeOK
    <2>2. [contacts[c] EXCEPT !.email = e] \in ContactRow
      BY <2>1 DEF ContactRow
    <2>3. contacts' = [contacts EXCEPT ![c] = [contacts[c] EXCEPT !.email = e]]
      BY <1>10 DEF UpdateContact
    <2>4. \A o \in Contact : ContactExists(o) => ContactExists(o)'
      BY <1>0, <2>2, <2>3, NullAssumption DEF ContactExists, TypeOK
    <2> QED
      BY <1>8, <1>10, <2>4 DEF UpdateContact
  <1>11. ASSUME NEW u \in User, NEW c \in Contact, DeleteContact(u, c)
         PROVE  NothingDangles' /\ OnePrimary' /\ DistinctIds'
    <2>1. NothingDangles'
      BY <1>0, <1>11
         DEF DeleteContact, Kept, LinksTo, NothingDangles, AccountExists, ContactExists, TypeOK
    <2> QED
      BY <1>0, <1>11, <2>1, FewerLinks, DistinctIdsKept DEF DeleteContact, Kept
  <1>12. ASSUME NEW d \in Deal, NEW C \in SUBSET Contact, SetStakeholders(d, C)
         PROVE  NothingDangles' /\ OnePrimary' /\ DistinctIds'
    <2>1. NothingDangles'
      BY <1>0, <1>12 DEF SetStakeholders, NothingDangles, AccountExists, ContactExists, TypeOK
    <2> QED
      BY <1>0, <1>12, <2>1, FewerLinks, DistinctIdsKept DEF SetStakeholders
  <1> QED
    BY <1>1, <1>2, <1>3, <1>4, <1>5, <1>6, <1>7, <1>9, <1>10, <1>11, <1>12
       DEF Next, Rollback, tables, vars

LEMMA LinksAreSound == Spec => []LinksInv
  <1>1. Init => LinksInv
    <2> SUFFICES ASSUME Init PROVE LinksInv
      OBVIOUS
    <2>1. NothingDangles /\ OnePrimary
      BY DEF Init, NothingDangles, OnePrimary
    <2>2. DistinctIds
      BY DEF Init, DistinctIds, Inserting, Idle
    <2> QED
      BY <2>1, <2>2, InitTypeInv DEF LinksInv
  <1> QED
    BY <1>1, LinksInvStep, PTL DEF Spec

(* No link and no stake names an account or a contact that is gone, though *)
(* requests write links to rows they read before others deleted them.      *)
THEOREM NoLinkDangles == Spec => []NothingDangles
  BY LinksAreSound, PTL DEF LinksInv

(* However requests that found no primary contact overlap, an account has  *)
(* one at most, and no contact is linked to an account twice.              *)
THEOREM PrimaryContactUnique == Spec => []OnePrimary
  BY LinksAreSound, PTL DEF LinksInv

-----------------------------------------------------------------------------
(* The screens.                                                            *)

LEMMA OneAtMost ==
  ASSUME NEW S, \A x, y \in S : x = y
  PROVE  Cardinality(S) <= 1
  <1>1. CASE S = {}
    BY <1>1, FS_EmptySet
  <1>2. CASE S # {}
    <2>1. PICK x \in S : TRUE
      BY <1>2
    <2>2. S = {x}
      BY <2>1
    <2> QED
      BY <2>2, FS_Singleton
  <1> QED
    BY <1>1, <1>2

LEMMA ScreensFollowLinks == LinksInv => ScreensAgree
  <1> SUFFICES ASSUME LinksInv, NEW u \in User
               PROVE  /\ \A o \in User :
                           ListAccounts(u, o) \subseteq {a \in Account : MayAccess(u, a)}
                      /\ ListAccounts(u, None) = {a \in Account : MayAccess(u, a)}
                      /\ \A a \in Account :
                           /\ accounts[a] = u =>
                                ListContacts(u, a, Unset) = AccountContactList(a)
                           /\ Cardinality(ListContacts(u, a, TRUE)) <= 1
    BY DEF ScreensAgree
  <1>1. TypeOK /\ NothingDangles /\ OnePrimary
    BY DEF LinksInv, TypeInv
  <1>2. u # None /\ None \notin Account /\ TRUE # Unset
    BY NullAssumption
  <1>3. \A o \in User :
          ListAccounts(u, o) \subseteq {a \in Account : MayAccess(u, a)}
    BY <1>2 DEF ListAccounts, MayAccess
  <1>4. ListAccounts(u, None) = {a \in Account : MayAccess(u, a)}
    BY <1>2 DEF ListAccounts, MayAccess
  <1>5. ASSUME NEW a \in Account, accounts[a] = u
        PROVE  ListContacts(u, a, Unset) = AccountContactList(a)
    <2>1. \A k \in LinksOf(a) :
            /\ k.contact \in Contact /\ Sees(u, k.contact)
            /\ k \in LinksTo(k.contact) /\ k.account = a
      BY <1>1, <1>5
         DEF LinksOf, LinksTo, NothingDangles, Sees, OwnsViaAccount, TypeOK, Link
    <2>2. \A c \in Contact : \A k \in LinksTo(c) :
            a \in {None, k.account} => k \in LinksOf(a) /\ k.contact = c
      BY <1>2 DEF LinksTo, LinksOf
    <2>3. ListContacts(u, a, Unset)
            = {c \in Contact : Sees(u, c) /\ \E k \in LinksTo(c) : a \in {None, k.account}}
      BY <1>2 DEF ListContacts
    <2> QED
      BY <2>1, <2>2, <2>3 DEF AccountContactList
  <1>6. ASSUME NEW a \in Account
        PROVE  Cardinality(ListContacts(u, a, TRUE)) <= 1
    <2>1. \A c \in ListContacts(u, a, TRUE) :
            \E k \in links : k.contact = c /\ k.account = a /\ k.primary
      BY <1>2 DEF ListContacts, LinksTo
    <2>2. \A c, o \in ListContacts(u, a, TRUE) : c = o
      BY <1>1, <2>1 DEF OnePrimary
    <2> QED
      BY <2>2, OneAtMost
  <1> QED
    BY <1>3, <1>4, <1>5, <1>6

(* Whatever owner and filters are asked for, the lists show what           *)
(* get_account and the account's own screen show.                          *)
THEOREM ScreensAlwaysAgree == Spec => []ScreensAgree
  BY LinksAreSound, ScreensFollowLinks, PTL

-----------------------------------------------------------------------------
(* What a step may do to the links.                                        *)

LinkInserted(s) ==
  LET t == txs[s]
      q == t.req
      new == [id |-> t.id, contact |-> q.contact, account |-> q.account,
              primary |-> FlagWanted(t)]
  IN  /\ CommitLink(s) /\ t.flag = Absent
      /\ new \in Link /\ links' = links \cup {new}
      /\ \A k \in links : ~SameLink(q, k) /\ k.id # t.id
      /\ new.primary => ~HasPrimary(q.account)

FlagSet(s) ==
  LET t == txs[s]
      q == t.req
      flag == FlagWanted(t)
  IN  /\ CommitLink(s) /\ Finish(s)
      /\ t.phase = "checked" /\ q.op = "link" /\ flag \in BOOLEAN
      /\ q.account \in Account /\ q.contact \in Contact
      /\ t.flag # Absent /\ flag # t.flag
      /\ links' = SetFlag(q, flag)
      /\ flag => PrimaryAllowed(q)

LEMMA LinksChange ==
  ASSUME LinksInv, [Next]_vars
  PROVE  \/ links' = links
         \/ \E a \in Account : AddsTo(a)
         \/ \E a \in Account : accounts'[a] = Deleted /\ links' = links \ LinksOf(a)
         \/ \E c \in Contact : contacts'[c] = Deleted /\ links' = links \ LinksTo(c)
         \/ \E s \in Session : LinkInserted(s) \/ FlagSet(s)
  <1>0. TypeInv /\ TypeOK /\ InOrder /\ DistinctIds
    BY DEF LinksInv, TypeInv
  <1>1. ASSUME NEW u \in User, NEW b \in NewAccounts, CreateAccount(u, b)
        PROVE  \E a \in Account : AddsTo(a)
    BY <1>0, <1>1, CreateAccountAdds
  <1>2. ASSUME NEW s \in Session, CommitAccount(s)
        PROVE  \E a \in Account : AddsTo(a)
    BY <1>0, <1>2, CommitAccountAdds
  <1>3. ASSUME NEW s \in Session, CommitAdd(s)
        PROVE  \E a \in Account : AddsTo(a)
    BY <1>0, <1>3, ActiveTx, CommitAddAdds DEF CommitAdd
  <1>4. ASSUME NEW u \in User, NEW a \in Account, DeleteAccount(u, a)
        PROVE  accounts'[a] = Deleted /\ links' = links \ LinksOf(a)
    BY <1>0, <1>4 DEF DeleteAccount, Kept, TypeOK
  <1>5. ASSUME NEW u \in User, NEW c \in Contact, DeleteContact(u, c)
        PROVE  contacts'[c] = Deleted /\ links' = links \ LinksTo(c)
    BY <1>0, <1>5 DEF DeleteContact, Kept, TypeOK
  <1>6. ASSUME NEW s \in Session, CommitLink(s), links' # links
        PROVE  LinkInserted(s) \/ FlagSet(s)
    <2> DEFINE t == txs[s]
               q == t.req
               flag == FlagWanted(t)
               new == [id |-> t.id, contact |-> q.contact, account |-> q.account,
                       primary |-> flag]
    <2>1. /\ t \in Tx /\ t.phase = "checked" /\ q.op = "link" /\ flag \in BOOLEAN
          /\ q.contact \in Contact /\ q.account \in Account
          /\ flag => PrimaryAllowed(q)
          /\ \/ /\ t.flag = Absent /\ new \in Link /\ links' = links \cup {new}
                /\ \A k \in links : ~SameLink(q, k)
             \/ /\ t.flag # Absent /\ flag # t.flag
                /\ links' = SetFlag(q, flag) /\ links' \subseteq Link
      BY <1>0, <1>6, CommitLinkWrites
    <2>2. new.id = t.id /\ new.primary = flag
      OBVIOUS
    <2> HIDE DEF new
    <2> HIDE DEF flag
    <2>3. CASE /\ t.flag = Absent /\ new \in Link /\ links' = links \cup {new}
               /\ \A k \in links : ~SameLink(q, k)
      <3>1. t.id \in LinkId
        BY <2>2, <2>3 DEF Link
      <3>2. \A k \in links : k.id # t.id
        BY <1>0, <2>1, <3>1 DEF DistinctIds, Inserting, LinkId
      <3>3. flag => ~HasPrimary(q.account)
        BY <2>1, <2>3 DEF PrimaryAllowed, HasPrimary, LinksOf
      <3> QED
        BY <1>6, <2>2, <2>3, <3>2, <3>3 DEF LinkInserted, new, flag
    <2>4. CASE t.flag # Absent /\ flag # t.flag /\ links' = SetFlag(q, flag)
      BY <1>6, <2>1, <2>4 DEF FlagSet, flag, CommitLink
    <2> QED
      BY <2>1, <2>3, <2>4
  <1> QED
    BY <1>1, <1>2, <1>3, <1>4, <1>5, <1>6
       DEF Next, Begin, Rollback, CreateContact, UpdateContact, SetStakeholders,
           tables, vars

(* The flag of a link is set, and nothing else of any link.                *)
LEMMA FlagSetLinks ==
  ASSUME LinksInv, NEW s \in Session, FlagSet(s)
  PROVE  LET q == txs[s].req
             flag == FlagWanted(txs[s])
         IN  /\ \A k \in links : \E m \in links' :
                  /\ m.id = k.id /\ m.contact = k.contact /\ m.account = k.account
                  /\ m.primary = IF SameLink(q, k) THEN flag ELSE k.primary
                  /\ ~SameLink(q, k) => m = k
             /\ \A m \in links' : \E k \in links :
                  /\ m.id = k.id /\ m.contact = k.contact /\ m.account = k.account
                  /\ m.primary = IF SameLink(q, k) THEN flag ELSE k.primary
                  /\ ~SameLink(q, k) => m = k
  <1> DEFINE q == txs[s].req
             flag == FlagWanted(txs[s])
             Set(k) == IF SameLink(q, k) THEN [k EXCEPT !.primary = flag] ELSE k
  <1>1. links' = {Set(k) : k \in links}
    BY DEF FlagSet, SetFlag
  <1>2. \A k \in links : k \in Link
    BY DEF LinksInv, TypeInv, TypeOK
  <1>3. \A k \in links :
          /\ Set(k).id = k.id /\ Set(k).contact = k.contact /\ Set(k).account = k.account
          /\ Set(k).primary = IF SameLink(q, k) THEN flag ELSE k.primary
          /\ ~SameLink(q, k) => Set(k) = k
    BY <1>2 DEF Link
  <1> HIDE DEF Set
  <1> QED
    BY <1>1, <1>3

(* A contact stops being the primary one only where PrimaryKept says.      *)
LEMMA PrimaryLost ==
  ASSUME LinksInv, [Next]_vars, NEW a \in Account, NEW c \in Contact,
         IsPrimary(c, a), ~IsPrimary(c, a)'
  PROVE  \/ accounts'[a] = Deleted
         \/ contacts'[c] = Deleted
         \/ \E s \in Session : /\ txs[s].phase = "checked" /\ txs'[s] = Idle
                               /\ txs[s].req.op = "link"
                               /\ SameLink(txs[s].req, [contact |-> c, account |-> a])
                               /\ txs[s].req.primary = FALSE
  <1>1. PICK k \in links : k.contact = c /\ k.account = a /\ k.primary
    BY DEF IsPrimary, LinksTo
  <1>2. \A m \in links' : ~(m.contact = c /\ m.account = a /\ m.primary)
    BY DEF IsPrimary, LinksTo
  <1>3. ~(links \subseteq links')
    BY <1>1, <1>2
  <1>4. CASE \E b \in Account : accounts'[b] = Deleted /\ links' = links \ LinksOf(b)
    BY <1>1, <1>2, <1>4 DEF LinksOf
  <1>5. CASE \E o \in Contact : contacts'[o] = Deleted /\ links' = links \ LinksTo(o)
    BY <1>1, <1>2, <1>5 DEF LinksTo
  <1>6. ASSUME NEW s \in Session, FlagSet(s)
        PROVE  /\ txs[s].phase = "checked" /\ txs'[s] = Idle
               /\ txs[s].req.op = "link"
               /\ SameLink(txs[s].req, [contact |-> c, account |-> a])
               /\ txs[s].req.primary = FALSE
    <2> DEFINE q == txs[s].req
               flag == FlagWanted(txs[s])
    <2>1. \E m \in links' :
            /\ m.id = k.id /\ m.contact = k.contact /\ m.account = k.account
            /\ m.primary = IF SameLink(q, k) THEN flag ELSE k.primary
            /\ ~SameLink(q, k) => m = k
      BY <1>1, <1>6, FlagSetLinks
    <2>2. SameLink(q, k) /\ ~flag
      BY <1>1, <1>2, <2>1
    <2>3. flag = FALSE /\ flag # txs[s].flag /\ txs[s].flag # Absent
          /\ txs[s].phase = "checked" /\ q.op = "link" /\ Finish(s)
      BY <1>6, <2>2 DEF FlagSet
    <2>4. txs[s].flag = TRUE
      <3>1. txs[s] \in Tx
        BY <2>3, ActiveTx DEF LinksInv, TypeInv
      <3>2. txs[s].flag \in BOOLEAN
        BY <2>3, <3>1 DEF Tx
      <3> HIDE DEF flag
      <3> QED
        BY <2>3, <3>2
    <2>5. q.primary = FALSE
      BY <2>3, <2>4 DEF FlagWanted
    <2>6. txs'[s] = Idle
      BY <2>3 DEF Finish, LinksInv, TypeInv, TypeOK
    <2> QED
      BY <1>1, <2>2, <2>3, <2>5, <2>6 DEF SameLink
  <1> QED
    BY <1>3, <1>4, <1>5, <1>6, LinksChange DEF AddsTo, LinkInserted

(* Only a request that says so, or a deletion, takes its primary contact   *)
(* from an account: overlapping promotions and edits leave it.             *)
THEOREM PrimaryStays == Spec => PrimaryKept
  <1>1. LinksInv /\ [Next]_vars =>
          [\A a \in Account, c \in Contact :
             IsPrimary(c, a) /\ ~IsPrimary(c, a)' =>
               \/ accounts'[a] = Deleted
               \/ contacts'[c] = Deleted
               \/ \E s \in Session : /\ txs[s].phase = "checked" /\ txs'[s] = Idle
                                     /\ txs[s].req.op = "link"
                                     /\ SameLink(txs[s].req, [contact |-> c, account |-> a])
                                     /\ txs[s].req.primary = FALSE]_vars
    BY PrimaryLost
  <1> QED
    BY <1>1, LinksAreSound, PTL DEF Spec, PrimaryKept

-----------------------------------------------------------------------------
(* The primary flags implement PrimaryContact.                             *)

HolderIsPrimary ==
  \A a \in Account : /\ Holder[a] \in Contact \cup {None}
                     /\ \A c \in Contact : Holder[a] = c <=> IsPrimary(c, a)

LEMMA HolderFollowsLinks == LinksInv => HolderIsPrimary
  <1> SUFFICES ASSUME LinksInv, NEW a \in Account
               PROVE  /\ Holder[a] \in Contact \cup {None}
                      /\ \A c \in Contact : Holder[a] = c <=> IsPrimary(c, a)
    BY DEF HolderIsPrimary
  <1>1. TypeOK /\ OnePrimary /\ None \notin Contact
    BY NullAssumption DEF LinksInv, TypeInv
  <1>2. HasPrimary(a) <=> \E c \in Contact : IsPrimary(c, a)
    BY <1>1 DEF HasPrimary, IsPrimary, LinksOf, LinksTo, TypeOK, Link
  <1>3. \A c, o \in Contact : IsPrimary(c, a) /\ IsPrimary(o, a) => c = o
    BY <1>1 DEF IsPrimary, LinksTo, OnePrimary
  <1>4. Holder[a] = IF HasPrimary(a) THEN CHOOSE c \in Contact : IsPrimary(c, a) ELSE None
    BY DEF Holder
  <1>5. CASE HasPrimary(a)
    BY <1>2, <1>3, <1>4, <1>5
  <1>6. CASE ~HasPrimary(a)
    BY <1>1, <1>2, <1>4, <1>6
  <1> QED
    BY <1>5, <1>6

(* A step after which every primary contact was one before.                *)
LEMMA Shrinks ==
  ASSUME HolderIsPrimary, HolderIsPrimary',
         \A a \in Account, c \in Contact : IsPrimary(c, a)' => IsPrimary(c, a)
  PROVE  Primary!Next
  <1> DEFINE A == {a \in Account : Holder'[a] = None}
  <1>1. ASSUME NEW a \in Account
        PROVE  Holder'[a] = IF a \in A THEN None ELSE Holder[a]
    BY DEF HolderIsPrimary
  <1>2. Holder' = [a \in Account |-> IF a \in A THEN None ELSE Holder[a]]
    <2>1. Holder' = [a \in Account |-> Holder'[a]]
      BY DEF Holder
    <2> QED
      BY <1>1, <2>1
  <1> QED
    BY <1>2 DEF Primary!Next, Primary!GiveUp

(* A step that gives a free place to one contact.                          *)
LEMMA Takes ==
  ASSUME HolderIsPrimary, HolderIsPrimary',
         NEW b \in Account, NEW o \in Contact,
         \A c \in Contact : ~IsPrimary(c, b), IsPrimary(o, b)',
         \A a \in Account, c \in Contact :
           a # b => (IsPrimary(c, a)' <=> IsPrimary(c, a))
  PROVE  Primary!Next
  <1>0. None \notin Contact
    BY NullAssumption
  <1>1. Holder[b] = None /\ Holder'[b] = o
    BY DEF HolderIsPrimary
  <1>2. ASSUME NEW a \in Account, a # b
        PROVE  Holder'[a] = Holder[a]
    BY <1>0, <1>2 DEF HolderIsPrimary
  <1>3. /\ Holder' = [a \in Account |-> Holder'[a]]
        /\ Holder = [a \in Account |-> Holder[a]]
    BY DEF Holder
  <1>4. Holder' = [Holder EXCEPT ![b] = o]
    BY <1>1, <1>2, <1>3
  <1> QED
    BY <1>1, <1>4 DEF Primary!Next, Primary!Take

LEMMA PrimaryStep ==
  LinksInv /\ HolderIsPrimary /\ HolderIsPrimary' /\ [Next]_vars
    => [Primary!Next]_Holder
  <1> SUFFICES ASSUME LinksInv, HolderIsPrimary, HolderIsPrimary', [Next]_vars
               PROVE  Primary!Next \/ Holder' = Holder
    OBVIOUS
  <1>0. TypeOK /\ NothingDangles /\ OnePrimary
    BY DEF LinksInv, TypeInv
  <1>1. CASE links' \subseteq links
    BY <1>1, Shrinks DEF IsPrimary, LinksTo
  <1>2. ASSUME NEW b \in Account, AddsTo(b)
        PROVE  Primary!Next
    <2>1. /\ links \subseteq links' /\ links' \subseteq Link
          /\ \A k \in links' \ links : k.account = b /\ (k.primary => ~HasPrimary(b))
          /\ \A k, o \in links' \ links : k.primary /\ o.primary => k = o
      BY <1>2 DEF AddsTo
    <2>2. CASE \E k \in links' \ links : k.primary
      <3>1. PICK k \in links' \ links : k.primary
        BY <2>2
      <3>2. k.contact \in Contact /\ k.account = b /\ ~HasPrimary(b)
        BY <2>1, <3>1 DEF Link
      <3>3. PICK o \in Contact : o = k.contact
        BY <3>2
      <3>4. IsPrimary(o, b)'
        BY <3>1, <3>2, <3>3 DEF IsPrimary, LinksTo
      <3>5. \A c \in Contact : ~IsPrimary(c, b)
        BY <3>2 DEF IsPrimary, LinksTo, HasPrimary, LinksOf
      <3>6. \A a \in Account, c \in Contact :
              a # b => (IsPrimary(c, a)' <=> IsPrimary(c, a))
        BY <2>1 DEF IsPrimary, LinksTo
      <3> QED
        BY <3>4, <3>5, <3>6, Takes
    <2>3. CASE ~\E k \in links' \ links : k.primary
      <3>1. \A a \in Account, c \in Contact : IsPrimary(c, a)' => IsPrimary(c, a)
        BY <2>3 DEF IsPrimary, LinksTo
      <3> QED
        BY <3>1, Shrinks
    <2> QED
      BY <2>2, <2>3
  <1>3. ASSUME NEW s \in Session, LinkInserted(s)
        PROVE  Primary!Next
    <2>1. PICK k :
            /\ k \in Link /\ links' = links \cup {k}
            /\ k.primary => ~HasPrimary(k.account)
      BY <1>3 DEF LinkInserted
    <2>2. k.contact \in Contact /\ k.account \in Account
      BY <2>1 DEF Link
    <2>3. CASE k.primary
      <3>1. PICK b \in Account, o \in Contact : b = k.account /\ o = k.contact
        BY <2>2
      <3>2. IsPrimary(o, b)'
        BY <2>1, <2>3, <3>1 DEF IsPrimary, LinksTo
      <3>3. \A c \in Contact : ~IsPrimary(c, b)
        BY <2>1, <2>3, <3>1 DEF IsPrimary, LinksTo, HasPrimary, LinksOf
      <3>4. \A a \in Account, c \in Contact :
              a # b => (IsPrimary(c, a)' <=> IsPrimary(c, a))
        BY <2>1, <3>1 DEF IsPrimary, LinksTo
      <3> QED
        BY <3>2, <3>3, <3>4, Takes
    <2>4. CASE ~k.primary
      <3>1. \A a \in Account, c \in Contact : IsPrimary(c, a)' => IsPrimary(c, a)
        BY <2>1, <2>4 DEF IsPrimary, LinksTo
      <3> QED
        BY <3>1, Shrinks
    <2> QED
      BY <2>3, <2>4
  <1>4. ASSUME NEW s \in Session, FlagSet(s)
        PROVE  Primary!Next
    <2>1. PICK q, flag :
            /\ flag \in BOOLEAN /\ q.account \in Account /\ q.contact \in Contact
            /\ flag => PrimaryAllowed(q)
            /\ \A k \in links : \E m \in links' :
                 /\ m.id = k.id /\ m.contact = k.contact /\ m.account = k.account
                 /\ m.primary = IF SameLink(q, k) THEN flag ELSE k.primary
                 /\ ~SameLink(q, k) => m = k
            /\ \A m \in links' : \E k \in links :
                 /\ m.id = k.id /\ m.contact = k.contact /\ m.account = k.account
                 /\ m.primary = IF SameLink(q, k) THEN flag ELSE k.primary
                 /\ ~SameLink(q, k) => m = k
      BY <1>4, FlagSetLinks DEF FlagSet
    <2>2. \A a \in Account, c \in Contact :
            ~(a = q.account /\ c = q.contact) => (IsPrimary(c, a)' <=> IsPrimary(c, a))
      BY <2>1 DEF IsPrimary, LinksTo, SameLink
    <2>3. CASE flag /\ ~IsPrimary(q.contact, q.account) /\ \E k \in links : SameLink(q, k)
      <3>1. PICK b \in Account, o \in Contact : b = q.account /\ o = q.contact
        BY <2>1
      <3>2. \A c \in Contact : ~IsPrimary(c, b)
        BY <2>1, <2>3, <3>1 DEF IsPrimary, LinksTo, PrimaryAllowed, LinksOf, SameLink
      <3>3. IsPrimary(o, b)'
        <4>1. PICK k \in links : SameLink(q, k)
          BY <2>3
        <4>2. PICK m \in links' :
                m.contact = k.contact /\ m.account = k.account /\ m.primary = flag
          BY <2>1, <4>1
        <4>3. m.contact = o /\ m.account = b /\ m.primary
          BY <2>3, <3>1, <4>1, <4>2 DEF SameLink
        <4> QED
          BY <4>3 DEF IsPrimary, LinksTo
      <3>4. \A a \in Account, c \in Contact :
              a # b => (IsPrimary(c, a)' <=> IsPrimary(c, a))
        BY <2>2, <3>1
      <3> QED
        BY <3>2, <3>3, <3>4, Takes
    <2>4. CASE ~(flag /\ ~IsPrimary(q.contact, q.account) /\ \E k \in links : SameLink(q, k))
      <3>1. \A a \in Account, c \in Contact : IsPrimary(c, a)' => IsPrimary(c, a)
        BY <2>1, <2>4 DEF IsPrimary, LinksTo, SameLink
      <3> QED
        BY <3>1, Shrinks
    <2> QED
      BY <2>3, <2>4
  <1> QED
    BY <1>1, <1>2, <1>3, <1>4, LinksChange

(* No request replaces an account's primary contact by another: under any  *)
(* interleaving the flags take only steps of PrimaryContact.               *)
THEOREM PrimaryPlaceHeld == Spec => PrimaryPlaceKept
  <1>1. Init => Primary!Init
    BY DEF Init, Primary!Init, Holder, HasPrimary, LinksOf
  <1>2. LinksInv' => HolderIsPrimary'
    BY HolderFollowsLinks, PTL
  <1>3. LinksInv /\ LinksInv' /\ [Next]_vars => [Primary!Next]_Holder
    BY <1>2, HolderFollowsLinks, PrimaryStep
  <1> QED
    BY <1>1, <1>3, LinksAreSound, PTL DEF Spec, PrimaryPlaceKept, Primary!Spec

-----------------------------------------------------------------------------
(* The account shown beside a contact.                                     *)

LEMMA OldestIsOldest ==
  ASSUME NEW L \in SUBSET Link, L # {}
  PROVE  Oldest(L) \in L /\ \A o \in L : Oldest(L).id <= o.id
  <1> DEFINE T == {k.id : k \in L}
  <1>1. \A k \in L : k.id \in 0..MaxLinks
    BY BoundsAssumption DEF Link, LinkId
  <1>2. T \in SUBSET (0..MaxLinks) /\ T # {}
    BY <1>1
  <1> HIDE DEF T
  <1>3. PICK n \in T : \A x \in T : n <= x
    BY <1>2, BoundsAssumption, HasMin
  <1>4. \E k \in L : \A o \in L : k.id <= o.id
    BY <1>3 DEF T
  <1> QED
    BY <1>4 DEF Oldest

(* Primary links come before others, and older ones before newer ones.     *)
First(k) ==
  \A o \in links : o.contact = k.contact =>
    /\ o.primary => k.primary
    /\ (o.primary <=> k.primary) => k.id <= o.id

FirstIsShown ==
  \A c \in Contact, a \in Account :
    Representative(c) = a =>
      \E k \in links : k.contact = c /\ k.account = a /\ First(k)

LEMMA RepresentativeIsFirst == LinksInv => FirstIsShown
  <1> SUFFICES ASSUME LinksInv, NEW c \in Contact, NEW a \in Account,
                      Representative(c) = a
               PROVE  \E k \in links : k.contact = c /\ k.account = a /\ First(k)
    BY DEF FirstIsShown
  <1> DEFINE primaries == {k \in LinksTo(c) : k.primary}
             shown == IF primaries # {} THEN primaries ELSE LinksTo(c)
  <1>1. shown \in SUBSET Link /\ shown \subseteq LinksTo(c)
    BY DEF LinksInv, TypeInv, TypeOK, LinksTo
  <1>2. shown # {} /\ Oldest(shown).account = a
    BY NullAssumption DEF Representative
  <1> DEFINE k == Oldest(shown)
  <1>3. k \in shown /\ \A o \in shown : k.id <= o.id
    <2> HIDE DEF shown
    <2> QED
      BY <1>1, <1>2, OldestIsOldest
  <1>4. k \in links /\ k.contact = c
    BY <1>1, <1>3 DEF LinksTo
  <1>5. \A o \in LinksTo(c) : o.primary => primaries # {} /\ o \in shown
    OBVIOUS
  <1>6. \A o \in LinksTo(c) : ~k.primary => o \in shown /\ ~o.primary
    BY <1>3
  <1>7. primaries # {} => k.primary
    BY <1>3
  <1> HIDE DEF k
  <1> HIDE DEF shown
  <1> HIDE DEF primaries
  <1>8. First(k)
    BY <1>3, <1>4, <1>5, <1>6, <1>7 DEF First, LinksTo
  <1> QED
    BY <1>2, <1>4, <1>8 DEF k

(* It changes only where RepresentativeStable says.                        *)
LEMMA RepresentativeMoves ==
  ASSUME LinksInv, FirstIsShown, FirstIsShown', [Next]_vars,
         NEW c \in Contact, NEW a \in Account, NEW b \in Account,
         a # b, Representative(c) = a, Representative(c)' = b
  PROVE  \/ ~IsLinked(c, a)'
         \/ IsPrimary(c, a) /\ ~IsPrimary(c, a)'
         \/ IsPrimary(c, b)' /\ ~IsPrimary(c, b)
         \/ \E s \in Session, k \in LinksTo(c) :
              k.account = a /\ CommitLink(s) /\ txs[s].flag = Absent /\ txs[s].id < k.id
  <1>1. PICK k \in links : k.contact = c /\ k.account = a /\ First(k)
    BY DEF FirstIsShown
  <1>2. PICK m \in links' :
          /\ m.contact = c /\ m.account = b
          /\ \A o \in links' : o.contact = c =>
               /\ o.primary => m.primary
               /\ (o.primary <=> m.primary) => m.id <= o.id
    BY DEF FirstIsShown, First
  <1>3. /\ TypeOK /\ NothingDangles /\ OnePrimary
        /\ \A o, p \in links : o.id = p.id => o = p
        /\ \A o \in links : o \in Link /\ o.id \in Int /\ o.primary \in BOOLEAN
    BY DEF LinksInv, TypeInv, TypeOK, DistinctIds, Link, LinkId
  <1>4. /\ k \in LinksTo(c)
        /\ \A o \in links : o.contact = c =>
             /\ o.primary => k.primary
             /\ (o.primary <=> k.primary) => k.id <= o.id
    BY <1>1 DEF First, LinksTo
  <1>5. ~(k \in links' /\ m \in links)
    BY <1>1, <1>2, <1>3, <1>4
  <1>6. CASE links' \subseteq links
    <2>1. \A o \in links' : ~(o.contact = c /\ o.account = a)
      <3>1. \A o \in links : o.contact = c /\ o.account = a => o = k
        BY <1>1, <1>3 DEF OnePrimary, SameLink
      <3> QED
        BY <1>2, <1>5, <1>6, <3>1
    <2> QED
      BY <2>1 DEF IsLinked, LinksTo
  <1>7. ASSUME NEW e \in Account, AddsTo(e)
        PROVE  FALSE
    <2>1. contacts[c] # Absent
      BY <1>1, <1>3 DEF NothingDangles, ContactExists, NoRow
    <2> QED
      BY <1>1, <1>2, <1>5, <1>7, <2>1 DEF AddsTo
  <1>8. ASSUME NEW s \in Session, LinkInserted(s)
        PROVE  \/ IsPrimary(c, b)' /\ ~IsPrimary(c, b)
               \/ k.account = a /\ CommitLink(s) /\ txs[s].flag = Absent /\ txs[s].id < k.id
    <2>1. PICK n \in Link :
            /\ n.id = txs[s].id /\ links' = links \cup {n}
            /\ \A o \in links : ~SameLink(n, o) /\ o.id # n.id
      BY <1>8 DEF LinkInserted, SameLink
    <2>2. m = n /\ k \in links' /\ n.id \in Int /\ n.primary \in BOOLEAN
      BY <1>2, <1>5, <2>1 DEF Link, LinkId
    <2>3. CASE n.primary
      <3>1. IsPrimary(c, b)'
        BY <1>2, <2>2, <2>3 DEF IsPrimary, LinksTo
      <3>2. ~IsPrimary(c, b)
        BY <1>2, <2>1, <2>2 DEF IsPrimary, LinksTo, SameLink
      <3> QED
        BY <3>1, <3>2
    <2>4. CASE ~n.primary
      <3>1. ~k.primary
        BY <1>1, <1>2, <2>2, <2>4
      <3>2. n.id <= k.id /\ n.id # k.id
        BY <1>1, <1>2, <2>1, <2>2, <2>4, <3>1
      <3>3. n.id < k.id
        BY <1>3, <2>2, <3>2
      <3> QED
        BY <1>1, <1>8, <2>1, <3>3 DEF LinkInserted
    <2> QED
      BY <2>2, <2>3, <2>4
  <1>9. ASSUME NEW s \in Session, FlagSet(s)
        PROVE  \/ IsPrimary(c, a) /\ ~IsPrimary(c, a)'
               \/ IsPrimary(c, b)' /\ ~IsPrimary(c, b)
    <2> DEFINE q == txs[s].req
               flag == FlagWanted(txs[s])
    <2>1. /\ \A o \in links : \E p \in links' :
               /\ p.id = o.id /\ p.contact = o.contact /\ p.account = o.account
               /\ p.primary = IF SameLink(q, o) THEN flag ELSE o.primary
          /\ \A p \in links' : \E o \in links :
               /\ p.id = o.id /\ p.contact = o.contact /\ p.account = o.account
               /\ p.primary = IF SameLink(q, o) THEN flag ELSE o.primary
      BY <1>9, FlagSetLinks
    <2> HIDE DEF q
    <2> HIDE DEF flag
    <2>2. PICK k1 \in links' :
            /\ k1.id = k.id /\ k1.contact = c /\ k1.account = a
            /\ k1.primary = IF SameLink(q, k) THEN flag ELSE k.primary
      BY <1>1, <2>1
    <2>3. PICK m0 \in links : m0.id = m.id /\ m0.contact = c /\ m0.account = b
      BY <1>2, <2>1
    <2>4. k.id < m0.id \/ ~(k.primary <=> m0.primary)
      BY <1>1, <1>3, <1>4, <2>3
    <2>5. m.id <= k1.id \/ ~(m.primary <=> k1.primary)
      BY <1>2, <2>2
    <2>6. /\ m0.primary => k.primary
          /\ k1.primary => m.primary
      BY <1>2, <1>4, <2>2, <2>3
    <2>7. (k.primary /\ ~k1.primary) \/ (m.primary /\ ~m0.primary)
      <3>1. m.id = m0.id /\ k1.id = k.id /\ m0.id \in Int /\ k.id \in Int
        BY <1>3, <2>2, <2>3
      <3>2. ~(k.id < m0.id /\ m.id <= k1.id)
        BY <3>1
      <3> QED
        BY <2>4, <2>5, <2>6, <3>2
    <2>8. \A o \in links : o.contact = c /\ o.account = b => o = m0
      BY <1>3, <2>3 DEF OnePrimary, SameLink
    <2>9. \A p \in links' : p.contact = c /\ p.account = a => (p.primary <=> k1.primary)
      BY <1>1, <1>3, <2>1, <2>2 DEF OnePrimary, SameLink
    <2> QED
      BY <1>1, <1>2, <2>2, <2>3, <2>7, <2>8, <2>9 DEF IsPrimary, LinksTo
  <1> QED
    BY <1>4, <1>6, <1>7, <1>8, <1>9, LinksChange

(* The account shown beside a contact moves with its link's deletion or    *)
(* demotion, with another link's promotion, or to a link an overlapping    *)
(* request had inserted before, and never otherwise.                       *)
THEOREM RepresentativeStays == Spec => RepresentativeStable
  <1>1. LinksInv' => FirstIsShown'
    BY RepresentativeIsFirst, PTL
  <1>2. LinksInv /\ LinksInv' /\ [Next]_vars =>
          [\A c \in Contact, a, b \in Account :
             a # b /\ Representative(c) = a /\ Representative(c)' = b =>
               \/ ~IsLinked(c, a)'
               \/ IsPrimary(c, a) /\ ~IsPrimary(c, a)'
               \/ IsPrimary(c, b)' /\ ~IsPrimary(c, b)
               \/ \E s \in Session, k \in LinksTo(c) :
                    k.account = a /\ CommitLink(s) /\ txs[s].flag = Absent
                      /\ txs[s].id < k.id]_vars
    BY <1>1, RepresentativeIsFirst, RepresentativeMoves
  <1> QED
    BY <1>2, LinksAreSound, PTL DEF Spec, RepresentativeStable
=============================================================================

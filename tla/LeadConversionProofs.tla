------------------------ MODULE LeadConversionProofs ------------------------
(***************************************************************************)
(* Theorems about LeadConversion, for every set of sessions, leads,        *)
(* accounts, contacts, addresses, users and requests and every bound on    *)
(* inserts.  The instances of the runs are too small to say much of many   *)
(* conversions that share contacts; the proofs do not depend on how many.  *)
(***************************************************************************)
EXTENDS LeadConversion, TLAPS

(* A conversion goes on only with somebody to own the account.             *)
OwnerFound ==
  \A s \in Session :
    txs[s].phase # "idle" /\ txs[s].req.op = "convert"
      => ResolvedOwner(txs[s]) \in User

TypeInv == TypeOK /\ OwnerFound

-----------------------------------------------------------------------------
(* Rows and requests.                                                      *)

LEMMA ActiveTx ==
  ASSUME TypeOK, NEW s \in Session, txs[s].phase # "idle"
  PROVE  /\ txs[s] \in Tx
         /\ txs[s].req \in Request
         /\ txs[s].row \in LeadRow
         /\ txs[s].known \subseteq AddressRow
         /\ txs[s].match \in [Email -> Contact \cup {None}]
         /\ txs[s].req.lead \in Lead
         /\ txs[s].req.email \in Email \cup {Unset}
         /\ txs[s].req.owner \in User \cup {None, Unset}
         /\ txs[s].req.contacts \in {Unset} \cup SUBSET Email
  <1>1. txs[s] \in Tx \cup {Idle}
    BY DEF TypeOK
  <1>2. txs[s] \in Tx
    BY <1>1 DEF Idle
  <1>3. txs[s].req \in Request
    BY <1>2, RequestAssumption DEF Tx
  <1> QED
    BY <1>2, <1>3 DEF Tx, Request

LEMMA LeadRowRead ==
  ASSUME TypeOK, NEW l \in Lead, LeadExists(l)
  PROVE  leads[l] \in LeadRow
  BY DEF TypeOK, LeadExists

(* After setattr, and after the UPDATE on top of a newer row, a lead is a  *)
(* lead; the UPDATE never writes the flag, and writes an owner only where  *)
(* the request changes the one it read.                                    *)
LEMMA RowViews ==
  ASSUME NEW t, t.row \in LeadRow,
         t.req.email \in Email \cup {Unset},
         t.req.owner \in User \cup {None, Unset}
  PROVE  /\ InMemory(t) \in LeadRow
         /\ \A current \in LeadRow :
              /\ Flushed(t, current) \in LeadRow
              /\ Flushed(t, current).converted = current.converted
              /\ Flushed(t, current).owner # current.owner
                   => /\ t.req.owner # Unset
                      /\ t.req.owner # t.row.owner
                      /\ Flushed(t, current).owner = t.req.owner
  <1>1. InMemory(t) \in LeadRow
    BY DEF InMemory, LeadRow
  <1>2. InMemory(t).owner = IF t.req.owner = Unset THEN t.row.owner ELSE t.req.owner
    BY DEF InMemory, LeadRow
  <1> QED
    BY <1>1, <1>2 DEF Flushed, LeadRow

LEMMA NewAddresses ==
  ASSUME TypeOK, NEW kept, kept \subseteq addresses, NEW l \in Lead,
         NEW E \in SUBSET Email, InsertAddresses(kept, l, E)
  PROVE  /\ flushes' \in 0..MaxFlushes
         /\ addresses' \subseteq AddressRow
         /\ \A r \in addresses' : r \in kept \/ r.lead = l
  <1>1. flushes' \in 1..MaxFlushes
    BY BoundAssumption DEF InsertAddresses, TypeOK
  <1>2. \A e \in E : /\ [flush |-> flushes', lead |-> l, email |-> e] \in AddressRow
                     /\ [flush |-> flushes', lead |-> l, email |-> e].lead = l
    BY <1>1 DEF AddressRow
  <1> QED
    BY <1>1, <1>2 DEF InsertAddresses, TypeOK

LEMMA FinishTyped ==
  ASSUME TypeInv, NEW s \in Session, Finish(s)
  PROVE  /\ txs' \in [Session -> Tx \cup {Idle}]
         /\ OwnerFound'
  <1>1. txs' \in [Session -> Tx \cup {Idle}]
    BY DEF Finish, TypeInv, TypeOK
  <1>2. \A o \in Session : txs'[o] = IF o = s THEN Idle ELSE txs[o]
    BY DEF Finish, TypeInv, TypeOK
  <1>3. OwnerFound'
    BY <1>2 DEF TypeInv, OwnerFound, ResolvedOwner, Idle
  <1> QED
    BY <1>1, <1>3

-----------------------------------------------------------------------------
(* What a conversion writes.  person and fresh are as in ConvertLead.      *)

Fresh(t) == {e \in Carried(t) : t.match[e] = None}

Person(t, made) ==
  [e \in Carried(t) |-> IF t.match[e] = None THEN made[e] ELSE t.match[e]]

LEMMA CarriedAddresses ==
  ASSUME TypeOK, NEW s \in Session, txs[s].phase # "idle"
  PROVE  Carried(txs[s]) \subseteq Email /\ Fresh(txs[s]) \subseteq Email
  BY ActiveTx DEF Carried, Fresh, AddressRow, LeadRow

(* The contacts linked are there once the conversion commits, those found  *)
(* and those made, and nobody's contact is taken away or readdressed.      *)
LEMMA Conversion ==
  ASSUME TypeOK, NEW s \in Session, NEW a \in Account,
         NEW made \in [Email -> Contact], ConvertLead(s, a, made)
  PROVE  LET t == txs[s] IN
         /\ t.req.lead \in Lead /\ LeadExists(t.req.lead)
         /\ contacts' \in [Contact -> Email \cup NoRow]
         /\ \A c \in Contact : ContactExists(c) => ContactExists(c)'
         /\ \A k \in links' :
              \/ k \in links
              \/ k \in Link /\ k.account = a /\ ContactExists(k.contact)'
  <1> DEFINE t == txs[s]
  <1>1. /\ t.phase = "flushed" /\ t.req.op = "convert"
        /\ accounts[a] = Absent
        /\ LeadExists(t.req.lead)
        /\ \A e \in Carried(t) \ Fresh(t) : ContactExists(Person(t, made)[e])
        /\ \A e \in Fresh(t) : NoContactWith(e) /\ contacts[made[e]] = Absent
        /\ contacts' = [c \in Contact |->
                          IF \E e \in Fresh(t) : made[e] = c
                          THEN CHOOSE e \in Fresh(t) : made[e] = c
                          ELSE contacts[c]]
        /\ links' = links \cup
             {[contact |-> Person(t, made)[e], account |-> a,
               primary |-> (e = t.row.email)] : e \in Carried(t)}
    BY DEF ConvertLead, Fresh, Person
  <1>2. /\ t.req.lead \in Lead
        /\ t.match \in [Email -> Contact \cup {None}]
    BY <1>1, ActiveTx
  <1>3. Carried(t) \subseteq Email /\ Fresh(t) \subseteq Email
    BY <1>1, CarriedAddresses
  <1>4. \A c \in Contact :
          \/ contacts'[c] \in Email
          \/ (\A e \in Fresh(t) : made[e] # c) /\ contacts'[c] = contacts[c]
    BY <1>1, <1>3
  <1>5. contacts' \in [Contact -> Email \cup NoRow]
    BY <1>1, <1>4 DEF TypeOK
  <1>6. \A c \in Contact : ContactExists(c) => contacts'[c] \notin NoRow
    BY <1>4, NullAssumption DEF ContactExists
  <1>7. \A e \in Carried(t) : /\ Person(t, made)[e] \in Contact
                              /\ contacts'[Person(t, made)[e]] \notin NoRow
    <2> SUFFICES ASSUME NEW e \in Carried(t)
                 PROVE  /\ Person(t, made)[e] \in Contact
                        /\ contacts'[Person(t, made)[e]] \notin NoRow
      OBVIOUS
    <2>1. CASE e \in Fresh(t)
      <3>1. Person(t, made)[e] = made[e] /\ made[e] \in Contact
        BY <2>1, <1>3 DEF Person, Fresh
      <3>2. contacts'[made[e]] \in Email
        BY <2>1, <3>1, <1>4
      <3> QED
        BY <3>1, <3>2, NullAssumption
    <2>2. CASE e \notin Fresh(t)
      <3>1. Person(t, made)[e] = t.match[e] /\ t.match[e] \in Contact
        BY <2>2, <1>2, <1>3 DEF Person, Fresh
      <3>2. ContactExists(Person(t, made)[e])
        BY <2>2, <1>1
      <3> QED
        BY <3>1, <3>2, <1>6
    <2> QED
      BY <2>1, <2>2
  <1>8. \A k \in links' :
          \/ k \in links
          \/ k \in Link /\ k.account = a /\ ContactExists(k.contact)'
    <2> SUFFICES ASSUME NEW e \in Carried(t),
                        NEW k, k = [contact |-> Person(t, made)[e], account |-> a,
                                    primary |-> (e = t.row.email)]
                 PROVE  k \in Link /\ k.account = a /\ ContactExists(k.contact)'
      BY <1>1
    <2>1. k.contact = Person(t, made)[e] /\ k.account = a
      OBVIOUS
    <2>2. ContactExists(k.contact)'
      BY <2>1, <1>7 DEF ContactExists
    <2>3. (e = t.row.email) \in BOOLEAN
      OBVIOUS
    <2>4. k \in Link
      BY <1>7, <2>3 DEF Link
    <2> QED
      BY <2>1, <2>2, <2>4
  <1> QED
    BY <1>1, <1>2, <1>5, <1>6, <1>8 DEF ContactExists

-----------------------------------------------------------------------------
(* Type correctness.                                                       *)

LEMMA InitTypeInv == Init => TypeInv
  BY BoundAssumption DEF Init, TypeInv, TypeOK, OwnerFound, Idle, NoRow

LEMMA LoadTyped ==
  ASSUME TypeInv, NEW s \in Session, NEW q \in Requests, LoadLead(s, q)
  PROVE  TypeInv'
  <1> DEFINE t == [phase |-> "loaded", req |-> q, row |-> leads[q.lead],
                   known |-> {}, match |-> [e \in Email |-> None]]
  <1>1. /\ q.lead \in Lead /\ leads[q.lead] \in LeadRow
        /\ q.owner \in User \cup {None, Unset}
    BY LeadRowRead, RequestAssumption DEF LoadLead, TypeInv, Request
  <1>2. t \in Tx
    BY <1>1 DEF Tx
  <1>3. txs' = [txs EXCEPT ![s] = t] /\ UNCHANGED tables
    BY DEF LoadLead
  <1>4. TypeOK'
    BY <1>2, <1>3 DEF TypeInv, TypeOK, tables
  <1>5. q.op = "convert" => ResolvedOwner(t) \in User
    <2> SUFFICES ASSUME q.op = "convert" PROVE ResolvedOwner(t) \in User
      OBVIOUS
    <2>1. q.owner # None /\ ResolvedOwner(t) # None
      BY RequestAssumption DEF LoadLead
    <2>2. t.row.owner \in User \cup {None}
      BY <1>1 DEF LeadRow
    <2> QED
      BY <2>1, <2>2, <1>1 DEF ResolvedOwner
  <1>6. \A o \in Session : txs'[o] = IF o = s THEN t ELSE txs[o]
    BY <1>3 DEF TypeInv, TypeOK
  <1>7. t.req.op = q.op
    OBVIOUS
  <1>8. OwnerFound'
    <2> SUFFICES ASSUME NEW o \in Session, txs'[o].phase # "idle",
                        txs'[o].req.op = "convert"
                 PROVE  ResolvedOwner(txs'[o]) \in User
      BY DEF OwnerFound, ResolvedOwner
    <2> QED
      BY <1>5, <1>6, <1>7 DEF TypeInv, OwnerFound
  <1> QED
    BY <1>4, <1>8 DEF TypeInv

LEMMA FlushTyped ==
  ASSUME TypeInv, NEW s \in Session, FlushLead(s)
  PROVE  TypeInv'
  <1> DEFINE t == txs[s]
             known == AddressesOf(t.req.lead)
             match == [e \in Email |-> ContactFor(e)]
             u == [t EXCEPT !.phase = "flushed", !.known = known, !.match = match]
  <1>1. t \in Tx /\ t.phase = "loaded"
    BY ActiveTx DEF FlushLead, TypeInv
  <1>2. txs' = [txs EXCEPT ![s] = u] /\ UNCHANGED tables
    BY DEF FlushLead
  <1>3. known \subseteq AddressRow
    BY DEF AddressesOf, TypeInv, TypeOK
  <1>4. match \in [Email -> Contact \cup {None}]
    BY DEF ContactFor, NoContactWith
  <1>5. u \in Tx /\ u.req = t.req /\ u.row = t.row
    BY <1>1, <1>3, <1>4 DEF Tx
  <1>6. TypeOK'
    BY <1>2, <1>5 DEF TypeInv, TypeOK, tables
  <1>7. \A o \in Session : txs'[o] = IF o = s THEN u ELSE txs[o]
    BY <1>2 DEF TypeInv, TypeOK
  <1>8. ResolvedOwner(u) = ResolvedOwner(t)
    BY <1>5 DEF ResolvedOwner
  <1>9. OwnerFound'
    <2> SUFFICES ASSUME NEW o \in Session, txs'[o].phase # "idle",
                        txs'[o].req.op = "convert"
                 PROVE  ResolvedOwner(txs'[o]) \in User
      BY DEF OwnerFound, ResolvedOwner
    <2>1. CASE o = s
      <3>1. t.phase # "idle" /\ t.req.op = "convert"
        BY <2>1, <1>1, <1>5, <1>7
      <3> QED
        BY <2>1, <3>1, <1>7, <1>8 DEF TypeInv, OwnerFound
    <2>2. CASE o # s
      BY <2>2, <1>7 DEF TypeInv, OwnerFound
    <2> QED
      BY <2>1, <2>2
  <1> QED
    BY <1>6, <1>9 DEF TypeInv

LEMMA UpdateTyped ==
  ASSUME TypeInv, NEW s \in Session, UpdateLead(s)
  PROVE  TypeInv'
  <1> DEFINE t == txs[s]
             l == t.req.lead
  <1>1. t.phase = "flushed" /\ LeadExists(l)
    BY DEF UpdateLead
  <1>2. /\ t.row \in LeadRow /\ t.known \subseteq AddressRow /\ l \in Lead
        /\ t.req.email \in Email \cup {Unset}
        /\ t.req.owner \in User \cup {None, Unset}
        /\ t.req.contacts \in {Unset} \cup SUBSET Email
    BY <1>1, ActiveTx DEF TypeInv
  <1>3. Flushed(t, leads[l]) \in LeadRow
    BY <1>1, <1>2, LeadRowRead, RowViews DEF TypeInv
  <1>4. leads' \in [Lead -> LeadRow \cup NoRow]
    BY <1>3 DEF UpdateLead, TypeInv, TypeOK
  <1>5. /\ flushes' \in 0..MaxFlushes
        /\ addresses' \subseteq AddressRow
        /\ added' \in [Lead -> SUBSET Email]
    <2>1. CASE t.req.contacts = Unset
      BY <2>1 DEF UpdateLead, TypeInv, TypeOK
    <2>2. CASE t.req.contacts # Unset
      <3>1. t.req.contacts \in SUBSET Email
        BY <2>2, <1>2
      <3>2. /\ InsertAddresses(addresses \ Additional(t), l, t.req.contacts)
            /\ added' = [added EXCEPT ![l] = t.req.contacts]
        BY <2>2 DEF UpdateLead
      <3>3. flushes' \in 0..MaxFlushes /\ addresses' \subseteq AddressRow
        BY <3>1, <3>2, <1>2, NewAddresses DEF TypeInv
      <3> QED
        BY <3>1, <3>2, <3>3 DEF TypeInv, TypeOK
    <2> QED
      BY <2>1, <2>2
  <1>6. told' \subseteq Notice
    BY DEF UpdateLead, Assigned, Notice
  <1> QED
    BY <1>4, <1>5, <1>6, FinishTyped DEF UpdateLead, TypeInv, TypeOK

LEMMA ConvertTyped ==
  ASSUME TypeInv, NEW s \in Session, NEW a \in Account,
         NEW made \in [Email -> Contact], ConvertLead(s, a, made)
  PROVE  TypeInv'
  <1> DEFINE t == txs[s]
             l == t.req.lead
  <1>1. t.phase # "idle" /\ t.req.op = "convert"
    BY DEF ConvertLead
  <1>2. ResolvedOwner(t) \in User
    BY <1>1 DEF TypeInv, OwnerFound
  <1>3. /\ l \in Lead /\ LeadExists(l)
        /\ contacts' \in [Contact -> Email \cup NoRow]
        /\ links' \subseteq Link
    BY Conversion DEF TypeInv, TypeOK
  <1>4. accounts' \in [Account -> AccountRow \cup NoRow]
    <2>1. [source |-> l, owner |-> ResolvedOwner(t)] \in AccountRow
      BY <1>2, <1>3 DEF AccountRow
    <2>2. accounts' = [accounts EXCEPT
                         ![a] = [source |-> l, owner |-> ResolvedOwner(t)]]
      BY DEF ConvertLead
    <2> QED
      BY <2>1, <2>2 DEF TypeInv, TypeOK
  <1>5. leads' \in [Lead -> LeadRow \cup NoRow]
    <2>1. leads[l] \in LeadRow
      BY <1>3, LeadRowRead DEF TypeInv
    <2>2. [leads[l] EXCEPT !.converted = TRUE] \in LeadRow
      BY <2>1 DEF LeadRow
    <2>3. leads' = [leads EXCEPT ![l] = [leads[l] EXCEPT !.converted = TRUE]]
      BY DEF ConvertLead
    <2> QED
      BY <2>2, <2>3 DEF TypeInv, TypeOK
  <1>6. told' \subseteq Notice
    BY <1>2 DEF ConvertLead, Notice
  <1>7. UNCHANGED <<addresses, flushes, added>> /\ Finish(s)
    BY DEF ConvertLead
  <1> QED
    BY <1>3, <1>4, <1>5, <1>6, <1>7, FinishTyped DEF TypeInv, TypeOK

LEMMA CreateTyped ==
  ASSUME TypeInv, NEW l \in Lead, NEW b \in NewLeads, CreateLead(l, b)
  PROVE  /\ TypeInv'
         /\ \A r \in addresses' : r \in addresses \/ r.lead = l
  <1>1. /\ b.email \in Email /\ b.owner \in User \cup {None}
        /\ b.contacts \subseteq Email
    BY RequestAssumption DEF NewLead
  <1>2. leads' \in [Lead -> LeadRow \cup NoRow]
    <2>1. [email |-> b.email, owner |-> b.owner, converted |-> FALSE] \in LeadRow
      BY <1>1 DEF LeadRow
    <2> QED
      BY <2>1 DEF CreateLead, TypeInv, TypeOK
  <1>3. InsertAddresses(addresses, l, {b.email} \cup b.contacts)
    BY DEF CreateLead
  <1>4. /\ flushes' \in 0..MaxFlushes /\ addresses' \subseteq AddressRow
        /\ \A r \in addresses' : r \in addresses \/ r.lead = l
    BY <1>1, <1>3, NewAddresses DEF TypeInv
  <1>5. added' \in [Lead -> SUBSET Email] /\ told' \subseteq Notice
    BY <1>1, NotifiableAssumption DEF CreateLead, Notice, TypeInv, TypeOK
  <1>6. UNCHANGED <<accounts, contacts, links, txs>>
    BY DEF CreateLead
  <1> QED
    BY <1>2, <1>4, <1>5, <1>6 DEF TypeInv, TypeOK, OwnerFound, ResolvedOwner

LEMMA TypeInvStep == TypeInv /\ [Next]_vars => TypeInv'
  <1> SUFFICES ASSUME TypeInv, [Next]_vars PROVE TypeInv'
    OBVIOUS
  <1>1. CASE UNCHANGED vars
    BY <1>1 DEF vars, TypeInv, TypeOK, OwnerFound, ResolvedOwner
  <1>2. ASSUME NEW l \in Lead, NEW b \in NewLeads, CreateLead(l, b) PROVE TypeInv'
    BY <1>2, CreateTyped
  <1>3. ASSUME NEW l \in Lead, DeleteLead(l) PROVE TypeInv'
    BY <1>3 DEF DeleteLead, NoRow, TypeInv, TypeOK, OwnerFound, ResolvedOwner
  <1>4. ASSUME NEW s \in Session, NEW q \in Requests, LoadLead(s, q) PROVE TypeInv'
    BY <1>4, LoadTyped
  <1>5. ASSUME NEW s \in Session, FlushLead(s) PROVE TypeInv'
    BY <1>5, FlushTyped
  <1>6. ASSUME NEW s \in Session, UpdateLead(s) PROVE TypeInv'
    BY <1>6, UpdateTyped
  <1>7. ASSUME NEW s \in Session, Rollback(s) PROVE TypeInv'
    BY <1>7, FinishTyped DEF Rollback, tables, TypeInv, TypeOK
  <1>8. ASSUME NEW s \in Session, NEW a \in Account, NEW made \in [Email -> Contact],
               ConvertLead(s, a, made)
        PROVE  TypeInv'
    BY <1>8, ConvertTyped
  <1>9. ASSUME NEW a \in Account, DeleteAccount(a) PROVE TypeInv'
    BY <1>9 DEF DeleteAccount, NoRow, TypeInv, TypeOK, OwnerFound, ResolvedOwner
  <1>10. ASSUME NEW c \in Contact, NEW e \in Email,
                CreateContact(c, e) \/ UpdateContact(c, e)
         PROVE  TypeInv'
    BY <1>10 DEF CreateContact, UpdateContact, TypeInv, TypeOK, OwnerFound, ResolvedOwner
  <1>11. ASSUME NEW c \in Contact, DeleteContact(c) PROVE TypeInv'
    BY <1>11 DEF DeleteContact, NoRow, TypeInv, TypeOK, OwnerFound, ResolvedOwner
  <1> QED
    BY <1>1, <1>2, <1>3, <1>4, <1>5, <1>6, <1>7, <1>8, <1>9, <1>10, <1>11 DEF Next

LEMMA TypeInvariant == Spec => []TypeInv
  BY InitTypeInv, TypeInvStep, PTL DEF Spec

(* Every variable keeps its type; in particular an account always has an   *)
(* owner, though the lead of its conversion may have had none.             *)
THEOREM TypeCorrect == Spec => []TypeOK
  <1>1. TypeInv => TypeOK
    BY DEF TypeInv
  <1> QED
    BY <1>1, TypeInvariant, PTL

-----------------------------------------------------------------------------
(* What each step does to the rows of leads.                               *)

(* A lead that is there and converted is so after the step, unless it is   *)
(* deleted, and then no account has it as its source.                      *)
LEMMA LeadsKept ==
  ASSUME TypeInv, [Next]_vars, NEW l \in Lead, LeadExists(l)
  PROVE  \/ leads'[l] = Deleted /\ Unsourced(l) /\ UNCHANGED accounts
         \/ LeadExists(l)' /\ (leads[l].converted => leads'[l].converted)
  <1> USE DEF TypeInv
  <1>0. leads[l] \in LeadRow
    BY LeadRowRead
  <1>1. CASE leads' = leads
    BY <1>1 DEF LeadExists
  <1>2. ASSUME NEW m \in Lead, NEW b \in NewLeads, CreateLead(m, b)
        PROVE  leads'[l] = leads[l]
    BY <1>2 DEF CreateLead, LeadExists, NoRow, TypeOK
  <1>3. ASSUME NEW m \in Lead, DeleteLead(m)
        PROVE  \/ leads'[l] = Deleted /\ Unsourced(l) /\ UNCHANGED accounts
               \/ leads'[l] = leads[l]
    BY <1>3 DEF DeleteLead, TypeOK
  <1>4. ASSUME NEW s \in Session, UpdateLead(s)
        PROVE  leads'[l] \in LeadRow /\ leads'[l].converted = leads[l].converted
    <2> DEFINE t == txs[s]
    <2>1. t.phase # "idle" /\ leads' = [leads EXCEPT ![t.req.lead] = Flushed(t, @)]
      BY <1>4 DEF UpdateLead
    <2>2. leads'[l] = IF l = t.req.lead THEN Flushed(t, leads[l]) ELSE leads[l]
      BY <2>1 DEF TypeOK
    <2>3. /\ Flushed(t, leads[l]) \in LeadRow
          /\ Flushed(t, leads[l]).converted = leads[l].converted
      BY <2>1, <1>0, ActiveTx, RowViews
    <2> QED
      BY <1>0, <2>2, <2>3
  <1>5. ASSUME NEW s \in Session, NEW a \in Account, NEW made \in [Email -> Contact],
               ConvertLead(s, a, made)
        PROVE  leads'[l] = leads[l] \/ leads'[l] = [leads[l] EXCEPT !.converted = TRUE]
    BY <1>5 DEF ConvertLead, TypeOK
  <1>6. \A row \in LeadRow : row \notin NoRow
    BY NullAssumption
  <1>7. [leads[l] EXCEPT !.converted = TRUE] \in LeadRow
        /\ [leads[l] EXCEPT !.converted = TRUE].converted
    BY <1>0 DEF LeadRow
  <1>8. CASE UNCHANGED vars
    BY <1>8, <1>1 DEF vars
  <1>9. CASE Next
    <2>1. \/ UNCHANGED leads
          \/ \E m \in Lead, b \in NewLeads : CreateLead(m, b)
          \/ \E m \in Lead : DeleteLead(m)
          \/ \E s \in Session : UpdateLead(s)
          \/ \E s \in Session, a \in Account, made \in [Email -> Contact] :
               ConvertLead(s, a, made)
      BY <1>9 DEF Next, LoadLead, FlushLead, Rollback, DeleteAccount, CreateContact,
                  UpdateContact, DeleteContact, tables
    <2> QED
      BY <2>1, <1>0, <1>1, <1>2, <1>3, <1>4, <1>5, <1>6, <1>7 DEF LeadExists
  <1> QED
    BY <1>8, <1>9

(* A converted lead stays converted, whatever update_lead had read: the    *)
(* UPDATE does not name a column the request leaves alone.                 *)
THEOREM ConversionIsForGood == Spec => ConvertedForGood
  <1>1. TypeInv /\ [Next]_vars =>
          [\A l \in Lead : LeadExists(l) /\ leads[l].converted
             => leads'[l] = Deleted \/ leads'[l].converted]_vars
    BY LeadsKept
  <1> QED
    BY <1>1, TypeInvariant, PTL DEF Spec, ConvertedForGood

-----------------------------------------------------------------------------
(* The lead of an account.                                                 *)

(* Accounts come from a conversion only, which marks its lead.             *)
LEMMA AccountsMade ==
  ASSUME TypeInv, [Next]_vars, NEW a \in Account, AccountExists(a)'
  PROVE  \/ AccountExists(a) /\ accounts'[a] = accounts[a]
         \/ /\ accounts'[a].source \in Lead
            /\ leads'[accounts'[a].source] \notin NoRow
            /\ leads'[accounts'[a].source].converted
  <1> USE DEF TypeInv
  <1>1. CASE UNCHANGED accounts
    BY <1>1 DEF AccountExists
  <1>2. ASSUME NEW b \in Account, DeleteAccount(b)
        PROVE  AccountExists(a) /\ accounts'[a] = accounts[a]
    BY <1>2 DEF DeleteAccount, AccountExists, NoRow, TypeOK
  <1>3. ASSUME NEW s \in Session, NEW b \in Account, NEW made \in [Email -> Contact],
               ConvertLead(s, b, made), a # b
        PROVE  AccountExists(a) /\ accounts'[a] = accounts[a]
    BY <1>3 DEF ConvertLead, AccountExists, TypeOK
  <1>4. ASSUME NEW s \in Session, NEW made \in [Email -> Contact],
               ConvertLead(s, a, made)
        PROVE  /\ accounts'[a].source \in Lead
               /\ leads'[accounts'[a].source] \notin NoRow
               /\ leads'[accounts'[a].source].converted
    <2> DEFINE l == txs[s].req.lead
    <2>1. /\ accounts' = [accounts EXCEPT ![a] =
                            [source |-> l, owner |-> ResolvedOwner(txs[s])]]
          /\ leads' = [leads EXCEPT ![l] = [leads[l] EXCEPT !.converted = TRUE]]
      BY <1>4 DEF ConvertLead
    <2>2. l \in Lead /\ LeadExists(l)
      BY <1>4, Conversion
    <2>3. leads[l] \in LeadRow
      BY <2>2, LeadRowRead
    <2>4. accounts'[a].source = l
      BY <2>1 DEF TypeOK
    <2>5. leads'[l] = [leads[l] EXCEPT !.converted = TRUE]
      BY <2>1, <2>2 DEF TypeOK
    <2>6. leads'[l] \in LeadRow /\ leads'[l].converted
      BY <2>3, <2>5 DEF LeadRow
    <2> QED
      BY <2>2, <2>4, <2>6, NullAssumption
  <1>5. CASE UNCHANGED vars
    BY <1>5, <1>1 DEF vars
  <1>6. CASE Next
    <2>1. \/ UNCHANGED accounts
          \/ \E b \in Account : DeleteAccount(b)
          \/ \E s \in Session, b \in Account, made \in [Email -> Contact] :
               ConvertLead(s, b, made)
      BY <1>6 DEF Next, CreateLead, DeleteLead, LoadLead, FlushLead, UpdateLead, Rollback,
                  CreateContact, UpdateContact, DeleteContact, tables
    <2> QED
      BY <2>1, <1>1, <1>2, <1>3, <1>4
  <1> QED
    BY <1>5, <1>6

LEMMA InitSource == Init => SourceLeadConverted
  BY DEF Init, SourceLeadConverted, AccountExists, NoRow

LEMMA SourceStep ==
  TypeInv /\ SourceLeadConverted /\ [Next]_vars => SourceLeadConverted'
  <1> SUFFICES ASSUME TypeInv, SourceLeadConverted, [Next]_vars,
                      NEW a \in Account, accounts'[a] \notin NoRow
               PROVE  /\ leads'[accounts'[a].source] \notin NoRow
                      /\ leads'[accounts'[a].source].converted
    BY DEF SourceLeadConverted, AccountExists, LeadExists
  <1>1. \/ AccountExists(a) /\ accounts'[a] = accounts[a]
        \/ /\ leads'[accounts'[a].source] \notin NoRow
           /\ leads'[accounts'[a].source].converted
    BY AccountsMade DEF AccountExists
  <1>2. CASE AccountExists(a) /\ accounts'[a] = accounts[a]
    <2> DEFINE l == accounts[a].source
    <2>1. LeadExists(l) /\ leads[l].converted
      BY <1>2 DEF SourceLeadConverted
    <2>2. l \in Lead
      BY <1>2 DEF TypeInv, TypeOK, AccountExists, AccountRow
    <2>3. ~Unsourced(l)
      BY <1>2 DEF Unsourced
    <2>4. leads'[l] \notin NoRow /\ leads'[l].converted
      BY <2>1, <2>2, <2>3, LeadsKept DEF LeadExists
    <2> QED
      BY <1>2, <2>4
  <1>3. CASE /\ leads'[accounts'[a].source] \notin NoRow
             /\ leads'[accounts'[a].source].converted
    BY <1>3
  <1> QED
    BY <1>1, <1>2, <1>3

(* An account's source lead is there and marked converted, however many    *)
(* conversions, edits and deletions of leads overlap.                      *)
THEOREM SourceLeadAlwaysConverted == Spec => []SourceLeadConverted
  BY InitSource, SourceStep, TypeInvariant, PTL DEF Spec

-----------------------------------------------------------------------------
(* Address rows and links.                                                 *)

AddressesHaveLead == \A r \in addresses : LeadExists(r.lead)

LinksHaveEnds ==
  \A k \in links : AccountExists(k.account) /\ ContactExists(k.contact)

LEMMA AddressesStep ==
  TypeInv /\ AddressesHaveLead /\ [Next]_vars => AddressesHaveLead'
  <1> SUFFICES ASSUME TypeInv, AddressesHaveLead, [Next]_vars,
                      NEW r \in addresses'
               PROVE  leads'[r.lead] \notin NoRow
    BY DEF AddressesHaveLead, LeadExists
  <1> USE DEF TypeInv
  <1>1. \A q \in addresses : /\ q.lead \in Lead /\ LeadExists(q.lead)
                             /\ leads'[q.lead] = Deleted \/ leads'[q.lead] \notin NoRow
    BY LeadsKept DEF AddressesHaveLead, TypeOK, AddressRow, LeadExists
  <1>2. ASSUME NEW l \in Lead, NEW b \in NewLeads, CreateLead(l, b)
        PROVE  leads'[r.lead] \notin NoRow
    <2>1. r \in addresses \/ r.lead = l
      BY <1>2, CreateTyped
    <2>2. leads' = [leads EXCEPT ![l] =
                      [email |-> b.email, owner |-> b.owner, converted |-> FALSE]]
          /\ leads[l] = Absent
      BY <1>2 DEF CreateLead
    <2>3. [email |-> b.email, owner |-> b.owner, converted |-> FALSE] \in LeadRow
      BY RequestAssumption DEF NewLead, LeadRow
    <2>4. CASE r.lead = l
      BY <2>2, <2>3, <2>4, NullAssumption DEF TypeOK
    <2>5. CASE r \in addresses
      BY <1>1, <2>2, <2>5 DEF TypeOK, LeadExists, NoRow
    <2> QED
      BY <2>1, <2>4, <2>5
  <1>3. ASSUME NEW l \in Lead, DeleteLead(l)
        PROVE  leads'[r.lead] \notin NoRow
    BY <1>1, <1>3 DEF DeleteLead, AddressesOf, TypeOK, LeadExists
  <1>4. ASSUME NEW s \in Session, UpdateLead(s)
        PROVE  leads'[r.lead] \notin NoRow
    <2> DEFINE t == txs[s]
               l == t.req.lead
    <2>1. t.phase # "idle" /\ LeadExists(l) /\ leads' = [leads EXCEPT ![l] = Flushed(t, @)]
      BY <1>4 DEF UpdateLead
    <2>2. Flushed(t, leads[l]) \in LeadRow /\ l \in Lead
      BY <2>1, ActiveTx, LeadRowRead, RowViews
    <2>3. \A m \in Lead : LeadExists(m) => leads'[m] \notin NoRow
      BY <2>1, <2>2, NullAssumption DEF TypeOK, LeadExists
    <2>4. r \in addresses \/ r.lead = l
      <3>1. CASE t.req.contacts = Unset
        BY <1>4, <3>1 DEF UpdateLead
      <3>2. CASE t.req.contacts # Unset
        <4>1. InsertAddresses(addresses \ Additional(t), l, t.req.contacts)
          BY <1>4, <3>2 DEF UpdateLead
        <4>2. t.req.contacts \in SUBSET Email
          BY <2>1, <3>2, ActiveTx
        <4>3. addresses \ Additional(t) \subseteq addresses
          OBVIOUS
        <4>4. l \in Lead
          BY <2>2
        <4> HIDE DEF l, t
        <4>5. \A q \in addresses' : q \in addresses \ Additional(t) \/ q.lead = l
          BY <4>1, <4>2, <4>3, <4>4, NewAddresses
        <4> QED
          BY <4>5
      <3> QED
        BY <3>1, <3>2
    <2> QED
      BY <1>1, <2>1, <2>2, <2>3, <2>4
  <1>5. ASSUME UNCHANGED addresses,
               UNCHANGED leads \/ \E s \in Session, a \in Account,
                                     made \in [Email -> Contact] : ConvertLead(s, a, made)
        PROVE  leads'[r.lead] \notin NoRow
    <2>1. CASE UNCHANGED leads
      BY <1>1, <1>5, <2>1 DEF LeadExists
    <2>2. ASSUME NEW s \in Session, NEW a \in Account, NEW made \in [Email -> Contact],
                 ConvertLead(s, a, made)
          PROVE  leads'[r.lead] \notin NoRow
      <3> DEFINE l == txs[s].req.lead
      <3>1. /\ leads' = [leads EXCEPT ![l] = [leads[l] EXCEPT !.converted = TRUE]]
            /\ l \in Lead /\ LeadExists(l)
        BY <2>2, Conversion DEF ConvertLead
      <3>2. [leads[l] EXCEPT !.converted = TRUE] \in LeadRow
        BY <3>1, LeadRowRead DEF LeadRow
      <3> QED
        BY <1>1, <1>5, <3>1, <3>2, NullAssumption DEF TypeOK, LeadExists
    <2> QED
      BY <1>5, <2>1, <2>2
  <1>6. CASE UNCHANGED vars
    BY <1>5, <1>6 DEF vars
  <1>7. CASE Next
    <2>1. \/ UNCHANGED <<addresses, leads>>
          \/ \E l \in Lead, b \in NewLeads : CreateLead(l, b)
          \/ \E l \in Lead : DeleteLead(l)
          \/ \E s \in Session : UpdateLead(s)
          \/ /\ UNCHANGED addresses
             /\ \E s \in Session, a \in Account, made \in [Email -> Contact] :
                  ConvertLead(s, a, made)
      BY <1>7 DEF Next, LoadLead, FlushLead, Rollback, DeleteAccount, CreateContact,
                  UpdateContact, DeleteContact, ConvertLead, tables
    <2> QED
      BY <2>1, <1>2, <1>3, <1>4, <1>5
  <1> QED
    BY <1>6, <1>7

LEMMA LinksStep == TypeInv /\ LinksHaveEnds /\ [Next]_vars => LinksHaveEnds'
  <1> SUFFICES ASSUME TypeInv, LinksHaveEnds, [Next]_vars, NEW k \in links'
               PROVE  accounts'[k.account] \notin NoRow /\ contacts'[k.contact] \notin NoRow
    BY DEF LinksHaveEnds, AccountExists, ContactExists
  <1> USE DEF TypeInv
  <1>1. \A j \in links : /\ j.account \in Account /\ accounts[j.account] \notin NoRow
                         /\ j.contact \in Contact /\ contacts[j.contact] \notin NoRow
    BY DEF LinksHaveEnds, AccountExists, ContactExists, TypeOK, Link
  <1>2. CASE UNCHANGED <<accounts, contacts, links>>
    BY <1>1, <1>2
  <1>3. ASSUME NEW s \in Session, NEW a \in Account, NEW made \in [Email -> Contact],
               ConvertLead(s, a, made)
        PROVE  accounts'[k.account] \notin NoRow /\ contacts'[k.contact] \notin NoRow
    <2> DEFINE row == [source |-> txs[s].req.lead, owner |-> ResolvedOwner(txs[s])]
    <2>1. accounts[a] = Absent /\ accounts' = [accounts EXCEPT ![a] = row]
      BY <1>3 DEF ConvertLead
    <2>2. row \in AccountRow
      <3>1. txs[s].phase # "idle" /\ txs[s].req.op = "convert"
        BY <1>3 DEF ConvertLead
      <3> QED
        BY <3>1, <1>3, Conversion DEF OwnerFound, AccountRow
    <2>3. \/ k \in links
          \/ k \in Link /\ k.account = a /\ contacts'[k.contact] \notin NoRow
      BY <1>3, Conversion DEF ContactExists
    <2>4. \A c \in Contact : contacts[c] \notin NoRow => contacts'[c] \notin NoRow
      BY <1>3, Conversion DEF ContactExists
    <2>5. accounts'[a] \notin NoRow
      BY <2>1, <2>2, NullAssumption DEF TypeOK
    <2>6. CASE k \in links
      BY <1>1, <2>1, <2>4, <2>5, <2>6 DEF TypeOK
    <2> QED
      BY <2>3, <2>5, <2>6
  <1>4. ASSUME NEW a \in Account, DeleteAccount(a)
        PROVE  accounts'[k.account] \notin NoRow /\ contacts'[k.contact] \notin NoRow
    BY <1>1, <1>4 DEF DeleteAccount, LinksOf, TypeOK
  <1>5. ASSUME NEW c \in Contact, NEW e \in Email,
               CreateContact(c, e) \/ UpdateContact(c, e)
        PROVE  accounts'[k.account] \notin NoRow /\ contacts'[k.contact] \notin NoRow
    BY <1>1, <1>5, NullAssumption DEF CreateContact, UpdateContact, TypeOK
  <1>6. ASSUME NEW c \in Contact, DeleteContact(c)
        PROVE  accounts'[k.account] \notin NoRow /\ contacts'[k.contact] \notin NoRow
    BY <1>1, <1>6 DEF DeleteContact, TypeOK
  <1>7. CASE UNCHANGED vars
    BY <1>2, <1>7 DEF vars
  <1>8. CASE Next
    <2>1. \/ UNCHANGED <<accounts, contacts, links>>
          \/ \E s \in Session, a \in Account, made \in [Email -> Contact] :
               ConvertLead(s, a, made)
          \/ \E a \in Account : DeleteAccount(a)
          \/ \E c \in Contact, e \in Email : CreateContact(c, e) \/ UpdateContact(c, e)
          \/ \E c \in Contact : DeleteContact(c)
      BY <1>8 DEF Next, CreateLead, DeleteLead, LoadLead, FlushLead, UpdateLead, Rollback,
                  tables
    <2> QED
      BY <2>1, <1>2, <1>3, <1>4, <1>5, <1>6
  <1> QED
    BY <1>7, <1>8

(* No address row outlives its lead and no link its account or contact,    *)
(* though a conversion links contacts it found some steps before.          *)
THEOREM NothingOrphaned == Spec => []NoOrphans
  <1>1. Init => AddressesHaveLead /\ LinksHaveEnds
    BY DEF Init, AddressesHaveLead, LinksHaveEnds
  <1>2. AddressesHaveLead /\ LinksHaveEnds => NoOrphans
    BY DEF AddressesHaveLead, LinksHaveEnds, NoOrphans
  <1> QED
    BY <1>1, <1>2, AddressesStep, LinksStep, TypeInvariant, PTL DEF Spec

-----------------------------------------------------------------------------
(* Who is told.                                                            *)

(* The UPDATE writes the owner only where the request differs from what it *)
(* read, which is when the notice is sent: the two cannot come apart.      *)
THEOREM NewOwnerAlwaysTold == Spec => NewOwnerTold
  <1>1. ASSUME TypeInv, [Next]_vars, NEW l \in Lead, LeadExists(l),
               leads'[l] # Deleted, leads'[l].owner \in User \ {leads[l].owner}
        PROVE  \E n \in told' : n.recipient = leads'[l].owner
    <2> USE DEF TypeInv
    <2>1. leads[l] \in LeadRow
      BY <1>1, LeadRowRead
    <2>2. leads'[l].owner # leads[l].owner
      BY <1>1
    <2>3. \A m \in Lead, b \in NewLeads : ~CreateLead(m, b)
      BY <1>1, <2>2 DEF CreateLead, LeadExists, NoRow, TypeOK
    <2>4. \A m \in Lead : ~DeleteLead(m)
      BY <1>1, <2>2 DEF DeleteLead, TypeOK
    <2>5. \A s \in Session, a \in Account, made \in [Email -> Contact] :
            ~ConvertLead(s, a, made)
      <3> SUFFICES ASSUME NEW s \in Session, NEW a \in Account,
                          NEW made \in [Email -> Contact], ConvertLead(s, a, made)
                   PROVE  FALSE
        OBVIOUS
      <3>1. leads'[l].owner = leads[l].owner
        BY <2>1 DEF ConvertLead, TypeOK, LeadRow
      <3> QED
        BY <2>2, <3>1
    <2>6. ~UNCHANGED leads
      BY <2>2
    <2>7. PICK s \in Session : UpdateLead(s)
      BY <1>1, <2>3, <2>4, <2>5, <2>6
         DEF Next, LoadLead, FlushLead, Rollback, DeleteAccount, CreateContact,
             UpdateContact, DeleteContact, tables, vars
    <2> DEFINE t == txs[s]
    <2>8. /\ t.phase # "idle" /\ told' = Assigned(t)
          /\ leads' = [leads EXCEPT ![t.req.lead] = Flushed(t, @)]
      BY <2>7 DEF UpdateLead
    <2>9. leads'[l] = Flushed(t, leads[l])
      BY <2>2, <2>8 DEF TypeOK
    <2>10. /\ t.req.owner # Unset /\ t.req.owner # t.row.owner
           /\ leads'[l].owner = t.req.owner
      <3>1. /\ t.row \in LeadRow
            /\ t.req.email \in Email \cup {Unset}
            /\ t.req.owner \in User \cup {None, Unset}
        BY <1>1, <2>8, ActiveTx
      <3>2. Flushed(t, leads[l]).owner # leads[l].owner
        BY <2>2, <2>9
      <3> QED
        BY <2>1, <2>9, <3>1, <3>2, RowViews
    <2>11. told' = {[type |-> "lead_assigned", recipient |-> t.req.owner]}
      BY <1>1, <2>8, <2>10 DEF Assigned
    <2> QED
      BY <2>10, <2>11
  <1>2. TypeInv /\ [Next]_vars =>
          [\A l \in Lead :
             LeadExists(l) /\ leads'[l] # Deleted
             /\ leads'[l].owner \in User \ {leads[l].owner}
               => \E n \in told' : n.recipient = leads'[l].owner]_vars
    BY <1>1
  <1> QED
    BY <1>2, TypeInvariant, PTL DEF Spec, NewOwnerTold
=============================================================================

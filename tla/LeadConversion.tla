--------------------------- MODULE LeadConversion ---------------------------
(***************************************************************************)
(* Leads, their contact addresses, and the conversion of a lead into an    *)
(* account, under concurrent requests.  update_lead and                    *)
(* convert_lead_to_account read the lead first and write it later, each in *)
(* one READ COMMITTED transaction: between the two steps other requests    *)
(* commit, and txs[s] keeps what the session read.  The other requests     *)
(* decide on nothing they read earlier and are one step each.              *)
(*                                                                         *)
(* A write holds its row lock to the commit and is placed there.  A row is *)
(* written column by column: the ORM's UPDATE names the columns that       *)
(* differ from the loaded object, the others keep what the table holds.    *)
(*                                                                         *)
(* lead_contacts rows without an address are left out (conversion skips    *)
(* them), and so are phone numbers, which the distinctness check treats    *)
(* as it treats addresses.                                                 *)
(***************************************************************************)
EXTENDS Naturals, FiniteSets

CONSTANTS
  Session,      (* concurrent requests that read, then write               *)
  Lead, Account, Contact,  (* ids the sequences can hand out               *)
  Email,        (* addresses                                               *)
  User,         (* owners                                                  *)
  Notifiable,   (* active users holding leads.notify_on_create             *)
  NewLeads,     (* the bodies of create_lead in this instance              *)
  Requests,     (* the update and convert requests in this instance        *)
  MaxFlushes,   (* bound: inserts into lead_contacts in a behaviour        *)
  None,         (* SQL NULL                                                *)
  Unset,        (* a field the request body leaves out                     *)
  Absent,       (* an id the sequence has not handed out yet               *)
  Deleted       (* the id of a deleted row; it never comes back            *)

LeadRow == [email : Email, owner : User \cup {None}, converted : BOOLEAN]

(* source is accounts.source_lead_id.  Accounts created directly have none *)
(* and are not in this module.                                             *)
AccountRow == [source : Lead, owner : User]

(* lead_contacts: the row mirroring the lead's own address and the others; *)
(* flush tells a row from a later one with the same address.               *)
AddressRow == [flush : 1..MaxFlushes, lead : Lead, email : Email]

(* contact_accounts                                                        *)
Link == [contact : Contact, account : Account, primary : BOOLEAN]

NewLead == [email : Email, owner : User \cup {None}, contacts : SUBSET Email]

Request == [op : {"update", "convert"}, lead : Lead,
            email : Email \cup {Unset},
            owner : User \cup {None, Unset},
            contacts : {Unset} \cup SUBSET Email]

Notice == [type : {"new_lead", "lead_assigned", "lead_converted"},
           recipient : User]

NoRow == {Absent, Deleted}

ASSUME BoundAssumption == MaxFlushes \in Nat

ASSUME NullAssumption ==
  /\ None \notin User
  /\ Unset \notin Email /\ Unset \notin User /\ Unset # None
  /\ \A C \in SUBSET Email : C # Unset
  /\ NoRow \cap (LeadRow \cup AccountRow \cup Email) = {}

ASSUME NotifiableAssumption == Notifiable \subseteq User

ASSUME RequestAssumption ==
  /\ NewLeads \subseteq NewLead
  /\ Requests \subseteq Request
  /\ \A q \in Requests : q.op = "convert" =>
        q.email = Unset /\ q.contacts = Unset /\ q.owner # None

VARIABLES
  leads,      (* leads table                                               *)
  addresses,  (* lead_contacts table                                       *)
  flushes,    (* inserts into lead_contacts so far                         *)
  accounts,   (* accounts table                                            *)
  contacts,   (* contacts table: the address of each contact               *)
  links,      (* contact_accounts table                                    *)
  told,       (* the notifications the last commit inserted                *)
  added,      (* ghost: the additional addresses last entered for a lead   *)
  txs         (* the update or conversion each session is in               *)

tables == <<leads, addresses, flushes, accounts, contacts, links, told, added>>
vars == <<leads, addresses, flushes, accounts, contacts, links, told, added, txs>>

(* known: the lead_contacts rows the session read; match: the contact it   *)
(* found for an address, None where it found none.                         *)
Tx == [phase : {"loaded", "flushed"}, req : Requests, row : LeadRow,
       known : SUBSET AddressRow, match : [Email -> Contact \cup {None}]]

Idle == [phase |-> "idle"]

TypeOK ==
  /\ leads \in [Lead -> LeadRow \cup NoRow]
  /\ addresses \subseteq AddressRow
  /\ flushes \in 0..MaxFlushes
  /\ accounts \in [Account -> AccountRow \cup NoRow]
  /\ contacts \in [Contact -> Email \cup NoRow]
  /\ links \subseteq Link
  /\ told \subseteq Notice
  /\ added \in [Lead -> SUBSET Email]
  /\ txs \in [Session -> Tx \cup {Idle}]

Init ==
  /\ leads = [l \in Lead |-> Absent]
  /\ addresses = {}
  /\ flushes = 0
  /\ accounts = [a \in Account |-> Absent]
  /\ contacts = [c \in Contact |-> Absent]
  /\ links = {}
  /\ told = {}
  /\ added = [l \in Lead |-> {}]
  /\ txs = [s \in Session |-> Idle]
-----------------------------------------------------------------------------
LeadExists(l) == leads[l] \notin NoRow
AccountExists(a) == accounts[a] \notin NoRow
ContactExists(c) == contacts[c] \notin NoRow

AddressesOf(l) == {r \in addresses : r.lead = l}

(* unique index ix_leads_email                                             *)
EmailFree(e, l) == \A o \in Lead \ {l} : LeadExists(o) => leads[o].email # e

(* unique index ix_contacts_email                                          *)
NoContactWith(e) == \A c \in Contact : contacts[c] # e

ContactFor(e) ==
  IF NoContactWith(e) THEN None ELSE CHOOSE c \in Contact : contacts[c] = e

(* One flush inserts the lead_contacts rows of one lead; none may repeat   *)
(* an address of the table (ix_lead_contacts_email).                       *)
InsertAddresses(kept, l, E) ==
  /\ flushes < MaxFlushes
  /\ flushes' = flushes + 1
  /\ \A r \in kept : r.email \notin E
  /\ addresses' = kept \cup {[flush |-> flushes', lead |-> l, email |-> e] : e \in E}

(* The loaded lead after setattr of every field the body carries.          *)
InMemory(t) ==
  [t.row EXCEPT !.email = IF t.req.email = Unset THEN @ ELSE t.req.email,
                !.owner = IF t.req.owner = Unset THEN @ ELSE t.req.owner]

(* mutant of Flushed: the UPDATE writes every column of the loaded object  *)
FlushedWhole(t, current) == InMemory(t)

Flushed(t, current) ==
  LET obj == InMemory(t)
  IN  [current EXCEPT !.email = IF obj.email = t.row.email THEN @ ELSE obj.email,
                      !.owner = IF obj.owner = t.row.owner THEN @ ELSE obj.owner]

WritesLead(t) == t.req.op = "convert" \/ InMemory(t) # t.row

(* The row lock another transaction's UPDATE of the lead holds.            *)
LockedByOther(s, l) ==
  \E o \in Session \ {s} :
    txs[o].phase = "flushed" /\ txs[o].req.lead = l /\ WritesLead(txs[o])

LeadLocked(l) ==
  \E o \in Session :
    txs[o].phase = "flushed" /\ txs[o].req.lead = l /\ WritesLead(txs[o])

(* mutant of ResolvedOwner: no falling back on the lead's owner            *)
RequestedOwner(t) == t.req.owner

(* owner_id of the request, or else the lead's own.                        *)
ResolvedOwner(t) == IF t.req.owner = Unset THEN t.row.owner ELSE t.req.owner

Finish(s) == txs' = [txs EXCEPT ![s] = Idle]
-----------------------------------------------------------------------------
(* create_lead: the lead, the row that mirrors its address, the others.    *)
CreateLead(l, b) ==
  /\ leads[l] = Absent
  /\ b.email \notin b.contacts
  /\ EmailFree(b.email, l)
  /\ leads' = [leads EXCEPT ![l] =
                 [email |-> b.email, owner |-> b.owner, converted |-> FALSE]]
  /\ InsertAddresses(addresses, l, {b.email} \cup b.contacts)
  /\ added' = [added EXCEPT ![l] = b.contacts]
  /\ told' = {[type |-> "new_lead", recipient |-> u] : u \in Notifiable}
  /\ UNCHANGED <<accounts, contacts, links, txs>>

(* update_lead and convert_lead_to_account read the lead and make every    *)
(* check they make on the row read: distinct addresses, not converted yet, *)
(* an owner for the account.                                               *)
LoadLead(s, q) ==
  LET t == [phase |-> "loaded", req |-> q, row |-> leads[q.lead],
            known |-> {}, match |-> [e \in Email |-> None]]
  IN  /\ txs[s].phase = "idle"
      /\ LeadExists(q.lead)
      /\ q.op = "update" /\ q.contacts # Unset => InMemory(t).email \notin q.contacts
      /\ q.op = "convert" => ~leads[q.lead].converted /\ ResolvedOwner(t) # None
      /\ txs' = [txs EXCEPT ![s] = t]
      /\ UNCHANGED tables

(* The first flush takes the lead's row lock; the look-ups of address rows *)
(* and of contacts by address run after it.                                *)
FlushLead(s) ==
  LET t == txs[s]
      l == t.req.lead
  IN  /\ t.phase = "loaded"
      /\ LeadExists(l)
      /\ WritesLead(t) => ~LockedByOther(s, l)
      /\ txs' = [txs EXCEPT ![s] =
                   [t EXCEPT !.phase = "flushed",
                             !.known = AddressesOf(l),
                             !.match = [e \in Email |-> ContactFor(e)]]]
      /\ UNCHANGED tables

(* 4xx answers, rejected statements, a lost connection, a stopped worker.  *)
Rollback(s) ==
  /\ txs[s].phase # "idle"
  /\ Finish(s)
  /\ UNCHANGED tables

(* Every row the session read goes, except the one with the address the    *)
(* lead has now.                                                           *)
Additional(t) == {r \in t.known : r.email # InMemory(t).email}

(* mutant of Assigned: the owner of the table, not of the request          *)
AssignedStale(t) ==
  IF t.req.owner \in User /\ t.req.owner # t.row.owner /\ t.row.owner # None
  THEN {[type |-> "lead_assigned", recipient |-> t.row.owner]} ELSE {}

Assigned(t) ==
  IF t.req.owner \in User /\ t.req.owner # t.row.owner
  THEN {[type |-> "lead_assigned", recipient |-> t.req.owner]} ELSE {}

UpdateLead(s) ==
  LET t == txs[s]
      l == t.req.lead
  IN  /\ t.phase = "flushed" /\ t.req.op = "update"
      /\ LeadExists(l)
      /\ EmailFree(Flushed(t, leads[l]).email, l)
      /\ leads' = [leads EXCEPT ![l] = Flushed(t, @)]
      /\ IF t.req.contacts = Unset
         THEN UNCHANGED <<addresses, flushes, added>>
         ELSE /\ InsertAddresses(addresses \ Additional(t), l, t.req.contacts)
              /\ added' = [added EXCEPT ![l] = t.req.contacts]
      /\ told' = Assigned(t)
      /\ Finish(s)
      /\ UNCHANGED <<accounts, contacts, links>>

(* mutant of Unsourced: accounts.source_lead_id has no foreign key         *)
NoCheck(l) == TRUE

(* The foreign key accounts.source_lead_id, which does not cascade.        *)
Unsourced(l) == \A a \in Account : AccountExists(a) => accounts[a].source # l

(* delete_lead: the address rows cascade.                                  *)
DeleteLead(l) ==
  /\ LeadExists(l)
  /\ ~LeadLocked(l)
  /\ Unsourced(l)
  /\ leads' = [leads EXCEPT ![l] = Deleted]
  /\ addresses' = addresses \ AddressesOf(l)
  /\ told' = {}
  /\ UNCHANGED <<flushes, accounts, contacts, links, added, txs>>
-----------------------------------------------------------------------------
(* The addresses a conversion carries over: the lead's own as it was read, *)
(* and those of the address rows it read.                                  *)
Carried(t) == {t.row.email} \cup {r.email : r \in t.known}

(* convert_lead_to_account: the account, the lead's flag, a contact per    *)
(* address (the one found, or a new one) and its link; the lead's own      *)
(* address is the primary contact.                                         *)
ConvertLead(s, a, made) ==
  LET t == txs[s]
      l == t.req.lead
      person == [e \in Carried(t) |->
                   IF t.match[e] = None THEN made[e] ELSE t.match[e]]
      fresh == {e \in Carried(t) : t.match[e] = None}
  IN  /\ t.phase = "flushed" /\ t.req.op = "convert"
      /\ accounts[a] = Absent
      /\ LeadExists(l)
      /\ \A e \in Carried(t) \ fresh : ContactExists(person[e])
      /\ \A e \in fresh : NoContactWith(e) /\ contacts[made[e]] = Absent
      /\ \A e, f \in fresh : made[e] = made[f] => e = f
      /\ accounts' = [accounts EXCEPT ![a] = [source |-> l, owner |-> ResolvedOwner(t)]]
      /\ leads' = [leads EXCEPT ![l].converted = TRUE]
      /\ contacts' = [c \in Contact |->
                        IF \E e \in fresh : made[e] = c
                        THEN CHOOSE e \in fresh : made[e] = c
                        ELSE contacts[c]]
      /\ links' = links \cup
           {[contact |-> person[e], account |-> a, primary |-> (e = t.row.email)] :
              e \in Carried(t)}
      /\ told' = {[type |-> "lead_converted", recipient |-> ResolvedOwner(t)]}
      /\ Finish(s)
      /\ UNCHANGED <<addresses, flushes, added>>

(* mutant of LinksOf: the links do not cascade                             *)
NoLinks(x) == {}

(* ON DELETE CASCADE of contact_accounts.account_id                        *)
LinksOf(a) == {k \in links : k.account = a}

(* delete_account: an account without deals.                               *)
DeleteAccount(a) ==
  /\ AccountExists(a)
  /\ accounts' = [accounts EXCEPT ![a] = Deleted]
  /\ links' = links \ LinksOf(a)
  /\ told' = {}
  /\ UNCHANGED <<leads, addresses, flushes, contacts, added, txs>>

(* create_contact, update_contact (its address) and delete_contact, which  *)
(* go on while a conversion has looked contacts up.                        *)
CreateContact(c, e) ==
  /\ contacts[c] = Absent
  /\ NoContactWith(e)
  /\ contacts' = [contacts EXCEPT ![c] = e]
  /\ told' = {}
  /\ UNCHANGED <<leads, addresses, flushes, accounts, links, added, txs>>

UpdateContact(c, e) ==
  /\ ContactExists(c)
  /\ NoContactWith(e)
  /\ contacts' = [contacts EXCEPT ![c] = e]
  /\ told' = {}
  /\ UNCHANGED <<leads, addresses, flushes, accounts, links, added, txs>>

DeleteContact(c) ==
  /\ ContactExists(c)
  /\ contacts' = [contacts EXCEPT ![c] = Deleted]
  /\ links' = {k \in links : k.contact # c}
  /\ told' = {}
  /\ UNCHANGED <<leads, addresses, flushes, accounts, added, txs>>
-----------------------------------------------------------------------------
Next ==
  \/ \E l \in Lead, b \in NewLeads : CreateLead(l, b)
  \/ \E l \in Lead : DeleteLead(l)
  \/ \E s \in Session, q \in Requests : LoadLead(s, q)
  \/ \E s \in Session : FlushLead(s) \/ UpdateLead(s) \/ Rollback(s)
  \/ \E s \in Session, a \in Account, made \in [Email -> Contact] :
       ConvertLead(s, a, made)
  \/ \E a \in Account : DeleteAccount(a)
  \/ \E c \in Contact, e \in Email : CreateContact(c, e) \/ UpdateContact(c, e)
  \/ \E c \in Contact : DeleteContact(c)

Spec == Init /\ [][Next]_vars
-----------------------------------------------------------------------------
(* Properties                                                              *)

(* An account's source lead is still there and is marked converted: no     *)
(* interleaving of conversion, edit and deletion leaves an account whose   *)
(* lead the screens would offer for conversion again.                      *)
SourceLeadConverted ==
  \A a \in Account : AccountExists(a) =>
    LET l == accounts[a].source IN LeadExists(l) /\ leads[l].converted

(* No address row outlives its lead and no link its account or contact,    *)
(* though a conversion links contacts it looked up steps before.           *)
NoOrphans ==
  /\ \A r \in addresses : LeadExists(r.lead)
  /\ \A k \in links : AccountExists(k.account) /\ ContactExists(k.contact)

(* A converted lead stays converted: an update_lead that read the lead     *)
(* before the conversion committed does not write its stale flag back.     *)
ConvertedForGood ==
  [][\A l \in Lead : LeadExists(l) /\ leads[l].converted
       => leads'[l] = Deleted \/ leads'[l].converted]_vars

(* Whoever a commit makes the owner of an existing lead is told by that    *)
(* commit, whatever owner the request had read before.                     *)
NewOwnerTold ==
  [][\A l \in Lead :
       LeadExists(l) /\ leads'[l] # Deleted /\ leads'[l].owner \in User \ {leads[l].owner}
         => \E n \in told' : n.recipient = leads'[l].owner]_vars

(* A lead is converted once: convert answers 409 for a converted lead.     *)
ConvertedOnce ==
  \A a, b \in Account :
    AccountExists(a) /\ AccountExists(b) /\ accounts[a].source = accounts[b].source
      => a = b

(* A conversion carries over the lead's own address and the additional     *)
(* ones entered for it, and no other.                                      *)
OnlyEnteredAddressesCarried ==
  [][\A s \in Session :
       txs[s].phase = "flushed" /\ txs[s].req.op = "convert" /\ links' # links
         /\ txs'[s] = Idle
         => Carried(txs[s]) \subseteq {leads[txs[s].req.lead].email}
                                        \cup added[txs[s].req.lead]]_vars
=============================================================================

-------------------------- MODULE AccountContacts --------------------------
(***************************************************************************)
(* Accounts, contacts and the links between them (with the flag of the     *)
(* account's primary contact), under concurrent requests, and what the     *)
(* account and contact screens show to whom.                               *)
(*                                                                         *)
(* update_account, create_account_contact and update_account_contact read  *)
(* and check first (Begin) and write later (a Commit action), each in one  *)
(* READ COMMITTED transaction; txs[s] keeps what the session read.  The    *)
(* reads of one request are one step: were they several, what they miss of *)
(* each other only adds statements that a unique index rejects.  The other *)
(* requests are one step.  A write is placed at the commit, since its row  *)
(* lock is held to it, and names only the columns that differ from the     *)
(* loaded object.  A link to a contact there is has its id from its INSERT *)
(* though, which overlapping requests do not wait for.                     *)
(*                                                                         *)
(* Deals are given with their owners; those of the accounts here are left  *)
(* out, and so are names, phones and audit rows other than CREATED.  The   *)
(* ACCOUNT_CREATED notices are in Notifications.                           *)
(***************************************************************************)
EXTENDS Naturals, Sequences, FiniteSets

CONSTANTS
  Session,          (* concurrent requests that read, then write           *)
  User,             (* who sends requests and owns accounts                *)
  AccountsViewAll,  (* users with accounts.view_all                        *)
  ContactsViewAll,  (* users with contacts.view_all                        *)
  Email,            (* addresses                                           *)
  DealOwner,        (* the deals there are, with the owner of each         *)
  MaxAccounts,      (* bound: ids of accounts                              *)
  MaxContacts,      (* bound: ids of contacts                              *)
  MaxLinks,         (* bound: ids of links                                 *)
  NewAccounts,      (* the bodies of create_account in this instance       *)
  Requests,         (* the requests that read, then write, in this one     *)
  None,             (* SQL NULL                                            *)
  Unset,            (* a field the request body leaves out                 *)
  Absent,           (* an id the sequence has not handed out yet, no row   *)
  Deleted           (* the id of a deleted row; it never comes back        *)

Account == 1..MaxAccounts
Contact == 1..MaxContacts
LinkId == 1..MaxLinks
Deal == DOMAIN DealOwner

NoRow == {Absent, Deleted}

(* contacts, with the actor of the contact's CREATED audit row.            *)
ContactRow == [email : Email, creator : User \cup {None}]

(* contact_accounts                                                        *)
Link == [id : LinkId, contact : Contact, account : Account, primary : BOOLEAN]

(* AccountContactInput                                                     *)
Input == [email : Email, primary : BOOLEAN]

NewAccount == [owner : User \cup {None}, contacts : Seq(Input)]

(* "account": PATCH /accounts/{id}.  "add" and "link": POST of the         *)
(* account's contacts, without and with a contact_id.                      *)
Request ==
  [op : {"account"}, by : User, account : Account,
   owner : User \cup {Unset}, contacts : Seq(Input)]
  \cup [op : {"add"}, by : User, account : Account, input : Input]
  \cup [op : {"link"}, by : User, account : Account, contact : Contact,
        email : Email \cup {Unset}, primary : BOOLEAN \cup {Unset}]

ASSUME BoundsAssumption ==
  MaxAccounts \in Nat /\ MaxContacts \in Nat /\ MaxLinks \in Nat

ASSUME UsersAssumption ==
  /\ AccountsViewAll \subseteq User /\ ContactsViewAll \subseteq User
  /\ DealOwner \in [Deal -> User]

ASSUME NullAssumption ==
  /\ None \notin User \cup Account \cup Contact
  /\ Unset \notin User \cup Email \cup BOOLEAN
  /\ NoRow \cap (User \cup ContactRow \cup BOOLEAN) = {}
  /\ Absent # Deleted

ASSUME RequestAssumption ==
  /\ \A b \in NewAccounts : b \in NewAccount
  /\ \A q \in Requests : q \in Request

VARIABLES
  accounts,      (* accounts table: the owner of each                      *)
  contacts,      (* contacts table                                         *)
  links,         (* contact_accounts table                                 *)
  stakeholders,  (* deal_contacts table: the contacts of each deal         *)
  txs            (* the request each session is serving                    *)

tables == <<accounts, contacts, links, stakeholders>>
vars == <<accounts, contacts, links, stakeholders, txs>>

Idle == [phase |-> "idle"]

(* owner: the owner read; email: the contact's address read; flag: the     *)
(* link's flag read, Absent where there was no link; id: that of the link  *)
(* inserted, 0 for none.                                                   *)
Tx == [phase : {"checked"}, req : Requests, owner : User,
       email : Email \cup {None}, flag : BOOLEAN \cup {Absent}, id : LinkId \cup {0}]

TypeOK ==
  /\ accounts \in [Account -> User \cup NoRow]
  /\ contacts \in [Contact -> ContactRow \cup NoRow]
  /\ links \in SUBSET Link
  /\ stakeholders \in [Deal -> SUBSET Contact]
  /\ txs \in [Session -> Tx \cup {Idle}]

Init ==
  /\ accounts = [a \in Account |-> Absent]
  /\ contacts = [c \in Contact |-> Absent]
  /\ links = {}
  /\ stakeholders = [d \in Deal |-> {}]
  /\ txs = [s \in Session |-> Idle]
-----------------------------------------------------------------------------
AccountExists(a) == accounts[a] \notin NoRow
ContactExists(c) == contacts[c] \notin NoRow

(* Ids are handed out in order.                                            *)
NextAccount == Cardinality({a \in Account : accounts[a] # Absent}) + 1
NextContact == Cardinality({c \in Contact : contacts[c] # Absent}) + 1

(* The latest id of a link.  An id nothing uses any more is handed out     *)
(* again: only the order of ids matters.                                   *)
LinkIds == {k.id : k \in links}
             \cup {txs[s].id : s \in {o \in Session : txs[o].phase = "checked"}}
LastLink == CHOOSE n \in LinkIds \cup {0} : \A m \in LinkIds : m <= n

LinksOf(a) == {k \in links : k.account = a}
LinksTo(c) == {k \in links : k.contact = c}

(* account_has_primary_contact                                             *)
HasPrimary(a) == \E k \in LinksOf(a) : k.primary

(* mutant of EmailFree: contacts.email is not unique                       *)
EmailUnchecked(e, c) == TRUE

(* unique index ix_contacts_email                                          *)
EmailFree(e, c) == \A o \in Contact \ {c} : ContactExists(o) => contacts[o].email # e

(* get_account: accounts.view_all or the account's owner.                  *)
MayAccess(u, a) == AccountExists(a) /\ (u \in AccountsViewAll \/ accounts[a] = u)

(* _contact_visibility_filter                                              *)
OwnsViaAccount(u, c) == \E k \in LinksTo(c) : accounts[k.account] = u
OwnsViaDeal(u, c) == \E d \in Deal : c \in stakeholders[d] /\ DealOwner[d] = u
Unlinked(c) == LinksTo(c) = {} /\ \A d \in Deal : c \notin stakeholders[d]

Sees(u, c) ==
  /\ ContactExists(c)
  /\ \/ u \in ContactsViewAll
     \/ OwnsViaAccount(u, c)
     \/ OwnsViaDeal(u, c)
     \/ Unlinked(c) /\ contacts[c].creator = u
-----------------------------------------------------------------------------
(* The request checks of _add_contacts: one primary contact, no address    *)
(* twice.                                                                  *)
Addable(C) ==
  \A i, j \in DOMAIN C :
    i # j => C[i].email # C[j].email /\ ~(C[i].primary /\ C[j].primary)

AnyPrimary(C) == \E i \in DOMAIN C : C[i].primary

(* The inserts of _add_contacts into contacts and contact_accounts, which  *)
(* the two unique indexes may reject.  No audit row names a creator.       *)
AddContacts(a, C) ==
  LET first == NextContact - 1
  IN  /\ first + Len(C) <= MaxContacts /\ LastLink + Len(C) <= MaxLinks
      /\ \A i \in DOMAIN C : EmailFree(C[i].email, None)
      /\ AnyPrimary(C) => ~HasPrimary(a)
      /\ contacts' = [c \in Contact |->
                        IF c - first \in DOMAIN C
                        THEN [email |-> C[c - first].email, creator |-> None]
                        ELSE contacts[c]]
      /\ links' = links \cup
           {[id |-> LastLink + i, contact |-> first + i, account |-> a,
             primary |-> C[i].primary] : i \in DOMAIN C}

Finish(s) == txs' = [txs EXCEPT ![s] = Idle]

(* create_account: the account, its contacts and their links, or nothing.  *)
CreateAccount(u, b) ==
  LET a == NextAccount
  IN  /\ a \in Account
      /\ Addable(b.contacts)
      /\ accounts' = [accounts EXCEPT ![a] = IF b.owner = None THEN u ELSE b.owner]
      /\ AddContacts(a, b.contacts)
      /\ UNCHANGED <<stakeholders, txs>>

(* The checks of a request on what it reads, refused with a 4xx.           *)
Checked(q, flag) ==
  CASE q.op = "account" ->
         /\ Addable(q.contacts)
         /\ AnyPrimary(q.contacts) => ~HasPrimary(q.account)
         /\ \A i \in DOMAIN q.contacts : EmailFree(q.contacts[i].email, None)
    [] q.op = "add" -> q.input.primary => ~HasPrimary(q.account)
    [] q.op = "link" -> /\ ContactExists(q.contact)
                        /\ q.primary = TRUE /\ flag # TRUE => ~HasPrimary(q.account)

SameLink(q, k) == k.contact = q.contact /\ k.account = q.account

FlagRead(q) ==
  IF q.op = "link" /\ \E k \in links : SameLink(q, k)
  THEN (CHOOSE k \in links : SameLink(q, k)).primary ELSE Absent

(* The INSERT of update_account_contact, of a pair it found no link of.    *)
Inserts(q) == q.op = "link" /\ FlagRead(q) = Absent

Begin(s, q) ==
  /\ txs[s].phase = "idle"
  /\ MayAccess(q.by, q.account)
  /\ Checked(q, FlagRead(q))
  /\ Inserts(q) => LastLink < MaxLinks
  /\ txs' = [txs EXCEPT ![s] =
       [phase |-> "checked", req |-> q, owner |-> accounts[q.account],
        email |-> IF q.op = "link" THEN contacts[q.contact].email ELSE None,
        flag |-> FlagRead(q), id |-> IF Inserts(q) THEN LastLink + 1 ELSE 0]]
  /\ UNCHANGED tables

(* 4xx answers, statements an index or a foreign key rejects, a lost       *)
(* connection, a stopped worker.                                           *)
Rollback(s) ==
  /\ txs[s].phase # "idle"
  /\ Finish(s)
  /\ UNCHANGED tables

(* mutant of OwnerChanged: also a body without owner_id sets it            *)
OwnerSet(t) == t.req.owner # t.owner

(* setattr of the fields the body carries (exclude_unset).                 *)
OwnerChanged(t) == t.req.owner \notin {Unset, t.owner}

(* update_account: the changed owner, the appended contacts.               *)
CommitAccount(s) ==
  LET t == txs[s]
      a == t.req.account
  IN  /\ t.phase = "checked" /\ t.req.op = "account"
      /\ OwnerChanged(t) \/ t.req.contacts # <<>> => AccountExists(a)
      /\ accounts' = IF OwnerChanged(t) THEN [accounts EXCEPT ![a] = t.req.owner] ELSE accounts
      /\ AddContacts(a, t.req.contacts)
      /\ Finish(s)
      /\ UNCHANGED stakeholders

(* create_account_contact: the contact, its link, its CREATED audit row.   *)
CommitAdd(s) ==
  LET t == txs[s]
      q == t.req
  IN  /\ t.phase = "checked" /\ q.op = "add"
      /\ AccountExists(q.account)
      /\ NextContact \in Contact /\ LastLink < MaxLinks
      /\ EmailFree(q.input.email, None)
      /\ q.input.primary => ~HasPrimary(q.account)
      /\ contacts' = [contacts EXCEPT ![NextContact] =
                        [email |-> q.input.email, creator |-> q.by]]
      /\ links' = links \cup {[id |-> LastLink + 1, contact |-> NextContact,
                               account |-> q.account, primary |-> q.input.primary]}
      /\ Finish(s)
      /\ UNCHANGED <<accounts, stakeholders>>

(* mutant of FlagWanted: an absent is_primary means FALSE                  *)
FlagDefaulted(t) == t.req.primary = TRUE

(* is_primary of the request, or else what was read.                       *)
FlagWanted(t) == IF t.req.primary = Unset THEN t.flag = TRUE ELSE t.req.primary

SetFlag(q, flag) ==
  {IF SameLink(q, k) THEN [k EXCEPT !.primary = flag] ELSE k : k \in links}

(* mutant of PrimaryAllowed: contact_accounts has no partial unique index  *)
PrimaryUnchecked(q) == TRUE

(* unique index uq_contact_accounts_one_primary_per_account                *)
PrimaryAllowed(q) ==
  \A k \in LinksOf(q.account) : k.primary => SameLink(q, k)

(* The link update_account_contact leaves: a new one (foreign keys, unique *)
(* pair), the flag where it differs from the one read, or none written.    *)
WriteLink(t) ==
  LET q == t.req
      flag == FlagWanted(t)
      present == \E k \in links : SameLink(q, k)
  IN  \/ /\ t.flag = Absent /\ ~present
         /\ AccountExists(q.account) /\ ContactExists(q.contact)
         /\ flag => PrimaryAllowed(q)
         /\ links' = links \cup {[id |-> t.id, contact |-> q.contact,
                                  account |-> q.account, primary |-> flag]}
      \/ /\ t.flag # Absent /\ flag # t.flag /\ present
         /\ flag => PrimaryAllowed(q)
         /\ links' = SetFlag(q, flag)
      \/ /\ t.flag # Absent /\ flag = t.flag
         /\ UNCHANGED links

(* update_account_contact: the contact's changed columns and the link.     *)
CommitLink(s) ==
  LET t == txs[s]
      q == t.req
      readdressed == q.email \notin {Unset, t.email}
  IN  /\ t.phase = "checked" /\ q.op = "link"
      /\ WriteLink(t)
      /\ readdressed => ContactExists(q.contact) /\ EmailFree(q.email, q.contact)
      /\ contacts' = IF readdressed
                     THEN [contacts EXCEPT ![q.contact].email = q.email]
                     ELSE contacts
      /\ Finish(s)
      /\ UNCHANGED <<accounts, stakeholders>>

(* mutant of Kept: nothing cascades                                        *)
KeptAll(gone) == links

(* ON DELETE CASCADE of contact_accounts                                   *)
Kept(gone) == links \ gone

(* delete_account: an account without deals.                               *)
DeleteAccount(u, a) ==
  /\ MayAccess(u, a)
  /\ accounts' = [accounts EXCEPT ![a] = Deleted]
  /\ links' = Kept(LinksOf(a))
  /\ UNCHANGED <<contacts, stakeholders, txs>>
-----------------------------------------------------------------------------
(* create_contact                                                          *)
CreateContact(u, e) ==
  /\ NextContact \in Contact
  /\ EmailFree(e, None)
  /\ contacts' = [contacts EXCEPT ![NextContact] = [email |-> e, creator |-> u]]
  /\ UNCHANGED <<accounts, links, stakeholders, txs>>

(* update_contact: its address                                             *)
UpdateContact(u, c, e) ==
  /\ Sees(u, c)
  /\ EmailFree(e, c)
  /\ contacts' = [contacts EXCEPT ![c].email = e]
  /\ UNCHANGED <<accounts, links, stakeholders, txs>>

(* delete_contact: contact_accounts and deal_contacts cascade.             *)
DeleteContact(u, c) ==
  /\ Sees(u, c)
  /\ contacts' = [contacts EXCEPT ![c] = Deleted]
  /\ links' = Kept(LinksTo(c))
  /\ stakeholders' = [d \in Deal |-> stakeholders[d] \ {c}]
  /\ UNCHANGED <<accounts, txs>>

(* contact_ids of a deal's update; the contacts only have to exist.        *)
SetStakeholders(d, C) ==
  /\ \A c \in C : ContactExists(c)
  /\ stakeholders' = [stakeholders EXCEPT ![d] = C]
  /\ UNCHANGED <<accounts, contacts, links, txs>>
-----------------------------------------------------------------------------
Next ==
  \/ \E u \in User, b \in NewAccounts : CreateAccount(u, b)
  \/ \E u \in User, a \in Account : DeleteAccount(u, a)
  \/ \E s \in Session, q \in Requests : Begin(s, q)
  \/ \E s \in Session : CommitAccount(s) \/ CommitAdd(s) \/ CommitLink(s) \/ Rollback(s)
  \/ \E u \in User, e \in Email : CreateContact(u, e)
  \/ \E u \in User, c \in Contact, e \in Email : UpdateContact(u, c, e)
  \/ \E u \in User, c \in Contact : DeleteContact(u, c)
  \/ \E d \in Deal, C \in SUBSET Contact : SetStakeholders(d, C)

Spec == Init /\ [][Next]_vars
-----------------------------------------------------------------------------
(* What the screens show                                                   *)

(* mutant of ListAccounts: the owner asked for replaces the scoping        *)
ListAccountsUnscoped(u, owner) ==
  {a \in Account : AccountExists(a) /\
     IF owner # None THEN accounts[a] = owner
     ELSE u \in AccountsViewAll \/ accounts[a] = u}

(* list_accounts and export_accounts: without accounts.view_all the owner  *)
(* asked for (None: any) is replaced by the requester.                     *)
ListAccounts(u, owner) ==
  LET asked == IF u \in AccountsViewAll THEN owner ELSE u
  IN  {a \in Account : AccountExists(a) /\ asked \in {None, accounts[a]}}

(* list_contacts and export_contacts with the filters account_id (None:    *)
(* any) and is_primary (Unset: any): one link satisfies both.              *)
ListContacts(u, account, primary) ==
  {c \in Contact : Sees(u, c) /\
     (account # None \/ primary # Unset =>
        \E k \in LinksTo(c) : /\ account \in {None, k.account}
                              /\ primary \in {Unset, k.primary})}

(* list_account_contacts and the key contacts of the account's overview    *)
AccountContactList(a) == {k.contact : k \in LinksOf(a)}

Oldest(L) == CHOOSE k \in L : \A o \in L : k.id <= o.id

(* mutant of Representative: the latest link instead of the oldest         *)
RepresentativeLatest(c) ==
  LET primaries == {k \in LinksTo(c) : k.primary}
      shown == IF primaries # {} THEN primaries ELSE LinksTo(c)
  IN  IF shown = {} THEN None
      ELSE (CHOOSE k \in shown : \A o \in shown : o.id <= k.id).account

(* _primary_account_link: the account shown beside a contact is that of    *)
(* its oldest primary link, or else of its oldest link.                    *)
Representative(c) ==
  LET primaries == {k \in LinksTo(c) : k.primary}
      shown == IF primaries # {} THEN primaries ELSE LinksTo(c)
  IN  IF shown = {} THEN None ELSE Oldest(shown).account
-----------------------------------------------------------------------------
(* Properties                                                              *)

IsPrimary(c, a) == \E k \in LinksTo(c) : k.account = a /\ k.primary
IsLinked(c, a) == \E k \in LinksTo(c) : k.account = a

(* No two contacts share an address and no link or stake names a deleted   *)
(* account or contact, though requests insert links to rows they read      *)
(* steps before and _add_contacts checks addresses before it inserts.      *)
NothingDangles ==
  /\ \A k \in links : AccountExists(k.account) /\ ContactExists(k.contact)
  /\ \A d \in Deal : \A c \in stakeholders[d] : ContactExists(c)

UniqueContacts ==
  \A c, o \in Contact :
    ContactExists(c) /\ ContactExists(o) /\ contacts[c].email = contacts[o].email => c = o

(* An account has one primary contact at most, however requests that found *)
(* none overlap; a contact is linked to an account once.                   *)
OnePrimary ==
  \A k, o \in links :
    /\ k.account = o.account /\ k.primary /\ o.primary => k = o
    /\ SameLink(k, o) => k = o

(* A contact stops being an account's primary contact only by a request    *)
(* that says so, or by a deletion: edits of other fields and promotions of *)
(* other contacts that overlap leave it in place.                          *)
PrimaryKept ==
  [][\A a \in Account, c \in Contact :
       IsPrimary(c, a) /\ ~IsPrimary(c, a)' =>
         \/ accounts'[a] = Deleted
         \/ contacts'[c] = Deleted
         \/ \E s \in Session : /\ txs[s].phase = "checked" /\ txs'[s] = Idle
                               /\ txs[s].req.op = "link"
                               /\ SameLink(txs[s].req, [contact |-> c, account |-> a])
                               /\ txs[s].req.primary = FALSE]_vars

(* The account shown beside a contact changes only when that link goes or  *)
(* is demoted, or another of its links is made primary: linking a contact  *)
(* to one more account does not move it there, unless that request had     *)
(* inserted its link before the one shown was inserted, and commits later. *)
RepresentativeStable ==
  [][\A c \in Contact, a, b \in Account :
       a # b /\ Representative(c) = a /\ Representative(c)' = b =>
         \/ ~IsLinked(c, a)'
         \/ IsPrimary(c, a) /\ ~IsPrimary(c, a)'
         \/ IsPrimary(c, b)' /\ ~IsPrimary(c, b)
         \/ \E s \in Session, k \in LinksTo(c) :
              k.account = a /\ CommitLink(s) /\ txs[s].flag = Absent /\ txs[s].id < k.id]_vars

(* The two ways a screen is scoped agree: whatever owner a user asks for,  *)
(* the accounts listed are ones get_account gives that user, and all of    *)
(* them are listed when no owner is asked for; an account's own list of    *)
(* contacts is the contact list filtered by that account; and the filter   *)
(* on primary contacts finds one at most.                                  *)
ScreensAgree ==
  \A u \in User :
    /\ \A o \in User : ListAccounts(u, o) \subseteq {a \in Account : MayAccess(u, a)}
    /\ ListAccounts(u, None) = {a \in Account : MayAccess(u, a)}
    /\ \A a \in Account :
         /\ accounts[a] = u => ListContacts(u, a, Unset) = AccountContactList(a)
         /\ Cardinality(ListContacts(u, a, TRUE)) <= 1

Holder == [a \in Account |->
             IF HasPrimary(a) THEN CHOOSE c \in Contact : IsPrimary(c, a) ELSE None]

Primary == INSTANCE PrimaryContact WITH holder <- Holder

(* The primary flags implement PrimaryContact: no request replaces one     *)
(* primary contact by another.                                             *)
PrimaryPlaceKept == Primary!Spec
=============================================================================

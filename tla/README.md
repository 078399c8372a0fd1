# SalesHub: a TLA+ model of the CRM backend

SalesHub is a FastAPI service over async SQLAlchemy and PostgreSQL. It keeps
leads, accounts, contacts, deals and their pipeline stages, and the users who
work on them. This directory models its state changes under concurrent
requests, checks them with TLC on small instances, and proves the central
ones with TLAPS for every instance.

## The system

### How requests run

Every request gets one `AsyncSession` (`app/db/session.py`) and, with its first
query, one PostgreSQL transaction at READ COMMITTED. `enforce_rbac` and the
route share that session. Services only flush; the route commits once at the
end. An exception before that leaves the transaction to be rolled back.
Handlers interleave at every `await`, and several workers may run, so between
two statements of one request any other request may commit. Four consequences
shape the models:

* A row is read once and kept in the session (`expire_on_commit=False`).
  Decisions made later use that copy, which may be stale.
* The ORM's `UPDATE` names only the columns whose value differs from the
  loaded one. Columns the request did not touch are never written back.
* Row locks are held from the first write to the commit, so a write can be
  placed at the commit; a check that reads is not protected by anything.
* `created_at` is `now()`, the time the transaction *began*.

Unique indexes and foreign keys are the only guards that hold between
requests. The models state each one where a statement would meet it.

### Components

| Component | State | Operations that change it | Interacts with | What makes it correct |
|---|---|---|---|---|
| Deals (`deal_service`) | `deals`, `deal_contacts` | create, update (move, reassign, relink), delete | writes stage history and notices, reads stages and contacts | each move recorded once, in order; reason for cold deals; owner told; nothing left after a deletion |
| Stages and history (`deal_stage_service`, `models/deal_stage_history`) | `deal_stages`, `deal_stage_history` | create, update, delete a stage | referenced by deals and history; dates closes for the dashboard and the deals list | no deleted stage is named; the date of a close is the date of its move |
| Generic patch (`generic_patch_service`) | any column of deals, stages, history | set one field | bypasses the checks of the services above | a stage set this way is recorded too |
| Leads (`lead_service`) | `leads`, `lead_contacts` | create, update, replace additional contacts, delete | notices; source of accounts | distinct contact points; mirror row; new owner told |
| Accounts and conversion (`account_service`) | `accounts`, `contact_accounts` | create, update, delete, convert a lead | reads leads, creates contacts and links, notifies | one account per lead; source lead kept and marked; nothing dangling |
| Contacts (`contact_service`, `contact_account_service`) | `contacts`, links, primary flag | create, update, delete, link, make primary | deals, accounts, conversion | unique address; one primary contact per account, demoted only on request; lists show what may be opened |
| Sessions (`auth_service`, `rbac_middleware`, `security`) | refresh and reset tokens, `password_changed_at` | log in, refresh, log out, request a reset, reset, change password | every request passes `enforce_rbac` | a change ends the sessions before it for good; nobody is locked out for good |
| Users (`user_service`) | `users` | invite, revive, deactivate, delete, reinvite, role, profile | sessions, roles, owners | a deleted user is inactive; the status lists split the roster |
| Roles and permissions (`role_service`, `permission_codes`, `rbac_seed`) | `roles`, `permissions` | create, update, delete a role; seed at start-up | `enforce_rbac`, who gets create notices | roles are closed under dependencies; a restart gives nothing back; every worker comes to serve |
| Imports (`lead_import_service`, `contact_import_service`) | none of their own | one commit per row | `create_lead`, `create_contact` | a bad row is reported, the others are imported; an upload repeated after a failure gets done |
| Notifications (`notification_service`) | `notifications` | create, read, read all, delete; list merged with overdue follow-ups | all of the above | the first page shows the newest; badge and total agree with the list |
| Dashboard (`dashboard_service`) | none (reads) | periods, counts, funnel, leaderboard, trends, activity feed | history dates, stages | tiles, bars and lists agree; adjacent periods; the feed's pages are complete |
| Deal scoring (`deal_scoring`) | none | totals and bands | deals | the mode is the band of the total, also with levels that are gone |
| Documents (`*_document_service`, storage) | document rows, stored files | upload, delete | deals, accounts, file store | a listed document opens; a half-done deletion can be repeated |
| Activities, audit log | notes, log rows | append, edit | leads, deals, accounts | one row per change |
| Search, export, e-mail, schemas, migrations | none | none | | formatting and read-only |

The hard behaviours, each at its line, are the `hazards` of `PROJECT.json`.

## The modules

| Module | Models |
|---|---|
| `StageLedger` | the promise: a deal's stage and the ledger of its moves change together |
| `DealPipeline` | deals, contact links, stages, history, generic patch, notices, under concurrent sessions; implements `StageLedger` |
| `DealPipelineProofs` | theorems about `DealPipeline`, however requests overlap |
| `DealTurnsProofs` | theorems about `DealPipeline` where requests on one deal take turns |
| `MCDealPipeline` | its instances for TLC |
| `LeadConversion` | leads, their address rows, conversion into accounts, contacts and links, under concurrent sessions |
| `LeadConversionProofs` | theorems about `LeadConversion` |
| `MCLeadConversion` | its instances for TLC |
| `PrimaryContact` | the promise: an account has one primary contact at most, and nobody takes a place that is not free |
| `AccountContacts` | accounts, contacts, links and stakeholders, under concurrent sessions, and the lists over them; implements `PrimaryContact` |
| `AccountContactsProofs` | theorems about `AccountContacts` and the refinement |
| `MCAccountContacts` | its instance for TLC |
| `Sessions` | users, refresh, access and reset tokens, the roster, and the clocks |
| `SessionsProofs` | theorems about `Sessions` |
| `MCSessions` | its instances for TLC |
| `Imports` | bulk imports, row by row, with lost requests and repeated uploads |
| `Roles` | roles, the start-up seed of several workers, edits on the admin screen |
| `Documents` | the file and the row of a document |
| `Notifications` | notifications and the panel |
| `Activities` | activities and the dashboard's feed |
| `Scoring` | the qualification scores of a deal |
| `Dashboard` | deals and leads as the widgets count them and the lists show them |
| `Pages` | the newest entries of a list and its pages, used by `Notifications` and `Activities` |
| `RecoveryProofs` | theorems about `Documents`, `Imports` and `Roles`, whose work can be lost half-way |
| `OfficeProofs` | theorems about `Notifications`, `Activities`, `Dashboard` and `Scoring` |
| `MCOffice` | the seven modules before `Pages`, which share no state, in one instance |
| `MCOfficeProofs` | the theorems about the seven hold of `MCOffice`'s specification |

### DealPipeline

`txs[s]` is the request session `s` is serving: the request, the start time of
its transaction, the deal and the kind of its stage as it read them, and the
links its `DELETE` saw. The tables are `deals`, `links` (deal_contacts),
`stages`, `history`, `notices`; `issued` is the id sequence. `amended` is a
ghost: the deals with a history row that was rewritten by generic patch.

`update_deal` takes three steps: `LoadDeal` (read the deal with its stage,
check that the new stage exists), `ClearContacts` (only with `contact_ids`: the
flush that locks the row, then the `DELETE`), `UpdateDeal` (the rest, to the
commit). `generic_patch` on a deal is `LoadDeal`, `PatchDeal`; on a history row
`PatchHistory`; on a stage `UpdateStage`. `delete_deal_stage` is
`CheckStageUnused`, `DeleteStage`. The others decide on nothing they read
earlier and are one step. `Rollback` ends any request at any point: it stands
for every 4xx answer, rejected statement, lost connection and stopped worker.

What is abstracted: a stage's kind is `open` or `cold`, where `cold` stands for
everything that needs a reason (`is_cold` or the name Closed Lost); name, value,
account and scores of a deal, on which no modelled decision depends; the access
check, which only adds refusals (`Rollback`); the audit log.

### LeadConversion

`update_lead` and `convert_lead_to_account` are `LoadLead` (read the lead, make
every check), `FlushLead` (take its row lock, read address rows and contacts),
then `UpdateLead` or `ConvertLead` to the commit. Lead creation and deletion,
account deletion, and the contact operations that a conversion meets are one
step each. `told` is what the last commit inserted into notifications; `added`
is a ghost, the additional addresses last entered for a lead. An address row
carries the number of the flush that inserted it, so that a `DELETE` by id does
not remove a later row with the same address.

What is abstracted: phones and rows without an address, tiers, names, the
access check; accounts that no conversion made.

### AccountContacts

`accounts` keeps each account's owner, `contacts` each contact's address and
the actor of its `CREATED` audit row (the visibility predicate reads it),
`links` is contact_accounts, each row with its id, `stakeholders` deal_contacts.
A request that will insert a link takes the id when its INSERT runs (`Begin`)
and shows the row at its commit, so rows may appear out of the order of their
ids; the contact's list of accounts is ordered by id (`Oldest`).
`update_account`, `create_account_contact` and `update_account_contact` are
`Begin` (everything the request reads and checks) and `CommitAccount`,
`CommitAdd` or `CommitLink`; between them other requests commit, and at the
commit the unique indexes (`EmailFree`, `PrimaryAllowed`) and foreign keys
decide. A commit writes the owner, the address and the flag only where they
differ from what was read. The other requests decide on nothing older than
their own statement and are one step. `Holder` is the refinement mapping to
`PrimaryContact`.

Left out: names, phones, tiers; the deals of an account (the account of the
instance has none, so it may be deleted).

### Sessions

A login is `Authenticate` (`authenticate_user`) and `IssueTokens`; a refresh
is `ReadRefresh` and `RefreshAccess` (it reads the token, then the user); a password
change is `BeginChange` or `BeginReset` and `CommitPassword`; a roster request
is `BeginRoster` and `CommitRoster`. `now` is UTC in ticks, `NowIst` is
`Zone` ticks ahead, `WholeSecond` is what a JWT keeps of a time. `Accepted` is
`decode_access_token` and `enforce_rbac` together. Three variables and one
field are ghosts: `changedAt`, when the password was last stamped, in UTC;
`version[u]`, the number of changes of the user's password; `knew`, the version
a session was let in with, kept in its tokens; and `ended[u]`, the version whose
earlier sessions a change has ended, which a commit raises if the change was
`Undisturbed`: no login or refresh of the user let in before it is pending, no
change stamped before it is pending, and no access token was made since it was
stamped. Expired access tokens are dropped from
`access`, where nothing would accept them again.

### Imports, Roles, Documents

`Imports` walks a file: `ReportRow`, `RejectRow` (the rollback that expires
`requester`), `InsertRow`, and `Abort` where the next row reads `requester.id`
of the expired object. `Crash` loses the request between two rows,
`UploadAgain` is the user's retry, `CreateElsewhere` another request.

`Roles` starts in an empty database or in one of an older version.
`SeedRead` and `SeedCommit` or `SeedFail` are a worker's start, `Stop` a
crash or a deployment at any point, `LoadRole` and `CommitRole` a PATCH. The
rows of role_permissions are written by difference, as SQLAlchemy does.
`Rounds` is the loop of `resolve_permission_dependencies` as a recursive
function on the number of rounds; it stops changing after as many rounds as
there are codes. An older version is any part of the catalog, with a role that
has any of its codes, closed or not.

`Documents` stores the file, then the row (`StoreFile`, `CommitUpload`), and
removes the file, then the row (`RemoveFile`, `CommitDeletion`);
`LoseRequest` is a request that ends between the two, `DeleteHolder` a
deleted deal or account, whose rows cascade. `RetryDeletion` is the user who
still sees the document and deletes it again.

### Notifications, Activities, Scoring, Dashboard

Their actions are the requests that fill the tables, one after the other; their
operators translate
the queries and what Python does to the results: `ListNotifications`,
`UnreadCount`, `ActivityFeed`, `PeriodBounds`, `Funnel`, `Leaderboard`,
`Distribution`, `DropOff`, `Trend`, `ListDeals`, `Board`, `ListLeads`. The
properties relate queries that were written separately. Sums of values run over
the same rows as the counts and are left out. A query reads one state: the
three SELECTs of `list_notifications` and the queries of one dashboard call
take a snapshot each in the code, and rows written between them may still make
them differ.

A deal of `Dashboard` is written through four doors: `OpenDeal` and
`UpdateDeal`, which check the cold reason, and two that do not. `PatchDeal` is
`generic_patch` of a deal's stage, reason or owner; `UpdateStage` renames a
stage or turns it cold with deals in it. `PatchMove` rewrites a history row.
The ghost `unchecked` holds the deals that a request without the check wrote,
whose history it rewrote, or whose stage was edited. Such a deal can be lost
without a reason: the funnel counts it and the drop-off report does not
(`cold_reason IS NOT NULL`). Conversions count as accounts with a
`source_lead_id`: `ConvertTwice` makes two of one lead, as the race of
`lead_double_conversion` does, and `DropAccount` takes one away.

A page is the set of its entries, whose moments give their order in it
(`Newest`: as many entries as asked for, none left out newer than one shown).
Deal moves are a set too: nothing reads them in an order other than that of
their moments. The sum of a chart's bars (`Total`) and the score of a deal
(`Points`) are cardinalities of disjoint unions: one element for each unit.

### MCOffice

These seven write no table in common and decide on none of each other's, so
their product would only multiply states. In `MCOffice` the variable `part`
picks one of `Parts` at the start and only that one moves; `office` covers every
behaviour of each.

## What the runs check

| Run | Instance | Checks |
|---|---|---|
| `deal_races` | 2 sessions, 1 deal, 3 stages, 12 kinds of request, 5 transactions | types, `CurrentStageRecorded`, `StagesInUseExist`, `NothingOutlivesItsDeal`, `LedgerKept` |
| `deal_serial` | 1 session, 12 requests, 6 transactions | `HistoryIsAPath`, `ColdReasonOnRecord`, `CloseDatedByItsMove`, `MoveNotifiesOwner` |
| `deal_close_date` | 2 sessions, moves only | `CloseDatedByItsMove` is violated |
| `deal_cold_race` | 2 sessions, moves and reason edits | `ColdReasonOnRecord` is violated |
| `lead_races` | 2 sessions, 2 leads, 2 accounts, 2 contacts, 3 addresses | types, `SourceLeadConverted`, `NoOrphans`, `ConvertedForGood`, `NewOwnerTold` |
| `lead_double_conversion` | 2 sessions, 1 conversion request | `ConvertedOnce` is violated |
| `lead_former_address` | 1 session | `OnlyEnteredAddressesCarried` is violated |
| `account_contacts` | 2 sessions, 2 users, 2 accounts, 2 contacts, 2 addresses, 1 deal, 8 requests | types, `NothingDangles`, `UniqueContacts`, `OnePrimary`, `ScreensAgree`, `PrimaryKept`, `RepresentativeStable`, `PrimaryPlaceKept` |
| `access` | 1 user, 2 sessions, 1 roster session, 1 refresh token, 1 reset token, 5 moments | types, `DeletedIsInactive`, `StatusListsAgree`, `EarlierSessionsEnded`, `NobodyLockedOut` |
| `access_after_reset` | 2 refresh tokens, 6 moments, only resets | `AcceptedAfterChange` is violated |
| `office` | below | types, `NoRowLost`, `PanelAgrees`, `ListedDocumentsOpen`, `FeedPagesComplete`, `ModeFollowsTotal`, `WidgetsAgree`, `ListsMatchAccess`, `RetriesFinish`, `QuietCommitsClose`, `RemovalsKept`, `StartsServe`, `HalfDeletedGo` |
| `import_abort` | 1 import of 3 rows, no lost request | `NoBatchFails` is violated |

**Bounds.** `MaxTx` bounds the transactions begun and is the clock's range:
five are a creation and four more requests, enough for two overlapping pairs;
every property speaks of one deal, whose rows only requests on that deal or on
its stages change, so one deal and three stages suffice (one to stand in, one
to move to, one that is created, turned and deleted). `MaxFlushes` bounds the
inserts into lead_contacts: a creation and one replacement or second creation.
Two accounts and two contacts let two conversions of one lead meet and let a
conversion both reuse and create a contact. The instances stop when the bounds
are used up, so deadlock is not checked.

* `account_contacts`: two contacts compete for one account's primary place and
  two addresses for one contact; a second account lets a contact have an older
  and a newer link. `bob` has `accounts.view_all` and owns the deal, nobody has
  `contacts.view_all`, so every branch of the visibility predicate decides. With four link ids each
  contact can be linked to each account once, or a pair be linked again after a
  deletion. The two sessions differ in nothing and are a symmetry set.
* `access`: a second is two ticks, so that a token and a change can fall into
  one; IST is three ticks ahead, longer than an access token lives, as 5.5
  hours is. `MaxEdits` = 3 lets two changes overlap after an invitation, or a
  user be deleted, invited again and deactivated. A change begins only while
  the clock still lasts past its stamp (`ClockLasts`): otherwise the end of the
  instance's time, not the code, would lock the user out.
  `EarlierSessionsEnded` needs a login, a change and something that overlaps or
  follows it: two sessions and, after the invitation, two changes give them.
  Each of the three conditions of `Undisturbed` is needed in this instance:
  without any one of them TLC finds an earlier session accepted.
* `office`: two imports of a file with a bad row between two good ones, one
  lost request; two workers, one starter role, a chain of two dependencies,
  every older catalog and every set of codes in a role of it, one edit, two
  stops; two holders, three uploads, two lost requests; two
  notifications and two follow-ups of two users; three activities at four
  moments on a deal and on a lead nobody owns, with pages of every length; the eight scoring dimensions
  with every non-decreasing sheet, so every total, and one dropped dimension or
  level; two deals, one of a tier, one lead, and five moments of half a day
  each: three days, so periods of one to three days and those before them. Four
  requests on the dashboard's tables are a creation, a move, and two through the unchecked doors or
  the way back; any stage may be turned cold or become the lost one, with deals
  in it.

**Disagreements with the documentation.** Each is a `finding` in `PROJECT.json`.

* Of two overlapping moves the later commit may have the earlier `created_at`,
  so `max(created_at)` into the current stage is not always the last move.
  The same holds for `list_stage_history`, which orders by `created_at`.
* The cold-reason check looks at the loaded reason. Clearing the reason and
  moving to the cold stage, overlapping, both succeed. The rule is also not
  kept, with no race at all, when generic patch sets the stage or the reason,
  or when `update_deal_stage` turns a stage in use cold; `deal_serial` leaves
  those two doors out and checks the deals screen.
* Two overlapping conversions of one lead make two accounts.
* After its address is changed, a lead's former address is carried over to the
  account as a contact nobody entered.
* `reset_password` stamps `password_changed_at` with the IST wall clock, and
  `enforce_rbac` compares it with a UTC `iat`: after a reset, tokens are refused
  for 5.5 hours, although login succeeds. `NobodyLockedOut` holds: it ends.
* A row whose INSERT the index refuses ends a lead import in an unhandled
  database error (400) at the next row, and the rows after it are not imported.

Further behaviour met while modelling, which no run states as a property:

* `_set_deal_contacts` replaces the links entirely, for one request. Two
  overlapping contact-only updates leave the union of both (the second
  `DELETE` does not see the first one's inserts if it ran before their commit).
* `models/contact_account.py:6-8` says the violation of the one-primary index
  is caught and answered with a 409. No code catches it: the loser of two
  overlapping promotions gets the unhandled database error (400). The data
  stays right (`OnePrimary`).
* `activate_user` overlapping `soft_delete_user` leaves a deleted user active,
  against the latter's docstring. `access` has one roster session, where
  `DeletedIsInactive` holds; with two TLC finds the overlap.
* `README.md:71` says that a change of the password "forces re-login
  everywhere", and `auth_service.py:105-107` that every other session is forced
  to log in again. A login that checked the old password before the change and
  stores its refresh token after it is not seen by `revoke_all_refresh_tokens`
  and lives on; a refresh that read its token before the change gets an access
  token with a later `iat`.
* The same line says that an access token is rejected once it predates the
  change. Of two overlapping changes the one stamped first may commit last: it
  puts `password_changed_at` back, and a token whose `iat` lies between the
  stamps is accepted again. `EarlierSessionsEnded` therefore speaks of changes
  that none of this overlaps, and then of all time after them.
* A start-up seed and an edit of a role that overlap can leave the role not
  closed (`permission_codes.py:30-36`) until the next start;
  `QuietCommitsClose` speaks of those that do not overlap.
* The notification panel merges all overdue follow-ups into every page. Later
  pages repeat them and lose stored entries, so `PanelAgrees` speaks of the
  first page.
* `_drop_off_query` asks for a reason, the funnel does not: a deal that reached
  a cold or lost stage without one, through generic patch or because its stage
  was turned cold, is counted in the one and missing in the other.
  `WidgetsAgree` relates the two for deals that every request checked. A lost
  deal without a move into its stage, because its history row was patched, is
  dated by its creation in the report and counted by no other widget, though
  `deal_stage_history.py:85-90` speaks of a "single date-scoping rule shared by
  every dashboard widget".
* The account shown beside a contact is that of its link with the lowest id.
  A request that inserted its link first and commits last moves the contact to
  its account, though no flag changed: `RepresentativeStable` names this case.
* Contacts made by `_add_contacts` have no `CREATED` audit row of their own;
  once unlinked, only `contacts.view_all` shows them.

**Fairness and liveness.** Four properties are of this kind.

* `NobodyLockedOut` assumes that the clock runs; that a change that was begun
  commits or is rolled back; that a user who is not let in logs in or
  refreshes again, as a 401 asks for; and, strongly, that not
  every login loses its connection between its two steps. Roster requests and
  resets need no fairness: they may never happen.
* `RetriesFinish` assumes that a request that walks rows goes on, and that its
  user uploads the file again after an error. Lost requests are bounded by
  `MaxCrashes`. A file that meets an additional address of an existing lead
  aborts every time, so the instance has none; `import_abort` has.
* `StartsServe` assumes what the process supervisor does: a worker that is down
  is started, and its start goes on to a commit or an error.
* `HalfDeletedGo` assumes that every request ends and that a user who still
  sees a document whose file is gone deletes it again.

The other runs need no fairness: their handlers run to an end or are rolled
back, and none waits for another beyond a row lock.

## What is proved

`DealPipelineProofs` proves for every set of sessions, deals, stages, users,
contacts and requests and every `MaxTx`, from the assumptions named in
`DealPipeline` (the bound is a natural number, NULL is not a value, a creation
carries its fields, recipients are users):

* `TypeCorrect`: `Spec => []TypeOK`.
* `StagesInUseAlwaysExist`: `Spec => []StagesInUseExist`.
* `CurrentStageAlwaysRecorded`, `NothingEverOutlivesItsDeal`.
* `PipelineKeepsLedger`: `Spec => LedgerKept`, the refinement of `StageLedger`.

The inductive invariant has two layers. `TypeInv` adds to `TypeOK` that a
session about to write holds a row it has read. `LedgerInv` adds three facts
`CurrentStageRecorded` needs: a live deal's id was issued (so a creation does
not meet an old row), and `ReadsRecorded`: the deal a session holds has a
history row into the stage the session *read*, as long as it lives and its
history is not amended. Without it the induction fails at an update that does
not change the stage it read, and the ledger's `Move` cannot justify its
`from`. The key step, `MovedStage`, is that the stage committed differs from
the one in the table only if the request recorded that move.

`LeadConversionProofs` proves the five properties of the run `lead_races` for
every set of sessions, leads, accounts, contacts, addresses, users and requests
and every bound on inserts, from the assumptions of `LeadConversion`:

* `TypeCorrect`. `TypeOK` is not inductive: the account a conversion makes takes
  its owner from the request or from the lead as read, and is typed only if one
  of them is a user. `OwnerFound` adds that a conversion goes on only with an
  owner (the early return of `convert_lead`).
* `ConversionIsForGood` and `NewOwnerAlwaysTold`, action properties. The UPDATE
  writes the columns the request changed and no other (`RowViews`), so a stale
  read neither clears the flag nor moves the owner without a notice.
* `SourceLeadAlwaysConverted`: `LeadsKept` (a converted lead stays so or is
  deleted with no account left) and `AccountsMade` (an account comes only from
  a conversion, which marks its lead in the same step).
* `NothingOrphaned`: `AddressesStep` and `LinksStep`, one case per action. The
  case that matters is the conversion, which links contacts matched some steps
  before and which a deletion may have taken since (`Conversion`).

`RecoveryProofs` proves `DocumentsSpec => []ListedDocumentsOpen`. The invariant
adds that a row's key is its own document's (`RowsKeyed`), that an upload under
way has its file, no row, and a document no other request has (`UploadsApart`),
and that a present row's file is in the storage unless its deletion began
(`FilesThere`).

It proves `ImportsSpec => []NoRowLost` for every set of files of
any length. `Accounted` strengthens it with what an import believes: each
address it found or inserted is in the database and stays there, so a row
skipped as a duplicate is not lost, and a row reported is one not reported
before, so the counts add up to the rows passed.

Its theorems about roles, `RolesSpec => QuietCommitsClose` and
`RolesSpec => RemovalsKept`, hold for every finite catalog and every
dependencies, cycles included. Both rest on what
`resolve_permission_dependencies` returns: the smallest closed set with the
codes in it (`ResolveCloses`, `ResolveIsLeast`). A round keeps that only codes
of its frontier may lack what they require, and adds a code unless it is the
last (`RoundKept`); so the frontier is empty after as many rounds as there are
codes. The library's induction theorems cannot be instantiated here, so
`NumbersFrom` states induction about sets of numbers, and `Iterates` proves from
it that the recursive function exists. The state invariant is that who serves
has seeded the whole catalog (`ServedAll`), that what a PATCH is about to write
is closed (`PatchesClosed`), and that roles stay (`RolesStay`).

`AccountContactsProofs` proves the eight properties of the run
`account_contacts` for every set of sessions, users, accounts, contacts, deals
and requests and every bound on ids, from the assumptions of `AccountContacts`:

* `TypeCorrect`. To `TypeOK` it adds that a request about to insert a link has
  its id, that the contacts it will add passed the checks (`ReadsChecked`), and
  that contacts are handed out in order (`InOrder`).
* `AddressesUnique`, `NoLinkDangles`, `PrimaryContactUnique`. `LinksInv` is
  inductive: distinct ids, no two links of one contact to one account, one
  primary link per account, both ends there. The checks of a request are
  outdated when it commits; what carries the step is the index or key the
  statement meets.
* `ScreensAlwaysAgree` follows from `LinksInv`.
* `PrimaryStays` and `RepresentativeStays`, action properties: `LinksChange`
  lists what a step may do to the links (add rows, remove those of a deleted
  row, turn one flag), and each form keeps the property.
* `PrimaryPlaceHeld`: `AccountContacts` implements `PrimaryContact` under
  `Holder`, whose value is the primary link's contact (`HolderIsPrimary`).

`SessionsProofs` proves for every set of users, sessions and tokens, any
difference of the clocks and any lifetimes:

* `TypeCorrect`: `TypeOK` and that rows a request read stay (`RowsThere`) and
  that a stamp to be stored is not before its moment (`StampsBounded`).
* `EarlierSessionsStayEnded`: `Spec => []EarlierSessionsEnded`. `EndedInv` says
  that a usable refresh token and a pending login or refresh are of a version
  not ended (`RefreshCurrent`, `RequestsCurrent`), that no stamp lies in the
  future of the wall clock (`StampsPast`), and that an access token of an ended
  version is older than the stored stamp *and* than that of every pending
  change (`AccessOutdated`). The last part is what makes the property last: a
  change that commits later with an older stamp than the stored one cannot
  bring such a token back, as `Undisturbed` excluded it when the version ended
  and a change begun afterwards is stamped later than the tokens' `iat`.
* `ListsAlwaysFollowStatus`.
* `DeletedStayInactive`, under the hypothesis that roster requests do not
  overlap (one roster session, as in the run; with two it is false, as said
  above). What such a request read is still so when it commits
  (`RosterReadsCurrent`).

`DealTurnsProofs` proves the four properties of the run `deal_serial` for the
behaviours in which requests on one deal take turns (`DealsTakeTurns`): any
number of sessions, requests on other deals and on stages overlapping freely.
With one session they always do (`OneSessionTakesTurns`); without the
hypothesis the runs `deal_close_date` and `deal_cold_race` refute two of them.
`TurnsInv` says that the row a request read is the one in the table
(`ReadsCurrent`) and that its deal's history is older than its transaction
(`RowsBefore`).

* `CloseAlwaysDatedByItsMove` and `MovesNotifyTheirOwner`, action properties.
* `HistoryStaysAPath`, if no request rewrites a history row by hand
  (`HistoryUntouched`): a rewritten row need not meet its neighbours.
* `ColdDealsHaveReasons`, if neither generic patch on a deal nor an edit of a
  stage is among the requests (`CheckedEditsOnly`): the two doors without the
  check, through which it fails without any overlap.

`OfficeProofs` proves, for every set of users, entities and rows, every bound
and every moment:

* `PanelAlwaysAgrees`: `NotificationsSpec => []PanelAgrees`. The first page of
  a merge is the merge of the first pages (`MergedFirstPage`).
* `FeedPagesAlwaysComplete`: `ActivitiesSpec => []FeedPagesComplete`. Every
  entry has a rank, the number of entries newer than it (`Ranks`); the newest n
  are those of a rank below n (`NewestByRank`), in each table and in the merge
  (`MergedByRank`), so a page holds the ranks of its place. It needs
  that no two entries have one moment, which `ActivitiesInv` says of the rows.
* `WidgetsAlwaysAgree` and `ListsAlwaysMatchAccess`, from `DashboardInv`:
  each move has a moment of its own, and a deal that every request checked
  (not in `unchecked`) has a move into its stage and, in a cold or lost stage,
  its reason. Of the others nothing is assumed: they have one latest move or
  none (`OneCounted`), and the drop-off report lists them once at most
  (`LostOnce`). A chart whose bars are disjoint sums to the
  rows in them (`Bars`).
* `ModeAlwaysFollowsTotal`: a total is the number of points, a higher level
  adds points (`MoreIsFaster`), and eight levels of one point are the minimum
  of mode C. That the dimensions are eight is an assumption of `Scoring`: it is
  what `SCORING_DIMENSIONS` has.

`MCOfficeProofs` proves that a behaviour of `OfficeSpec` is one of each
component (`OfficeImplementsParts`), so that all the above holds of the
specification the run checks, and `OfficeSpec => []OfficeTypeOK`.

Only model-checked: liveness (`NobodyLockedOut`, `RetriesFinish`,
`StartsServe`, `HalfDeletedGo`), which the prover cannot do, and the six
disagreements, which are counterexamples. Every other property of a run is a
theorem, the five with a hypothesis as stated.

## Not modelled

* Generic patch on other tables and columns than those of deals, stages and
  history: it sets any field of any row, and nothing the models state would be
  left of a table it reaches.
* Change of role, profile and avatar of a user: one row, one statement. A role
  decides only which access checks pass.
* Audit log (one row with each change, in its transaction), search, export
  layout, e-mail (a failure never fails a request), field validators,
  migrations, configuration. They change no state that another part reads, or
  only format.
* Phones, names, tiers, values, search and sort of the lists; the kind of error
  a refused statement is answered with.

## Plan

1. The two conditional results about deals, weakened to what holds under
   overlap: which part of a deal's history is a path when moves race, and
   which moves can leave a cold deal without its reason.
2. A contract for `Sessions` in the manner of `StageLedger`: what a session
   may still do after a change of the password, as an abstract specification.
3. The safety half of the liveness properties: where a retry stands, what a
   half-deleted document still has, as invariants with proofs.

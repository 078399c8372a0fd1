-------------------------------- MODULE Roles --------------------------------
(***************************************************************************)
(* Roles and their permissions: the admin screen that edits them, and the  *)
(* start-up of every worker, which seeds the permission catalog and the    *)
(* starter roles and closes each role under the dependencies.  Workers     *)
(* start, crash and restart while others serve; a start and a PATCH read   *)
(* first and write later.                                                  *)
(*                                                                         *)
(* role_permissions is written by difference: rows the loaded collection   *)
(* has and the new one lacks are deleted, the others inserted, and a row   *)
(* that exists by then violates the primary key.                           *)
(***************************************************************************)
EXTENDS Naturals, FiniteSets

CONSTANTS
  Worker,       (* server processes                                        *)
  Admin,        (* concurrent PATCH requests                               *)
  Code,         (* _PERMISSIONS, the codes the program knows               *)
  Requires,     (* PERMISSION_DEPENDENCIES                                 *)
  StarterName,  (* the names of STARTER_ROLES                              *)
  StarterCodes, (* the codes of each                                       *)
  CustomName,   (* a name admins give a role                               *)
  MaxRoles,     (* bound: role ids                                         *)
  MaxRoleEdits, (* bound: requests to /roles in a behaviour                *)
  MaxStops,     (* bound: workers stopped in a behaviour                   *)
  NoRole        (* an id the sequence has not handed out yet               *)

Role == 1..MaxRoles
Name == StarterName \cup {CustomName}

RoleRow == [name : Name, codes : SUBSET Code, deleted : BOOLEAN]

ASSUME RolesAssumption ==
  /\ IsFiniteSet(Code)
  /\ DOMAIN Requires \subseteq Code /\ \A c \in DOMAIN Requires : Requires[c] \in Code
  /\ StarterCodes \in [StarterName -> SUBSET Code]
  /\ MaxRoles \in Nat /\ MaxRoleEdits \in Nat /\ MaxStops \in Nat
  /\ NoRole \notin RoleRow

VARIABLES
  catalog,    (* permissions table                                         *)
  roles,      (* roles and role_permissions tables                         *)
  workers,    (* each worker's start-up, with what it has read             *)
  patches,    (* the PATCH each admin is in, with what it has read         *)
  roleEdits,  (* requests to /roles so far                                 *)
  stops       (* workers stopped so far                                    *)

roleVars == <<catalog, roles, workers, patches, roleEdits, stops>>

Down == [phase |-> "down"]
Up == [phase |-> "up"]
NoPatch == [phase |-> "idle"]

RoleTable == [Role -> RoleRow \cup {NoRole}]

RolesTypeOK ==
  /\ catalog \subseteq Code
  /\ roles \in RoleTable
  /\ workers \in [Worker -> {Down, Up}
       \cup [phase : {"seeding"}, catalog : SUBSET Code, roles : RoleTable]]
  /\ patches \in [Admin -> {NoPatch}
       \cup [phase : {"loaded"}, role : Role, row : RoleRow, name : Name,
             codes : SUBSET Code]]
  /\ roleEdits \in 0..MaxRoleEdits
  /\ stops \in 0..MaxStops
-----------------------------------------------------------------------------
(* mutant of Frontier: what is required is not looked up again             *)
FirstFrontier(resolved, frontier) ==
  IF resolved = frontier THEN {Requires[c] : c \in frontier \cap DOMAIN Requires} \ resolved
  ELSE {}

(* What the codes of the last round require and the result lacks.          *)
Frontier(resolved, frontier) ==
  {Requires[c] : c \in frontier \cap DOMAIN Requires} \ resolved

NextRound(last) ==
  LET more == Frontier(last.resolved, last.frontier)
  IN  [resolved |-> last.resolved \cup more, frontier |-> more]

Rounds(codes) ==
  LET round[n \in Nat] == IF n = 0 THEN [resolved |-> codes, frontier |-> codes]
                          ELSE NextRound(round[n - 1])
  IN  round

(* resolve_permission_dependencies, as many rounds as there are codes.     *)
Resolved == [codes \in SUBSET Code |-> Rounds(codes)[Cardinality(Code)].resolved]

Resolve(codes) == Resolved[codes]

Closed(codes) == \A c \in codes \cap DOMAIN Requires : Requires[c] \in codes

RoleExists(r) == roles[r] # NoRole
Named(table, n) == {r \in Role : table[r] # NoRole /\ table[r].name = n}

(* The ids the sequence hands out next.                                    *)
Unused == {r \in Role : ~RoleExists(r)}
NewIds(names) == {ids \in [names -> Unused] :
                    \A m, n \in names : ids[m] = ids[n] => m = n}

(* A new database, or one of a version before some of the codes and their  *)
(* dependencies, with a role that has any of the codes there were.         *)
RolesInit ==
  /\ catalog \in SUBSET Code
  /\ \/ catalog = {} /\ roles = [r \in Role |-> NoRole]
     \/ \E n \in Name, codes \in SUBSET catalog :
          roles = [r \in Role |-> IF r # 1 THEN NoRole
                     ELSE [name |-> n, codes |-> codes, deleted |-> FALSE]]
  /\ workers = [w \in Worker |-> Down]
  /\ patches = [a \in Admin |-> NoPatch]
  /\ roleEdits = 0
  /\ stops = 0
-----------------------------------------------------------------------------
(* seed_permissions_and_roles: the SELECTs of permissions and roles.  With *)
(* codes to insert, another worker waits in its own INSERT and fails; so   *)
(* the two SELECTs are one step.                                           *)
SeedRead(w) ==
  /\ workers[w] = Down
  /\ workers' = [workers EXCEPT ![w] =
                   [phase |-> "seeding", catalog |-> catalog, roles |-> roles]]
  /\ UNCHANGED <<catalog, roles, patches, roleEdits, stops>>

NewCodes(read) == Code \ read.catalog

(* mutant of Granted: starter roles get all their codes at every start     *)
GrantedAgain(read, row) ==
  IF row.name \in StarterName THEN StarterCodes[row.name] ELSE {}

(* A starter role that exists gets the codes that are new to the catalog.  *)
Granted(read, row) ==
  IF row.name \in StarterName THEN StarterCodes[row.name] \cap NewCodes(read) ELSE {}

(* The permissions start-up leaves a role it read: closed, every time.     *)
Seeded(read, row) == Resolve(row.codes \cup Granted(read, row))

(* mutant of MissingStarters: only roles that are not deleted are looked up *)
MissingStartersLive(read) ==
  {n \in StarterName : \A r \in Named(read.roles, n) : read.roles[r].deleted}

(* The starter roles to insert: a soft-deleted one keeps its name.         *)
MissingStarters(read) == {n \in StarterName : Named(read.roles, n) = {}}

(* What the unique indexes reject at the flush: a code, a name or a        *)
(* role_permissions row that another transaction has inserted since.       *)
SeedConflicts(w) ==
  LET read == workers[w]
  IN  \/ NewCodes(read) \cap catalog # {}
      \/ \E n \in MissingStarters(read) : Named(roles, n) # {}
      \/ \E r \in Role : read.roles[r] # NoRole /\
           (Seeded(read, read.roles[r]) \ read.roles[r].codes) \cap roles[r].codes # {}

StarterRow(n) == [name |-> n, codes |-> Resolve(StarterCodes[n]), deleted |-> FALSE]

SeedCommit(w) ==
  LET read == workers[w]
      missing == MissingStarters(read)
      ids == CHOOSE ids \in NewIds(missing) : TRUE
  IN  /\ read.phase = "seeding"
      /\ ~SeedConflicts(w)
      /\ NewIds(missing) # {}
      /\ catalog' = catalog \cup Code
      /\ roles' = [r \in Role |->
           IF \E n \in missing : ids[n] = r
           THEN StarterRow(CHOOSE n \in missing : ids[n] = r)
           ELSE IF read.roles[r] = NoRole THEN roles[r]
           ELSE [roles[r] EXCEPT !.codes =
                   @ \cup (Seeded(read, read.roles[r]) \ read.roles[r].codes)]]
      /\ workers' = [workers EXCEPT ![w] = Up]
      /\ UNCHANGED <<patches, roleEdits, stops>>

(* An IntegrityError in lifespan: the process exits and is started again.  *)
SeedFail(w) ==
  /\ workers[w].phase = "seeding"
  /\ SeedConflicts(w)
  /\ workers' = [workers EXCEPT ![w] = Down]
  /\ UNCHANGED <<catalog, roles, patches, roleEdits, stops>>

(* A crash or a deployment; it may come in the middle of a start.          *)
Stop(w) ==
  /\ workers[w] # Down
  /\ stops < MaxStops
  /\ stops' = stops + 1
  /\ workers' = [workers EXCEPT ![w] = Down]
  /\ UNCHANGED <<catalog, roles, patches, roleEdits>>
-----------------------------------------------------------------------------
Served == (\E w \in Worker : workers[w] = Up)
          /\ roleEdits < MaxRoleEdits /\ roleEdits' = roleEdits + 1

(* _load_permissions                                                       *)
LoadPermissions(codes) == Resolve(codes \cap catalog) \cap catalog

CreateRole(n, codes) ==
  /\ Served
  /\ Unused # {}
  /\ Named(roles, n) = {}
  /\ roles' = [roles EXCEPT ![CHOOSE r \in Unused : TRUE] =
                 [name |-> n, codes |-> LoadPermissions(codes), deleted |-> FALSE]]
  /\ UNCHANGED <<catalog, workers, patches, stops>>

(* update_role reads the role, and the permissions to give it.             *)
LoadRole(a, r, n, codes) ==
  /\ Served
  /\ patches[a] = NoPatch
  /\ RoleExists(r) /\ ~roles[r].deleted
  /\ patches' = [patches EXCEPT ![a] =
       [phase |-> "loaded", role |-> r, row |-> roles[r], name |-> n,
        codes |-> LoadPermissions(codes)]]
  /\ UNCHANGED <<catalog, roles, workers, stops>>

CommitRole(a) ==
  LET p == patches[a]
      gone == p.row.codes \ p.codes
      added == p.codes \ p.row.codes
  IN  /\ p.phase = "loaded"
      /\ p.name # p.row.name => Named(roles, p.name) \subseteq {p.role}
      /\ added \cap roles[p.role].codes = {}
      /\ roles' = [roles EXCEPT
           ![p.role].name = IF p.name = p.row.name THEN @ ELSE p.name,
           ![p.role].codes = (@ \ gone) \cup added]
      /\ patches' = [patches EXCEPT ![a] = NoPatch]
      /\ UNCHANGED <<catalog, workers, roleEdits, stops>>

(* A 4xx answer or a lost connection.                                      *)
RollbackRole(a) ==
  /\ patches[a] # NoPatch
  /\ patches' = [patches EXCEPT ![a] = NoPatch]
  /\ UNCHANGED <<catalog, roles, workers, roleEdits, stops>>

(* soft_delete_role: the row and its name stay.                            *)
DeleteRole(r) ==
  /\ Served
  /\ RoleExists(r) /\ ~roles[r].deleted
  /\ roles' = [roles EXCEPT ![r].deleted = TRUE]
  /\ UNCHANGED <<catalog, workers, patches, stops>>
-----------------------------------------------------------------------------
RolesNext ==
  \/ \E w \in Worker : SeedRead(w) \/ SeedCommit(w) \/ SeedFail(w) \/ Stop(w)
  \/ \E n \in Name, codes \in SUBSET Code : CreateRole(n, codes)
  \/ \E a \in Admin :
       \/ \E r \in Role, n \in Name, codes \in SUBSET Code : LoadRole(a, r, n, codes)
       \/ CommitRole(a) \/ RollbackRole(a)
  \/ \E r \in Role : DeleteRole(r)

RolesSpec == RolesInit /\ [][RolesNext]_roleVars

(* A process that is down is started again and its start goes on.          *)
RolesFairness ==
  \A w \in Worker : WF_roleVars(SeedRead(w)) /\ WF_roleVars(SeedCommit(w) \/ SeedFail(w))
-----------------------------------------------------------------------------
(* Properties                                                              *)

Seeds(w) == workers[w].phase = "seeding" /\ workers'[w] = Up
Edits(a) == patches[a] # NoPatch /\ patches'[a] = NoPatch /\ roles' # roles

(* A start or an edit that nothing overlapped leaves every role it wrote   *)
(* closed under the dependencies, however long their chains, also a role   *)
(* from before a dependency there is now.                                  *)
QuietCommitsClose ==
  [][/\ \A w \in Worker : Seeds(w) /\ workers[w].roles = roles =>
          \A r \in Role : roles'[r] # NoRole => Closed(roles'[r].codes)
     /\ \A a \in Admin : Edits(a) /\ roles[patches[a].role] = patches[a].row =>
          Closed(roles'[patches[a].role].codes)]_roleVars

(* A code an admin took from a role does not come back with a restart,     *)
(* unless it is new to the catalog or the other codes of the role need it. *)
RemovalsKept ==
  [][\A w \in Worker : Seeds(w) =>
       \A r \in Role : RoleExists(r) =>
         \A c \in (roles'[r].codes \ roles[r].codes) \cap catalog :
           c \in Resolve((workers[w].roles[r].codes \cup roles'[r].codes) \ {c})]_roleVars

(* A worker that starts serves in the end: one that loses the race for the *)
(* seed fails, is started again and finds it done, whatever is edited and  *)
(* stopped meanwhile.                                                      *)
StartsServe ==
  \A w \in Worker : workers[w].phase = "seeding" ~> workers[w] = Up
=============================================================================

------------------------------ MODULE MCOffice ------------------------------
(* Instances for TLC of the components that share no state: one of them    *)
(* moves in a behaviour, the others stay as they begin.                    *)
EXTENDS Imports, Roles, Documents, Notifications, Activities, Scoring,
        Dashboard, TLC

CONSTANTS
  Parts,                                     (* the components that may move *)
  e1, e2, e3,                                (* addresses                    *)
  viewAll, deleteAny, manage,                (* permission codes             *)
  rep,                                       (* a starter role               *)
  lead1, lead2,                              (* leads with follow-ups        *)
  ann, bob,                                  (* users                        *)
  x1, x2,                                    (* a deal and a lead            *)
  d1, d2,                                    (* deals                        *)
  t1,                                        (* a tier                       *)
  sOpen, sWon, sLost                         (* deal stages                  *)

VARIABLE part     (* the component that moves *)

officeVars == <<part, importVars, roleVars, docVars, noticeVars, activityVars,
                scoreVars, dashboardVars>>

(* A step of one component. *)
In(p, A) ==
  /\ part = p /\ A
  /\ UNCHANGED part
  /\ p = "imports" \/ UNCHANGED importVars
  /\ p = "roles" \/ UNCHANGED roleVars
  /\ p = "documents" \/ UNCHANGED docVars
  /\ p = "notifications" \/ UNCHANGED noticeVars
  /\ p = "activities" \/ UNCHANGED activityVars
  /\ p = "scoring" \/ UNCHANGED scoreVars
  /\ p = "dashboard" \/ UNCHANGED dashboardVars

OfficeTypeOK ==
  /\ ImportsTypeOK /\ RolesTypeOK /\ DocumentsTypeOK /\ NotificationsTypeOK
  /\ ActivitiesTypeOK /\ ScoringTypeOK /\ DashboardTypeOK

OfficeInit ==
  /\ part \in Parts
  /\ ImportsInit /\ RolesInit /\ DocumentsInit /\ NotificationsInit
  /\ ActivitiesInit /\ ScoringInit /\ DashboardInit
  /\ part # "roles" => catalog = {} /\ \A r \in Role : roles[r] = NoRole

OfficeNext ==
  \/ In("imports", ImportsNext)
  \/ In("roles", RolesNext)
  \/ In("documents", DocumentsNext)
  \/ In("notifications", NotificationsNext)
  \/ In("activities", ActivitiesNext)
  \/ In("scoring", ScoringNext)
  \/ In("dashboard", DashboardNext)

(* The fairness of each component, of the steps it takes when it moves. *)
OfficeFairness ==
  /\ \A i \in Import :
       /\ WF_officeVars(In("imports", Step(i)))
       /\ WF_officeVars(In("imports", UploadAgain(i)))
  /\ \A w \in Worker :
       /\ WF_officeVars(In("roles", SeedRead(w)))
       /\ WF_officeVars(In("roles", SeedCommit(w) \/ SeedFail(w)))
  /\ \A s \in DocSession :
       /\ WF_officeVars(In("documents", RequestEnds(s)))
       /\ \A d \in Document : WF_officeVars(In("documents", RetryDeletion(s, d)))

OfficeSpec == OfficeInit /\ [][OfficeNext]_officeVars /\ OfficeFairness

Every == {"imports", "roles", "documents", "notifications", "activities",
          "scoring", "dashboard"}

(* Values of the constants *)
Good(e) == [email |-> e, valid |-> TRUE]
Bad(e) == [email |-> e, valid |-> FALSE]
OneFile == { <<Good(e1), Bad(e1), Good(e2)>> }
MetFile == { <<Good(e1), Good(e2), Good(e3)>> }

ThreeCodes == {viewAll, deleteAny, manage}
TwoNeeds == (manage :> deleteAny) @@ (deleteAny :> viewAll)
RepCodes == rep :> {deleteAny}

TwoLeads == (lead1 :> ann) @@ (lead2 :> ann)

Kinds2 == (x1 :> "deal") @@ (x2 :> "lead")
Owners2 == (x1 :> ann) @@ (x2 :> Nobody)

Climbing == {f \in [1..8 -> 1..3] : \A i \in 1..7 : f[i] <= f[i + 1]}

Rows == {[stage |-> s, owner |-> o, cold |-> o = bob] : s \in {sOpen, sWon}, o \in {ann, bob}}
          \cup [stage : {sLost}, owner : {ann}, cold : BOOLEAN]
StagesAtFirst == (sOpen :> [name |-> "open", cold |-> FALSE])
                 @@ (sWon :> [name |-> "won", cold |-> FALSE])
                 @@ (sLost :> [name |-> "lost", cold |-> FALSE])
EditedStages == {[name |-> "open", cold |-> TRUE], [name |-> "lost", cold |-> FALSE]}
OneTier == (d1 :> t1) @@ (d2 :> Null)
=============================================================================

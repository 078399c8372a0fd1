--------------------------- MODULE MCOfficeProofs ---------------------------
(***************************************************************************)
(* Theorems about MCOffice, for every value of its constants: its steps    *)
(* are steps of one component and leave the others alone, so what          *)
(* RecoveryProofs and OfficeProofs show of each holds of all together.     *)
(***************************************************************************)
EXTENDS MCOffice, RecoveryProofs, OfficeProofs

(* A behaviour of the office is one of each of its components.             *)
THEOREM OfficeImplementsParts ==
  OfficeSpec => /\ ImportsSpec /\ RolesSpec /\ DocumentsSpec
                /\ NotificationsSpec /\ ActivitiesSpec /\ ScoringSpec /\ DashboardSpec
  <1>1. OfficeInit => /\ ImportsInit /\ RolesInit /\ DocumentsInit /\ NotificationsInit
                      /\ ActivitiesInit /\ ScoringInit /\ DashboardInit
    BY DEF OfficeInit
  <1>2. [OfficeNext]_officeVars =>
          /\ [ImportsNext]_importVars /\ [RolesNext]_roleVars /\ [DocumentsNext]_docVars
          /\ [NotificationsNext]_noticeVars /\ [ActivitiesNext]_activityVars
          /\ [ScoringNext]_scoreVars /\ [DashboardNext]_dashboardVars
    BY DEF OfficeNext, In, officeVars
  <1> QED
    BY <1>1, <1>2, PTL
       DEF OfficeSpec, ImportsSpec, RolesSpec, DocumentsSpec, NotificationsSpec,
           ActivitiesSpec, ScoringSpec, DashboardSpec

(* Every table and every pending request of every component keeps its type.*)
THEOREM OfficeTypeCorrect == OfficeSpec => []OfficeTypeOK
  <1> DEFINE Inv == /\ ImportsInv /\ RolesInv /\ DocumentsInv /\ NoticesInv
                    /\ ActivitiesInv /\ ScoringTypeOK /\ DashboardInv
  <1>1. Inv => OfficeTypeOK
    BY DEF ImportsInv, RolesInv, DocumentsInv, NoticesInv, ActivitiesInv, DashboardInv,
           OfficeTypeOK
  <1>2. ImportsSpec => []ImportsInv
    BY ImportsStart, ImportsStep, FileAssumption, PTL DEF ImportsSpec
  <1>3. RolesSpec => []RolesInv
    BY RolesStart, RolesStep, PTL DEF RolesSpec
  <1>4. DocumentsSpec => []DocumentsInv
    BY DocumentsStart, DocumentsStep, PTL DEF DocumentsSpec
  <1>5. NotificationsSpec => []NoticesInv
    BY NoticesInit, NoticesStep, PTL DEF NotificationsSpec
  <1>6. ActivitiesSpec => []ActivitiesInv
    BY ActivitiesStart, ActivitiesStep, PTL DEF ActivitiesSpec
  <1>7. ScoringSpec => []ScoringTypeOK
    BY ScoringStart, ScoringStep, PTL DEF ScoringSpec
  <1>8. DashboardSpec => []DashboardInv
    BY DashboardStart, DashboardStep, PTL DEF DashboardSpec
  <1> QED
    BY <1>1, <1>2, <1>3, <1>4, <1>5, <1>6, <1>7, <1>8, OfficeImplementsParts, PTL
=============================================================================

SPECIFICATION OfficeSpec
CONSTANTS
  Parts = {"imports"}
  e1 = e1 e2 = e2 e3 = e3
  viewAll = viewAll deleteAny = deleteAny manage = manage
  rep = rep lead1 = lead1 lead2 = lead2 ann = ann bob = bob
  sOpen = sOpen sWon = sWon sLost = sLost
  x1 = x1 x2 = x2 d1 = d1 d2 = d2 t1 = t1
  Import = {i1}
  Email = {e1, e2, e3}
  Files <- MetFile
  Additional = {e1}
  MaxCrashes = 0
  None = None
  Worker = {w1, w2}
  Admin = {a1}
  Code <- ThreeCodes
  Requires <- TwoNeeds
  StarterName = {rep}
  StarterCodes <- RepCodes
  CustomName = custom
  MaxRoles = 2
  MaxRoleEdits = 1
  MaxStops = 1
  NoRole = NoRole
  Holder = {deal, account}
  DocSession = {s1, s2}
  MaxDocuments = 3
  MaxLost = 2
  NoDocument = NoDocument
  Recipient = {ann, bob}
  Device = {phone}
  FollowUp = {lead1, lead2}
  LeadOwner <- TwoLeads
  MaxNotices = 2
  NotYet = NotYet
  Entity = {x1, x2}
  KindOf <- Kinds2
  EntityOwner <- Owners2
  Author = {ann, bob}
  Overseers = {bob}
  Removers = {bob}
  MaxActivities = 3
  MaxInstant = 4
  Nobody = Nobody
  Dimension = {1, 2, 3, 4, 5, 6, 7, 8}
  Sheets <- Climbing
  MaxReleases = 1
  Unscored = Unscored
  Deal = {d1, d2}
  Lead = {lead1}
  User = {ann, bob}
  DealsViewAll = {bob}
  LeadsViewAll = {bob}
  Stage = {sOpen, sWon, sLost}
  FirstStages <- StagesAtFirst
  StageRows <- EditedStages
  Tier = {t1}
  TierOf <- OneTier
  DealRows <- Rows
  MaxTime = 4
  DayLength = 2
  Null = Null
CHECK_DEADLOCK FALSE
INVARIANTS
  NoBatchFails

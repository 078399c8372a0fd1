SPECIFICATION FairSpec
CONSTANTS
  User = {ann}
  Session = {s1, s2}
  AdminSession = {admin}
  Refresh = {r1}
  Reset = {p1}
  ann = ann
  Zone = 3
  Second = 2
  AccessTtl = 2
  ResetTtl = 2
  MaxTime = 4
  MaxEdits = 3
  Ops <- AllOps
  None = None
  Absent = Absent
CHECK_DEADLOCK FALSE
INVARIANTS
  TypeOK
  DeletedIsInactive
  StatusListsAgree
  EarlierSessionsEnded
PROPERTY
  NobodyLockedOut

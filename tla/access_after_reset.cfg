SPECIFICATION Spec
CONSTANTS
  User = {ann}
  Session = {s1, s2}
  AdminSession = {admin}
  Refresh = {r1, r2}
  Reset = {p1}
  ann = ann
  Zone = 3
  Second = 2
  AccessTtl = 2
  ResetTtl = 2
  MaxTime = 5
  MaxEdits = 3
  Ops <- ResetOnly
  None = None
  Absent = Absent
CHECK_DEADLOCK FALSE
INVARIANT
  AcceptedAfterChange

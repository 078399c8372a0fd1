SPECIFICATION Spec
CONSTANTS
  Session = {s1, s2}
  Lead = {l1}
  Account = {a1, a2}
  Contact = {p1, p2}
  Email = {ma, mb, mc}
  User = {ann, bob}
  Notifiable = {bob}
  l1 = l1
  l2 = l2
  ann = ann
  bob = bob
  ma = ma
  mb = mb
  mc = mc
  None = None
  Unset = Unset
  Absent = Absent
  Deleted = Deleted
  NewLeads <- OneLead
  Requests <- ConvertRequests
  MaxFlushes = 1
CHECK_DEADLOCK FALSE
SYMMETRY Ids
INVARIANT
  ConvertedOnce

SPECIFICATION Spec
CONSTANTS
  Session = {s1, s2}
  Deal = {d1}
  Stage = {lead, won, cold}
  User = {ann, bob}
  Contact = {c1, c2}
  Notifiable = {bob}
  d1 = d1
  lead = lead
  won = won
  cold = cold
  ann = ann
  bob = bob
  c1 = c1
  c2 = c2
  None = None
  Unset = Unset
  SeededStages <- AllStages
  Requests <- MoveRequests
  MaxTx = 5
CHECK_DEADLOCK FALSE
PROPERTY
  CloseDatedByItsMove

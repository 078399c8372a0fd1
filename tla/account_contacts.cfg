SPECIFICATION Spec
CONSTANTS
  Session = {s1, s2}
  User = {ann, bob}
  AccountsViewAll = {bob}
  ContactsViewAll = {}
  Email = {ma, mb}
  ann = ann
  bob = bob
  d1 = d1
  ma = ma
  mb = mb
  None = None
  Unset = Unset
  Absent = Absent
  Deleted = Deleted
  DealOwner <- BobsDeal
  MaxAccounts = 2
  MaxContacts = 2
  MaxLinks = 4
  NewAccounts <- CreateBodies
  Requests <- Edits
SYMMETRY Alike
CHECK_DEADLOCK FALSE
INVARIANTS
  TypeOK
  NothingDangles
  UniqueContacts
  OnePrimary
  ScreensAgree
PROPERTIES
  PrimaryKept
  RepresentativeStable
  PrimaryPlaceKept

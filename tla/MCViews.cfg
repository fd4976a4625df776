\* A user, and the listings of others: two resources swap, lose and regain a name or are deleted while a link is read and followed.
SPECIFICATION Spec
CONSTANTS
  Users = {u1}
  Ids = {r1, r2}
  Attrs = {web}
  Blank = Blank
  Gone = Gone
  Type = Type
  ByName = ByName
  NoId = NoId
  TTL = 1
  FetchMax = 1
  MaxTime = 3
  MaxChanges = 2
  MaxNodes = 2
SYMMETRY Symmetry
INVARIANTS
  ViewsTypeOK
  StableNamesResolve
  WalksAreTruthful

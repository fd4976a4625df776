\* A user of one zone, beside the requests of others, over several expiries of listings and names.
SPECIFICATION Spec
CONSTANTS
  Users = {u1}
  Zones = {z1}
  TTL = 2
  FetchMax = 1
  MaxTime = 7
  MaxVersion = 3
INVARIANTS
  TypeOK
  WalksAreRecent
PROPERTIES
  RecordsNeverRegress
  RecordRefreshesSpaced

\* Three holders of a descriptor write and close beside each other until the process ends; the API calls of p1 never do.
SPECIFICATION FairSpec
CONSTANTS
  Procs = {p1, p2, p3}
  NoProc = NoProc
  Hung = {p1}
  MaxChanges = 2
INVARIANTS
  TypeOK
  SavedUnlessOverlapped
  LifecycleTypeOK
  NoSilentLoss
PROPERTIES
  ClosesDontBlock
  ExitsOnSignal
CHECK_DEADLOCK FALSE

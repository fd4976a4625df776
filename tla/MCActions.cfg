\* Two processes in the directory of an action that runs, ends and is dropped.
SPECIFICATION ActionsSpec
CONSTANTS
  Callers = {p1, p2}
  NoCaller = NoCaller
  Always = {"status"}
  AtEnd = {"finished"}
  TTL = 1
  FetchMax = 1
  MaxTime = 3
  MaxVersion = 3
SYMMETRY Symmetry
INVARIANTS
  ActionsTypeOK
PROPERTIES
  ActionsRefreshEveryTTL
  KnownNamesStay

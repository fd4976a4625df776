\* Two processes and one file; the clock runs past expired listings and names.
SPECIFICATION TreeSpec
CONSTANTS
  Callers = {p1, p2}
  NoCaller = NoCaller
  Files = {"name"}
  TTL = 1
  FetchMax = 1
  MaxTime = 4
  MaxVersion = 2
SYMMETRY Symmetry
INVARIANTS
  TreeTypeOK
  OpensAreRecent
PROPERTIES
  OpensNeverRegress

\* One process writes while the other's Flush waits for the API.
SPECIFICATION Spec
CONSTANTS
  Procs = {p1, p2}
  NoProc = NoProc
  Hung = {}
  MaxChanges = 3
INVARIANTS
  WritesSavedOnClose

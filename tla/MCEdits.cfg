\* An editor or a shell on one file that changes twice, by its closes or by others: before, between and after the listing, the open and the close.
SPECIFICATION Spec
CONSTANTS
  Edited <- MCEdited
  Users = {u1}
  Labels = {env}
  Names = {a, b}
  TTL = 1
  FetchMax = 1
  MaxTime = 4
  MaxChanges = 2
SYMMETRY Symmetry
INVARIANTS
  EditsTypeOK
  ClosedMeansDone
PROPERTIES
  SavesKeepWhatIsSettled

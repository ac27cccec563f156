\* Two steps that raise, one write, one restore.
CONSTANTS
  None = None
  Mixed = Mixed
  MaxFaults = 2
  MaxWrites = 1
  MaxRestores = 1
SPECIFICATION Spec
INVARIANTS
  NoForeignJournal
  PreviousContentIsKept
  PreviousTreeIsKept
PROPERTIES
  FailedRestoreChangesNothing
  RestoredMeansBackup
  OneVersionAtTheEnd
CHECK_DEADLOCK FALSE

SPECIFICATION Spec
CONSTANTS
  Backups <- MCBackups
  Contents <- MCContents
  Updates <- MCUpdates
  MaxCalls = 1
INVARIANT EntriesStayWhole
CHECK_DEADLOCK FALSE

SPECIFICATION Spec
CONSTANTS
  Backups <- MCBackups
  Contents <- MCContents
  Updates <- MCUpdates
  MaxCalls = 2
PROPERTY NoLineIsLost
INVARIANT UpdateIsStored
CHECK_DEADLOCK FALSE

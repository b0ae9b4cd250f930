CONSTANTS
  NoName = "-"
  Absent = Absent
  Garbled = Garbled
  Open <- MCOpen
  Quoted <- MCQuoted
  Name <- MCName
  Fold <- MCFold
  Token <- MCToken
  AppSection = {"a", "b"}
  AppKey = {"b", "B"}
  AppValue <- MCAppValue
  BufferLength = {0, 2, 3, 4}
  Modes <- MCModes
SPECIFICATION Spec
INVARIANT TreeIsKept
INVARIANT OriginalOrBackup
PROPERTY KeepsPromise

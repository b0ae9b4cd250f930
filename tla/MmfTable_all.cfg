CONSTANTS
  Thread = {t1, t2, t3}
  Object = {o1, o2, o3}
  MMF_MAXINSTANCES = 2
  NoThread = NoThread
  NoObject = NoObject
  Modes <- AllModes
  File = {f, g}
  NoFile = NoFile
  Handle = {3, 4, 5}
  Invalid = Invalid
  None = None
  Memory = {m1, m2}
  Null = Null
  ulMaxFiles = 2
  BufferModes <- MCBufferModes
SPECIFICATION EntriesSpec
SYMMETRY Symmetry
INVARIANT NoUseAfterFree
INVARIANT HandleStaysValid
INVARIANT OneManagerPerThread
INVARIANT EntriesFit
INVARIANT StampIsThatOfUpdate

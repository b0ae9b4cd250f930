CONSTANTS
  Place = {"outside", "left", "right"}
  Over = {"left", "right"}
  Origin = "outside"
  Text <- MCText
  EmptyText = ""
  ErrorText = "error"
  Extent <- MCExtent
  Length <- MCLength
  NoText = NoText
  MaxTextLen = 2
  Modes <- MCModes
SPECIFICATION Spec
INVARIANT HelpIsRight
PROPERTY LeavesWithPointer
PROPERTY AppearsAtRest

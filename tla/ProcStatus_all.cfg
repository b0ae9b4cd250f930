CONSTANTS
  Pid <- MCPid
  Kernel = {1}
  Exe = {"a", "b"}
  NoModule = "none"
  Data = {"x"}
  NoData = "zeroes"
  Wait = {0, 2, 3}
  Modes <- MCModes
SPECIFICATION Spec
INVARIANT ListIsRight
INVARIANT KillsTheTree
INVARIANT WaitTellsTheTruth
PROPERTY CallsReturn

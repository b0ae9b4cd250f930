CONSTANTS
  Letter = {"A", "B", "b", "x", "y"}
  Upper <- MCUpper
  Texts <- MCTexts
  Id <- MCId
  Parms <- MCParms
  cbBuffers = {1, 3, 9}
  Modes <- MCModes
SPECIFICATION Spec
INVARIANT MessageIsRight
PROPERTY CallsReturn
CHECK_DEADLOCK FALSE

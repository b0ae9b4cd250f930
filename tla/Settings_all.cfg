CONSTANTS
  Object = {o1, o2}
  Size <- MCSize
  Number = {"0", "7"}
  Known <- MCKnown
  Modes <- MCModes
SPECIFICATION Spec
INVARIANT ValuesAreRight
PROPERTY SettingsComeBack
PROPERTY ChangesAreTaken
CHECK_DEADLOCK FALSE

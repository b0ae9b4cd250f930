CONSTANTS
  PageSize = 2
  NumPages = 2
  MaxSize = 3
  FileMax = 5
  Word = 64
  Zero = 0
  Undef = 0
  Value <- MCValue
  AppValue <- MCAppValue
  Image <- FrontImage
  Modes <- AllModes
SPECIFICATION Spec
INVARIANT CleanPagesAreStored
PROPERTY KeepsPromise
PROPERTY FrontUntouched

CONSTANTS
  Keyboards <- PlainKeyboards
  MaxLine = 3
  DefaultMaxLen = 2
  Lengths = {1}
  Files <- MCFiles
  RestoreMayFail = FALSE
SPECIFICATION Spec
PROPERTY LatestRetained

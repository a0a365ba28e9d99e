\* Three sessions over one file.
SPECIFICATION ReplSpec
CONSTANTS
  Keyboards <- MCKeyboards
  MaxLine = 4
  DefaultMaxLen = 5
  Lengths = {2}
  Files <- MCFiles
  RestoreMayFail = TRUE
  HistoryLength = 2
  MaxStarts = 3
PROPERTIES
  SessionResumes
  QuitEnds

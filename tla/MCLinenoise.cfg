CONSTANTS
  Keyboards <- MCKeyboards
  MaxLine = 5
  DefaultMaxLen = 3
  Lengths = {2}
  Files <- MCFiles
  RestoreMayFail = FALSE
SPECIFICATION Spec
INVARIANTS TypeOK HistoryBounded WholeCharacters TerminalRestored
PROPERTIES ImplementsLineEditor

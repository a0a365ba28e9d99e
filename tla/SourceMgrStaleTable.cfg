\* A namespace is read again after its file was changed for the worse.
SPECIFICATION Spec
CONSTANTS
  Names <- MCNames
  Dirs = {"d1", "d2"}
  PathLists <- MCPathLists
  Texts <- MCTexts
  Readable <- MCReadable
  Widths <- MCWidths
  IdMod = 16
  MaxBuffers = 2
  NoFile = NoFile
CHECK_DEADLOCK FALSE
INVARIANT
  TableFindsSource

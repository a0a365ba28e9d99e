\* Three loads among two names, with edits, lookups and path changes anywhere.
SPECIFICATION FairSpec
CONSTANTS
  Names <- MCNames
  Dirs = {"d1", "d2"}
  PathLists <- MCPathLists
  Texts <- MCTexts
  Readable <- MCReadable
  Widths <- MCWidths
  IdMod = 16
  MaxBuffers = 3
  NoFile = NoFile
CHECK_DEADLOCK FALSE
INVARIANTS
  TypeOK
  CachesOwnedOnce
  LookupExact
  TableLeadsToNewest
  FirstInLoadPath
PROPERTIES
  TextsStay
  CallsReturn

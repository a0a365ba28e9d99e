\* Every terminated buffer up to the bounds; counters of LocMod values, so
\* that lines and columns wrap within them.
SPECIFICATION FairSpec
CONSTANTS
  MaxAny = 3
  MaxFew = 6
  MaxNum = 5
  Buffers <- MCBuffers
  Foreign = {"nul"}
  LocMod = 4
  Widths <- MCWidths
INVARIANTS
  TypeOK
  LocationExact
  StaysInBuffer
  DispatchAgrees
  StackMirrorsNesting
  NothingLost
  LocationFindsCharacter
PROPERTIES
  Termination
  ImplementsSExpr

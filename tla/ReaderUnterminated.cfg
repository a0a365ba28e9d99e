\* A digit lies behind the buffer.
SPECIFICATION Spec
CONSTANTS
  MaxAny = 2
  MaxFew = 2
  MaxNum = 2
  Buffers <- MCBuffers
  Foreign = {"digit"}
  LocMod = 16
  Widths <- MCWidths
INVARIANT
  NodesWithinBuffer

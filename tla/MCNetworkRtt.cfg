CONSTANTS
  Parts <- BothParts
  Inputs = 3
  MaxTimeouts = 2
  MaxPages = 4
SPECIFICATION MCSpec
INVARIANTS PartitionInForce StartsClean RowsFresh SeriesComplete
PROPERTY ReturnsWhenSeen

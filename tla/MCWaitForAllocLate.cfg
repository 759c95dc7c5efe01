CONSTANTS
  Parts <- OnlyWait
  Inputs = 3
  MaxTimeouts = 2
  MaxPages = 4
SPECIFICATION MCSpec
PROPERTY Returns

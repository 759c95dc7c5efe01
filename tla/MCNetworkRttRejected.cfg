CONSTANTS
  Parts <- OnlyScript
  Inputs = 3
  MaxTimeouts = 2
  MaxPages = 4
SPECIFICATION MCSpec
INVARIANT RejectedNotRecorded

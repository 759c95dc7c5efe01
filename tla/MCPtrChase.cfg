CONSTANTS
  MaxLen = 6
  Lens <- AllLens
SPECIFICATION ChaseSpec
INVARIANT RequestTouchesAll

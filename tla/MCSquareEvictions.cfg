CONSTANTS
  Programs <- BothPrograms
  Options <- SomeOptions
  Seeds <- TwoSeeds
  MINIMUM_GENERATOR_PERIOD = 8
  LogSize = 6
  MaxLogSize = 24
  MaxUsr1 = 3
  NULL = NULL
  Calls <- Supported
  RngSeeds <- SomeSeeds
  Drawn = Drawn
  NoRng = NoRng
SPECIFICATION MCSpec
INVARIANTS PassTouchesAll LogInBounds FullCycle
PROPERTIES TraversalEnds TermEnds

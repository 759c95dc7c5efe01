CONSTANTS
  Programs <- OnlyRng
  Options <- OddFactors
  Seeds <- OneSeed
  MINIMUM_GENERATOR_PERIOD = 8
  LogSize = 6
  MaxLogSize = 24
  MaxUsr1 = 3
  NULL = NULL
  Calls <- WrappingPrime
  RngSeeds <- PrimeSeed
  Drawn = Drawn
  NoRng = NoRng
SPECIFICATION MCSpec
INVARIANT FullCycle

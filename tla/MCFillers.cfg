SPECIFICATION Spec
CONSTANTS
  Builds = {b1, b2}
  Jobs <- MCJobs
  Margin = 20
  Min = 5
  Max = 100
  Fallback = 50
  Default = 40
  BlockTtl = 2
  PriceTtl = 2
  Energies <- MCEnergies
  Prices <- MCPrices
  I64Max = 127
  I128Max = 32767
  MaxClock = 2
  MayDrop = TRUE
INVARIANTS Coalesced NeverGuessed
PROPERTIES EstimateAskedUntilRefused EveryBuildEnds

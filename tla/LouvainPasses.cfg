\* Four passes, one or two threads.
SPECIFICATION Spec
CONSTANTS
  S = 4
  Inputs <- MCInputs
  H = 2
  P = 4
  L = 2
  Tolerance = 8
INVARIANTS
  ScansAreSums
  ListingIsExact
  RegionsFit
  QuotientOfInput
  NothingStale
PROPERTIES
  OnlyCoarsens
CHECK_DEADLOCK FALSE

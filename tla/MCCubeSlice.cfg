SPECIFICATION FairSpec
CONSTANTS
  Token <- MCToken
  Cut <- MCCut
  Numeric = {}
  Stod <- MCStod
  Dims <- MCDims
  Cubes <- MCCubes
  Arguments <- MCArguments
  None = None
INVARIANTS
  LoopInvariant
  ReturnsSlice
  IteratorValid
  AssertsOnUnknown
PROPERTIES
  GetSliceEnds
CHECK_DEADLOCK FALSE

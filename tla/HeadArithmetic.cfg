SPECIFICATION Spec
CONSTANTS
  ActLimit = 16
  One = 4
  Ln2 = 11
  NumLanes = 2
  NumPairs = 1
  NumSlots = 6
  Inputs <- MCInputs
CHECK_DEADLOCK FALSE
INVARIANTS
  ScaleIsNearest
  SharesAreClose
  ContextIsWeightedMean

SPECIFICATION Spec
CONSTANTS
  Shapes <- MCOneDonorShapes
  Tokens = {1}
  Batches = {0}
  HandWritten = {}
  DirectTokens = {1}
  DirectBatches = {0}
  Requested = {2}
  Available = {1}
INVARIANTS
  SharedLayersHaveDonors
CHECK_DEADLOCK FALSE

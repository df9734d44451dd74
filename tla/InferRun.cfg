SPECIFICATION Spec
CONSTANTS
  Shapes <- MCShapes
  Tokens = {0, 1, 2}
  Batches = {0, 2}
  HandWritten <- MCHandWritten
  DirectTokens = {0, 1, 2, 3}
  DirectBatches = {0, 2}
  Requested = {0, 2}
  Available = {1, 3}
INVARIANTS
  ChainIsRunnable
  DirectReadsTheSame
  TraceIsAccepted
  NothingIsMissing
  InferReadsTheChain
  InferEndsCleanly
  GateIsExact
CHECK_DEADLOCK FALSE

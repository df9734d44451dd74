SPECIFICATION Spec
CONSTANTS
  Rows = 3
  Cols = 2
  WholePage = 4
  TornPage = 3
  MinParRows = 2
  MinRowsPerChunk = 1
  Window = 2
  ChunkSize = 2
  Shapes <- MCSharing
  Wirings = {"unbound"}
  TornMatrices <- MCTorn
  Threads = {1, 2}
  PromptLengths = {0, 1, 3}
  Passes = 3
INVARIANTS
  IncompleteWindowsFail
CHECK_DEADLOCK FALSE

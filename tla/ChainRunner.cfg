SPECIFICATION FairSpec
CONSTANTS
  NumStages = 6
  Chains <- MCChains
  Entries = {"run", "verify"}
  Backends = {"in_process", "subprocess"}
  References <- MCReferences
  Requested = 2
  Available = 8
  Hashes <- MCHashes
  StageHash <- MCStageHash
  ClaimedLists <- MCClaimedLists
INVARIANTS
  ReadsCommittedOutputs
  OnlyStagesFail
  JobsStayInTheirPool
  FinalOutputIsLast
  TimesFileIsComplete
  TraceIsCommittedPrefix
  VerdictIsFirstDivergence
PROPERTIES
  StopsAtDivergence
  VerifiesInOrder
  DivergenceIsReported
  NoStageRunsTwice
  RunEnds
CHECK_DEADLOCK FALSE

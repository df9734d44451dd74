SPECIFICATION FairBuildSpec
CONSTANTS
  NumStages = 4
  Chains <- MCChains
  Entries = {"verify"}
  Backends = {"in_process"}
  References = {0}
  Requested = 2
  Available = 4
  Hashes <- MCHashes
  StageHash <- MCStageHash
  ClaimedLists <- MCClaimedLists
  ClaimedTraces <- MCClaimedTraces
  NameRank <- MCNameRank
INVARIANTS
  EveryDivergenceIsReplayed
CHECK_DEADLOCK FALSE

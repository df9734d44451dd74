SPECIFICATION FairBuildSpec
CONSTANTS
  NumStages = 4
  Chains <- MCChains
  Entries = {"run", "verify"}
  Backends = {"in_process"}
  References = {0}
  Requested = 2
  Available = 4
  Hashes <- MCHashes
  StageHash <- MCStageHash
  ClaimedLists <- MCClaimedLists
  ClaimedTraces <- MCClaimedTraces
  NameRank <- MCNameRank
INVARIANTS
  ChallengesAreJustified
  AcceptedClaimsAreHonest
  ReplayStartsFromPrefix
  ArtifactsAreConsistent
PROPERTIES
  BuildEnds
CHECK_DEADLOCK FALSE

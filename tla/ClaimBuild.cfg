SPECIFICATION Spec
CONSTANTS
  Contents <- MCContents
  Missing = Missing
  Torn = Torn
  NoStages = NoStages
  MaxEdits = 3
  MaxImports = 2
INVARIANTS
  ClaimsAreBound
  ChallengeRepeatsTheClaim
CHECK_DEADLOCK FALSE

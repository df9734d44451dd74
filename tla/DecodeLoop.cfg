SPECIFICATION FairSpec
CONSTANTS
  Vocab = 5
  Score = {0, 1}
  Decoder <- MCDecoder
  Lead = "lead"
  Trail = "trail"
  Letter = "e'"
  Garbage = "?"
  Layouts <- MCLayouts
  Prompts <- MCPrompts
  Budgets = {0, 1, 3}
INVARIANTS
  PositionsFollow
  OnlyTornRowsFail
PROPERTIES
  IsGreedyDecoding
  GenerationEnds
CHECK_DEADLOCK FALSE

SPECIFICATION FairSpec
CONSTANTS
  Token <- MCToken
  Vocab <- MCVocab
  Special <- MCSpecial
  Char <- MCChar
  Space = " "
  Bytes <- MCBytes
  Profiles <- MCProfiles
  Unknown = "unk"
  NoToken = "none"
  Rules <- MCRules
  BucketOf <- MCBucketOf
  MergesPerBatch = 2
  Prompts <- MCPrompts
INVARIANTS
  TokenizationSucceeds
  SpecialsSurvive
PROPERTIES
  MergesAreRanked
  TokenizationEnds
CHECK_DEADLOCK FALSE

CONSTANTS
  Tag = {a, b, c}
  Index <- MCIndex
  MaxTags = 3
SPECIFICATION FairSpec
INVARIANTS
  FlagHonest
  FoundExact
PROPERTIES
  SearchAdvances
  SearchTerminates

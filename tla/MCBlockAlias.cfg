SPECIFICATION Spec
CONSTANTS
  NSlots = 2
  NEUTRAL = 3
  DebugAssertions = TRUE
  DebugBuild = TRUE
  AliasBlockMut = TRUE
  Thread = {t1, t2, t3}
  NoThread = none
  MaxRc = 2
  MaxGuards = 3
  MaxTokens = 2
SYMMETRY Symmetry
INVARIANT Exclusion
CHECK_DEADLOCK FALSE

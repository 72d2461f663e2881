SPECIFICATION FairSpec
CONSTANTS
  x = x  y = y  t = t  d = d
  Archetype = {x, y}  BlockSize = 2  HeapLen = 4  MaxHeaps = 2  Layouts <- MCLayouts  Stuckable <- MCStuckable
  EventType = {t}  QueryKey <- MCQueryKey
  Dependency = {d}  MaxBehaviors = 3  NoOrder = NoOrder
  Prompts <- MCPrompts  Kinds <- MCKinds  Merged <- MCMerged  Handles <- MCHandles  Wants <- MCWants  Tagless <- MCTagless
  MaxEvents = 3  MaxFrames = 1
INVARIANTS VisitedExact HandledOnce BehaviorsOrdered
PROPERTY FrameEnds
CHECK_DEADLOCK FALSE

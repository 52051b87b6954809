SPECIFICATION Spec
CONSTANTS
  Word = 256
  Option <- MCOption
INVARIANTS TypeOK LimitCountsTree PathSpellsNumber PathWithinDepth LostOnlyIfWrapped
CHECK_DEADLOCK FALSE

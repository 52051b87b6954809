SPECIFICATION Spec
CONSTANTS
  Word = 64
  RollWord = 16
  MinSize = 2
  MaxBlock = 8
  MaxFile = 31
  None = None
  Default <- MCDefault
  Lock <- MCLock
  Hammer <- MCHammer
  Values <- MCValues
INVARIANTS TypeOK CreatesSoundFiles FileNearLimits OverridesUnlessDefault WeightsNeverRefused
CHECK_DEADLOCK FALSE

SPECIFICATION FairSpec
CONSTANTS
  i1 = i1
  i2 = i2
  Instance = {i1, i2}
  Name = {n1}
  Inode = {1, 2, 3}
  Stamp = {g1, g2, g3, g4, g5, g6}
  None = None
  MaxBlocks = 3
  ActOn = 2
  MaxTries = 2
  Ops <- MCOneCreates
  Faults = {"rot"}
INVARIANTS TypeOK NoFalseAlarm MetaDescribesData
PROPERTY ActionEnds

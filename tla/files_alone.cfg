SPECIFICATION Spec
CONSTANTS
  i1 = i1
  i2 = i2
  Instance = {i1}
  Name = {n1, n2}
  Inode = {1, 2, 3}
  Stamp = {g1, g2, g3, g4, g5, g6}
  None = None
  MaxBlocks = 2
  ActOn = 2
  MaxTries = 2
  Ops <- MCAll
  Faults = {"crash", "rot"}
INVARIANT NoFalseAlarm

SPECIFICATION Spec
CONSTANTS
  r1 = r1
  r2 = r2
  f1 = f1
  f2 = f2
  d1 = d1
  d2 = d2
  File = {r1, r2, f1, f2}
  Dir = {d1, d2}
  Root = Root
  None = None
  Fatal = Fatal
  Parent <- MCParent
  Scans = {"random", "read"}
  Faults = {"opendir"}
  Patience = 1
  MaxChanges = 2
INVARIANTS TypeOK CountsOfList PicksCover SeesWhatLasts OnlyBrokenScanLeavesList
CHECK_DEADLOCK FALSE

SPECIFICATION Spec
CONSTANTS
  Instance = {i1, i2}
  None = None
  MaxActions = 2
  MaxEntries = 2
  Retries = 1
  Faults = {"corrupt"}
INVARIANT LastActionRecorded
SYMMETRY Symmetry

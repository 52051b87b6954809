SPECIFICATION FairSpec
CONSTANTS
  Instance = {i1, i2}
  None = None
  MaxActions = 3
  MaxEntries = 2
  Retries = 1
  Faults = {"crash", "corrupt", "interrupt", "fullHistory"}
INVARIANTS TypeOK InOnePiece
PROPERTIES ImplementsLog UnwindEnds
CHECK_DEADLOCK FALSE

SPECIFICATION Spec
CONSTANTS
  Limit <- MCLimit
  Measurements <- MCMeasurements
  Shaky = {"data.files"}
  Supplied <- MCSupplied
  Scans = {"scRead", "scWrite", "scRandom"}
INVARIANTS TypeOK OnlyFullHistoryEnds WeightsAreCurrent TakenHasWeight NeverHardEmpty EmptyIsNeverFull
PROPERTIES FileEdgesFollow
CHECK_DEADLOCK FALSE

SPECIFICATION Spec
CONSTANTS
  Limit <- MCLimit
  Measurements <- MCMeasurements
  Shaky = {"data.files"}
  Supplied <- MCSupplied
  Scans = {"scRead", "scWrite", "scRandom"}
INVARIANT BlocksConstrain
CHECK_DEADLOCK FALSE

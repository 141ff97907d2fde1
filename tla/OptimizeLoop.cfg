SPECIFICATION Spec
CONSTANTS
  Metrics = {1, 2}
  Maximise = FALSE
  MaxIterations = 2
  MaxDuration = TRUE
  RegressionHalt = 1
  Target = None
  BatchSize = 2
  Interactive = TRUE
  NaN = NaN
  Inputs <- MCInputs
  Text = Text
  None = None
  Absent = Absent
  MaxCommits = 1
  MaxRows = 2
  MaxApprovals = 1
  MaxFaults = 1
INVARIANTS TypeOK BestIsBest ShipsTheBest
PROPERTIES IterationsAreCapped BatchesAreApproved LeavesForAReason
CHECK_DEADLOCK FALSE

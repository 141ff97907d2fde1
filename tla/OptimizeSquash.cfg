SPECIFICATION Spec
CONSTANTS
  Metrics = {1, 2}
  Maximise = FALSE
  MaxIterations = 1
  MaxDuration = TRUE
  RegressionHalt = 1
  Target = 1
  BatchSize = 2
  Interactive = TRUE
  NaN = NaN
  Inputs <- MCInputs
  Text = Text
  None = None
  Absent = Absent
  MaxCommits = 1
  MaxRows = 2
  MaxApprovals = 1
  MaxFaults = 1
INVARIANTS FailedSquashKeepsBest
CHECK_DEADLOCK FALSE

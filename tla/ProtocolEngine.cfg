SPECIFICATION Spec
CONSTANTS
  Steps <- LoopSteps
  Tasks = {t1}
  NoTask = NoTask
  Pending = Pending
  NoLog = NoLog
  KnownTasks = {t1}
  Events = {"session", "stop", "tool", "crash"}
  MaxRuns = 2
  MaxNotes = 1
  MaxIter = 1
INVARIANTS TypeOK RunRecordKept ModeFollowsStep EarlierStepsPassed

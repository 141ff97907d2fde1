SPECIFICATION Spec
CONSTANTS
  Steps <- LoopSteps
  Tasks = {t1}
  NoTask = NoTask
  Pending = Pending
  NoLog = NoLog
  KnownTasks = {t1}
  Events = {"session", "stop", "tool"}
  MaxRuns = 1
  MaxNotes = 0
  MaxIter = 1
PROPERTIES StopLasts

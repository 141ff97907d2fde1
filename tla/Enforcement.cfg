SPECIFICATION Spec
CONSTANTS
  a = a
  s1 = s1
  feature = feature
  Dispatches = {a}
  Sessions = {s1}
  Owner <- MCOwner
  LockFails = FALSE
  WriteFails = FALSE
  MaxLeaks = 0
  MaxDepth = 2
  Branches = {feature, main}
  Erasing = {rm}
  Removing = {rm}
  Rewriting = {reset}
  TaskStates <- MCTaskStates
  Unset = Unset
  Branchless = Branchless
  NoCommand = NoCommand
  Provider = TRUE
  Degrades = TRUE
  MaxHooks = 2
INVARIANTS TypeOK MainActsInMode MainStaysOnBranch EachRunIsConfirmed

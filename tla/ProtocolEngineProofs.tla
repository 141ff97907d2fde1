------------------------ MODULE ProtocolEngineProofs ------------------------
(***************************************************************************)
(* The gates hold and the DAIC mode follows the protocol for every         *)
(* configuration of steps, any tasks and any bounds.                       *)
(***************************************************************************)
EXTENDS ProtocolEngine, TLAPS

LEMMA NIsNat == N \in Nat /\ N > 0
  BY EngineAssumption DEF N

(* What each label of a handler knows of the step: while a chain runs no   *)
(* function of it has failed in a step that stops on failure; when it is   *)
(* through, the step has passed; a goto goes back.                         *)
GateInv ==
  /\ step \in 0..N
  /\ EarlierStepsPassed
  /\ pc = "start_state" => step = 0
  /\ pc \in {"post", "copy_log", "drop_pending"} =>
       at = step /\ step # 0 /\ (clean \/ ~Steps[at].stop)
  /\ pc = "move" => at = step /\ step # 0 /\ at \in passed
  /\ pc = "goto_state" => at \in 1..N /\ at < step

LEMMA GateStep ==
  ASSUME GateInv, [Next]_vars
  PROVE  GateInv'
<1> USE NIsNat DEF GateInv, EarlierStepsPassed
<1>1. CASE \E t \in Tasks \cup {NoTask} : Start(t)
  BY <1>1 DEF Start, Goto, SetMode, current, records, gates
<1>2. CASE StartState
  BY <1>2 DEF StartState, Goto, call
<1>3. CASE StartLog
  BY <1>3 DEF StartLog, Goto, current, call, history, records, gates
<1>4. CASE Detect
  BY <1>4 DEF Detect, Return, history, records, gates
<1>5. CASE Resume
  BY <1>5 DEF Resume, Goto, SetMode, current, call, records, gates
<1>6. CASE ResumeNote
  BY <1>6 DEF ResumeNote, Return, Record, current, gates
<1>7. CASE \E t \in Tasks \cup {NoTask} : Advance(t)
  BY <1>7 DEF Advance, Goto, current, records
<1>8. CASE FuncFails
  BY <1>8 DEF FuncFails, Fails, Passes, NextFunc, Return, current, records
<1>9. CASE CheckPasses
  BY <1>9 DEF CheckPasses, Passes, NextFunc, current, history, records, gates
<1>10. CASE CreateTaskFile
  BY <1>10 DEF CreateTaskFile, Passes, NextFunc, current, history, records, gates
<1>11. CASE SetTaskState
  BY <1>11 DEF SetTaskState, NextFunc, Goto, gates
<1>12. CASE CopyPendingLog
  BY <1>12 DEF CopyPendingLog, Goto, current, call, history, records, gates
<1>13. CASE DropPendingLog
  BY <1>13 DEF DropPendingLog, Goto, current, history, records, gates
<1>14. CASE ArchiveTask
  BY <1>14 DEF ArchiveTask, Passes, NextFunc, current, history, records, gates
<1>15. CASE ClearTaskState
  BY <1>15 DEF ClearTaskState, Passes, NextFunc, gates
<1>16. CASE BatchCheckpoint
  BY <1>16 DEF BatchCheckpoint, Fails, Passes, NextFunc, Return, SetMode, current, records, gates
<1>17. CASE LogStep
  BY <1>17 DEF LogStep, Goto, Record, current, call
<1>18. CASE LoopIteration
  BY <1>18 DEF LoopIteration, Goto, call, history, records, gates
<1>19. CASE NextStep
  BY <1>19 DEF NextStep, Goto, call, history, records, gates
<1>20. CASE SetDaicForStep
  BY <1>20 DEF SetDaicForStep, Return, SetMode, current, records, gates
<1>21. CASE CompleteLog
  BY <1>21 DEF CompleteLog, Goto, Record, current, call, gates
<1>22. CASE ClearProtocol
  BY <1>22 DEF ClearProtocol, Goto, call, history, records, gates
<1>23. CASE EndInDiscussion
  BY <1>23 DEF EndInDiscussion, Return, SetMode, current, records, gates
<1>24. CASE Restart
  BY <1>24 DEF Restart, Goto, call, history, records, gates
<1>25. CASE RestartLog
  BY <1>25 DEF RestartLog, Goto, Record, current, call, gates
<1>26. CASE \E s \in 1..N : GotoStep(s)
  BY <1>26 DEF GotoStep, Goto, Record, current, gates
<1>27. CASE GotoState
  BY <1>27 DEF GotoState, Goto, call, records
<1>28. CASE Abort
  BY <1>28 DEF Abort, Goto, Record, current, call, gates
<1>29. CASE AbortClear
  BY <1>29 DEF AbortClear, Goto, call, history, records, gates
<1>30. CASE AbortTask
  BY <1>30 DEF AbortTask, Goto, call, history, records, gates
<1>31. CASE \E n \in 1..MaxNotes : SaveNote(n)
  BY <1>31 DEF SaveNote, Record, current, call, gates
<1>32. CASE \E m \in Modes : SwitchMode(m)
  BY <1>32 DEF SwitchMode, SetMode, current, call, records, gates
<1>33. CASE SessionRead
  BY <1>33 DEF SessionRead, current, call, history, records, gates
<1>34. CASE SessionWrite
  BY <1>34 DEF SessionWrite, SetMode, current, call, records, gates
<1>35. CASE EmergencyStop
  BY <1>35 DEF EmergencyStop, SetMode, current, call, records, gates
<1>36. CASE Crash
  BY <1>36 DEF Crash, Return, current, gates
<1>37. CASE UNCHANGED vars
  BY <1>37 DEF vars, current, call, records, gates, history
<1> QED
  BY <1>1, <1>2, <1>3, <1>4, <1>5, <1>6, <1>7, <1>8, <1>9, <1>10, <1>11,
     <1>12, <1>13, <1>14, <1>15, <1>16, <1>17, <1>18, <1>19, <1>20, <1>21,
     <1>22, <1>23, <1>24, <1>25, <1>26, <1>27, <1>28, <1>29, <1>30, <1>31,
     <1>32, <1>33, <1>34, <1>35, <1>36, <1>37
  DEF Next, Call, Handler, PostFunc

(* The mode is already right while a handler has not moved the protocol,   *)
(* so every early return leaves it right.                                  *)
ModeInv ==
  /\ step \in 0..N
  /\ pc \notin {"start_state", "mode", "abort_task", "discussion"} /\ modeBy = "step"
       => mode = ModeOf(step)
  /\ pc = "start_state" /\ modeBy = "step" => mode = ModeOf(1)
  /\ pc \in {"abort_task", "discussion"} => step = 0

LEMMA ModeStep ==
  ASSUME GateInv, ModeInv, [Next]_vars
  PROVE  ModeInv'
<1> USE NIsNat DEF ModeInv, ModeOf
<1>1. CASE \E t \in Tasks \cup {NoTask} : Start(t)
  BY <1>1 DEF Start, Goto, SetMode, current, records, gates
<1>2. CASE StartState
  BY <1>2 DEF StartState, Goto, call
<1>3. CASE StartLog
  BY <1>3 DEF StartLog, Goto, current, call, history, records, gates
<1>4. CASE Detect
  BY <1>4 DEF Detect, Return, history, records, gates
<1>5. CASE Resume
  BY <1>5 DEF Resume, Goto, SetMode, current, call, records, gates
<1>6. CASE ResumeNote
  BY <1>6 DEF ResumeNote, Return, Record, current, gates
<1>7. CASE \E t \in Tasks \cup {NoTask} : Advance(t)
  BY <1>7 DEF Advance, Goto, current, records
<1>8. CASE FuncFails
  BY <1>8 DEF FuncFails, Fails, Passes, NextFunc, Return, current, records
<1>9. CASE CheckPasses
  BY <1>9 DEF CheckPasses, Passes, NextFunc, current, history, records, gates
<1>10. CASE CreateTaskFile
  BY <1>10 DEF CreateTaskFile, Passes, NextFunc, current, history, records, gates
<1>11. CASE SetTaskState
  BY <1>11 DEF SetTaskState, NextFunc, Goto, gates
<1>12. CASE CopyPendingLog
  BY <1>12 DEF CopyPendingLog, Goto, current, call, history, records, gates
<1>13. CASE DropPendingLog
  BY <1>13 DEF DropPendingLog, Goto, current, history, records, gates
<1>14. CASE ArchiveTask
  BY <1>14 DEF ArchiveTask, Passes, NextFunc, current, history, records, gates
<1>15. CASE ClearTaskState
  BY <1>15 DEF ClearTaskState, Passes, NextFunc, gates
<1>16. CASE BatchCheckpoint
  BY <1>16 DEF BatchCheckpoint, Fails, Passes, NextFunc, Return, SetMode, current, records, gates
<1>17. CASE LogStep
  BY <1>17 DEF LogStep, Goto, Record, current, call
<1>18. CASE LoopIteration
  BY <1>18 DEF GateInv, LoopIteration, Goto, call, history, records, gates
<1>19. CASE NextStep
  BY <1>19 DEF GateInv, NextStep, Goto, call, history, records, gates
<1>20. CASE SetDaicForStep
  BY <1>20 DEF SetDaicForStep, Return, SetMode, current, records, gates
<1>21. CASE CompleteLog
  BY <1>21 DEF CompleteLog, Goto, Record, current, call, gates
<1>22. CASE ClearProtocol
  BY <1>22 DEF ClearProtocol, Goto, call, history, records, gates
<1>23. CASE EndInDiscussion
  BY <1>23 DEF EndInDiscussion, Return, SetMode, current, records, gates
<1>24. CASE Restart
  BY <1>24 DEF Restart, Goto, call, history, records, gates
<1>25. CASE RestartLog
  BY <1>25 DEF RestartLog, Goto, Record, current, call, gates
<1>26. CASE \E s \in 1..N : GotoStep(s)
  BY <1>26 DEF GotoStep, Goto, Record, current, gates
<1>27. CASE GotoState
  BY <1>27 DEF GateInv, GotoState, Goto, call, records
<1>28. CASE Abort
  BY <1>28 DEF Abort, Goto, Record, current, call, gates
<1>29. CASE AbortClear
  BY <1>29 DEF AbortClear, Goto, call, history, records, gates
<1>30. CASE AbortTask
  BY <1>30 DEF AbortTask, Goto, call, history, records, gates
<1>31. CASE \E n \in 1..MaxNotes : SaveNote(n)
  BY <1>31 DEF SaveNote, Record, current, call, gates
<1>32. CASE \E m \in Modes : SwitchMode(m)
  BY <1>32 DEF SwitchMode, SetMode, current, call, records, gates
<1>33. CASE SessionRead
  BY <1>33 DEF SessionRead, current, call, history, records, gates
<1>34. CASE SessionWrite
  BY <1>34 DEF SessionWrite, SetMode, current, call, records, gates
<1>35. CASE EmergencyStop
  BY <1>35 DEF EmergencyStop, SetMode, current, call, records, gates
<1>36. CASE Crash
  BY <1>36 DEF Crash, Return, current, gates
<1>37. CASE UNCHANGED vars
  BY <1>37 DEF vars, current, call, records, gates, history
<1> QED
  BY <1>1, <1>2, <1>3, <1>4, <1>5, <1>6, <1>7, <1>8, <1>9, <1>10, <1>11,
     <1>12, <1>13, <1>14, <1>15, <1>16, <1>17, <1>18, <1>19, <1>20, <1>21,
     <1>22, <1>23, <1>24, <1>25, <1>26, <1>27, <1>28, <1>29, <1>30, <1>31,
     <1>32, <1>33, <1>34, <1>35, <1>36, <1>37
  DEF Next, Call, Handler, PostFunc

(* No goto, loop, restart, failed chain or crash of any run, of any        *)
(* configuration, lets the protocol stand behind a step whose post         *)
(* functions have not passed.                                              *)
THEOREM GatesHold == Spec => []EarlierStepsPassed
<1>1. Init => GateInv
  BY NIsNat DEF Init, GateInv, EarlierStepsPassed
<1>2. GateInv => EarlierStepsPassed
  BY DEF GateInv
<1> QED
  BY <1>1, <1>2, GateStep, PTL DEF Spec

(* Between two calls the DAIC mode the engine, a session start or a STOP   *)
(* has set is the one the protocol's step calls for, whatever the steps,   *)
(* tasks and hooks of the run.                                             *)
THEOREM ModeIsRight == Spec => []ModeFollowsStep
<1>1. Init => GateInv /\ ModeInv
  BY NIsNat DEF Init, GateInv, EarlierStepsPassed, ModeInv, ModeOf
<1>2. ModeInv => ModeFollowsStep
  BY DEF ModeInv, ModeFollowsStep
<1>3. GateInv /\ ModeInv /\ [Next]_vars => GateInv' /\ ModeInv'
  BY GateStep, ModeStep
<1> QED
  BY <1>1, <1>2, <1>3, PTL DEF Spec

-------------------------------------------------------------------------------
(* Types.                                                                  *)

LEMMA LogNameTypes ==
  ASSUME TypeOK, NEW t \in Tasks \cup {NoTask}
  PROVE  LogOf(t) \in LogNames /\ Content(LogOf(t)) \subseteq Entries
<1>1. LogOf(t) \in LogNames
  BY DEF LogOf, LogNames
<1>2. logs[LogOf(t)] \in (SUBSET Entries) \cup {NoLog}
  BY <1>1 DEF TypeOK
<1>3. CASE logs[LogOf(t)] = NoLog
  BY <1>1, <1>3 DEF Content
<1>4. CASE logs[LogOf(t)] # NoLog
  <2>1. logs[LogOf(t)] \in SUBSET Entries
    BY <1>2, <1>4
  <2>2. Content(LogOf(t)) = logs[LogOf(t)]
    BY <1>4 DEF Content
  <2> QED
    BY <1>1, <2>1, <2>2
<1> QED
  BY <1>3, <1>4

LEMMA RecordedTypes ==
  ASSUME TypeOK, NEW t \in Tasks \cup {NoTask}, NEW e \in Entries, Record(t, e)
  PROVE  /\ logs' \in [LogNames -> (SUBSET Entries) \cup {NoLog}]
         /\ saved' \subseteq Entries
BY LogNameTypes DEF TypeOK, Record

LEMMA EntryTypes ==
  /\ Event \in Entries
  /\ \A n \in 1..N : Entry("step", n) \in Entries
  /\ \A n \in 1..MaxNotes : Entry("note", n) \in Entries
BY DEF Event, Entry, Entries

LEMMA ModeTypes == \A s : ModeOf(s) \in Modes
<1>1. ASSUME NEW s \in 1..N
      PROVE  Steps[s].mode \in Modes
  <2>1. Steps[s] \in StepConfigs
    BY EngineAssumption DEF N
  <2> QED
    BY <2>1 DEF StepConfigs
<1> QED
  BY <1>1 DEF ModeOf, Modes

(* A run that is about to start is within the bound.                       *)
StartBound == pc = "start_state" => run < MaxRuns

LEMMA TypeStep ==
  ASSUME TypeOK, GateInv, StartBound, [Next]_vars
  PROVE  TypeOK'
<1> USE NIsNat, EngineAssumption DEF TypeOK, GateInv, Labels
<1>1. CASE \E t \in Tasks \cup {NoTask} : Start(t)
  BY <1>1, ModeTypes DEF Modes, Start, Goto, SetMode, current, records, gates
<1>2. CASE StartState
  <2>1. logs' \in [LogNames -> (SUBSET Entries) \cup {NoLog}]
    BY <1>2 DEF StartState
  <2>2. run' \in 0..MaxRuns
    BY <1>2 DEF StartState, StartBound
  <2> QED
    BY <1>2, <2>1, <2>2 DEF StartState, Goto, call
<1>3. CASE StartLog
  BY <1>3 DEF StartLog, Goto, current, call, history, records, gates
<1>4. CASE Detect
  BY <1>4 DEF Detect, Return, history, records, gates
<1>5. CASE Resume
  BY <1>5, ModeTypes DEF Modes, Resume, Goto, SetMode, current, call,
    records, gates
<1>6. CASE ResumeNote
  BY <1>6, RecordedTypes, EntryTypes DEF ResumeNote, Return, current, gates
<1>7. CASE \E t \in Tasks \cup {NoTask} : Advance(t)
  BY <1>7 DEF Advance, Goto, current, records
<1>8. CASE FuncFails
  <2>1. UNCHANGED <<task, step, iter, mode, logs, taskFiles, hook, records, passed, modeBy>>
    BY <1>8 DEF FuncFails, current
  <2>2. clean' \in BOOLEAN /\ pc \in Labels
    BY <1>8 DEF FuncFails, Fails
  <2>3. CASE Return
    BY <2>1, <2>2, <2>3 DEF Return, records
  <2>4. CASE Passes /\ UNCHANGED <<at, arg, before>>
    BY <2>1, <2>2, <2>4 DEF Passes, records
  <2> QED
    BY <1>8, <2>3, <2>4 DEF FuncFails, Fails
<1>9. CASE CheckPasses
  BY <1>9 DEF CheckPasses, NextFunc, Passes, current, history, records, gates
<1>10. CASE CreateTaskFile
  BY <1>10 DEF CreateTaskFile, NextFunc, Passes, current, history, records,
    gates
<1>11. CASE SetTaskState
  BY <1>11 DEF SetTaskState, NextFunc, Goto, gates
<1>12. CASE CopyPendingLog
  BY <1>12 DEF LogNames, CopyPendingLog, Goto, current, call, history,
    records, gates
<1>13. CASE DropPendingLog
  <2>1. logs' \in [LogNames -> (SUBSET Entries) \cup {NoLog}]
    BY <1>13 DEF DropPendingLog
  <2>2. k' \in Nat
    BY <1>13 DEF DropPendingLog
  <2> QED
    BY <1>13, <2>1, <2>2 DEF DropPendingLog, Goto, current, history, records, gates
<1>14. CASE ArchiveTask
  BY <1>14 DEF ArchiveTask, NextFunc, Passes, current, history, records, gates
<1>15. CASE ClearTaskState
  BY <1>15 DEF ClearTaskState, NextFunc, Passes, gates
<1>16. CASE BatchCheckpoint
  <2>1. /\ UNCHANGED <<task, step, iter, logs, taskFiles, hook, records, passed>>
        /\ mode' \in Modes /\ modeBy' = "pause" /\ clean' \in BOOLEAN /\ pc \in Labels
    BY <1>16, ModeTypes DEF BatchCheckpoint, Fails, SetMode, Modes, current
  <2>2. CASE Return
    BY <2>1, <2>2 DEF Return, records
  <2>3. CASE Passes /\ UNCHANGED <<at, arg, before>>
    BY <2>1, <2>3 DEF Passes, records
  <2> QED
    BY <1>16, <2>2, <2>3 DEF BatchCheckpoint, Fails
<1>17. CASE LogStep
  BY <1>17, RecordedTypes, EntryTypes DEF LogStep, Goto, current, call
<1>18. CASE LoopIteration
  BY <1>18 DEF LoopIteration, Goto, call, history, records, gates
<1>19. CASE NextStep
  BY <1>19 DEF NextStep, Goto, call, history, records, gates
<1>20. CASE SetDaicForStep
  BY <1>20, ModeTypes DEF Modes, SetDaicForStep, Return, SetMode, current,
    records, gates
<1>21. CASE CompleteLog
  BY <1>21, RecordedTypes, EntryTypes DEF CompleteLog, Goto, current, call,
    gates
<1>22. CASE ClearProtocol
  BY <1>22 DEF ClearProtocol, Goto, call, history, records, gates
<1>23. CASE EndInDiscussion
  BY <1>23, ModeTypes DEF Modes, EndInDiscussion, Return, SetMode, current,
    records, gates
<1>24. CASE Restart
  BY <1>24 DEF Restart, Goto, call, history, records, gates
<1>25. CASE RestartLog
  BY <1>25, RecordedTypes, EntryTypes DEF RestartLog, Goto, current, call,
    gates
<1>26. CASE \E s \in 1..N : GotoStep(s)
  BY <1>26, RecordedTypes, EntryTypes DEF GotoStep, Goto, current, gates
<1>27. CASE GotoState
  BY <1>27 DEF GotoState, Goto, call, records
<1>28. CASE Abort
  BY <1>28, RecordedTypes, EntryTypes DEF Abort, Goto, current, call, gates
<1>29. CASE AbortClear
  BY <1>29 DEF AbortClear, Goto, call, history, records, gates
<1>30. CASE AbortTask
  BY <1>30 DEF AbortTask, Goto, call, history, records, gates
<1>31. CASE \E n \in 1..MaxNotes : SaveNote(n)
  BY <1>31, RecordedTypes, EntryTypes DEF SaveNote, current, call, gates
<1>32. CASE \E m \in Modes : SwitchMode(m)
  BY <1>32, ModeTypes DEF Modes, SwitchMode, SetMode, current, call, records,
    gates
<1>33. CASE SessionRead
  BY <1>33, ModeTypes DEF Modes, SessionRead, current, call, history,
    records, gates
<1>34. CASE SessionWrite
  BY <1>34, ModeTypes DEF Modes, SessionWrite, SetMode, current, call,
    records, gates
<1>35. CASE EmergencyStop
  BY <1>35, ModeTypes DEF Modes, EmergencyStop, SetMode, current, call,
    records, gates
<1>36. CASE Crash
  BY <1>36 DEF Crash, Return, current, gates
<1>37. CASE UNCHANGED vars
  BY <1>37 DEF vars, current, call, records, gates, history
<1> QED
  BY <1>1, <1>2, <1>3, <1>4, <1>5, <1>6, <1>7, <1>8, <1>9, <1>10, <1>11,
     <1>12, <1>13, <1>14, <1>15, <1>16, <1>17, <1>18, <1>19, <1>20, <1>21,
     <1>22, <1>23, <1>24, <1>25, <1>26, <1>27, <1>28, <1>29, <1>30, <1>31,
     <1>32, <1>33, <1>34, <1>35, <1>36, <1>37
  DEF Next, Call, Handler, PostFunc

LEMMA StartBoundStep ==
  ASSUME StartBound, [Next]_vars
  PROVE  StartBound'
<1> USE DEF StartBound
<1>1. CASE \E t \in Tasks \cup {NoTask} : Start(t)
  BY <1>1 DEF Start, records
<1>2. CASE pc' # "start_state"
  BY <1>2
<1>3. CASE pc' = pc /\ run' = run
  BY <1>3
<1> QED
  BY <1>1, <1>2, <1>3 DEF Next, Call, Handler, PostFunc, StartState, StartLog,
     Detect, Resume, ResumeNote, Advance, FuncFails, CheckPasses, CreateTaskFile,
     SetTaskState, CopyPendingLog, DropPendingLog, ArchiveTask, ClearTaskState,
     BatchCheckpoint, Fails, LogStep, LoopIteration, NextStep, SetDaicForStep,
     CompleteLog, ClearProtocol, EndInDiscussion, Restart, RestartLog, GotoStep,
     GotoState, Abort, AbortClear, AbortTask, SaveNote, SwitchMode, SessionRead,
     SessionWrite, EmergencyStop, Crash, NextFunc, Passes, Goto, Return, vars,
     history, records

LEMMA InitTypes == Init => TypeOK
<1> SUFFICES ASSUME Init PROVE TypeOK
  OBVIOUS
<1> USE DEF Init
<1>1. /\ task \in Tasks \cup {NoTask} /\ step \in 0..N
      /\ iter \in 0..MaxIter /\ mode \in Modes /\ taskFiles \subseteq Tasks
  BY NIsNat, EngineAssumption DEF Modes
<1>2. /\ pc \in Labels /\ at \in 0..N /\ k \in Nat
      /\ arg \in Tasks \cup {NoTask} /\ before \in Tasks \cup {NoTask}
      /\ hook \in Modes \cup {"none"}
  BY NIsNat DEF Labels
<1>3. logs \in [LogNames -> (SUBSET Entries) \cup {NoLog}]
  OBVIOUS
<1>4. saved \subseteq Entries /\ passed \subseteq 1..N
  OBVIOUS
<1>5. split \in BOOLEAN /\ clean \in BOOLEAN
  OBVIOUS
<1>6. modeBy \in {"step", "stop", "interrupt", "pause", "tool", "stale", "crash"}
  OBVIOUS
<1>7. run \in 0..MaxRuns
  BY EngineAssumption
<1> QED
  BY <1>1, <1>2, <1>3, <1>4, <1>5, <1>6, <1>7 DEF TypeOK

(* Every variable keeps its type, for any steps, tasks, events and bounds. *)
THEOREM TypesHold == Spec => []TypeOK
<1>1. Init => TypeOK /\ GateInv /\ StartBound
  BY InitTypes, NIsNat
  DEF Init, GateInv, StartBound, EarlierStepsPassed
<1>2. TypeOK /\ GateInv /\ StartBound /\ [Next]_vars
        => TypeOK' /\ GateInv' /\ StartBound'
  BY TypeStep, GateStep, StartBoundStep
<1> QED
  BY <1>1, <1>2, PTL DEF Spec

-------------------------------------------------------------------------------
(* The run's record.                                                       *)

Posting == {"post", "copy_log", "drop_pending"}
SetsTask(s) == \E i \in DOMAIN Steps[s].posts : Steps[s].posts[i] = "set_task"

(* While the task has a log of its own there is no _pending.json, so the   *)
(* log that is looked up for the task is the one that has been written.    *)
InOneLog ==
  /\ Complete(LogOf(task))
  /\ task # NoTask /\ logs[Pending] # NoLog => logs[task] = NoLog

(* The log follows the task's name: what a step names is a task; a run     *)
(* that is not split finds no log of its task at its start, and loses the  *)
(* name of its task in no chain; in the middle of the renaming the record  *)
(* is in the log that is read next.                                        *)
NamesATask ==
  /\ k \in Nat \ {0}
  /\ pc \in Posting /\ SetsTask(at) => arg \in Tasks
RecordInv ==
  /\ pc = "start_log" => saved = {}
  /\ ~split =>
      /\ step # 0 /\ pc \notin {"copy_log", "drop_pending"} => InOneLog
      /\ pc \in {"start_log", "detect"} =>
           \A t \in {arg, task} \ {NoTask} : logs[t] = NoLog
      /\ pc = "copy_log" =>
           /\ task = arg /\ arg \in Tasks
           /\ logs[Pending] # NoLog /\ saved \subseteq logs[Pending]
      /\ pc = "drop_pending" =>
           /\ task = arg /\ arg \in Tasks
           /\ logs[arg] # NoLog /\ saved \subseteq logs[arg]
      /\ pc \in Posting \cup {"move"} /\ task = NoTask => before = NoTask

LEMMA PostsAreSequences ==
  \A s \in 1..N : DOMAIN Steps[s].posts = 1..Len(Steps[s].posts)
<1> SUFFICES ASSUME NEW s \in 1..N
             PROVE  DOMAIN Steps[s].posts = 1..Len(Steps[s].posts)
  OBVIOUS
<1>1. Steps[s] \in StepConfigs
  BY EngineAssumption DEF N
<1> QED
  BY <1>1 DEF StepConfigs

LEMMA NamesStep ==
  ASSUME TypeOK, NamesATask, [Next]_vars
  PROVE  NamesATask'
<1> USE DEF NamesATask, Posting
<1>1. CASE \E t \in Tasks \cup {NoTask} : Advance(t)
  BY <1>1 DEF Advance, Goto, SetsTask
<1>2. CASE pc' \notin Posting /\ k' \in {k, k + 1, 1}
  BY <1>2
<1>3. CASE pc \in Posting /\ k' \in {k, k + 1} /\ UNCHANGED <<at, arg>>
  BY <1>3 DEF SetsTask
<1>4. CASE UNCHANGED <<pc, k, at, arg>>
  BY <1>4 DEF SetsTask
<1>5. CASE Handler
  <2>1. CASE PostFunc
    BY <1>2, <1>3, <2>1 DEF PostFunc, FuncFails, CheckPasses, CreateTaskFile,
       SetTaskState, CopyPendingLog, DropPendingLog, ArchiveTask, ClearTaskState,
       BatchCheckpoint, Fails, NextFunc, Passes, Goto, Return, call
  <2> QED
    BY <1>2, <1>5, <2>1 DEF Handler, StartState, StartLog, Detect, ResumeNote, LogStep,
       LoopIteration, NextStep, SetDaicForStep, CompleteLog, ClearProtocol,
       EndInDiscussion, RestartLog, GotoState, AbortClear, AbortTask, Goto, Return, call
<1>6. CASE Call
  BY <1>1, <1>2, <1>4, <1>6 DEF Call, Start, GotoStep, SaveNote, SwitchMode, Resume,
     Restart, Abort, Goto, call
<1>7. CASE SessionRead \/ SessionWrite \/ EmergencyStop \/ Crash
  BY <1>2, <1>4, <1>7 DEF SessionRead, SessionWrite, EmergencyStop, Crash, Return, call
<1> QED
  BY <1>4, <1>5, <1>6, <1>7 DEF Next, vars, call

LEMMA RecordKeeps ==
  ASSUME TypeOK, InOneLog, NEW e \in Entries, Record(task, e), task' = task
  PROVE  InOneLog'
<1>1. LogOf(task) \in LogNames /\ Content(LogOf(task)) \subseteq Entries
  BY LogNameTypes DEF TypeOK
<1>2. logs' = [logs EXCEPT ![LogOf(task)] = Content(LogOf(task)) \cup {e}]
  BY DEF Record
<1>3. logs'[LogOf(task)] = Content(LogOf(task)) \cup {e}
  BY <1>1, <1>2 DEF TypeOK
<1>4. logs'[LogOf(task)] # NoLog
  BY <1>1, <1>3, LogAssumption
<1>5. \A l \in LogNames : l # LogOf(task) => logs'[l] = logs[l]
  BY <1>2 DEF TypeOK
<1>6. task # NoTask => task \in LogNames /\ task # Pending
  BY EngineAssumption DEF TypeOK, LogNames
<1>7. LogOf(task)' = LogOf(task)
  BY <1>4, <1>5, <1>6 DEF LogOf
<1>8. Complete(LogOf(task))'
  BY <1>3, <1>4, <1>7 DEF InOneLog, Complete, Content, Record
<1>9. task # NoTask /\ logs'[Pending] # NoLog => logs'[task] = NoLog
  BY <1>4, <1>5, <1>6 DEF InOneLog, LogOf, LogNames
<1> QED
  BY <1>8, <1>9 DEF InOneLog

LEMMA Unmoved ==
  ASSUME InOneLog, UNCHANGED <<task, logs, saved>>
  PROVE  InOneLog'
BY DEF InOneLog, Complete, Content, LogOf

LEMMA RecordStep ==
  ASSUME TypeOK, GateInv, ModeInv, NamesATask, RecordInv, [Next]_vars
  PROVE  RecordInv'
<1> USE NIsNat DEF GateInv, RecordInv, Posting
<1>1. CASE \E t \in Tasks \cup {NoTask} : Start(t)
  BY <1>1, Unmoved DEF Start, Goto, SetMode, current, records, gates
<1>2. CASE StartState
  <2>1. ~split' => \A t \in {arg, task} \ {NoTask} : logs'[t] = NoLog
    BY <1>2, EngineAssumption DEF StartState, TypeOK, LogNames, call
  <2>2. ~split' => InOneLog'
    BY <1>2, <2>1 DEF StartState, InOneLog, Complete
  <2> QED
    BY <1>2, <2>1, <2>2 DEF StartState, Goto, call
<1>3. CASE StartLog
  <2>1. ~split => \A t \in {arg, task} \ {NoTask} : logs'[t] = NoLog
    BY <1>3, EngineAssumption DEF StartLog, TypeOK, LogNames
  <2>2. UNCHANGED <<task, step, arg, split, saved>> /\ pc' = "detect"
    BY <1>3 DEF StartLog, Goto, current, call, history, records
  <2>3. saved = {}
    BY <1>3 DEF StartLog
  <2> QED
    BY <1>3, <2>1, <2>2, <2>3 DEF InOneLog, Complete
<1>4. CASE Detect
  <2>1. UNCHANGED <<step, logs, saved, split>> /\ pc' = "ready"
    BY <1>4 DEF Detect, Return, history, records
  <2>2. ~split => LogOf(task) = Pending /\ LogOf(task)' = Pending
    BY <1>4, <2>1 DEF Detect, LogOf
  <2>3. ~split /\ step # 0 => Complete(LogOf(task))'
    BY <1>4, <2>1, <2>2 DEF Detect, InOneLog, Complete, Content
  <2>4. ~split => (task # NoTask => logs[task] = NoLog)'
    BY <1>4, <2>1 DEF Detect
  <2> QED
    BY <2>1, <2>3, <2>4 DEF InOneLog
<1>5. CASE Resume
  BY <1>5, Unmoved DEF Resume, Goto, SetMode, current, call, records, gates
<1>6. CASE ResumeNote
  BY <1>6, RecordKeeps, EntryTypes DEF ResumeNote, Return, current, gates
<1>7. CASE \E t \in Tasks \cup {NoTask} : Advance(t)
  BY <1>7, Unmoved DEF Advance, Goto, current, records
<1>8. CASE FuncFails
  BY <1>8, Unmoved DEF FuncFails, Fails, NextFunc, Passes, Return, current, records
<1>9. CASE CheckPasses
  BY <1>9, Unmoved DEF CheckPasses, NextFunc, Passes, current, history,
    records, gates
<1>10. CASE CreateTaskFile
  BY <1>10, Unmoved DEF CreateTaskFile, NextFunc, Passes, current, history,
    records, gates
<1>11. CASE SetTaskState
  <2>1. arg \in Tasks /\ arg # NoTask /\ task' = arg /\ UNCHANGED <<logs, saved, step, arg, before>>
    <3>1. at \in 1..N /\ k \in 1..Len(Steps[at].posts) /\ Steps[at].posts[k] = "set_task"
      BY <1>11 DEF SetTaskState, NextFunc, NamesATask, TypeOK
    <3>2. DOMAIN Steps[at].posts = 1..Len(Steps[at].posts)
      BY <3>1, PostsAreSequences
    <3> QED
      BY <1>11, <3>1, <3>2, EngineAssumption
      DEF SetTaskState, NextFunc, NamesATask, SetsTask
  <2>2. CASE logs[Pending] # NoLog
    <3>1. ~split => saved \subseteq logs[Pending]
      BY <1>11, <2>2 DEF SetTaskState, NextFunc, InOneLog, LogOf, Complete, Content
    <3> QED
      BY <1>11, <2>1, <2>2, <3>1 DEF SetTaskState, Goto
  <2>3. CASE logs[Pending] = NoLog
    <3>1. ~split' => ~split /\ task' = task
      BY <1>11, <2>3 DEF SetTaskState
    <3> QED
      BY <1>11, <2>1, <2>3, <3>1, Unmoved DEF SetTaskState, NextFunc, Goto
  <2> QED
    BY <2>2, <2>3
<1>12. CASE CopyPendingLog
  <2>1. UNCHANGED <<task, arg, before, split, saved>> /\ pc' = "drop_pending"
    BY <1>12 DEF CopyPendingLog, Goto, current, call, history, records
  <2>2. ~split => logs'[arg] = logs[Pending]
    BY <1>12 DEF CopyPendingLog, TypeOK, LogNames
  <2> QED
    BY <1>12, <2>1, <2>2 DEF CopyPendingLog
<1>13. CASE DropPendingLog
  <2>1. UNCHANGED <<task, step, arg, before, split, saved>> /\ pc' = "post"
    BY <1>13 DEF DropPendingLog, Goto, current, history, records
  <2>2. ~split => arg # NoTask /\ arg # Pending /\ logs'[arg] = logs[arg] /\ logs'[Pending] = NoLog
    BY <1>13, EngineAssumption DEF DropPendingLog, TypeOK, LogNames
  <2>3. ~split => InOneLog'
    BY <1>13, <2>1, <2>2 DEF DropPendingLog, InOneLog, LogOf, Complete, Content
  <2> QED
    BY <1>13, <2>1, <2>2, <2>3, EngineAssumption DEF DropPendingLog
<1>14. CASE ArchiveTask
  BY <1>14, Unmoved DEF ArchiveTask, NextFunc, Passes, current, history,
    records, gates
<1>15. CASE ClearTaskState
  BY <1>15, Unmoved DEF ClearTaskState, NextFunc, Passes, gates
<1>16. CASE BatchCheckpoint
  BY <1>16, Unmoved DEF BatchCheckpoint, Fails, Passes, NextFunc, Return, SetMode, current,
    records, gates
<1>17. CASE LogStep
  <2>1. ~split => (IF task # NoTask THEN task ELSE before) = task
    BY <1>17 DEF LogStep
  <2>2. Entry("step", at) \in Entries
    BY <1>17, EntryTypes DEF LogStep
  <2>3. ~split => InOneLog'
    BY <1>17, <2>1, <2>2, RecordKeeps DEF LogStep, current
  <2> QED
    BY <1>17, <2>3 DEF LogStep, Goto, Record, current, call
<1>18. CASE LoopIteration
  BY <1>18, Unmoved DEF LoopIteration, Goto, call, history, records, gates
<1>19. CASE NextStep
  BY <1>19, Unmoved DEF NextStep, Goto, call, history, records, gates
<1>20. CASE SetDaicForStep
  BY <1>20, Unmoved DEF SetDaicForStep, Return, SetMode, current, records,
    gates
<1>21. CASE CompleteLog
  <2>1. ~split => (IF task # NoTask THEN task ELSE before) = task
    BY <1>21 DEF CompleteLog
  <2>2. Event \in Entries
    BY <1>21, EntryTypes DEF CompleteLog
  <2>3. ~split => InOneLog'
    BY <1>21, <2>1, <2>2, RecordKeeps DEF CompleteLog, current
  <2> QED
    BY <1>21, <2>3 DEF CompleteLog, Goto, Record, current, call
<1>22. CASE ClearProtocol
  BY <1>22, Unmoved DEF ClearProtocol, Goto, call, history, records, gates
<1>23. CASE EndInDiscussion
  BY <1>23, Unmoved DEF EndInDiscussion, Return, SetMode, current, records,
    gates
<1>24. CASE Restart
  BY <1>24, Unmoved DEF Restart, Goto, call, history, records, gates
<1>25. CASE RestartLog
  BY <1>25, RecordKeeps, EntryTypes DEF RestartLog, Goto, current, call, gates
<1>26. CASE \E s \in 1..N : GotoStep(s)
  BY <1>26, RecordKeeps, EntryTypes DEF GotoStep, Goto, current, gates
<1>27. CASE GotoState
  BY <1>27, Unmoved DEF GotoState, Goto, call, records
<1>28. CASE Abort
  BY <1>28, RecordKeeps, EntryTypes DEF Abort, Goto, current, call, gates
<1>29. CASE AbortClear
  BY <1>29, Unmoved DEF AbortClear, Goto, call, history, records, gates
<1>30. CASE AbortTask
  BY <1>30 DEF ModeInv, AbortTask, Goto, call, history, records, gates
<1>31. CASE \E n \in 1..MaxNotes : SaveNote(n)
  BY <1>31, RecordKeeps, EntryTypes DEF SaveNote, current, call, gates
<1>32. CASE \E m \in Modes : SwitchMode(m)
  BY <1>32, Unmoved DEF SwitchMode, SetMode, current, call, records, gates
<1>33. CASE SessionRead
  BY <1>33, Unmoved DEF SessionRead, current, call, history, records, gates
<1>34. CASE SessionWrite
  BY <1>34, Unmoved DEF SessionWrite, SetMode, current, call, records, gates
<1>35. CASE EmergencyStop
  BY <1>35, Unmoved DEF EmergencyStop, SetMode, current, call, records, gates
<1>36. CASE Crash
  BY <1>36, Unmoved DEF Crash, Return, current, gates
<1>37. CASE UNCHANGED vars
  BY <1>37, Unmoved DEF vars, current, call, records, gates, history
<1> QED
  BY <1>1, <1>2, <1>3, <1>4, <1>5, <1>6, <1>7, <1>8, <1>9, <1>10, <1>11,
     <1>12, <1>13, <1>14, <1>15, <1>16, <1>17, <1>18, <1>19, <1>20, <1>21,
     <1>22, <1>23, <1>24, <1>25, <1>26, <1>27, <1>28, <1>29, <1>30, <1>31,
     <1>32, <1>33, <1>34, <1>35, <1>36, <1>37
  DEF Next, Call, Handler, PostFunc

(* Every note, step, goto and resume entry of the active run is in the log *)
(* that is read for the current task, whatever the steps, the tasks and    *)
(* the moments at which the server dies, unless the run is split.          *)
THEOREM RecordIsAlwaysKept == Spec => []RunRecordKept
<1>1. Init => /\ TypeOK /\ GateInv /\ StartBound
              /\ ModeInv /\ NamesATask /\ RecordInv
  <2>1. Init => TypeOK
    BY InitTypes
  <2>2. Init => GateInv /\ StartBound /\ ModeInv /\ NamesATask
    BY NIsNat DEF Init, GateInv, StartBound, EarlierStepsPassed, ModeInv, ModeOf,
       NamesATask, Posting
  <2>3. Init => RecordInv
    BY DEF Init, RecordInv, Posting
  <2> QED
    BY <2>1, <2>2, <2>3
<1>2. /\ TypeOK /\ GateInv /\ StartBound /\ ModeInv /\ NamesATask /\ RecordInv
      /\ [Next]_vars
      => (TypeOK /\ GateInv /\ StartBound /\ ModeInv /\ NamesATask /\ RecordInv)'
  BY TypeStep, GateStep, StartBoundStep, ModeStep, NamesStep, RecordStep
<1>3. RecordInv => RunRecordKept
  BY DEF RecordInv, RunRecordKept, InOneLog
<1> QED
  BY <1>1, <1>2, <1>3, PTL DEF Spec
===============================================================================

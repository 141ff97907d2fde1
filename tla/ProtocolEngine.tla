---------------------------- MODULE ProtocolEngine ----------------------------
(***************************************************************************)
(* One run after another of a workflow protocol: hooks/protocol_engine.py  *)
(* in the MCP server, with the hooks that share its files                  *)
(* (hooks/session-start.py, hooks/user-messages.py).                       *)
(*                                                                         *)
(* A handler of the engine is a sequence of writes to separate files:      *)
(* current_task.json (each write of it is atomic, StateFiles),             *)
(* daic-mode.json and the protocol logs.  Each write is a step of its own, *)
(* named by pc; a hook, or the end of the server's process, can fall       *)
(* between any two of them.  One server runs one handler at a time.        *)
(***************************************************************************)
EXTENDS Naturals, Sequences

CONSTANTS
  Steps,         \* the "steps" of the protocol's configuration
  Tasks,         \* task names
  NoTask,        \* "task": null
  Pending,       \* the log name _pending
  NoLog,         \* the log file does not exist
  KnownTasks,    \* tasks whose file exists at the start
  Events,        \* what else happens in this instance
  MaxRuns,       \* bound: protocol runs
  MaxNotes,      \* bound: notes saved in a run
  MaxIter        \* bound: iterations of a looping step

Modes == {"discussion", "implementation", "documentation"}

(* What a post function of a step does to the files of this module:        *)
(* "check" nothing, it passes or fails (git, issue tracker, gates);        *)
(* "create" makes the task file; "set_task" is _func_set_task_state;       *)
(* "archive" moves the task file away; "clear" is _func_clear_task_state;  *)
(* "checkpoint" is _func_batch_checkpoint.                                 *)
Funcs == {"check", "create", "set_task", "archive", "clear", "checkpoint"}

StepConfigs ==
  [mode : Modes, looping : BOOLEAN, stop : BOOLEAN, posts : Seq(Funcs)]

N == Len(Steps)

ASSUME EngineAssumption ==
  /\ Steps \in Seq(StepConfigs)
  /\ N > 0
  /\ KnownTasks \subseteq Tasks
  /\ Events \subseteq {"session", "stop", "tool", "crash"}
  /\ NoTask \notin Tasks
  /\ Pending \notin Tasks
  /\ MaxRuns \in Nat
  /\ MaxNotes \in Nat
  /\ MaxIter \in Nat

VARIABLES
  task,        \* current_task.json: "task"
  step, iter,  \* current_task.json: "protocol" (step 0: none), "loop_iteration"
  mode,        \* daic-mode.json
  logs,        \* protocol-logs/<name>.json: NoLog, or the entries of this run in it
  taskFiles,   \* tasks with a file in team-management/tasks
  pc,          \* the next write of the handler under way; "ready" between calls
  at,          \* protocol_info["current_step"], read when the handler began
  k,           \* next function of the post_funcs chain
  arg,         \* the "task" argument of the call, or the task it detected
  before,      \* task_name_before of advance_step
  hook,        \* mode a SessionStart hook is about to restore, or "none"
  run,         \* history: number of protocol runs started
  saved,       \* history: entries written to a log in the current run
  split,       \* history: the run's entries may lie in two logs
  passed,      \* history: steps whose chain has passed since they were entered
  clean,       \* history: no function of the chain under way has failed
  modeBy       \* history: what the mode was last set for

current == <<task, step, iter>>
call == <<at, k, arg, before>>
records == <<run, saved, split>>
gates == <<passed, clean>>
history == <<records, gates, modeBy>>
vars == <<current, mode, logs, taskFiles, pc, call, hook, history>>

LogNames == Tasks \cup {Pending}
Entries ==
  [kind : {"step"}, n : 1..N] \cup [kind : {"note"}, n : 1..MaxNotes] \cup
  [kind : {"event"}, n : {0}]
Entry(kind, n) == [kind |-> kind, n |-> n]

ASSUME LogAssumption == \A entries \in SUBSET Entries : entries # NoLog

(* A goto, a restart, a resume, an abort or a completion.                  *)
Event == Entry("event", 0)

(* The log _update_log writes for a task: the task's own file when it      *)
(* exists, else _pending.json.                                             *)
LogOf(t) == IF t # NoTask /\ logs[t] # NoLog THEN t ELSE Pending
Content(name) == IF logs[name] = NoLog THEN {} ELSE logs[name]

(* _update_log with an updater that adds one entry.                        *)
Record(t, e) ==
  /\ logs' = [logs EXCEPT ![LogOf(t)] = Content(LogOf(t)) \cup {e}]
  /\ saved' = saved \cup {e}

ModeOf(s) == IF s \in 1..N THEN Steps[s].mode ELSE "discussion"
SetMode(m, why) == mode' = m /\ modeBy' = why
Goto(label) == pc' = label
(* The handler returns; its locals are gone.                               *)
Return ==
  /\ pc' = "ready"
  /\ at' = 0 /\ k' = 1 /\ arg' = NoTask /\ before' = NoTask

Init ==
  /\ task = NoTask /\ step = 0 /\ iter = 0
  /\ mode = "discussion"
  /\ logs = [l \in LogNames |-> NoLog]
  /\ taskFiles = KnownTasks
  /\ pc = "ready"
  /\ at = 0 /\ k = 1 /\ arg = NoTask /\ before = NoTask
  /\ hook = "none"
  /\ run = 0 /\ saved = {} /\ split = FALSE
  /\ passed = {} /\ clean = TRUE
  /\ modeBy = "step"

-------------------------------------------------------------------------------
(* start_protocol                                                          *)

(* No protocol is active: the mode of the first step is written first.     *)
(* t is the explicit task parameter, or what auto_detect_task will infer   *)
(* from the branch; either way a task with a file, or none.                *)
Start(t) ==
  /\ pc = "ready" /\ step = 0
  /\ run < MaxRuns
  /\ t \in taskFiles \cup {NoTask}
  /\ arg' = t
  /\ SetMode(ModeOf(1), "step")
  /\ Goto("start_state")
  /\ UNCHANGED <<current, logs, taskFiles, at, k, before, hook, records, gates>>

(* A new run: the logs that exist hold no entry of it yet.                 *)
StartState ==
  /\ pc = "start_state"
  /\ step' = 1 /\ iter' = 0
  /\ run' = run + 1 /\ saved' = {} /\ passed' = {}
  /\ split' = \E t \in {arg, task} \ {NoTask} : logs[t] # NoLog
  /\ logs' = [l \in LogNames |-> IF logs[l] = NoLog THEN NoLog ELSE {}]
  /\ Goto("start_log")
  /\ UNCHANGED <<task, mode, taskFiles, call, hook, clean, modeBy>>

StartLog ==
  /\ pc = "start_log"
  /\ logs' = [logs EXCEPT ![Pending] = {}]
  /\ Goto("detect")
  /\ UNCHANGED <<current, mode, taskFiles, call, hook, history>>

(* _func_auto_detect_task, a pre function of the first step.               *)
Detect ==
  /\ pc = "detect"
  /\ task' = IF arg # NoTask THEN arg ELSE task
  /\ Return
  /\ UNCHANGED <<step, iter, mode, logs, taskFiles, hook, history>>

(* A call for the active protocol resumes it once it has looped            *)
(* (_resume_protocol); any other one is refused and changes nothing.       *)
Resume ==
  /\ pc = "ready" /\ step \in 1..N /\ iter > 0
  /\ SetMode(ModeOf(step), "step")
  /\ Goto(IF task # NoTask THEN "resume_note" ELSE "ready")
  /\ UNCHANGED <<current, logs, taskFiles, call, hook, records, gates>>

ResumeNote ==
  /\ pc = "resume_note"
  /\ Record(task, Event)
  /\ Return
  /\ UNCHANGED <<current, mode, taskFiles, hook, run, split, gates, modeBy>>

-------------------------------------------------------------------------------
(* advance_step                                                            *)

(* The handler reads the state once, here; a step that sets the task takes *)
(* its name from the call.                                                 *)
Advance(t) ==
  /\ pc = "ready" /\ step \in 1..N
  /\ t \in IF \E i \in DOMAIN Steps[step].posts : Steps[step].posts[i] = "set_task"
             THEN Tasks ELSE {NoTask}
  /\ at' = step /\ k' = 1 /\ arg' = t /\ before' = task
  /\ clean' = TRUE
  /\ Goto("post")
  /\ UNCHANGED <<current, mode, logs, taskFiles, hook, records, passed, modeBy>>

NextFunc(func) ==
  /\ pc = "post" /\ k <= Len(Steps[at].posts)
  /\ Steps[at].posts[k] = func
Passes == k' = k + 1 /\ UNCHANGED pc

(* A function returns success = False or raises: the chain stops and the   *)
(* protocol stays where it is, unless the step does not stop on failure.   *)
Fails ==
  /\ \/ Steps[at].stop /\ Return
     \/ ~Steps[at].stop /\ Passes /\ UNCHANGED <<at, arg, before>>
  /\ clean' = FALSE

FuncFails ==
  /\ \E func \in Funcs : NextFunc(func)
  /\ Fails
  /\ UNCHANGED <<current, mode, logs, taskFiles, hook, records, passed, modeBy>>

CheckPasses ==
  /\ NextFunc("check") \/ NextFunc("checkpoint")
  /\ Passes
  /\ UNCHANGED <<current, mode, logs, taskFiles, at, arg, before, hook, history>>

CreateTaskFile ==
  /\ NextFunc("create")
  /\ taskFiles' = taskFiles \cup ({arg} \ {NoTask})
  /\ Passes
  /\ UNCHANGED <<current, mode, logs, at, arg, before, hook, history>>

SetTaskState ==
  /\ NextFunc("set_task")
  /\ task' = arg
  /\ Goto(IF logs[Pending] # NoLog THEN "copy_log" ELSE "post")
  /\ k' = IF logs[Pending] # NoLog THEN k ELSE k + 1
  /\ split' = (split \/ (logs[Pending] = NoLog /\ arg # task))
  /\ UNCHANGED <<step, iter, mode, logs, taskFiles, at, arg, before, hook, run,
                 saved, gates, modeBy>>

(* The rest of _func_set_task_state: {task}.json is written from           *)
(* _pending.json, then _pending.json is removed.                           *)
CopyPendingLog ==
  /\ pc = "copy_log"
  /\ logs' = [logs EXCEPT ![arg] = logs[Pending]]
  /\ Goto("drop_pending")
  /\ UNCHANGED <<current, mode, taskFiles, call, hook, history>>

DropPendingLog ==
  /\ pc = "drop_pending"
  /\ logs' = [logs EXCEPT ![Pending] = NoLog]
  /\ k' = k + 1 /\ Goto("post")
  /\ UNCHANGED <<current, mode, taskFiles, at, arg, before, hook, history>>

ArchiveTask ==
  /\ NextFunc("archive") /\ task # NoTask
  /\ taskFiles' = taskFiles \ {task}
  /\ Passes
  /\ UNCHANGED <<current, mode, logs, at, arg, before, hook, history>>

(* A chain that fails after this leaves the protocol at its last step with *)
(* no task: the retry finds neither the task nor its log.                  *)
ClearTaskState ==
  /\ NextFunc("clear")
  /\ task' = NoTask
  /\ split' = TRUE
  /\ Passes
  /\ UNCHANGED <<step, iter, mode, logs, taskFiles, at, arg, before, hook, run,
                 saved, gates, modeBy>>

(* At a batch boundary the function fails, and the user is asked in        *)
(* discussion mode.                                                        *)
BatchCheckpoint ==
  /\ NextFunc("checkpoint")
  /\ SetMode("discussion", "pause")
  /\ Fails
  /\ UNCHANGED <<current, logs, taskFiles, hook, records, passed>>

(* Mutant: the log is looked up under the name the call found.             *)
LogStepUnderOldName ==
  /\ pc = "post" /\ k > Len(Steps[at].posts)
  /\ Record(before, Entry("step", at))
  /\ passed' = IF clean \/ ~Steps[at].stop THEN passed \cup {at} ELSE passed
  /\ Goto("move")
  /\ UNCHANGED <<current, mode, taskFiles, call, hook, run, split, clean, modeBy>>

(* The chain is through: the step is logged before the protocol moves.     *)
LogStep ==
  /\ pc = "post" /\ k > Len(Steps[at].posts)
  /\ Record(IF task # NoTask THEN task ELSE before, Entry("step", at))
  /\ passed' = IF clean \/ ~Steps[at].stop THEN passed \cup {at} ELSE passed
  /\ Goto("move")
  /\ UNCHANGED <<current, mode, taskFiles, call, hook, run, split, clean, modeBy>>

(* _handle_loop_iteration: neither exit_loop nor a terminate result.       *)
LoopIteration ==
  /\ pc = "move" /\ Steps[at].looping
  /\ iter < MaxIter
  /\ step' = at /\ iter' = iter + 1
  /\ Goto("mode")
  /\ UNCHANGED <<task, mode, logs, taskFiles, call, hook, history>>

(* Mutant: the last step is not recognised.                                *)
NextStepPastLast ==
  /\ pc = "move"
  /\ step' = at + 1 /\ iter' = 0
  /\ Goto("mode")
  /\ UNCHANGED <<task, mode, logs, taskFiles, call, hook, history>>

(* Mutant: the handler returns without setting the next step's mode.       *)
NextStepKeepsMode ==
  /\ pc = "move" /\ at < N
  /\ step' = at + 1 /\ iter' = 0
  /\ Return
  /\ UNCHANGED <<task, mode, logs, taskFiles, hook, history>>

NextStep ==
  /\ pc = "move" /\ at < N
  /\ step' = at + 1 /\ iter' = 0
  /\ Goto("mode")
  /\ UNCHANGED <<task, mode, logs, taskFiles, call, hook, history>>

(* _set_daic_for_step, the last write of every handler that moves.         *)
SetDaicForStep ==
  /\ pc = "mode"
  /\ SetMode(ModeOf(step), "step")
  /\ Return
  /\ UNCHANGED <<current, logs, taskFiles, hook, records, gates>>

(* _complete_protocol after the last step.                                 *)
CompleteLog ==
  /\ pc = "move" /\ at = N
  /\ Record(IF task # NoTask THEN task ELSE before, Event)
  /\ Goto("clear")
  /\ UNCHANGED <<current, mode, taskFiles, call, hook, run, split, gates, modeBy>>

ClearProtocol ==
  /\ pc = "clear"
  /\ step' = 0 /\ iter' = 0
  /\ Goto("discussion")
  /\ UNCHANGED <<task, mode, logs, taskFiles, call, hook, history>>

EndInDiscussion ==
  /\ pc = "discussion"
  /\ SetMode("discussion", "step")
  /\ Return
  /\ UNCHANGED <<current, logs, taskFiles, hook, records, gates>>

(* advance with restart = true: _handle_loop_restart.                      *)
Restart ==
  /\ pc = "ready" /\ step \in 1..N /\ Steps[step].looping
  /\ iter' = 0
  /\ Goto("restart_log")
  /\ UNCHANGED <<task, step, mode, logs, taskFiles, call, hook, history>>

RestartLog ==
  /\ pc = "restart_log"
  /\ Record(task, Event)
  /\ Goto("mode")
  /\ UNCHANGED <<current, mode, taskFiles, call, hook, run, split, gates, modeBy>>

-------------------------------------------------------------------------------
(* goto_step, abort_protocol, save_note and the mode tools                 *)

(* Mutant: goto also moves forward.                                        *)
GotoAnyStep(s) ==
  /\ pc = "ready" /\ step \in 1..N
  /\ s \in 1..N
  /\ at' = s
  /\ Record(task, Event)
  /\ Goto("goto_state")
  /\ UNCHANGED <<current, mode, taskFiles, k, arg, before, hook, run, split, gates, modeBy>>

GotoStep(s) ==
  /\ pc = "ready" /\ step \in 1..N
  /\ s \in 1..N /\ s < step
  /\ at' = s
  /\ Record(task, Event)
  /\ Goto("goto_state")
  /\ UNCHANGED <<current, mode, taskFiles, k, arg, before, hook, run, split, gates, modeBy>>

GotoState ==
  /\ pc = "goto_state"
  /\ step' = at /\ iter' = 0
  /\ passed' = passed \cap 1..(at - 1)
  /\ Goto("mode")
  /\ UNCHANGED <<task, mode, logs, taskFiles, call, hook, records, clean, modeBy>>

Abort ==
  /\ pc = "ready" /\ step # 0
  /\ Record(task, Event)
  /\ Goto("abort_clear")
  /\ UNCHANGED <<current, mode, taskFiles, call, hook, run, split, gates, modeBy>>

AbortClear ==
  /\ pc = "abort_clear"
  /\ step' = 0 /\ iter' = 0
  /\ Goto("abort_task")
  /\ UNCHANGED <<task, mode, logs, taskFiles, call, hook, history>>

AbortTask ==
  /\ pc = "abort_task"
  /\ task' = NoTask
  /\ Goto("discussion")
  /\ UNCHANGED <<step, iter, mode, logs, taskFiles, call, hook, history>>

SaveNote(n) ==
  /\ pc = "ready" /\ step # 0
  /\ Entry("note", n) \notin saved
  /\ Record(task, Entry("note", n))
  /\ UNCHANGED <<current, mode, taskFiles, pc, call, hook, run, split, gates, modeBy>>

(* daic_mode_switch_*: any mode, whatever the protocol says.               *)
SwitchMode(m) ==
  /\ "tool" \in Events
  /\ pc = "ready"
  /\ SetMode(m, "tool")
  /\ UNCHANGED <<current, logs, taskFiles, pc, call, hook, records, gates>>

-------------------------------------------------------------------------------
(* The other processes                                                     *)

(* session-start.py reads the protocol's step, ...                         *)
SessionRead ==
  /\ "session" \in Events
  /\ hook = "none"
  /\ hook' = ModeOf(step)
  /\ UNCHANGED <<current, mode, logs, taskFiles, pc, call, history>>

(* ... and then restores its mode, or discussion when none is active.      *)
SessionWrite ==
  /\ hook # "none"
  /\ SetMode(hook, IF hook = ModeOf(step) /\ pc # "start_state" THEN "step" ELSE "stale")
  /\ hook' = "none"
  /\ UNCHANGED <<current, logs, taskFiles, pc, call, records, gates>>

(* STOP or SILENCE in a prompt: user-messages.py.  It knows nothing of a   *)
(* handler it may interrupt.                                               *)
EmergencyStop ==
  /\ "stop" \in Events
  /\ SetMode("discussion", IF pc = "ready" THEN "stop" ELSE "interrupt")
  /\ UNCHANGED <<current, logs, taskFiles, pc, call, hook, records, gates>>

(* The server's process ends in the middle of a handler.                   *)
Crash ==
  /\ "crash" \in Events
  /\ pc # "ready"
  /\ Return
  /\ modeBy' = "crash"
  /\ split' = (split \/ pc \in {"copy_log", "drop_pending"})
  /\ UNCHANGED <<current, mode, logs, taskFiles, hook, run, saved, gates>>

PostFunc ==
  \/ FuncFails \/ CheckPasses \/ CreateTaskFile \/ SetTaskState
  \/ CopyPendingLog \/ DropPendingLog \/ ArchiveTask \/ ClearTaskState
  \/ BatchCheckpoint

Handler ==
  \/ StartState \/ StartLog \/ Detect \/ ResumeNote \/ PostFunc \/ LogStep
  \/ LoopIteration \/ NextStep \/ SetDaicForStep \/ CompleteLog \/ ClearProtocol
  \/ EndInDiscussion \/ RestartLog \/ GotoState \/ AbortClear \/ AbortTask

Call ==
  \/ \E t \in Tasks \cup {NoTask} : Start(t) \/ Advance(t)
  \/ \E s \in 1..N : GotoStep(s)
  \/ \E n \in 1..MaxNotes : SaveNote(n)
  \/ \E m \in Modes : SwitchMode(m)
  \/ Resume \/ Restart \/ Abort

Next == Call \/ Handler \/ SessionRead \/ SessionWrite \/ EmergencyStop \/ Crash

Spec == Init /\ [][Next]_vars

-------------------------------------------------------------------------------
Labels == {"ready", "start_state", "start_log", "detect", "resume_note", "post",
           "copy_log", "drop_pending", "move", "mode", "clear", "discussion",
           "restart_log", "goto_state", "abort_clear", "abort_task"}

TypeOK ==
  /\ task \in Tasks \cup {NoTask}
  /\ step \in 0..N
  /\ iter \in 0..MaxIter
  /\ mode \in Modes
  /\ logs \in [LogNames -> (SUBSET Entries) \cup {NoLog}]
  /\ taskFiles \subseteq Tasks
  /\ pc \in Labels
  /\ at \in 0..N
  /\ k \in Nat
  /\ arg \in Tasks \cup {NoTask}
  /\ before \in Tasks \cup {NoTask}
  /\ hook \in Modes \cup {"none"}
  /\ run \in 0..MaxRuns
  /\ saved \subseteq Entries
  /\ split \in BOOLEAN
  /\ passed \subseteq 1..N
  /\ clean \in BOOLEAN
  /\ modeBy \in {"step", "stop", "interrupt", "pause", "tool", "stale", "crash"}

(* Between calls, the DAIC mode the engine or a session start has set is   *)
(* the mode of the step the protocol is at, and discussion when none is    *)
(* active.  Only a STOP, a batch checkpoint, a mode tool, a crash in the   *)
(* middle of a handler or a hook that restored an old step can leave       *)
(* another one.  Every handler must set the mode on all of its paths,      *)
(* refused and failed chains included.                                     *)
ModeFollowsStep == pc = "ready" /\ modeBy = "step" => mode = ModeOf(step)

(* A STOP that falls into a handler holds until a session start restores   *)
(* the step's mode, or a mode tool is used: "so the stop lasts until       *)
(* session restart" (user-messages.py).                                    *)
StopLasts ==
  [][modeBy = "interrupt" /\ mode' # mode => SessionWrite \/ \E m \in Modes : SwitchMode(m)]_vars

(* The protocol stands at a step only if the post functions of every       *)
(* earlier step have passed since the protocol last went back behind it:   *)
(* no goto, loop, restart, failed chain or crash lets a run skip a gate.   *)
EarlierStepsPassed == \A s \in 1..(step - 1) : s \in passed

(* Every note, step, goto and resume entry recorded in the active run is   *)
(* in the log that protocol_log and the gates read for the current task,   *)
(* unless the task had a log before the run, was renamed within the run or *)
(* cleared by a chain that failed afterwards, or the server died while the *)
(* log was renamed.                                                        *)
Complete(name) == saved \subseteq Content(name)
RunRecordKept == pc = "ready" /\ step # 0 /\ ~split => Complete(LogOf(task))
===============================================================================

------------------------------- MODULE OptimizeLoop -------------------------------
(***************************************************************************)
(* The optimize protocols: the baseline, the loop of experiments with its  *)
(* chain of post functions (log_experiment_result, update_best_commit,     *)
(* check_termination, batch_checkpoint), restart, goto, and the squash     *)
(* that ships the best commit.  optimize_completion.py and the looping     *)
(* branches of protocol_engine.py.                                         *)
(*                                                                         *)
(* The best so far lives in the front matter of the task file, which is    *)
(* itself a file of the repository: a commit may or may not hold it, and   *)
(* git reset --hard puts it back to what the commit holds.  results.tsv is *)
(* never committed.  A commit is known by its tree.                        *)
(*                                                                         *)
(* The arguments of an advance reach the post functions as they are, so    *)
(* the agent's metric_value, commit_sha, iteration_override and status     *)
(* count, although only a hypothesis is asked for.                         *)
(***************************************************************************)
EXTENDS Integers, FiniteSets, Sequences, SequencesExt

CONSTANTS
  Metrics,         \* values of the metric
  Maximise,        \* metric_direction
  MaxIterations,   \* None: no limit
  MaxDuration,     \* there is a limit of time
  RegressionHalt,  \* regression_halt_n, or None
  Target,          \* target_metric, or None
  BatchSize,
  Interactive,     \* optimize (with batch_checkpoint) or optimize-unattended
  Inputs,          \* arguments the agent passes to an advance
  NaN, Text, None, Absent,
  MaxCommits, MaxRows, MaxApprovals, MaxFaults  \* bounds: commits, rows of iterations, approvals, faults

(* _validate_optimize_setup_args: the limits are integers of any sign.     *)
ValidSetup ==
  /\ Metrics \subseteq Int /\ {NaN, Text, None} \cap Int = {} /\ NaN \notin {Text, None} /\ Text # None
  /\ {Maximise, MaxDuration, Interactive} \subseteq BOOLEAN
  /\ {MaxIterations, RegressionHalt} \subseteq Int \cup {None}
  /\ Target \in Metrics \cup {None} /\ BatchSize \in Int \ {0}

Commits == 0..MaxCommits

(* The arguments of an advance that the chain of post functions reads:     *)
(* whether there is a hypothesis, and iteration_override, status,          *)
(* metric_value and commit_sha (of a commit there is).                     *)
Args ==
  [hypothesis : BOOLEAN, iteration : {"counted", "negative", "text"}, status : {"ok", "summary", "other"},
   value : Metrics \cup {NaN, Text, None}, commit : Commits \cup {None}]

(* What the protocol asks for: "Pass only hypothesis".                     *)
HypothesisOnly ==
  [hypothesis |-> TRUE, iteration |-> "counted", status |-> "ok", value |-> None, commit |-> None]

ASSUME OptimizeAssumption ==
  /\ ValidSetup
  /\ {MaxCommits, MaxRows, MaxApprovals, MaxFaults} \subseteq Nat
  /\ Inputs \subseteq Args

VARIABLES
  step,       \* step of the protocol
  iteration,  \* loop_iteration
  timed,      \* experimentation_started_at is recorded
  late,       \* max_duration has passed since
  rows,       \* results.tsv
  front,      \* optimize.best_commit, .best_metric and .baseline_commit in the task file
  made,       \* commits made so far: 1 .. made
  saved,      \* the task file each commit holds
  head, tree, \* tree of HEAD; tree in the working directory
  squashed,   \* HEAD is the squash commit
  dirty,      \* the code has uncommitted changes
  pc,         \* position of the handler
  call,       \* what it asks for: "plain", "approve" or "exit"
  args,       \* its other arguments
  sha, value, \* the commit of the new row; the value of the new row or of the new best one
  ends,       \* check_termination answered terminate
  plan,       \* the front matter _completion_optimize read, kept until the next change of plan
  approvals,  \* history: "approve" calls
  faults,     \* history: commands and writes that failed, crashes, changes in the middle of a call,
              \* and calls with other arguments than a hypothesis
  lost        \* history: rows and front matter may have come apart

loopVars == <<step, iteration, timed, late>>
record == <<rows, front>>
gitVars == <<made, saved, head, tree, squashed, dirty>>
callVars == <<pc, call, args, sha, value, ends, plan>>
faultVars == <<faults, lost>>
history == <<approvals, faultVars>>
vars == <<loopVars, record, gitVars, callVars, history>>

Steps == {"baseline", "experimentation", "synthesis", "done"}
Calls == {"plain", "approve", "exit"}
Fronts == [commit : Commits \cup {None}, metric : Metrics \cup {None}, base : Commits \cup {None}]
Blank == [commit |-> None, metric |-> None, base |-> None]

(* A file without the fields is not a missing file.                        *)
ASSUME AbsentAssumption == Absent \notin Fronts

RowsOf(status, values) ==
  [commit : Commits \cup {None}, on : Commits \cup {None}, value : values, status : status,
   iteration : {"counted", "negative", "text"}, hypothesis : BOOLEAN]
Rows == RowsOf({"ok", "other"}, Metrics) \cup RowsOf({"crash"}, {NaN}) \cup RowsOf({"summary"}, {None})

Better(a, b) == IF Maximise THEN a > b ELSE a < b
IsOk(row) == row.status = "ok" /\ row.iteration = "counted"

(* The positions of the good rows.                                         *)
OkRows == {i \in DOMAIN rows : IsOk(rows[i])}

(* _read_results_tsv_rows: a row whose iteration is no number is skipped,  *)
(* and strip() takes the empty last column off the last line, so that it   *)
(* is one column short and skipped as well.                                *)
Shown ==
  {i \in DOMAIN rows : rows[i].iteration # "text" /\ (i = Len(rows) => rows[i].hypothesis)}
ShownOk == OkRows \cap Shown

LastOk == CHOOSE i \in ShownOk : \A j \in ShownOk : j <= i
BestValue ==
  CHOOSE v \in {rows[i].value : i \in ShownOk} : \A i \in ShownOk : ~Better(rows[i].value, v)

(* parse_task_frontmatter: a missing file says nothing.                    *)
Read == IF front = Absent THEN Blank ELSE front
BestIn(file) == [commit |-> file.commit, metric |-> file.metric]

(* git reset --hard c, for the task file.                                  *)
Restored(c) ==
  IF saved[c] # Absent THEN saved[c] ELSE IF saved[head] # Absent THEN Absent ELSE front

Init ==
  /\ step = "baseline" /\ iteration = 0 /\ timed = FALSE /\ late = FALSE
  /\ rows = <<>> /\ front = Blank
  /\ made = 0 /\ head = 0 /\ tree = 0 /\ squashed = FALSE /\ dirty = FALSE
  /\ saved \in [Commits -> {Absent, Blank}]
  /\ \A c \in Commits \ {0} : saved[c] = Absent
  /\ pc = "idle" /\ call = "plain" /\ args = HypothesisOnly /\ sha = None /\ value = None /\ ends = FALSE /\ plan = Blank
  /\ approvals = 0 /\ faults = 0 /\ lost = FALSE

Goes(place) == pc' = place /\ UNCHANGED <<call, args, sha, value, ends, plan>>
Returns ==
  /\ pc' = "idle" /\ call' = "plain" /\ args' = HypothesisOnly
  /\ sha' = None /\ value' = None /\ ends' = FALSE /\ plan' = plan

-------------------------------------------------------------------------------
(* Something goes wrong; whether the rows and the front matter come apart. *)
Fault(apart) == faults < MaxFaults /\ faults' = faults + 1 /\ lost' = (lost \/ apart)

(* The agent, its subagents, the metric script and the user.  Between the  *)
(* lookup of the commit and the update of the best one they undo the tie   *)
(* between the two; at other points of a handler they might as well come   *)
(* before or after it.                                                     *)
Meddling == {"measure", "best"}
Meddled == IF pc \in Meddling THEN Fault(TRUE) ELSE UNCHANGED faultVars

Edit ==
  /\ ~dirty /\ step # "done" /\ pc \in Meddling \cup {"idle"}
  /\ dirty' = TRUE /\ Meddled
  /\ UNCHANGED <<loopVars, record, made, saved, head, tree, squashed, callVars, approvals>>

(* With or without the task file.                                          *)
Commit ==
  /\ dirty \/ tree # head
  /\ made < MaxCommits /\ step # "done" /\ pc \in Meddling \cup {"idle"}
  /\ made' = made + 1 /\ head' = made + 1 /\ tree' = made + 1
  /\ saved' \in {[saved EXCEPT ![made + 1] = file] : file \in {front, saved[head]}}
  /\ squashed' = FALSE /\ dirty' = FALSE /\ Meddled
  /\ UNCHANGED <<loopVars, record, callVars, approvals>>

(* git reset --hard to an earlier commit.                                  *)
Rewind ==
  /\ step # "done" /\ pc = "idle"
  /\ \E c \in 0..made :
       /\ head' = c /\ tree' = c /\ front' = Restored(c)
       /\ lost' = (lost \/ BestIn(Read') # BestIn(Read))
  /\ squashed' = FALSE /\ dirty' = FALSE /\ plan' = Blank /\ faults' = faults
  /\ UNCHANGED <<loopVars, rows, made, saved, pc, call, args, sha, value, ends, approvals>>

(* max_duration counts from the first turn of the loop.  Only              *)
(* check_termination looks at the clock: time passes before the row.       *)
TimePasses ==
  /\ MaxDuration /\ timed /\ ~late /\ pc = "append"
  /\ late' = TRUE
  /\ UNCHANGED <<step, iteration, timed, record, gitVars, callVars, history>>

-------------------------------------------------------------------------------
(* capture_metric_baseline and check_cost_estimate: a run without limits   *)
(* has to be acknowledged.  The commit is looked up after the measurement; *)
(* where that fails none is recorded, and a failing write is not noticed.  *)
Bounded == MaxIterations # None \/ MaxDuration

CaptureBaseline ==
  /\ step = "baseline" /\ pc = "idle"
  /\ \/ front = Absent /\ UNCHANGED <<front, faultVars>>
     \/ front # Absent /\ front' = [front EXCEPT !.base = head] /\ UNCHANGED faultVars
     \/ front # Absent /\ front' \in {front, [front EXCEPT !.base = None]} /\ Fault(FALSE)
  /\ \E acknowledged \in BOOLEAN :
       step' = IF Bounded \/ acknowledged THEN "experimentation" ELSE step
  /\ UNCHANGED <<iteration, timed, late, rows, gitVars, callVars, approvals>>

Advance ==
  /\ step = "experimentation" /\ pc = "idle"
  /\ pc' = "log" /\ call' \in Calls
  /\ \/ args' = HypothesisOnly /\ UNCHANGED faultVars
     \/ /\ call' = "plain"
        /\ args' \in {a \in Inputs \ {HypothesisOnly} : a.commit \in (0..made) \cup {None}}
        /\ Fault(FALSE)
  /\ call' = "approve" => approvals < MaxApprovals
  /\ approvals' = approvals + (IF call' = "approve" THEN 1 ELSE 0)
  /\ UNCHANGED <<loopVars, record, gitVars, sha, value, ends, plan>>

(* Approving and leaving do nothing but pass: each of the four functions   *)
(* returns at once.                                                        *)
ChainSkips ==
  /\ pc = "log" /\ call # "plain"
  /\ Goes("move")
  /\ UNCHANGED <<loopVars, record, gitVars, history>>

(* log_experiment_result.                                                  *)

(* The files of the working directory that differ from HEAD, and those the *)
(* engine writes itself.                                                   *)
DirtyFiles ==
  (IF dirty \/ tree # head THEN {"code"} ELSE {})
    \cup (IF front # saved[head] THEN {"task file"} ELSE {})
    \cup (IF rows # <<>> THEN {"results.tsv"} ELSE {})
EngineOwned == {"task file", "results.tsv"}

LogRefuses ==
  /\ pc = "log" /\ call = "plain" /\ args.status # "summary"
  /\ DirtyFiles \ EngineOwned # {}
  /\ Returns
  /\ UNCHANGED <<loopVars, record, gitVars, history>>

(* The agent's commit_sha, or else what git answers.                       *)
Given(commit) == IF args.commit # None THEN args.commit ELSE commit

(* The commit is looked up before the measurement; where git status fails  *)
(* the tree is not checked, and where rev-parse fails there is none.       *)
LogCaptures ==
  /\ pc = "log" /\ call = "plain" /\ args.status # "summary"
  /\ \/ DirtyFiles \subseteq EngineOwned /\ sha' = Given(head) /\ UNCHANGED faultVars
     \/ sha' \in {Given(head), Given(None)} /\ Fault(TRUE)
  /\ pc' = "measure"
  /\ UNCHANGED <<loopVars, record, gitVars, call, args, value, ends, plan, approvals>>

(* A summary is not checked and not measured, the agent's as little as     *)
(* that of check_termination.                                              *)
LogSummary ==
  /\ pc = "log" /\ call = "plain" /\ args.status = "summary"
  /\ \/ sha' = Given(head) /\ UNCHANGED faultVars
     \/ sha' = Given(None) /\ Fault(FALSE)
  /\ value' = IF args.value = NaN THEN NaN ELSE None
  /\ pc' = "append"
  /\ UNCHANGED <<loopVars, record, gitVars, call, args, ends, plan, approvals>>

(* run_metric: a run that fails, times out or prints nothing to parse ends *)
(* the chain; what it prints may still be no number.                       *)
MetricFails ==
  /\ pc = "measure"
  /\ Returns
  /\ UNCHANGED <<loopVars, record, gitVars, history>>

RunMetric ==
  /\ pc = "measure"
  /\ value' \in Metrics \cup {NaN}
  /\ pc' = "append"
  /\ UNCHANGED <<loopVars, record, gitVars, call, args, sha, ends, plan, history>>

(* Mutant: NaN is taken for a number.                                      *)
NewRowAlwaysOk ==
  [commit |-> sha, on |-> IF dirty THEN None ELSE tree, value |-> value, status |-> args.status,
   iteration |-> args.iteration, hypothesis |-> args.hypothesis]

NewRow ==
  [commit |-> sha, on |-> IF dirty THEN None ELSE tree, value |-> value,
   status |-> IF value = NaN THEN "crash" ELSE args.status,
   iteration |-> args.iteration, hypothesis |-> args.hypothesis]

(* What the agent must not say for rows and front matter to agree: a value *)
(* or a commit of its own, or no hypothesis.                               *)
Dictates == args.value # None \/ args.commit # None \/ ~args.hypothesis

AppendRow ==
  /\ pc = "append" /\ Cardinality({i \in DOMAIN rows : rows[i].iteration # "negative"}) < MaxRows
  /\ rows' = Append(rows, NewRow)
  /\ pc' = "best" /\ sha' = None /\ value' = None
  /\ lost' = (lost \/ Dictates) /\ faults' = faults
  /\ UNCHANGED <<loopVars, front, gitVars, call, args, ends, plan, approvals>>

AppendFails ==
  /\ pc = "append" /\ Fault(FALSE)
  /\ Returns
  /\ UNCHANGED <<loopVars, record, gitVars, approvals>>

-------------------------------------------------------------------------------
(* update_best_commit: the agent's value, or else that of the last good    *)
(* row that is shown; the agent's commit, or else the one HEAD is at now.  *)
NewValue ==
  IF args.value # None THEN args.value ELSE IF ShownOk = {} THEN None ELSE rows[LastOk].value

(* No value, or none that is a number; no commit.                          *)
UpdateFails ==
  /\ pc = "best"
  /\ \/ NewValue \in {None, Text} /\ UNCHANGED faultVars
     \/ NewValue \in Metrics /\ (args.value = None \/ args.commit = None) /\ Fault(TRUE)
  /\ Returns
  /\ UNCHANGED <<loopVars, record, gitVars, approvals>>

Improves == Read.metric # None => Better(NewValue, Read.metric)

UpdateKeeps ==
  /\ pc = "best"
  /\ NewValue = NaN \/ (NewValue \in Metrics /\ ~Improves)
  /\ Goes("check")
  /\ UNCHANGED <<loopVars, record, gitVars, history>>

(* _set_optimize_field: a write that fails, or finds no task file, is not  *)
(* noticed.                                                                *)
Writes(field, x) ==
  \/ front # Absent /\ front' = [front EXCEPT ![field] = x] /\ UNCHANGED faultVars
  \/ front # Absent /\ front' = front /\ Fault(TRUE)
  \/ front = Absent /\ front' = front /\ lost' = TRUE /\ faults' = faults

UpdateBestCommit ==
  /\ pc = "best" /\ NewValue \in Metrics /\ Improves
  /\ Writes("commit", Given(head))
  /\ pc' = "metric" /\ value' = NewValue
  /\ UNCHANGED <<loopVars, rows, gitVars, call, args, sha, ends, plan, approvals>>

UpdateBestMetric ==
  /\ pc = "metric"
  /\ Writes("metric", value)
  /\ pc' = "check" /\ value' = None
  /\ UNCHANGED <<loopVars, rows, gitVars, call, args, sha, ends, plan, approvals>>

-------------------------------------------------------------------------------
(* check_termination: any of its conditions, on the rows shown.            *)
Latest(n, positions) == {i \in positions : Cardinality({j \in positions : j > i}) < n}

(* ok_rows[-n:], which for no positive n is all but the first -n of them.  *)
Recent ==
  IF RegressionHalt > 0 THEN Latest(RegressionHalt, ShownOk)
  ELSE {i \in ShownOk : Cardinality({j \in ShownOk : j < i}) >= -RegressionHalt}

(* Mutant: a row as good as the best counts as worse.                      *)
RegressedOnTie ==
  /\ RegressionHalt # None /\ Cardinality(ShownOk) >= RegressionHalt
  /\ \A i \in Recent : ~Better(rows[i].value, BestValue)

Regressed ==
  /\ RegressionHalt # None /\ Cardinality(ShownOk) >= RegressionHalt
  /\ \A i \in Recent : Better(BestValue, rows[i].value)

CapReached == MaxIterations # None /\ iteration >= MaxIterations

TargetReached ==
  Target # None /\ ~Better(Target, BestValue)

Terminates ==
  \/ CapReached
  \/ MaxDuration /\ late
  \/ ShownOk # {} /\ (Regressed \/ TargetReached)

AfterCheck == IF Interactive THEN "batch" ELSE "move"

CheckPasses ==
  /\ pc = "check" /\ ~Terminates
  /\ Goes(AfterCheck)
  /\ UNCHANGED <<loopVars, record, gitVars, history>>

(* _terminate: a summary row that cannot be written is not noticed.        *)
Summary ==
  [commit |-> head, on |-> None, value |-> None, status |-> "summary",
   iteration |-> "negative", hypothesis |-> TRUE]

CheckTerminates ==
  /\ pc = "check" /\ Terminates
  /\ \/ rows' = Append(rows, Summary) /\ UNCHANGED faultVars
     \/ rows' = rows /\ Fault(FALSE)
  /\ ends' = TRUE /\ pc' = AfterCheck
  /\ UNCHANGED <<loopVars, front, gitVars, call, args, sha, value, plan, approvals>>

(* batch_checkpoint.                                                       *)
SummaryIsLast ==
  \E i \in Shown : rows[i].status = "summary" /\ \A j \in Shown : j <= i

PerBatch == IF BatchSize < 1 THEN 1 ELSE BatchSize

(* Mutant: forgets that iterations count from 0.                           *)
MidBatchShifted == iteration % PerBatch # 0

MidBatch == (iteration + 1) % PerBatch # 0

BatchPasses ==
  /\ pc = "batch" /\ (SummaryIsLast \/ MidBatch)
  /\ Goes("move")
  /\ UNCHANGED <<loopVars, record, gitVars, history>>

BatchAsks ==
  /\ pc = "batch" /\ ~SummaryIsLast /\ ~MidBatch
  /\ Returns
  /\ UNCHANGED <<loopVars, record, gitVars, history>>

(* Mutant: the end of the loop is not heeded.                              *)
LoopIterationAnyway ==
  /\ pc = "move" /\ call # "exit"
  /\ iteration' = iteration + 1 /\ timed' = TRUE
  /\ Returns
  /\ UNCHANGED <<step, late, record, gitVars, history>>

(* advance_step: a turn of the loop, or out of it.                         *)
LoopIteration ==
  /\ pc = "move" /\ call # "exit" /\ ~ends
  /\ iteration' = iteration + 1 /\ timed' = TRUE
  /\ Returns
  /\ UNCHANGED <<step, late, record, gitVars, history>>

Enters(place) == step' = place /\ iteration' = 0 /\ timed' = FALSE /\ late' = FALSE

LeaveLoop ==
  /\ pc = "move" /\ (call = "exit" \/ ends)
  /\ Enters("synthesis")
  /\ Returns
  /\ UNCHANGED <<record, gitVars, history>>

-------------------------------------------------------------------------------
(* _handle_loop_restart: archive the rows, clear both fields, start again  *)
(* from iteration 0.                                                       *)
RestartArchives ==
  /\ step = "experimentation" /\ pc = "idle"
  /\ \/ rows' = <<>> /\ lost' = FALSE /\ faults' = faults
     \/ rows # <<>> /\ rows' = rows /\ Fault(TRUE)
  /\ Goes("clear")
  /\ UNCHANGED <<loopVars, front, gitVars, approvals>>

(* Mutant: the metric of the run before is kept.                           *)
RestartKeepsMetric ==
  /\ pc = "clear-metric"
  /\ Goes("restart")
  /\ UNCHANGED <<loopVars, record, gitVars, history>>

Clears(field) ==
  \/ front' = (IF front = Absent THEN Absent ELSE [front EXCEPT ![field] = None]) /\ UNCHANGED faultVars
  \/ front # Absent /\ front' = front /\ Fault(TRUE)

RestartClearsCommit ==
  /\ pc = "clear"
  /\ Clears("commit")
  /\ Goes("clear-metric")
  /\ UNCHANGED <<loopVars, rows, gitVars, approvals>>

RestartClearsMetric ==
  /\ pc = "clear-metric"
  /\ Clears("metric")
  /\ Goes("restart")
  /\ UNCHANGED <<loopVars, rows, gitVars, approvals>>

RestartBegins ==
  /\ pc = "restart"
  /\ iteration' = 0 /\ timed' = TRUE /\ late' = FALSE
  /\ Returns
  /\ UNCHANGED <<step, record, gitVars, history>>

(* goto_step, backwards.  From before the baseline the metric may come     *)
(* back as another one, which the rows on file know nothing of.            *)
Goto ==
  /\ pc = "idle"
  /\ \/ step = "synthesis" /\ Enters("experimentation") /\ lost' = lost
     \/ step \in {"experimentation", "synthesis"} /\ Enters("baseline") /\ lost' = (lost \/ rows # <<>>)
  /\ plan' = Blank
  /\ UNCHANGED <<record, gitVars, pc, call, args, sha, value, ends, approvals, faults>>

-------------------------------------------------------------------------------
(* _completion_optimize on the task's branch: _squash_to_best, then the    *)
(* chain of CompletionChain, which may fail.  sha is the original HEAD.    *)
Complete ==
  /\ step = "synthesis" /\ pc = "idle"
  /\ Read.base # None /\ Read.commit \notin {None, Read.base}
  /\ pc' = "hard" /\ plan' = Read /\ sha' = head
  /\ UNCHANGED <<loopVars, record, gitVars, call, args, value, ends, history>>

(* Mutant: the branch is squashed as it is.                                *)
ResetNothing ==
  /\ pc = "hard"
  /\ Goes("soft")
  /\ UNCHANGED <<loopVars, record, gitVars, history>>

ResetHard ==
  /\ pc = "hard"
  /\ head' = plan.commit /\ tree' = plan.commit /\ front' = Restored(plan.commit)
  /\ dirty' = FALSE
  /\ Goes("soft")
  /\ UNCHANGED <<loopVars, rows, made, saved, squashed, history>>

ResetSoft ==
  /\ pc = "soft"
  /\ head' = plan.base
  /\ Goes("commit")
  /\ UNCHANGED <<loopVars, record, made, saved, tree, squashed, dirty, history>>

SquashCommit ==
  /\ pc = "commit"
  /\ head' = tree /\ squashed' = TRUE
  /\ Goes("hand-off")
  /\ UNCHANGED <<loopVars, record, made, saved, tree, dirty, history>>

(* One of the three fails (a hook may refuse the commit): back to the      *)
(* original HEAD, if git can.                                              *)
Rollback ==
  /\ pc \in {"hard", "soft", "commit"}
  /\ \/ head' = sha /\ tree' = sha /\ front' = Restored(sha) /\ dirty' = FALSE
     \/ UNCHANGED <<head, tree, front, dirty>>
  /\ Fault(BestIn(Read') # BestIn(plan))
  /\ Returns
  /\ UNCHANGED <<loopVars, rows, made, saved, squashed, approvals>>

HandOff ==
  /\ pc = "hand-off"
  /\ step' = "done"
  /\ Returns
  /\ UNCHANGED <<iteration, timed, late, record, gitVars, history>>

HandOffFails ==
  /\ pc = "hand-off"
  /\ Fault(BestIn(Read) # BestIn(plan))
  /\ Returns
  /\ UNCHANGED <<loopVars, record, gitVars, approvals>>

(* The server dies in a handler.                                           *)
Squashing == pc \in {"hard", "soft", "commit", "hand-off"}

Crash ==
  /\ pc # "idle"
  /\ Fault(pc \in {"best", "metric", "clear", "clear-metric"} \/ (Squashing /\ BestIn(Read) # BestIn(plan)))
  /\ pc' = "idle" /\ call' = "plain" /\ args' = HypothesisOnly
  /\ sha' = None /\ value' = None /\ ends' = FALSE /\ plan' = Blank
  /\ UNCHANGED <<loopVars, record, gitVars, approvals>>

Environment == Edit \/ Commit \/ Rewind \/ TimePasses
Log == ChainSkips \/ LogRefuses \/ LogCaptures \/ LogSummary \/ MetricFails \/ RunMetric \/ AppendRow \/ AppendFails
Update == UpdateFails \/ UpdateKeeps \/ UpdateBestCommit \/ UpdateBestMetric
Check == CheckPasses \/ CheckTerminates \/ BatchPasses \/ BatchAsks
Move == LoopIteration \/ LeaveLoop
Restart == RestartArchives \/ RestartClearsCommit \/ RestartClearsMetric \/ RestartBegins
Ship == Complete \/ ResetHard \/ ResetSoft \/ SquashCommit \/ Rollback \/ HandOff \/ HandOffFails

Next ==
  Environment \/ CaptureBaseline \/ Advance \/ Log \/ Update \/ Check \/ Move \/ Restart \/ Goto \/ Ship \/ Crash

Spec == Init /\ [][Next]_vars

-------------------------------------------------------------------------------
TypeOK ==
  /\ step \in Steps /\ iteration \in Nat /\ {timed, late} \subseteq BOOLEAN
  /\ rows \in Seq(Rows) /\ front \in Fronts \cup {Absent}
  /\ made \in Commits /\ saved \in [Commits -> Fronts \cup {Absent}]
  /\ {head, tree} \subseteq Commits /\ {squashed, dirty} \subseteq BOOLEAN
  /\ pc \in {"idle", "log", "measure", "append", "best", "metric", "check", "batch", "move",
             "clear", "clear-metric", "restart", "hard", "soft", "commit", "hand-off"}
  /\ call \in Calls /\ args \in Args /\ sha \in Commits \cup {None} /\ value \in Metrics \cup {NaN, None}
  /\ ends \in BOOLEAN /\ plan \in Fronts /\ approvals \in Nat /\ faults \in Nat /\ lost \in BOOLEAN

(* A row that was measured on the commit it names, with a value no other   *)
(* good row beats.                                                         *)
IsBestRow(row) ==
  /\ IsOk(row) /\ row.on = row.commit
  /\ \A other \in Range(rows) : IsOk(other) => ~Better(other.value, row.value)

(* Between the calls the front matter names the commit and the value of a  *)
(* best row of the run: "The engine is the single source of truth for the  *)
(* leaderboard".  Exceptions (lost): an advance brings a metric_value or a *)
(* commit_sha, which are trusted, or no hypothesis, and its row is missed; *)
(* the tree is changed or committed in the middle of a call, git or a      *)
(* write fails, the server dies between the row and the front matter, or a *)
(* reset takes the front matter back.                                      *)
BestIsBest ==
  ~lost /\ step # "done" /\ pc \in {"idle", "log", "measure", "append", "check", "batch", "move"} =>
    IF \E row \in Range(rows) : IsOk(row)
      THEN \E row \in Range(rows) :
             IsBestRow(row) /\ BestIn(Read) = [commit |-> row.commit, metric |-> row.value]
      ELSE BestIn(Read) = BestIn(Blank)

(* What is shipped is the tree of a best row, squashed, however often the  *)
(* completion was tried, with the same exceptions.                         *)
ShipsTheBest ==
  step = "done" /\ ~lost =>
    /\ squashed /\ head = tree
    /\ \E row \in Range(rows) : IsBestRow(row) /\ row.commit = head

(* The experiment under way; iterations count from 0.                      *)
Experiment == iteration + 1

(* The loop makes one experiment more than max_iterations and no more: the *)
(* cap is compared before the turn is counted.  Whatever fails, crashes    *)
(* and is tried again, only an approval, which skips the comparison along  *)
(* with the rest of the chain, turns the loop beyond that.                 *)
IterationsAreCapped ==
  [][iteration' = iteration + 1 /\ call # "approve" =>
       MaxIterations = None \/ Experiment' <= MaxIterations + 1]_vars

(* The interactive loop does not turn at the end of a batch without an     *)
(* approval, not even when the advance is tried again.  Exceptions: the    *)
(* agent passes status "summary" itself, or its row is not shown, for want *)
(* of a hypothesis or of a number in iteration_override, and an earlier    *)
(* summary is taken for the last row.                                      *)
RowIsMissed == ~args.hypothesis \/ args.iteration = "text"

BatchesAreApproved ==
  [][Interactive /\ iteration' = iteration + 1 /\ iteration' % PerBatch = 0 =>
       call = "approve" \/ args.status = "summary" \/ RowIsMissed]_vars

(* The loop is left by request, after one experiment more than             *)
(* max_iterations, when the time is up, when a good row meets the target,  *)
(* or when the last RegressionHalt good rows are all worse than an earlier *)
(* one.  Exceptions: a negative regression_halt_n, which ends any run, and *)
(* a row without a hypothesis, which is not looked at.                     *)
Meets(row) == IsOk(row) /\ Target # None /\ (row.value = Target \/ Better(row.value, Target))

Halts ==
  /\ RegressionHalt # None /\ Cardinality(OkRows) > RegressionHalt
  /\ \E i \in OkRows \ Latest(RegressionHalt, OkRows) :
       \A j \in Latest(RegressionHalt, OkRows) : Better(rows[i].value, rows[j].value)

EndsAtOnce == RegressionHalt # None /\ RegressionHalt < 0

LeavesForAReason ==
  [][step = "experimentation" /\ step' = "synthesis" =>
       \/ call = "exit" \/ late
       \/ MaxIterations # None /\ Experiment > MaxIterations
       \/ \E row \in Range(rows) : Meets(row)
       \/ Halts \/ EndsAtOnce \/ ~args.hypothesis]_vars

(* "On any step failure we capture the original HEAD and reset --hard back *)
(* to it so the user is not left in a half-rewound state."                 *)
(* (optimize_completion.py).                                               *)
FailedSquashKeepsBest ==
  step = "synthesis" /\ pc = "idle" /\ plan # Blank => BestIn(Read) = BestIn(plan)
===============================================================================

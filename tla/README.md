# TLA+ models of the team-management plugin

The plugin keeps an agent on a workflow.  A protocol (a JSON list of steps) says
which step the work is at; each step has a *DAIC mode* (discussion,
implementation, documentation) that decides which tools may write; leaving a step
runs its *post functions*: gates that must pass and operations on git, the task
file and the issue tracker.  Everything lives in small files under
`.claude/state/`, written by short-lived hook processes and by a long-lived MCP
server, none of which trusts the others to be alive.  That is what these modules
are about: which writes can meet, what a crash or a failure leaves behind, and
what a retry makes of it.

## The system

| Component (source under `src/plugin/`) | State | Operations | Hard behaviour | What makes it correct |
|---|---|---|---|---|
| State files and their lock (`hooks/shared_state.py`) | `current_task.json`, `daic-mode.json`, `subagent-depth.json`, throttle counters, the lock file | `set_task_state`, `set_protocol_state`, `clear_protocol_state`, `increment_counter_file`, `set_daic_mode`, depth mutators | concurrent processes, failing lock, read or write, death in the middle | no lost update; counters exact while undisturbed; the lock is given back |
| Protocol engine (`hooks/protocol_engine.py`, `mcp/tools/protocol.py`) | step and loop iteration (in `current_task.json`), the mode, `protocol-logs/*.json`, task files | start, advance, goto, restart, resume, abort, save_note | one handler is many writes to separate files; hooks and crashes fall between | no step is skipped; the mode follows the step; the log of a run is kept |
| Session, prompt and mode tools (`hooks/session-start.py`, `hooks/user-messages.py`, `mcp/tools/daic.py`) | the mode | restore, STOP, mode switches | read of the step and write of the mode are apart | a restore is current; STOP lasts (it does not: run `protocol_stop`) |
| Completion flows (`hooks/optimize_completion.py`, git functions of the engine) | branches, working tree, origin, pull request, task state | provider chain, `merge_local`, `push_pr`, `keep`, `discard` | nine operations, each may fail before or after its effect; retries with another option | work is never lost; a completed flow has done all it says; a retry is possible |
| Review gates (engine) | notes bound to a tree hash, gotos | `verify_review_round`, `require_spec_review_passed`, `require_deferred_criteria_done` | edits after the review, notes of other steps and rounds | what leaves the review is what was reviewed |
| Optimize loop (`hooks/optimize_completion.py`) | `results.tsv`, best commit, iteration | log result, update best, termination, batch checkpoint, restart | chains that fail after the row is logged; goto and restart | one row per experiment; the best is the best; the loop ends when it should |
| Subagent depth (`hooks/task-transcript-link.py`, `hooks/post-tool-use.py`) | the depth counter, the bypass flag | increment, decrement, reset | parallel, denied and crashed subagents, several sessions | the main agent is enforced, subagents are not |
| DAIC enforcement (`hooks/sessions-enforce.py`, `workflow_command.py`, `config_intent_gate.py`) | reads the above | one decision per tool call | order of the checks; degraded reads | fails closed; one run per confirmation |
| PostToolUse and PreCompact (`hooks/post-tool-use.py`, `pre-compact.py`) | throttle counters | reminders, work log, tracker sync | runs after every tool call, in parallel | shows a new step's end condition at once |
| Issue trackers (`hooks/issue_provider_base.py`, `gitlab/`, `github/`, `jira_utils.py`, `mcp/tools/issue_tracking.py`) | mapping files | create, ensure, link, import, unlink, push, sync, merge requests | hook and server update the same file; retries | no call loses another's link, or brings one back |
| Git setup and the borrowed working tree (`_func_git_setup_branch` of the engine, `mcp/tools/code_review.py`, `hooks/code_review_utils.py`) | HEAD, the tree, the stash list | stash, fetch, checkout, pull and the way back; checkout or creation of a task's branch | any command may fail or be killed after its effect; the stash list and the tree are shared | what is answered without an error is restored; a new branch starts where it was asked to |
| Branch inference, git tools (`infer_task_from_branch`, `mcp/tools/git_operations.py`) | none | reads, thin wrappers | | not the subject of these models |
| Protocol customisation and drift | forks, provenance | customize, check_drift | stale forks | drift is reported |
| MCP server, configuration, code-review and release tools | config file, config-session flag | request handlers | flag expiry | edits only in a session |
| Task-scoped state, retro, AI providers, notifications, update notice, status line, hygiene scan, read-only gate, recovery script | files of their own | text, network, metrics | string processing, I/O | not the subject of these models |

Interactions: the hooks and the server meet only in the state files.  The MCP
server calls the engine, the engine calls the writers of `shared_state.py`, the
post functions call git and `gh`.  `session-start.py` reads the step and writes
the mode; `user-messages.py` writes the mode (STOP) and the log (notes);
`post-tool-use.py` counts calls, reads the step and syncs the tracker's status;
`task-transcript-link.py` counts subagents up and `post-tool-use.py` down;
`sessions-enforce.py` reads all of it, and writes only what waits to be confirmed.
The tracker tools, the engine's `create_issue_if_enabled` and the hook meet in the
mappings file; `code_review` and `git_setup_branch` meet in the working tree.

## Modules

| Module | Models | State and actions against the code |
|---|---|---|
| `TaskRecord` | the content of `current_task.json` | `Apply` is the modify step of the three writers; `task`, `branch` and `services`, always written together, are one field |
| `AtomicTaskState` | what the writers promise | a call takes effect at one instant or not at all |
| `StateFiles` | the locked read-modify-write cycles | per process a `pc` through open, flock, read, temp-file replace, unlink of the counter, release; `AcquireFails`, `WriteFails`, `Crash` are the failures |
| `StateFilesProofs` | | type correctness, exact counter, refinement of `AtomicTaskState` |
| `ProtocolEngine` | the engine with the hooks that share its files | `pc` names the next write of the handler; one action per write; `at`, `arg`, `before` are the handler's locals |
| `MCProtocolEngine` | instances | the shapes of `task.json` and of the looping protocols |
| `ProtocolEngineProofs` | | types, gates, mode and record, for any configuration |
| `CompletionChain` | `completion_dispatch` | `Chain` lists the operations of each flow; one action per operation, each with its failure; the user switches and edits between attempts |
| `CompletionChainProofs` | | types, the user's work survives, flows keep their promise |
| `ReviewGates` | the three gates over notes bound to a hash of the tree | `Agent` is what the agent may do between calls of `advance_protocol`, `Advance` runs the gates of the step one action each, and the code may change between any two; the log keeps the latest note of each kind from an owning and from another step, in order, which is all a gate can see |
| `MCReviewGates` | instances | the shapes of `task.json` and `optimize.json` |
| `ReviewGatesProofs` | | types, only reviewed and audited code leaves, deferrals are confirmed, for any protocol |
| `SubagentDepth` | `subagent-depth.json` | a dispatch goes through staging, increment, work and decrement; a change without the lock is a read and a write; prompts and session starts reset |
| `MCSubagentDepth` | instance | |
| `Enforcement` | `sessions-enforce.py`, together with `SubagentDepth`, which it extends | `Allowed` is the decision, its conjuncts in the order of the checks; every tool call may be made in every state; mode, task, branches and unreadable files change in between; the confirmation of destructive commands is its only write: `Accepts` reads the nonce, `ClearConfirmState` deletes what is on file by then, or fails to |
| `MCEnforcement` | instance | the kinds of task: with a branch, with and without the submodule, without a branch |
| `EnforcementProofs` | | types and exactness of the counter of `SubagentDepth`; types, mode, branch and confirmation |
| `OptimizeLoop` | the optimize protocols | one action per write of the chain: row, best commit, metric, termination, batch, move; the task file's front matter is a file of the repository, so commits hold it and a hard reset reverts it; `args` is what the agent passes besides its request, and `Shown` what `_read_results_tsv_rows` makes of the rows |
| `MCOptimizeLoop` | instance | the arguments of an advance that TLC tries |
| `OptimizeLoopProofs` | | types, the cap and the batches, the best row, what is shipped, why the loop is left |
| `TrackerMappings` | the links of tasks and issues | a call is a plan of steps (requests, checks, file writes); its step `save` is `_locked_mapping_update`, in `load`, `loaded`, `saved`; the three providers differ in their plans |
| `MCTrackerMappings` | instance | |
| `TrackerMappingsProofs` | | links, for any number of processes |
| `WorkingTree` | the tree that `code_review` borrows and `git_setup_branch` moves | one action per git command of each call; each may fail, or take effect and be killed by its timeout |
| `MCWorkingTree` | instance | |
| `WorkingTreeProofs` | | types, nothing left behind in silence, given back as found, set up as asked, for any number of sessions |

`AtomicTaskState` is the abstract specification that `StateFiles` implements, as its
instance `Abs`.  `Enforcement` composes the counter with what the hook reads; the
other compositions are inside the modules: `ProtocolEngine` has the hooks that share its
files, `TrackerMappings` and `WorkingTree` the callers that share theirs.

A definition whose comment begins with *Mutant* is a plausible wrong version of the
definition after it; it is used by no specification.  With it in place of the right one
the property named in `PROJECT.json` fails, which shows what the property is sensitive to.

## Runs

| Run | Asks | Bounds and why they are enough |
|---|---|---|
| `state_files` | atomic updates, exact counter, lock given back | two processes, four calls, one task and two protocol blocks: a lost update needs two writers and a third call to be noticed |
| `protocol` | no gate skipped, mode follows the step, the run's record stays in one log | one loop with a checkpoint, two iterations, one task, two runs (the second over a task that has a log), one note, every event of the hooks; a second task, and so a renamed one, is left to the theorems, which hold for any |
| `completion` | work safe, flows do what they say | one piece of work, one fix, any number of attempts: branches are sets of changes, so the state space is finite without a bound |
| `review` | what leaves the review is what was reviewed and audited; deferrals are confirmed | two trees, so that an edit can be reverted; one criterion; one stray note at a time in the log; unstamped notes of older tasks; a hash may fail to be computed |
| `depth` | the counter says who is at work | two dispatches of one session and one of another, used again and again; the counter up to 3, one dispatch between two resets ending unseen |
| `enforcement` | main agent in mode and on branch, one run per confirmation | one dispatch; two confirmed calls between the read and the deletion of a nonce; two branches, a main repository and a submodule; four recorded tasks; mode, task and git unreadable or not; every class of tool call in every state |
| `optimize` | best commit, cap, approvals, what is shipped | two metrics (better and worse), two iterations, batches of two, one commit after the baseline, two rows of iterations, one approval, one fault or one advance with arguments: each can hit any write of the chain, and its retry is seen to the end; no target, which the theorems cover |
| `trackers` | calls on different tasks do not disturb each other | two processes, two tasks, one issue to link and one to make, one fault (a sync that cannot be had among them), each provider: a lost link needs one call between the read and the write of another |
| `working_tree` | the tree is given back, or the answer says that it is not | one session that reviews, one that sets up branches, two branches, two pieces of work, one stash of another program, two faults (one on the way out, one on the way back) |
| `protocol_stop` | *violated*: a STOP lasts until session restart | as `protocol`, one run, no crash |
| `optimize_squash` | *violated*: a failed squash keeps the best commit | as `optimize`, one iteration, with a target |
| `trackers_duplicate` | *violated*: a re-run of the step makes no second issue | one process, one fault |

Deadlock is not checked where the system may really stop: the bounded number of
calls or runs is used up, or the protocol is completed.

### Disagreements between the code and what it says

Three runs violate a claim of the code's own texts.

`protocol_stop`: the comment and the banner of `user-messages.py` (279-281, 294) say that a STOP lasts
until session restart.  The hook writes the mode and nothing else; a handler of the engine that is under
way sets the mode of its step at its end (`_set_daic_for_step`), and the stop is over.
`optimize_squash`: `_squash_to_best` rolls a failed squash back with `git reset --hard` to
the HEAD it started from.  The task file's front matter, with `optimize.best_commit`, is an uncommitted
change of the same repository: the reset reverts it, and the retry squashes to an older
best commit, or refuses because it finds none.  The docstring promises that the user is not left in a
half-rewound state.
`trackers_duplicate`: GitHub's `create_issue_from_task` makes the issue, links it, and
ignores that the link failed.  The step of the protocol answers success; when it is run again, the
task has no link, and a second issue is made.  GitLab and Jira answer failure instead;
there `SettledIsLinked` holds.

Four more are named by a property that passes: it says what the code keeps, and its comment what it does not.

* `IterationsAreCapped`: the loop makes `max_iterations + 1` experiments.  `loop_iteration` counts from 0
  and `check_termination` compares it before the turn is counted.  `optimize-experimentation-auto.md:50` says
  "total iterations completed reaches the configured cap"; the end-to-end test
  (`test_protocol_optimize_e2e.py:348`) moves `loop_iteration` by hand before it asks, and counts
  `max_iterations` rows.
* `BestIsBest`, the reader: `_read_results_tsv_rows` strips the file before it splits it.  A last row
  without a hypothesis ends in an empty column, loses it, and is skipped for want of a column:
  the best commit, the termination and the batch are decided on the rows before it.
* `BestIsBest`, the arguments: `metric_value` and `commit_sha` of an advance reach `update_best_commit` and
  replace the row's value and HEAD, although "LLM-passed metric values are NOT trusted".
* `EachRunIsConfirmed`: an error of the unlink is swallowed, and the nonce stays good until it expires.
  `USAGE_GUIDE.md:208` says that "a replay after use blocks again"; the comment on the guard
  (`sessions-enforce.py:542`) that a confirmation is replayable within the turn.

### What a property excepts

A property whose claim the code gives up in a situation it knows of names the situation, by a
history variable, and claims the rest.

* `CountsEveryCall` (`disturbed`): a call ran without the lock, failed half-way or died.
* `ModeFollowsStep` (`modeBy`): a mode tool, a crash in the middle of a handler, and a session
  start that read the step before a handler moved it: the lock covers the write of the mode, not
  the read of the step.  What a STOP leaves is not claimed here; `StopLasts` is the claim about it, and it fails.
* `RunRecordKept` (`split`): the task had a log before the run (after an abort a run resumes the task
  it finds from the branch, and `set_task_state` replaces that log by `_pending.json`), was renamed within it, or was
  cleared by a chain that failed afterwards, or the server died while the log was renamed.
* `CompletedAsPromised` (`strayed`): the provider's chain commits on whatever branch is checked
  out, and clears the task before the checkout, the order that `push_pr` was changed away from.
* `LeavesAsReviewed`, `LeavesAsAudited` (`touched`): an edit in the middle of an advance may
  slip behind a gate that has passed.
* `DepthIsExact` (`drift`): an update without the lock met another one, a second session's
  prompt reset the counter, or a decrement was made for a dispatch that no longer counted.
  `MainIsAlone`, the premise of `MainActsInMode` and `MainStaysOnBranch`, excludes these and the
  subagents that ended unseen since the last reset: the main agent then counts as a subagent.
* `EachRunIsConfirmed` (`kept`, `accepting`): the nonce could not be deleted, or a call has read it and not yet
  deleted it.
* `BestIsBest`, `ShipsTheBest` (`lost`): a row and the front matter came apart, by a value or a commit the agent
  passed, a row without a hypothesis, a failure between them, a hand edit, or a hard reset of the task file.
* `BatchesAreApproved`, `LeavesForAReason`: the advance under way says `status="summary"`, or its row is not shown.
  `LeavesForAReason` also excepts a negative `regression_halt_n`, which setup accepts and which ends any run at
  once.  (Its exception for a row without a hypothesis takes three rows to be met; the run has two,
  the theorem any number.)
* `SettledIsLinked`: only an answer that an issue was made or found counts.  Where no task sync can be had
  (`SyncFails`: configuration, token, or a mappings file that cannot be seeded) the step succeeds as
  "skipped" and settles nothing.
* `OthersSurvive` (`raced`): two calls met, of which one went on without the lock, or a hand edit
  met a call.
* `SilentMeansRestored` and `SetUpAsAsked` (`disturbed`): another program changed HEAD or the stash list during the call.

## Fairness

`FairSpec` of `StateFiles` assumes weak fairness of `Proceed(p)`: a process inside a
call is scheduled until it returns or dies.  Acquiring the lock, starting a call and
dying are not fair.  `LockIsReleased` needs no more; the safety properties need no
fairness.  The other modules state none: an agent may stop at any step of a protocol, a user may
never answer, and nothing in the code promises otherwise.

## Proofs

The proofs hold for every value of the constants that the modules' named `ASSUME`s
allow; TLC evaluates those on every run.

* `StateFilesProofs`.  `Typing`.  `CounterIsExact`: the inductive invariant says who
  holds the lock at each label and that, undisturbed, a process between read and
  write has read the current number.  `WritersAreAtomic` assumes `ReadCanFail = FALSE`;
  the refinement maps a call to "not yet effective" until the replace, and the
  invariant says a writer at `write` holds the lock and has read the file as it is.
* `ProtocolEngineProofs`.  `GatesHold`: `EarlierStepsPassed` is not inductive, because a
  handler moves the step it read at its start; `GateInv` says that during a chain `at`
  is still the step, that a chain that goes on has not failed where failures stop it,
  and that at `move` the step has passed.  `ModeIsRight` adds `ModeInv`, which says
  at which labels the mode may differ from the step's.  `TypesHold` needs where a start may
  stand (`StartBound`).  `RecordIsAlwaysKept`: the record is in the log that is read
  because there is one log at a time: while the task has a log of its own there is no
  `_pending.json` (`RecordInv`).
* `CompletionChainProofs`.  `WorkSurvives`: besides the invariant itself the proof needs
  that a forced branch deletion comes after the reset of a discard (`OrderInv`).
  `FlowsKeepTheirPromise`: `PromiseInv` says, per position of the chain, what the operations behind
  it have achieved and where the work is.  `TypesHold`: a chain never runs past its operations.
* `ReviewGatesProofs`.  `OnlyReviewedCodeLeaves` and `OnlyAuditedCodeLeaves` assume `~LateNotes`:
  a note is bound to the tree as it is when the note is saved, not when the review ran, so that with
  a fix in between both are false.  The recorded round has the hash the review saw or none
  (`RoundInv`), the same goes for the audit's sentinel (`SentinelInv`), and a gate behind the
  position of an advance has passed on the tree as it still is, unless it was touched
  (`PassedRound`, `PassedSpec`).  `TypesHold` needs that the log holds one note of each sort (`LogInv`).
  `DeferralsAlwaysConfirmed` assumes `~LateNotes` for the same reason, and `ConfirmsBeforeTheEnd`, without
  which it is false: where a step after the audit runs the deferred gate, the last step but one
  does.  The shipped protocols do so (`MCReviewGates` assumes it of its instances, and TLC evaluates that).
  Its invariant: the carriage and the check behind the sentinel are those of its audit
  (`FollowUps`), as are those the agent has not saved yet (`PendingFollowUps`), and a
  deferral is still at or before an audit's step, or its carriage is in the log (`DeferralIsCarried`).
* `EnforcementProofs`.  `DepthIsAlwaysExact`: a dispatch that is counted has gone past
  its increment and not reached another one (`CountedOnce`).
  `MainAlwaysActsInMode` and `MainAlwaysStaysOnBranch`: with the invariant
  of the counter, a main agent that is alone is not taken for a subagent (`AloneIsMain`);
  the rest is the order of the checks.  `RunsAlwaysConfirmed` needs that a fresh nonce was
  paid for by a block, is about to be deleted, or could not be (`NonceIsOwed`).
* `OptimizeLoopProofs`.  `LoopIsCapped`, `BatchesAlwaysApproved`: an advance reads the last row to
  decide; the invariant says which row that is at each position, and what the
  positions behind have established (`RowIsLast`, `MayTurn`, `BatchIsOpen`), of advances whose row is shown and
  no summary (`Logged`).
  `BestIsAlwaysBest` and `TheBestIsShipped` rest on `BestInv`: which arguments and values each place of the chain may
  have (`Placed`), that a call with a hypothesis has put a row there that is
  shown (`Labelled`), among the good rows there are a last and a best one (`RowsAreOrdered`), the commit under measurement is checked out and its row names it (`Measured`),
  the front matter and the rows agree except between the writes of an iteration (`Recorded`), and a
  squash under way is of a best row (`Prepared`).  The last two are claimed until the two have come apart (`lost`).
  They use `AbsentAssumption`: the mark for a missing front matter is not itself one.
  `AlwaysLeavesForAReason`: once the advance has decided to leave, the reason it found is in the rows
  and the state it read (`EndsForAReason`); that the rows shown lack at most the last one carries it over from
  what the code looks at to what is on file (`RegressionIsHalt`).
* `WorkingTreeProofs`.  One invariant, `TreeInv`, for four theorems.  Of each call it says what its
  position tells (`Placed`), that it has at most one stash and knows of it, unless it is about to report a
  failure (`Stashes`), and, unless another program has interfered, that its stash is the newest of the tool
  until it is picked, and HEAD where the call put it (`Undisturbed`).  A step of anyone else keeps
  this or makes the call a disturbed one (`OtherCallLeaves`, `OthersLeave`): that argument is where sessions
  meet, and it holds for any number of them.  The assumption is that sessions have names of their own,
  which `Earlier` and `Nobody` are not.
* `TrackerMappingsProofs`.  One invariant for five theorems: who holds the lock at each place
  (`LockIsHeld`), that a process between load and save has read the file as it is (`ReadIsCurrent`), that
  a file being seeded has nothing to lose (`SeedIsBlank`), and that a call that saves a link has
  made or was given its issue (`PostComesFirst`).

Only model-checked: `LockIsReleased`, a liveness property, which is out of the prover's reach; and what
the three violations show, which are counterexamples.  Every other property of the runs is a theorem.

## What the models leave out

* An update of a log is one step in `ProtocolEngine`; in the code it is an unlocked
  read-modify-write that the prompt hook may overlap.
* One MCP server in `ProtocolEngine`.  Two sessions on one project run two of them.
* Reads of `current_task.json` that fail.  `get_task_state` turns any failure into the null state, also under the
  lock, and `set_task_state` then writes it back without the protocol; `ReadCanFail` switches it on, and
  then `AtomicUpdates` fails.
* `git` is its effect on sets of changes; merge conflicts are failures of the merge.
* In `ReviewGates` time stamps are the order of saving: clocks do not go back.  The agent saves the
  list of deferred criteria after the sentinel of the same audit.  The gates check
  the order of the two notes, not that both are of one audit.  The criteria in the task file
  lie outside the hash.
* The other checks among the post functions pass or fail nondeterministically.
* In `Enforcement` a decision is one step, and the class of a command (reads, writes, destroys)
  is given: the classifier is string processing.  The gate on config tools is left out.
* In `Enforcement` the order of the exits is what `Allowed` says; that the guards which bind subagents too
  come before the subagents' exit is therefore no property of its own.  The generated nonce is the
  fact that the caller was told it (`warned`).
* In `OptimizeLoop` `optimize-state.json` can be read, `results.tsv` is never committed, and the
  task's branch is checked out.  A `commit_sha` the agent passes is one of the commits there are.  Metrics are integers or not a number; how they are parsed, the
  time limit of the patterns, the cost estimate and the policy audit are left out.
* In `TrackerMappings` a mapping is the issue of a task; its merge request fields, labels, and
  the REST transport are left out, and a request succeeds, fails, or takes effect and fails.
* `WorkingTree` is one repository.  A review that fails on its way out is not undone, although the comment
  on its `finally` (`mcp/tools/code_review.py:544`) reads "Restore git environment if we switched branches"; a `git
  status` that fails counts as a clean tree in `git_setup_branch`; and a setup during a review
  sees the tree the review has cleaned, after which the restore moves HEAD off the new branch.  The
  properties claim what is left: what the answer says.
* The front matter of task files elsewhere, messages, notifications.

Not modelled, because nothing of the run's state depends on them or because they are string processing:
branch inference and the git tools; protocol customisation and drift; the MCP request handlers
and the configuration file; task-scoped directories; retro; AI providers,
notifications, update notice, status line, hygiene scan; the read-only gate and the recovery script.

## Plan

What is left, in this order: overlapping updates of a log (`NoteLog`) and two engines on one
project; an abstract `ProtocolLifecycle` that `ProtocolEngine` refines; the gate on configuration tools
and its session flag; the merge request fields of the mappings.
Proofs: those of the new modules; `OnlyReviewedCodeLeaves` with the late notes themselves as the exception
in place of the assumption `~LateNotes`.

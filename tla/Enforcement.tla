------------------------------- MODULE Enforcement -------------------------------
(***************************************************************************)
(* The PreToolUse hook sessions-enforce.py: whether a tool call may go     *)
(* ahead.  Allowed is its decision, in the order of its checks; the rest   *)
(* is the state it decides on, which subagents, prompts, the engine, git   *)
(* and the user change, and the two-step confirmation of destructive       *)
(* commands, the only state it writes.                                     *)
(*                                                                         *)
(* The hook does not know who calls: all it has is the counter of          *)
(* SubagentDepth.  Edit stands for the four editing tools, Read for Read   *)
(* and Grep.  Of a file, and of a command, only what the checks tell       *)
(* apart is left.  Branch enforcement and the safety guard are on, as in   *)
(* the default configuration.                                              *)
(***************************************************************************)
EXTENDS SubagentDepth

CONSTANTS
  Branches,     \* names of git branches
  Erasing,      \* destructive commands whose effect cannot be taken back
  Removing,     \* those of them that match a write pattern
  Rewriting,    \* forced pushes and hard resets of the current branch
  Unset,        \* no branch is recorded
  Branchless,   \* the task works without a branch: "none", "null"
  TaskStates,   \* what the engine records about a task
  NoCommand,    \* nothing is waiting to be confirmed
  Provider,     \* an issue tracker is configured
  Degrades,     \* state files may be unreadable or not deletable, and git may fail
  MaxHooks      \* bound: confirmed calls decided on at the same time

ASSUME EnforcementAssumption ==
  /\ Removing \subseteq Erasing /\ Erasing \cap Rewriting = {}
  /\ NoCommand \notin Erasing \cup Rewriting
  /\ Unset \notin Branches /\ Branchless \notin Branches /\ Unset # Branchless
  /\ {Provider, Degrades} \subseteq BOOLEAN /\ MaxHooks \in Nat

Destructive == Erasing \cup Rewriting

(* Files: the token bridge; other protected state; frozen_paths and        *)
(* results files; the protocol_engine section of config.json; task files,  *)
(* the wiki, ~/.claude and init's targets; documentation; code in the main *)
(* repository, in a submodule, and outside any repository.                 *)
Code == {"main", "submodule", "outside"}
Files == {"tokens", "state", "frozen", "config", "admin", "docs"} \cup Code

(* What a command does to a file, apart from the destructive ones.  One    *)
(* that "runs" is neither known to read only nor matches a write pattern.  *)
Actions == {"reads", "runs", "writes", "archives"}

DestructiveCalls == [tool : {"Bash"}, on : {"main"}, does : Destructive, confirmed : BOOLEAN]
Calls ==
  [tool : {"Read", "Edit"}, on : Files]
    \cup [tool : {"Bash"}, on : Files, does : Actions]
    \cup DestructiveCalls

(* The recorded branch, the one its task file names (Unset for a real one: *)
(* an edit is then blocked as it is without any), and whether the          *)
(* submodule is among its services.                                        *)
Tasks == [branch : Branches \cup {Unset, Branchless}, front : {Unset, Branchless}, listed : BOOLEAN]
NoTask == [branch |-> Unset, front |-> Unset, listed |-> FALSE]

ASSUME InputAssumption == TaskStates \subseteq Tasks /\ Destructive \cap Actions = {}

VARIABLES
  mode,        \* daic-mode.json
  task,        \* current_task.json
  freezes,     \* an optimize task is at its experimentation step
  head,        \* the branch checked out, in each repository
  shared,      \* the task's branch has a remote-tracking ref
  legacy,      \* a legacy install lives beside the plugin
  unreadable,  \* of "mode", "task" and "git", those that cannot be read at the moment
  confirm,     \* the nonce on file: the command it is for, whether it is still fresh
  accepting,   \* calls whose nonce has been read, and not yet deleted
  kept,        \* history: the nonce on file could not be deleted
  warned       \* history: commands blocked since they last ran

envVars == <<mode, task, freezes, head, shared, legacy, unreadable>>
safetyVars == <<confirm, accepting, kept, warned>>
vars == <<depthVars, envVars, safetyVars>>

NoNonce == [command |-> NoCommand, fresh |-> FALSE]

Repositories == {"main", "submodule"}
Modes == {"discussion", "implementation", "documentation"}

Init ==
  /\ DepthInit
  /\ mode = "discussion" /\ freezes = FALSE
  /\ task = NoTask
  /\ head \in [Repositories -> Branches]
  /\ shared \in BOOLEAN /\ legacy \in BOOLEAN
  /\ unreadable = {}
  /\ confirm = NoNonce
  /\ accepting = 0 /\ kept = FALSE /\ warned = {}

-------------------------------------------------------------------------------
(* Mutant: the mode fails open.                                            *)
CheckDaicModeOpen == IF "mode" \in unreadable THEN "implementation" ELSE mode

(* What the hook reads.  A file it cannot read counts as its default.      *)
CheckDaicMode == IF "mode" \in unreadable THEN "discussion" ELSE mode
TaskState ==
  IF "task" \in unreadable THEN NoTask ELSE task
InSubagentContext == depth > 0
LoadFrozenPaths == IF freezes /\ "task" \notin unreadable THEN {"frozen"} ELSE {}

IsEdit(c) == c.tool = "Edit"
IsBash(c) == c.tool = "Bash"
MatchesWritePattern(c) == IsBash(c) /\ c.does \in {"writes", "archives"} \cup Removing
Writes(c) == IsEdit(c) \/ MatchesWritePattern(c)
IsDestructive(c) == IsBash(c) /\ c.does \in Destructive

(* Checks that bind every caller: protected paths, frozen paths, manual    *)
(* archival and the engine's section of config.json.                       *)
Universal(c) ==
  /\ c.on # "state"
  /\ Writes(c) => c.on \notin LoadFrozenPaths
  /\ Provider /\ IsBash(c) => c.does # "archives"
  /\ IsEdit(c) => c.on # "config"

(* _own_branch_exception.                                                  *)
OwnBranch(c) ==
  /\ c.does \in Rewriting
  /\ TaskState.branch \in Branches
  /\ head["main"] = TaskState.branch
  /\ ~shared /\ "git" \notin unreadable

(* Mutant: a nonce is good for any command.                                *)
ConfirmedAny(c) == c.confirmed /\ confirm.fresh

Confirmed(c) ==
  /\ c.confirmed
  /\ confirm.fresh /\ confirm.command = c.does

CheckSafetyGuard(c) == IsDestructive(c) => Confirmed(c) \/ OwnBranch(c)

(* Read-only calls need no more.                                           *)
ReadOnly(c) == c.tool = "Read" \/ (IsBash(c) /\ c.does = "reads")

(* Beside a legacy install the main agent edits nothing.                   *)
BootDetector(c) == legacy => ~IsEdit(c)

Admin(c) == IsEdit(c) /\ c.on = "admin"

(* Mutant: a task without a branch may be worked on anywhere.              *)
ExpectedBranchOrNone == IF TaskState.branch = Unset THEN Branchless ELSE TaskState.branch

(* The branch an edit must be made on.                                     *)
ExpectedBranch ==
  IF TaskState.branch = Unset THEN TaskState.front ELSE TaskState.branch

(* A file outside any repository is not checked, and a branch that git     *)
(* cannot tell is not compared.                                            *)
BranchAllows(c) ==
  LET repository == IF c.on = "submodule" THEN "submodule" ELSE "main"
  IN  \/ ExpectedBranch = Branchless
      \/ /\ ExpectedBranch \in Branches
         /\ \/ c.on = "outside" \/ "git" \in unreadable
            \/ /\ head[repository] = ExpectedBranch
               /\ c.on = "submodule" => TaskState.listed

(* Documentation mode decides on edits alone, without the branch.  Bash is *)
(* held back in documentation mode only.                                   *)
ModeAllows(c) ==
  CASE CheckDaicMode = "documentation" -> IF IsEdit(c) THEN c.on = "docs" ELSE ~Writes(c)
    [] CheckDaicMode = "discussion" -> ~IsEdit(c)
    [] OTHER -> IsEdit(c) => BranchAllows(c)

(* main: its exits in their order.                                         *)
Allowed(c) ==
  /\ c.on # "tokens"
  /\ \/ bypass
     \/ /\ Universal(c) /\ CheckSafetyGuard(c)
        /\ \/ ReadOnly(c) \/ InSubagentContext
           \/ BootDetector(c) /\ (Admin(c) \/ ModeAllows(c))

-------------------------------------------------------------------------------
(* A destructive command is the one call the hook has to remember; under   *)
(* the bypass it is not checked.                                           *)

(* The confirmation is accepted: the command runs unless a later check     *)
(* blocks it.                                                              *)
Accepts(c) ==
  /\ ~bypass /\ Confirmed(c)
  /\ accepting < MaxHooks /\ accepting' = accepting + 1
  /\ warned' = warned \ {c.does}
  /\ UNCHANGED <<confirm, kept, depthVars, envVars>>

(* Then the nonce on file is deleted, which by now may be another one.  An *)
(* error is swallowed.                                                     *)
ClearConfirmState ==
  /\ accepting > 0 /\ accepting' = accepting - 1
  /\ \/ confirm' = NoNonce /\ kept' = FALSE
     \/ Degrades /\ kept' = TRUE /\ UNCHANGED confirm
  /\ UNCHANGED <<warned, depthVars, envVars>>

(* Blocked: a new nonce takes the place of the one before, and whoever     *)
(* called is told it.  (If it cannot be written, nothing changes.)         *)
IsBlocked(c) ==
  /\ ~bypass /\ ~CheckSafetyGuard(c)
  /\ confirm' = [command |-> c.does, fresh |-> TRUE] /\ kept' = FALSE
  /\ warned' = warned \cup {c.does}
  /\ UNCHANGED <<accepting, depthVars, envVars>>

(* Ten minutes go by.                                                      *)
Expires ==
  /\ confirm.fresh
  /\ confirm' = [confirm EXCEPT !.fresh = FALSE]
  /\ UNCHANGED <<accepting, kept, warned, depthVars, envVars>>

(* Mutant: any value is taken for a mode.                                  *)
SetAnyMode == mode' \in Modes \cup {"review"} /\ UNCHANGED <<task, freezes, head, shared, legacy, unreadable>>

(* What others do: the engine and the mode tools, git, the file system.    *)
SetDaicMode == mode' \in Modes /\ UNCHANGED <<task, freezes, head, shared, legacy, unreadable>>
SetTaskState == task' \in TaskStates \cup {NoTask} /\ UNCHANGED <<mode, freezes, head, shared, legacy, unreadable>>
ChangeStep == freezes' = ~freezes /\ UNCHANGED <<mode, task, head, shared, legacy, unreadable>>
Checkout ==
  /\ \E r \in Repositories, b \in Branches : head' = [head EXCEPT ![r] = b]
  /\ UNCHANGED <<mode, task, freezes, shared, legacy, unreadable>>
Degrade ==
  /\ Degrades /\ unreadable' \in {{}, {"mode"}, {"task"}, {"git"}}
  /\ UNCHANGED <<mode, task, freezes, head, shared, legacy>>

Environment ==
  /\ SetDaicMode \/ SetTaskState \/ ChangeStep \/ Checkout \/ Degrade
  /\ UNCHANGED <<depthVars, safetyVars>>

Next ==
  \/ DepthNext /\ UNCHANGED <<envVars, safetyVars>>
  \/ \E c \in DestructiveCalls : Accepts(c) \/ IsBlocked(c)
  \/ ClearConfirmState \/ Expires
  \/ Environment

Spec == Init /\ [][Next]_vars

-------------------------------------------------------------------------------
TypeOK ==
  /\ DepthTypeOK
  /\ mode \in Modes /\ task \in TaskStates \cup {NoTask} /\ {freezes, shared, legacy} \subseteq BOOLEAN
  /\ head \in [Repositories -> Branches]
  /\ unreadable \subseteq {"mode", "task", "git"}
  /\ confirm \in [command : Destructive \cup {NoCommand}, fresh : BOOLEAN]
  /\ accepting \in Nat /\ kept \in BOOLEAN /\ warned \subseteq Destructive

(* The main agent is sure to be recognised: no subagent is at work in any  *)
(* session, and none has ended unseen since the last prompt.               *)
MainIsAlone == ~bypass /\ ~drift /\ counted = {} /\ leaks = 0

(* Then code is edited in implementation mode only, whichever way earlier  *)
(* subagents ended and whatever cannot be read; and documentation mode     *)
(* allows nothing but documentation to be written.  (Bash is not held      *)
(* back in discussion mode.)                                               *)
MainActsInMode ==
  MainIsAlone => \A c \in Calls : ~Admin(c) =>
    /\ IsEdit(c) /\ Allowed(c) => mode = "implementation" \/ (mode = "documentation" /\ c.on = "docs")
    /\ Writes(c) /\ c.on # "docs" /\ mode = "documentation" /\ "mode" \notin unreadable => ~Allowed(c)

(* Nor is code edited in a repository that has another branch checked out  *)
(* than the task's, as far as git can tell, or with no task at all.        *)
MainStaysOnBranch ==
  MainIsAlone => \A c \in Calls : IsEdit(c) /\ c.on \in Code /\ Allowed(c) =>
    \/ task.branch = Branchless \/ (task.branch = Unset /\ task.front = Branchless)
    \/ c.on = "outside" /\ task.branch \in Branches
    \/ task.branch \in Branches /\ (head[c.on] = task.branch \/ "git" \in unreadable)

(* "The nonce is single-use ... and is valid only for this exact command": *)
(* a destructive command may go ahead once after it has been blocked,      *)
(* whichever others are blocked, confirmed or expire in between.  The      *)
(* exceptions: a nonce whose deletion failed is good until it expires or   *)
(* another takes its place; one that is just being accepted is good for a  *)
(* second call at the same time; and rewriting the task's own branch is    *)
(* free while nobody else has it.                                          *)
EachRunIsConfirmed ==
  ~bypass => \A c \in DestructiveCalls : CheckSafetyGuard(c) =>
    \/ c.does \in warned
    \/ c.confirmed /\ (kept \/ accepting > 0)
    \/ c.does \in Rewriting /\ head["main"] = task.branch /\ ~shared
===============================================================================

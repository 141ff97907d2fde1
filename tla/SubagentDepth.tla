------------------------------ MODULE SubagentDepth ------------------------------
(***************************************************************************)
(* The counter that tells the enforcement hook whether a subagent is at    *)
(* work (subagent-depth.json): the PreToolUse hook of a dispatch counts    *)
(* up, its PostToolUse hook counts down, and a new prompt or session       *)
(* starts from 0.  task-transcript-link.py, post-tool-use.py,              *)
(* user-messages.py, session-start.py and shared_state.py.                 *)
(*                                                                         *)
(* Several sessions may work in one project: they share the counter.       *)
(***************************************************************************)
EXTENDS Integers, FiniteSets

CONSTANTS
  Dispatches,  \* calls of the Task (or Agent) tool, each used again and again
  Sessions,
  Owner,       \* the session of each dispatch
  LockFails,   \* taking the state lock may fail
  WriteFails,  \* writing the counter may fail
  MaxLeaks,    \* bound on the dispatches that end unseen between two resets
  MaxDepth     \* bound on the counter

ASSUME DepthAssumption ==
  /\ IsFiniteSet(Dispatches)
  /\ Owner \in [Dispatches -> Sessions]
  /\ {LockFails, WriteFails} \subseteq BOOLEAN
  /\ MaxLeaks \in Nat /\ MaxDepth \in Nat

VARIABLES
  depth,    \* the counter
  bypass,   \* the workflow bypass is enabled
  pc,       \* what each dispatch is at
  old,      \* what a change without the lock has read
  counted,  \* history: dispatches counted up and not yet down
  leaks,    \* history: those that ended without being counted down
  drift     \* history: a change was lost, undone by another session, or made for nobody

depthVars == <<depth, bypass, pc, old, counted, leaks, drift>>

(* "inc", "undo" and "dec" change the counter; "*-blind" without the lock. *)
Changes == {"inc", "undo", "dec"}
Blind(change) ==
  CASE change = "inc" -> "inc-blind" [] change = "undo" -> "undo-blind" [] change = "dec" -> "dec-blind"
Phases == {"idle", "stage", "run"} \cup Changes \cup {Blind(c) : c \in Changes}

DepthInit ==
  /\ depth = 0 /\ bypass \in BOOLEAN
  /\ pc = [d \in Dispatches |-> "idle"]
  /\ old = [d \in Dispatches |-> 0]
  /\ counted = {} /\ leaks = 0 /\ drift = FALSE

Goes(d, phase) == pc' = [pc EXCEPT ![d] = phase]

(* PreToolUse of a dispatch.                                               *)
Dispatch(d) ==
  /\ pc[d] = "idle"
  /\ Goes(d, IF bypass THEN "stage" ELSE "inc")
  /\ UNCHANGED <<depth, bypass, old, counted, leaks, drift>>

(* Mutant: without the clamp.                                              *)
ChangedUnclamped(change, n) == IF change = "inc" THEN n + 1 ELSE n - 1

(* increment_subagent_depth and decrement_subagent_depth.                  *)
Changed(change, n) == IF change = "inc" THEN n + 1 ELSE IF n = 0 THEN 0 ELSE n - 1

(* Afterwards.  A count down on behalf of a dispatch that was not counted  *)
(* takes another one's.                                                    *)
ChangeDone(d, change, lost) ==
  /\ Goes(d, IF change = "inc" THEN "stage" ELSE "idle")
  /\ counted' = IF change = "inc" THEN counted \cup {d} ELSE counted \ {d}
  /\ drift' = (drift \/ lost \/ (change # "inc" /\ d \notin counted))
  /\ UNCHANGED <<bypass, leaks>>

Bounded(d) == pc[d] = "inc" => depth < MaxDepth

Change(d) ==
  /\ pc[d] \in Changes /\ Bounded(d)
  /\ depth' = Changed(pc[d], depth)
  /\ ChangeDone(d, pc[d], FALSE)
  /\ UNCHANGED old

(* The write fails under the lock: swallowed.                              *)
ChangeLost(d) ==
  /\ WriteFails /\ pc[d] \in Changes
  /\ ChangeDone(d, pc[d], TRUE)
  /\ UNCHANGED <<depth, old>>

(* The lock cannot be taken: read now, write later.                        *)
BlindRead(d) ==
  /\ LockFails /\ pc[d] \in Changes /\ Bounded(d)
  /\ old' = [old EXCEPT ![d] = depth]
  /\ Goes(d, Blind(pc[d]))
  /\ UNCHANGED <<depth, bypass, counted, leaks, drift>>

BlindWrite(d) ==
  \E change \in Changes :
    /\ pc[d] = Blind(change)
    /\ depth' = Changed(change, old[d])
    /\ ChangeDone(d, change, depth # old[d])
    /\ old' = [old EXCEPT ![d] = 0]

(* The transcript is staged for the subagent, which starts.                *)
Staged(d) ==
  /\ pc[d] = "stage"
  /\ Goes(d, "run")
  /\ UNCHANGED <<depth, bypass, old, counted, leaks, drift>>

(* Mutant: the dispatch goes on although its count was taken back.         *)
StagingFailsAndRuns(d) ==
  /\ pc[d] = "stage" /\ d \in counted
  /\ depth' = Changed("undo", depth)
  /\ Goes(d, "run")
  /\ UNCHANGED <<bypass, old, counted, leaks, drift>>

(* Or it cannot be, and the dispatch is blocked.                           *)
StagingFails(d) ==
  /\ pc[d] = "stage"
  /\ Goes(d, IF d \in counted THEN "undo" ELSE "idle")
  /\ UNCHANGED <<depth, bypass, old, counted, leaks, drift>>

Leaks(d) ==
  /\ leaks < MaxLeaks
  /\ counted' = counted \ {d}
  /\ leaks' = leaks + Cardinality({d} \cap counted)

(* Denied, interrupted, crashed: no PostToolUse.                           *)
EndsUnseen(d) ==
  /\ pc[d] = "run"
  /\ Leaks(d)
  /\ Goes(d, "idle")
  /\ UNCHANGED <<depth, bypass, old, drift>>

(* PostToolUse of the dispatch: under the bypass it does not count down,   *)
(* nor when the counter says that no subagent is at work.                  *)
Ends(d) ==
  /\ pc[d] = "run" /\ ~bypass /\ depth > 0
  /\ Goes(d, "dec")
  /\ UNCHANGED <<depth, bypass, old, counted, leaks, drift>>

EndsAtZero(d) ==
  /\ pc[d] = "run" /\ ~bypass /\ depth = 0
  /\ counted' = counted \ {d}
  /\ Goes(d, "idle")
  /\ UNCHANGED <<depth, bypass, old, leaks, drift>>

EndsBypassed(d) ==
  /\ pc[d] = "run" /\ bypass
  /\ Leaks(d)
  /\ Goes(d, "idle")
  /\ UNCHANGED <<depth, bypass, old, drift>>

Resting(s) == \A d \in Dispatches : Owner[d] = s => pc[d] = "idle"

(* UserPromptSubmit or SessionStart: this session's subagents are over,    *)
(* another session's need not be.                                          *)
Reset(s) ==
  /\ Resting(s)
  /\ depth' = 0 /\ leaks' = 0
  /\ drift' = (counted # {} \/ \E d \in Dispatches : pc[d] \in {Blind(c) : c \in Changes})
  /\ UNCHANGED <<bypass, pc, old, counted>>

(* workflow_command.py, in any terminal.                                   *)
ToggleBypass ==
  /\ bypass' = ~bypass
  /\ UNCHANGED <<depth, pc, old, counted, leaks, drift>>

DispatchStep(d) ==
  \/ Dispatch(d) \/ Change(d) \/ ChangeLost(d) \/ BlindRead(d) \/ BlindWrite(d)
  \/ Staged(d) \/ StagingFails(d)
  \/ EndsUnseen(d) \/ Ends(d) \/ EndsAtZero(d) \/ EndsBypassed(d)

DepthNext ==
  \/ \E d \in Dispatches : DispatchStep(d)
  \/ \E s \in Sessions : Reset(s)
  \/ ToggleBypass

DepthSpec == DepthInit /\ [][DepthNext]_depthVars

-------------------------------------------------------------------------------
DepthTypeOK ==
  /\ depth \in Nat /\ bypass \in BOOLEAN
  /\ pc \in [Dispatches -> Phases] /\ old \in [Dispatches -> Nat]
  /\ counted \subseteq Dispatches /\ leaks \in Nat /\ drift \in BOOLEAN

(* Unless something was lost or another session reset it, the counter      *)
(* says how many dispatches are counted, whatever order they start, fail,  *)
(* are blocked and end in, plus those that ended unseen since the last     *)
(* prompt: "each parallel Task decrements only its own increment"          *)
(* (post-tool-use.py).                                                     *)
DepthIsExact == drift \/ depth = Cardinality(counted) + leaks
===============================================================================

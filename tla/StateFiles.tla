------------------------------ MODULE StateFiles ------------------------------
(***************************************************************************)
(* The locked read-modify-write cycles of hooks/shared_state.py.  Every    *)
(* hook is a process of its own and the MCP server is another; they share  *)
(* current_task.json and the throttle counter                              *)
(* protocol-end-condition-counter.txt, and serialise through the one       *)
(* advisory file lock _state_lock.  A process may die at any step (the     *)
(* kernel then drops its flock), the lock may be impossible to acquire     *)
(* (no flock on the file system, msvcrt contention), and a write may fail  *)
(* (disk full).  Integrity writers raise when they cannot lock; a throttle *)
(* counter degrades to an unlocked increment.                              *)
(***************************************************************************)
EXTENDS Naturals, TaskRecord

CONSTANTS
  Procs,         \* hook processes and the MCP server
  NoProc,        \* the lock is free
  NoCall,        \* the process is not in a call
  LockCanFail,   \* _state_lock may raise OSError on acquisition
  ReadCanFail,   \* reading a state file may raise OSError
  MaxCalls       \* bound: calls made in a behaviour

ASSUME StateFilesAssumption ==
  /\ NoProc \notin Procs
  /\ LockCanFail \in BOOLEAN
  /\ ReadCanFail \in BOOLEAN
  /\ MaxCalls \in Nat
  /\ NoCall \notin WriterCalls

VARIABLES
  taskFile,    \* content of current_task.json
  counter,     \* content of the throttle counter; absent, empty and "0" read as 0
  lock,        \* holder of _state_lock
  pc,          \* where each process is in its call
  call,        \* the call each process is in
  seenState,   \* the object the process read from current_task.json
  seenCount,   \* the number the process read from the counter
  calls,       \* calls made so far (bounded by MaxCalls)
  incs,        \* history: increments since the protocol block last changed
  disturbed    \* history: a call ran unlocked, failed half-way or died

vars == <<taskFile, counter, lock, pc, call, seenState, seenCount, calls, incs,
          disturbed>>
files == <<taskFile, counter, incs>>
reads == <<seenState, seenCount>>

IncrementCall == [kind |-> "increment", arg |-> NoTask]
Calls == WriterCalls \cup {IncrementCall}
IsWriter(p) == call[p] \in WriterCalls

Goto(p, label) == pc' = [pc EXCEPT ![p] = label]
Free(p) == lock' = IF lock = p THEN NoProc ELSE lock

Init ==
  /\ taskFile = NullState
  /\ counter = 0
  /\ lock = NoProc
  /\ pc = [p \in Procs |-> "idle"]
  /\ call = [p \in Procs |-> IncrementCall]
  /\ seenState = [p \in Procs |-> NullState]
  /\ seenCount = [p \in Procs |-> 0]
  /\ calls = 0
  /\ incs = 0
  /\ disturbed = FALSE

(* A process enters one of the writers and opens the lock file.            *)
Begin(p) ==
  /\ pc[p] = "idle"
  /\ calls < MaxCalls
  /\ \E c \in Calls : call' = [call EXCEPT ![p] = c]
  /\ calls' = calls + 1
  /\ Goto(p, "waiting")
  /\ UNCHANGED <<files, reads, lock, disturbed>>

(* Mutant: the lock does not exclude.                                      *)
AcquireHeldLock(p) ==
  /\ pc[p] = "waiting"
  /\ lock' = p
  /\ Goto(p, "read")
  /\ UNCHANGED <<files, reads, call, calls, disturbed>>

(* fcntl.flock(LOCK_EX) returns.                                           *)
Acquire(p) ==
  /\ pc[p] = "waiting"
  /\ lock = NoProc
  /\ lock' = p
  /\ Goto(p, "read")
  /\ UNCHANGED <<files, reads, call, calls, disturbed>>

(* open or flock raises OSError: set_task_state and set_protocol_state let *)
(* it escape, increment_counter_file goes on without the lock.             *)
AcquireFails(p) ==
  /\ LockCanFail
  /\ pc[p] = "waiting"
  /\ Goto(p, IF IsWriter(p) THEN "idle" ELSE "read")
  /\ disturbed' = TRUE
  /\ UNCHANGED <<files, reads, lock, call, calls>>

ReadState(p) ==
  /\ pc[p] = "read"
  /\ IsWriter(p)
  /\ \E s \in {taskFile} \cup (IF ReadCanFail THEN {NullState} ELSE {}) :
       seenState' = [seenState EXCEPT ![p] = s]
  /\ Goto(p, "write")
  /\ UNCHANGED <<files, seenCount, lock, call, calls, disturbed>>

ReadCounter(p) ==
  /\ pc[p] = "read"
  /\ ~IsWriter(p)
  /\ \/ /\ seenCount' = [seenCount EXCEPT ![p] = counter]
        /\ UNCHANGED disturbed
     \/ /\ ReadCanFail
        /\ seenCount' = [seenCount EXCEPT ![p] = 0]
        /\ disturbed' = TRUE
  /\ Goto(p, "write")
  /\ UNCHANGED <<files, seenState, lock, call, calls>>

(* Mutant: the counter is deleted after the lock is released.              *)
ReplaceAndRelease(p) ==
  /\ pc[p] = "write"
  /\ IsWriter(p)
  /\ taskFile' = Apply(call[p], seenState[p])
  /\ incs' = IF call[p].kind = "set_protocol" THEN 0 ELSE incs
  /\ Free(p)
  /\ Goto(p, IF call[p].kind = "set_protocol" THEN "unlink" ELSE "release")
  /\ UNCHANGED <<counter, reads, call, calls, disturbed>>

(* _write_json_durable: the temporary file replaces current_task.json.     *)
ReplaceState(p) ==
  /\ pc[p] = "write"
  /\ IsWriter(p)
  /\ taskFile' = Apply(call[p], seenState[p])
  /\ incs' = IF call[p].kind = "set_protocol" THEN 0 ELSE incs
  /\ Goto(p, IF call[p].kind = "set_protocol" THEN "unlink" ELSE "release")
  /\ UNCHANGED <<counter, reads, lock, call, calls, disturbed>>

(* Mutant: no finally clause.                                              *)
WriteFailsKeepingLock(p) ==
  /\ pc[p] = "write"
  /\ Goto(p, "idle")
  /\ disturbed' = TRUE
  /\ UNCHANGED <<files, reads, lock, call, calls>>

(* The temporary file cannot be written: a writer raises through the       *)
(* finally clauses of _state_lock, an increment swallows the error.        *)
WriteFails(p) ==
  /\ pc[p] = "write"
  /\ Goto(p, "release")
  /\ disturbed' = TRUE
  /\ UNCHANGED <<files, reads, lock, call, calls>>

(* set_protocol_state and clear_protocol_state delete the counter before   *)
(* they leave the lock; a failing unlink is swallowed.                     *)
UnlinkCounter(p) ==
  /\ pc[p] = "unlink"
  /\ \/ counter' = 0 /\ UNCHANGED disturbed
     \/ disturbed' = TRUE /\ UNCHANGED counter
  /\ Goto(p, "release")
  /\ UNCHANGED <<taskFile, incs, reads, lock, call, calls>>

(* path.write_text opens with truncation and only then writes the number.  *)
TruncateCounter(p) ==
  /\ pc[p] = "write"
  /\ ~IsWriter(p)
  /\ counter' = 0
  /\ Goto(p, "fill")
  /\ UNCHANGED <<taskFile, incs, reads, lock, call, calls, disturbed>>

FillCounter(p) ==
  /\ pc[p] = "fill"
  /\ counter' = seenCount[p] + 1
  /\ incs' = incs + 1
  /\ Goto(p, "release")
  /\ UNCHANGED <<taskFile, reads, lock, call, calls, disturbed>>

(* The finally clauses: LOCK_UN and close; nothing to do for an unlocked   *)
(* increment.                                                              *)
Release(p) ==
  /\ pc[p] = "release"
  /\ Free(p)
  /\ Goto(p, "idle")
  /\ UNCHANGED <<files, reads, call, calls, disturbed>>

(* The process is killed; the kernel releases its flock.                   *)
Crash(p) ==
  /\ pc[p] # "idle"
  /\ Free(p)
  /\ Goto(p, "idle")
  /\ disturbed' = TRUE
  /\ UNCHANGED <<files, reads, call, calls>>

(* The steps a process takes by itself once it is past the lock.           *)
Proceed(p) ==
  \/ ReadState(p) \/ ReadCounter(p) \/ ReplaceState(p) \/ WriteFails(p)
  \/ UnlinkCounter(p) \/ TruncateCounter(p) \/ FillCounter(p) \/ Release(p)

Next ==
  \E p \in Procs :
    Begin(p) \/ Acquire(p) \/ AcquireFails(p) \/ Proceed(p) \/ Crash(p)

Spec == Init /\ [][Next]_vars

(* A process inside a call is scheduled by the operating system until it   *)
(* returns or dies.                                                        *)
FairSpec == Spec /\ \A p \in Procs : WF_vars(Proceed(p))

-------------------------------------------------------------------------------
Labels == {"idle", "waiting", "read", "write", "unlink", "fill", "release"}

TypeOK ==
  /\ taskFile \in TaskState
  /\ counter \in Nat
  /\ lock \in Procs \cup {NoProc}
  /\ pc \in [Procs -> Labels]
  /\ call \in [Procs -> Calls]
  /\ seenState \in [Procs -> TaskState]
  /\ seenCount \in [Procs -> Nat]
  /\ calls \in 0..MaxCalls
  /\ incs \in Nat
  /\ disturbed \in BOOLEAN

(* The calls that have not taken effect, as AtomicTaskState sees them.     *)
Request ==
  [p \in Procs |->
     IF pc[p] \in {"waiting", "read", "write"} /\ IsWriter(p) THEN call[p]
                                                              ELSE NoCall]

Abs == INSTANCE AtomicTaskState WITH request <- Request

(* Every call of set_task_state, set_protocol_state or clear_protocol_state *)
(* behaves as one atomic update of its own field of current_task.json: no   *)
(* interleaving of hooks and MCP server, no crash, no failed lock and no    *)
(* failed write loses another call's update or applies a call twice         *)
(* (shared_state.py: "lock -> read -> modify -> atomic-rename write").      *)
AtomicUpdates == Abs!Spec

(* While the writers of the counter run undisturbed, the counter holds the *)
(* number of hook calls since the protocol state last changed: the locked  *)
(* increments lose no update, and the step change that set it back is      *)
(* never overwritten by an increment that had read the old number.  So the *)
(* first PostToolUse hook after a change counts 1 and shows the new step's *)
(* end condition.                                                          *)
CountsEveryCall == ~disturbed /\ lock = NoProc => counter = incs

(* The lock is given back whatever happens inside the call it protects: a  *)
(* raised write error included (try/finally of _state_lock).               *)
LockIsReleased == \A p \in Procs : lock = p ~> lock # p
===============================================================================

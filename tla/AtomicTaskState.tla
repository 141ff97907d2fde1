---------------------------- MODULE AtomicTaskState ----------------------------
(***************************************************************************)
(* What the writers of current_task.json promise their callers: a call     *)
(* takes effect at one instant between its start and its return, on the    *)
(* content the file has at that instant, at most once; or it raises (or    *)
(* its process dies) and has no effect.                                    *)
(***************************************************************************)
EXTENDS TaskRecord

CONSTANTS Procs, NoCall

VARIABLES
  taskFile,    \* content of current_task.json
  request      \* request[p]: the call of process p that has not taken effect

Init ==
  /\ taskFile = NullState
  /\ request = [p \in Procs |-> NoCall]

Invoke(p) ==
  /\ request[p] = NoCall
  /\ \E c \in WriterCalls : request' = [request EXCEPT ![p] = c]
  /\ UNCHANGED taskFile

TakeEffect(p) ==
  /\ request[p] # NoCall
  /\ taskFile' = Apply(request[p], taskFile)
  /\ request' = [request EXCEPT ![p] = NoCall]

Fail(p) ==
  /\ request[p] # NoCall
  /\ request' = [request EXCEPT ![p] = NoCall]
  /\ UNCHANGED taskFile

Next == \E p \in Procs : Invoke(p) \/ TakeEffect(p) \/ Fail(p)

Spec == Init /\ [][Next]_<<taskFile, request>>
===============================================================================

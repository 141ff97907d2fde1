------------------------------ MODULE TaskRecord ------------------------------
(***************************************************************************)
(* The content of .claude/state/current_task.json and what its writers in  *)
(* hooks/shared_state.py do to it.  The file is one JSON object; the       *)
(* fields that are always written together (task, branch, services) are    *)
(* one field here, the "protocol" block is the other.                      *)
(***************************************************************************)
CONSTANTS
  Tasks,       \* task names set_task_state is called with
  Protocols,   \* protocol blocks set_protocol_state is called with
  NoTask,      \* "task": null
  NoProtocol   \* no "protocol" key

ASSUME RecordAssumption ==
  /\ NoTask \notin Tasks
  /\ NoProtocol \notin Protocols

TaskState == [task : Tasks \cup {NoTask}, protocol : Protocols \cup {NoProtocol}]

(* What get_task_state returns when the file is missing or unreadable.     *)
NullState == [task |-> NoTask, protocol |-> NoProtocol]

(* A call of set_task_state, set_protocol_state or clear_protocol_state.   *)
WriterCalls ==
  [kind : {"set_task"}, arg : Tasks \cup {NoTask}] \cup
  [kind : {"set_protocol"}, arg : Protocols \cup {NoProtocol}]

(* Mutant: set_task_state replaces the protocol block.                     *)
ApplyToWrongField(call, s) ==
  [s EXCEPT !.protocol = call.arg]

(* The object a writer stores, given the object it read: its own field     *)
(* replaced, the other one carried over.                                   *)
Apply(call, s) ==
  IF call.kind = "set_task" THEN [s EXCEPT !.task = call.arg]
                            ELSE [s EXCEPT !.protocol = call.arg]
===============================================================================

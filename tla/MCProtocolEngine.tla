--------------------------- MODULE MCProtocolEngine ---------------------------
(* Instances of ProtocolEngine for TLC.                                    *)
EXTENDS ProtocolEngine

StepOf(m, loops, stops, funcs) ==
  [mode |-> m, looping |-> loops, stop |-> stops, posts |-> funcs]

(* The shape of refactoring.json and optimize.json: a step before the one  *)
(* that names the task, a loop with a checkpoint, and the last step of     *)
(* research.json, which does not stop on failure.                          *)
LoopSteps ==
  << StepOf("discussion", FALSE, TRUE, <<"check">>),
     StepOf("discussion", FALSE, TRUE, <<"set_task", "create">>),
     StepOf("implementation", TRUE, TRUE, <<"check", "checkpoint">>),
     StepOf("discussion", FALSE, FALSE, <<"archive", "clear">>) >>
===============================================================================

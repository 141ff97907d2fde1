----------------------------- MODULE MCReviewGates -----------------------------
(***************************************************************************)
(* The two shapes of the shipped protocols: task.json, which defers        *)
(* documentation criteria to a later step, and optimize.json, which        *)
(* documents before its review and may not.                                *)
(***************************************************************************)
EXTENDS ReviewGates, TLC

Step(code, gates) == [code |-> code, gates |-> gates]

TaskProtocol ==
  <<Step(TRUE, <<>>), Step(FALSE, <<"round", "spec", "other">>),
    Step(FALSE, <<"other", "deferred">>), Step(FALSE, <<>>)>>

OptimizeProtocol ==
  <<Step(TRUE, <<>>), Step(FALSE, <<"round", "spec", "other">>), Step(FALSE, <<>>)>>

MCProtocols == {TaskProtocol, OptimizeProtocol}

(* "none" and a passing sentinel in the wrong step are what a confused     *)
(* agent would write.                                                      *)
MCStrays ==
  {[kind |-> k, items |-> {}, saw |-> NoHash] : k \in {"spec", "carriage", "done"}}

ASSUME ShippedProtocolsConfirm == ConfirmsBeforeTheEnd

TreeSymmetry == Permutations(Trees)
===============================================================================

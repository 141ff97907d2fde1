------------------------------ MODULE MCEnforcement ------------------------------
(***************************************************************************)
(* One session dispatches subagents one after another.  A task on a        *)
(* feature branch with and without the submodule, and one without a        *)
(* branch.                                                                 *)
(***************************************************************************)
EXTENDS Enforcement, TLC

CONSTANTS a, s1, feature

MCOwner == a :> s1

Task(branch, front, listed) == [branch |-> branch, front |-> front, listed |-> listed]

MCTaskStates ==
  {Task(feature, Unset, TRUE), Task(feature, Unset, FALSE), Task(Unset, Branchless, FALSE)}
===============================================================================

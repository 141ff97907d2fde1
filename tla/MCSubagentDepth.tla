----------------------------- MODULE MCSubagentDepth -----------------------------
(***************************************************************************)
(* Two parallel subagents of one session, one of another.                  *)
(***************************************************************************)
EXTENDS SubagentDepth, TLC

CONSTANTS a, b, c, s1, s2

MCOwner == (a :> s1) @@ (b :> s1) @@ (c :> s2)

Parallel == Permutations({a, b})
===============================================================================

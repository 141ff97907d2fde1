---------------------------- MODULE MCTrackerMappings ----------------------------
(* Two processes and two tasks; an issue to link, and one to make.         *)
EXTENDS TrackerMappings, TLC

CONSTANTS t1, t2, c1, c2

Symmetry == Permutations({t1, t2}) \cup Permutations({c1, c2})
===============================================================================

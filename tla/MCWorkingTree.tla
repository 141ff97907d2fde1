----------------------------- MODULE MCWorkingTree -----------------------------
(* One session reviews, another one sets up its task's branch.             *)
EXTENDS WorkingTree

CONSTANTS c1, s1, main, feature
===============================================================================

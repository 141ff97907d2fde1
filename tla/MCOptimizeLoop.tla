------------------------------ MODULE MCOptimizeLoop ------------------------------
(***************************************************************************)
(* OptimizeLoop for TLC: the advances that bring one argument besides the  *)
(* hypothesis, or leave the hypothesis out.                                *)
(***************************************************************************)
EXTENDS OptimizeLoop

MCInputs ==
  {HypothesisOnly} \cup
    {[HypothesisOnly EXCEPT !.hypothesis = FALSE],
     [HypothesisOnly EXCEPT !.iteration = "text"],
     [HypothesisOnly EXCEPT !.status = "summary"],
     [HypothesisOnly EXCEPT !.value = 1],
     [HypothesisOnly EXCEPT !.value = NaN, !.commit = 0]}
===============================================================================

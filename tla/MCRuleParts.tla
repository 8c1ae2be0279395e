----------------------------- MODULE MCRuleParts -----------------------------
(* Instances of RuleParts: a five-bit integer in place of int32. *)
EXTENDS RuleParts

MCIntMax == 15

(* Every operator and action, with bounds at their zero value, in order and *)
(* in the wrong order, and the smallest and the default step.               *)
MCRules ==
  [operator : {"", ">", "<=", "=="}, threshold : {5}, action : Actions,
   step : {-1, 0, 3}, minReplicas : {-1, 0, 2}, maxReplicas : {0, 1, 6}]

MCValues == {4, 5, 6}
MCStarts == {0, 1, 2, 5, 6, 9, MCIntMax}
=============================================================================

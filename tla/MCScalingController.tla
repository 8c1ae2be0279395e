------------------------- MODULE MCScalingController -------------------------
(* Instances of ScalingController. *)
EXTENDS ScalingController, TLC

MCIntMax == 7

Body(operator, action, step, lo, hi) ==
  [operator |-> operator, threshold |-> 5, action |-> action,
   step |-> step, minReplicas |-> lo, maxReplicas |-> hi]

(* Opposite rules with different bounds, the second with the legacy action. *)
MCOpposite == {Body(">", "scale_up", 1, 1, 3), Body("<", "", 2, 2, 3)}

(* Two versions of one rule that is breached by every measured value. *)
MCBreached == {Body(">", "scale_up", 1, 1, 3), Body(">=", "scale_up", 2, 1, 2)}

MCOneRule == {Body(">", "scale_up", 1, 1, 3)}


MCStarts == {1}
MCTargets == {-1, 6}
MCNoTargets == {}
MCHighTarget == {6}
MCValues == {4, 6}
MCHigh == {6}

MCSymmetry == Permutations(Watchers)
=============================================================================

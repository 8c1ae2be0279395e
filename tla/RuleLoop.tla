------------------------------- MODULE RuleLoop -------------------------------
(***************************************************************************)
(* One rule evaluated again and again on one deployment by one controller: *)
(* evaluateOnce with nothing else in its way.  The module fixes what the    *)
(* arithmetic of decideReplicas promises, for every rule, measurement and   *)
(* replica count in the sets given by the constants.                        *)
(***************************************************************************)
EXTENDS ReplicaDecision, FiniteSets

CONSTANTS
  Rules,    \* the rules considered, a set of RuleBody as the API stores them
  Values,   \* the metric values measured
  Starts    \* the replica counts the deployment may start with

ASSUME RuleLoopAssumption ==
  /\ Rules \subseteq RuleBody
  /\ Values \subseteq Int
  /\ Starts \subseteq 0 .. IntMax

VARIABLES
  rule,     \* the rule as read from the store, defaults applied
  value,    \* what GetDeploymentMetricValue returns
  current   \* spec.replicas of the deployment

vars == <<rule, value, current>>

Init ==
  /\ rule \in {ApplyDefaults(r) : r \in Rules}
  /\ value \in Values
  /\ current \in Starts

(* evaluateOnce for this rule.  The API server refuses a negative count. *)
Reconcile ==
  LET desired == DecideReplicas(current, value, rule) IN
  /\ desired # current
  /\ desired >= 0
  /\ current' = desired
  /\ UNCHANGED <<rule, value>>

Measure ==
  /\ value' \in Values
  /\ UNCHANGED <<rule, current>>

Next == Reconcile \/ Measure

Spec == Init /\ [][Next]_vars /\ WF_vars(Reconcile)

-----------------------------------------------------------------------------
TypeOK ==
  /\ rule \in RuleBody
  /\ value \in Int
  /\ current \in 0 .. IntMax

Bounded(r) == r.minReplicas > 0 /\ r.maxReplicas > 0

(* The sum of the count and the step stays an int32. *)
NoOverflow == current + StepOf(rule) <= IntMax

(* What the documentation says of a scaling action: move by the step in the *)
(* direction of the action, then take the nearest count within the bounds.  *)
Target ==
  IF ActionOf(rule) = "scale_up" THEN current + StepOf(rule) ELSE current - StepOf(rule)

Allowed == rule.minReplicas .. EffectiveMax(rule)

Distance(m, n) == IF m < n THEN n - m ELSE m - n

NearestAllowed ==
  CHOOSE n \in Allowed : \A m \in Allowed : Distance(n, Target) <= Distance(m, Target)

(* As long as the addition does not overflow, an action of a rule with      *)
(* positive bounds (decideReplicas, controller.go) ends at the allowed count *)
(* nearest to the target; this covers a maximum configured below the        *)
(* minimum and a deployment that starts outside the bounds.                 *)
ClampsToNearest ==
  (Bounded(rule) /\ NoOverflow /\ Acts(value, rule))
    => DecideReplicas(current, value, rule) = NearestAllowed

(* A deployment inside the bounds of its rule never leaves them, and moves  *)
(* only in the direction of the action and by no more than the step.        *)
StepsStayInside ==
  [][ (Bounded(rule) /\ NoOverflow /\ current \in Allowed /\ current' # current)
        => /\ current' \in Allowed
           /\ Distance(current, current') <= StepOf(rule)
           /\ (ActionOf(rule) = "scale_up") = (current' > current) ]_vars

(* A breach that persists is answered until the bound is reached and then   *)
(* the controller rests: no rule keeps a deployment moving for ever on one  *)
(* side of its threshold.                                                   *)
Rests ==
  (Bounded(rule) /\ EffectiveMax(rule) + StepOf(rule) <= IntMax)
    => (\A v \in Values : (<>[](value = v))
          => <>[](Acts(v, rule) =>
                    current = (IF ActionOf(rule) = "scale_up"
                               THEN EffectiveMax(rule) ELSE rule.minReplicas)))
=============================================================================

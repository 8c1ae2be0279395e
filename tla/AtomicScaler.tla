----------------------------- MODULE AtomicScaler -----------------------------
(***************************************************************************)
(* What the autoscaler promises about one deployment, with no daemons, no   *)
(* caches and no races: the replica count changes only by whole decisions,   *)
(* each taken on the count it replaces, or by an operator's request.        *)
(***************************************************************************)
EXTENDS ReplicaDecision

CONSTANTS
  Bodies,   \* the rules that may ever be stored
  Values,   \* the metric values that may ever be measured
  Starts,   \* the replica counts the deployment may start with
  Targets   \* the counts operators ask for

VARIABLE replicas

Init == replicas \in Starts

Scale(body, value) ==
  /\ replicas' = DecideReplicas(replicas, value, body)
  /\ replicas' >= 0

ScaleByHand(n) == n >= 0 /\ replicas' = n

Next ==
  \/ \E body \in Bodies, value \in Values : Scale(body, value)
  \/ \E n \in Targets : ScaleByHand(n)

Spec == Init /\ [][Next]_replicas
=============================================================================

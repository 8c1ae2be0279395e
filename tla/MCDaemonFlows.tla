---------------------------- MODULE MCDaemonFlows ----------------------------
(* Instances of the flows of a daemon. *)
EXTENDS DaemonFlows

CONSTANTS a1, a2

(* All connections go from one address to another. *)
MCSourceOf(k) == a1
MCDestOf(k) == a2
=============================================================================

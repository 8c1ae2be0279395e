----------------------------- MODULE MCNodeProbes -----------------------------
(* Instances of the eBPF programs of a node. *)
EXTENDS NodeProbes, RttKey

(* All probes of a program, or all but one. *)
MCLoads == {Probes} \cup {Probes \ {p} : p \in Probes}
MCAttachments == {IoProbes} \cup {IoProbes \ {p} : p \in IoProbes}

(* Two ports of one address; their keys collide with those of the processes. *)
MCSources == {<<1, 1>>, <<1, 2>>}
MCTargets == {<<2, 1>>}
=============================================================================

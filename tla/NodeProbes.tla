------------------------------ MODULE NodeProbes ------------------------------
(***************************************************************************)
(* The eBPF programs of a node: scheduler latency, TCP, RTT and disk.  Each  *)
(* program has maps and a ring of its own, and the daemon goes on without    *)
(* those that do not load (cmd/daemon/main.go), so none can hinder another:  *)
(* a behaviour is one of any single program.                                 *)
(***************************************************************************)
EXTENDS SchedProbes, TcpProbes, RttProbes, DiskProbes

VARIABLE program \* the program whose behaviour this is

nodeVars == <<program, schedVars, tcpVars, rttVars, diskVars>>

NodeInit ==
  /\ program \in {"sched", "tcp", "rtt", "disk"}
  /\ SchedInit /\ TcpInit /\ RttInit /\ DiskInit
  /\ program # "tcp" => attached = Probes     \* irrelevant there
  /\ program # "disk" => links = IoProbes

SchedStep ==
  /\ program = "sched" /\ SchedNext
  /\ UNCHANGED <<program, tcpVars, rttVars, diskVars>>

TcpStep ==
  /\ program = "tcp" /\ TcpNext
  /\ UNCHANGED <<program, schedVars, rttVars, diskVars>>

RttStep ==
  /\ program = "rtt" /\ RttNext
  /\ UNCHANGED <<program, schedVars, tcpVars, diskVars>>

DiskStep ==
  /\ program = "disk" /\ DiskNext
  /\ UNCHANGED <<program, schedVars, tcpVars, rttVars>>

NodeNext == SchedStep \/ TcpStep \/ RttStep \/ DiskStep

NodeSpec == NodeInit /\ [][NodeNext]_nodeVars

-----------------------------------------------------------------------------
(* Each program keeps to its types, and no map holds more than it has room   *)
(* for, although no program looks at the result of an update.               *)
NodeTypeOK == SchedTypeOK /\ TcpTypeOK /\ RttTypeOK /\ DiskTypeOK
=============================================================================

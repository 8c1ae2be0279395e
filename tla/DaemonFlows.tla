----------------------------- MODULE DaemonFlows -----------------------------
(***************************************************************************)
(* What flows through the goroutines of one daemon: DNS latencies from the   *)
(* kernel to their subscribers, connections to the list the API shows,        *)
(* processes to the pods they belong to, messages to the clients of /ws, and *)
(* metrics to those of /api/metrics/ws.                                     *)
(*                                                                          *)
(* None can hinder another, as none waits for what another holds: the pod    *)
(* of an event, which a collector asks for, is arbitrary in its flow.  So a  *)
(* behaviour is one of any single flow.                                     *)
(***************************************************************************)
EXTENDS DnsPipeline, ConnectionTracker, ContainerMapper, WebSocketHub, MetricsStream

VARIABLE flow \* the flow whose behaviour this is

flowVars == <<flow, vars, trackerVars, mapperVars, hubStateVars, streamVars>>

FlowInit ==
  /\ flow \in {"dns", "connections", "processes", "messages", "metrics"}
  /\ Init /\ TrackerInit /\ MapperInit /\ HubInit /\ StreamInit
  /\ flow # "processes" => \A p \in Procs : home[p] = Gone   \* irrelevant there

DnsFlow ==
  /\ flow = "dns" /\ Next
  /\ UNCHANGED <<flow, trackerVars, mapperVars, hubStateVars, streamVars>>

ConnectionsFlow ==
  /\ flow = "connections" /\ TrackerNext
  /\ UNCHANGED <<flow, vars, mapperVars, hubStateVars, streamVars>>

ProcessesFlow ==
  /\ flow = "processes" /\ MapperNext
  /\ UNCHANGED <<flow, vars, trackerVars, hubStateVars, streamVars>>

MessagesFlow ==
  /\ flow = "messages" /\ HubNext
  /\ UNCHANGED <<flow, vars, trackerVars, mapperVars, streamVars>>

MetricsFlow ==
  /\ flow = "metrics" /\ StreamNext
  /\ UNCHANGED <<flow, vars, trackerVars, mapperVars, hubStateVars>>

FlowNext == DnsFlow \/ ConnectionsFlow \/ ProcessesFlow \/ MessagesFlow \/ MetricsFlow

(* Every goroutine is scheduled, and metrics are published again and again;  *)
(* nothing else that has to happen is ever enabled in a flow that stands     *)
(* still.                                                                   *)
FlowSpec ==
  /\ FlowInit /\ [][FlowNext]_flowVars
  /\ Fairness /\ TrackerFairness /\ MapperFairness /\ HubFairness /\ StreamFairness
  /\ \A m \in Sources : SF_streamVars(flow = "metrics" /\ \E p \in Pushers : StartPush(p, m))

-----------------------------------------------------------------------------
(* Each flow keeps to its types and capacities: no ring, channel or map of   *)
(* bounded size holds more than it has room for.                            *)
FlowTypeOK == TypeOK /\ TrackerTypeOK /\ MapperTypeOK
=============================================================================

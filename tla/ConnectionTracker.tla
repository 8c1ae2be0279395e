-------------------------- MODULE ConnectionTracker --------------------------
(***************************************************************************)
(* The list of connections (pkg/telemetry/connection_tracker.go): the TCP    *)
(* collector hands it every event it reads from its ring, the API replaces   *)
(* the map from addresses to pods, and every 30 seconds what was not seen    *)
(* for two minutes is removed.  Events are lost when the ring is full, the   *)
(* one that tells of the end of a connection too.                           *)
(***************************************************************************)
EXTENDS BpfMap, Sequences

CONSTANTS
  Connections,  \* ConnectionKey
  SourceOf(_), DestOf(_), \* the addresses of its ends
  IPs,
  PodKeys,
  NoPod,        \* the empty string: an address outside, or unknown
  EventCap,     \* the events tcp_metrics_events has room for
  StaleTicks    \* ticks of 30 seconds in two minutes

ASSUME TrackerAssumption ==
  /\ \A k \in Connections : SourceOf(k) \in IPs /\ DestOf(k) \in IPs
  /\ NoPod \notin PodKeys
  /\ EventCap \in Nat /\ StaleTicks \in Nat

VARIABLES
  open,         \* the connections that are established in the kernel
  tcp_events,   \* tcp_metrics_events, oldest first
  tracking,     \* the event TrackConnection is at, with the pods it found
  tracked,      \* connections: what is shown of each
  podIPMap,
  mappings      \* per address: the pods it was ever mapped to; not in the code

trackerVars == <<open, tcp_events, tracking, tracked, podIPMap, mappings>>

Event == [key : Connections, established : BOOLEAN]
Pod == PodKeys \cup {NoPod}

(* What a connection shows; idle counts the ticks since it was last seen. *)
Shown == [source : Pod, dest : Pod, established : BOOLEAN, idle : 0 .. StaleTicks]

NoEvent == <<>>

TrackerInit ==
  /\ open = {}
  /\ tcp_events = <<>>
  /\ tracking = NoEvent
  /\ tracked = EmptyMap
  /\ podIPMap = [ip \in IPs |-> NoPod]
  /\ mappings = [ip \in IPs |-> {}]

-----------------------------------------------------------------------------
(* The kernel. *)

Emit(k, established) ==
  tcp_events' = IF Len(tcp_events) < EventCap
                THEN Append(tcp_events, [key |-> k, established |-> established])
                ELSE tcp_events

(* A connection is established, or there is something to report of it. *)
Traffic(k) ==
  /\ open' = open \cup {k}
  /\ Emit(k, TRUE)
  /\ UNCHANGED <<tracking, tracked, podIPMap, mappings>>

(* It leaves the established state. *)
Ends(k) ==
  /\ k \in open
  /\ open' = open \ {k}
  /\ Emit(k, FALSE)
  /\ UNCHANGED <<tracking, tracked, podIPMap, mappings>>

-----------------------------------------------------------------------------
(* The daemon. *)

(* updatePodIPMappingFromK8s, UpdatePodIPMapping: the map as a whole. *)
UpdatePodIPMapping(m) ==
  /\ podIPMap' = m
  /\ mappings' = [ip \in IPs |-> mappings[ip] \cup ({m[ip]} \ {NoPod})]
  /\ UNCHANGED <<open, tcp_events, tracking, tracked>>

(* The collector reads an event and looks up the pod of its source. *)
LookUpSource ==
  /\ tracking = NoEvent
  /\ tcp_events # <<>>
  /\ tcp_events' = Tail(tcp_events)
  /\ tracking' = <<Head(tcp_events), podIPMap[SourceOf(Head(tcp_events).key)]>>
  /\ UNCHANGED <<open, tracked, podIPMap, mappings>>

(* The pod of its target.  An event without any pod goes no further. *)
LookUpDest ==
  /\ Len(tracking) = 2
  /\ LET dest == podIPMap[DestOf(tracking[1].key)]
     IN tracking' = IF tracking[2] = NoPod /\ dest = NoPod THEN NoEvent
                    ELSE Append(tracking, dest)
  /\ UNCHANGED <<open, tcp_events, tracked, podIPMap, mappings>>

(* A pod that was found replaces the one shown. *)
Found(pod, shown) == IF pod # NoPod THEN pod ELSE shown

(* Faulty variant of Seen: the ends are mixed up. *)
SeenSwapped(e, source, dest) ==
  [source |-> dest, dest |-> source, established |-> e.established, idle |-> 0]

(* What is shown once an event was seen. *)
Seen(e, source, dest) ==
  LET old == IF e.key \in DOMAIN tracked THEN tracked[e.key]
             ELSE [source |-> NoPod, dest |-> NoPod]
  IN [source |-> Found(source, old.source), dest |-> Found(dest, old.dest),
      established |-> e.established, idle |-> 0]

(* The rest of TrackConnection, under the lock. *)
TrackConnection ==
  /\ Len(tracking) = 3
  /\ tracked' = Put(tracked, tracking[1].key, Seen(tracking[1], tracking[2], tracking[3]))
  /\ tracking' = NoEvent
  /\ UNCHANGED <<open, tcp_events, podIPMap, mappings>>

(* Faulty variant of Stale: what is established stays. *)
StaleClosed(k) == tracked[k].idle = StaleTicks /\ ~tracked[k].established

(* More than two minutes have passed at the tick that comes after as many    *)
(* as fit into them.                                                        *)
Stale(k) == tracked[k].idle = StaleTicks

(* cleanupStaleConnections. *)
CleanUp ==
  /\ tracked # EmptyMap
  /\ tracked' = [k \in {j \in DOMAIN tracked : ~Stale(j)} |->
                   [tracked[k] EXCEPT !.idle = IF @ < StaleTicks THEN @ + 1 ELSE @]]
  /\ UNCHANGED <<open, tcp_events, tracking, podIPMap, mappings>>

TrackerNext ==
  \/ \E k \in Connections : Traffic(k) \/ Ends(k)
  \/ \E m \in [IPs -> Pod] : UpdatePodIPMapping(m)
  \/ LookUpSource \/ LookUpDest \/ TrackConnection \/ CleanUp

(* The collector's goroutine is scheduled, and the ticker ticks. *)
TrackerFairness ==
  /\ WF_trackerVars(LookUpSource) /\ WF_trackerVars(LookUpDest)
  /\ WF_trackerVars(TrackConnection) /\ WF_trackerVars(CleanUp)

TrackerSpec == TrackerInit /\ [][TrackerNext]_trackerVars
TrackerFairSpec == TrackerSpec /\ TrackerFairness

-----------------------------------------------------------------------------
TrackerTypeOK ==
  /\ open \subseteq Connections
  /\ tcp_events \in Seq(Event) /\ Len(tcp_events) <= EventCap
  /\ \/ tracking = NoEvent
     \/ tracking \in Event \X Pod
     \/ tracking \in Event \X Pod \X Pod
  /\ DOMAIN tracked \subseteq Connections
  /\ tracked \in [DOMAIN tracked -> Shown]
  /\ podIPMap \in [IPs -> Pod]
  /\ mappings \in [IPs -> SUBSET PodKeys]

(* The map is replaced while an event is handled, between the two lookups    *)
(* too: each end still shows a pod that had the end's own address, and a     *)
(* connection is only listed with a pod at one end.                         *)
PodsWereMapped ==
  \A k \in DOMAIN tracked :
    /\ tracked[k].source \in mappings[SourceOf(k)] \cup {NoPod}
    /\ tracked[k].dest \in mappings[DestOf(k)] \cup {NoPod}
    /\ {tracked[k].source, tracked[k].dest} # {NoPod}

(* The event that tells of the end is lost, or handled late: a connection    *)
(* that is closed for good is in the end no longer shown as established      *)
(* (cleanupStaleConnections).                                               *)
ClosedAreNotEstablished ==
  \A k \in Connections :
    <>[](k \notin open) => <>[](k \in DOMAIN tracked => ~tracked[k].established)
=============================================================================

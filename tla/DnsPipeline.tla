----------------------------- MODULE DnsPipeline -----------------------------
(***************************************************************************)
(* DNS latency from the kernel to its subscribers.                          *)
(*                                                                          *)
(* In the kernel (ebpf/component-1-daemon/dns_latency.c) a probe on          *)
(* udp_sendmsg notes the time in the hash map dns_start, keyed by thread,    *)
(* and one on udp_recvmsg turns the entry into an event in the ring buffer   *)
(* dns_events.  Map and ring are bounded, and a probe cannot wait.           *)
(*                                                                          *)
(* In the daemon (pkg/telemetry/dns_latency_collector.go) one goroutine      *)
(* reads the ring, counts the event for the node and for a pod, and offers   *)
(* an update to every subscriber: the scaling controller and the router.     *)
(*                                                                          *)
(* A send is known by its number, which stands for its time stamp.           *)
(***************************************************************************)
EXTENDS Integers, Sequences, FiniteSets

CONSTANTS
  Threads,      \* the threads that use UDP
  Pods,         \* the pods of the node
  Subscribers,  \* those who may call Subscribe, once each
  StartCap,     \* max_entries of dns_start
  RingCap,      \* the events dns_events has room for
  ChanCap,      \* the capacity of a subscriber's channel
  MaxSends      \* bound on the sends of a behaviour

ASSUME PipelineAssumption ==
  /\ StartCap \in Nat /\ RingCap \in Nat /\ ChanCap \in Nat /\ MaxSends \in Nat
  /\ IsFiniteSet(Threads)

VARIABLES
  sent,         \* per thread: its last send, 0 for none; not in the code
  start,        \* per thread: its entry in dns_start, 0 for none
  sends,        \* sends so far
  ring,         \* dns_events, oldest first
  stage,        \* what the collector is at
  counted,      \* the sends whose events were counted; not in the code
  total,        \* dnsMetrics.TotalEvents
  pods,         \* per pod: podDNSMetrics[...].TotalEvents, 0 for no entry
  subs,         \* per subscriber: not subscribed, in the list, or closed
  queued,       \* per subscriber: the updates in its channel
  todo          \* notifySubscribers: the subscribers still to be offered it

kernelVars == <<sent, start, sends>>
countVars == <<counted, total, pods>>
subVars == <<subs, queued, todo>>
vars == <<kernelVars, ring, stage, countVars, subVars>>

Init ==
  /\ sent = [t \in Threads |-> 0]
  /\ start = [t \in Threads |-> 0]
  /\ sends = 0
  /\ ring = <<>>
  /\ stage = "idle"
  /\ counted = {}
  /\ total = 0
  /\ pods = [p \in Pods |-> 0]
  /\ subs = [s \in Subscribers |-> "none"]
  /\ queued = [s \in Subscribers |-> 0]
  /\ todo = {}

-----------------------------------------------------------------------------
(* The probes.                                                              *)

Entries == {t \in Threads : start[t] # 0}

(* Faulty variant of Store: BPF_NOEXIST in place of BPF_ANY. *)
StoreNew(t, n) ==
  IF t \notin Entries /\ Cardinality(Entries) < StartCap
  THEN start' = [start EXCEPT ![t] = n] ELSE UNCHANGED start

(* bpf_map_update_elem with BPF_ANY: a new key needs room, a failure goes    *)
(* unnoticed.                                                               *)
Store(t, n) ==
  IF t \in Entries \/ Cardinality(Entries) < StartCap
  THEN start' = [start EXCEPT ![t] = n] ELSE UNCHANGED start

(* dns_start_probe. *)
Send(t) ==
  /\ sends < MaxSends
  /\ sends' = sends + 1
  /\ sent' = [sent EXCEPT ![t] = sends + 1]
  /\ Store(t, sends + 1)
  /\ UNCHANGED <<ring, stage, countVars, subVars>>

(* dns_end_probe.  Without an entry, or without room in the ring, it does    *)
(* nothing at all: the entry then stays for the next receive.               *)
Receive(t) ==
  /\ t \in Entries
  /\ Len(ring) < RingCap
  /\ ring' = Append(ring, start[t])
  /\ start' = [start EXCEPT ![t] = 0]
  /\ UNCHANGED <<sent, sends, stage, countVars, subVars>>

-----------------------------------------------------------------------------
(* The collector's goroutine.                                               *)

(* The first half of updateDNSMetrics: the counters of the node. *)
CountNode(n) ==
  /\ counted' = counted \cup {n}
  /\ total' = total + 1

ReadRing ==
  /\ stage = "idle"
  /\ ring # <<>>
  /\ ring' = Tail(ring)
  /\ CountNode(Head(ring))
  /\ stage' = "counted"
  /\ UNCHANGED <<kernelVars, pods, subVars>>

(* The container mapper finds the pod of the PID, or the address does; both  *)
(* may be out of date, so it is any pod or none.                            *)
CountPod ==
  /\ stage = "counted"
  /\ stage' = "update"
  /\ \/ UNCHANGED pods
     \/ \E p \in Pods : pods' = [pods EXCEPT ![p] = @ + 1]
  /\ UNCHANGED <<kernelVars, ring, counted, total, subVars>>

Listening == {s \in Subscribers : subs[s] = "on"}

(* OnMetricUpdate looks up the pod again, by its address alone.  Without a   *)
(* pod, or without counts of it, nobody is notified; otherwise the           *)
(* subscribers are walked through under the read lock.                      *)
OnMetricUpdate ==
  /\ stage = "update"
  /\ \/ stage' = "idle" /\ UNCHANGED todo
     \/ /\ \E p \in Pods : pods[p] > 0
        /\ stage' = "notify"
        /\ todo' = Listening
  /\ UNCHANGED <<kernelVars, ring, countVars, subs, queued>>

(* Faulty variants of Offer: the channel has no limit; the send waits.       *)
OfferAlways(s) == queued' = [queued EXCEPT ![s] = @ + 1]
OfferWaits(s) == queued[s] < ChanCap /\ queued' = [queued EXCEPT ![s] = @ + 1]

(* A send that gives up when the channel is full. *)
Offer(s) ==
  IF queued[s] < ChanCap THEN queued' = [queued EXCEPT ![s] = @ + 1] ELSE UNCHANGED queued

NotifySubscriber(s) ==
  /\ stage = "notify"
  /\ s \in todo
  /\ Offer(s)
  /\ todo' = todo \ {s}
  /\ UNCHANGED <<kernelVars, ring, stage, countVars, subs>>

NotifyEnds ==
  /\ stage = "notify"
  /\ todo = {}
  /\ stage' = "idle"
  /\ UNCHANGED <<kernelVars, ring, countVars, subVars>>

-----------------------------------------------------------------------------
(* The subscribers.  Changes of the list exclude a notification.            *)

Locked == stage = "notify"

Subscribe(s) ==
  /\ ~Locked
  /\ subs[s] = "none"
  /\ subs' = [subs EXCEPT ![s] = "on"]
  /\ UNCHANGED <<kernelVars, ring, stage, countVars, queued, todo>>

(* Faulty variant of Unsubscribe: the lock is not taken. *)
UnsubscribeUnlocked(s) ==
  /\ subs[s] = "on"
  /\ subs' = [subs EXCEPT ![s] = "closed"]
  /\ UNCHANGED <<kernelVars, ring, stage, countVars, queued, todo>>

(* The channel leaves the list and is closed. *)
Unsubscribe(s) ==
  /\ ~Locked
  /\ subs[s] = "on"
  /\ subs' = [subs EXCEPT ![s] = "closed"]
  /\ UNCHANGED <<kernelVars, ring, stage, countVars, queued, todo>>

(* The loop over the channel takes an update; nothing says when. *)
Take(s) ==
  /\ queued[s] > 0
  /\ queued' = [queued EXCEPT ![s] = @ - 1]
  /\ UNCHANGED <<kernelVars, ring, stage, countVars, subs, todo>>

Next ==
  \/ \E t \in Threads : Send(t) \/ Receive(t)
  \/ ReadRing \/ CountPod \/ OnMetricUpdate \/ NotifyEnds
  \/ \E s \in Subscribers :
       NotifySubscriber(s) \/ Subscribe(s) \/ Unsubscribe(s) \/ Take(s)

(* The collector's goroutine is scheduled.  The subscribers need not be.     *)
Fairness ==
  /\ WF_vars(ReadRing) /\ WF_vars(CountPod)
  /\ WF_vars(OnMetricUpdate) /\ WF_vars(NotifyEnds)
  /\ \A s \in Subscribers : WF_vars(NotifySubscriber(s))

Spec == Init /\ [][Next]_vars
FairSpec == Spec /\ Fairness

-----------------------------------------------------------------------------
TypeOK ==
  /\ sends \in Nat
  /\ sent \in [Threads -> 0 .. sends]
  /\ start \in [Threads -> 0 .. sends]
  /\ ring \in Seq(1 .. sends) /\ Len(ring) <= RingCap
  /\ stage \in {"idle", "counted", "update", "notify"}
  /\ counted \subseteq 1 .. sends
  /\ total \in Nat
  /\ pods \in [Pods -> Nat]
  /\ subs \in [Subscribers -> {"none", "on", "closed"}]
  /\ queued \in [Subscribers -> 0 .. ChanCap]
  /\ todo \subseteq Subscribers

(* What is measured is always the thread's last send: neither a full map,    *)
(* where updates fail unnoticed, nor a full ring, where the entry is kept,   *)
(* ever lets an earlier send be measured in place of a later one.           *)
LastSendMeasured == \A t \in Entries : start[t] = sent[t]

InRing == {ring[i] : i \in DOMAIN ring}

(* Probes of many threads, a ring that fills up and a collector that lags    *)
(* behind: no send is counted twice, so the totals the averages are taken    *)
(* from are those of distinct requests.                                     *)
CountedOnce ==
  /\ \A i, j \in DOMAIN ring : ring[i] = ring[j] => i = j
  /\ InRing \cap counted = {}
  /\ total = Cardinality(counted)

(* Threads that send again before they receive, entries that find no room,   *)
(* events that wait in a full ring: what reaches the ring measures from the  *)
(* thread's last send, and no send reaches it twice.                        *)
DnsWatch == INSTANCE Stopwatch WITH
  Keys <- Threads,
  started <- sent,
  reported <- InRing \cup counted,
  reports <- total + Len(ring)

MeasuresLastSend == DnsWatch!Spec

(* A subscriber that unsubscribes while it is about to be notified: nothing  *)
(* is sent on its channel after that was closed, which would panic.         *)
NoSendOnClosed == \A s \in todo : subs[s] = "on"

(* A subscriber that never reads its channel does not hold up the collector: *)
(* every event that got into the ring is counted (notifySubscribers).       *)
RingDrains == \A n \in 1 .. MaxSends : (n \in InRing) ~> (n \in counted)
=============================================================================

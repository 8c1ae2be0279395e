-------------------------- MODULE DaemonFlowsProofs --------------------------
(* What the flows of a daemon promise of latencies, connections, processes,  *)
(* messages and metrics, for any number of clients, connections, processes   *)
(* and goroutines and any capacities.  Flows share no variable; a theorem is *)
(* of the one it is about.                                                   *)
EXTENDS DaemonFlows, SequenceTheorems, FiniteSetTheorems, TLAPS

(* DNS latencies.                                                            *)

(* The sends that are in the map, in the ring or counted are all different.  *)
Fresh ==
  /\ \A t \in Entries : start[t] \notin InRing \cup counted
  /\ \A t, u \in Entries : start[t] = start[u] => t = u

Finite == IsFiniteSet(counted)

IInv == TypeOK /\ LastSendMeasured /\ CountedOnce /\ Fresh /\ Finite

(* What follows a stored entry: nothing changed, or the thread has the new   *)
(* send for its entry.                                                       *)
LEMMA StoreEffect ==
  ASSUME NEW t \in Threads, NEW n, Store(t, n)
  PROVE  \/ start' = [start EXCEPT ![t] = n]
         \/ start' = start /\ t \notin Entries
BY DEF Store

(* The initial state satisfies the invariant.                                *)
LEMMA InitIInv == Init => IInv
<1> SUFFICES ASSUME Init PROVE IInv
  OBVIOUS
<1>1. TypeOK
  BY PipelineAssumption DEF Init, TypeOK
<1>2. Entries = {} /\ InRing = {}
  BY DEF Init, Entries, InRing
<1>3. Cardinality({}) = 0 /\ IsFiniteSet({})
  BY FS_EmptySet
<1> QED
  BY <1>1, <1>2, <1>3 DEF Init, IInv, LastSendMeasured, CountedOnce, Fresh, Finite

(* Steps that touch neither the kernel's maps nor the counts of sends.       *)
LEMMA Elsewhere ==
  ASSUME IInv, TypeOK', UNCHANGED <<kernelVars, ring, counted, total>>
  PROVE  IInv'
<1>1. Entries' = Entries /\ InRing' = InRing
  BY DEF Entries, InRing, kernelVars
<1> QED
  BY <1>1 DEF IInv, LastSendMeasured, CountedOnce, Fresh, Finite, kernelVars

(* A new send has a number that is in use nowhere.                           *)
LEMMA SendIInv ==
  ASSUME IInv, NEW t \in Threads, Send(t)
  PROVE  IInv'
<1> DEFINE n == sends + 1
<1>1. /\ n \in Nat /\ sends \in Nat /\ sends' = n
      /\ sent' = [sent EXCEPT ![t] = n] /\ ring' = ring
      /\ UNCHANGED <<stage, counted, total, pods, subs, queued, todo>>
  BY DEF IInv, TypeOK, Send, countVars, subVars
<1>2. \/ start' = [start EXCEPT ![t] = n]
      \/ start' = start /\ t \notin Entries
  BY StoreEffect DEF Send
<1>3. TypeOK'
  <2>1. 0 .. sends \subseteq 0 .. n /\ 1 .. sends \subseteq 1 .. n /\ n \in 0 .. n
    BY <1>1
  <2>2. ring' \in Seq(1 .. sends') /\ Len(ring') <= RingCap
    BY <1>1, <2>1 DEF IInv, TypeOK
  <2>3. start' \in [Threads -> 0 .. n] /\ sent' \in [Threads -> 0 .. n]
    BY <1>1, <1>2, <2>1 DEF IInv, TypeOK
  <2> QED
    BY <1>1, <2>1, <2>2, <2>3 DEF IInv, TypeOK
<1>4. InRing' = InRing
  BY <1>1 DEF InRing
<1>5. n \notin InRing \cup counted
  <2>1. \A i \in DOMAIN ring : ring[i] \in 1 .. sends
    BY DEF IInv, TypeOK
  <2> QED
    BY <1>1, <2>1 DEF InRing, IInv, TypeOK
<1>6. \A u \in Entries : start[u] # n
  BY <1>1 DEF IInv, TypeOK, Entries
<1>7. Entries' \subseteq Entries \cup {t}
  BY <1>1, <1>2 DEF Entries, IInv, TypeOK
<1>8. \A u \in Entries' : start'[u] = IF u = t THEN n ELSE start[u]
  BY <1>1, <1>2, <1>7 DEF Entries, IInv, TypeOK
<1>9. LastSendMeasured'
  BY <1>1, <1>7, <1>8 DEF IInv, LastSendMeasured, TypeOK
<1>10. Fresh'
  BY <1>1, <1>4, <1>5, <1>6, <1>7, <1>8 DEF IInv, Fresh
<1> QED
  BY <1>1, <1>3, <1>4, <1>9, <1>10 DEF IInv, CountedOnce, Finite

(* What a receive does to the ring.                                          *)
LEMMA ReceiveAppends ==
  ASSUME IInv, NEW t \in Threads, Receive(t)
  PROVE  /\ start[t] \in 1 .. sends /\ start[t] \notin InRing \cup counted
         /\ InRing' = InRing \cup {start[t]}
         /\ \A i, j \in DOMAIN ring' : ring'[i] = ring'[j] => i = j
<1>1. t \in Entries /\ ring' = Append(ring, start[t])
  BY DEF Receive
<1>2. start[t] \in 1 .. sends
  BY <1>1 DEF IInv, TypeOK, Entries
<1>3. /\ DOMAIN ring' = 1 .. Len(ring) + 1 /\ DOMAIN ring = 1 .. Len(ring)
      /\ \A i \in 1 .. Len(ring) : ring'[i] = ring[i]
      /\ ring'[Len(ring) + 1] = start[t]
      /\ Len(ring) \in Nat
  BY <1>1, <1>2 DEF IInv, TypeOK
<1>4. InRing' = InRing \cup {start[t]}
  BY <1>3 DEF InRing
<1>5. start[t] \notin InRing \cup counted
  BY <1>1 DEF IInv, Fresh
<1>6. \A i, j \in DOMAIN ring' : ring'[i] = ring'[j] => i = j
  BY <1>3, <1>5 DEF IInv, CountedOnce, InRing
<1> QED
  BY <1>2, <1>4, <1>5, <1>6

(* An entry moves from the map to the ring.                                  *)
LEMMA ReceiveIInv ==
  ASSUME IInv, NEW t \in Threads, Receive(t)
  PROVE  IInv'
<1>1. /\ t \in Entries /\ ring' = Append(ring, start[t])
      /\ start' = [start EXCEPT ![t] = 0] /\ Len(ring) < RingCap
      /\ UNCHANGED <<sent, sends, stage, counted, total, pods, subs, queued, todo>>
  BY DEF Receive, countVars, subVars
<1>2. start[t] \in 1 .. sends
  BY <1>1 DEF IInv, TypeOK, Entries
<1>3. TypeOK'
  <2>1. ring' \in Seq(1 .. sends) /\ Len(ring') = Len(ring) + 1
    BY <1>1, <1>2 DEF IInv, TypeOK
  <2>2. Len(ring) + 1 <= RingCap
    BY <1>1, PipelineAssumption DEF IInv, TypeOK
  <2> QED
    BY <1>1, <2>1, <2>2 DEF IInv, TypeOK
<1>4. Entries' = Entries \ {t} /\ \A u \in Entries' : start'[u] = start[u]
  BY <1>1 DEF Entries, IInv, TypeOK
<1>6. InRing' = InRing \cup {start[t]} /\ start[t] \notin InRing \cup counted
  BY ReceiveAppends
<1>8. \A i, j \in DOMAIN ring' : ring'[i] = ring'[j] => i = j
  BY ReceiveAppends
<1>9. LastSendMeasured'
  BY <1>1, <1>4 DEF IInv, LastSendMeasured
<1>10. Fresh'
  BY <1>1, <1>4, <1>6 DEF IInv, Fresh
<1> QED
  BY <1>1, <1>3, <1>6, <1>8, <1>9, <1>10 DEF IInv, CountedOnce, Finite

(* What the collector takes from the ring.                                   *)
LEMMA ReadRingTakes ==
  ASSUME IInv, ReadRing
  PROVE  /\ Head(ring) \in 1 .. sends /\ Head(ring) \in InRing /\ Head(ring) \notin counted
         /\ InRing' = InRing \ {Head(ring)}
<1> DEFINE n == Head(ring)
<1>1. ring # <<>> /\ ring' = Tail(ring)
  BY DEF ReadRing
<1>2. /\ Len(ring) \in Nat \ {0} /\ DOMAIN ring = 1 .. Len(ring) /\ n = ring[1]
      /\ DOMAIN ring' = 1 .. Len(ring) - 1
      /\ \A i \in DOMAIN ring' : ring'[i] = ring[i + 1]
  BY <1>1 DEF IInv, TypeOK
<1>3. n \in 1 .. sends /\ n \in InRing /\ n \notin counted
  <2>1. 1 \in DOMAIN ring
    BY <1>2
  <2>2. ring[1] \in 1 .. sends
    BY <2>1 DEF IInv, TypeOK
  <2>3. ring[1] \in InRing
    BY <2>1 DEF InRing
  <2> QED
    BY <1>2, <2>2, <2>3 DEF IInv, CountedOnce
<1>4. InRing' = InRing \ {n}
  <2>1. \A i, j \in 1 .. Len(ring) : ring[i] = ring[j] => i = j
    BY <1>2 DEF IInv, CountedOnce
  <2>2. InRing = {ring[i] : i \in 1 .. Len(ring)}
    BY <1>2 DEF InRing
  <2>3. InRing' = {ring[i + 1] : i \in 1 .. Len(ring) - 1}
    BY <1>2 DEF InRing
  <2>4. ASSUME NEW x \in InRing', x \notin InRing \ {n} PROVE FALSE
    BY <1>2, <2>1, <2>2, <2>3, <2>4
  <2>5. ASSUME NEW x \in InRing \ {n} PROVE x \in InRing'
    <3>1. PICK i \in 1 .. Len(ring) : x = ring[i]
      BY <2>2
    <3>2. i - 1 \in 1 .. Len(ring) - 1 /\ (i - 1) + 1 = i
      BY <1>2, <2>5, <3>1
    <3> QED
      BY <2>3, <3>1, <3>2
  <2> QED
    BY <2>4, <2>5
<1> QED
  BY <1>3, <1>4

(* The oldest event moves from the ring to the counts.                       *)
LEMMA ReadRingIInv ==
  ASSUME IInv, ReadRing
  PROVE  IInv'
<1> DEFINE n == Head(ring)
<1>1. /\ ring # <<>> /\ ring' = Tail(ring) /\ counted' = counted \cup {n}
      /\ total' = total + 1 /\ stage' = "counted"
      /\ UNCHANGED <<sent, start, sends, pods, subs, queued, todo>>
  BY DEF ReadRing, CountNode, kernelVars, subVars
<1>2. /\ Len(ring) \in Nat \ {0} /\ DOMAIN ring = 1 .. Len(ring) /\ n = ring[1]
      /\ DOMAIN ring' = 1 .. Len(ring) - 1
      /\ \A i \in DOMAIN ring' : ring'[i] = ring[i + 1]
  BY <1>1 DEF IInv, TypeOK
<1>3. n \in 1 .. sends /\ n \in InRing /\ n \notin counted
  BY ReadRingTakes
<1>4. TypeOK'
  <2>1. ring' \in Seq(1 .. sends) /\ Len(ring') = Len(ring) - 1
    BY <1>1 DEF IInv, TypeOK
  <2>2. Len(ring') <= RingCap
    BY <1>2, <2>1, PipelineAssumption DEF IInv, TypeOK
  <2>3. counted' \subseteq 1 .. sends /\ total' \in Nat
    <3>1. counted \subseteq 1 .. sends /\ total \in Nat
      BY DEF IInv, TypeOK
    <3>2. total' \in Nat
      BY <1>1, <3>1
    <3>3. counted' = counted \cup {n} /\ n \in 1 .. sends
      BY <1>1, <1>3
    <3> HIDE DEF n
    <3> QED
      BY <3>1, <3>2, <3>3
  <2> QED
    BY <1>1, <2>1, <2>2, <2>3 DEF IInv, TypeOK
<1>5. InRing' = InRing \ {n}
  BY ReadRingTakes
<1>6. \A i, j \in DOMAIN ring' : ring'[i] = ring'[j] => i = j
  BY <1>2 DEF IInv, CountedOnce
<1>7. Cardinality(counted') = Cardinality(counted) + 1 /\ IsFiniteSet(counted')
  BY <1>1, <1>3, FS_AddElement DEF IInv, Finite
<1>8. CountedOnce'
  BY <1>1, <1>5, <1>6, <1>7 DEF IInv, CountedOnce
<1>9. Entries' = Entries
  BY <1>1 DEF Entries
<1>10. Fresh' /\ LastSendMeasured'
  BY <1>1, <1>3, <1>5, <1>9 DEF IInv, Fresh, LastSendMeasured
<1> QED
  BY <1>4, <1>7, <1>8, <1>10 DEF IInv, Finite

(* One step per action.                                                      *)
LEMMA NextIInv == IInv /\ [Next]_vars => IInv'
<1> SUFFICES ASSUME IInv, [Next]_vars PROVE IInv'
  OBVIOUS
<1>1. ASSUME NEW t \in Threads, Send(t) PROVE IInv'
  BY <1>1, SendIInv
<1>2. ASSUME NEW t \in Threads, Receive(t) PROVE IInv'
  BY <1>2, ReceiveIInv
<1>3. CASE ReadRing
  BY <1>3, ReadRingIInv
<1>4. CASE CountPod
  <2>1. TypeOK'
    BY <1>4 DEF CountPod, IInv, TypeOK, kernelVars, subVars
  <2> QED
    BY <1>4, <2>1, Elsewhere DEF CountPod
<1>5. CASE OnMetricUpdate
  <2>1. TypeOK'
    BY <1>5 DEF OnMetricUpdate, Listening, IInv, TypeOK, kernelVars, countVars
  <2> QED
    BY <1>5, <2>1, Elsewhere DEF OnMetricUpdate, countVars
<1>6. CASE NotifyEnds
  <2>1. TypeOK'
    BY <1>6 DEF NotifyEnds, IInv, TypeOK, kernelVars, countVars, subVars
  <2> QED
    BY <1>6, <2>1, Elsewhere DEF NotifyEnds, countVars
<1>7. ASSUME NEW s \in Subscribers, NotifySubscriber(s) PROVE IInv'
  <2>1. queued' \in [Subscribers -> 0 .. ChanCap]
    <3>1. CASE queued[s] < ChanCap
      <4>1. queued[s] + 1 \in 0 .. ChanCap
        BY <1>7, <3>1, PipelineAssumption DEF IInv, TypeOK
      <4> QED
        BY <1>7, <3>1, <4>1 DEF NotifySubscriber, Offer, IInv, TypeOK
    <3>2. CASE ~(queued[s] < ChanCap)
      BY <1>7, <3>2 DEF NotifySubscriber, Offer, IInv, TypeOK
    <3> QED
      BY <3>1, <3>2
  <2>2. TypeOK'
    BY <1>7, <2>1 DEF NotifySubscriber, IInv, TypeOK, kernelVars, countVars
  <2> QED
    BY <1>7, <2>2, Elsewhere DEF NotifySubscriber, countVars
<1>8. ASSUME NEW s \in Subscribers, Subscribe(s) \/ Unsubscribe(s) PROVE IInv'
  <2>1. TypeOK'
    BY <1>8 DEF Subscribe, Unsubscribe, IInv, TypeOK, kernelVars, countVars
  <2> QED
    BY <1>8, <2>1, Elsewhere DEF Subscribe, Unsubscribe, countVars
<1>9. ASSUME NEW s \in Subscribers, Take(s) PROVE IInv'
  <2>1. queued' \in [Subscribers -> 0 .. ChanCap]
    BY <1>9, PipelineAssumption DEF Take, IInv, TypeOK
  <2>2. TypeOK'
    BY <1>9, <2>1 DEF Take, IInv, TypeOK, kernelVars, countVars
  <2> QED
    BY <1>9, <2>2, Elsewhere DEF Take, countVars
<1>10. CASE UNCHANGED vars
  <2>1. TypeOK'
    BY <1>10 DEF vars, kernelVars, countVars, subVars, IInv, TypeOK
  <2> QED
    BY <1>10, <2>1, Elsewhere DEF vars, countVars
<1> QED
  BY <1>1, <1>2, <1>3, <1>4, <1>5, <1>6, <1>7, <1>8, <1>9, <1>10 DEF Next

(* Probes, collector and subscribers keep to their types: the ring and the   *)
(* channels never hold more than they have room for.                         *)
THEOREM PipelineTypeCorrect == Spec => []TypeOK
<1>1. IInv => TypeOK
  BY DEF IInv
<1> QED
  BY <1>1, InitIInv, NextIInv, PTL DEF Spec

(* Whatever the map and the ring drop, a measurement starts at the thread's  *)
(* last send (dns_start_probe, dns_end_probe).                               *)
THEOREM LastSends == Spec => []LastSendMeasured
<1>1. IInv => LastSendMeasured
  BY DEF IInv
<1> QED
  BY <1>1, InitIInv, NextIInv, PTL DEF Spec

(* No send is counted twice, and the total is the number of distinct sends   *)
(* counted (dns_end_probe, updateDNSMetrics).                                *)
THEOREM CountingIsExact == Spec => []CountedOnce
<1>1. IInv => CountedOnce
  BY DEF IInv
<1> QED
  BY <1>1, InitIInv, NextIInv, PTL DEF Spec

(* The collector never sends on a channel that was closed: the list is only  *)
(* changed while nobody is being notified (notifySubscribers, Unsubscribe).  *)
THEOREM SendsAreSafe == Spec => []NoSendOnClosed
<1> DEFINE Inv == NoSendOnClosed /\ (stage # "notify" => todo = {})
<1>1. Init => Inv
  BY DEF Init, NoSendOnClosed
<1>2. Inv /\ TypeOK /\ [Next]_vars => Inv'
  <2> SUFFICES ASSUME Inv, TypeOK, [Next]_vars PROVE Inv'
    OBVIOUS
  <2>1. CASE UNCHANGED <<stage, subs, todo>>
    BY <2>1 DEF NoSendOnClosed
  <2>2. CASE ReadRing \/ CountPod
    BY <2>2 DEF ReadRing, CountPod, subVars, NoSendOnClosed
  <2>3. CASE OnMetricUpdate
    BY <2>3 DEF OnMetricUpdate, Listening, NoSendOnClosed
  <2>4. CASE NotifyEnds
    BY <2>4 DEF NotifyEnds, subVars, NoSendOnClosed
  <2>5. ASSUME NEW s \in Subscribers, NotifySubscriber(s) PROVE Inv'
    BY <2>5 DEF NotifySubscriber, NoSendOnClosed
  <2>6. ASSUME NEW s \in Subscribers, Subscribe(s) \/ Unsubscribe(s) PROVE Inv'
    BY <2>6 DEF Subscribe, Unsubscribe, Locked, NoSendOnClosed
  <2> QED
    BY <2>1, <2>2, <2>3, <2>4, <2>5, <2>6
    DEF Next, Send, Receive, Take, vars, subVars
<1>3. Inv => NoSendOnClosed
  OBVIOUS
<1> QED
  BY <1>1, <1>2, <1>3, PipelineTypeCorrect, PTL DEF Spec

(* At the start nothing was sent or reported.                                *)
LEMMA InitWatch == Init => DnsWatch!Init
<1> SUFFICES ASSUME Init PROVE DnsWatch!Init
  OBVIOUS
<1>1. InRing = {} /\ counted = {} /\ total + Len(ring) = 0
  BY DEF Init, InRing
<1> QED
  BY <1>1 DEF Init, DnsWatch!Init

(* Every step is a start, a report or neither.                               *)
LEMMA NextWatch == IInv /\ [Next]_vars => [DnsWatch!Next]_<<sent, InRing \cup counted, total + Len(ring)>>
<1> SUFFICES ASSUME IInv, [Next]_vars
             PROVE  DnsWatch!Next \/ UNCHANGED <<sent, InRing \cup counted, total + Len(ring)>>
  OBVIOUS
<1>1. ASSUME NEW t \in Threads, Send(t) PROVE DnsWatch!Next
  <2>1. sent' = [sent EXCEPT ![t] = sends + 1] /\ UNCHANGED <<ring, counted, total>>
    BY <1>1 DEF Send, countVars
  <2>2. sent'[t] = sends + 1 /\ sent'[t] \in Nat /\ \A u \in Threads : sent[u] < sent'[t]
    BY <2>1 DEF IInv, TypeOK
  <2>3. (InRing \cup counted)' = InRing \cup counted
    BY <2>1 DEF InRing
  <2>4. DnsWatch!Start(t)
    BY <2>1, <2>2, <2>3 DEF DnsWatch!Start
  <2> QED
    BY <2>4 DEF DnsWatch!Next
<1>2. ASSUME NEW t \in Threads, Receive(t) PROVE DnsWatch!Next
  <2>1. start[t] = sent[t] /\ UNCHANGED <<sent, counted, total>>
    BY <1>2 DEF Receive, countVars, IInv, LastSendMeasured
  <2>2. sent[t] # 0 /\ sent[t] \notin InRing \cup counted
    BY <1>2, <2>1, ReceiveAppends
  <2>3. (InRing \cup counted)' = (InRing \cup counted) \cup {sent[t]}
    BY <1>2, <2>1, ReceiveAppends
  <2>4. (total + Len(ring))' = (total + Len(ring)) + 1
    <3>1. ring' = Append(ring, start[t]) /\ ring \in Seq(1 .. sends) /\ start[t] \in 1 .. sends
      BY <1>2, ReceiveAppends DEF Receive, IInv, TypeOK
    <3>2. Len(ring') = Len(ring) + 1
      BY <3>1
    <3> QED
      BY <2>1, <3>1, <3>2 DEF IInv, TypeOK
  <2>5. DnsWatch!Report(t)
    BY <2>1, <2>2, <2>3, <2>4 DEF DnsWatch!Report
  <2> QED
    BY <2>5 DEF DnsWatch!Next
<1>3. CASE ReadRing
  <2>1. sent' = sent /\ counted' = counted \cup {Head(ring)}
    BY <1>3 DEF ReadRing, CountNode, kernelVars
  <2>2. Head(ring) \in InRing /\ InRing' = InRing \ {Head(ring)}
    BY <1>3, ReadRingTakes
  <2>3. (total + Len(ring))' = total + Len(ring)
    <3>1. ring # <<>> /\ ring' = Tail(ring) /\ ring \in Seq(1 .. sends) /\ total' = total + 1
      BY <1>3 DEF ReadRing, CountNode, IInv, TypeOK
    <3>2. Len(ring') = Len(ring) - 1 /\ Len(ring) \in Nat
      BY <3>1
    <3> QED
      BY <3>1, <3>2 DEF IInv, TypeOK
  <2> QED
    BY <2>1, <2>2, <2>3
<1>4. CASE UNCHANGED <<sent, ring, counted, total>>
  BY <1>4 DEF InRing
<1> QED
  BY <1>1, <1>2, <1>3, <1>4
  DEF Next, CountPod, OnMetricUpdate, NotifyEnds, NotifySubscriber, Subscribe,
      Unsubscribe, Take, vars, kernelVars, countVars

(* Probes and collector implement the stopwatch: whatever finds no room, a   *)
(* report measures from its thread's latest send and none is made twice      *)
(* (dns_start_probe, dns_end_probe, updateDNSMetrics).                       *)
THEOREM MeasuringIsFaithful == Spec => MeasuresLastSend
BY InitWatch, NextWatch, InitIInv, NextIInv, PTL DEF Spec, MeasuresLastSend, DnsWatch!Spec

-----------------------------------------------------------------------------
(* Connections.                                                              *)

(* A pod that was found for an end had the end's address once, and what goes *)
(* to the list has a pod at one end.                                         *)
LookedUp ==
  /\ Len(tracking) >= 2 => tracking[2] \in mappings[SourceOf(tracking[1].key)] \cup {NoPod}
  /\ Len(tracking) = 3 =>
       /\ tracking[3] \in mappings[DestOf(tracking[1].key)] \cup {NoPod}
       /\ {tracking[2], tracking[3]} # {NoPod}

(* The map has no pod an address was not mapped to.                          *)
MapRemembered == \A ip \in IPs : podIPMap[ip] \in mappings[ip] \cup {NoPod}

TrackerInv == TrackerTypeOK /\ PodsWereMapped /\ LookedUp /\ MapRemembered

LEMMA TrackerInitInv == TrackerInit => TrackerInv
<1> SUFFICES ASSUME TrackerInit PROVE TrackerInv
  OBVIOUS
<1>1. DOMAIN tracked = {} /\ tracked \in [DOMAIN tracked -> Shown]
  BY DEF TrackerInit, EmptyMap
<1>2. tcp_events \in Seq(Event) /\ Len(tcp_events) <= EventCap
  BY TrackerAssumption DEF TrackerInit
<1>3. TrackerTypeOK
  BY <1>1, <1>2 DEF TrackerInit, TrackerTypeOK, Pod
<1>4. LookedUp
  BY DEF TrackerInit, NoEvent, LookedUp
<1> QED
  BY <1>1, <1>3, <1>4 DEF TrackerInit, TrackerInv, PodsWereMapped, MapRemembered

(* The three forms of an event on its way differ in length.                  *)
LEMMA TrackingForms ==
  ASSUME TrackerTypeOK
  PROVE  \/ tracking = NoEvent /\ Len(tracking) = 0
         \/ /\ tracking \in Event \X Pod /\ Len(tracking) = 2
            /\ tracking = <<tracking[1], tracking[2]>>
         \/ /\ tracking \in Event \X Pod \X Pod /\ Len(tracking) = 3
            /\ tracking = <<tracking[1], tracking[2], tracking[3]>>
<1>1. CASE tracking = NoEvent
  BY <1>1 DEF NoEvent
<1>2. CASE tracking \in Event \X Pod
  <2>1. PICK e \in Event, source \in Pod : tracking = <<e, source>>
    BY <1>2
  <2> QED
    BY <1>2, <2>1
<1>3. CASE tracking \in Event \X Pod \X Pod
  <2>1. PICK e \in Event, source \in Pod, dest \in Pod : tracking = <<e, source, dest>>
    BY <1>3
  <2> QED
    BY <1>3, <2>1
<1> QED
  BY <1>1, <1>2, <1>3 DEF TrackerTypeOK

(* What the kernel does touches none of the pods.                            *)
LEMMA EmitInv ==
  ASSUME TrackerInv, NEW k \in Connections, NEW established \in BOOLEAN,
         Emit(k, established), open' \subseteq Connections,
         UNCHANGED <<tracking, tracked, podIPMap, mappings>>
  PROVE  TrackerInv'
<1>1. tcp_events' \in Seq(Event) /\ Len(tcp_events') <= EventCap
  <2>1. [key |-> k, established |-> established] \in Event
    BY DEF Event
  <2> QED
    BY <2>1, TrackerAssumption DEF Emit, TrackerInv, TrackerTypeOK
<1>2. TrackerTypeOK'
  BY <1>1 DEF TrackerInv, TrackerTypeOK
<1> QED
  BY <1>2 DEF TrackerInv, PodsWereMapped, LookedUp, MapRemembered

LEMMA UpdateMappingInv ==
  ASSUME TrackerInv, NEW m \in [IPs -> Pod], UpdatePodIPMapping(m)
  PROVE  TrackerInv'
<1>1. /\ podIPMap' = m /\ UNCHANGED <<open, tcp_events, tracking, tracked>>
      /\ mappings' = [ip \in IPs |-> mappings[ip] \cup ({m[ip]} \ {NoPod})]
  BY DEF UpdatePodIPMapping
<1>2. mappings' \in [IPs -> SUBSET PodKeys] /\ \A ip \in IPs : mappings[ip] \subseteq mappings'[ip]
  BY <1>1 DEF TrackerInv, TrackerTypeOK, Pod
<1>3. TrackerTypeOK'
  BY <1>1, <1>2 DEF TrackerInv, TrackerTypeOK
<1>4. PodsWereMapped'
  BY <1>1, <1>2, TrackerAssumption DEF TrackerInv, TrackerTypeOK, PodsWereMapped
<1>5. LookedUp'
  <2>1. Len(tracking) >= 2 =>
          SourceOf(tracking[1].key) \in IPs /\ DestOf(tracking[1].key) \in IPs
    BY TrackerAssumption DEF TrackerInv, TrackerTypeOK, NoEvent, Event
  <2> QED
    BY <1>1, <1>2, <2>1 DEF TrackerInv, LookedUp
<1>6. MapRemembered'
  BY <1>1 DEF MapRemembered
<1> QED
  BY <1>3, <1>4, <1>5, <1>6 DEF TrackerInv

LEMMA LookUpSourceInv ==
  ASSUME TrackerInv, LookUpSource
  PROVE  TrackerInv'
<1> DEFINE e == Head(tcp_events)
<1>1. /\ e \in Event /\ tcp_events' = Tail(tcp_events)
      /\ tcp_events' \in Seq(Event) /\ Len(tcp_events') <= EventCap
      /\ tracking' = <<e, podIPMap[SourceOf(e.key)]>>
      /\ UNCHANGED <<open, tracked, podIPMap, mappings>>
  BY TrackerAssumption DEF LookUpSource, TrackerInv, TrackerTypeOK
<1> HIDE DEF e
<1>2. SourceOf(e.key) \in IPs
  BY <1>1, TrackerAssumption DEF Event
<1>3. podIPMap[SourceOf(e.key)] \in Pod
  BY <1>2 DEF TrackerInv, TrackerTypeOK
<1>4. tracking' \in Event \X Pod
  BY <1>1, <1>3
<1>5. TrackerTypeOK'
  BY <1>1, <1>4 DEF TrackerInv, TrackerTypeOK
<1>6. LookedUp'
  BY <1>1, <1>2 DEF TrackerInv, MapRemembered, LookedUp
<1> QED
  BY <1>1, <1>5, <1>6 DEF TrackerInv, PodsWereMapped, MapRemembered

LEMMA AppendToPair ==
  ASSUME NEW a, NEW b, NEW c
  PROVE  Append(<<a, b>>, c) = <<a, b, c>>
<1> DEFINE s == Append(<<a, b>>, c)
           t == <<a, b, c>>
<1>1. /\ s \in Seq({a, b, c}) /\ t \in Seq({a, b, c})
      /\ Len(s) = 3 /\ Len(t) = 3
      /\ s[1] = t[1] /\ s[2] = t[2] /\ s[3] = t[3]
  <2>1. <<a, b>> \in Seq({a, b, c}) /\ Len(<<a, b>>) = 2
    OBVIOUS
  <2> QED
    BY <2>1
<1> HIDE DEF s, t
<1>2. \A i \in 1 .. Len(s) : s[i] = t[i]
  BY <1>1
<1>3. s = t
  BY <1>1, <1>2, SeqEqual
<1> QED
  BY <1>3 DEF s, t

LEMMA LookUpDestInv ==
  ASSUME TrackerInv, LookUpDest
  PROVE  TrackerInv'
<1> DEFINE e == tracking[1]
           dest == podIPMap[DestOf(e.key)]
<1>1. /\ tracking \in Event \X Pod /\ Len(tracking) = 2
      /\ tracking = <<tracking[1], tracking[2]>>
      /\ UNCHANGED <<open, tcp_events, tracked, podIPMap, mappings>>
  BY TrackingForms DEF LookUpDest, TrackerInv
<1>2. DestOf(e.key) \in IPs
  BY <1>1, TrackerAssumption DEF Event
<1>3. dest \in Pod /\ dest \in mappings[DestOf(e.key)] \cup {NoPod}
  BY <1>2 DEF TrackerInv, TrackerTypeOK, MapRemembered
<1>4. CASE tracking[2] = NoPod /\ dest = NoPod
  <2>1. tracking' = NoEvent /\ Len(tracking') = 0
    BY <1>4 DEF LookUpDest, NoEvent
  <2>2. LookedUp'
    BY <2>1 DEF LookedUp
  <2> QED
    BY <1>1, <2>1, <2>2 DEF TrackerInv, TrackerTypeOK, PodsWereMapped, MapRemembered
<1>5. CASE ~(tracking[2] = NoPod /\ dest = NoPod)
  <2>1. tracking' = Append(<<tracking[1], tracking[2]>>, dest)
    BY <1>1, <1>5 DEF LookUpDest
  <2>2. tracking' = <<tracking[1], tracking[2], dest>>
    BY <2>1, AppendToPair
  <2> HIDE DEF dest
  <2>3. tracking' \in Event \X Pod \X Pod
    BY <1>1, <1>3, <2>2
  <2>4. TrackerTypeOK'
    BY <1>1, <2>3 DEF TrackerInv, TrackerTypeOK
  <2>5. LookedUp'
    BY <1>1, <1>3, <1>5, <2>2 DEF TrackerInv, LookedUp
  <2> QED
    BY <1>1, <2>4, <2>5 DEF TrackerInv, PodsWereMapped, MapRemembered
<1> QED
  BY <1>4, <1>5

(* What is shown afterwards is what was found or what was shown before.      *)
LEMMA TrackConnectionInv ==
  ASSUME TrackerInv, TrackConnection
  PROVE  TrackerInv'
<1> DEFINE e == tracking[1]
           k == e.key
           seen == Seen(e, tracking[2], tracking[3])
<1>1. /\ tracking \in Event \X Pod \X Pod /\ Len(tracking) = 3
      /\ tracked' = Put(tracked, k, seen) /\ tracking' = NoEvent
      /\ UNCHANGED <<open, tcp_events, podIPMap, mappings>>
  BY TrackingForms DEF TrackConnection, TrackerInv
<1>2. k \in Connections /\ e.established \in BOOLEAN
  BY <1>1 DEF Event
<1>3. /\ tracking[2] \in mappings[SourceOf(k)] \cup {NoPod}
      /\ tracking[3] \in mappings[DestOf(k)] \cup {NoPod}
      /\ {tracking[2], tracking[3]} # {NoPod}
      /\ tracking[2] \in Pod /\ tracking[3] \in Pod
  BY <1>1 DEF TrackerInv, LookedUp
<1>4. /\ seen \in Shown
      /\ seen.source \in mappings[SourceOf(k)] \cup {NoPod}
      /\ seen.dest \in mappings[DestOf(k)] \cup {NoPod}
      /\ {seen.source, seen.dest} # {NoPod}
  <2>1. CASE k \in DOMAIN tracked
    <3>1. /\ tracked[k] \in Shown
          /\ tracked[k].source \in mappings[SourceOf(k)] \cup {NoPod}
          /\ tracked[k].dest \in mappings[DestOf(k)] \cup {NoPod}
      BY <2>1 DEF TrackerInv, TrackerTypeOK, PodsWereMapped
    <3>2. seen = [source |-> Found(tracking[2], tracked[k].source),
                  dest |-> Found(tracking[3], tracked[k].dest),
                  established |-> e.established, idle |-> 0]
      BY <2>1 DEF Seen
    <3> HIDE DEF seen
    <3>3. seen \in Shown
      BY <1>2, <1>3, <3>1, <3>2, TrackerAssumption DEF Found, Shown
    <3> QED
      BY <1>3, <3>1, <3>2, <3>3, TrackerAssumption
      DEF Found, TrackerInv, TrackerTypeOK, PodsWereMapped
  <2>2. CASE k \notin DOMAIN tracked
    BY <1>2, <1>3, <2>2, TrackerAssumption DEF Seen, Found, Shown, Pod
  <2> QED
    BY <2>1, <2>2
<1> HIDE DEF seen, k
<1>5. /\ DOMAIN tracked' = DOMAIN tracked \cup {k}
      /\ \A j \in DOMAIN tracked' : tracked'[j] = IF j = k THEN seen ELSE tracked[j]
  BY <1>1 DEF Put
<1>6. tracked' \in [DOMAIN tracked' -> Shown]
  BY <1>1, <1>4 DEF Put, TrackerInv, TrackerTypeOK
<1>7. TrackerTypeOK'
  BY <1>1, <1>2, <1>5, <1>6 DEF TrackerInv, TrackerTypeOK
<1>8. PodsWereMapped'
  BY <1>1, <1>4, <1>5 DEF TrackerInv, PodsWereMapped
<1> QED
  BY <1>1, <1>7, <1>8 DEF TrackerInv, LookedUp, MapRemembered, NoEvent

LEMMA CleanUpInv ==
  ASSUME TrackerInv, CleanUp
  PROVE  TrackerInv'
<1> DEFINE keep == {j \in DOMAIN tracked : ~Stale(j)}
<1>1. /\ UNCHANGED <<open, tcp_events, tracking, podIPMap, mappings>>
      /\ tracked' = [k \in keep |->
           [tracked[k] EXCEPT !.idle = IF @ < StaleTicks THEN @ + 1 ELSE @]]
  BY DEF CleanUp
<1>2. keep \subseteq DOMAIN tracked
  OBVIOUS
<1> HIDE DEF keep
<1>3. DOMAIN tracked' = keep
  BY <1>1
<1>4. ASSUME NEW k \in keep
      PROVE  /\ tracked'[k] \in Shown
             /\ tracked'[k].source = tracked[k].source /\ tracked'[k].dest = tracked[k].dest
  <2>1. tracked[k] \in Shown
    BY <1>2 DEF TrackerInv, TrackerTypeOK
  <2>2. (IF tracked[k].idle < StaleTicks THEN tracked[k].idle + 1 ELSE tracked[k].idle)
          \in 0 .. StaleTicks
    BY <2>1, TrackerAssumption DEF Shown
  <2>3. tracked'[k] = [tracked[k] EXCEPT !.idle =
          IF tracked[k].idle < StaleTicks THEN tracked[k].idle + 1 ELSE tracked[k].idle]
    BY <1>1
  <2> QED
    BY <2>1, <2>2, <2>3 DEF Shown
<1>5. TrackerTypeOK'
  BY <1>1, <1>2, <1>3, <1>4 DEF TrackerInv, TrackerTypeOK
<1>6. PodsWereMapped'
  BY <1>1, <1>2, <1>3, <1>4 DEF TrackerInv, PodsWereMapped
<1> QED
  BY <1>1, <1>5, <1>6 DEF TrackerInv, LookedUp, MapRemembered

LEMMA TrackerNextInv == TrackerInv /\ [TrackerNext]_trackerVars => TrackerInv'
<1> SUFFICES ASSUME TrackerInv, [TrackerNext]_trackerVars PROVE TrackerInv'
  OBVIOUS
<1>1. CASE UNCHANGED trackerVars
  BY <1>1 DEF trackerVars, TrackerInv, TrackerTypeOK, PodsWereMapped, LookedUp, MapRemembered
<1>2. ASSUME NEW k \in Connections, Traffic(k) PROVE TrackerInv'
  <2>1. open' \subseteq Connections
    BY <1>2 DEF Traffic, TrackerInv, TrackerTypeOK
  <2> QED
    BY <1>2, <2>1, EmitInv DEF Traffic
<1>3. ASSUME NEW k \in Connections, Ends(k) PROVE TrackerInv'
  <2>1. open' \subseteq Connections
    BY <1>3 DEF Ends, TrackerInv, TrackerTypeOK
  <2> QED
    BY <1>3, <2>1, EmitInv DEF Ends
<1> QED
  BY <1>1, <1>2, <1>3, UpdateMappingInv, LookUpSourceInv, LookUpDestInv,
     TrackConnectionInv, CleanUpInv
  DEF TrackerNext

(* The tracker keeps to its types, whatever is lost and replaced meanwhile.  *)
THEOREM TrackerTypeCorrect == TrackerSpec => []TrackerTypeOK
<1>1. TrackerInv => TrackerTypeOK
  BY DEF TrackerInv
<1> QED
  BY <1>1, TrackerInitInv, TrackerNextInv, PTL DEF TrackerSpec

(* Whenever the map of pods is replaced: a connection shows at each end a pod *)
(* that had the end's address, and one at least.                             *)
THEOREM ShownPodsWereMapped == TrackerSpec => []PodsWereMapped
<1>1. TrackerInv => PodsWereMapped
  BY DEF TrackerInv
<1> QED
  BY <1>1, TrackerInitInv, TrackerNextInv, PTL DEF TrackerSpec

(* The kernel has closed k, and neither the list nor an event under way says *)
(* otherwise.                                                                *)
KnownClosed(k) ==
  /\ k \notin open
  /\ \A i \in DOMAIN tcp_events : tcp_events[i].key = k => ~tcp_events[i].established
  /\ tracking # NoEvent /\ tracking[1].key = k => ~tracking[1].established
  /\ k \in DOMAIN tracked => ~tracked[k].established

(* The half of ClosedAreNotEstablished that needs no fairness: a closed      *)
(* connection that no event under way calls established is never shown as    *)
(* established again until it is opened anew, whatever else is tracked, lost, *)
(* mapped or cleaned up.                                                     *)
THEOREM ClosedStaysClosed ==
  TrackerSpec =>
    [][\A k \in Connections : KnownClosed(k) /\ k \notin open' => KnownClosed(k)']_trackerVars
<1> DEFINE Stays ==
      \A k \in Connections : KnownClosed(k) /\ k \notin open' => KnownClosed(k)'
<1>1. TrackerInv /\ [TrackerNext]_trackerVars => [Stays]_trackerVars
  <2> SUFFICES ASSUME TrackerInv, TrackerNext, NEW k \in Connections, KnownClosed(k),
                      k \notin open'
               PROVE  KnownClosed(k)'
    OBVIOUS
  <2>0. TrackerTypeOK
    BY DEF TrackerInv
  <2>1. ASSUME NEW j \in Connections, NEW e \in BOOLEAN, Emit(j, e), j = k => ~e
        PROVE  \A i \in DOMAIN tcp_events' :
                 tcp_events'[i].key = k => ~tcp_events'[i].established
    <3>1. tcp_events' \in {tcp_events, Append(tcp_events, [key |-> j, established |-> e])}
      BY <2>1 DEF Emit
    <3>2. tcp_events \in Seq(Event) /\ [key |-> j, established |-> e] \in Event
      BY <2>0 DEF TrackerTypeOK, Event
    <3> DEFINE last == [key |-> j, established |-> e]
    <3>3. last.key = k => ~last.established
      BY <2>1
    <3> HIDE DEF last
    <3>4. ASSUME tcp_events' = Append(tcp_events, last), NEW i \in DOMAIN tcp_events'
          PROVE  tcp_events'[i] = last \/ (i \in DOMAIN tcp_events /\ tcp_events'[i] = tcp_events[i])
      BY <3>2, <3>4 DEF last
    <3> QED
      BY <3>1, <3>3, <3>4 DEF KnownClosed, last
  <2>2. ASSUME NEW j \in Connections, Traffic(j) PROVE KnownClosed(k)'
    <3>1. j # k
      BY <2>2 DEF Traffic
    <3> QED
      BY <2>1, <2>2, <3>1 DEF Traffic, KnownClosed
  <2>3. ASSUME NEW j \in Connections, Ends(j) PROVE KnownClosed(k)'
    BY <2>1, <2>3 DEF Ends, KnownClosed
  <2>4. ASSUME NEW m, UpdatePodIPMapping(m) PROVE KnownClosed(k)'
    BY <2>4 DEF UpdatePodIPMapping, KnownClosed
  <2>5. CASE LookUpSource
    <3>1. /\ tcp_events \in Seq(Event) /\ tcp_events # <<>> /\ tcp_events' = Tail(tcp_events)
          /\ tracking' = <<Head(tcp_events), podIPMap[SourceOf(Head(tcp_events).key)]>>
          /\ UNCHANGED <<open, tracked>>
      BY <2>0, <2>5 DEF LookUpSource, TrackerTypeOK
    <3>2. tracking'[1] = tcp_events[1] /\ 1 \in DOMAIN tcp_events
      BY <3>1
    <3>3. \A i \in DOMAIN tcp_events' :
            i + 1 \in DOMAIN tcp_events /\ tcp_events'[i] = tcp_events[i + 1]
      BY <3>1
    <3> QED
      BY <3>1, <3>2, <3>3 DEF KnownClosed
  <2>6. CASE LookUpDest
    <3>1. UNCHANGED <<open, tcp_events, tracked>>
      BY <2>6 DEF LookUpDest
    <3>2. \/ tracking' = NoEvent
          \/ tracking'[1] = tracking[1] /\ tracking # NoEvent
      <4>1. tracking \in Event \X Pod /\ Len(tracking) = 2 /\ tracking = <<tracking[1], tracking[2]>>
        BY <2>0, <2>6, TrackingForms DEF LookUpDest
      <4>2. tracking' = NoEvent \/ \E dest : tracking' = Append(<<tracking[1], tracking[2]>>, dest)
        BY <2>6, <4>1 DEF LookUpDest
      <4>3. tracking' = NoEvent \/ \E dest : tracking' = <<tracking[1], tracking[2], dest>>
        BY <4>2, AppendToPair
      <4>4. tracking # NoEvent
        BY <4>1 DEF NoEvent
      <4> QED
        BY <4>3, <4>4
    <3> QED
      BY <3>1, <3>2 DEF KnownClosed
  <2>7. CASE TrackConnection
    <3>1. /\ tracking # NoEvent /\ tracking' = NoEvent /\ UNCHANGED <<open, tcp_events>>
          /\ tracked' = Put(tracked, tracking[1].key, Seen(tracking[1], tracking[2], tracking[3]))
      BY <2>7 DEF TrackConnection, NoEvent
    <3>2. \A e, source, dest : Seen(e, source, dest).established = e.established
      BY DEF Seen
    <3> QED
      BY <3>1, <3>2 DEF KnownClosed, Put
  <2>8. CASE CleanUp
    <3>1. \A j \in DOMAIN tracked' :
            j \in DOMAIN tracked /\ tracked'[j].established = tracked[j].established
      BY <2>0, <2>8 DEF CleanUp, TrackerTypeOK, Shown
    <3> QED
      BY <2>8, <3>1 DEF CleanUp, KnownClosed
  <2> QED
    BY <2>2, <2>3, <2>4, <2>5, <2>6, <2>7, <2>8 DEF TrackerNext
<1> QED
  BY <1>1, TrackerInitInv, TrackerNextInv, PTL DEF TrackerSpec

-----------------------------------------------------------------------------
(* Processes.                                                                *)

(* What is about to be cached is a pod.                                      *)
FoundPods == \A c \in Collectors : AtStep(c, "cache") => lookup[c].found \in RunningPods

MapperInv == MapperTypeOK /\ FoundPods

LEMMA MapperInitInv == MapperInit => MapperInv
<1> SUFFICES ASSUME MapperInit PROVE MapperInv
  OBVIOUS
<1>1. DOMAIN pidCache = {} /\ pidCache \in [DOMAIN pidCache -> Cached]
  BY DEF MapperInit, EmptyMap
<1> QED
  BY <1>1 DEF MapperInit, MapperInv, MapperTypeOK, FoundPods, AtStep

(* Every step of a lookup leaves a lookup.                                   *)
LEMMA GoesOnInv ==
  ASSUME MapperInv, NEW c \in Collectors, lookup[c] \in Lookup,
         NEW next \in {"netns", "match", "cgroup", "pods", "cache"},
         NEW found \in Homes \cup {Gone},
         next = "cache" => found \in RunningPods, GoesOn(c, next, found)
  PROVE  MapperInv'
<1>1. lookup' \in [Collectors -> Lookup \cup {NoLookup}]
  <2>1. [lookup[c] EXCEPT !.next = next, !.found = found] \in Lookup
    BY DEF Lookup
  <2> QED
    BY <2>1 DEF GoesOn, MapperInv, MapperTypeOK
<1>2. FoundPods'
  BY <1>1 DEF GoesOn, AtStep, Lookup, MapperInv, MapperTypeOK, FoundPods
<1> QED
  BY <1>1, <1>2 DEF GoesOn, NoNews, MapperInv, MapperTypeOK

LEMMA MapperNextInv == MapperInv /\ [MapperNext]_mapperVars => MapperInv'
<1> SUFFICES ASSUME MapperInv, [MapperNext]_mapperVars PROVE MapperInv'
  OBVIOUS
<1>1. CASE UNCHANGED mapperVars
  BY <1>1 DEF mapperVars, AtStep, MapperInv, MapperTypeOK, FoundPods
<1>2. ASSUME NEW p \in Procs, ProcessExits(p) \/ \E h \in Homes : ProcessStarts(p, h)
      PROVE  MapperInv'
  BY <1>2 DEF ProcessExits, ProcessStarts, NoNews, AtStep, MapperInv, MapperTypeOK, FoundPods
<1>3. CASE TimePasses
  <2>1. ASSUME NEW p \in DOMAIN pidCache
        PROVE  [pidCache[p] EXCEPT !.age = IF @ < CacheTicks THEN @ + 1 ELSE @] \in Cached
    BY MapperAssumption DEF MapperInv, MapperTypeOK, Cached
  <2>2. DOMAIN pidCache' = DOMAIN pidCache /\ pidCache' \in [DOMAIN pidCache -> Cached]
    BY <1>3, <2>1 DEF TimePasses
  <2> QED
    BY <1>3, <2>2 DEF TimePasses, NoNews, AtStep, MapperInv, MapperTypeOK, FoundPods
<1>4. ASSUME NEW listed \in SUBSET RunningPods, NEW creating \in SUBSET listed,
             LoadPodCache(listed, creating)
      PROVE  MapperInv'
  BY <1>4 DEF LoadPodCache, NoNews, AtStep, MapperInv, MapperTypeOK, FoundPods
<1>5. ASSUME NEW c \in Collectors, NEW p \in Procs, GetContainerForPID(c, p)
      PROVE  MapperInv'
  <2>1. CASE InTime(p)
    BY <1>5, <2>1 DEF GetContainerForPID, InTime, Hit, Answers, Cached, AtStep,
       MapperInv, MapperTypeOK, FoundPods
  <2>2. CASE ~InTime(p)
    <3>1. [pid |-> p, next |-> "netns", found |-> Gone] \in Lookup
      BY DEF Lookup
    <3> QED
      BY <1>5, <2>2, <3>1 DEF GetContainerForPID, NoNews, AtStep, MapperInv, MapperTypeOK, FoundPods
  <2> QED
    BY <2>1, <2>2
<1>6. ASSUME NEW c \in Collectors, NEW next, AtStep(c, next)
      PROVE  lookup[c] \in Lookup /\ lookup[c].next = next
  BY <1>6 DEF AtStep, MapperInv, MapperTypeOK
<1>7. ASSUME NEW c \in Collectors, ReadNetNS(c) PROVE MapperInv'
  <2> DEFINE h == home[lookup[c].pid]
             next == IF h = Gone THEN "cgroup" ELSE "match"
  <2>1. lookup[c] \in Lookup
    BY <1>6, <1>7 DEF ReadNetNS
  <2>2. h \in Homes \cup {Gone} /\ NetNS(h) \in Homes \cup {Gone}
    BY <2>1 DEF Lookup, MapperInv, MapperTypeOK, NetNS, Homes
  <2>3. GoesOn(c, next, NetNS(h)) /\ next \in {"cgroup", "match"}
    BY <1>7 DEF ReadNetNS
  <2> HIDE DEF h, next
  <2> QED
    BY <2>1, <2>2, <2>3, GoesOnInv
<1>8. ASSUME NEW c \in Collectors, MatchNetNS(c) PROVE MapperInv'
  <2>1. lookup[c] \in Lookup
    BY <1>6, <1>8 DEF MatchNetNS
  <2>2. PICK next \in {"cache", "cgroup"}, found \in Homes \cup {Gone} :
          GoesOn(c, next, found) /\ (next = "cache" => found \in RunningPods)
    BY <1>8 DEF MatchNetNS, MapperInv, MapperTypeOK, Homes
  <2> QED
    BY <2>1, <2>2, GoesOnInv
<1>9. ASSUME NEW c \in Collectors, ReadCgroup(c) PROVE MapperInv'
  <2> DEFINE h == home[lookup[c].pid]
  <2>1. lookup[c] \in Lookup
    BY <1>6, <1>9 DEF ReadCgroup
  <2>2. CASE h \in RunningPods
    <3>1. GoesOn(c, "pods", h) /\ h \in Homes
      BY <1>9, <2>2 DEF ReadCgroup, Homes
    <3> QED
      BY <2>1, <3>1, GoesOnInv
  <2>3. CASE h \notin RunningPods
    BY <1>9, <2>3 DEF ReadCgroup, GivesUp, NoNews, AtStep, MapperInv, MapperTypeOK, FoundPods
  <2> QED
    BY <2>2, <2>3
<1>10. ASSUME NEW c \in Collectors, FindInPods(c) PROVE MapperInv'
  <2>1. lookup[c] \in Lookup
    BY <1>6, <1>10 DEF FindInPods
  <2>2. CASE lookup[c].found \in podCache /\ GoesOn(c, "cache", lookup[c].found)
    <3>1. lookup[c].found \in RunningPods
      BY <2>2 DEF MapperInv, MapperTypeOK
    <3> QED
      BY <2>1, <2>2, <3>1, GoesOnInv DEF Lookup
  <2>3. CASE GivesUp(c)
    BY <2>3 DEF GivesUp, NoNews, AtStep, MapperInv, MapperTypeOK, FoundPods
  <2> QED
    BY <1>10, <2>2, <2>3 DEF FindInPods
<1>11. ASSUME NEW c \in Collectors, CacheResult(c) PROVE MapperInv'
  <2> DEFINE p == lookup[c].pid
             found == lookup[c].found
  <2>1. p \in Procs /\ found \in RunningPods
    BY <1>6, <1>11 DEF CacheResult, Lookup, MapperInv, FoundPods
  <2>2. /\ pidCache' = Put(pidCache, p, [pod |-> found, age |-> 0])
        /\ answer' = [pid |-> p, pod |-> found]
        /\ lookup' = [lookup EXCEPT ![c] = NoLookup]
        /\ UNCHANGED <<home, podCache, waiting>>
    BY <1>11 DEF CacheResult, Answers
  <2> HIDE DEF p, found
  <2>3. [pod |-> found, age |-> 0] \in Cached
    BY <2>1, MapperAssumption DEF Cached
  <2>4. DOMAIN pidCache' \subseteq Procs /\ pidCache' \in [DOMAIN pidCache' -> Cached]
    BY <2>1, <2>2, <2>3 DEF Put, MapperInv, MapperTypeOK
  <2> QED
    BY <2>1, <2>2, <2>4 DEF AtStep, MapperInv, MapperTypeOK, FoundPods
<1> QED
  BY <1>1, <1>2, <1>3, <1>4, <1>5, <1>7, <1>8, <1>9, <1>10, <1>11 DEF MapperNext

(* The mapper keeps to its types: it answers and caches pods only.           *)
THEOREM MapperTypeCorrect == MapperSpec => []MapperTypeOK
<1>1. MapperInv => MapperTypeOK
  BY DEF MapperInv
<1> QED
  BY <1>1, MapperInitInv, MapperNextInv, PTL DEF MapperSpec

(* What is cached of the process with PID p, and what the lookups under way  *)
(* have found of it, is of where it runs now; an entry that has expired is not *)
(* used.                                                                     *)
KnownHome(p) ==
  /\ home[p] # Gone
  /\ p \in DOMAIN pidCache =>
       NetNS(pidCache[p].pod) = NetNS(home[p]) \/ pidCache[p].age = CacheTicks
  /\ \A c \in Collectors :
       lookup[c] # NoLookup /\ lookup[c].pid = p =>
         /\ lookup[c].next = "match" => lookup[c].found = NetNS(home[p])
         /\ lookup[c].next \in {"pods", "cache"} => NetNS(lookup[c].found) = NetNS(home[p])

(* The half of AnswersConverge that needs no fairness: once neither the cache *)
(* nor a lookup under way holds anything of the PID's last owner, and while no *)
(* listed pod of another namespace waits for a container, every answer names *)
(* a pod in the process's network namespace and nothing wrong gets into the  *)
(* cache, however the lookups of several goroutines interleave.  While there *)
(* is such a pod, its name may get there.                                    *)
THEOREM RightAnswersStay ==
  MapperSpec =>
    [][\A p \in Procs : KnownHome(p) /\ Misleading(home[p]) = {} /\ home'[p] = home[p] =>
         /\ KnownHome(p)'
         /\ answer' # NoAnswer /\ answer'.pid = p => NetNS(answer'.pod) = NetNS(home[p])]_mapperVars
<1> DEFINE Stays ==
      \A p \in Procs : KnownHome(p) /\ Misleading(home[p]) = {} /\ home'[p] = home[p] =>
        /\ KnownHome(p)'
        /\ answer' # NoAnswer /\ answer'.pid = p => NetNS(answer'.pod) = NetNS(home[p])
<1>1. MapperInv /\ [MapperNext]_mapperVars => [Stays]_mapperVars
  <2> SUFFICES ASSUME MapperInv, MapperNext, NEW p \in Procs, KnownHome(p),
                      Misleading(home[p]) = {}, home'[p] = home[p]
               PROVE  /\ KnownHome(p)'
                      /\ answer' # NoAnswer /\ answer'.pid = p
                           => NetNS(answer'.pod) = NetNS(home[p])
    OBVIOUS
  <2> DEFINE Goal == /\ KnownHome(p)'
                     /\ answer' # NoAnswer /\ answer'.pid = p
                          => NetNS(answer'.pod) = NetNS(home[p])
  <2>0. MapperTypeOK
    BY DEF MapperInv
  <2>1. ASSUME NoNews, UNCHANGED <<pidCache, lookup>> PROVE Goal
    BY <2>1 DEF NoNews, KnownHome
  <2>2. ASSUME NEW q \in Procs, ProcessExits(q) \/ \E h \in Homes : ProcessStarts(q, h) PROVE Goal
    BY <2>1, <2>2 DEF ProcessExits, ProcessStarts
  <2>3. ASSUME NEW listed, NEW creating, LoadPodCache(listed, creating) PROVE Goal
    BY <2>1, <2>3 DEF LoadPodCache
  <2>4. CASE TimePasses
    <3>1. DOMAIN pidCache' = DOMAIN pidCache
      BY <2>4 DEF TimePasses
    <3>2. p \in DOMAIN pidCache =>
            /\ pidCache'[p].pod = pidCache[p].pod
            /\ pidCache[p].age = CacheTicks => pidCache'[p].age = CacheTicks
      BY <2>0, <2>4, MapperAssumption DEF TimePasses, MapperTypeOK, Cached
    <3> QED
      BY <2>4, <3>1, <3>2 DEF TimePasses, NoNews, KnownHome
  <2>5. ASSUME NEW c \in Collectors, NEW q \in Procs, GetContainerForPID(c, q) PROVE Goal
    <3>1. CASE InTime(q)
      <4>1. /\ answer' = [pid |-> q, pod |-> pidCache[q].pod] /\ UNCHANGED <<home, pidCache, lookup>>
        BY <2>5, <3>1 DEF GetContainerForPID, Hit, Answers
      <4>2. KnownHome(p)'
        BY <4>1 DEF KnownHome
      <4>3. q = p => NetNS(pidCache[q].pod) = NetNS(home[p])
        BY <2>0, <3>1, MapperAssumption DEF InTime, KnownHome, MapperTypeOK, Cached
      <4> QED
        BY <4>1, <4>2, <4>3
    <3>2. CASE ~InTime(q)
      <4>1. /\ lookup' = [lookup EXCEPT ![c] = [pid |-> q, next |-> "netns", found |-> Gone]]
            /\ answer' = NoAnswer /\ UNCHANGED <<home, pidCache>>
        BY <2>5, <3>2 DEF GetContainerForPID, NoNews
      <4>2. \A d \in Collectors : lookup'[d] = IF d = c THEN [pid |-> q, next |-> "netns", found |-> Gone] ELSE lookup[d]
        BY <2>0, <4>1 DEF MapperTypeOK
      <4> QED
        BY <4>1, <4>2 DEF KnownHome
    <3> QED
      BY <3>1, <3>2
  <2>6. ASSUME NEW c \in Collectors, NEW next, NEW found, GoesOn(c, next, found), lookup[c] \in Lookup,
               lookup[c].pid = p => /\ next = "match" => found = NetNS(home[p])
                                    /\ next \in {"pods", "cache"} => NetNS(found) = NetNS(home[p])
        PROVE  Goal
    <3>1. /\ answer' = NoAnswer /\ UNCHANGED <<home, pidCache>>
          /\ lookup' = [lookup EXCEPT ![c] = [@ EXCEPT !.next = next, !.found = found]]
      BY <2>6 DEF GoesOn, NoNews
    <3>2. /\ lookup'[c].pid = lookup[c].pid /\ lookup'[c].next = next /\ lookup'[c].found = found
          /\ \A d \in Collectors : d # c => lookup'[d] = lookup[d]
      BY <2>0, <2>6, <3>1 DEF MapperTypeOK, Lookup
    <3> QED
      BY <2>6, <3>1, <3>2 DEF KnownHome
  <2>7. ASSUME NEW c \in Collectors, GivesUp(c) PROVE Goal
    BY <2>0, <2>7 DEF GivesUp, NoNews, KnownHome, MapperTypeOK
  <2>8. ASSUME NEW c \in Collectors, NEW next, AtStep(c, next)
        PROVE  lookup[c] \in Lookup /\ lookup[c].next = next /\ lookup[c] # NoLookup
    BY <2>0, <2>8 DEF AtStep, MapperTypeOK
  <2>9. ASSUME NEW c \in Collectors, ReadNetNS(c) PROVE Goal
    <3> DEFINE h == home[lookup[c].pid]
               next == IF h = Gone THEN "cgroup" ELSE "match"
    <3>1. GoesOn(c, next, NetNS(h)) /\ lookup[c] \in Lookup
      BY <2>8, <2>9 DEF ReadNetNS
    <3>2. lookup[c].pid = p => NetNS(h) = NetNS(home[p])
      OBVIOUS
    <3>3. next \notin {"pods", "cache"}
      OBVIOUS
    <3> HIDE DEF h, next
    <3> QED
      BY <2>6, <3>1, <3>2, <3>3
  <2>10. ASSUME NEW c \in Collectors, MatchNetNS(c) PROVE Goal
    <3>1. lookup[c] \in Lookup /\ lookup[c] # NoLookup /\ lookup[c].next = "match"
      BY <2>8, <2>10 DEF MatchNetNS
    <3>2. lookup[c].pid = p => lookup[c].found = NetNS(home[p])
      BY <3>1 DEF KnownHome
    <3>3. CASE GoesOn(c, "cgroup", Gone)
      BY <2>6, <3>1, <3>3
    <3>4. ASSUME NEW pod \in podCache, HasNetNS(pod, lookup[c].found), GoesOn(c, "cache", pod)
          PROVE  Goal
      <4>1. lookup[c].pid = p => NetNS(pod) = NetNS(home[p])
        BY <3>2, <3>4 DEF HasNetNS, Misleading
      <4> QED
        BY <2>6, <3>1, <3>4, <4>1
    <3> QED
      BY <2>10, <3>3, <3>4 DEF MatchNetNS
  <2>11. ASSUME NEW c \in Collectors, ReadCgroup(c) PROVE Goal
    <3>1. lookup[c] \in Lookup
      BY <2>8, <2>11 DEF ReadCgroup
    <3>2. CASE GoesOn(c, "pods", home[lookup[c].pid])
      BY <2>6, <3>1, <3>2
    <3> QED
      BY <2>7, <2>11, <3>2 DEF ReadCgroup
  <2>12. ASSUME NEW c \in Collectors, FindInPods(c) PROVE Goal
    <3>1. lookup[c] \in Lookup /\ lookup[c] # NoLookup /\ lookup[c].next = "pods"
      BY <2>8, <2>12 DEF FindInPods
    <3>2. lookup[c].pid = p => NetNS(lookup[c].found) = NetNS(home[p])
      BY <3>1 DEF KnownHome
    <3>3. CASE GoesOn(c, "cache", lookup[c].found)
      BY <2>6, <3>1, <3>2, <3>3
    <3> QED
      BY <2>7, <2>12, <3>3 DEF FindInPods
  <2>13. ASSUME NEW c \in Collectors, CacheResult(c) PROVE Goal
    <3> DEFINE q == lookup[c].pid
               found == lookup[c].found
    <3>1. lookup[c] # NoLookup /\ lookup[c].next = "cache"
      BY <2>8, <2>13 DEF CacheResult
    <3>2. q = p => NetNS(found) = NetNS(home[p])
      BY <3>1 DEF KnownHome
    <3>3. /\ pidCache' = Put(pidCache, q, [pod |-> found, age |-> 0])
          /\ answer' = [pid |-> q, pod |-> found] /\ UNCHANGED home
          /\ lookup' = [lookup EXCEPT ![c] = NoLookup]
      BY <2>13 DEF CacheResult, Answers
    <3> HIDE DEF q, found
    <3>4. \A d \in Collectors : lookup'[d] = IF d = c THEN NoLookup ELSE lookup[d]
      BY <2>0, <3>3 DEF MapperTypeOK
    <3>5. p \in DOMAIN pidCache' =>
            \/ p = q /\ pidCache'[p].pod = found
            \/ p # q /\ p \in DOMAIN pidCache /\ pidCache'[p] = pidCache[p]
      BY <3>3 DEF Put
    <3>6. KnownHome(p)'
      BY <3>2, <3>3, <3>4, <3>5 DEF KnownHome
    <3> QED
      BY <3>2, <3>3, <3>6
  <2> QED
    BY <2>2, <2>3, <2>4, <2>5, <2>9, <2>10, <2>11, <2>12, <2>13 DEF MapperNext
<1> QED
  BY <1>1, MapperInitInv, MapperNextInv, PTL DEF MapperSpec

-----------------------------------------------------------------------------
(* Messages.                                                                 *)

HubTypeOK ==
  /\ hub \subseteq Clients
  /\ broadcast \in Seq(Nat) /\ messages \in Nat /\ taken \in Nat
  /\ send \in [Clients -> Seq(Nat)] /\ got \in [Clients -> Seq(Nat)]
  /\ closes \in [Clients -> Nat]
  /\ handler \in [Clients -> {"new", "registering", "registered", "done"}]
  /\ reader \in [Clients -> {"none", "reading", "leaving", "done"}]
  /\ writer \in [Clients -> {"none", "running", "done"}]

(* A client that Run has not registered yet has received nothing, and its    *)
(* channel is open; the pumps come last.                                     *)
Unregistered ==
  \A c \in Clients :
    /\ handler[c] # "done" => reader[c] = "none" /\ writer[c] = "none"
    /\ handler[c] \in {"new", "registering"} =>
         c \notin hub /\ closes[c] = 0 /\ send[c] = <<>> /\ got[c] = <<>>

(* The messages that Run has not taken yet follow the one it took last.      *)
Numbered ==
  /\ messages = taken + Len(broadcast)
  /\ \A i \in 1 .. Len(broadcast) : broadcast[i] = taken + i

HubInv == HubTypeOK /\ Unregistered /\ Numbered /\ NoPanic /\ NoGaps

(* The conjuncts of NoGaps for one client.                                   *)
Served(c) == reader[c] \in {"none", "reading"} /\ writer[c] \in {"none", "running"}
GapFree(msgs) == \A i \in 1 .. Len(msgs) - 1 : msgs[i + 1] = msgs[i] + 1
UpToDate(c) == (c \in hub /\ Received(c) # <<>>) => Received(c)[Len(Received(c))] = taken
Sound(c) == Served(c) => GapFree(Received(c)) /\ UpToDate(c)
AllSound == \A c \in Clients : Sound(c)

LEMMA NoGapsByClient == NoGaps <=> AllSound
BY DEF AllSound, NoGaps, Sound, Served, GapFree, UpToDate

(* Sequences that are one.                                                   *)
LEMMA AppendBehind ==
  ASSUME NEW S, NEW s \in Seq(S), NEW t \in Seq(S), NEW e \in S
  PROVE  s \o Append(t, e) = Append(s \o t, e)
<1>1. s \o t \in Seq(S) /\ <<e>> \in Seq(S)
  BY ConcatProperties
<1>2. Append(t, e) = t \o <<e>> /\ Append(s \o t, e) = (s \o t) \o <<e>>
  BY <1>1, AppendIsConcat
<1> QED
  BY <1>1, <1>2, ConcatAssociative

LEMMA MoveFirst ==
  ASSUME NEW S, NEW s \in Seq(S), NEW t \in Seq(S), t # <<>>
  PROVE  Append(s, Head(t)) \o Tail(t) = s \o t
<1> DEFINE u == <<Head(t)>> \o Tail(t)
<1>1. /\ Head(t) \in S /\ Tail(t) \in Seq(S) /\ Head(t) = t[1]
      /\ <<Head(t)>> \in Seq(S) /\ Len(<<Head(t)>>) = 1 /\ <<Head(t)>>[1] = t[1]
      /\ Len(Tail(t)) = Len(t) - 1
      /\ \A i \in 1 .. Len(Tail(t)) : Tail(t)[i] = t[i + 1]
  BY HeadTailProperties
<1>2. /\ u \in Seq(S) /\ Len(u) = Len(t)
      /\ \A i \in 1 .. Len(t) : u[i] = IF i <= 1 THEN t[1] ELSE Tail(t)[i - 1]
  BY <1>1, ConcatProperties
<1> HIDE DEF u
<1>3. ASSUME NEW i \in 1 .. Len(u) PROVE u[i] = t[i]
  <2>1. CASE i = 1
    BY <1>2, <2>1
  <2>2. CASE i # 1
    <3>1. i - 1 \in 1 .. Len(Tail(t)) /\ (i - 1) + 1 = i
      BY <1>1, <1>2, <2>2
    <3>2. Tail(t)[i - 1] = t[(i - 1) + 1]
      BY <1>1, <3>1
    <3> QED
      BY <1>2, <2>2, <3>1, <3>2
  <2> QED
    BY <2>1, <2>2
<1>4. t = u
  BY <1>2, <1>3, SeqEqual
<1>5. Append(s, Head(t)) = s \o <<Head(t)>>
  BY <1>1, AppendIsConcat
<1>6. (s \o <<Head(t)>>) \o Tail(t) = s \o u
  BY <1>1, ConcatAssociative DEF u
<1> QED
  BY <1>4, <1>5, <1>6

LEMMA HubInitInv == HubInit => HubInv
<1> SUFFICES ASSUME HubInit PROVE HubInv
  OBVIOUS
<1>1. HubTypeOK /\ Unregistered /\ Numbered /\ NoPanic
  BY DEF HubInit, HubTypeOK, Unregistered, Numbered, NoPanic
<1>2. ASSUME NEW c \in Clients PROVE Sound(c)
  <2>1. Received(c) = <<>>
    BY DEF HubInit, Received
  <2>2. Len(<<>>) = 0
    OBVIOUS
  <2> QED
    BY <2>1, <2>2 DEF HubInit, Sound, GapFree, UpToDate
<1> QED
  BY <1>1, <1>2, NoGapsByClient DEF HubInv, AllSound

(* The messages a client has received are a sequence of numbers.             *)
LEMMA ReceivedType ==
  ASSUME HubTypeOK, NEW c \in Clients
  PROVE  Received(c) \in Seq(Nat)
BY DEF HubTypeOK, Received

(* A step that leaves what clients have received and what Run took, serves no *)
(* client anew and registers none that has received anything keeps NoGaps.   *)
LEMMA QuietStep ==
  ASSUME NoGaps, UNCHANGED <<taken, send, got>>,
         \A c \in Clients : Served(c)' => Served(c),
         \A c \in Clients : c \in hub' => c \in hub \/ Received(c) = <<>>
  PROVE  NoGaps'
<1>1. ASSUME NEW c \in Clients PROVE Sound(c)'
  <2>1. Received(c)' = Received(c)
    BY DEF Received
  <2>2. Sound(c)
    BY NoGapsByClient DEF AllSound
  <2> QED
    BY <2>1, <2>2 DEF Sound, GapFree, UpToDate
<1>2. (NoGaps <=> AllSound)'
  BY NoGapsByClient, PTL
<1> QED
  BY <1>1, <1>2 DEF AllSound

LEMMA BroadcastMessageInv ==
  ASSUME HubInv, BroadcastMessage
  PROVE  HubInv'
<1>1. /\ messages' = messages + 1 /\ broadcast' = Append(broadcast, messages + 1)
      /\ UNCHANGED <<hub, taken, send, closes, handler, reader, writer, got>>
  BY DEF BroadcastMessage, pumpVars
<1>2. /\ broadcast \in Seq(Nat) /\ messages \in Nat
      /\ broadcast' \in Seq(Nat) /\ Len(broadcast') = Len(broadcast) + 1
      /\ broadcast'[Len(broadcast) + 1] = messages + 1
      /\ \A i \in 1 .. Len(broadcast) : broadcast'[i] = broadcast[i]
  BY <1>1 DEF HubInv, HubTypeOK
<1>3. HubTypeOK'
  BY <1>1, <1>2 DEF HubInv, HubTypeOK
<1>4. Numbered'
  <2>1. ASSUME NEW i \in 1 .. Len(broadcast') PROVE broadcast'[i] = taken' + i
    <3>1. CASE i = Len(broadcast) + 1
      BY <1>1, <1>2, <3>1 DEF HubInv, HubTypeOK, Numbered
    <3>2. CASE i # Len(broadcast) + 1
      <4>1. i \in 1 .. Len(broadcast)
        BY <1>2, <2>1, <3>2
      <4> QED
        BY <1>1, <1>2, <4>1 DEF HubInv, Numbered
    <3> QED
      BY <3>1, <3>2
  <2>2. messages' = taken' + Len(broadcast')
    BY <1>1, <1>2 DEF HubInv, HubTypeOK, Numbered
  <2> QED
    BY <2>1, <2>2 DEF Numbered
<1>5. NoGaps'
  BY <1>1, QuietStep DEF HubInv, Served
<1> QED
  BY <1>1, <1>3, <1>4, <1>5 DEF HubInv, Unregistered, NoPanic

(* A client is registered once, before it has received anything.             *)
LEMMA ConnectInv ==
  ASSUME HubInv, NEW c \in Clients, Connect(c) \/ HubRegisters(c) \/ StartPumps(c)
  PROVE  HubInv'
<1>1. /\ UNCHANGED <<broadcast, messages, taken, send, closes, got>>
      /\ hub' = hub \/ (handler[c] = "registering" /\ hub' = hub \cup {c})
  BY DEF Connect, HubRegisters, StartPumps, hubVars
<1>2. HubTypeOK'
  BY <1>1 DEF Connect, HubRegisters, StartPumps, HubInv, HubTypeOK
<1>3. Unregistered'
  BY <1>1 DEF Connect, HubRegisters, StartPumps, HubInv, HubTypeOK, Unregistered, hubVars
<1>4. NoPanic'
  BY <1>1 DEF HubInv, Unregistered, NoPanic
<1>5. NoGaps'
  <2>1. \A d \in Clients : Served(d)' => Served(d)
    BY DEF Connect, HubRegisters, StartPumps, HubInv, HubTypeOK, Unregistered, Served
  <2>2. handler[c] = "registering" => Received(c) = <<>>
    BY DEF HubInv, Unregistered, Received
  <2> QED
    BY <1>1, <2>1, <2>2, QuietStep DEF HubInv
<1> QED
  BY <1>1, <1>2, <1>3, <1>4, <1>5 DEF HubInv, Numbered

(* The ends of pumps and connections: nobody is served anew.                 *)
LEMMA LeaveInv ==
  ASSUME HubInv, NEW c \in Clients,
         HubUnregisters(c) \/ WriterStops(c) \/ ReadFails(c) \/ BrowserCloses(c)
  PROVE  HubInv'
<1>1. /\ UNCHANGED <<broadcast, messages, taken, send, handler, got>>
      /\ hub' \subseteq hub
  BY DEF HubUnregisters, WriterStops, ReadFails, BrowserCloses, hubVars, pumpVars
<1>2. HubTypeOK' /\ NoPanic'
  <2>1. CASE HubUnregisters(c)
    BY <1>1, <2>1 DEF HubUnregisters, HubInv, HubTypeOK, NoPanic
  <2>2. CASE WriterStops(c)
    BY <1>1, <2>2 DEF WriterStops, WriterEnds, hubVars, HubInv, HubTypeOK, NoPanic
  <2>3. CASE ReadFails(c) \/ BrowserCloses(c)
    BY <1>1, <2>3 DEF ReadFails, BrowserCloses, hubVars, pumpVars, HubInv, HubTypeOK, NoPanic
  <2> QED
    BY <2>1, <2>2, <2>3
<1>3. Unregistered'
  BY <1>1 DEF HubUnregisters, WriterStops, WriterEnds, ReadFails, BrowserCloses, hubVars,
       pumpVars, HubInv, HubTypeOK, Unregistered
<1>4. NoGaps'
  <2>1. \A d \in Clients : Served(d)' => Served(d)
    BY DEF HubUnregisters, WriterStops, WriterEnds, ReadFails, BrowserCloses, pumpVars,
       HubInv, HubTypeOK, Served
  <2> QED
    BY <1>1, <2>1, QuietStep DEF HubInv
<1> QED
  BY <1>1, <1>2, <1>3, <1>4 DEF HubInv, Numbered

(* A message that is written moves from the channel to what was received.    *)
LEMMA WriteMessageInv ==
  ASSUME HubInv, NEW c \in Clients, WriteMessage(c)
  PROVE  HubInv'
<1>1. /\ send[c] # <<>> /\ writer[c] = "running"
      /\ send' = [send EXCEPT ![c] = Tail(@)]
      /\ got' = [got EXCEPT ![c] = Append(@, Head(send[c]))]
      /\ UNCHANGED <<hub, broadcast, messages, taken, closes, handler, reader, writer>>
  BY DEF WriteMessage, hubVars, pumpVars
<1>2. /\ send[c] \in Seq(Nat) /\ got[c] \in Seq(Nat)
      /\ Head(send[c]) \in Nat /\ Tail(send[c]) \in Seq(Nat)
  BY <1>1 DEF HubInv, HubTypeOK
<1>3. HubTypeOK'
  BY <1>1, <1>2 DEF HubInv, HubTypeOK
<1>4. ASSUME NEW d \in Clients PROVE Received(d)' = Received(d)
  <2>1. CASE d = c
    <3>1. Append(got[c], Head(send[c])) \o Tail(send[c]) = got[c] \o send[c]
      BY <1>1, <1>2, MoveFirst
    <3> QED
      BY <1>1, <2>1, <3>1 DEF HubInv, HubTypeOK, Received
  <2>2. CASE d # c
    BY <1>1, <2>2 DEF HubInv, HubTypeOK, Received
  <2> QED
    BY <2>1, <2>2
<1>5. NoGaps'
  <2>1. ASSUME NEW d \in Clients PROVE Sound(d)'
    <3>1. Sound(d)
      BY NoGapsByClient DEF HubInv, AllSound
    <3> QED
      BY <1>1, <1>4, <3>1 DEF Sound, Served, GapFree, UpToDate
  <2>2. (NoGaps <=> AllSound)'
    BY NoGapsByClient, PTL
  <2> QED
    BY <2>1, <2>2 DEF AllSound
<1>6. Unregistered'
  BY <1>1 DEF HubInv, HubTypeOK, Unregistered
<1> QED
  BY <1>1, <1>3, <1>5, <1>6 DEF HubInv, Numbered, NoPanic

(* Once a write failed, the client is served no more.                        *)
LEMMA WriteFailsInv ==
  ASSUME HubInv, NEW c \in Clients, WriteFails(c)
  PROVE  HubInv'
<1>1. /\ writer[c] = "running" /\ writer' = [writer EXCEPT ![c] = "done"]
      /\ send' = send \/ (send[c] # <<>> /\ send' = [send EXCEPT ![c] = Tail(@)])
      /\ UNCHANGED <<hub, broadcast, messages, taken, closes, handler, reader, got>>
  BY DEF WriteFails, WriterEnds, hubVars
<1>2. HubTypeOK'
  <2>1. send[c] # <<>> => Tail(send[c]) \in Seq(Nat)
    BY DEF HubInv, HubTypeOK
  <2>2. send' \in [Clients -> Seq(Nat)]
    BY <1>1, <2>1 DEF HubInv, HubTypeOK
  <2> QED
    BY <1>1, <2>2 DEF HubInv, HubTypeOK
<1>3. Unregistered'
  BY <1>1 DEF HubInv, HubTypeOK, Unregistered
<1>4. NoGaps'
  <2>1. ASSUME NEW d \in Clients PROVE Sound(d)'
    <3>1. CASE d = c
      BY <1>1, <3>1 DEF HubInv, HubTypeOK, Sound, Served
    <3>2. CASE d # c
      <4>1. Received(d)' = Received(d)
        BY <1>1, <3>2 DEF HubInv, HubTypeOK, Received
      <4>2. Sound(d)
        BY NoGapsByClient DEF HubInv, AllSound
      <4> QED
        BY <1>1, <3>2, <4>1, <4>2 DEF HubInv, HubTypeOK, Sound, Served, GapFree, UpToDate
    <3> QED
      BY <3>1, <3>2
  <2>2. (NoGaps <=> AllSound)'
    BY NoGapsByClient, PTL
  <2> QED
    BY <2>1, <2>2 DEF AllSound
<1> QED
  BY <1>1, <1>2, <1>3, <1>4 DEF HubInv, Numbered, NoPanic

(* A client with room gets the next message, one without is evicted.         *)
LEMMA HubBroadcastsInv ==
  ASSUME HubInv, HubBroadcasts
  PROVE  HubInv'
<1> DEFINE next == Head(broadcast)
<1>1. /\ broadcast # <<>> /\ broadcast' = Tail(broadcast) /\ taken' = next
      /\ send' = [c \in Clients |->
           IF c \in hub \ Full THEN Append(send[c], next) ELSE send[c]]
      /\ closes' = [c \in Clients |-> IF c \in Full THEN closes[c] + 1 ELSE closes[c]]
      /\ hub' = hub \ Full
      /\ UNCHANGED <<messages, handler, reader, writer, got>>
  BY DEF HubBroadcasts, pumpVars
<1>2. /\ broadcast \in Seq(Nat) /\ Len(broadcast) \in Nat \ {0}
      /\ next = broadcast[1] /\ next = taken + 1 /\ next \in Nat
  BY <1>1 DEF HubInv, HubTypeOK, Numbered
<1>3. Numbered'
  <2>1. /\ Len(broadcast') = Len(broadcast) - 1
        /\ \A i \in 1 .. Len(broadcast') : broadcast'[i] = broadcast[i + 1]
    BY <1>1, <1>2
  <2>2. ASSUME NEW i \in 1 .. Len(broadcast') PROVE broadcast'[i] = taken' + i
    <3>1. i + 1 \in 1 .. Len(broadcast)
      BY <1>2, <2>1, <2>2
    <3>2. broadcast[i + 1] = taken + (i + 1)
      BY <3>1 DEF HubInv, Numbered
    <3> QED
      BY <1>1, <1>2, <2>1, <2>2, <3>2 DEF HubInv, HubTypeOK
  <2>3. messages' = taken' + Len(broadcast')
    BY <1>1, <1>2, <2>1 DEF HubInv, HubTypeOK, Numbered
  <2> QED
    BY <2>2, <2>3 DEF Numbered
<1>4. \A c \in Clients : send[c] \in Seq(Nat) /\ Append(send[c], next) \in Seq(Nat)
  BY <1>2 DEF HubInv, HubTypeOK
<1> HIDE DEF next
<1>5. HubTypeOK'
  <2>1. broadcast' \in Seq(Nat)
    BY <1>1, <1>2
  <2>2. send' \in [Clients -> Seq(Nat)]
    BY <1>1, <1>4
  <2>3. closes' \in [Clients -> Nat]
    BY <1>1 DEF HubInv, HubTypeOK
  <2> QED
    BY <1>1, <1>2, <2>1, <2>2, <2>3 DEF HubInv, HubTypeOK
<1>6. Full \subseteq hub
  BY DEF Full
<1>7. Unregistered'
  BY <1>1, <1>6 DEF HubInv, HubTypeOK, Unregistered
<1>8. NoPanic'
  BY <1>1, <1>6 DEF HubInv, HubTypeOK, NoPanic
<1>9. ASSUME NEW c \in Clients PROVE Sound(c)'
  <2>1. Sound(c) /\ Received(c) \in Seq(Nat)
    BY NoGapsByClient, ReceivedType DEF HubInv, AllSound
  <2>2. CASE c \in hub \ Full
    <3> DEFINE old == Received(c)
    <3>1. Received(c)' = Append(old, next)
      <4>1. Received(c)' = got[c] \o Append(send[c], next)
        BY <1>1, <2>2 DEF Received
      <4>2. got[c] \in Seq(Nat) /\ send[c] \in Seq(Nat) /\ next \in Nat
        BY <1>2 DEF HubInv, HubTypeOK
      <4>3. got[c] \o Append(send[c], next) = Append(got[c] \o send[c], next)
        <5>1. \A s, t \in Seq(Nat), e \in Nat : s \o Append(t, e) = Append(s \o t, e)
          BY AppendBehind
        <5> QED
          BY <4>2, <5>1, Zenon
      <4>4. old = got[c] \o send[c]
        BY DEF Received
      <4> HIDE DEF old
      <4> QED
        BY <4>1, <4>3, <4>4
    <3>2. old \in Seq(Nat) /\ (Served(c) => GapFree(old) /\ (old # <<>> => old[Len(old)] = taken))
      BY <2>1, <2>2 DEF Sound, UpToDate
    <3> HIDE DEF old
    <3>3. /\ Append(old, next) \in Seq(Nat) /\ Len(Append(old, next)) = Len(old) + 1
          /\ Append(old, next)[Len(old) + 1] = next
          /\ \A i \in 1 .. Len(old) : Append(old, next)[i] = old[i]
          /\ Len(old) \in Nat /\ (Len(old) # 0 => old # <<>>)
      BY <1>2, <3>2
    <3>4. ASSUME Served(c), NEW i \in 1 .. Len(old)
          PROVE  Append(old, next)[i + 1] = Append(old, next)[i] + 1
      <4>1. CASE i = Len(old)
        BY <1>2, <3>2, <3>3, <3>4, <4>1
      <4>2. CASE i # Len(old)
        <5>1. i \in 1 .. Len(old) - 1 /\ i + 1 \in 1 .. Len(old)
          BY <3>3, <4>2
        <5> QED
          BY <3>2, <3>3, <3>4, <5>1 DEF GapFree
      <4> QED
        BY <4>1, <4>2
    <3>5. Served(c)' => GapFree(Received(c)')
      BY <1>1, <3>1, <3>3, <3>4 DEF GapFree, Served
    <3>6. UpToDate(c)'
      BY <1>1, <3>1, <3>3 DEF UpToDate
    <3> QED
      BY <3>5, <3>6 DEF Sound, GapFree
  <2>3. CASE c \notin hub \ Full
    <3>1. Received(c)' = Received(c) /\ c \notin hub'
      BY <1>1, <2>3 DEF Received
    <3> QED
      BY <1>1, <2>1, <3>1 DEF Sound, Served, GapFree, UpToDate
  <2> QED
    BY <2>2, <2>3
<1>10. NoGaps'
  <2>1. (NoGaps <=> AllSound)'
    BY NoGapsByClient, PTL
  <2> QED
    BY <1>9, <2>1 DEF AllSound
<1> QED
  BY <1>3, <1>5, <1>7, <1>8, <1>10 DEF HubInv

LEMMA HubNextInv == HubInv /\ [HubNext]_hubStateVars => HubInv'
<1> SUFFICES ASSUME HubInv, [HubNext]_hubStateVars PROVE HubInv'
  OBVIOUS
<1>1. CASE UNCHANGED hubStateVars
  <2>1. UNCHANGED <<hub, broadcast, messages, taken, send, closes, handler, reader, writer, got>>
    BY <1>1 DEF hubStateVars, hubVars, pumpVars
  <2>2. NoGaps'
    BY <2>1, QuietStep DEF HubInv, Served
  <2> QED
    BY <2>1, <2>2 DEF HubInv, HubTypeOK, Unregistered, Numbered, NoPanic
<1> QED
  BY <1>1, BroadcastMessageInv, ConnectInv, LeaveInv, WriteMessageInv, WriteFailsInv,
     HubBroadcastsInv
  DEF HubNext

(* The hub, the channels, the buffers and the pumps stay of their type (run, *)
(* readPump, writePump).                                                     *)
THEOREM HubTypeCorrect == HubSpec => []HubTypeOK
<1>1. HubInv => HubTypeOK
  BY DEF HubInv
<1> QED
  BY <1>1, HubInitInv, HubNextInv, PTL DEF HubSpec

(* With any number of clients and any capacities no interleaving of Run and  *)
(* the pumps closes a channel twice or sends on a closed one.                *)
THEOREM RunNeverPanics == HubSpec => []NoPanic
<1>1. HubInv => NoPanic
  BY DEF HubInv
<1> QED
  BY <1>1, HubInitInv, HubNextInv, PTL DEF HubSpec

(* A client that is served misses no message, however often others are       *)
(* evicted.                                                                  *)
THEOREM ClientsMissNothing == HubSpec => []NoGaps
<1>1. HubInv => NoGaps
  BY DEF HubInv
<1> QED
  BY <1>1, HubInitInv, HubNextInv, PTL DEF HubSpec

(* Nobody who leaves is left behind: Run serves exactly the registered       *)
(* clients whose channel is open; a read pump that has returned has taken    *)
(* its client out of the hub, and each pump that has returned has closed the *)
(* connection.                                                               *)
Tended ==
  \A c \in Clients :
    /\ handler[c] \in {"registered", "done"} => (c \in hub <=> closes[c] = 0)
    /\ handler[c] = "done" => reader[c] # "none" /\ writer[c] # "none"
    /\ reader[c] = "done" => c \notin hub \cup connected
    /\ writer[c] = "done" => c \notin connected

LEMMA TendedInit == HubInit => Tended
BY DEF HubInit, Tended

LEMMA TendedNext == HubInv /\ Tended /\ [HubNext]_hubStateVars => Tended'
<1> SUFFICES ASSUME HubInv, Tended, [HubNext]_hubStateVars PROVE Tended'
  OBVIOUS
<1> USE DEF HubInv, HubTypeOK, Unregistered, Tended, hubVars, pumpVars
<1>1. CASE UNCHANGED hubStateVars
  BY <1>1 DEF hubStateVars
<1>2. CASE BroadcastMessage
  BY <1>2 DEF BroadcastMessage
<1>3. CASE HubBroadcasts
  <2>1. UNCHANGED <<handler, reader, writer, connected>> /\ hub' = hub \ Full
    BY <1>3 DEF HubBroadcasts
  <2>2. \A c \in Clients : closes'[c] = IF c \in Full THEN closes[c] + 1 ELSE closes[c]
    BY <1>3 DEF HubBroadcasts
  <2>3. ASSUME NEW c \in Clients PROVE closes[c] \in Nat /\ (c \in Full => c \in hub)
    BY DEF Full
  <2> QED
    BY <2>1, <2>2, <2>3
<1>4. ASSUME NEW c \in Clients, Connect(c) PROVE Tended'
  BY <1>4 DEF Connect
<1>5. ASSUME NEW c \in Clients, HubRegisters(c) PROVE Tended'
  BY <1>5 DEF HubRegisters
<1>6. ASSUME NEW c \in Clients, StartPumps(c) PROVE Tended'
  BY <1>6 DEF StartPumps
<1>7. ASSUME NEW c \in Clients, HubUnregisters(c) PROVE Tended'
  <2>1. \A d \in Clients : /\ closes[d] \in Nat
                            /\ closes'[d] = IF d = c /\ c \in hub THEN closes[d] + 1 ELSE closes[d]
    BY <1>7 DEF HubUnregisters
  <2> QED
    BY <1>7, <2>1 DEF HubUnregisters
<1>8. ASSUME NEW c \in Clients, WriteMessage(c) PROVE Tended'
  BY <1>8 DEF WriteMessage
<1>9. ASSUME NEW c \in Clients, WriteFails(c) \/ WriterStops(c) PROVE Tended'
  BY <1>9 DEF WriteFails, WriterStops, WriterEnds
<1>10. ASSUME NEW c \in Clients, ReadFails(c) \/ BrowserCloses(c) PROVE Tended'
  BY <1>10 DEF ReadFails, BrowserCloses
<1> QED
  BY <1>1, <1>2, <1>3, <1>4, <1>5, <1>6, <1>7, <1>8, <1>9, <1>10 DEF HubNext

(* The half of ClientsLeave and EvictedAreClosed that needs no fairness, for *)
(* a client whose pumps were started.  Its entry in the hub always has a     *)
(* read pump that will hand it over; who is evicted and still connected has  *)
(* a write pump that will find the closed channel (Run, readPump, writePump).*)
THEOREM LeaversAreTended ==
  HubSpec => []\A c \in Clients : handler[c] = "done" =>
                 /\ c \in hub => reader[c] \in {"reading", "leaving"}
                 /\ closes[c] > 0 /\ c \in connected => writer[c] = "running"
<1> DEFINE Goal == \A c \in Clients : handler[c] = "done" =>
                     /\ c \in hub => reader[c] \in {"reading", "leaving"}
                     /\ closes[c] > 0 /\ c \in connected => writer[c] = "running"
<1>1. HubInv /\ Tended => Goal
  BY DEF HubInv, HubTypeOK, Tended
<1>2. HubInit => HubInv /\ Tended
  BY HubInitInv, TendedInit
<1>3. HubInv /\ Tended /\ [HubNext]_hubStateVars => (HubInv /\ Tended)'
  BY HubNextInv, TendedNext
<1> HIDE DEF Goal
<1>4. HubSpec => []Goal
  BY <1>1, <1>2, <1>3, PTL DEF HubSpec
<1> QED
  BY <1>4 DEF Goal

-----------------------------------------------------------------------------
(* Metrics.                                                                  *)

StreamTypeOK ==
  /\ version \in [Sources -> Versions]
  /\ cluster \in [Sources -> 0 .. MaxVersion]
  /\ clients \subseteq Conns /\ usable \subseteq Conns
  /\ phase \in [Conns -> {"new", "added", "copied", "reading", "done"}]
  /\ snapshot \in [Conns -> [Sources -> 0 .. MaxVersion]]
  /\ push \in [Pushers -> Push \cup {NoPush}]
  /\ view \in [Conns -> [Sources -> 0 .. MaxVersion]]
  /\ written \in [Conns -> SUBSET (Sources \X (0 .. MaxVersion))]

(* The present metrics of m were written to c, or come with the snapshot or  *)
(* with an update.                                                           *)
Has(c, m) ==
  \/ <<m, cluster[m]>> \in written[c]
  \/ phase[c] = "copied" /\ snapshot[c][m] = cluster[m]
  \/ Coming(c, m)

(* NothingMissed, from the copy of the snapshot on.                          *)
NothingMissedSinceCopy ==
  \A c \in clients \cap usable : \A m \in Sources :
    phase[c] \in {"copied", "reading"} => Has(c, m)

StreamInv == StreamTypeOK /\ NothingMissedSinceCopy

LEMMA StreamInitInv == StreamInit => StreamInv
<1> SUFFICES ASSUME StreamInit PROVE StreamInv
  OBVIOUS
<1>1. 0 \in 0 .. MaxVersion /\ 1 \in Versions
  BY StreamAssumption DEF Versions
<1>2. Nothing \in [Sources -> 0 .. MaxVersion]
  BY <1>1 DEF Nothing
<1> QED
  BY <1>1, <1>2 DEF StreamInit, StreamInv, StreamTypeOK, NothingMissedSinceCopy

(* What a publication knows.                                                 *)
LEMMA PushType ==
  ASSUME StreamTypeOK, NEW p \in Pushers, NEW step, At(p, step)
  PROVE  /\ push[p] \in Push /\ push[p].step = step
         /\ push[p].source \in Sources /\ push[p].version \in 0 .. MaxVersion
BY StreamAssumption DEF StreamTypeOK, At, Push, Versions

LEMMA StreamNextType == StreamTypeOK /\ [StreamNext]_streamVars => StreamTypeOK'
<1> SUFFICES ASSUME StreamTypeOK, [StreamNext]_streamVars PROVE StreamTypeOK'
  OBVIOUS
<1>1. CASE UNCHANGED streamVars
  BY <1>1 DEF streamVars, connVars, clientVars, StreamTypeOK
<1>2. ASSUME NEW m \in Sources, NewMetrics(m) PROVE StreamTypeOK'
  <2>1. version[m] + 1 \in Versions
    BY <1>2, StreamAssumption DEF NewMetrics, StreamTypeOK, Versions
  <2> QED
    BY <1>2, <2>1 DEF NewMetrics, connVars, clientVars, StreamTypeOK
<1>3. ASSUME NEW p \in Pushers, NEW m \in Sources, StartPush(p, m) PROVE StreamTypeOK'
  <2>1. [source |-> m, version |-> version[m], step |-> "built", todo |-> {}] \in Push
    BY DEF Push, StreamTypeOK
  <2> QED
    BY <1>3, <2>1 DEF StartPush, connVars, clientVars, StreamTypeOK
<1>4. ASSUME NEW p \in Pushers, StoreMetrics(p) PROVE StreamTypeOK'
  <2>1. /\ push[p] \in Push
        /\ push[p].source \in Sources /\ push[p].version \in 0 .. MaxVersion
    BY <1>4, PushType DEF StoreMetrics
  <2>2. [push[p] EXCEPT !.step = "stored"] \in Push
    BY <2>1 DEF Push
  <2> QED
    BY <1>4, <2>1, <2>2 DEF StoreMetrics, connVars, clientVars, StreamTypeOK
<1>5. ASSUME NEW p \in Pushers, ListClients(p) PROVE StreamTypeOK'
  <2>1. push[p] \in Push
    BY <1>5, PushType DEF ListClients
  <2>2. [push[p] EXCEPT !.step = "listed", !.todo = clients] \in Push
    BY <2>1 DEF Push, StreamTypeOK
  <2> QED
    BY <1>5, <2>1, <2>2 DEF ListClients, connVars, clientVars, StreamTypeOK
<1>6. ASSUME NEW p \in Pushers, EndPush(p) PROVE StreamTypeOK'
  BY <1>6 DEF EndPush, connVars, clientVars, StreamTypeOK
<1>7. ASSUME NEW p \in Pushers, NEW c \in Conns, WriteUpdate(p, c) \/ UpdateFails(p, c)
      PROVE  StreamTypeOK'
  <2>1. /\ push[p] \in Push
        /\ push[p].source \in Sources /\ push[p].version \in 0 .. MaxVersion
    BY <1>7, PushType DEF WriteUpdate, UpdateFails
  <2>2. [push[p] EXCEPT !.todo = @ \ {c}] \in Push
    BY <2>1 DEF Push
  <2>3. push' = [push EXCEPT ![p] = [push[p] EXCEPT !.todo = @ \ {c}]]
    BY <1>7 DEF WriteUpdate, UpdateFails
  <2>4. push' \in [Pushers -> Push \cup {NoPush}]
    BY <2>2, <2>3 DEF StreamTypeOK
  <2>5. CASE WriteUpdate(p, c)
    BY <2>1, <2>4, <2>5 DEF WriteUpdate, connVars, StreamTypeOK
  <2>6. CASE UpdateFails(p, c)
    BY <2>4, <2>6 DEF UpdateFails, Remove, clientVars, StreamTypeOK
  <2> QED
    BY <1>7, <2>5, <2>6
<1>8. ASSUME NEW c \in Conns, AddClient(c) \/ SnapshotFails(c) \/ ClientCloses(c) \/ ReadEnds(c)
      PROVE  StreamTypeOK'
  BY <1>8 DEF AddClient, SnapshotFails, ClientCloses, ReadEnds, Remove, clientVars, StreamTypeOK
<1>9. ASSUME NEW c \in Conns, CopySnapshot(c) PROVE StreamTypeOK'
  BY <1>9 DEF CopySnapshot, clientVars, StreamTypeOK
<1>10. ASSUME NEW c \in Conns, WriteSnapshot(c) PROVE StreamTypeOK'
  <2>1. {<<m, snapshot[c][m]>> : m \in Sources} \subseteq Sources \X (0 .. MaxVersion)
    BY DEF StreamTypeOK
  <2> QED
    BY <1>10, <2>1 DEF WriteSnapshot, clientVars, StreamTypeOK
<1> QED
  BY <1>1, <1>2, <1>3, <1>4, <1>5, <1>6, <1>7, <1>8, <1>9, <1>10 DEF StreamNext

(* A publication that brings the present metrics of m to c.                  *)
Brings(p, c, m) ==
  /\ At(p, "stored") \/ (At(p, "listed") /\ c \in push[p].todo)
  /\ push[p].source = m /\ push[p].version = cluster[m]

LEMMA SomebodyBrings ==
  ASSUME NEW c, NEW m
  PROVE  Coming(c, m) <=> \E p \in Pushers : Brings(p, c, m)
BY DEF Coming, Brings

(* One that a step does not touch still brings them.                         *)
LEMMA StillBrings ==
  ASSUME NEW c, NEW m, NEW p, Brings(p, c, m), push'[p] = push[p], cluster'[m] = cluster[m]
  PROVE  Brings(p, c, m)'
BY DEF Brings, At

LEMMA SomebodyBringsNext ==
  ASSUME NEW c, NEW m, NEW p \in Pushers, Brings(p, c, m)'
  PROVE  Coming(c, m)'
BY DEF Coming, Brings

(* A step that changes neither metrics nor what was written or is about to be, *)
(* and after which no other clients have a snapshot.                         *)
LEMMA QuietClients ==
  ASSUME NothingMissedSinceCopy, UNCHANGED <<cluster, snapshot, push, written>>,
         \A c \in clients' \cap usable' :
           phase'[c] \in {"copied", "reading"} =>
             c \in clients \cap usable /\ phase'[c] = phase[c]
  PROVE  NothingMissedSinceCopy'
<1> SUFFICES ASSUME NEW c \in clients' \cap usable', NEW m \in Sources,
                    phase'[c] \in {"copied", "reading"}
             PROVE  Has(c, m)'
  BY DEF NothingMissedSinceCopy
<1>1. c \in clients \cap usable /\ phase'[c] = phase[c] /\ Has(c, m)
  BY DEF NothingMissedSinceCopy
<1> QED
  BY <1>1 DEF Has, Coming, At

(* The publisher p goes on.  What others bring, and what clients have, stays, *)
(* so it is enough to look at what p itself brought.                         *)
LEMMA PublisherSteps ==
  ASSUME StreamTypeOK, NothingMissedSinceCopy, NEW p \in Pushers,
         UNCHANGED <<phase, snapshot>>, clients' \subseteq clients, usable' \subseteq usable,
         \A q \in Pushers \ {p} : push'[q] = push[q],
         \A c \in Conns : written[c] \subseteq written'[c],
         \A c \in clients' \cap usable', m \in Sources :
           \/ cluster'[m] = cluster[m] /\ (Brings(p, c, m) => Has(c, m)')
           \/ Has(c, m)'
  PROVE  NothingMissedSinceCopy'
<1> SUFFICES ASSUME NEW c \in clients' \cap usable', NEW m \in Sources,
                    phase'[c] \in {"copied", "reading"}
             PROVE  Has(c, m)'
  BY DEF NothingMissedSinceCopy
<1>1. CASE Has(c, m)'
  BY <1>1
<1>2. CASE cluster'[m] = cluster[m] /\ (Brings(p, c, m) => Has(c, m)')
  <2>1. c \in Conns /\ Has(c, m)
    BY DEF StreamTypeOK, NothingMissedSinceCopy
  <2>2. CASE <<m, cluster[m]>> \in written[c]
    BY <1>2, <2>1, <2>2 DEF Has
  <2>3. CASE phase[c] = "copied" /\ snapshot[c][m] = cluster[m]
    BY <1>2, <2>3 DEF Has
  <2>4. CASE Coming(c, m)
    <3>1. PICK q \in Pushers : Brings(q, c, m)
      BY <2>4, SomebodyBrings
    <3>2. CASE q = p
      BY <1>2, <3>1, <3>2
    <3>3. CASE q # p
      <4>1. Brings(q, c, m)'
        BY <1>2, <3>1, <3>3, StillBrings
      <4> QED
        BY <4>1, SomebodyBringsNext DEF Has
    <3> QED
      BY <3>2, <3>3
  <2> QED
    BY <2>1, <2>2, <2>3, <2>4 DEF Has
<1> QED
  BY <1>1, <1>2

LEMMA StartPushInv ==
  ASSUME StreamInv, NEW p \in Pushers, NEW m \in Sources, StartPush(p, m)
  PROVE  NothingMissedSinceCopy'
<1>1. /\ push[p] = NoPush
      /\ \A q \in Pushers \ {p} : push'[q] = push[q]
      /\ UNCHANGED <<cluster, clients, phase, usable, snapshot, written>>
  BY DEF StartPush, connVars, clientVars, StreamInv, StreamTypeOK
<1>2. \A c, n : ~Brings(p, c, n)
  BY <1>1 DEF Brings, At
<1> QED
  BY <1>1, <1>2, PublisherSteps DEF StreamInv

(* Whoever stores is about to write to every client.                         *)
LEMMA StoreMetricsInv ==
  ASSUME StreamInv, NEW p \in Pushers, StoreMetrics(p)
  PROVE  NothingMissedSinceCopy'
<1> DEFINE stored == [push[p] EXCEPT !.step = "stored"]
<1>1. /\ push' = [push EXCEPT ![p] = stored]
      /\ cluster' = [cluster EXCEPT ![push[p].source] = push[p].version]
      /\ UNCHANGED <<clients, phase, usable, snapshot, written>>
  BY DEF StoreMetrics, connVars, clientVars
<1>2. push[p] \in Push /\ push[p].step = "built" /\ push[p].source \in Sources
  BY PushType DEF StoreMetrics, StreamInv
<1>3. /\ stored \in Push /\ stored.step = "stored"
      /\ stored.source = push[p].source /\ stored.version = push[p].version
  BY <1>2 DEF Push
<1> HIDE DEF stored
<1>4. push'[p] = stored /\ stored # NoPush /\ \A q \in Pushers \ {p} : push'[q] = push[q]
  BY <1>1, <1>3, StreamAssumption DEF StreamInv, StreamTypeOK
<1>5. cluster'[push[p].source] = push[p].version
  BY <1>1, <1>2 DEF StreamInv, StreamTypeOK
<1>6. ASSUME NEW c \in clients' \cap usable', NEW m \in Sources
      PROVE  \/ cluster'[m] = cluster[m] /\ (Brings(p, c, m) => Has(c, m)')
             \/ Has(c, m)'
  <2>1. CASE m = push[p].source
    <3>1. Brings(p, c, m)'
      BY <1>3, <1>4, <1>5, <2>1 DEF Brings, At
    <3> QED
      BY <3>1, SomebodyBringsNext DEF Has
  <2>2. CASE m # push[p].source
    <3>1. cluster'[m] = cluster[m]
      BY <1>1, <2>2 DEF StreamInv, StreamTypeOK
    <3> QED
      BY <3>1, <2>2 DEF Brings
  <2> QED
    BY <2>1, <2>2
<1> QED
  BY <1>1, <1>4, <1>6, PublisherSteps DEF StreamInv

(* The clients it lists then are all there are.                              *)
LEMMA ListClientsInv ==
  ASSUME StreamInv, NEW p \in Pushers, ListClients(p)
  PROVE  NothingMissedSinceCopy'
<1> DEFINE listed == [push[p] EXCEPT !.step = "listed", !.todo = clients]
<1>1. /\ push' = [push EXCEPT ![p] = listed]
      /\ UNCHANGED <<cluster, clients, phase, usable, snapshot, written>>
  BY DEF ListClients, connVars, clientVars
<1>2. push[p] \in Push
  BY PushType DEF ListClients, StreamInv
<1>3. /\ listed \in Push /\ listed.step = "listed" /\ listed.todo = clients
      /\ listed.source = push[p].source /\ listed.version = push[p].version
  BY <1>2 DEF Push, StreamInv, StreamTypeOK
<1> HIDE DEF listed
<1>4. push'[p] = listed /\ listed # NoPush /\ \A q \in Pushers \ {p} : push'[q] = push[q]
  BY <1>1, <1>3, StreamAssumption DEF StreamInv, StreamTypeOK
<1>5. ASSUME NEW c \in clients' \cap usable', NEW m \in Sources, Brings(p, c, m)
      PROVE  Has(c, m)'
  <2>1. Brings(p, c, m)'
    BY <1>1, <1>3, <1>4, <1>5 DEF Brings, At
  <2> QED
    BY <2>1, SomebodyBringsNext DEF Has
<1> QED
  BY <1>1, <1>4, <1>5, PublisherSteps DEF StreamInv

(* A write, or a failed one, leaves the other clients on the list.           *)
LEMMA WriteUpdateInv ==
  ASSUME StreamInv, NEW p \in Pushers, NEW d \in Conns, WriteUpdate(p, d) \/ UpdateFails(p, d)
  PROVE  NothingMissedSinceCopy'
<1> DEFINE rest == [push[p] EXCEPT !.todo = @ \ {d}]
<1>1. /\ push' = [push EXCEPT ![p] = rest] /\ At(p, "listed")
      /\ UNCHANGED <<cluster, phase, snapshot>>
      /\ clients' \subseteq clients /\ usable' \subseteq usable
      /\ \/ written' = [written EXCEPT ![d] = @ \cup {<<push[p].source, push[p].version>>}]
         \/ written' = written /\ d \notin clients'
  BY DEF WriteUpdate, UpdateFails, Remove, connVars, clientVars
<1>2. push[p] \in Push
  BY <1>1, PushType DEF StreamInv
<1>3. /\ rest \in Push /\ rest.step = push[p].step /\ rest.todo = push[p].todo \ {d}
      /\ rest.source = push[p].source /\ rest.version = push[p].version
  BY <1>2 DEF Push
<1> HIDE DEF rest
<1>4. push'[p] = rest /\ rest # NoPush /\ \A q \in Pushers \ {p} : push'[q] = push[q]
  BY <1>1, <1>3, StreamAssumption DEF StreamInv, StreamTypeOK
<1>5. \A c \in Conns : written[c] \subseteq written'[c]
  BY <1>1 DEF StreamInv, StreamTypeOK
<1>6. ASSUME NEW c \in clients' \cap usable', NEW m \in Sources, Brings(p, c, m)
      PROVE  Has(c, m)'
  <2>1. CASE c = d
    <3>1. <<push[p].source, push[p].version>> \in written'[c]
      BY <1>1, <1>6, <2>1 DEF StreamInv, StreamTypeOK
    <3> QED
      BY <1>1, <1>6, <3>1 DEF Brings, Has
  <2>2. CASE c # d
    <3>1. Brings(p, c, m)'
      BY <1>1, <1>3, <1>4, <1>6, <2>2 DEF Brings, At
    <3> QED
      BY <3>1, SomebodyBringsNext DEF Has
  <2> QED
    BY <2>1, <2>2
<1> QED
  BY <1>1, <1>4, <1>5, <1>6, PublisherSteps DEF StreamInv

LEMMA EndPushInv ==
  ASSUME StreamInv, NEW p \in Pushers, EndPush(p)
  PROVE  NothingMissedSinceCopy'
<1>1. /\ push[p].step = "listed" /\ push[p].todo = {}
      /\ \A q \in Pushers \ {p} : push'[q] = push[q]
      /\ UNCHANGED <<cluster, clients, phase, usable, snapshot, written>>
  BY DEF EndPush, At, connVars, clientVars, StreamInv, StreamTypeOK
<1>2. \A c, m : ~Brings(p, c, m)
  BY <1>1 DEF Brings, At
<1> QED
  BY <1>1, <1>2, PublisherSteps DEF StreamInv

(* What is in a snapshot is what the daemon held when it was copied, and what *)
(* came since is on its way.                                                 *)
LEMMA SnapshotInv ==
  ASSUME StreamInv, NEW d \in Conns, CopySnapshot(d) \/ WriteSnapshot(d)
  PROVE  NothingMissedSinceCopy'
<1> SUFFICES ASSUME NEW c \in clients' \cap usable', NEW m \in Sources,
                    phase'[c] \in {"copied", "reading"}
             PROVE  Has(c, m)'
  BY DEF NothingMissedSinceCopy
<1>1. UNCHANGED <<cluster, clients, usable, push>>
  BY DEF CopySnapshot, WriteSnapshot
<1>2. c \in Conns /\ (Coming(c, m) => Coming(c, m)')
  BY <1>1 DEF Coming, At, StreamInv, StreamTypeOK
<1>3. CASE CopySnapshot(d)
  <2>1. CASE c = d
    BY <1>3, <2>1 DEF CopySnapshot, Has, StreamInv, StreamTypeOK
  <2>2. CASE c # d
    <3>1. /\ phase'[c] = phase[c] /\ snapshot'[c] = snapshot[c] /\ written' = written
          /\ cluster' = cluster
      BY <1>2, <1>3, <2>2 DEF CopySnapshot, clientVars, StreamInv, StreamTypeOK
    <3>2. Has(c, m)
      BY <1>1, <3>1 DEF NothingMissedSinceCopy, StreamInv
    <3> QED
      BY <1>2, <3>1, <3>2 DEF Has
  <2> QED
    BY <2>1, <2>2
<1>4. CASE WriteSnapshot(d)
  <2>1. CASE c = d
    <3>1. phase[c] = "copied" /\ Has(c, m)
      BY <1>1, <1>4, <2>1 DEF WriteSnapshot, NothingMissedSinceCopy, StreamInv
    <3>2. /\ written'[c] = written[c] \cup {<<n, snapshot[c][n]>> : n \in Sources}
          /\ cluster' = cluster
      BY <1>1, <1>2, <1>4, <2>1 DEF WriteSnapshot, StreamInv, StreamTypeOK
    <3> QED
      BY <1>2, <3>1, <3>2 DEF Has
  <2>2. CASE c # d
    <3>1. /\ phase'[c] = phase[c] /\ snapshot'[c] = snapshot[c] /\ written'[c] = written[c]
          /\ cluster' = cluster
      BY <1>2, <1>4, <2>2 DEF WriteSnapshot, clientVars, StreamInv, StreamTypeOK
    <3>2. Has(c, m)
      BY <1>1, <3>1 DEF NothingMissedSinceCopy, StreamInv
    <3> QED
      BY <1>2, <3>1, <3>2 DEF Has
  <2> QED
    BY <2>1, <2>2
<1> QED
  BY <1>3, <1>4

LEMMA StreamNextInv == StreamInv /\ [StreamNext]_streamVars => StreamInv'
<1> SUFFICES ASSUME StreamInv, [StreamNext]_streamVars PROVE NothingMissedSinceCopy'
  BY StreamNextType DEF StreamInv
<1>1. CASE UNCHANGED streamVars
  BY <1>1, QuietClients DEF streamVars, connVars, clientVars, StreamInv
<1>2. ASSUME NEW m \in Sources, NewMetrics(m) PROVE NothingMissedSinceCopy'
  BY <1>2, QuietClients DEF NewMetrics, connVars, clientVars, StreamInv
<1>3. ASSUME NEW c \in Conns, AddClient(c) \/ SnapshotFails(c) \/ ClientCloses(c) \/ ReadEnds(c)
      PROVE  NothingMissedSinceCopy'
  <2>1. /\ UNCHANGED <<cluster, snapshot, push, written>>
        /\ \A d \in clients' \cap usable' :
             phase'[d] \in {"copied", "reading"} =>
               d \in clients \cap usable /\ phase'[d] = phase[d]
    BY <1>3 DEF AddClient, SnapshotFails, ClientCloses, ReadEnds, Remove, clientVars,
         StreamInv, StreamTypeOK
  <2> QED
    BY <2>1, QuietClients DEF StreamInv
<1> QED
  BY <1>1, <1>2, <1>3, StartPushInv, StoreMetricsInv, ListClientsInv, WriteUpdateInv,
     EndPushInv, SnapshotInv
  DEF StreamNext

(* The cached metrics, the views of the clients and the pushes under way stay *)
(* of their type (metrics_stream.go).                                        *)
THEOREM StreamTypeCorrect == StreamSpec => []StreamTypeOK
<1>1. StreamInv => StreamTypeOK
  BY DEF StreamInv
<1> QED
  BY <1>1, StreamInitInv, StreamNextInv, PTL DEF StreamSpec

(* With any number of nodes, clients and publications at a time: a client    *)
(* that joins falls into no gap between its snapshot and the updates.        *)
THEOREM JoiningMissesNothing == StreamSpec => []NothingMissed
<1>1. StreamInv => NothingMissed
  BY DEF StreamInv, NothingMissedSinceCopy, NothingMissed, Has
<1> QED
  BY <1>1, StreamInitInv, StreamNextInv, PTL DEF StreamSpec

(* Client c sees the last metrics of m, and neither a publication nor a      *)
(* snapshot under way holds others.                                          *)
ShowsLast(c, m) ==
  /\ view[c][m] = version[m] /\ cluster[m] = version[m]
  /\ \A p \in Pushers : push[p] # NoPush /\ push[p].source = m => push[p].version = version[m]
  /\ phase[c] = "copied" => snapshot[c][m] = version[m]

(* The half of ClientsConverge that needs no fairness: a client that sees the *)
(* last metrics of a node, with no older ones under way, goes on seeing them *)
(* until there are newer ones, whoever joins, leaves or publishes meanwhile. *)
THEOREM LastIsKept ==
  StreamSpec =>
    [][\A c \in Conns, m \in Sources :
         ShowsLast(c, m) /\ version'[m] = version[m] => ShowsLast(c, m)']_streamVars
<1> DEFINE Stays == \A c \in Conns, m \in Sources :
             ShowsLast(c, m) /\ version'[m] = version[m] => ShowsLast(c, m)'
<1>1. StreamInv /\ [StreamNext]_streamVars => [Stays]_streamVars
  <2> SUFFICES ASSUME StreamTypeOK, StreamNext, NEW c \in Conns, NEW m \in Sources,
                      ShowsLast(c, m), version'[m] = version[m]
               PROVE  ShowsLast(c, m)'
    BY DEF StreamInv
  <2> USE DEF StreamTypeOK, connVars, clientVars
  <2>1. ASSUME NEW n \in Sources, NewMetrics(n) PROVE ShowsLast(c, m)'
    BY <2>1 DEF NewMetrics, ShowsLast
  <2>2. ASSUME NEW p \in Pushers, NEW n \in Sources, StartPush(p, n) PROVE ShowsLast(c, m)'
    <3> DEFINE new == [source |-> n, version |-> version[n], step |-> "built", todo |-> {}]
    <3>1. \A q \in Pushers : push'[q] = IF q = p THEN new ELSE push[q]
      BY <2>2 DEF StartPush
    <3>2. new.source = m => new.version = version[m]
      OBVIOUS
    <3> QED
      BY <2>2, <3>1, <3>2 DEF StartPush, ShowsLast
  <2>3. ASSUME NEW p \in Pushers, push[p] # NoPush, NEW q \in Pushers, NEW step, NEW rest,
               \/ push' = [push EXCEPT ![p].step = step]
               \/ push' = [push EXCEPT ![p].step = step, ![p].todo = rest]
               \/ push' = [push EXCEPT ![p].todo = rest]
        PROVE  /\ push'[q].source = push[q].source /\ push'[q].version = push[q].version
               /\ push'[q] # NoPush => push[q] # NoPush
    BY <2>3 DEF Push
  <2>4. ASSUME NEW p \in Pushers, StoreMetrics(p) PROVE ShowsLast(c, m)'
    <3>1. push[p] # NoPush /\ push[p].source \in Sources
      BY <2>4 DEF StoreMetrics, At, Push
    <3>2. cluster'[m] = version[m]
      BY <2>4, <3>1 DEF StoreMetrics, ShowsLast
    <3> QED
      BY <2>3, <2>4, <3>1, <3>2 DEF StoreMetrics, ShowsLast
  <2>5. ASSUME NEW p \in Pushers, ListClients(p) PROVE ShowsLast(c, m)'
    BY <2>3, <2>5 DEF ListClients, At, ShowsLast
  <2>6. ASSUME NEW p \in Pushers, EndPush(p) PROVE ShowsLast(c, m)'
    BY <2>6 DEF EndPush, ShowsLast
  <2>7. ASSUME NEW p \in Pushers, NEW d \in Conns, WriteUpdate(p, d) PROVE ShowsLast(c, m)'
    <3>1. push[p] # NoPush /\ push[p].source \in Sources
      BY <2>7 DEF WriteUpdate, At, Push
    <3>2. view'[c][m] = version[m]
      BY <2>7, <3>1 DEF WriteUpdate, ShowsLast
    <3> QED
      BY <2>3, <2>7, <3>1, <3>2 DEF WriteUpdate, ShowsLast
  <2>8. ASSUME NEW p \in Pushers, NEW d \in Conns, UpdateFails(p, d) PROVE ShowsLast(c, m)'
    BY <2>3, <2>8 DEF UpdateFails, At, ShowsLast
  <2>9. ASSUME NEW d \in Conns, CopySnapshot(d) PROVE ShowsLast(c, m)'
    BY <2>9 DEF CopySnapshot, ShowsLast
  <2>10. ASSUME NEW d \in Conns, WriteSnapshot(d) PROVE ShowsLast(c, m)'
    <3>1. view'[c][m] = version[m]
      BY <2>10 DEF WriteSnapshot, ShowsLast
    <3> QED
      BY <2>10, <3>1 DEF WriteSnapshot, ShowsLast
  <2>11. ASSUME NEW d \in Conns,
                AddClient(d) \/ SnapshotFails(d) \/ ClientCloses(d) \/ ReadEnds(d)
         PROVE  ShowsLast(c, m)'
    BY <2>11 DEF AddClient, SnapshotFails, ClientCloses, ReadEnds, ShowsLast
  <2> QED
    BY <2>1, <2>2, <2>4, <2>5, <2>6, <2>7, <2>8, <2>9, <2>10, <2>11 DEF StreamNext
<1> QED
  BY <1>1, StreamInitInv, StreamNextInv, PTL DEF StreamSpec

(* Who is registered has a handler that is still there to remove it, and who *)
(* has not come yet is not registered.                                       *)
Attended ==
  /\ \A c \in clients : phase[c] \in {"added", "copied", "reading"}
  /\ \A c \in usable : phase[c] # "new"

LEMMA AttendedNext == StreamTypeOK /\ Attended /\ [StreamNext]_streamVars => Attended'
<1> SUFFICES ASSUME StreamTypeOK, Attended, [StreamNext]_streamVars PROVE Attended'
  OBVIOUS
<1> USE DEF StreamTypeOK, Attended, connVars, clientVars
<1>1. CASE UNCHANGED streamVars
  BY <1>1 DEF streamVars
<1>2. ASSUME \/ \E m \in Sources : NewMetrics(m)
             \/ \E p \in Pushers, m \in Sources : StartPush(p, m)
             \/ \E p \in Pushers : StoreMetrics(p) \/ ListClients(p) \/ EndPush(p)
             \/ \E p \in Pushers, c \in Conns : WriteUpdate(p, c)
      PROVE  Attended'
  <2>1. UNCHANGED <<phase, usable, clients>>
    BY <1>2 DEF NewMetrics, StartPush, StoreMetrics, ListClients, EndPush, WriteUpdate
  <2> QED
    BY <2>1
<1>3. ASSUME NEW p \in Pushers, NEW c \in Conns, UpdateFails(p, c) PROVE Attended'
  BY <1>3 DEF UpdateFails, Remove
<1>4. ASSUME NEW c \in Conns, AddClient(c) PROVE Attended'
  BY <1>4 DEF AddClient
<1>5. ASSUME NEW c \in Conns, CopySnapshot(c) \/ WriteSnapshot(c) \/ SnapshotFails(c)
      PROVE  Attended'
  BY <1>5 DEF CopySnapshot, WriteSnapshot, SnapshotFails
<1>6. ASSUME NEW c \in Conns, ClientCloses(c) \/ ReadEnds(c) PROVE Attended'
  BY <1>6 DEF ClientCloses, ReadEnds, Remove
<1> QED
  BY <1>1, <1>2, <1>3, <1>4, <1>5, <1>6 DEF StreamNext

(* The half of ClosedConnsLeave that needs no fairness: a handler never      *)
(* returns before its connection is unregistered, and a connection that is   *)
(* closed and unregistered is neither opened nor registered again, although  *)
(* publishers that listed it before may still be at it (removeClient).       *)
THEOREM ClosedConnsStayOut ==
  StreamSpec => /\ []\A c \in clients : phase[c] \in {"added", "copied", "reading"}
                /\ [][\A c \in Conns :
                        phase[c] # "new" /\ c \notin clients \cup usable
                          => phase'[c] # "new" /\ c \notin (clients \cup usable)']_streamVars
<1> DEFINE Present == \A c \in clients : phase[c] \in {"added", "copied", "reading"}
           Out == \A c \in Conns :
                    phase[c] # "new" /\ c \notin clients \cup usable
                      => phase'[c] # "new" /\ c \notin (clients \cup usable)'
<1>1. StreamInit => Attended
  BY DEF StreamInit, Attended
<1>2. StreamInv => StreamTypeOK
  BY DEF StreamInv
<1>3. Attended => Present
  BY DEF Attended
<1>4. StreamTypeOK /\ [StreamNext]_streamVars => [Out]_streamVars
  <2> SUFFICES ASSUME StreamTypeOK, StreamNext, NEW c \in Conns,
                      phase[c] # "new", c \notin clients \cup usable
               PROVE  phase'[c] # "new" /\ c \notin (clients \cup usable)'
    OBVIOUS
  <2>1. CASE UNCHANGED <<phase, usable, clients>>
    BY <2>1
  <2>2. CASE \E p \in Pushers, d \in Conns : UpdateFails(p, d)
    BY <2>2 DEF UpdateFails, Remove
  <2>3. ASSUME NEW d \in Conns, \/ AddClient(d) \/ CopySnapshot(d) \/ WriteSnapshot(d)
                                \/ SnapshotFails(d) \/ ClientCloses(d) \/ ReadEnds(d)
        PROVE  phase'[c] # "new" /\ c \notin (clients \cup usable)'
    BY <2>3 DEF AddClient, CopySnapshot, WriteSnapshot, SnapshotFails, ClientCloses, ReadEnds,
                Remove, StreamTypeOK
  <2> QED
    BY <2>1, <2>2, <2>3 DEF StreamNext, NewMetrics, StartPush, StoreMetrics, ListClients,
                            EndPush, WriteUpdate, connVars
<1> HIDE DEF Present, Out
<1>5. StreamSpec => []Present /\ [][Out]_streamVars
  BY <1>1, <1>2, <1>3, <1>4, AttendedNext, StreamInitInv, StreamNextInv, PTL DEF StreamSpec
<1> QED
  BY <1>5 DEF Present, Out

-----------------------------------------------------------------------------
(* The flows together.                                                       *)

LEMMA FlowsStep ==
  [FlowNext]_flowVars => /\ [Next]_vars /\ [TrackerNext]_trackerVars /\ [MapperNext]_mapperVars
                         /\ [HubNext]_hubStateVars /\ [StreamNext]_streamVars
<1> SUFFICES ASSUME [FlowNext]_flowVars
             PROVE  /\ [Next]_vars /\ [TrackerNext]_trackerVars /\ [MapperNext]_mapperVars
                    /\ [HubNext]_hubStateVars /\ [StreamNext]_streamVars
  OBVIOUS
<1>1. CASE DnsFlow
  BY <1>1 DEF DnsFlow
<1>2. CASE ConnectionsFlow
  BY <1>2 DEF ConnectionsFlow
<1>3. CASE ProcessesFlow
  BY <1>3 DEF ProcessesFlow
<1>4. CASE MessagesFlow
  BY <1>4 DEF MessagesFlow
<1>5. CASE MetricsFlow
  BY <1>5 DEF MetricsFlow
<1>6. CASE UNCHANGED flowVars
  BY <1>6 DEF flowVars
<1> QED
  BY <1>1, <1>2, <1>3, <1>4, <1>5, <1>6 DEF FlowNext

(* Whatever a daemon does, each of its flows behaves as it does alone.       *)
THEOREM FlowsAreApart ==
  FlowSpec => Spec /\ TrackerSpec /\ MapperSpec /\ HubSpec /\ StreamSpec
<1>1. FlowInit => Init /\ TrackerInit /\ MapperInit /\ HubInit /\ StreamInit
  BY DEF FlowInit
<1>2. FlowSpec => FlowInit /\ [][FlowNext]_flowVars
  BY PTL DEF FlowSpec
<1> QED
  BY <1>1, <1>2, FlowsStep, PTL DEF Spec, TrackerSpec, MapperSpec, HubSpec, StreamSpec

(* In a daemon, no ring, channel or map of bounded size holds more than it has *)
(* room for.                                                                 *)
THEOREM FlowTypeCorrect == FlowSpec => []FlowTypeOK
<1>1. TypeOK /\ TrackerTypeOK /\ MapperTypeOK => FlowTypeOK
  BY DEF FlowTypeOK
<1> QED
  BY <1>1, FlowsAreApart, PipelineTypeCorrect, TrackerTypeCorrect, MapperTypeCorrect, PTL

(* What each flow promises by itself, a daemon promises too.                 *)
THEOREM DaemonKeepsPromises ==
  FlowSpec => /\ [](HubTypeOK /\ StreamTypeOK)
              /\ [](NoSendOnClosed /\ PodsWereMapped /\ NoPanic /\ NoGaps /\ NothingMissed)
              /\ MeasuresLastSend
BY FlowsAreApart, HubTypeCorrect, StreamTypeCorrect, SendsAreSafe, ShownPodsWereMapped,
   RunNeverPanics, ClientsMissNothing, JoiningMissesNothing, MeasuringIsFaithful, PTL
=============================================================================

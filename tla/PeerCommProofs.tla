---------------------------- MODULE PeerCommProofs ----------------------------
(* What a daemon's log says of its sends is true, for any daemons, peers,    *)
(* target lists and sends under way, whatever times out, is lost, arrives    *)
(* late or restarts.                                                         *)
EXTENDS PeerComm, PeerTransportProofs, SequenceTheorems

(* ReportsAreTrue, for one entry.                                            *)
EntryTrue(n, entry) ==
  /\ entry.delivered \subseteq entry.reached
  /\ entry.delivered \cup entry.failed = entry.attempted \ {n}
  /\ entry.delivered \cap entry.failed = {}
  /\ entry.result = "delivered" => entry.attempted \ {n} \subseteq entry.reached

LogTrue ==
  \A n \in Nodes : \A i \in DOMAIN log[n] :
    log[n][i].entry.mode # "RECEIVED" => EntryTrue(n, log[n][i].entry)

IInv == TypeOK /\ SendInv /\ LogTrue

LEMMA LogTrueIsReportsAreTrue == LogTrue => ReportsAreTrue
BY DEF LogTrue, ReportsAreTrue, SentBy, EntryTrue

(* The last entries are left, in their order and as many as there is room for. *)
LEMMA TrimKeepsLast ==
  ASSUME NEW entries \in Seq(Recorded)
  PROVE  /\ Trim(entries) \in Seq(Recorded)
         /\ Len(Trim(entries)) = Smaller(MaxLog, Len(entries))
         /\ \A i \in DOMAIN Trim(entries) :
              LET j == Len(entries) - Len(Trim(entries)) + i IN
              j \in DOMAIN entries /\ Trim(entries)[i] = entries[j]
<1> DEFINE first == Len(entries) - MaxLog + 1
           kept == SubSeq(entries, first, Len(entries))
<1>1. MaxLog \in Nat \ {0} /\ Len(entries) \in Nat
  BY CommAssumption
<1>2. CASE Len(entries) > MaxLog
  <2>1. /\ first \in Nat \ {0} /\ first <= Len(entries)
        /\ Len(entries) - first + 1 = MaxLog /\ first - 1 = Len(entries) - MaxLog
    BY <1>1, <1>2
  <2>2. \A i \in first .. Len(entries) : i \in DOMAIN entries /\ entries[i] \in Recorded
    BY <1>1, <2>1
  <2>3. Trim(entries) = kept
    BY <1>2 DEF Trim
  <2> HIDE DEF first
  <2>4. /\ kept \in Seq(Recorded)
        /\ Len(kept) = MaxLog
        /\ \A i \in 1 .. MaxLog : kept[i] = entries[first + i - 1]
    BY <1>1, <2>1, <2>2, SubSeqProperties
  <2> HIDE DEF kept
  <2>5. ASSUME NEW i \in DOMAIN kept
        PROVE  /\ Len(entries) - MaxLog + i \in DOMAIN entries
               /\ kept[i] = entries[Len(entries) - MaxLog + i]
    <3>1. i \in 1 .. MaxLog
      BY <1>1, <2>4
    <3>2. first + i - 1 \in first .. Len(entries) /\ first + i - 1 = Len(entries) - MaxLog + i
      BY <1>1, <2>1, <3>1
    <3> QED
      BY <2>2, <2>4, <3>1, <3>2
  <2>6. Smaller(MaxLog, Len(entries)) = MaxLog
    BY <1>1, <1>2 DEF Smaller
  <2> QED
    BY <2>3, <2>4, <2>5, <2>6
<1>3. CASE ~(Len(entries) > MaxLog)
  <2>1. Trim(entries) = entries /\ Smaller(MaxLog, Len(entries)) = Len(entries)
    BY <1>1, <1>3 DEF Trim, Smaller
  <2>2. \A i \in DOMAIN entries : Len(entries) - Len(entries) + i = i
    BY <1>1
  <2> QED
    BY <2>1, <2>2
<1> QED
  BY <1>2, <1>3

(* A true entry keeps the log true.                                          *)
LEMMA RecordLogInv ==
  ASSUME log \in [Nodes -> Seq(Recorded)], recorded \in [Nodes -> Nat], LogTrue,
         NEW n \in Nodes, NEW entry \in Entry,
         entry.mode # "RECEIVED" => EntryTrue(n, entry), RecordLog(n, entry)
  PROVE  log' \in [Nodes -> Seq(Recorded)] /\ recorded' \in [Nodes -> Nat] /\ LogTrue'
<1> DEFINE new == [nth |-> recorded[n] + 1, entry |-> entry]
           longer == Append(log[n], new)
<1>1. new \in Recorded /\ new.entry = entry
  BY DEF Recorded
<1>2. /\ log' = [log EXCEPT ![n] = Trim(longer)]
      /\ recorded' = [recorded EXCEPT ![n] = @ + 1]
  BY DEF RecordLog
<1> HIDE DEF new
<1>3. /\ longer \in Seq(Recorded)
      /\ \A j \in DOMAIN longer : longer[j] = new \/ (j \in DOMAIN log[n] /\ longer[j] = log[n][j])
  BY <1>1, AppendProperties
<1> HIDE DEF longer
<1>4. Trim(longer) \in Seq(Recorded)
  BY <1>3, TrimKeepsLast
<1>5. ASSUME NEW i \in DOMAIN Trim(longer), Trim(longer)[i].entry.mode # "RECEIVED"
      PROVE  EntryTrue(n, Trim(longer)[i].entry)
  <2>1. PICK j \in DOMAIN longer : Trim(longer)[i] = longer[j]
    BY <1>3, TrimKeepsLast
  <2> QED
    BY <1>1, <1>3, <1>5, <2>1 DEF LogTrue
<1>6. log' \in [Nodes -> Seq(Recorded)]
  BY <1>2, <1>4
<1>7. recorded' \in [Nodes -> Nat]
  BY <1>2
<1>8. LogTrue'
  BY <1>2, <1>5 DEF LogTrue, EntryTrue
<1> QED
  BY <1>6, <1>7, <1>8

(* What sendData logs in the end is true of a call nobody is waited for in.  *)
LEMMA EntryOfCall ==
  ASSUME NEW call \in Sending, CallSound(call), call.waiting = {}
  PROVE  EntryOf(call) \in Entry /\ EntryTrue(call.from, EntryOf(call))
<1> DEFINE result == Result(call)
<1>1. result \in {"delivered", "partial", "failed", "no_peers", "no_targets"}
  BY DEF Result
<1>2. result = "delivered" => call.failed = {}
  BY DEF Result
<1>3. EntryOf(call) = [mode |-> call.mode, attempted |-> call.attempted,
        delivered |-> call.delivered, failed |-> call.failed, reached |-> call.reached,
        result |-> result]
  BY DEF EntryOf
<1> HIDE DEF result
<1>4. EntryOf(call) \in Entry
  BY <1>1, <1>3 DEF Entry, SentEntry, Sending
<1>5. EntryTrue(call.from, EntryOf(call))
  BY <1>2, <1>3 DEF EntryTrue, CallSound
<1> QED
  BY <1>4, <1>5

-----------------------------------------------------------------------------
(* The steps of a daemon: the transport's, with counters and log.            *)
StatsTypeOK ==
  stats \in [Nodes -> [broadcast : Nat, unicast : Nat, multicast : Nat,
                       received : Nat, total : Nat]]

LEMMA CountType ==
  ASSUME StatsTypeOK, NEW n \in Nodes,
         NEW field \in {"broadcast", "unicast", "multicast", "received"}, Count(n, field)
  PROVE  StatsTypeOK'
<1> DEFINE counters == [stats[n] EXCEPT !.total = @ + 1]
           counted == [counters EXCEPT ![field] = @ + 1]
<1>1. counters \in [broadcast : Nat, unicast : Nat, multicast : Nat, received : Nat, total : Nat]
  BY DEF StatsTypeOK
<1>2. stats' = [stats EXCEPT ![n] = counted]
  BY DEF Count, StatsTypeOK
<1> HIDE DEF counters
<1>3. counted \in [broadcast : Nat, unicast : Nat, multicast : Nat, received : Nat, total : Nat]
  BY <1>1
<1> QED
  BY <1>2, <1>3 DEF StatsTypeOK

LEMMA StartInv ==
  ASSUME IInv, NEW s \in Slots, NEW n \in Nodes, NEW mode \in Modes,
         NEW targets \in SUBSET Addresses, Start(s, n, mode, targets)
  PROVE  IInv'
<1>1. /\ sends < MaxSends /\ sends' = sends + 1 /\ sends \in Nat
      /\ Begin(s, n, mode, sends + 1, targets)
      /\ Count(n, Counter(mode)) /\ UNCHANGED <<log, recorded>>
  BY DEF Start, IInv, TypeOK
<1>2. sends + 1 \in Payloads
  BY <1>1, CommAssumption
<1>3. TransportTypeOK' /\ SendInv'
  BY <1>1, <1>2, BeginInv DEF IInv, TypeOK
<1>4. StatsTypeOK'
  BY <1>1, CountType DEF Counter, Modes, IInv, TypeOK, StatsTypeOK
<1>5. LogTrue' /\ log' \in [Nodes -> Seq(Recorded)] /\ recorded' \in [Nodes -> Nat]
  BY <1>1 DEF IInv, TypeOK, LogTrue, EntryTrue
<1>6. sends' \in Nat
  BY <1>1
<1> QED
  BY <1>3, <1>4, <1>5, <1>6 DEF IInv, TypeOK, StatsTypeOK

(* What a target list resolves to are addresses.                             *)
LEMMA TargetsType ==
  ASSUME TransportTypeOK, NEW n \in Nodes, NEW labels \in Requested
  PROVE  TargetsOf(n, labels) \subseteq Addresses
<1>1. labels \in Seq(Labels)
  BY CommAssumption
<1>2. \A i \in DOMAIN labels : labels[i].of \in Addresses
  BY <1>1 DEF Labels, Addresses
<1> QED
  BY <1>2 DEF TargetsOf, Resolve

LEMMA CallInv ==
  ASSUME IInv, NEW s \in Slots, NEW n \in Nodes,
         \/ BroadcastCall(s, n)
         \/ \E labels \in Requested : UnicastCall(s, n, labels) \/ MulticastCall(s, n, labels)
  PROVE  IInv'
<1>1. CASE BroadcastCall(s, n)
  <2>1. BroadcastTargets(n) \subseteq Addresses
    BY DEF BroadcastTargets, IInv, TypeOK, TransportTypeOK
  <2> QED
    BY <1>1, <2>1, StartInv DEF BroadcastCall, Modes
<1>2. ASSUME NEW labels \in Requested, UnicastCall(s, n, labels) \/ MulticastCall(s, n, labels)
      PROVE  IInv'
  <2>1. TargetsOf(n, labels) \subseteq Addresses
    BY TargetsType DEF IInv, TypeOK
  <2> QED
    BY <1>2, <2>1, StartInv DEF UnicastCall, MulticastCall, Modes
<1> QED
  BY <1>1, <1>2

(* The outcome a daemon logs is true when the last target is done.           *)
LEMMA FinishInv ==
  ASSUME IInv, NEW s \in Slots, Finish(s)
  PROVE  IInv'
<1> DEFINE call == send[s]
           n == call.from
<1>1. End(s) /\ RecordLog(n, EntryOf(call)) /\ UNCHANGED <<stats, sends>>
  BY DEF Finish
<1>2. call \in Sending /\ CallSound(call) /\ call.waiting = {} /\ n \in Nodes
  BY <1>1 DEF End, IInv, TypeOK, TransportTypeOK, SendInv, CallsSound, Sending
<1>3. TransportTypeOK' /\ SendInv'
  BY <1>1, EndInv DEF IInv, TypeOK
<1>4. EntryOf(call) \in Entry /\ EntryTrue(n, EntryOf(call))
  BY <1>2, EntryOfCall
<1> HIDE DEF call, n
<1>5. log' \in [Nodes -> Seq(Recorded)] /\ recorded' \in [Nodes -> Nat] /\ LogTrue'
  BY <1>1, <1>2, <1>4, RecordLogInv DEF IInv, TypeOK
<1> QED
  BY <1>1, <1>3, <1>5 DEF IInv, TypeOK

LEMMA ReceiveInv ==
  ASSUME IInv, NEW m \in wire, ReceiveCounts(m) \/ ReceiveLogs(m)
  PROVE  IInv'
<1>1. m \in Request /\ m.to \in Nodes /\ m.from \in Nodes
  BY DEF IInv, TypeOK, TransportTypeOK, Request
<1>2. CASE ReceiveCounts(m)
  <2>1. Arrive(m) /\ Count(m.to, "received") /\ UNCHANGED <<log, recorded, sends>>
    BY <1>2 DEF ReceiveCounts
  <2>2. TransportTypeOK' /\ SendInv'
    BY <2>1, ArriveInv DEF IInv, TypeOK
  <2>3. StatsTypeOK'
    BY <1>1, <2>1, CountType DEF IInv, TypeOK, StatsTypeOK
  <2> QED
    BY <2>1, <2>2, <2>3 DEF IInv, TypeOK, StatsTypeOK, LogTrue, EntryTrue
<1>3. CASE ReceiveLogs(m)
  <2> DEFINE entry == [mode |-> "RECEIVED", from |-> m.from]
  <2>1. Answer(m) /\ RecordLog(m.to, entry) /\ UNCHANGED <<stats, sends>>
    BY <1>3 DEF ReceiveLogs
  <2>2. TransportTypeOK' /\ SendInv'
    BY <2>1, AnswerInv DEF IInv, TypeOK
  <2>3. entry \in Entry /\ entry.mode = "RECEIVED"
    BY <1>1 DEF Entry, ReceivedEntry
  <2> HIDE DEF entry
  <2>4. log' \in [Nodes -> Seq(Recorded)] /\ recorded' \in [Nodes -> Nat] /\ LogTrue'
    BY <1>1, <2>1, <2>3, RecordLogInv DEF IInv, TypeOK
  <2> QED
    BY <2>1, <2>2, <2>4 DEF IInv, TypeOK
<1> QED
  BY <1>2, <1>3

LEMMA RestartCommInv ==
  ASSUME IInv, NEW n \in Nodes, NEW view \in Views, RestartComm(n, view)
  PROVE  IInv'
<1>1. /\ Restart(n, view) /\ stats' = [stats EXCEPT ![n] = NoStats]
      /\ log' = [log EXCEPT ![n] = <<>>] /\ recorded' = [recorded EXCEPT ![n] = 0]
      /\ UNCHANGED sends
  BY DEF RestartComm
<1>2. TransportTypeOK' /\ SendInv'
  BY <1>1, RestartInv DEF IInv, TypeOK
<1>3. StatsTypeOK'
  BY <1>1 DEF StatsTypeOK, NoStats, IInv, TypeOK
<1>4. log' \in [Nodes -> Seq(Recorded)] /\ LogTrue'
  BY <1>1 DEF IInv, TypeOK, LogTrue, EntryTrue
<1> QED
  BY <1>1, <1>2, <1>3, <1>4 DEF IInv, TypeOK, StatsTypeOK

-----------------------------------------------------------------------------
LEMMA InitInv == Init => IInv
<1> SUFFICES ASSUME Init PROVE IInv
  OBVIOUS
<1>1. /\ send = [s \in Slots |-> NoSend] /\ wire = {} /\ restarts = 0
      /\ log = [n \in Nodes |-> <<>>] /\ recorded = [n \in Nodes |-> 0]
      /\ stats = [n \in Nodes |-> NoStats] /\ sends = 0
  BY DEF Init, TransportInit
<1>2. peers \in [Nodes -> SUBSET Addresses] /\ named \in [Nodes -> SUBSET Nodes]
  <2>1. PICK view \in [Nodes -> Views] :
          /\ peers = [n \in Nodes |-> view[n].peers]
          /\ named = [n \in Nodes |-> view[n].named]
    BY DEF Init, TransportInit
  <2>2. \A v \in Views : v.peers \subseteq Addresses /\ v.named \subseteq Nodes
    BY TransportAssumption DEF Views, View, Addresses
  <2> QED
    BY <2>1, <2>2
<1>3. TypeOK
  BY <1>1, <1>2 DEF TypeOK, TransportTypeOK, NoStats
<1>4. SendInv
  BY <1>1 DEF SendInv, CallsSound, RequestsSound, OneRequest
<1>5. LogTrue
  BY <1>1 DEF LogTrue
<1> QED
  BY <1>3, <1>4, <1>5 DEF IInv

LEMMA NextInv == IInv /\ [Next]_vars => IInv'
<1> SUFFICES ASSUME IInv, [Next]_vars PROVE IInv'
  OBVIOUS
<1> USE DEF IInv
<1>1. ASSUME NEW s \in Slots, NEW n \in Nodes, BroadcastCall(s, n) PROVE IInv'
  BY <1>1, CallInv
<1>2. ASSUME NEW s \in Slots, NEW n \in Nodes, NEW labels \in Requested,
             UnicastCall(s, n, labels) \/ MulticastCall(s, n, labels)
      PROVE  IInv'
  BY <1>2, CallInv
<1>3. ASSUME NEW s \in Slots, Finish(s) PROVE IInv'
  BY <1>3, FinishInv
<1>4. ASSUME NEW m \in wire, ReceiveCounts(m) \/ ReceiveLogs(m) PROVE IInv'
  BY <1>4, ReceiveInv
<1>5. ASSUME NEW m \in wire, ReplyArrives(m), UNCHANGED commVars PROVE IInv'
  BY <1>5, ReplyArrivesInv DEF commVars, TypeOK, LogTrue, EntryTrue
<1>6. ASSUME NEW s \in Slots, NEW a \in Addresses, SendFails(s, a),
             UNCHANGED commVars
      PROVE  IInv'
  BY <1>6, SendFailsInv DEF commVars, TypeOK, LogTrue, EntryTrue
<1>7. ASSUME NEW n \in Nodes, NEW view \in Views, Refresh(n, view),
             UNCHANGED commVars
      PROVE  IInv'
  BY <1>7, RefreshInv DEF commVars, TypeOK, LogTrue, EntryTrue
<1>8. ASSUME NEW n \in Nodes, NEW view \in Views, RestartComm(n, view) PROVE IInv'
  BY <1>8, RestartCommInv
<1>9. ASSUME UNCHANGED vars PROVE IInv'
  BY <1>9 DEF vars, transportVars, commVars, TypeOK, TransportTypeOK, SendInv, CallsSound, CallSound,
              RequestsSound, RequestSound, OneRequest, LogTrue, EntryTrue
<1> QED
  BY <1>1, <1>2, <1>3, <1>4, <1>5, <1>6, <1>7, <1>8, <1>9 DEF Next

(* The peers, the calls under way, the requests, the counters and the log    *)
(* stay of their type (comm.go).                                             *)
THEOREM CommTypeCorrect == Spec => []TypeOK
<1>1. IInv => TypeOK
  BY DEF IInv
<1> QED
  BY <1>1, InitInv, NextInv, PTL DEF Spec

(* What a daemon's log says of its sends is true: a target it lists as       *)
(* delivered has received the message, none is forgotten or listed twice, and *)
(* "delivered" means all of them (sendData).                                 *)
THEOREM LogTellsTheTruth == Spec => []ReportsAreTrue
<1>1. IInv => ReportsAreTrue
  BY LogTrueIsReportsAreTrue DEF IInv
<1> QED
  BY <1>1, InitInv, NextInv, PTL DEF Spec

-----------------------------------------------------------------------------
(* Counters and log.                                                         *)

(* LogMatchesStats, for one daemon.                                          *)
Balanced(k) ==
  /\ recorded[k] = stats[k].total - Unlogged(k)
  /\ Len(log[k]) = Smaller(MaxLog, recorded[k])
  /\ \A i \in DOMAIN log[k] : log[k][i].nth = recorded[k] - Len(log[k]) + i

(* There are finitely many requests, and as sends are numbered no two are the *)
(* same: a handler that starts or ends changes by one what its daemon is     *)
(* handling, and a request that is given up is handled as it was.            *)
WireKept == IsFiniteSet(wire) /\ Distinct /\ \A m \in wire : m.payload \in 1 .. sends

Books == WireKept /\ \A k \in Nodes : Balanced(k)

LEMMA UnloggedIs ==
  \A k : /\ Unlogged(k) = Cardinality(SendsOf(k)) + Cardinality(CountedAt(k))
         /\ Unlogged(k)' = Cardinality(SendsOf(k)') + Cardinality(CountedAt(k)')
BY DEF Unlogged, SendsOf, CountedAt

(* What is under way is a number.                                            *)
LEMMA UnloggedType ==
  ASSUME IsFiniteSet(wire)
  PROVE  \A k : /\ Cardinality(SendsOf(k)) \in Nat /\ Cardinality(CountedAt(k)) \in Nat
                /\ Unlogged(k) \in Nat
<1>1. \A k : IsFiniteSet(CountedAt(k))
  BY FS_Subset DEF CountedAt
<1> QED
  BY <1>1, SendsFinite, FS_CardinalityType, UnloggedIs

LEMMA LogLength ==
  ASSUME IInv
  PROVE  \A k \in Nodes : /\ Len(log[k]) \in Nat /\ stats[k].total \in Nat
                          /\ recorded[k] \in Nat
BY DEF IInv, TypeOK

(* A message is counted when it starts and logged when it ends.              *)
LEMMA CountStarts ==
  ASSUME IInv, Books, NEW n \in Nodes,
         NEW field \in {"broadcast", "unicast", "multicast", "received"}, Count(n, field),
         UNCHANGED <<log, recorded>>, Unlogged(n)' = Unlogged(n) + 1,
         \A k : k # n => Unlogged(k)' = Unlogged(k)
  PROVE  \A k \in Nodes : Balanced(k)'
<1>1. stats'[n].total = stats[n].total + 1 /\ \A k \in Nodes \ {n} : stats'[k] = stats[k]
  BY DEF Count, IInv, TypeOK
<1>2. \A k \in Nodes : Unlogged(k) \in Nat /\ Len(log[k]) \in Nat /\ stats[k].total \in Nat
  BY UnloggedType, LogLength DEF Books, WireKept
<1>3. Balanced(n)'
  <2>1. stats'[n].total - Unlogged(n)' = stats[n].total - Unlogged(n)
    BY <1>1, <1>2
  <2> QED
    BY <2>1 DEF Balanced, Books, WireKept
<1>4. ASSUME NEW k \in Nodes, k # n PROVE Balanced(k)'
  BY <1>1, <1>4 DEF Balanced, Books, WireKept
<1> QED
  BY <1>3, <1>4

LEMMA LogEnds ==
  ASSUME IInv, Books, NEW n \in Nodes, NEW entry \in Entry, RecordLog(n, entry),
         UNCHANGED stats, Unlogged(n)' = Unlogged(n) - 1,
         \A k : k # n => Unlogged(k)' = Unlogged(k)
  PROVE  \A k \in Nodes : Balanced(k)'
<1> DEFINE new == [nth |-> recorded[n] + 1, entry |-> entry]
           longer == Append(log[n], new)
           kept == Trim(longer)
<1>1. /\ recorded' = [recorded EXCEPT ![n] = @ + 1] /\ log' = [log EXCEPT ![n] = kept]
      /\ log \in [Nodes -> Seq(Recorded)] /\ recorded \in [Nodes -> Nat]
  BY DEF RecordLog, IInv, TypeOK
<1>2. new \in Recorded /\ new.nth = recorded[n] + 1
  BY <1>1 DEF Recorded
<1> HIDE DEF new
<1>3. /\ longer \in Seq(Recorded) /\ Len(longer) = Len(log[n]) + 1
      /\ \A j \in 1 .. Len(log[n]) : longer[j] = log[n][j]
      /\ longer[Len(log[n]) + 1] = new
  BY <1>1, <1>2, AppendProperties
<1> HIDE DEF longer
<1>4. /\ kept \in Seq(Recorded) /\ Len(kept) = Smaller(MaxLog, Len(longer))
      /\ \A i \in DOMAIN kept : LET j == Len(longer) - Len(kept) + i IN
           j \in DOMAIN longer /\ kept[i] = longer[j]
  BY <1>3, TrimKeepsLast
<1> HIDE DEF kept
<1>5. /\ log'[n] = kept /\ recorded'[n] = recorded[n] + 1
      /\ \A k \in Nodes \ {n} : log'[k] = log[k] /\ recorded'[k] = recorded[k]
  BY <1>1
<1>6. \A k \in Nodes : /\ Unlogged(k) \in Nat /\ Len(log[k]) \in Nat
                       /\ stats[k].total \in Nat /\ recorded[k] \in Nat
  BY UnloggedType, LogLength DEF Books, WireKept
<1>7. /\ recorded[n] = stats[n].total - Unlogged(n)
      /\ Len(log[n]) = Smaller(MaxLog, recorded[n])
      /\ \A i \in DOMAIN log[n] : log[n][i].nth = recorded[n] - Len(log[n]) + i
  BY DEF Books, Balanced
<1>8. Balanced(n)'
  <2>1. recorded'[n] = stats'[n].total - Unlogged(n)'
    BY <1>5, <1>6, <1>7
  <2>2. Len(kept) = Smaller(MaxLog, recorded[n] + 1) /\ Len(kept) \in Nat
    BY <1>3, <1>4, <1>6, <1>7, CommAssumption DEF Smaller
  <2>3. \A j \in DOMAIN longer : longer[j].nth = recorded[n] + 1 - Len(longer) + j
    <3>1. ASSUME NEW j \in 1 .. Len(log[n])
          PROVE  longer[j].nth = recorded[n] + 1 - Len(longer) + j
      <4>1. longer[j] = log[n][j] /\ j \in DOMAIN log[n] /\ j \in Nat
        <5>1. log[n] \in Seq(Recorded)
          BY <1>1
        <5>2. DOMAIN log[n] = 1 .. Len(log[n]) /\ Len(log[n]) \in Nat
          BY <5>1
        <5>3. longer[j] = log[n][j]
          BY <1>3
        <5> QED
          BY <5>2, <5>3
      <4>2. longer[j].nth = recorded[n] - Len(log[n]) + j
        BY <1>7, <4>1
      <4>3. recorded[n] - Len(log[n]) + j = recorded[n] + 1 - (Len(log[n]) + 1) + j
        BY <1>6, <4>1
      <4> QED
        BY <1>3, <4>2, <4>3
    <3>2. longer[Len(longer)].nth = recorded[n] + 1 - Len(longer) + Len(longer)
      <4>1. Len(longer) \in Nat
        BY <1>3, <1>6
      <4>2. recorded[n] + 1 = recorded[n] + 1 - Len(longer) + Len(longer)
        BY <1>6, <4>1
      <4> QED
        BY <1>2, <1>3, <4>2
    <3>3. ASSUME NEW j \in DOMAIN longer, j \notin 1 .. Len(log[n]) PROVE j = Len(longer)
      <4>1. DOMAIN longer = 1 .. Len(longer) /\ Len(log[n]) \in Nat
        BY <1>3, <1>6
      <4> QED
        BY <1>3, <3>3, <4>1
    <3> QED
      BY <3>1, <3>2, <3>3
  <2>4. ASSUME NEW i \in DOMAIN kept
        PROVE  kept[i].nth = recorded'[n] - Len(kept) + i
    <3>1. PICK j \in DOMAIN longer : j = Len(longer) - Len(kept) + i /\ kept[i] = longer[j]
      BY <1>4
    <3>2. PICK r \in Int, l \in Int, t \in Int :
            r = recorded[n] + 1 /\ l = Len(longer) /\ t = Len(kept)
      BY <1>3, <1>6, <2>2
    <3>3. i \in Int /\ longer[j].nth = r - l + j /\ j = l - t + i
      <4>1. i \in Int
        BY <1>4, <2>2
      <4>2. longer[j].nth = recorded[n] + 1 - Len(longer) + j
        BY <2>3
      <4>3. j \in Int /\ recorded[n] \in Int
        BY <1>3, <1>6
      <4>4. r - l + j = recorded[n] + 1 - Len(longer) + j
        BY <3>2, <4>3
      <4>5. j = l - t + i
        BY <3>1, <3>2
      <4> QED
        BY <4>1, <4>2, <4>4, <4>5
    <3>4. r - l + j = r - t + i
      BY <3>3
    <3>5. recorded'[n] = r
      BY <1>5, <3>2
    <3>6. kept[i].nth = r - t + i
      BY <3>1, <3>3, <3>4
    <3> QED
      BY <3>2, <3>5, <3>6
  <2>5. Balanced(n)' = (/\ recorded'[n] = stats'[n].total - Unlogged(n)'
                        /\ Len(log'[n]) = Smaller(MaxLog, recorded'[n])
                        /\ \A i \in DOMAIN log'[n] :
                             log'[n][i].nth = recorded'[n] - Len(log'[n]) + i)
    BY DEF Balanced, Smaller
  <2>6. Len(kept) = Smaller(MaxLog, recorded'[n])
    BY <1>5, <2>2
  <2> QED
    BY <1>5, <2>1, <2>4, <2>5, <2>6
<1>9. ASSUME NEW k \in Nodes, k # n PROVE Balanced(k)'
  BY <1>5, <1>9 DEF Balanced, Books, WireKept
<1> QED
  BY <1>8, <1>9

(* What neither counts nor logs.                                             *)
LEMMA NothingCounted ==
  ASSUME Books, UNCHANGED <<stats, log, recorded>>,
         \A k \in Nodes : Unlogged(k)' = Unlogged(k)
  PROVE  \A k \in Nodes : Balanced(k)'
BY DEF Books, WireKept, Balanced

LEMMA BecomesBooks ==
  ASSUME Books, NEW f, Becomes(f), UNCHANGED sends
  PROVE  WireKept'
BY BecomesKeeps DEF Books, WireKept, Becomes, Same

LEMMA StartBooks ==
  ASSUME IInv, Books, NEW s \in Slots, NEW n \in Nodes, NEW mode \in Modes,
         NEW targets \in SUBSET Addresses, Start(s, n, mode, targets)
  PROVE  Books'
<1>1. /\ sends < MaxSends /\ sends' = sends + 1 /\ sends \in Nat
      /\ Begin(s, n, mode, sends + 1, targets)
      /\ Count(n, Counter(mode)) /\ UNCHANGED <<log, recorded>>
  BY DEF Start, IInv, TypeOK
<1>2. sends + 1 \in Payloads /\ TransportTypeOK
  BY <1>1, CommAssumption DEF IInv, TypeOK
<1>3. /\ Cardinality(SendsOf(n)') = Cardinality(SendsOf(n)) + 1
      /\ \A k : k # n => SendsOf(k)' = SendsOf(k)
  BY <1>1, <1>2, BeginSends
<1>4. /\ IsFiniteSet(wire')
      /\ (Distinct /\ \A m \in wire : m.payload # sends + 1) => Distinct'
      /\ \A m \in wire' \ wire : m.payload = sends + 1
      /\ \A k : CountedAt(k)' = CountedAt(k)
  BY <1>1, <1>2, BeginMoves DEF Books, WireKept
<1>5. WireKept'
  <2>1. \A m \in wire : m.payload \in 1 .. sends /\ m.payload # sends + 1
    BY <1>1 DEF Books, WireKept
  <2>2. Distinct'
    BY <1>4, <2>1 DEF Books, WireKept
  <2>3. \A m \in wire' : m.payload \in 1 .. sends'
    BY <1>1, <1>4, <2>1
  <2> QED
    BY <1>4, <2>2, <2>3 DEF WireKept
<1>6. Unlogged(n)' = Unlogged(n) + 1 /\ \A k : k # n => Unlogged(k)' = Unlogged(k)
  <2>1. /\ Cardinality(SendsOf(n)) \in Nat /\ Cardinality(CountedAt(n)) \in Nat
    BY UnloggedType DEF Books, WireKept
  <2> QED
    BY <1>3, <1>4, <2>1, UnloggedIs
<1>7. Counter(mode) \in {"broadcast", "unicast", "multicast", "received"}
  BY DEF Counter, Modes
<1> QED
  BY <1>1, <1>5, <1>6, <1>7, CountStarts DEF Books, WireKept

LEMMA CallBooks ==
  ASSUME IInv, Books, NEW s \in Slots, NEW n \in Nodes,
         \/ BroadcastCall(s, n)
         \/ \E labels \in Requested : UnicastCall(s, n, labels) \/ MulticastCall(s, n, labels)
  PROVE  Books'
<1>1. CASE BroadcastCall(s, n)
  <2>1. BroadcastTargets(n) \subseteq Addresses
    BY DEF BroadcastTargets, IInv, TypeOK, TransportTypeOK
  <2> QED
    BY <1>1, <2>1, StartBooks DEF BroadcastCall, Modes
<1>2. ASSUME NEW labels \in Requested, UnicastCall(s, n, labels) \/ MulticastCall(s, n, labels)
      PROVE  Books'
  <2>1. TargetsOf(n, labels) \subseteq Addresses
    BY TargetsType DEF IInv, TypeOK
  <2> QED
    BY <1>2, <2>1, StartBooks DEF UnicastCall, MulticastCall, Modes
<1> QED
  BY <1>1, <1>2

LEMMA FinishBooks ==
  ASSUME IInv, Books, NEW s \in Slots, Finish(s)
  PROVE  Books'
<1>1. PICK n : n = send[s].from
  OBVIOUS
<1>2. PICK entry : entry = EntryOf(send[s])
  OBVIOUS
<1>3. End(s) /\ RecordLog(n, entry) /\ UNCHANGED <<stats, sends, wire>>
  BY <1>1, <1>2 DEF Finish, End
<1>4. n \in Nodes /\ entry \in Entry /\ TransportTypeOK
  <2>1. send[s] \in Sending /\ CallSound(send[s]) /\ send[s].waiting = {}
    BY <1>3 DEF End, IInv, TypeOK, TransportTypeOK, SendInv, CallsSound
  <2>2. entry \in Entry
    BY <1>2, <2>1, EntryOfCall
  <2> QED
    BY <1>1, <2>1, <2>2 DEF Sending, IInv, TypeOK
<1>5. /\ Cardinality(SendsOf(n)') = Cardinality(SendsOf(n)) - 1
      /\ \A k : k # n => SendsOf(k)' = SendsOf(k)
  BY <1>1, <1>3, <1>4, EndSends
<1>6. \A k : CountedAt(k)' = CountedAt(k)
  BY <1>3 DEF CountedAt
<1>7. Unlogged(n)' = Unlogged(n) - 1 /\ \A k : k # n => Unlogged(k)' = Unlogged(k)
  <2>1. /\ Cardinality(SendsOf(n)) \in Nat /\ Cardinality(CountedAt(n)) \in Nat
    BY UnloggedType DEF Books, WireKept
  <2> QED
    BY <1>5, <1>6, <2>1, UnloggedIs
<1>8. WireKept'
  BY <1>3 DEF Books, WireKept, Distinct, Same
<1> QED
  BY <1>3, <1>4, <1>7, <1>8, LogEnds DEF Books, WireKept

LEMMA ReceiveBooks ==
  ASSUME IInv, Books, NEW m \in wire, ReceiveCounts(m) \/ ReceiveLogs(m)
  PROVE  Books'
<1>1. m.to \in Nodes /\ m.from \in Nodes /\ TransportTypeOK /\ SendInv
  BY DEF IInv, TypeOK, TransportTypeOK, Request
<1>2. /\ Cardinality(SendsOf(m.to)) \in Nat /\ Cardinality(CountedAt(m.to)) \in Nat
  BY UnloggedType DEF Books, WireKept
<1>3. \A k : SendsOf(k)' = SendsOf(k)
  BY <1>1, SendsKept DEF ReceiveCounts, ReceiveLogs
<1>4. WireKept'
  <2>1. \E f : Becomes(f)
    BY <1>1, HandlingMoves DEF ReceiveCounts, ReceiveLogs
  <2>2. UNCHANGED sends
    BY DEF ReceiveCounts, ReceiveLogs
  <2> QED
    BY <2>1, <2>2, BecomesBooks
<1>5. CASE ReceiveCounts(m)
  <2>1. Arrive(m) /\ Count(m.to, "received") /\ UNCHANGED <<log, recorded>>
    BY <1>5 DEF ReceiveCounts
  <2>2. /\ Cardinality(CountedAt(m.to)') = Cardinality(CountedAt(m.to)) + 1
        /\ \A k : k # m.to => CountedAt(k)' = CountedAt(k)
    BY <1>1, <2>1, ArriveCounts DEF Books, WireKept
  <2>3. Unlogged(m.to)' = Unlogged(m.to) + 1 /\ \A k : k # m.to => Unlogged(k)' = Unlogged(k)
    BY <1>2, <1>3, <2>2, UnloggedIs
  <2> QED
    BY <1>1, <1>4, <2>1, <2>3, CountStarts DEF Books, WireKept
<1>6. CASE ReceiveLogs(m)
  <2> DEFINE entry == [mode |-> "RECEIVED", from |-> m.from]
  <2>1. Answer(m) /\ RecordLog(m.to, entry) /\ UNCHANGED stats
    BY <1>6 DEF ReceiveLogs
  <2>2. entry \in Entry
    BY <1>1 DEF Entry, ReceivedEntry
  <2> HIDE DEF entry
  <2>3. /\ Cardinality(CountedAt(m.to)') = Cardinality(CountedAt(m.to)) - 1
        /\ \A k : k # m.to => CountedAt(k)' = CountedAt(k)
    BY <1>1, <2>1, AnswerCounts DEF Books, WireKept
  <2>4. Unlogged(m.to)' = Unlogged(m.to) - 1 /\ \A k : k # m.to => Unlogged(k)' = Unlogged(k)
    BY <1>2, <1>3, <2>3, UnloggedIs
  <2> QED
    BY <1>1, <1>4, <2>1, <2>2, <2>4, LogEnds DEF Books, WireKept
<1> QED
  BY <1>5, <1>6

(* Nobody's counters or log change, nor does what is under way.              *)
LEMMA ElsewhereBooks ==
  ASSUME Books, UNCHANGED <<stats, log, recorded>>, WireKept',
         \A k : SendsOf(k)' = SendsOf(k),
         \A k : Cardinality(CountedAt(k)') = Cardinality(CountedAt(k))
  PROVE  Books'
<1>1. \A k : Unlogged(k)' = Unlogged(k)
  BY UnloggedIs
<1> QED
  BY <1>1, NothingCounted DEF Books, WireKept

LEMMA ReplyBooks ==
  ASSUME IInv, Books, NEW m, ReplyArrives(m), UNCHANGED commVars
  PROVE  Books'
<1> USE DEF commVars
<1>1. TransportTypeOK /\ SendInv
  BY DEF IInv, TypeOK
<1>2. \A k : SendsOf(k)' = SendsOf(k) /\ CountedAt(k)' = CountedAt(k)
  BY <1>1, SendsKept, ReplyCounts
<1>3. WireKept'
  BY <1>1, HandlingMoves, BecomesBooks
<1> QED
  BY <1>2, <1>3, ElsewhereBooks

LEMMA FailingBooks ==
  ASSUME IInv, Books, NEW s, NEW a, SendFails(s, a), UNCHANGED commVars
  PROVE  Books'
<1> USE DEF commVars
<1>1. TransportTypeOK /\ SendInv
  BY DEF IInv, TypeOK
<1>2. PICK f : Becomes(f) /\ \A k : CountedAt(k)' = {f[x] : x \in CountedAt(k)}
  BY <1>1, FailingMoves
<1>3. \A k : Cardinality(CountedAt(k)') = Cardinality(CountedAt(k))
  BY <1>2, CountedKept DEF Books, WireKept
<1>4. \A k : SendsOf(k)' = SendsOf(k)
  BY <1>1, SendsKept
<1>5. WireKept'
  BY <1>2, BecomesBooks
<1> QED
  BY <1>3, <1>4, <1>5, ElsewhereBooks

LEMMA RefreshBooks ==
  ASSUME Books, NEW n, NEW view, Refresh(n, view), UNCHANGED commVars
  PROVE  Books'
<1> USE DEF commVars
<1>1. UNCHANGED <<send, wire>>
  BY DEF Refresh, sendVars
<1>2. \A k : SendsOf(k)' = SendsOf(k) /\ CountedAt(k)' = CountedAt(k)
  BY <1>1 DEF SendsOf, CountedAt
<1>3. WireKept'
  BY <1>1 DEF Books, WireKept, Distinct, Same
<1> QED
  BY <1>2, <1>3, ElsewhereBooks

(* A restarted daemon starts from nothing, and is not busy with anything.    *)
LEMMA RestartBooks ==
  ASSUME IInv, Books, NEW n \in Nodes, NEW view, RestartComm(n, view)
  PROVE  Books'
<1>1. /\ Restart(n, view) /\ stats' = [stats EXCEPT ![n] = NoStats]
      /\ log' = [log EXCEPT ![n] = <<>>] /\ recorded' = [recorded EXCEPT ![n] = 0]
      /\ UNCHANGED sends
  BY DEF RestartComm
<1>2. PICK f : /\ Becomes(f)
               /\ \A k : k # n => CountedAt(k)' = {f[x] : x \in CountedAt(k)}
               /\ CountedAt(n)' = {}
  BY <1>1, RestartMoves DEF IInv, TypeOK
<1>3. SendsOf(n)' = {} /\ \A k : k # n => SendsOf(k)' = SendsOf(k)
  BY <1>1, RestartSends
<1>4. WireKept'
  BY <1>1, <1>2, BecomesBooks
<1>5. Balanced(n)'
  <2>1. Unlogged(n)' = 0
    BY <1>2, <1>3, UnloggedIs, FS_EmptySet
  <2>2. log'[n] = <<>> /\ recorded'[n] = 0 /\ stats'[n].total = 0
    BY <1>1 DEF IInv, TypeOK, NoStats
  <2> QED
    BY <2>1, <2>2, CommAssumption DEF Balanced, Smaller
<1>6. ASSUME NEW k \in Nodes, k # n PROVE Balanced(k)'
  <2>1. Cardinality(CountedAt(k)') = Cardinality(CountedAt(k))
    BY <1>2, <1>6, CountedKept DEF Books, WireKept
  <2>2. Unlogged(k)' = Unlogged(k)
    BY <1>3, <1>6, <2>1, UnloggedIs
  <2>3. log'[k] = log[k] /\ recorded'[k] = recorded[k] /\ stats'[k] = stats[k]
    BY <1>1, <1>6 DEF IInv, TypeOK
  <2> QED
    BY <2>2, <2>3 DEF Balanced, Books, WireKept
<1> QED
  BY <1>4, <1>5, <1>6 DEF Books, WireKept

LEMMA InitBooks == Init => Books
<1> SUFFICES ASSUME Init PROVE Books
  OBVIOUS
<1>1. /\ send = [s \in Slots |-> NoSend] /\ wire = {} /\ sends = 0
      /\ log = [n \in Nodes |-> <<>>] /\ recorded = [n \in Nodes |-> 0]
      /\ stats = [n \in Nodes |-> NoStats]
  BY DEF Init, TransportInit
<1>2. \A k : SendsOf(k) = {} /\ CountedAt(k) = {}
  BY <1>1 DEF SendsOf, CountedAt
<1>3. \A k : Unlogged(k) = 0
  BY <1>2, UnloggedIs, FS_EmptySet
<1>4. \A k \in Nodes : Balanced(k)
  BY <1>1, <1>3, CommAssumption DEF Balanced, Smaller, NoStats
<1> QED
  BY <1>1, <1>4, FS_EmptySet DEF Books, WireKept, Distinct

LEMMA NextBooks == IInv /\ Books /\ [Next]_vars => Books'
<1> SUFFICES ASSUME IInv, Books, [Next]_vars PROVE Books'
  OBVIOUS
<1>1. ASSUME NEW s \in Slots, NEW n \in Nodes, BroadcastCall(s, n) PROVE Books'
  BY <1>1, CallBooks
<1>2. ASSUME NEW s \in Slots, NEW n \in Nodes, NEW labels \in Requested,
             UnicastCall(s, n, labels) \/ MulticastCall(s, n, labels)
      PROVE  Books'
  BY <1>2, CallBooks
<1>3. ASSUME NEW s \in Slots, Finish(s) PROVE Books'
  BY <1>3, FinishBooks
<1>4. ASSUME NEW m \in wire, ReceiveCounts(m) \/ ReceiveLogs(m) PROVE Books'
  BY <1>4, ReceiveBooks
<1>5. ASSUME NEW m \in wire, ReplyArrives(m), UNCHANGED commVars PROVE Books'
  BY <1>5, ReplyBooks
<1>6. ASSUME NEW s \in Slots, NEW a \in Addresses, SendFails(s, a),
             UNCHANGED commVars
      PROVE  Books'
  BY <1>6, FailingBooks
<1>7. ASSUME NEW n \in Nodes, NEW view \in Views, Refresh(n, view),
             UNCHANGED commVars
      PROVE  Books'
  BY <1>7, RefreshBooks
<1>8. ASSUME NEW n \in Nodes, NEW view \in Views, RestartComm(n, view) PROVE Books'
  BY <1>8, RestartBooks
<1>9. ASSUME UNCHANGED vars PROVE Books'
  <2>1. UNCHANGED <<send, wire, stats, log, recorded, sends>>
    BY <1>9 DEF vars, transportVars, commVars
  <2>2. \A k : SendsOf(k)' = SendsOf(k) /\ CountedAt(k)' = CountedAt(k)
    BY <2>1 DEF SendsOf, CountedAt
  <2>3. WireKept'
    BY <2>1 DEF Books, WireKept, Distinct, Same
  <2> QED
    BY <2>1, <2>2, <2>3, ElsewhereBooks
<1> QED
  BY <1>1, <1>2, <1>3, <1>4, <1>5, <1>6, <1>7, <1>8, <1>9 DEF Next

(* Counters and log tell the same story although each has its own lock: a    *)
(* daemon that counted k messages and is not busy with any has recorded k    *)
(* entries, and its log has the last min(k, 200) of them, oldest first       *)
(* (sendData, receiveHandler, recordLog).                                    *)
THEOREM CountersAndLogAgree == Spec => []LogMatchesStats
<1>1. Books => LogMatchesStats
  BY DEF Books, WireKept, Balanced, LogMatchesStats
<1>2. Init => IInv /\ Books
  BY InitInv, InitBooks
<1>3. IInv /\ Books /\ [Next]_vars => (IInv /\ Books)'
  BY NextInv, NextBooks
<1> QED
  BY <1>1, <1>2, <1>3, PTL DEF Spec

(* As long as a call of sendData runs, what it has found out stands: its     *)
(* targets are fixed, no answer or failure is taken back, and the targets it *)
(* waits for only get fewer.  A send has no retry that could keep it (SendsEnd *)
(* needs no more than that each of its finitely many targets fails or answers). *)
THEOREM OutcomesStand ==
  Spec => [][\A s \in Slots :
               send[s] # NoSend /\ send'[s] # NoSend => GoesOn(send[s], send'[s])]_vars
<1> DEFINE Stand == \A s \in Slots :
             send[s] # NoSend /\ send'[s] # NoSend => GoesOn(send[s], send'[s])
<1>1. IInv /\ [Next]_vars => [Stand]_vars
  <2> SUFFICES ASSUME IInv, Next, NEW s \in Slots, send[s] # NoSend, send'[s] # NoSend
               PROVE  GoesOn(send[s], send'[s])
    OBVIOUS
  <2>1. ASSUME send'[s] = send[s] PROVE GoesOn(send[s], send'[s])
    BY <2>1 DEF GoesOn
  <2>2. ASSUME NEW t \in Slots, NEW n, NEW mode, NEW targets, Start(t, n, mode, targets)
        PROVE  send'[s] = send[s]
    BY <2>2 DEF Start, Begin, IInv, TypeOK, TransportTypeOK
  <2>3. ASSUME NEW t \in Slots, NEW n \in Nodes, BroadcastCall(t, n) PROVE send'[s] = send[s]
    BY <2>2, <2>3 DEF BroadcastCall
  <2>4. ASSUME NEW t \in Slots, NEW n \in Nodes, NEW labels \in Requested,
               UnicastCall(t, n, labels) \/ MulticastCall(t, n, labels)
        PROVE  send'[s] = send[s]
    BY <2>2, <2>4 DEF UnicastCall, MulticastCall
  <2>5. ASSUME NEW t \in Slots, Finish(t) PROVE send'[s] = send[s]
    BY <2>5 DEF Finish, End, IInv, TypeOK, TransportTypeOK
  <2>6. CASE \/ \E m \in wire : ReceiveCounts(m) \/ ReceiveLogs(m)
             \/ \E m \in wire : ReplyArrives(m) /\ UNCHANGED commVars
             \/ \E t \in Slots, a \in Addresses :
                  SendFails(t, a) /\ UNCHANGED commVars
    BY <2>6, CallsGoOn DEF ReceiveCounts, ReceiveLogs, IInv, TypeOK
  <2>7. ASSUME NEW n \in Nodes, NEW view \in Views, Refresh(n, view) PROVE send'[s] = send[s]
    BY <2>7 DEF Refresh, sendVars
  <2>8. ASSUME NEW n \in Nodes, NEW view \in Views, RestartComm(n, view)
        PROVE  send'[s] = send[s]
    BY <2>8 DEF RestartComm, Restart
  <2> QED
    BY <2>1, <2>3, <2>4, <2>5, <2>6, <2>7, <2>8 DEF Next
<1> QED
  BY <1>1, InitInv, NextInv, PTL DEF Spec
=============================================================================

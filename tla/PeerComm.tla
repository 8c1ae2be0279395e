------------------------------- MODULE PeerComm -------------------------------
(***************************************************************************)
(* Messages between the daemons (pkg/comm/comm.go): the REST calls that      *)
(* broadcast, unicast and multicast, the /receive handler, and what both     *)
(* leave behind: the counters (commStats) and the bounded log (commLogs).    *)
(* Counters and log have a lock each, so a handler updates them in two steps. *)
(***************************************************************************)
EXTENDS PeerTransport, Sequences

CONSTANTS
  MaxLog,       \* maxCommLogs
  MaxSends,     \* bound on the sends of a behaviour
  Requested     \* the target lists of REST calls, sequences of labels

(* A target of a REST call: a node's name or an address. *)
Labels == [kind : {"name"}, of : Nodes] \cup [kind : {"ip"}, of : Addresses]

ASSUME CommAssumption ==
  /\ MaxLog \in Nat \ {0}
  /\ MaxSends \in Nat
  /\ 1 .. MaxSends \subseteq Payloads    \* no two messages are the same
  /\ Requested \subseteq Seq(Labels)

VARIABLES
  stats,        \* per daemon: commStats
  log,          \* per daemon: commLogs, each entry with its number
  recorded,     \* per daemon: entries it has recorded since it started (history)
  sends         \* sends so far, to bound the model

commVars == <<stats, log, recorded, sends>>
vars == <<transportVars, commVars>>

NoStats == [broadcast |-> 0, unicast |-> 0, multicast |-> 0, received |-> 0, total |-> 0]

Init ==
  /\ TransportInit
  /\ stats = [n \in Nodes |-> NoStats]
  /\ log = [n \in Nodes |-> <<>>]
  /\ recorded = [n \in Nodes |-> 0]
  /\ sends = 0

Counter(mode) ==
  CASE mode = "BROADCAST" -> "broadcast"
    [] mode = "UNICAST" -> "unicast"
    [] mode = "MULTICAST" -> "multicast"

Count(n, field) == stats' = [stats EXCEPT ![n].total = @ + 1, ![n][field] = @ + 1]

(* Faulty variant of Trim: a full log takes no more entries. *)
TrimNewest(entries) ==
  IF Len(entries) > MaxLog THEN SubSeq(entries, 1, MaxLog) ELSE entries

(* The last MaxLog entries. *)
Trim(entries) ==
  IF Len(entries) > MaxLog THEN SubSeq(entries, Len(entries) - MaxLog + 1, Len(entries)) ELSE entries

(* recordLog; the number of the entry is part of the history. *)
RecordLog(n, entry) ==
  /\ recorded' = [recorded EXCEPT ![n] = @ + 1]
  /\ log' = [log EXCEPT ![n] = Trim(Append(@, [nth |-> recorded[n] + 1, entry |-> entry]))]

-----------------------------------------------------------------------------
(* resolveTargets: addresses as they are, names as far as they are known.    *)
(* What is left are positions in the list, as it may have a target twice.    *)
Resolve(n, labels) ==
  {i \in DOMAIN labels : labels[i].kind = "ip" \/ labels[i].of \in named[n]}
TargetsOf(n, labels) == {labels[i].of : i \in Resolve(n, labels)}

Start(s, n, mode, targets) ==
  /\ sends < MaxSends
  /\ sends' = sends + 1
  /\ Begin(s, n, mode, sends + 1, targets)
  /\ Count(n, Counter(mode))
  /\ UNCHANGED <<log, recorded>>

BroadcastCall(s, n) == Start(s, n, "BROADCAST", BroadcastTargets(n))

(* A list that does not resolve to exactly one target is refused. *)
UnicastCall(s, n, labels) ==
  /\ Cardinality(Resolve(n, labels)) = 1
  /\ Start(s, n, "UNICAST", TargetsOf(n, labels))

MulticastCall(s, n, labels) ==
  /\ Resolve(n, labels) # {}
  /\ Start(s, n, "MULTICAST", TargetsOf(n, labels))

EntryOf(call) ==
  [mode |-> call.mode, attempted |-> call.attempted, delivered |-> call.delivered,
   failed |-> call.failed, reached |-> call.reached, result |-> Result(call)]

(* The end of sendData: the outcome goes to the log. *)
Finish(s) ==
  /\ End(s)
  /\ RecordLog(send[s].from, EntryOf(send[s]))
  /\ UNCHANGED <<stats, sends>>

(* receiveHandler: count the message, then log it, hand it to the handlers   *)
(* and answer.                                                              *)
ReceiveCounts(m) ==
  /\ Arrive(m)
  /\ Count(m.to, "received")
  /\ UNCHANGED <<log, recorded, sends>>

ReceiveLogs(m) ==
  /\ Answer(m)
  /\ RecordLog(m.to, [mode |-> "RECEIVED", from |-> m.from])
  /\ UNCHANGED <<stats, sends>>

(* A restarted daemon has new counters and an empty log. *)
RestartComm(n, view) ==
  /\ Restart(n, view)
  /\ stats' = [stats EXCEPT ![n] = NoStats]
  /\ log' = [log EXCEPT ![n] = <<>>]
  /\ recorded' = [recorded EXCEPT ![n] = 0]
  /\ UNCHANGED sends

Next ==
  \/ \E s \in Slots, n \in Nodes : BroadcastCall(s, n)
  \/ \E s \in Slots, n \in Nodes, labels \in Requested :
       UnicastCall(s, n, labels) \/ MulticastCall(s, n, labels)
  \/ \E s \in Slots : Finish(s)
  \/ \E m \in wire : ReceiveCounts(m) \/ ReceiveLogs(m)
  \/ \E m \in wire : ReplyArrives(m) /\ UNCHANGED commVars
  \/ \E s \in Slots, a \in Addresses : SendFails(s, a) /\ UNCHANGED commVars
  \/ \E n \in Nodes, view \in Views :
       \/ Refresh(n, view) /\ UNCHANGED commVars
       \/ RestartComm(n, view)

(* A request is given up after three seconds; wg.Wait returns.              *)
Fairness ==
  \A s \in Slots :
    /\ WF_vars(Finish(s))
    /\ \A a \in Addresses : WF_vars(SendFails(s, a) /\ UNCHANGED commVars)

Spec == Init /\ [][Next]_vars
FairSpec == Spec /\ Fairness

-----------------------------------------------------------------------------
SentEntry == [mode : Modes, attempted : SUBSET Addresses, delivered : SUBSET Addresses,
              failed : SUBSET Addresses, reached : SUBSET Addresses,
              result : {"delivered", "partial", "failed", "no_peers", "no_targets"}]
ReceivedEntry == [mode : {"RECEIVED"}, from : Nodes]
Entry == SentEntry \cup ReceivedEntry
Recorded == [nth : Nat, entry : Entry]

TypeOK ==
  /\ TransportTypeOK
  /\ stats \in [Nodes -> [broadcast : Nat, unicast : Nat, multicast : Nat,
                          received : Nat, total : Nat]]
  /\ log \in [Nodes -> Seq(Recorded)]
  /\ recorded \in [Nodes -> Nat]
  /\ sends \in Nat

SentBy(n) ==
  {log[n][i].entry : i \in {j \in DOMAIN log[n] : log[n][j].entry.mode # "RECEIVED"}}

(* What the log says of a send is true although requests time out, arrive    *)
(* late and get no reply: a target listed as delivered has received the      *)
(* message, "delivered" means that every target but the sender itself has,   *)
(* and no target is forgotten or listed twice (sendData).                    *)
ReportsAreTrue ==
  \A n \in Nodes : \A entry \in SentBy(n) :
    /\ entry.delivered \subseteq entry.reached
    /\ entry.delivered \cup entry.failed = entry.attempted \ {n}
    /\ entry.delivered \cap entry.failed = {}
    /\ entry.result = "delivered" => entry.attempted \ {n} \subseteq entry.reached

(* The sends and the receptions a daemon has counted and not logged yet. *)
Unlogged(n) ==
  Cardinality({s \in Slots : send[s] # NoSend /\ send[s].from = n})
    + Cardinality({m \in wire : m.to = n /\ m.phase = "counted"})

Smaller(a, b) == IF a < b THEN a ELSE b

(* Counters and log, kept under two locks, tell the same story: a daemon     *)
(* that counted k messages and is not busy with any has recorded k entries,  *)
(* sends that found no target and late receptions included, and its log has  *)
(* the last min(k, 200) of them, oldest first (sendData, receiveHandler,     *)
(* recordLog).                                                              *)
LogMatchesStats ==
  \A n \in Nodes :
    /\ recorded[n] = stats[n].total - Unlogged(n)
    /\ Len(log[n]) = Smaller(MaxLog, recorded[n])
    /\ \A i \in DOMAIN log[n] : log[n][i].nth = recorded[n] - Len(log[n]) + i

(* Every send ends, whether or not its targets exist, answer or restart:     *)
(* the REST call returns and the publisher gets to its next tick.            *)
SendsEnd == \A s \in Slots : (send[s] # NoSend) ~> (send[s] = NoSend)
=============================================================================

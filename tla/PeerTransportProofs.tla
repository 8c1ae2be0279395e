-------------------------- MODULE PeerTransportProofs --------------------------
(* What every step of the transport keeps, for any daemons, peers and sends  *)
(* under way: who is waited for, who answered and whose requests are left.   *)
EXTENDS PeerTransport, FiniteSetTheorems, TLAPS

(* Of every target but the sender itself, one thing is known: it answered, it *)
(* failed or it is waited for.  Who answered has received the message.       *)
CallSound(call) ==
  /\ call.delivered \cup call.failed \cup call.waiting = call.attempted \ {call.from}
  /\ call.delivered \cap call.failed = {}
  /\ call.waiting \cap (call.delivered \cup call.failed) = {}
  /\ call.delivered \subseteq call.reached

CallsSound == \A s \in Slots : send[s] # NoSend => CallSound(send[s])

(* Somebody waits for the reply of an awaited request, and if there is one   *)
(* already its target has received the message.                              *)
RequestSound(m) ==
  /\ m.phase = "answered" => m.awaited
  /\ m.awaited =>
       /\ send[m.slot] # NoSend /\ send[m.slot].from = m.from
       /\ m.to \in send[m.slot].waiting
       /\ m.phase = "answered" => m.to \in send[m.slot].reached

RequestsSound == \A m \in wire : RequestSound(m)

(* No more than one request of a call is awaited from a target.              *)
OneRequest ==
  \A m1, m2 \in wire :
    m1.awaited /\ m2.awaited /\ m1.slot = m2.slot /\ m1.to = m2.to => m1 = m2

SendInv == CallsSound /\ RequestsSound /\ OneRequest

-----------------------------------------------------------------------------
(* The steps of the transport.                                               *)

(* A new call has requests of its own.                                       *)
LEMMA BeginInv ==
  ASSUME TransportTypeOK, SendInv, NEW s \in Slots, NEW n \in Nodes, NEW mode \in Modes,
         NEW payload \in Payloads, NEW targets \in SUBSET Addresses,
         Begin(s, n, mode, payload, targets)
  PROVE  TransportTypeOK' /\ SendInv'
<1> DEFINE others == targets \ {n}
           call == [from |-> n, mode |-> mode, payload |-> payload, attempted |-> targets,
                    waiting |-> others, delivered |-> {}, failed |-> {}, reached |-> {}]
           new == [slot : {s}, from : {n}, to : others \cap Nodes, mode : {mode},
                   payload : {payload}, phase : {"sent"}, awaited : {TRUE}]
<1>1. /\ send[s] = NoSend /\ send' = [send EXCEPT ![s] = call] /\ wire' = wire \cup new
      /\ UNCHANGED <<peers, named, restarts>>
  BY DEF Begin, peerVars
<1>2. /\ call \in Sending /\ call # NoSend /\ CallSound(call)
      /\ call.from = n /\ call.waiting = others
  BY TransportAssumption DEF Sending, CallSound
<1>3. new \subseteq Request
  BY DEF Request
<1>4. /\ \A m \in new : m.slot = s /\ m.from = n /\ m.to \in others /\ m.phase = "sent"
      /\ \A m1, m2 \in new : m1.to = m2.to => m1 = m2
  <2>1. ASSUME NEW m \in new
        PROVE  \E a \in others :
                 m = [slot |-> s, from |-> n, to |-> a, mode |-> mode,
                      payload |-> payload, phase |-> "sent", awaited |-> TRUE]
    OBVIOUS
  <2> HIDE DEF new, others
  <2>2. \A m \in new : m.slot = s /\ m.from = n /\ m.to \in others /\ m.phase = "sent"
    BY <2>1
  <2>3. ASSUME NEW m1 \in new, NEW m2 \in new, m1.to = m2.to PROVE m1 = m2
    <3>1. PICK a1 \in others :
            m1 = [slot |-> s, from |-> n, to |-> a1, mode |-> mode,
                  payload |-> payload, phase |-> "sent", awaited |-> TRUE]
      BY <2>1
    <3>2. PICK a2 \in others :
            m2 = [slot |-> s, from |-> n, to |-> a2, mode |-> mode,
                  payload |-> payload, phase |-> "sent", awaited |-> TRUE]
      BY <2>1
    <3>3. m1.to = a1 /\ m2.to = a2
      BY <3>1, <3>2
    <3> QED
      BY <2>3, <3>1, <3>2, <3>3
  <2> QED
    BY <2>2, <2>3
<1>5. \A m \in wire : m.awaited => m.slot # s
  BY <1>1 DEF SendInv, RequestsSound, RequestSound
<1> HIDE DEF call, new, others
<1>6. send'[s] = call /\ \A t \in Slots \ {s} : send'[t] = send[t]
  BY <1>1 DEF TransportTypeOK
<1>7. TransportTypeOK'
  BY <1>1, <1>2, <1>3 DEF TransportTypeOK
<1>8. CallsSound'
  BY <1>2, <1>6 DEF SendInv, CallsSound
<1>9. RequestsSound'
  <2>1. ASSUME NEW m \in wire PROVE RequestSound(m)'
    <3>1. RequestSound(m) /\ m.slot \in Slots
      BY DEF SendInv, RequestsSound, TransportTypeOK, Request
    <3> QED
      BY <1>5, <1>6, <3>1 DEF RequestSound
  <2>2. ASSUME NEW m \in new PROVE RequestSound(m)'
    BY <1>2, <1>4, <1>6, <2>2 DEF RequestSound
  <2> QED
    BY <1>1, <2>1, <2>2 DEF RequestsSound
<1>10. OneRequest'
  <2>1. ASSUME NEW m1 \in wire', NEW m2 \in wire', m1.awaited, m2.awaited,
               m1.slot = m2.slot, m1.to = m2.to
        PROVE  m1 = m2
    <3>1. CASE m1.slot = s
      BY <1>1, <1>4, <1>5, <2>1, <3>1
    <3>2. CASE m1.slot # s
      BY <1>1, <1>4, <2>1, <3>2 DEF SendInv, OneRequest
    <3> QED
      BY <3>1, <3>2
  <2> QED
    BY <2>1 DEF OneRequest
<1> QED
  BY <1>7, <1>8, <1>9, <1>10 DEF SendInv

LEMMA ArriveInv ==
  ASSUME TransportTypeOK, SendInv, NEW m, Arrive(m)
  PROVE  TransportTypeOK' /\ SendInv'
<1> DEFINE new == [m EXCEPT !.phase = "counted"]
<1>1. /\ m \in wire /\ wire' = (wire \ {m}) \cup {new}
      /\ UNCHANGED <<peers, named, send, restarts>>
  BY DEF Arrive, peerVars
<1>2. /\ m \in Request /\ new \in Request /\ new.phase = "counted"
      /\ new.slot = m.slot /\ new.from = m.from /\ new.to = m.to /\ new.awaited = m.awaited
  BY <1>1 DEF TransportTypeOK, Request
<1> HIDE DEF new
<1>3. TransportTypeOK'
  BY <1>1, <1>2 DEF TransportTypeOK
<1>4. CallsSound'
  BY <1>1 DEF SendInv, CallsSound
<1>5. RequestsSound'
  BY <1>1, <1>2 DEF SendInv, RequestsSound, RequestSound
<1>6. OneRequest'
  BY <1>1, <1>2 DEF SendInv, OneRequest
<1> QED
  BY <1>3, <1>4, <1>5, <1>6 DEF SendInv

(* Who answers has received the message.                                     *)
LEMMA AnswerInv ==
  ASSUME TransportTypeOK, SendInv, NEW m, Answer(m)
  PROVE  TransportTypeOK' /\ SendInv'
<1> DEFINE s == m.slot
           new == [m EXCEPT !.phase = "answered"]
           call == [send[s] EXCEPT !.reached = @ \cup {m.to}]
<1>1. /\ m \in wire /\ m \in Request /\ UNCHANGED <<peers, named, restarts>>
  BY DEF Answer, peerVars, TransportTypeOK
<1>2. CASE ~m.awaited
  <2>1. wire' = wire \ {m} /\ send' = send
    BY <1>2 DEF Answer
  <2>2. TransportTypeOK'
    BY <1>1, <2>1 DEF TransportTypeOK
  <2> QED
    BY <2>1, <2>2 DEF SendInv, CallsSound, RequestsSound, RequestSound, OneRequest
<1>3. CASE m.awaited
  <2>1. wire' = (wire \ {m}) \cup {new} /\ send' = [send EXCEPT ![s] = call]
    BY <1>3 DEF Answer
  <2>2. send[s] # NoSend /\ send[s] \in Sending /\ CallSound(send[s]) /\ s \in Slots
    BY <1>1, <1>3 DEF SendInv, CallsSound, RequestsSound, RequestSound, TransportTypeOK, Request
  <2>3. /\ call \in Sending /\ call # NoSend /\ CallSound(call)
        /\ call.from = send[s].from /\ call.waiting = send[s].waiting
        /\ call.reached = send[s].reached \cup {m.to}
    BY <1>1, <2>2, TransportAssumption DEF Sending, CallSound, Request, Addresses
  <2>4. /\ new \in Request /\ new.phase = "answered" /\ new.slot = s
        /\ new.from = m.from /\ new.to = m.to /\ new.awaited
    BY <1>1, <1>3 DEF Request
  <2> HIDE DEF call, new
  <2>5. send'[s] = call /\ \A t \in Slots \ {s} : send'[t] = send[t]
    BY <2>1, <2>2 DEF TransportTypeOK
  <2>6. TransportTypeOK'
    BY <1>1, <2>1, <2>3, <2>4 DEF TransportTypeOK
  <2>7. CallsSound'
    BY <2>3, <2>5 DEF SendInv, CallsSound
  <2>8. RequestsSound'
    <3>1. ASSUME NEW x \in wire PROVE RequestSound(x)'
      <4>1. RequestSound(x) /\ x.slot \in Slots
        BY DEF SendInv, RequestsSound, TransportTypeOK, Request
      <4> QED
        BY <2>2, <2>3, <2>5, <4>1 DEF RequestSound
    <3>2. RequestSound(new)'
      <4>1. m.from = send[s].from /\ m.to \in send[s].waiting
        BY <1>1, <1>3 DEF SendInv, RequestsSound, RequestSound
      <4> QED
        BY <2>3, <2>4, <2>5, <4>1 DEF RequestSound
    <3> QED
      BY <2>1, <3>1, <3>2 DEF RequestsSound
  <2>9. OneRequest'
    BY <1>1, <1>3, <2>1, <2>4 DEF SendInv, OneRequest
  <2> QED
    BY <2>6, <2>7, <2>8, <2>9 DEF SendInv
<1> QED
  BY <1>2, <1>3

(* A target is no longer waited for: if none of its requests is awaited any  *)
(* more, the others can be.                                                  *)
LEMMA TargetDoneInv ==
  ASSUME TransportTypeOK, SendInv, NEW s \in Slots, NEW a, send[s] # NoSend,
         NEW call \in Sending, CallSound(call), call.from = send[s].from,
         call.waiting = send[s].waiting \ {a}, call.reached = send[s].reached,
         send' = [send EXCEPT ![s] = call],
         wire' \subseteq Request, UNCHANGED <<peers, named, restarts>>,
         \A m \in wire' : m.phase = "answered" => m.awaited,
         \A m \in wire' : m.awaited => m \in wire /\ (m.slot # s \/ m.to # a)
  PROVE  TransportTypeOK' /\ SendInv'
<1>1. call # NoSend /\ send'[s] = call /\ \A t \in Slots \ {s} : send'[t] = send[t]
  BY TransportAssumption DEF TransportTypeOK
<1>2. TransportTypeOK'
  BY DEF TransportTypeOK
<1>3. CallsSound'
  BY <1>1 DEF SendInv, CallsSound
<1>4. RequestsSound'
  <2>1. ASSUME NEW m \in wire', m.awaited PROVE RequestSound(m)'
    <3>1. RequestSound(m) /\ m.slot \in Slots /\ (m.slot # s \/ m.to # a)
      BY <2>1 DEF SendInv, RequestsSound, TransportTypeOK, Request
    <3> QED
      BY <1>1, <3>1 DEF RequestSound
  <2>2. ASSUME NEW m \in wire', ~m.awaited PROVE RequestSound(m)'
    BY <2>2 DEF RequestSound
  <2> QED
    BY <2>1, <2>2 DEF RequestsSound
<1>5. OneRequest'
  BY DEF SendInv, OneRequest
<1> QED
  BY <1>2, <1>3, <1>4, <1>5 DEF SendInv

LEMMA ReplyArrivesInv ==
  ASSUME TransportTypeOK, SendInv, NEW m, ReplyArrives(m)
  PROVE  TransportTypeOK' /\ SendInv'
<1> DEFINE s == m.slot
           a == m.to
           call == [send[s] EXCEPT !.delivered = @ \cup {a}, !.waiting = @ \ {a}]
<1>1. /\ m \in wire /\ m \in Request /\ m.phase = "answered" /\ wire' = wire \ {m}
      /\ send' = [send EXCEPT ![s] = call] /\ UNCHANGED <<peers, named, restarts>>
  BY DEF ReplyArrives, peerVars, TransportTypeOK
<1>2. /\ m.awaited /\ s \in Slots /\ send[s] # NoSend /\ send[s] \in Sending
      /\ CallSound(send[s]) /\ a \in send[s].waiting /\ a \in send[s].reached
  BY <1>1 DEF SendInv, CallsSound, RequestsSound, RequestSound, TransportTypeOK, Request
<1>3. /\ call \in Sending /\ call.from = send[s].from /\ call.attempted = send[s].attempted
      /\ call.waiting = send[s].waiting \ {a} /\ call.failed = send[s].failed
      /\ call.delivered = send[s].delivered \cup {a} /\ call.reached = send[s].reached
  BY <1>1, <1>2 DEF Sending, Request, Addresses
<1> HIDE DEF call
<1>4. \A x \in wire' : x.awaited => x \in wire /\ (x.slot # s \/ x.to # a)
  BY <1>1, <1>2 DEF SendInv, OneRequest
<1>5. wire' \subseteq Request /\ \A x \in wire' : x.phase = "answered" => x.awaited
  BY <1>1 DEF SendInv, RequestsSound, RequestSound, TransportTypeOK
<1> HIDE DEF s, a
<1>6. CallSound(call)
  BY <1>2, <1>3 DEF CallSound
<1> QED
  BY <1>1, <1>2, <1>3, <1>4, <1>5, <1>6, TargetDoneInv

(* What nobody waits for is still a request, and no reply comes of it.       *)
LEMMA OrphansType ==
  ASSUME TransportTypeOK, NEW s, NEW a, NEW phases \in {{"counted"}, {"sent", "counted"}},
         NEW m \in Orphans(s, a, phases)
  PROVE  m \in Request /\ ~m.awaited /\ m.phase # "answered"
<1>1. PICK x \in wire : x.phase \in phases /\ m = Orphan(x)
  BY DEF Orphans, Awaited
<1>2. x \in Request
  BY DEF TransportTypeOK
<1> QED
  BY <1>1, <1>2 DEF Orphan, Request

LEMMA SendFailsInv ==
  ASSUME TransportTypeOK, SendInv, NEW s \in Slots, NEW a \in Addresses, SendFails(s, a)
  PROVE  TransportTypeOK' /\ SendInv'
<1> DEFINE call == [send[s] EXCEPT !.failed = @ \cup {a}, !.waiting = @ \ {a}]
<1>1. /\ send[s] # NoSend /\ a \in send[s].waiting
      /\ send' = [send EXCEPT ![s] = call] /\ UNCHANGED <<peers, named, restarts>>
  BY DEF SendFails, peerVars
<1>2. PICK phases \in {{"counted"}, {"sent", "counted"}} :
        wire' = (wire \ Awaited(s, a)) \cup Orphans(s, a, phases)
  BY DEF SendFails, Abandoned
<1>3. send[s] \in Sending /\ CallSound(send[s])
  BY <1>1 DEF SendInv, CallsSound, TransportTypeOK
<1>4. /\ call \in Sending /\ call.from = send[s].from /\ call.attempted = send[s].attempted
      /\ call.waiting = send[s].waiting \ {a} /\ call.failed = send[s].failed \cup {a}
      /\ call.delivered = send[s].delivered /\ call.reached = send[s].reached
  BY <1>1, <1>3 DEF Sending
<1> HIDE DEF call
<1>5. wire' \subseteq Request
  BY <1>2, OrphansType DEF TransportTypeOK
<1>6. \A m \in wire' : m.phase = "answered" => m.awaited
  BY <1>2, OrphansType DEF SendInv, RequestsSound, RequestSound
<1>7. \A m \in wire' : m.awaited => m \in wire /\ (m.slot # s \/ m.to # a)
  BY <1>2, OrphansType DEF Awaited
<1>8. CallSound(call)
  BY <1>1, <1>3, <1>4 DEF CallSound
<1> QED
  BY <1>1, <1>4, <1>5, <1>6, <1>7, <1>8, TargetDoneInv

LEMMA EndInv ==
  ASSUME TransportTypeOK, SendInv, NEW s \in Slots, End(s)
  PROVE  TransportTypeOK' /\ SendInv'
<1>1. /\ send[s].waiting = {} /\ send' = [send EXCEPT ![s] = NoSend]
      /\ UNCHANGED <<peers, named, wire, restarts>>
  BY DEF End, peerVars
<1>2. send'[s] = NoSend /\ \A t \in Slots \ {s} : send'[t] = send[t]
  BY <1>1 DEF TransportTypeOK
<1>3. TransportTypeOK'
  BY <1>1 DEF TransportTypeOK
<1>4. CallsSound'
  BY <1>2 DEF SendInv, CallsSound
<1>5. RequestsSound'
  <2>1. ASSUME NEW m \in wire PROVE RequestSound(m)'
    <3>1. RequestSound(m) /\ m.slot \in Slots
      BY DEF SendInv, RequestsSound, TransportTypeOK, Request
    <3> QED
      BY <1>1, <1>2, <3>1 DEF RequestSound
  <2> QED
    BY <1>1, <2>1 DEF RequestsSound
<1> QED
  BY <1>1, <1>3, <1>4, <1>5 DEF SendInv, OneRequest

(* A restart ends the daemon's sends, and nobody waits for their requests.   *)
LEMMA RestartInv ==
  ASSUME TransportTypeOK, SendInv, NEW n \in Nodes, NEW view \in Views, Restart(n, view)
  PROVE  TransportTypeOK' /\ SendInv'
<1> DEFINE left == {x \in wire : (x.to = n => x.phase # "counted")
                                  /\ (x.from = n => x.phase # "answered")}
<1>1. /\ restarts' = restarts + 1 /\ SetPeers(n, view)
      /\ send' = [s \in Slots |-> IF send[s] # NoSend /\ send[s].from = n THEN NoSend ELSE send[s]]
      /\ wire' = {IF m.from = n THEN Orphan(m) ELSE m : m \in left}
  BY DEF Restart
<1>2. \A m \in wire' :
        /\ m \in Request
        /\ m.awaited => m \in wire /\ m.from # n
        /\ m.phase = "answered" => m \in wire
  <2>1. ASSUME NEW m \in wire'
        PROVE  /\ m \in Request
               /\ m.awaited => m \in wire /\ m.from # n
               /\ m.phase = "answered" => m \in wire
    <3>1. PICK x \in left : m = IF x.from = n THEN Orphan(x) ELSE x
      BY <1>1
    <3>2. x \in wire /\ x \in Request /\ (x.from = n => x.phase # "answered")
      BY DEF TransportTypeOK
    <3>3. CASE x.from = n
      BY <3>1, <3>2, <3>3 DEF Orphan, Request
    <3>4. CASE x.from # n
      BY <3>1, <3>2, <3>4
    <3> QED
      BY <3>3, <3>4
  <2> QED
    BY <2>1
<1>3. /\ peers' \in [Nodes -> SUBSET Addresses] /\ named' \in [Nodes -> SUBSET Nodes]
  BY <1>1, TransportAssumption DEF SetPeers, Views, View, Addresses, TransportTypeOK
<1>4. TransportTypeOK'
  BY <1>1, <1>2, <1>3 DEF TransportTypeOK
<1>5. CallsSound'
  BY <1>1 DEF SendInv, CallsSound
<1>6. RequestsSound'
  <2>1. ASSUME NEW m \in wire' PROVE RequestSound(m)'
    <3>1. m \in wire => RequestSound(m)
      BY DEF SendInv, RequestsSound
    <3>2. m.slot \in Slots
      BY <1>2 DEF Request
    <3>3. m.awaited => send'[m.slot] = send[m.slot]
      BY <1>1, <1>2, <3>1, <3>2 DEF RequestSound
    <3> QED
      BY <1>2, <3>1, <3>3 DEF RequestSound
  <2> QED
    BY <2>1 DEF RequestsSound
<1>7. OneRequest'
  BY <1>2 DEF SendInv, OneRequest
<1> QED
  BY <1>4, <1>5, <1>6, <1>7 DEF SendInv

(* What a daemon may know of the others.                                     *)
LEMMA ViewsType == \A view \in Views : view.peers \subseteq Addresses /\ view.named \subseteq Nodes
BY TransportAssumption DEF Views, View, Addresses

LEMMA RefreshInv ==
  ASSUME TransportTypeOK, SendInv, NEW n \in Nodes, NEW view \in Views, Refresh(n, view)
  PROVE  TransportTypeOK' /\ SendInv'
<1>1. SetPeers(n, view) /\ UNCHANGED <<send, wire, restarts>>
  BY DEF Refresh, sendVars
<1>2. /\ peers' \in [Nodes -> SUBSET Addresses] /\ named' \in [Nodes -> SUBSET Nodes]
  BY <1>1, TransportAssumption DEF SetPeers, Views, View, Addresses, TransportTypeOK
<1>3. TransportTypeOK'
  BY <1>1, <1>2 DEF TransportTypeOK
<1> QED
  BY <1>1, <1>3 DEF SendInv, CallsSound, RequestsSound, RequestSound, OneRequest


-----------------------------------------------------------------------------
(* What becomes of the requests.                                             *)

(* Whatever becomes of a request, it keeps its ends and what it carries.     *)
Same(m1, m2) == m1.from = m2.from /\ m1.to = m2.to /\ m1.payload = m2.payload

(* f says what becomes of each request, for those that are left.             *)
Becomes(f) ==
  /\ f \in [wire -> Request]
  /\ \A x \in wire : Same(f[x], x)
  /\ wire' \subseteq {f[x] : x \in wire}

(* No two requests carry the same between the same ends.                     *)
Distinct == \A m1, m2 \in wire : Same(m1, m2) => m1 = m2

(* The requests k is handling.                                               *)
CountedAt(k) == {m \in wire : m.to = k /\ m.phase = "counted"}

(* The sends of k.                                                           *)
SendsOf(k) == {s \in Slots : send[s] # NoSend /\ send[s].from = k}

LEMMA BecomesKeeps ==
  ASSUME NEW f, Becomes(f)
  PROVE  /\ Distinct => Distinct'
         /\ IsFiniteSet(wire) => IsFiniteSet(wire')
<1>1. ASSUME Distinct PROVE Distinct'
  BY <1>1 DEF Distinct, Becomes, Same
<1>2. ASSUME IsFiniteSet(wire) PROVE IsFiniteSet(wire')
  <2> DEFINE image == {f[x] : x \in wire}
  <2>1. f \in Surjection(wire, image)
    BY DEF Becomes, Surjection
  <2>2. IsFiniteSet(image)
    BY <1>2, <2>1, FS_Surjection
  <2> QED
    BY <2>2, FS_Subset DEF Becomes
<1> QED
  BY <1>1, <1>2

(* If all that k is handling goes on, it is as much as before.               *)
LEMMA CountedKept ==
  ASSUME NEW f, Becomes(f), Distinct, IsFiniteSet(wire), NEW k,
         CountedAt(k)' = {f[x] : x \in CountedAt(k)}
  PROVE  Cardinality(CountedAt(k)') = Cardinality(CountedAt(k))
<1> DEFINE S == CountedAt(k)
           T == CountedAt(k)'
           g == [x \in S |-> f[x]]
<1>1. S \in SUBSET wire /\ IsFiniteSet(S)
  BY FS_Subset DEF CountedAt
<1>2. g \in Bijection(S, T)
  <2>1. \A x, y \in S : g[x] = g[y] => x = y
    BY <1>1 DEF Becomes, Distinct, Same
  <2>2. \A t \in T : \E x \in S : g[x] = t
    OBVIOUS
  <2>3. g \in [S -> T]
    OBVIOUS
  <2> HIDE DEF S, T, g
  <2> QED
    BY <2>1, <2>2, <2>3 DEF Bijection, Injection, IsInjective, Surjection
<1>3. ExistsBijection(S, T)
  BY <1>2 DEF ExistsBijection
<1> QED
  BY <1>1, <1>3, FS_Bijection

(* A request that is started on, answered or whose reply is read becomes one *)
(* request or none.                                                          *)
LEMMA HandlingMoves ==
  ASSUME TransportTypeOK, NEW m, Arrive(m) \/ Answer(m) \/ ReplyArrives(m)
  PROVE  \E f : Becomes(f)
<1> DEFINE next(x) == IF x # m THEN x
                      ELSE IF Arrive(m) THEN [m EXCEPT !.phase = "counted"]
                      ELSE [m EXCEPT !.phase = "answered"]
           f == [x \in wire |-> next(x)]
<1>1. m \in wire /\ wire \subseteq Request
  BY DEF Arrive, Answer, ReplyArrives, TransportTypeOK
<1>2. \A x \in wire : next(x) \in Request /\ Same(next(x), x)
  BY <1>1 DEF Request, Same
<1>3. wire' \subseteq (wire \ {m}) \cup {next(m)}
  BY DEF Arrive, Answer, ReplyArrives
<1> HIDE DEF next
<1>4. wire' \subseteq {f[x] : x \in wire}
  <2>1. ASSUME NEW y \in wire' PROVE \E x \in wire : y = f[x]
    <3>1. CASE y = next(m)
      BY <1>1, <3>1
    <3>2. CASE y # next(m)
      <4>1. y \in wire /\ next(y) = y
        BY <1>3, <3>2 DEF next
      <4> QED
        BY <4>1
    <3> QED
      BY <3>1, <3>2
  <2> QED
    BY <2>1
<1>5. Becomes(f)
  BY <1>2, <1>4 DEF Becomes
<1> QED
  BY <1>5

(* Of the requests nobody waits for any more, those a daemon is handling go on. *)
LEMMA FailingMoves ==
  ASSUME TransportTypeOK, NEW s, NEW a, SendFails(s, a)
  PROVE  \E f : Becomes(f) /\ \A k : CountedAt(k)' = {f[x] : x \in CountedAt(k)}
<1> DEFINE f == [x \in wire |-> IF x \in Awaited(s, a) THEN Orphan(x) ELSE x]
<1>1. PICK phases \in {{"counted"}, {"sent", "counted"}} :
        wire' = (wire \ Awaited(s, a)) \cup Orphans(s, a, phases)
  BY DEF SendFails, Abandoned
<1>2. \A x \in wire : /\ x \in Request /\ Orphan(x) \in Request
                      /\ Same(Orphan(x), x) /\ Orphan(x).phase = x.phase
  BY DEF TransportTypeOK, Orphan, Request, Same
<1>3. \A y : y \in Orphans(s, a, phases)
        <=> \E x \in wire : x \in Awaited(s, a) /\ x.phase \in phases /\ y = Orphan(x)
  BY DEF Orphans, Awaited
<1> HIDE DEF f
<1>4. /\ f \in [wire -> Request] /\ \A x \in wire : Same(f[x], x)
      /\ \A x \in wire : f[x].phase = x.phase /\ f[x].to = x.to
      /\ \A x \in wire : f[x] = IF x \in Awaited(s, a) THEN Orphan(x) ELSE x
  BY <1>2 DEF f, Same
<1>5. \A y \in wire' : \E x \in wire : y = f[x]
  BY <1>1, <1>3, <1>4
<1>6. ASSUME NEW x \in wire, x.phase = "counted" PROVE f[x] \in wire'
  BY <1>1, <1>3, <1>4, <1>6
<1>7. Becomes(f)
  BY <1>4, <1>5 DEF Becomes
<1>8. ASSUME NEW k PROVE CountedAt(k)' = {f[x] : x \in CountedAt(k)}
  BY <1>4, <1>5, <1>6 DEF CountedAt
<1> QED
  BY <1>7, <1>8

(* A restart takes what the daemon is handling and leaves the rest.          *)
LEMMA RestartMoves ==
  ASSUME TransportTypeOK, NEW n, NEW view, Restart(n, view)
  PROVE  \E f : /\ Becomes(f)
                /\ \A k : k # n => CountedAt(k)' = {f[x] : x \in CountedAt(k)}
                /\ CountedAt(n)' = {}
<1> DEFINE f == [x \in wire |-> IF x.from = n THEN Orphan(x) ELSE x]
           left == {x \in wire : (x.to = n => x.phase # "counted")
                                  /\ (x.from = n => x.phase # "answered")}
<1>1. wire' = {IF m.from = n THEN Orphan(m) ELSE m : m \in left}
  BY DEF Restart
<1>2. \A x \in wire : /\ x \in Request /\ Orphan(x) \in Request
                      /\ Same(Orphan(x), x) /\ Orphan(x).phase = x.phase
  BY DEF TransportTypeOK, Orphan, Request, Same
<1> HIDE DEF f
<1>3. /\ f \in [wire -> Request] /\ \A x \in wire : Same(f[x], x)
      /\ \A x \in wire : f[x].phase = x.phase /\ f[x].to = x.to
      /\ \A x \in wire : f[x] = IF x.from = n THEN Orphan(x) ELSE x
  BY <1>2 DEF f, Same
<1>4. wire' = {f[x] : x \in left}
  BY <1>1, <1>3
<1>5. Becomes(f)
  BY <1>3, <1>4 DEF Becomes
<1>6. ASSUME NEW k, k # n PROVE CountedAt(k)' = {f[x] : x \in CountedAt(k)}
  <2>1. \A x \in wire : x.to = k /\ x.phase = "counted" => x \in left
    BY <1>6
  <2> HIDE DEF left
  <2>2. left \subseteq wire
    BY DEF left
  <2> QED
    BY <1>3, <1>4, <2>1, <2>2 DEF CountedAt
<1>7. CountedAt(n)' = {}
  BY <1>3, <1>4 DEF CountedAt
<1> QED
  BY <1>5, <1>6, <1>7

(* What a new call sends is handled by nobody yet.                           *)
LEMMA BeginMoves ==
  ASSUME TransportTypeOK, NEW s \in Slots, NEW n \in Nodes, NEW mode, NEW payload, NEW targets,
         Begin(s, n, mode, payload, targets)
  PROVE  /\ IsFiniteSet(wire) => IsFiniteSet(wire')
         /\ (Distinct /\ \A m \in wire : m.payload # payload) => Distinct'
         /\ \A m \in wire' \ wire : m.from = n /\ m.to # n /\ m.payload = payload
         /\ \A k : CountedAt(k)' = CountedAt(k)
<1> DEFINE others == (targets \ {n}) \cap Nodes
           message(a) == [slot |-> s, from |-> n, to |-> a, mode |-> mode,
                          payload |-> payload, phase |-> "sent", awaited |-> TRUE]
           new == {message(a) : a \in others}
<1>1. wire' = wire \cup new
  <2> DEFINE requests == [slot : {s}, from : {n}, to : others, mode : {mode},
                          payload : {payload}, phase : {"sent"}, awaited : {TRUE}]
  <2>1. ASSUME NEW m \in requests PROVE m \in new
    <3>1. m.to \in others /\ m = message(m.to)
      OBVIOUS
    <3> QED
      BY <3>1
  <2>2. ASSUME NEW a \in others PROVE message(a) \in requests
    OBVIOUS
  <2>3. requests = new
    <3>1. \A m \in new : \E a \in others : m = message(a)
      OBVIOUS
    <3> HIDE DEF requests, new, message
    <3> QED
      BY <2>1, <2>2, <3>1
  <2> QED
    BY <2>3 DEF Begin
<1>2. \A a \in others :
        /\ message(a).from = n /\ message(a).to = a /\ a # n
        /\ message(a).payload = payload /\ message(a).phase = "sent"
  OBVIOUS
<1>3. IsFiniteSet(new)
  <2>1. IsFiniteSet(others)
    BY TransportAssumption, FS_Subset
  <2>2. [a \in others |-> message(a)] \in Surjection(others, new)
    BY DEF Surjection
  <2> QED
    BY <2>1, <2>2, FS_Surjection
<1>4. \A m \in new : \E a \in others : m = message(a)
  OBVIOUS
<1> HIDE DEF message, new, others
<1>5. \A m \in new : m.from = n /\ m.to # n /\ m.payload = payload /\ m.phase = "sent"
  BY <1>2, <1>4
<1>6. \A m1, m2 \in new : m1.to = m2.to => m1 = m2
  BY <1>2, <1>4
<1>7. IsFiniteSet(wire) => IsFiniteSet(wire')
  BY <1>1, <1>3, FS_Union
<1>8. (Distinct /\ \A m \in wire : m.payload # payload) => Distinct'
  BY <1>1, <1>5, <1>6 DEF Distinct, Same
<1>9. \A k : CountedAt(k)' = CountedAt(k)
  BY <1>1, <1>5 DEF CountedAt
<1> QED
  BY <1>1, <1>5, <1>7, <1>8, <1>9

(* A handler that starts is one more, one that is done is one less.          *)
LEMMA ArriveCounts ==
  ASSUME TransportTypeOK, Distinct, IsFiniteSet(wire), NEW m, Arrive(m)
  PROVE  /\ Cardinality(CountedAt(m.to)') = Cardinality(CountedAt(m.to)) + 1
         /\ \A k : k # m.to => CountedAt(k)' = CountedAt(k)
<1> DEFINE new == [m EXCEPT !.phase = "counted"]
<1>1. m \in wire /\ m \in Request /\ m.phase = "sent" /\ wire' = (wire \ {m}) \cup {new}
  BY DEF Arrive, TransportTypeOK
<1>2. new.to = m.to /\ new.phase = "counted" /\ Same(new, m)
  BY <1>1 DEF Request, Same
<1> HIDE DEF new
<1>3. new \notin wire
  BY <1>1, <1>2 DEF Distinct
<1>4. CountedAt(m.to)' = CountedAt(m.to) \cup {new} /\ new \notin CountedAt(m.to)
  BY <1>1, <1>2, <1>3 DEF CountedAt
<1>5. IsFiniteSet(CountedAt(m.to))
  BY FS_Subset DEF CountedAt
<1>6. \A k : k # m.to => CountedAt(k)' = CountedAt(k)
  BY <1>1, <1>2 DEF CountedAt
<1> QED
  BY <1>4, <1>5, <1>6, FS_AddElement

LEMMA AnswerCounts ==
  ASSUME TransportTypeOK, IsFiniteSet(wire), NEW m, Answer(m)
  PROVE  /\ Cardinality(CountedAt(m.to)') = Cardinality(CountedAt(m.to)) - 1
         /\ \A k : k # m.to => CountedAt(k)' = CountedAt(k)
<1> DEFINE new == [m EXCEPT !.phase = "answered"]
<1>1. /\ m \in wire /\ m \in Request /\ m.phase = "counted"
      /\ wire' = (wire \ {m}) \cup (IF m.awaited THEN {new} ELSE {})
  BY DEF Answer, TransportTypeOK
<1>2. new.phase = "answered"
  BY <1>1 DEF Request
<1> HIDE DEF new
<1>3. CountedAt(m.to)' = CountedAt(m.to) \ {m} /\ m \in CountedAt(m.to)
  BY <1>1, <1>2 DEF CountedAt
<1>4. IsFiniteSet(CountedAt(m.to))
  BY FS_Subset DEF CountedAt
<1>5. \A k : k # m.to => CountedAt(k)' = CountedAt(k)
  BY <1>1, <1>2 DEF CountedAt
<1> QED
  BY <1>3, <1>4, <1>5, FS_RemoveElement

LEMMA ReplyCounts ==
  ASSUME NEW m, ReplyArrives(m), NEW k
  PROVE  CountedAt(k)' = CountedAt(k)
BY DEF ReplyArrives, CountedAt

(* A call goes on in its slot until it ends: what it knows of a target stands. *)
GoesOn(call, next) ==
  /\ next.from = call.from /\ next.mode = call.mode
  /\ next.payload = call.payload /\ next.attempted = call.attempted
  /\ next.waiting \subseteq call.waiting
  /\ call.delivered \subseteq next.delivered /\ call.failed \subseteq next.failed

LEMMA CallsGoOn ==
  ASSUME TransportTypeOK, SendInv,
         (\E m : Arrive(m) \/ Answer(m) \/ ReplyArrives(m)) \/ (\E s, a : SendFails(s, a)),
         NEW t \in Slots
  PROVE  /\ (send'[t] # NoSend) <=> (send[t] # NoSend)
         /\ send[t] # NoSend => GoesOn(send[t], send'[t])
<1>1. ASSUME NEW s \in Slots, send[s] # NoSend, NEW call \in Sending, GoesOn(send[s], call),
             send' = [send EXCEPT ![s] = call]
      PROVE  /\ (send'[t] # NoSend) <=> (send[t] # NoSend)
             /\ send[t] # NoSend => GoesOn(send[t], send'[t])
  BY <1>1, TransportAssumption DEF TransportTypeOK, GoesOn
<1>2. \A m \in wire : m.awaited => m.slot \in Slots /\ send[m.slot] # NoSend /\ m.to \in Nodes
  BY DEF SendInv, RequestsSound, RequestSound, TransportTypeOK, Request
<1>3. CASE \E m : Arrive(m)
  BY <1>3 DEF Arrive, GoesOn
<1>4. ASSUME NEW m, Answer(m)
      PROVE  /\ (send'[t] # NoSend) <=> (send[t] # NoSend)
             /\ send[t] # NoSend => GoesOn(send[t], send'[t])
  <2> DEFINE s == m.slot
             call == [send[s] EXCEPT !.reached = @ \cup {m.to}]
  <2>1. CASE ~m.awaited
    BY <1>4, <2>1 DEF Answer, GoesOn
  <2>2. CASE m.awaited
    <3>1. s \in Slots /\ send[s] # NoSend /\ m.to \in Nodes /\ send' = [send EXCEPT ![s] = call]
      BY <1>2, <1>4, <2>2 DEF Answer
    <3>2. call \in Sending /\ GoesOn(send[s], call)
      BY <3>1 DEF TransportTypeOK, Sending, Addresses, GoesOn
    <3> HIDE DEF s, call
    <3> QED
      BY <1>1, <3>1, <3>2
  <2> QED
    BY <2>1, <2>2
<1>5. ASSUME NEW m, ReplyArrives(m)
      PROVE  /\ (send'[t] # NoSend) <=> (send[t] # NoSend)
             /\ send[t] # NoSend => GoesOn(send[t], send'[t])
  <2> DEFINE s == m.slot
             call == [send[s] EXCEPT !.delivered = @ \cup {m.to}, !.waiting = @ \ {m.to}]
  <2>1. m \in wire /\ m.awaited /\ send' = [send EXCEPT ![s] = call]
    BY <1>5 DEF ReplyArrives, SendInv, RequestsSound, RequestSound
  <2>2. s \in Slots /\ send[s] # NoSend /\ m.to \in Nodes
    BY <1>2, <2>1
  <2>3. call \in Sending /\ GoesOn(send[s], call)
    BY <2>2 DEF TransportTypeOK, Sending, Addresses, GoesOn
  <2> HIDE DEF s, call
  <2> QED
    BY <1>1, <2>1, <2>2, <2>3
<1>6. ASSUME NEW s, NEW a, SendFails(s, a)
      PROVE  /\ (send'[t] # NoSend) <=> (send[t] # NoSend)
             /\ send[t] # NoSend => GoesOn(send[t], send'[t])
  <2>1. CASE t # s
    BY <1>6, <2>1 DEF SendFails, TransportTypeOK, GoesOn
  <2>2. CASE t = s
    <3> DEFINE call == [send[s] EXCEPT !.failed = @ \cup {a}, !.waiting = @ \ {a}]
    <3>1. s \in Slots /\ send[s] # NoSend /\ a \in send[s].waiting /\ send' = [send EXCEPT ![s] = call]
      BY <1>6, <2>2 DEF SendFails
    <3>2. call \in Sending /\ GoesOn(send[s], call)
      BY <3>1 DEF TransportTypeOK, Sending, GoesOn
    <3> HIDE DEF call
    <3> QED
      BY <1>1, <3>1, <3>2
  <2> QED
    BY <2>1, <2>2
<1> QED
  BY <1>3, <1>4, <1>5, <1>6

LEMMA SendsKept ==
  ASSUME TransportTypeOK, SendInv,
         NEW k, (\E m : Arrive(m) \/ Answer(m) \/ ReplyArrives(m)) \/ \E s, a : SendFails(s, a)
  PROVE  SendsOf(k)' = SendsOf(k)
BY CallsGoOn DEF SendsOf, GoesOn

LEMMA SendsFinite == \A k : IsFiniteSet(SendsOf(k))
BY TransportAssumption, FS_Subset DEF SendsOf

LEMMA BeginSends ==
  ASSUME TransportTypeOK, NEW s \in Slots, NEW n \in Nodes, NEW mode \in Modes,
         NEW payload \in Payloads, NEW targets \in SUBSET Addresses,
         Begin(s, n, mode, payload, targets)
  PROVE  /\ Cardinality(SendsOf(n)') = Cardinality(SendsOf(n)) + 1
         /\ \A k : k # n => SendsOf(k)' = SendsOf(k)
<1> DEFINE call == [from |-> n, mode |-> mode, payload |-> payload, attempted |-> targets,
                    waiting |-> targets \ {n}, delivered |-> {}, failed |-> {}, reached |-> {}]
<1>1. send[s] = NoSend /\ send' = [send EXCEPT ![s] = call]
  BY DEF Begin
<1>2. call \in Sending /\ call.from = n
  BY DEF Sending
<1> HIDE DEF call
<1>3. send'[s] = call /\ call # NoSend /\ \A t \in Slots \ {s} : send'[t] = send[t]
  BY <1>1, <1>2, TransportAssumption DEF TransportTypeOK
<1>4. /\ SendsOf(n)' = SendsOf(n) \cup {s} /\ s \notin SendsOf(n)
      /\ \A k : k # n => SendsOf(k)' = SendsOf(k)
  BY <1>1, <1>2, <1>3 DEF SendsOf
<1> QED
  BY <1>4, SendsFinite, FS_AddElement

LEMMA EndSends ==
  ASSUME TransportTypeOK, NEW s \in Slots, End(s), NEW n, n = send[s].from
  PROVE  /\ Cardinality(SendsOf(n)') = Cardinality(SendsOf(n)) - 1
         /\ \A k : k # n => SendsOf(k)' = SendsOf(k)
<1>1. send[s] # NoSend /\ send' = [send EXCEPT ![s] = NoSend]
  BY DEF End
<1>2. send'[s] = NoSend /\ \A t \in Slots \ {s} : send'[t] = send[t]
  BY <1>1 DEF TransportTypeOK
<1>3. /\ SendsOf(n)' = SendsOf(n) \ {s} /\ s \in SendsOf(n)
      /\ \A k : k # n => SendsOf(k)' = SendsOf(k)
  BY <1>1, <1>2 DEF SendsOf
<1> QED
  BY <1>3, SendsFinite, FS_RemoveElement

LEMMA RestartSends ==
  ASSUME NEW n, NEW view, Restart(n, view)
  PROVE  /\ SendsOf(n)' = {}
         /\ \A k : k # n => SendsOf(k)' = SendsOf(k)
<1>1. send' = [s \in Slots |-> IF send[s] # NoSend /\ send[s].from = n THEN NoSend ELSE send[s]]
  BY DEF Restart
<1> QED
  BY <1>1 DEF SendsOf
=============================================================================

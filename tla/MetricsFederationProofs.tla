------------------------ MODULE MetricsFederationProofs ------------------------
(* Whatever becomes of updates and daemons, no daemon knows more of a node than *)
(* the node: for any daemons, peers, losses and restarts.                    *)
EXTENDS MetricsFederation, PeerTransportProofs

(* Metrics that n reported, and that are no newer than what its daemon shows. *)
Reported(v, n) == v <= version[n] /\ (cluster[n][n] = 0 \/ v <= cluster[n][n])

(* Only such metrics are under way, none of them to the daemon they are from. *)
OnlyReported ==
  /\ \A m \in wire : m.from # m.to /\ Reported(m.payload, m.from)
  /\ \A h \in handlers : h.at # h.of /\ Reported(h.version, h.of)
  /\ NobodyKnowsMore

IInv == TypeOK /\ SendInv /\ OnlyReported

LEMMA InitInv == Init => IInv
<1> SUFFICES ASSUME Init PROVE IInv
  OBVIOUS
<1>1. /\ send = [s \in Slots |-> NoSend] /\ wire = {} /\ restarts = 0
      /\ version = [n \in Nodes |-> 1] /\ handlers = {}
      /\ cluster = [n \in Nodes |-> [m \in Nodes |-> 0]]
  BY DEF Init, TransportInit
<1>2. TransportTypeOK
  BY <1>1, ViewsType DEF Init, TransportInit, TransportTypeOK
<1>3. TypeOK
  BY <1>1, <1>2, FederationAssumption DEF TypeOK
<1>4. SendInv
  BY <1>1 DEF SendInv, CallsSound, RequestsSound, OneRequest
<1>5. OnlyReported
  BY <1>1 DEF OnlyReported, NobodyKnowsMore
<1> QED
  BY <1>3, <1>4, <1>5 DEF IInv

(* Requests that go on say nothing new.                                      *)
LEMMA BecomesReported ==
  ASSUME OnlyReported, NEW f, Becomes(f), UNCHANGED <<version, cluster>>
  PROVE  \A m \in wire' : m.from # m.to /\ Reported(m.payload, m.from)'
BY DEF OnlyReported, Reported, Becomes, Same

LEMMA MeasureInv ==
  ASSUME IInv, NEW n \in Nodes, Measure(n)
  PROVE  IInv'
<1>1. /\ version[n] < MaxVersion /\ version' = [version EXCEPT ![n] = @ + 1]
      /\ UNCHANGED <<peers, named, send, wire, restarts, cluster, handlers>>
  BY DEF Measure, transportVars
<1>2. \A k \in Nodes : version'[k] \in 1 .. MaxVersion /\ version[k] <= version'[k]
  BY <1>1, FederationAssumption DEF IInv, TypeOK
<1>3. TypeOK'
  BY <1>1, <1>2 DEF IInv, TypeOK, TransportTypeOK
<1>4. SendInv'
  BY <1>1 DEF IInv, SendInv, CallsSound, RequestsSound, RequestSound, OneRequest
<1>5. ASSUME NEW v \in Payloads, NEW k \in Nodes, Reported(v, k) PROVE Reported(v, k)'
  <2>1. v \in Int /\ version[k] \in Int /\ version'[k] \in Int
    BY <1>2, FederationAssumption DEF IInv, TypeOK
  <2> QED
    BY <1>1, <1>2, <1>5, <2>1 DEF Reported
<1>6. \A m \in wire : m.from # m.to /\ Reported(m.payload, m.from)'
  BY <1>5 DEF IInv, OnlyReported, TypeOK, TransportTypeOK, Request
<1>7. \A h \in handlers : h.at # h.of /\ Reported(h.version, h.of)'
  BY <1>5 DEF IInv, OnlyReported, TypeOK, Handler
<1>8. NobodyKnowsMore'
  <2>1. ASSUME NEW k \in Nodes, NEW j \in Nodes
        PROVE  cluster[j][k] \in Int /\ cluster[j][k] <= version[k]
               /\ version[k] \in Int /\ version'[k] \in Int
    BY <1>2, FederationAssumption DEF IInv, OnlyReported, NobodyKnowsMore, TypeOK
  <2>2. \A k, j \in Nodes : cluster[j][k] <= version'[k]
    BY <1>2, <2>1
  <2> QED
    BY <1>1, <2>2 DEF IInv, OnlyReported, NobodyKnowsMore
<1>9. OnlyReported'
  BY <1>1, <1>6, <1>7, <1>8 DEF OnlyReported, Reported
<1> QED
  BY <1>3, <1>4, <1>9 DEF IInv

(* A publication makes the daemon's own entry the newest there is.           *)
LEMMA PublishInv ==
  ASSUME IInv, NEW n \in Nodes, Publish(n)
  PROVE  IInv'
<1>1. /\ Begin(n, n, "BROADCAST", version[n], BroadcastTargets(n))
      /\ cluster' = [cluster EXCEPT ![n][n] = version[n]] /\ UNCHANGED <<version, handlers>>
  BY DEF Publish
<1>2. /\ n \in Slots /\ version[n] \in Payloads /\ version[n] \in 1 .. MaxVersion
      /\ TransportTypeOK /\ SendInv /\ BroadcastTargets(n) \in SUBSET Addresses
  BY FederationAssumption
  DEF IInv, TypeOK, TransportTypeOK, BroadcastTargets
<1>3. TransportTypeOK' /\ SendInv'
  BY <1>1, <1>2, BeginInv DEF Modes
<1>4. \A m \in wire' \ wire : m.from = n /\ m.to # n /\ m.payload = version[n]
  BY <1>1, <1>2, BeginMoves
<1>5. /\ cluster'[n][n] = version[n]
      /\ \A j, k \in Nodes : (j # n \/ k # n) => cluster'[j][k] = cluster[j][k]
  BY <1>1 DEF IInv, TypeOK
<1>6. TypeOK'
  BY <1>1, <1>2, <1>3 DEF IInv, TypeOK
<1>7. ASSUME NEW v \in Payloads, NEW k \in Nodes, Reported(v, k) PROVE Reported(v, k)'
  BY <1>1, <1>2, <1>5, <1>7, FederationAssumption DEF Reported
<1>8. Reported(version[n], n)'
  BY <1>1, <1>2, <1>5 DEF Reported
<1>9. \A m \in wire' : m.from # m.to /\ Reported(m.payload, m.from)'
  <2>1. ASSUME NEW m \in wire PROVE m.from # m.to /\ Reported(m.payload, m.from)'
    <3>1. m.payload \in Payloads /\ m.from \in Nodes /\ m.from # m.to /\ Reported(m.payload, m.from)
      BY DEF IInv, OnlyReported, TypeOK, TransportTypeOK, Request
    <3> QED
      BY <1>7, <3>1
  <2>2. ASSUME NEW m \in wire' \ wire PROVE m.from # m.to /\ Reported(m.payload, m.from)'
    BY <1>1, <1>4, <1>8 DEF Reported
  <2> QED
    BY <2>1, <2>2
<1>10. \A h \in handlers' : h.at # h.of /\ Reported(h.version, h.of)'
  BY <1>1, <1>7 DEF IInv, OnlyReported, TypeOK, Handler
<1>11. NobodyKnowsMore'
  <2>1. SUFFICES ASSUME NEW j \in Nodes, NEW k \in Nodes
                 PROVE  /\ cluster'[j][k] <= version[k]
                        /\ cluster'[k][k] = 0 \/ cluster'[j][k] <= cluster'[k][k]
    BY <1>1 DEF NobodyKnowsMore
  <2>2. /\ cluster[j][k] \in Payloads /\ cluster[j][k] <= version[k]
        /\ cluster[k][k] = 0 \/ cluster[j][k] <= cluster[k][k]
    BY DEF IInv, OnlyReported, NobodyKnowsMore, TypeOK
  <2>3. CASE j = n /\ k = n
    BY <1>2, <1>5, <2>3, FederationAssumption
  <2>4. CASE j # n /\ k = n
    BY <1>1, <1>5, <2>2, <2>4
  <2>5. CASE k # n
    BY <1>5, <2>2, <2>5
  <2> QED
    BY <2>3, <2>4, <2>5
<1>12. OnlyReported'
  BY <1>9, <1>10, <1>11 DEF OnlyReported, Reported
<1> QED
  BY <1>3, <1>6, <1>12 DEF IInv

LEMMA PublishedInv ==
  ASSUME IInv, NEW n \in Nodes, Published(n)
  PROVE  IInv'
<1>1. End(n) /\ UNCHANGED <<version, cluster, handlers, wire>>
  BY DEF Published, End
<1>2. TransportTypeOK' /\ SendInv'
  BY <1>1, EndInv, FederationAssumption DEF IInv, TypeOK
<1> QED
  BY <1>1, <1>2 DEF IInv, TypeOK, OnlyReported, Reported, NobodyKnowsMore

LEMMA ReceiveInv ==
  ASSUME IInv, NEW m \in wire, Receive(m)
  PROVE  IInv'
<1>1. Arrive(m) /\ UNCHANGED <<version, cluster, handlers>>
  BY DEF Receive
<1>2. TransportTypeOK' /\ SendInv'
  BY <1>1, ArriveInv DEF IInv, TypeOK
<1>3. \A x \in wire' : x.from # x.to /\ Reported(x.payload, x.from)'
  BY <1>1, HandlingMoves, BecomesReported DEF IInv, TypeOK
<1> QED
  BY <1>1, <1>2, <1>3 DEF IInv, TypeOK, OnlyReported, Reported, NobodyKnowsMore

(* What is dispatched was sent to this daemon by another.                    *)
LEMMA DispatchInv ==
  ASSUME IInv, NEW m \in wire, Dispatch(m)
  PROVE  IInv'
<1> DEFINE h == [at |-> m.to, of |-> m.from, version |-> m.payload]
<1>1. Answer(m) /\ handlers' = handlers \cup {h} /\ UNCHANGED <<version, cluster>>
  BY DEF Dispatch
<1>2. TransportTypeOK' /\ SendInv'
  BY <1>1, AnswerInv DEF IInv, TypeOK
<1>3. h \in Handler /\ h.at # h.of /\ Reported(h.version, h.of)
  BY DEF IInv, TypeOK, TransportTypeOK, Request, Handler, OnlyReported
<1> HIDE DEF h
<1>4. \A x \in wire' : x.from # x.to /\ Reported(x.payload, x.from)'
  BY <1>1, HandlingMoves, BecomesReported DEF IInv, TypeOK
<1> QED
  BY <1>1, <1>2, <1>3, <1>4 DEF IInv, TypeOK, OnlyReported, Reported, NobodyKnowsMore

(* An update never reaches the entry its sender keeps of itself.             *)
LEMMA HandleInv ==
  ASSUME IInv, NEW h \in handlers, Handle(h)
  PROVE  IInv'
<1>1. /\ handlers' = handlers \ {h} /\ cluster' = [cluster EXCEPT ![h.at][h.of] = h.version]
      /\ UNCHANGED <<peers, named, send, wire, restarts, version>>
  BY DEF Handle, transportVars
<1>2. /\ h.at \in Nodes /\ h.of \in Nodes /\ h.version \in Payloads
      /\ h.at # h.of /\ Reported(h.version, h.of)
  BY DEF IInv, TypeOK, Handler, OnlyReported
<1>3. /\ cluster' \in [Nodes -> [Nodes -> Payloads]]
      /\ cluster'[h.at][h.of] = h.version
      /\ \A j, k \in Nodes : (j # h.at \/ k # h.of) => cluster'[j][k] = cluster[j][k]
  BY <1>1, <1>2 DEF IInv, TypeOK
<1>4. \A v, k : k \in Nodes => (Reported(v, k)' <=> Reported(v, k))
  BY <1>1, <1>2, <1>3 DEF Reported
<1>5. TypeOK'
  BY <1>1, <1>3 DEF IInv, TypeOK, TransportTypeOK
<1>6. SendInv'
  BY <1>1 DEF IInv, SendInv, CallsSound, RequestsSound, RequestSound, OneRequest
<1>7. OnlyReported'
  <2>1. \A m \in wire : m.from # m.to /\ Reported(m.payload, m.from)'
    BY <1>4 DEF IInv, OnlyReported, TypeOK, TransportTypeOK, Request
  <2>2. \A x \in handlers : x.at # x.of /\ Reported(x.version, x.of)'
    BY <1>4 DEF IInv, OnlyReported, TypeOK, Handler
  <2>3. NobodyKnowsMore'
    <3>1. SUFFICES ASSUME NEW j \in Nodes, NEW k \in Nodes
                   PROVE  /\ cluster'[j][k] <= version[k]
                          /\ cluster[k][k] = 0 \/ cluster'[j][k] <= cluster[k][k]
      BY <1>1, <1>2, <1>3 DEF NobodyKnowsMore
    <3>2. CASE j = h.at /\ k = h.of
      BY <1>2, <1>3, <3>2 DEF Reported
    <3>3. CASE j # h.at \/ k # h.of
      BY <1>3, <3>3 DEF IInv, OnlyReported, NobodyKnowsMore
    <3> QED
      BY <3>2, <3>3
  <2> QED
    BY <1>1, <2>1, <2>2, <2>3 DEF OnlyReported, Reported
<1> QED
  BY <1>5, <1>6, <1>7 DEF IInv

(* What a daemon knew is lost with it; updates it sent before may still be   *)
(* under way, and are newer than nothing.                                    *)
LEMMA RestartDaemonInv ==
  ASSUME IInv, NEW n \in Nodes, NEW view \in Views, RestartDaemon(n, view)
  PROVE  IInv'
<1>1. /\ Restart(n, view) /\ cluster' = [cluster EXCEPT ![n] = [m \in Nodes |-> 0]]
      /\ handlers' = {h \in handlers : h.at # n} /\ UNCHANGED version
  BY DEF RestartDaemon
<1>2. TransportTypeOK' /\ SendInv'
  BY <1>1, RestartInv DEF IInv, TypeOK
<1>3. PICK f : Becomes(f)
  BY <1>1, RestartMoves DEF IInv, TypeOK
<1>4. \A j, k \in Nodes : cluster'[j][k] = IF j = n THEN 0 ELSE cluster[j][k]
  BY <1>1 DEF IInv, TypeOK
<1>5. TypeOK'
  BY <1>1, <1>2, FederationAssumption DEF IInv, TypeOK
<1>6. ASSUME NEW v \in Payloads, NEW k \in Nodes, Reported(v, k) PROVE Reported(v, k)'
  BY <1>1, <1>4, <1>6 DEF Reported
<1>7. \A m \in wire' : m.from # m.to /\ Reported(m.payload, m.from)'
  <2>1. SUFFICES ASSUME NEW m \in wire' PROVE m.from # m.to /\ Reported(m.payload, m.from)'
    OBVIOUS
  <2>2. PICK x \in wire : Same(m, x)
    BY <1>3 DEF Becomes
  <2>3. /\ m.from = x.from /\ m.to = x.to /\ m.payload = x.payload
        /\ x.payload \in Payloads /\ x.from \in Nodes
        /\ x.from # x.to /\ Reported(x.payload, x.from)
    BY <2>2 DEF Same, IInv, OnlyReported, TypeOK, TransportTypeOK, Request
  <2> QED
    BY <1>6, <2>3
<1>8. \A h \in handlers' : h.at # h.of /\ Reported(h.version, h.of)'
  BY <1>1, <1>6 DEF IInv, OnlyReported, TypeOK, Handler
<1>9. NobodyKnowsMore'
  <2>1. SUFFICES ASSUME NEW j \in Nodes, NEW k \in Nodes
                 PROVE  /\ cluster'[j][k] <= version[k]
                        /\ cluster'[k][k] = 0 \/ cluster'[j][k] <= cluster'[k][k]
    BY <1>1 DEF NobodyKnowsMore
  <2>2. /\ cluster[j][k] <= version[k] /\ version[k] \in 1 .. MaxVersion
        /\ cluster[k][k] \in 0 .. MaxVersion
        /\ cluster[k][k] = 0 \/ cluster[j][k] <= cluster[k][k]
    BY FederationAssumption DEF IInv, OnlyReported, NobodyKnowsMore, TypeOK
  <2> QED
    BY <1>4, <2>2
<1>10. OnlyReported'
  BY <1>7, <1>8, <1>9 DEF OnlyReported, Reported
<1> QED
  BY <1>2, <1>5, <1>10 DEF IInv

(* The transport's own steps leave what is known alone.                      *)
LEMMA ElsewhereInv ==
  ASSUME IInv, Elsewhere, TransportTypeOK', SendInv', NEW f, Becomes(f)
  PROVE  IInv'
<1>1. \A m \in wire' : m.from # m.to /\ Reported(m.payload, m.from)'
  BY BecomesReported DEF Elsewhere, IInv
<1> QED
  BY <1>1 DEF IInv, TypeOK, OnlyReported, Reported, NobodyKnowsMore, Elsewhere

LEMMA NextInv == IInv /\ [Next]_vars => IInv'
<1> SUFFICES ASSUME IInv, [Next]_vars PROVE IInv'
  OBVIOUS
<1>1. CASE UNCHANGED vars
  BY <1>1 DEF vars, transportVars, IInv, TypeOK, TransportTypeOK, SendInv, CallsSound,
              RequestsSound, RequestSound, OneRequest, OnlyReported, Reported, NobodyKnowsMore
<1>2. CASE \E n \in Nodes : Measure(n) \/ Publish(n) \/ Published(n)
  BY <1>2, MeasureInv, PublishInv, PublishedInv
<1>3. CASE \E m \in wire : Receive(m) \/ Dispatch(m)
  BY <1>3, ReceiveInv, DispatchInv
<1>4. CASE \E h \in handlers : Handle(h)
  BY <1>4, HandleInv
<1>5. CASE \E m \in wire : ReplyArrives(m) /\ Elsewhere
  BY <1>5, ReplyArrivesInv, HandlingMoves, ElsewhereInv DEF IInv, TypeOK
<1>6. CASE \E n \in Nodes, a \in Addresses : SendFails(n, a) /\ Elsewhere
  <2>1. PICK n \in Slots, a \in Addresses : SendFails(n, a) /\ Elsewhere
    BY <1>6, FederationAssumption
  <2>2. TransportTypeOK' /\ SendInv'
    BY <2>1, SendFailsInv DEF IInv, TypeOK
  <2>3. PICK f : Becomes(f)
    BY <2>1, FailingMoves DEF IInv, TypeOK
  <2> QED
    BY <2>1, <2>2, <2>3, ElsewhereInv
<1>7. CASE \E n \in Nodes, view \in Views : RestartDaemon(n, view)
  BY <1>7, RestartDaemonInv
<1>8. CASE \E n \in Nodes, view \in Views : Refresh(n, view) /\ Elsewhere
  <2>1. PICK n \in Nodes, view \in Views : Refresh(n, view) /\ Elsewhere
    BY <1>8
  <2>2. TransportTypeOK' /\ SendInv' /\ wire' = wire
    BY <2>1, RefreshInv DEF IInv, TypeOK, Refresh, sendVars
  <2> QED
    BY <2>1, <2>2 DEF IInv, TypeOK, OnlyReported, Reported, NobodyKnowsMore, Elsewhere
<1> QED
  BY <1>1, <1>2, <1>3, <1>4, <1>5, <1>6, <1>7, <1>8 DEF Next

LEMMA AlwaysIInv == Spec => []IInv
BY InitInv, NextInv, PTL DEF Spec

(* Every view holds a version or nothing for every node, whatever is lost.   *)
THEOREM FederationTypeCorrect == Spec => []TypeOK
<1>1. IInv => TypeOK
  BY DEF IInv
<1> QED
  BY <1>1, AlwaysIInv, PTL

(* However updates overtake each other and daemons restart, no daemon shows  *)
(* newer metrics of a node than the node reports, nor newer than the node's own *)
(* daemon shows, unless that one has restarted and not published since.      *)
THEOREM NoViewAheadOfItsNode == Spec => []NobodyKnowsMore
<1>1. IInv => NobodyKnowsMore
  BY DEF IInv, OnlyReported
<1> QED
  BY <1>1, AlwaysIInv, PTL

-----------------------------------------------------------------------------
(* Every daemon shows the last metrics of n, and no others of it are under way. *)
Settled(n) ==
  /\ \A k \in Nodes : cluster[k][n] = version[n]
  /\ \A m \in wire : m.from = n => m.payload = version[n]
  /\ \A h \in handlers : h.of = n => h.version = version[n]

(* The half of ViewsConverge that needs no fairness: once every daemon shows *)
(* the last metrics of a node and no older update of it is under way, losses, *)
(* timeouts, repeated publications and other nodes' updates change none of   *)
(* that, until the node has news or a daemon is restarted.                   *)
THEOREM SettledStays ==
  Spec => [][\A n \in Nodes :
               Settled(n) /\ version'[n] = version[n] /\ restarts' = restarts
                 => Settled(n)']_vars
<1> DEFINE Stays == \A n \in Nodes :
             Settled(n) /\ version'[n] = version[n] /\ restarts' = restarts => Settled(n)'
<1>1. IInv /\ [Next]_vars => [Stays]_vars
  <2> SUFFICES ASSUME IInv, Next, NEW n \in Nodes, Settled(n),
                      version'[n] = version[n], restarts' = restarts
               PROVE  Settled(n)'
    OBVIOUS
  <2>0. TransportTypeOK /\ cluster \in [Nodes -> [Nodes -> Payloads]] /\ handlers \subseteq Handler
    BY DEF IInv, TypeOK
  <2>1. ASSUME NEW f, Becomes(f) PROVE \A m \in wire' : m.from = n => m.payload = version'[n]
    BY <2>1 DEF Becomes, Same, Settled
  <2>2. ASSUME Elsewhere, \A m \in wire' : m.from = n => m.payload = version'[n]
        PROVE  Settled(n)'
    BY <2>2 DEF Elsewhere, Settled
  <2>3. ASSUME NEW k \in Nodes, Measure(k) PROVE Settled(n)'
    BY <2>3 DEF Measure, Settled, transportVars
  <2>4. ASSUME NEW k \in Nodes, Publish(k) PROVE Settled(n)'
    <3>1. /\ Begin(k, k, "BROADCAST", version[k], BroadcastTargets(k)) /\ k \in Slots
          /\ cluster' = [cluster EXCEPT ![k][k] = version[k]] /\ UNCHANGED <<version, handlers>>
      BY <2>4, FederationAssumption DEF Publish
    <3>2. \A m \in wire' \ wire : m.from = k /\ m.payload = version[k]
      BY <2>0, <3>1, BeginMoves
    <3>3. \A j \in Nodes : cluster'[j][n] = version[n]
      BY <2>0, <3>1 DEF Settled
    <3>4. \A m \in wire' : m.from = n => m.payload = version'[n]
      BY <3>1, <3>2 DEF Settled
    <3> QED
      BY <3>1, <3>3, <3>4 DEF Settled
  <2>5. ASSUME NEW k \in Nodes, Published(k) PROVE Settled(n)'
    BY <2>5 DEF Published, End, Settled
  <2>6. ASSUME NEW m \in wire, Receive(m) PROVE Settled(n)'
    BY <2>0, <2>1, <2>2, <2>6, HandlingMoves DEF Receive, Elsewhere
  <2>7. ASSUME NEW m \in wire, Dispatch(m) PROVE Settled(n)'
    <3>1. /\ handlers' = handlers \cup {[at |-> m.to, of |-> m.from, version |-> m.payload]}
          /\ Answer(m) /\ UNCHANGED <<version, cluster>>
      BY <2>7 DEF Dispatch
    <3>2. \A x \in wire' : x.from = n => x.payload = version'[n]
      BY <2>0, <2>1, <3>1, HandlingMoves
    <3> QED
      BY <3>1, <3>2 DEF Settled
  <2>8. ASSUME NEW h \in handlers, Handle(h) PROVE Settled(n)'
    <3>1. /\ handlers' = handlers \ {h} /\ cluster' = [cluster EXCEPT ![h.at][h.of] = h.version]
          /\ UNCHANGED <<wire, version>>
      BY <2>8 DEF Handle, transportVars
    <3>2. h.at \in Nodes /\ h.of \in Nodes /\ (h.of = n => h.version = version[n])
      BY <2>0 DEF Handler, Settled
    <3>3. \A j \in Nodes : cluster'[j][n] = version[n]
      BY <2>0, <3>1, <3>2 DEF Settled
    <3> QED
      BY <3>1, <3>3 DEF Settled
  <2>9. ASSUME NEW m \in wire, ReplyArrives(m), Elsewhere PROVE Settled(n)'
    BY <2>0, <2>1, <2>2, <2>9, HandlingMoves
  <2>10. ASSUME NEW k \in Nodes, NEW a \in Addresses, SendFails(k, a), Elsewhere PROVE Settled(n)'
    BY <2>0, <2>1, <2>2, <2>10, FailingMoves
  <2>11. ASSUME NEW k \in Nodes, NEW view \in Views, RestartDaemon(k, view) PROVE Settled(n)'
    BY <2>0, <2>11 DEF RestartDaemon, Restart, TransportTypeOK
  <2>12. ASSUME NEW k \in Nodes, NEW view \in Views, Refresh(k, view), Elsewhere PROVE Settled(n)'
    BY <2>2, <2>12 DEF Refresh, sendVars, Settled, Elsewhere
  <2> QED
    BY <2>3, <2>4, <2>5, <2>6, <2>7, <2>8, <2>9, <2>10, <2>11, <2>12 DEF Next
<1> QED
  BY <1>1, AlwaysIInv, PTL DEF Spec
=============================================================================

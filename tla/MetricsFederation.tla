-------------------------- MODULE MetricsFederation --------------------------
(***************************************************************************)
(* Every daemon's view of the metrics of all nodes (clusterMetrics in        *)
(* pkg/api/metrics_stream.go).  A daemon publishes its own metrics every five *)
(* seconds: it stores them and broadcasts them to its peers, waiting for     *)
(* every request to end.  A daemon that receives metrics handles them in a   *)
(* goroutine, after it has answered; nothing orders the updates.             *)
(*                                                                           *)
(* The metrics of a node are a version number, 0 for an entry that is not    *)
(* there.  The slot of a send is the daemon: it publishes from one loop.     *)
(***************************************************************************)
EXTENDS PeerTransport

CONSTANTS
  Identified,   \* the daemons that know a name or an address of their node
  MaxVersion    \* bound on the versions of a node's metrics

ASSUME FederationAssumption ==
  /\ Identified \subseteq Nodes
  /\ MaxVersion \in Nat \ {0}
  /\ Slots = Nodes
  /\ Payloads = 0 .. MaxVersion

(* A goroutine dispatchMessage has started for a METRIC_UPDATE.  Two that    *)
(* would store the same version are one.                                     *)
Handler == [at : Nodes, of : Nodes, version : Payloads]

VARIABLES
  version,      \* per node: what its collectors report now
  cluster,      \* per daemon: clusterMetrics
  handlers      \* goroutines that have not stored their update yet

vars == <<transportVars, version, cluster, handlers>>

Init ==
  /\ TransportInit
  /\ version = [n \in Nodes |-> 1]
  /\ cluster = [n \in Nodes |-> [m \in Nodes |-> 0]]
  /\ handlers = {}

(* Something happens on the node.                                            *)
Measure(n) ==
  /\ version[n] < MaxVersion
  /\ version' = [version EXCEPT ![n] = @ + 1]
  /\ UNCHANGED <<transportVars, cluster, handlers>>

(* Faulty variant of Publish: only news is sent, not every sample.           *)
PublishNews(n) ==
  /\ n \in Identified
  /\ cluster[n][n] # version[n]
  /\ Begin(n, n, "BROADCAST", version[n], BroadcastTargets(n))
  /\ cluster' = [cluster EXCEPT ![n][n] = version[n]]
  /\ UNCHANGED <<version, handlers>>

(* publishLocalMetrics; metrics without a node identifier are skipped.       *)
Publish(n) ==
  /\ n \in Identified
  /\ Begin(n, n, "BROADCAST", version[n], BroadcastTargets(n))
  /\ cluster' = [cluster EXCEPT ![n][n] = version[n]]
  /\ UNCHANGED <<version, handlers>>

Published(n) == End(n) /\ UNCHANGED <<version, cluster, handlers>>

(* receiveHandler, which starts handleRemoteMetricUpdate and answers.        *)
Receive(m) == Arrive(m) /\ UNCHANGED <<version, cluster, handlers>>

Dispatch(m) ==
  /\ Answer(m)
  /\ handlers' = handlers \cup {[at |-> m.to, of |-> m.from, version |-> m.payload]}
  /\ UNCHANGED <<version, cluster>>

(* Faulty variant of Handle: the update is stored for the daemon that reads it. *)
HandleHere(h) ==
  /\ h \in handlers
  /\ handlers' = handlers \ {h}
  /\ cluster' = [cluster EXCEPT ![h.at][h.at] = h.version]
  /\ UNCHANGED <<transportVars, version>>

(* handleRemoteMetricUpdate.                                                 *)
Handle(h) ==
  /\ h \in handlers
  /\ handlers' = handlers \ {h}
  /\ cluster' = [cluster EXCEPT ![h.at][h.of] = h.version]
  /\ UNCHANGED <<transportVars, version>>

RestartDaemon(n, view) ==
  /\ Restart(n, view)
  /\ cluster' = [cluster EXCEPT ![n] = [m \in Nodes |-> 0]]
  /\ handlers' = {h \in handlers : h.at # n}
  /\ UNCHANGED version

Elsewhere == UNCHANGED <<version, cluster, handlers>>

Next ==
  \/ \E n \in Nodes : Measure(n) \/ Publish(n) \/ Published(n)
  \/ \E m \in wire : Receive(m) \/ Dispatch(m)
  \/ \E h \in handlers : Handle(h)
  \/ \E m \in wire : ReplyArrives(m) /\ Elsewhere
  \/ \E n \in Nodes, a \in Addresses : SendFails(n, a) /\ Elsewhere
  \/ \E n \in Nodes, view \in Views : RestartDaemon(n, view) \/ (Refresh(n, view) /\ Elsewhere)

(* The loop runs on a ticker, goroutines run, requests are given up after    *)
(* three seconds, and of the requests from one daemon to another some get    *)
(* through before that.                                                      *)
Fairness ==
  \A n \in Nodes :
    /\ WF_vars(Publish(n)) /\ WF_vars(Published(n))
    /\ \A a \in Addresses : WF_vars(SendFails(n, a) /\ Elsewhere)
    /\ \A k \in Nodes :
         /\ SF_vars(\E m \in wire : m.from = n /\ m.to = k /\ m.awaited /\ Receive(m))
         /\ WF_vars(\E m \in wire : m.from = n /\ m.to = k /\ Dispatch(m))
         /\ WF_vars(\E h \in handlers : h.at = k /\ h.of = n /\ Handle(h))

Spec == Init /\ [][Next]_vars
FairSpec == Spec /\ Fairness

-----------------------------------------------------------------------------
TypeOK ==
  /\ TransportTypeOK
  /\ version \in [Nodes -> 1 .. MaxVersion]
  /\ cluster \in [Nodes -> [Nodes -> Payloads]]
  /\ handlers \subseteq Handler

(* Updates overtake each other, arrive late and outlive the daemon that sent *)
(* them: still no daemon shows newer metrics of a node than the node         *)
(* reports, nor newer than the node's own daemon shows, unless that one has  *)
(* restarted and not published yet (publishLocalMetrics stores before it     *)
(* broadcasts, and no update comes back to its sender).                      *)
NobodyKnowsMore ==
  \A n, k \in Nodes :
    /\ cluster[k][n] <= version[n]
    /\ cluster[n][n] = 0 \/ cluster[k][n] <= cluster[n][n]

(* However requests are lost, late or reordered and daemons restart: once    *)
(* the daemons know each other again, every view ends up with the metrics    *)
(* every node reports last, and stays there (publishLocalMetrics repeats     *)
(* itself, so an update that was lost or overwritten comes again).           *)
ViewsConverge ==
  <>[](\A n \in Nodes : peers[n] = Nodes)
    => <>[](\A n \in Nodes, m \in Identified : cluster[n][m] = version[m])
=============================================================================

---------------------------- MODULE MetricsStream ----------------------------
(***************************************************************************)
(* The WebSocket clients of /api/metrics/ws on one daemon                    *)
(* (pkg/api/metrics_stream.go) and the dashboard's copy of the metrics       *)
(* (frontend/src/hooks/useMetrics.ts).                                      *)
(*                                                                          *)
(* The publishing loop and the handlers of remote updates are goroutines     *)
(* that store the metrics of a node and then push them to every client.  A   *)
(* new client is registered, then written a snapshot.  Only the writes to one    *)
(* client exclude each other.                                               *)
(***************************************************************************)
EXTENDS Integers, FiniteSets

CONSTANTS
  Sources,      \* the nodes whose metrics arrive
  Conns,        \* WebSocket connections; each is used once
  Pushers,      \* goroutines that may be publishing at a time
  MaxVersion,   \* bound on the versions of a node's metrics
  NoPush        \* the goroutine is not publishing

Versions == 1 .. MaxVersion

(* todo: the clients a publication still has to write to. *)
Push == [source : Sources, version : Versions, step : {"built", "stored", "listed"},
         todo : SUBSET Conns]

ASSUME StreamAssumption ==
  /\ MaxVersion \in Nat \ {0}
  /\ NoPush \notin Push

VARIABLES
  version,      \* per node: the newest metrics that arrived
  cluster,      \* per node: clusterMetrics
  clients,      \* the registered connections
  phase,        \* per connection: what its HTTP handler is at
  usable,       \* the connections that are neither closed nor broken
  snapshot,     \* per connection: what sendClusterSnapshot has copied
  push,         \* per pusher: the update it publishes
  view,         \* per connection: clusterMetricsRef in the dashboard
  written       \* per connection: every <<node, version>> written to it

connVars == <<phase, usable, snapshot>>
clientVars == <<view, written>>
streamVars == <<version, cluster, clients, connVars, push, clientVars>>

Nothing == [m \in Sources |-> 0]

StreamInit ==
  /\ version = [m \in Sources |-> 1]
  /\ cluster = Nothing
  /\ clients = {}
  /\ phase = [c \in Conns |-> "new"]
  /\ usable = {}
  /\ snapshot = [c \in Conns |-> Nothing]
  /\ push = [p \in Pushers |-> NoPush]
  /\ view = [c \in Conns |-> Nothing]
  /\ written = [c \in Conns |-> {}]

-----------------------------------------------------------------------------
(* Publishing.                                                              *)

NewMetrics(m) ==
  /\ version[m] < MaxVersion
  /\ version' = [version EXCEPT ![m] = @ + 1]
  /\ UNCHANGED <<cluster, clients, connVars, push, clientVars>>

(* A goroutine starts with the metrics it has built or decoded. *)
StartPush(p, m) ==
  /\ push[p] = NoPush
  /\ push' = [push EXCEPT ![p] =
       [source |-> m, version |-> version[m], step |-> "built", todo |-> {}]]
  /\ UNCHANGED <<version, cluster, clients, connVars, clientVars>>

At(p, step) == push[p] # NoPush /\ push[p].step = step

(* Faulty variant of StoreMetrics: metrics that have not changed are not      *)
(* pushed.                                                                  *)
StoreNews(p) ==
  /\ At(p, "built")
  /\ cluster' = [cluster EXCEPT ![push[p].source] = push[p].version]
  /\ push' = [push EXCEPT ![p].step =
       IF push[p].version = cluster[push[p].source] THEN "listed" ELSE "stored"]
  /\ UNCHANGED <<version, clients, connVars, clientVars>>

(* storeClusterMetrics. *)
StoreMetrics(p) ==
  /\ At(p, "built")
  /\ cluster' = [cluster EXCEPT ![push[p].source] = push[p].version]
  /\ push' = [push EXCEPT ![p].step = "stored"]
  /\ UNCHANGED <<version, clients, connVars, clientVars>>

(* broadcastToClients copies the list of clients under the lock. *)
ListClients(p) ==
  /\ At(p, "stored")
  /\ push' = [push EXCEPT ![p].step = "listed", ![p].todo = clients]
  /\ UNCHANGED <<version, cluster, clients, connVars, clientVars>>

(* The update is written; the dashboard replaces its entry for the node.     *)
WriteUpdate(p, c) ==
  /\ At(p, "listed")
  /\ c \in push[p].todo \cap usable
  /\ push' = [push EXCEPT ![p].todo = @ \ {c}]
  /\ view' = [view EXCEPT ![c][push[p].source] = push[p].version]
  /\ written' = [written EXCEPT ![c] = @ \cup {<<push[p].source, push[p].version>>}]
  /\ UNCHANGED <<version, cluster, clients, connVars>>

(* Faulty variant of Remove: the connection is closed and nothing else.      *)
RemoveNothing(c) == usable' = usable \ {c} /\ UNCHANGED clients

(* removeClient; a second removal of the same connection does nothing. *)
Remove(c) == clients' = clients \ {c} /\ usable' = usable \ {c}

(* A broken connection or the write timeout: the client is removed. *)
UpdateFails(p, c) ==
  /\ At(p, "listed")
  /\ c \in push[p].todo
  /\ push' = [push EXCEPT ![p].todo = @ \ {c}]
  /\ Remove(c)
  /\ UNCHANGED <<version, cluster, phase, snapshot, clientVars>>

EndPush(p) ==
  /\ At(p, "listed") /\ push[p].todo = {}
  /\ push' = [push EXCEPT ![p] = NoPush]
  /\ UNCHANGED <<version, cluster, clients, connVars, clientVars>>

-----------------------------------------------------------------------------
(* Clients.                                                                 *)

(* Faulty variant of AddClient: the connection counts as registered when    *)
(* the snapshot has been written.                                           *)
AddClientLate(c) ==
  \/ /\ phase[c] = "new"
     /\ phase' = [phase EXCEPT ![c] = "added"]
     /\ usable' = usable \cup {c}
     /\ UNCHANGED <<version, cluster, clients, snapshot, push, clientVars>>
  \/ /\ phase[c] = "reading" /\ c \in usable
     /\ clients' = clients \cup {c}
     /\ UNCHANGED <<version, cluster, connVars, push, clientVars>>

(* metricsWebSocketHandler upgrades the connection and registers it. *)
AddClient(c) ==
  /\ phase[c] = "new"
  /\ phase' = [phase EXCEPT ![c] = "added"]
  /\ usable' = usable \cup {c}
  /\ clients' = clients \cup {c}
  /\ UNCHANGED <<version, cluster, snapshot, push, clientVars>>

(* sendClusterSnapshot copies the metrics under their lock... *)
CopySnapshot(c) ==
  /\ phase[c] = "added"
  /\ phase' = [phase EXCEPT ![c] = "copied"]
  /\ snapshot' = [snapshot EXCEPT ![c] = cluster]
  /\ UNCHANGED <<version, cluster, clients, usable, push, clientVars>>

(* ... and writes them under the connection's lock; the dashboard replaces   *)
(* all it has.                                                              *)
WriteSnapshot(c) ==
  /\ phase[c] = "copied"
  /\ phase' = [phase EXCEPT ![c] = "reading"]
  /\ \/ /\ c \in usable \cap clients
        /\ view' = [view EXCEPT ![c] = snapshot[c]]
        /\ written' = [written EXCEPT ![c] = @ \cup {<<m, snapshot[c][m]>> : m \in Sources}]
     \/ c \notin usable \cap clients /\ UNCHANGED clientVars
  /\ UNCHANGED <<version, cluster, clients, usable, snapshot, push>>

(* The write fails on a live connection: the handler goes on to readPump.    *)
SnapshotFails(c) ==
  /\ phase[c] = "copied"
  /\ phase' = [phase EXCEPT ![c] = "reading"]
  /\ usable' = usable \ {c}
  /\ UNCHANGED <<version, cluster, clients, snapshot, push, clientVars>>

(* The browser goes away. *)
ClientCloses(c) ==
  /\ c \in usable
  /\ usable' = usable \ {c}
  /\ UNCHANGED <<version, cluster, clients, phase, snapshot, push, clientVars>>

(* ReadMessage fails, because the connection is gone or because nothing was  *)
(* read for sixty seconds, and readPump removes the client.                 *)
ReadEnds(c) ==
  /\ phase[c] = "reading"
  /\ phase' = [phase EXCEPT ![c] = "done"]
  /\ Remove(c)
  /\ UNCHANGED <<version, cluster, snapshot, push, clientVars>>

StreamNext ==
  \/ \E m \in Sources : NewMetrics(m)
  \/ \E p \in Pushers, m \in Sources : StartPush(p, m)
  \/ \E p \in Pushers : StoreMetrics(p) \/ ListClients(p) \/ EndPush(p)
  \/ \E p \in Pushers, c \in Conns : WriteUpdate(p, c) \/ UpdateFails(p, c)
  \/ \E c \in Conns :
       \/ AddClient(c) \/ CopySnapshot(c) \/ WriteSnapshot(c) \/ SnapshotFails(c)
       \/ ClientCloses(c) \/ ReadEnds(c)

(* A publication comes to its end because writes time out, and reads of a    *)
(* closed connection fail.                                                  *)
StreamFairness ==
  /\ \A p \in Pushers :
       /\ WF_streamVars(StoreMetrics(p)) /\ WF_streamVars(ListClients(p))
       /\ WF_streamVars(EndPush(p))
       /\ \A c \in Conns : WF_streamVars(WriteUpdate(p, c) \/ UpdateFails(p, c))
  /\ \A c \in Conns :
       /\ WF_streamVars(CopySnapshot(c)) /\ WF_streamVars(WriteSnapshot(c))
       /\ WF_streamVars(c \notin usable /\ ReadEnds(c))

StreamSpec == StreamInit /\ [][StreamNext]_streamVars

(* Every node's metrics are published again and again. *)
StreamFairSpec ==
  /\ StreamSpec /\ StreamFairness
  /\ \A m \in Sources : SF_streamVars(\E p \in Pushers : StartPush(p, m))

-----------------------------------------------------------------------------
(* A goroutine is about to write the present metrics of m to c. *)
Coming(c, m) ==
  \E p \in Pushers :
    /\ At(p, "stored") \/ (At(p, "listed") /\ c \in push[p].todo)
    /\ push[p].source = m /\ push[p].version = cluster[m]

(* A client that joins while updates are under way falls into no gap: once    *)
(* its snapshot is written, the metrics the daemon holds for any node were    *)
(* written to it, as part of the snapshot or as an update, or are about to    *)
(* be (the handler registers the client before it copies the snapshot, and    *)
(* a publisher stores before it lists the clients).                         *)
NothingMissed ==
  \A c \in clients \cap usable : \A m \in Sources :
    phase[c] = "reading" => (<<m, cluster[m]>> \in written[c] \/ Coming(c, m))

(* A client that stays sees, in the end, what the daemon holds, although a    *)
(* snapshot or a slower publisher may have written older metrics last.       *)
ClientsConverge ==
  \A c \in Conns :
    <>[](c \in clients \cap usable) => <>[](view[c] = cluster)

(* A connection that is closed, by the browser, a failed snapshot or a        *)
(* failed write, does not stay registered: clients and clientWrites leak no   *)
(* entry (readPump, removeClient).                                          *)
ClosedConnsLeave == \A c \in Conns : [](c \notin usable => <>(c \notin clients))
=============================================================================

---------------------------- MODULE PeerTransport ----------------------------
(***************************************************************************)
(* How the daemons reach each other (pkg/comm/comm.go): the peers a daemon   *)
(* knows, and sendData, which sends one HTTP request per target from a       *)
(* goroutine of its own and waits for all of them.                          *)
(*                                                                          *)
(* A request that times out after three seconds counts as failed, although   *)
(* the other side may still process it.  The address of a daemon stands for  *)
(* the daemon; an address in Outside belongs to no daemon.                   *)
(***************************************************************************)
EXTENDS Integers, FiniteSets

CONSTANTS
  Nodes,        \* the daemons
  Outside,      \* addresses nobody listens at
  FilePeers,    \* what loadPeersFromFileOrEnv yields while Kubernetes fails
  Payloads,     \* what messages carry
  Slots,        \* sends that may be under way at a time
  MaxRestarts,  \* bound on daemon restarts
  NoSend        \* the slot is free

Addresses == Nodes \cup Outside
Modes == {"UNICAST", "MULTICAST", "BROADCAST"}

(* A call of sendData.  reached is no variable of the code: it remembers    *)
(* who received one of its requests.                                        *)
Sending == [from : Nodes, mode : Modes, payload : Payloads,
            attempted : SUBSET Addresses, waiting : SUBSET Addresses,
            delivered : SUBSET Addresses, failed : SUBSET Addresses,
            reached : SUBSET Addresses]

(* A request, from the moment it is sent until its reply is read.  Nobody   *)
(* waits for the reply of one that has timed out.                           *)
Request == [slot : Slots, from : Nodes, to : Nodes, mode : Modes, payload : Payloads,
            phase : {"sent", "counted", "answered"}, awaited : BOOLEAN]

ASSUME TransportAssumption ==
  /\ IsFiniteSet(Nodes) /\ IsFiniteSet(Slots)
  /\ Nodes \cap Outside = {}
  /\ FilePeers \subseteq Addresses
  /\ MaxRestarts \in Nat
  /\ NoSend \notin Sending

VARIABLES
  peers,        \* per daemon: allNodeIPs
  named,        \* per daemon: the names nodeMap can resolve
  send,         \* per slot: the call of sendData that runs in it
  wire,         \* the requests under way
  restarts      \* daemon restarts so far

peerVars == <<peers, named>>
sendVars == <<send, wire>>
transportVars == <<peers, named, send, wire, restarts>>

(* discoverPeersFromK8s lists the nodes with their names; without an answer  *)
(* the peers come from the file, and no name can be resolved.               *)
View(list, names) == [peers |-> list, named |-> names]
Views == {View(Nodes, Nodes), View(FilePeers, {})}

TransportInit ==
  /\ \E view \in [Nodes -> Views] :
       /\ peers = [n \in Nodes |-> view[n].peers]
       /\ named = [n \in Nodes |-> view[n].named]
  /\ send = [s \in Slots |-> NoSend]
  /\ wire = {}
  /\ restarts = 0

SetPeers(n, view) ==
  /\ peers' = [peers EXCEPT ![n] = view.peers]
  /\ named' = [named EXCEPT ![n] = view.named]

(* A tick of refreshPeers. *)
Refresh(n, view) ==
  /\ SetPeers(n, view)
  /\ UNCHANGED <<sendVars, restarts>>

-----------------------------------------------------------------------------
(* sendData takes the targets, skips the sender's own address, and starts a  *)
(* goroutine for each of the others.                                        *)
Begin(s, n, mode, payload, targets) ==
  LET others == targets \ {n} IN
  /\ send[s] = NoSend
  /\ send' = [send EXCEPT ![s] =
       [from |-> n, mode |-> mode, payload |-> payload, attempted |-> targets,
        waiting |-> others, delivered |-> {}, failed |-> {}, reached |-> {}]]
  /\ wire' = wire \cup
       [slot : {s}, from : {n}, to : others \cap Nodes, mode : {mode}, payload : {payload},
        phase : {"sent"}, awaited : {TRUE}]
  /\ UNCHANGED <<peerVars, restarts>>

(* listPeerIPs(true): a broadcast never attempts the sender itself.         *)
BroadcastTargets(n) == peers[n] \ {n}

(* The handler at the other end starts on the request. *)
Arrive(m) ==
  /\ m \in wire /\ m.phase = "sent"
  /\ wire' = (wire \ {m}) \cup {[m EXCEPT !.phase = "counted"]}
  /\ UNCHANGED <<peerVars, send, restarts>>

(* The handler is done and answers OK. *)
Answer(m) ==
  /\ m \in wire /\ m.phase = "counted"
  /\ wire' = (wire \ {m}) \cup (IF m.awaited THEN {[m EXCEPT !.phase = "answered"]} ELSE {})
  /\ send' = IF m.awaited THEN [send EXCEPT ![m.slot].reached = @ \cup {m.to}] ELSE send
  /\ UNCHANGED <<peerVars, restarts>>

ReplyArrives(m) ==
  /\ m \in wire /\ m.phase = "answered"
  /\ wire' = wire \ {m}
  /\ send' = [send EXCEPT ![m.slot].delivered = @ \cup {m.to}, ![m.slot].waiting = @ \ {m.to}]
  /\ UNCHANGED <<peerVars, restarts>>

Awaited(s, a) == {m \in wire : m.awaited /\ m.slot = s /\ m.to = a}
Orphan(m) == [m EXCEPT !.awaited = FALSE]

(* What is left of a request nobody waits for any more: one that is still   *)
(* under way may be lost or not, and a handler that has started goes on.    *)
Orphans(s, a, phases) == {Orphan(m) : m \in {x \in Awaited(s, a) : x.phase \in phases}}
Abandoned(s, a) ==
  {(wire \ Awaited(s, a)) \cup Orphans(s, a, phases) : phases \in {{"counted"}, {"sent", "counted"}}}

(* Faulty variants of SendFails: the error is dropped, and a dead address    *)
(* is waited for without a timeout.                                         *)
SendFailsUnseen(s, a) ==
  /\ send[s] # NoSend
  /\ a \in send[s].waiting
  /\ send' = [send EXCEPT ![s].delivered = @ \cup {a}, ![s].waiting = @ \ {a}]
  /\ wire' \in Abandoned(s, a)
  /\ UNCHANGED <<peerVars, restarts>>
SendFailsListening(s, a) ==
  /\ send[s] # NoSend
  /\ a \in send[s].waiting \cap Nodes
  /\ send' = [send EXCEPT ![s].failed = @ \cup {a}, ![s].waiting = @ \ {a}]
  /\ wire' \in Abandoned(s, a)
  /\ UNCHANGED <<peerVars, restarts>>

(* A connection error or the timeout: the request, if there still is one,    *)
(* is lost or is processed with nobody waiting.                             *)
SendFails(s, a) ==
  /\ send[s] # NoSend
  /\ a \in send[s].waiting
  /\ send' = [send EXCEPT ![s].failed = @ \cup {a}, ![s].waiting = @ \ {a}]
  /\ wire' \in Abandoned(s, a)
  /\ UNCHANGED <<peerVars, restarts>>

(* wg.Wait returns and sendData is done. *)
End(s) ==
  /\ send[s] # NoSend
  /\ send[s].waiting = {}
  /\ send' = [send EXCEPT ![s] = NoSend]
  /\ UNCHANGED <<peerVars, wire, restarts>>

(* Faulty variant of Result: no value to start from. *)
ResultUnset(call) ==
  CASE call.attempted = {} -> IF call.mode = "BROADCAST" THEN "no_peers" ELSE "no_targets"
    [] call.failed # {} /\ call.delivered = {} -> "failed"
    [] call.failed # {} /\ call.delivered # {} -> "partial"
    [] OTHER -> ""

(* The result sendData reports. *)
Result(call) ==
  CASE call.attempted = {} -> IF call.mode = "BROADCAST" THEN "no_peers" ELSE "no_targets"
    [] call.failed # {} /\ call.delivered = {} -> "failed"
    [] call.failed # {} /\ call.delivered # {} -> "partial"
    [] OTHER -> "delivered"

(* The daemon's process is killed and starts again: its sends, and the      *)
(* requests it was handling, are gone; those it had sent may still arrive.  *)
Restart(n, view) ==
  /\ restarts < MaxRestarts
  /\ restarts' = restarts + 1
  /\ SetPeers(n, view)
  /\ send' = [s \in Slots |-> IF send[s] # NoSend /\ send[s].from = n THEN NoSend ELSE send[s]]
  /\ wire' = {IF m.from = n THEN Orphan(m) ELSE m :
                m \in {x \in wire : /\ x.to = n => x.phase # "counted"
                                    /\ x.from = n => x.phase # "answered"}}

TransportTypeOK ==
  /\ peers \in [Nodes -> SUBSET Addresses]
  /\ named \in [Nodes -> SUBSET Nodes]
  /\ send \in [Slots -> Sending \cup {NoSend}]
  /\ wire \subseteq Request
  /\ restarts \in Nat
=============================================================================

----------------------------- MODULE WebSocketHub -----------------------------
(***************************************************************************)
(* The hub behind the /ws endpoints (pkg/api/websocket.go).  One goroutine,   *)
(* Run, owns the set of clients; every client has a channel for outgoing      *)
(* messages, a read pump and a write pump.  Run registers and unregisters     *)
(* clients over unbuffered channels, so the other side waits for it, and it   *)
(* evicts a client whose channel is full by closing the channel.  Closing a   *)
(* channel twice, or sending on a closed one, would end the daemon.           *)
(***************************************************************************)
EXTENDS Integers, Sequences, FiniteSets

CONSTANTS
  Clients,      \* connections; each is used once
  SendCap,      \* capacity of a client's channel (256)
  BroadcastCap, \* capacity of the broadcast channel (256)
  MaxMessages   \* bound on the messages broadcast

ASSUME HubAssumption ==
  /\ SendCap \in Nat \ {0} /\ BroadcastCap \in Nat \ {0}
  /\ MaxMessages \in Nat

VARIABLES
  hub,          \* h.clients
  broadcast,    \* h.broadcast; messages are numbered
  messages,     \* messages broadcast so far
  taken,        \* the last message Run has taken from h.broadcast
  send,         \* per client: what client.send holds
  closes,       \* per client: how often client.send was closed
  connected,    \* the connections neither side has closed
  handler,      \* per client: the HTTP handler
  reader,       \* per client: readPump
  writer,       \* per client: writePump
  got           \* per client: the messages written to its connection

hubVars == <<hub, broadcast, messages, taken>>
pumpVars == <<handler, reader, writer>>
hubStateVars == <<hubVars, send, closes, connected, pumpVars, got>>

HubInit ==
  /\ hub = {} /\ broadcast = <<>> /\ messages = 0 /\ taken = 0
  /\ send = [c \in Clients |-> <<>>]
  /\ closes = [c \in Clients |-> 0]
  /\ connected = {}
  /\ handler = [c \in Clients |-> "new"]
  /\ reader = [c \in Clients |-> "none"]
  /\ writer = [c \in Clients |-> "none"]
  /\ got = [c \in Clients |-> <<>>]

-----------------------------------------------------------------------------
(* BroadcastMessage waits while the channel is full.  The broadcaster skips  *)
(* a tick on which it sees no client.                                       *)
BroadcastMessage ==
  /\ messages < MaxMessages
  /\ Len(broadcast) < BroadcastCap
  /\ messages' = messages + 1
  /\ broadcast' = Append(broadcast, messages + 1)
  /\ UNCHANGED <<hub, taken, send, closes, connected, pumpVars, got>>

(* The handler upgrades the connection and waits for Run to register it. *)
Connect(c) ==
  /\ handler[c] = "new"
  /\ handler' = [handler EXCEPT ![c] = "registering"]
  /\ connected' = connected \cup {c}
  /\ UNCHANGED <<hubVars, send, closes, reader, writer, got>>

HubRegisters(c) ==
  /\ handler[c] = "registering"
  /\ handler' = [handler EXCEPT ![c] = "registered"]
  /\ hub' = hub \cup {c}
  /\ UNCHANGED <<broadcast, messages, taken, send, closes, connected, reader, writer, got>>

StartPumps(c) ==
  /\ handler[c] = "registered"
  /\ handler' = [handler EXCEPT ![c] = "done"]
  /\ reader' = [reader EXCEPT ![c] = "reading"]
  /\ writer' = [writer EXCEPT ![c] = "running"]
  /\ UNCHANGED <<hubVars, send, closes, connected, got>>

(* Faulty variant of HubUnregisters: the channel is closed in any case. *)
HubUnregistersAny(c) ==
  /\ reader[c] = "leaving"
  /\ reader' = [reader EXCEPT ![c] = "done"]
  /\ hub' = hub \ {c}
  /\ closes' = [closes EXCEPT ![c] = @ + 1]
  /\ connected' = connected \ {c}
  /\ UNCHANGED <<broadcast, messages, taken, send, handler, writer, got>>

(* Run takes the client the read pump hands over; the pump then closes the   *)
(* connection.                                                              *)
HubUnregisters(c) ==
  /\ reader[c] = "leaving"
  /\ reader' = [reader EXCEPT ![c] = "done"]
  /\ hub' = hub \ {c}
  /\ closes' = IF c \in hub THEN [closes EXCEPT ![c] = @ + 1] ELSE closes
  /\ connected' = connected \ {c}
  /\ UNCHANGED <<broadcast, messages, taken, send, handler, writer, got>>

Full == {c \in hub : Len(send[c]) >= SendCap}

(* Faulty variant of HubBroadcasts: a client without room misses a message.  *)
HubBroadcastsDrop ==
  /\ broadcast # <<>>
  /\ broadcast' = Tail(broadcast)
  /\ taken' = Head(broadcast)
  /\ send' = [c \in Clients |-> IF c \in hub \ Full THEN Append(send[c], Head(broadcast)) ELSE send[c]]
  /\ UNCHANGED <<hub, messages, closes, connected, pumpVars, got>>

(* Run sends a message to every client that has room and evicts the others. *)
HubBroadcasts ==
  /\ broadcast # <<>>
  /\ broadcast' = Tail(broadcast)
  /\ taken' = Head(broadcast)
  /\ send' = [c \in Clients |-> IF c \in hub \ Full THEN Append(send[c], Head(broadcast)) ELSE send[c]]
  /\ closes' = [c \in Clients |-> IF c \in Full THEN closes[c] + 1 ELSE closes[c]]
  /\ hub' = hub \ Full
  /\ UNCHANGED <<messages, connected, pumpVars, got>>

-----------------------------------------------------------------------------
(* The write pump; it closes the connection when it returns.                *)

WriterEnds(c) ==
  /\ writer[c] = "running"
  /\ writer' = [writer EXCEPT ![c] = "done"]
  /\ connected' = connected \ {c}

WriteMessage(c) ==
  /\ writer[c] = "running"
  /\ send[c] # <<>>
  /\ c \in connected
  /\ send' = [send EXCEPT ![c] = Tail(@)]
  /\ got' = [got EXCEPT ![c] = Append(@, Head(send[c]))]
  /\ UNCHANGED <<hubVars, closes, connected, pumpVars>>

(* A message or a ping cannot be written: the connection is closed, or the   *)
(* browser has not read for ten seconds.                                    *)
WriteFails(c) ==
  /\ WriterEnds(c)
  /\ send' \in {send, IF send[c] = <<>> THEN send ELSE [send EXCEPT ![c] = Tail(@)]}
  /\ UNCHANGED <<hubVars, closes, handler, reader, got>>

(* Faulty variant of WriterStops: the pump leaves the connection open. *)
WriterStopsOnly(c) ==
  /\ writer[c] = "running"
  /\ writer' = [writer EXCEPT ![c] = "done"]
  /\ send[c] = <<>> /\ closes[c] > 0
  /\ UNCHANGED <<hubVars, send, closes, connected, handler, reader, got>>

(* The channel is closed and empty. *)
WriterStops(c) ==
  /\ WriterEnds(c)
  /\ send[c] = <<>> /\ closes[c] > 0
  /\ UNCHANGED <<hubVars, send, closes, handler, reader, got>>

(* Faulty variant of ReadFails: the pump returns and tells nobody. *)
ReadFailsQuietly(c) ==
  /\ reader[c] = "reading"
  /\ reader' = [reader EXCEPT ![c] = "done"]
  /\ connected' = connected \ {c}
  /\ UNCHANGED <<hubVars, send, closes, handler, writer, got>>

(* The read pump: the connection is closed, or no pong came for a minute.   *)
ReadFails(c) ==
  /\ reader[c] = "reading"
  /\ reader' = [reader EXCEPT ![c] = "leaving"]
  /\ UNCHANGED <<hubVars, send, closes, connected, handler, writer, got>>

BrowserCloses(c) ==
  /\ c \in connected
  /\ connected' = connected \ {c}
  /\ UNCHANGED <<hubVars, send, closes, pumpVars, got>>

HubNext ==
  \/ BroadcastMessage \/ HubBroadcasts
  \/ \E c \in Clients :
       \/ Connect(c) \/ HubRegisters(c) \/ StartPumps(c) \/ HubUnregisters(c)
       \/ WriteMessage(c) \/ WriteFails(c) \/ WriterStops(c)
       \/ ReadFails(c) \/ BrowserCloses(c)

(* Run's select is fair to its channels; a closed connection is noticed by   *)
(* the next read and by the next message or ping.                           *)
HubFairness ==
  /\ WF_hubStateVars(HubBroadcasts)
  /\ \A c \in Clients :
       /\ WF_hubStateVars(HubRegisters(c)) /\ WF_hubStateVars(StartPumps(c))
       /\ WF_hubStateVars(HubUnregisters(c))
       /\ WF_hubStateVars(WriteMessage(c)) /\ WF_hubStateVars(WriterStops(c))
       /\ WF_hubStateVars(c \notin connected /\ WriteFails(c))
       /\ WF_hubStateVars(c \notin connected /\ ReadFails(c))

HubSpec == HubInit /\ [][HubNext]_hubStateVars
HubFairSpec == HubSpec /\ HubFairness

-----------------------------------------------------------------------------
(* However eviction, disconnection and the two pumps interleave, no channel  *)
(* is closed twice and Run never sends on a closed one: either would be a     *)
(* panic that ends the daemon (Run, readPump).                              *)
NoPanic ==
  \A c \in Clients : closes[c] <= 1 /\ (c \in hub => closes[c] = 0)

(* What a client receives has no gaps: the messages written to it and those   *)
(* in its channel follow each other without a hole, and a client the hub      *)
(* still has is up to date; one that is too slow is cut off, it never misses   *)
(* a message and goes on (Run).                                             *)
Received(c) == got[c] \o send[c]
NoGaps ==
  \A c \in Clients :
    reader[c] \in {"none", "reading"} /\ writer[c] \in {"none", "running"} =>
      /\ \A i \in 1 .. Len(Received(c)) - 1 : Received(c)[i + 1] = Received(c)[i] + 1
      /\ (c \in hub /\ Received(c) # <<>>) => Received(c)[Len(Received(c))] = taken

(* A connection that closes, on either side, leaves nothing behind: the hub   *)
(* forgets the client and both pumps return (readPump, writePump).           *)
ClientsLeave ==
  \A c \in Clients :
    (handler[c] # "new" /\ c \notin connected)
      ~> (c \notin hub /\ reader[c] = "done" /\ writer[c] = "done")

(* A client that is evicted is disconnected: Run only closes its channel, and *)
(* the pumps must notice.                                                   *)
EvictedAreClosed == \A c \in Clients : (closes[c] > 0) ~> (c \notin connected)
=============================================================================

------------------------------ MODULE RttProbes ------------------------------
(***************************************************************************)
(* Connection latency (ebpf/component-1-daemon/rtt.c): a probe on            *)
(* tcp_v4_connect notes the time and the socket's address under a key made   *)
(* of both ends and the process, one on tcp_finish_connect looks for the     *)
(* note and reports how long the connect took.                              *)
(*                                                                          *)
(* Two connections may have the same key (module RttKey makes it), and what  *)
(* the kernel has filled in of the ends when the connect begins is up to it.  *)
(* The answer may find any process running.  A connect is known by its       *)
(* number, which stands for its time stamp.                                 *)
(***************************************************************************)
EXTENDS BpfMap, Sequences

CONSTANTS
  Socks,        \* addresses of struct sock
  Sources,      \* pairs of the source's address and port
  Targets,      \* pairs of the target's address and port
  Processes,    \* process ids
  ConnKey(_, _, _), \* the key of a source, a target and a process
  ConnectCap,   \* max_entries of tcp_connect_start
  MaxConnects   \* bound on the connects of a behaviour

ASSUME RttAssumption == ConnectCap \in Nat /\ MaxConnects \in Nat

VARIABLES
  connects,     \* the sockets that connected, in order; not in the code
  sock,         \* per socket: free, connecting or done
  peer,         \* per socket: its source and its target, once it connects
  tcp_connect_start, \* struct connect_info by key
  rtt_events    \* the events so far, oldest first

rttVars == <<connects, sock, peer, tcp_connect_start, rtt_events>>

(* struct connect_info, and what an event says: the connect that was taken   *)
(* for the start and the socket that finished.                              *)
ConnectInfo == [connect : 1 .. MaxConnects, socket : Socks]

Nowhere == <<0, 0>>

RttInit ==
  /\ connects = <<>>
  /\ sock = [s \in Socks |-> "free"]
  /\ peer = [s \in Socks |-> <<Nowhere, Nowhere>>]
  /\ tcp_connect_start = EmptyMap
  /\ rtt_events = <<>>

-----------------------------------------------------------------------------
(* tcp_v4_connect_probe: either end may still be unset.  A socket that has   *)
(* connected in vain may try again.                                         *)
ConnectStart(s, pid, src, dst) ==
  /\ Len(connects) < MaxConnects
  /\ sock[s] # "done"
  /\ connects' = Append(connects, s)
  /\ sock' = [sock EXCEPT ![s] = "connecting"]
  /\ peer' = [peer EXCEPT ![s] = <<src, dst>>]
  /\ \E a \in {src, <<src[1], 0>>, Nowhere}, b \in {dst, <<dst[1], 0>>, Nowhere} :
       tcp_connect_start' = Update(tcp_connect_start, ConnectCap, ConnKey(a, b, pid),
                                   [connect |-> Len(connects) + 1, socket |-> s])
  /\ UNCHANGED rtt_events

(* Where tcp_finish_connect_probe finds the note: under the full key, or     *)
(* under the one without the source, from which it is then moved.           *)
Moved(full, bare) ==
  IF full \in DOMAIN tcp_connect_start \/ bare \notin DOMAIN tcp_connect_start
  THEN tcp_connect_start
  ELSE Update(Delete(tcp_connect_start, bare), ConnectCap, full, tcp_connect_start[bare])

(* Faulty variant of Same: any socket's note will do. *)
SameAny(info, s) == TRUE

(* The note was made by the socket that finishes. *)
Same(info, s) == info.socket = s

Report(info, s) == rtt_events' = Append(rtt_events, [connect |-> info.connect, socket |-> s])

(* Faulty variant of Measure: the note stays. *)
MeasureKeeps(map, full, s) == tcp_connect_start' = map /\ Report(map[full], s)

(* A note in time is reported and removed; one that is too old or too young  *)
(* is removed; without room in the ring it stays.                           *)
Measure(map, full, s) ==
  \/ tcp_connect_start' = Delete(map, full) /\ Report(map[full], s)
  \/ tcp_connect_start' = Delete(map, full) /\ UNCHANGED rtt_events
  \/ tcp_connect_start' = map /\ UNCHANGED rtt_events

(* tcp_finish_connect_probe, in whatever process the answer finds. *)
FinishConnect(s, pid) ==
  LET full == ConnKey(peer[s][1], peer[s][2], pid)
      bare == ConnKey(Nowhere, peer[s][2], pid)
      map == IF peer[s][1][1] # 0 THEN Moved(full, bare) ELSE tcp_connect_start
  IN /\ sock[s] = "connecting"
     /\ sock' = [sock EXCEPT ![s] = "done"]
     /\ IF full \notin DOMAIN map THEN UNCHANGED <<tcp_connect_start, rtt_events>>
        ELSE IF Same(map[full], s) THEN Measure(map, full, s)
        ELSE tcp_connect_start' = Delete(map, full) /\ UNCHANGED rtt_events
     /\ UNCHANGED <<connects, peer>>

(* The socket is freed, whether its connect came to anything or not, and its *)
(* address may be used again.                                               *)
FreeSock(s) ==
  /\ sock[s] # "free"
  /\ sock' = [sock EXCEPT ![s] = "free"]
  /\ UNCHANGED <<connects, peer, tcp_connect_start, rtt_events>>

RttNext ==
  \/ \E s \in Socks, pid \in Processes, src \in Sources, dst \in Targets :
       ConnectStart(s, pid, src, dst)
  \/ \E s \in Socks, pid \in Processes : FinishConnect(s, pid)
  \/ \E s \in Socks : FreeSock(s)

RttSpec == RttInit /\ [][RttNext]_rttVars

-----------------------------------------------------------------------------
RttTypeOK ==
  /\ connects \in Seq(Socks) /\ Len(connects) <= MaxConnects
  /\ sock \in [Socks -> {"free", "connecting", "done"}]
  /\ peer \in [Socks -> (Sources \X Targets) \cup {<<Nowhere, Nowhere>>}]
  /\ IsFiniteSet(DOMAIN tcp_connect_start)
  /\ tcp_connect_start \in [DOMAIN tcp_connect_start -> ConnectInfo]
  /\ Cardinality(DOMAIN tcp_connect_start) <= ConnectCap
  /\ rtt_events \in Seq(ConnectInfo)

(* Keys that collide, notes that are overwritten or moved to another key,    *)
(* sockets whose address is used again: a report is about a connect of the   *)
(* socket's own address, and no connect is reported twice ("Verify this is   *)
(* the same socket (prevent reuse collisions)").                            *)
ConnectsMeasuredOnce ==
  /\ \A i \in DOMAIN rtt_events : connects[rtt_events[i].connect] = rtt_events[i].socket
  /\ \A i, j \in DOMAIN rtt_events :
       rtt_events[i].connect = rtt_events[j].connect => i = j
=============================================================================

------------------------------ MODULE TcpProbes ------------------------------
(***************************************************************************)
(* TCP metrics (ebpf/component-1-daemon/tcp_metrics.c): eight kprobes keep a *)
(* record per socket, keyed by the socket's address, which the kernel gives  *)
(* to another socket once the first is freed.  The loader attaches each      *)
(* probe by itself and goes on without those that fail                      *)
(* (pkg/loader/tcp_metrics_loader.go).                                       *)
(*                                                                          *)
(* A handler is one step.  That tcp_close, which is traced before the socket *)
(* is locked, may overtake one on another CPU is part of Close.  The map is  *)
(* shared with the node's other sockets, so a new key may or may not fit.    *)
(* The events are copies of a record and are not kept; neither are the       *)
(* congestion window and the time of the last update, and with them the      *)
(* handlers that change nothing else.                                       *)
(***************************************************************************)
EXTENDS BpfMap

CONSTANTS
  Sockets,      \* addresses of sockets
  Loads,        \* the sets of probes that may come up
  Rtts,         \* values of srtt_us, mrtt_us and rcv_rtt_est.rtt_us
  RttLimit,     \* 60 seconds
  MaxRetrans    \* bound on the retransmissions of a connection, and half of
                \* that on those an entry adds up over several connections

ASSUME TcpAssumption ==
  /\ Rtts \subseteq Nat /\ RttLimit \in Nat /\ MaxRetrans \in Nat

VARIABLES
  attached,     \* tcpMetricsLinks, by kernel function
  state,        \* per socket: its state in the kernel
  orphan,       \* the sockets their owner has closed
  opened,       \* the sockets that came into being by tcp_v4_connect
  retransmitted, \* per socket: segments retransmitted; not in the code
  sampled,      \* per socket: the RTTs the kernel measured; not in the code
  connections   \* tcp_connections

socketVars == <<state, orphan, opened, retransmitted, sampled>>
tcpVars == <<attached, socketVars, connections>>

Probes == {"set_state", "retransmit", "rtt_estimator", "connect", "close"}

ASSUME LoadsAssumption == Loads \subseteq SUBSET Probes

(* FIN_WAIT stands for all states after a close in good order. *)
States == {"FREE", "NEW", "SYN_SENT", "ESTABLISHED", "CLOSE_WAIT", "FIN_WAIT", "CLOSE"}

(* struct tcp_conn_info without what identifies the connection.  Its state is  *)
(* one a handler was called with.                                           *)
ConnInfo == [state : States \ {"FREE", "NEW"}, srtt : Nat, min_rtt : Nat, retrans : Nat]

TcpInit ==
  /\ attached \in Loads
  /\ state = [s \in Sockets |-> "FREE"]
  /\ orphan = {}
  /\ opened = {}
  /\ retransmitted = [s \in Sockets |-> 0]
  /\ sampled = [s \in Sockets |-> {}]
  /\ connections = EmptyMap

-----------------------------------------------------------------------------
(* What the handlers do.                                                    *)

Known(s) == s \in DOMAIN connections

Fresh(st, rtt) == [state |-> st, srtt |-> rtt, min_rtt |-> rtt, retrans |-> 0]

(* bpf_map_update_elem for a socket: always if it is known, if it fits else. *)
Record(s, info) ==
  \/ connections' = Put(connections, s, info)
  \/ ~Known(s) /\ UNCHANGED connections

Idle == UNCHANGED connections

(* tcp_set_state_probe. *)
SetStateProbe(s, st) ==
  Record(s, IF Known(s) THEN [connections[s] EXCEPT !.state = st] ELSE Fresh(st, 0))

(* tcp_retransmit_skb_probe. *)
RetransmitProbe(s) ==
  IF Known(s) THEN Record(s, [connections[s] EXCEPT !.retrans = @ + 1]) ELSE Idle

Valid(rtt) == 0 < rtt /\ rtt < RttLimit

(* A field that is 0 or too large is replaced by the sample; one that equals *)
(* the limit is neither replaced nor valid.                                 *)
OrSample(field, mrtt) == IF field = 0 \/ field > RttLimit THEN mrtt ELSE field

(* The entry after a sample. *)
Updated(info, srtt, min) ==
  [info EXCEPT !.srtt = IF Valid(srtt) THEN srtt ELSE @,
               !.min_rtt = IF Valid(min) /\ (min < @ \/ @ = 0) THEN min ELSE @]

(* tcp_rtt_estimator_probe: an unknown socket is entered as established with *)
(* the sample, whatever it is.                                              *)
RttProbe(s, mrtt, srtt, min) ==
  Record(s, Updated(IF Known(s) THEN connections[s] ELSE Fresh("ESTABLISHED", mrtt),
                    OrSample(srtt, mrtt), OrSample(min, mrtt)))

(* Faulty variant of ConnectProbe: an entry that is there is kept. *)
ConnectProbeKeeps(s) ==
  IF Known(s) THEN Idle ELSE Record(s, Fresh("SYN_SENT", 0))

(* tcp_v4_connect_start_probe. *)
ConnectProbe(s) == Record(s, Fresh("SYN_SENT", 0))

(* tcp_close_probe. *)
CloseProbe(s) == connections' = Delete(connections, s)

-----------------------------------------------------------------------------
(* The kernel: the functions that are traced, in the life of a socket.       *)

Runs(probe, handler) == IF probe \in attached THEN handler ELSE Idle

Forget(s) ==
  /\ retransmitted' = [retransmitted EXCEPT ![s] = 0]
  /\ sampled' = [sampled EXCEPT ![s] = {}]

(* tcp_v4_connect, on a new socket or again after a failure.  A connect that *)
(* finds no route leaves the socket NEW and makes no change of state.       *)
Connect(s) ==
  /\ state[s] \in {"FREE", "NEW", "CLOSE"} /\ s \notin orphan
  /\ state' = [state EXCEPT ![s] = "NEW"]
  /\ opened' = opened \cup {s}
  /\ Forget(s)
  /\ Runs("connect", ConnectProbe(s))
  /\ UNCHANGED <<attached, orphan>>

(* tcp_set_state: a connect goes on or fails, a child of a listening socket  *)
(* is established, a connection ends in good order or by a reset.           *)
AnyMoves == {<<st, "CLOSE">> : st \in States \ {"FREE", "NEW", "CLOSE"}}
OwnedMoves == {<<"NEW", "SYN_SENT">>, <<"FREE", "ESTABLISHED">>,
               <<"SYN_SENT", "ESTABLISHED">>, <<"ESTABLISHED", "CLOSE_WAIT">>}
OrphanMoves == {<<"ESTABLISHED", "FIN_WAIT">>, <<"CLOSE_WAIT", "FIN_WAIT">>}

SetState(s, st) ==
  /\ <<state[s], st>> \in AnyMoves \cup (IF s \in orphan THEN OrphanMoves ELSE OwnedMoves)
  /\ state' = [state EXCEPT ![s] = st]
  /\ Runs("set_state", SetStateProbe(s, st))
  /\ UNCHANGED <<attached, orphan, opened, retransmitted, sampled>>

Live(s) == state[s] \notin {"FREE", "NEW", "CLOSE"}

(* tcp_retransmit_skb. *)
Retransmit(s) ==
  /\ Live(s)
  /\ retransmitted[s] < MaxRetrans
  /\ Known(s) => connections[s].retrans < 2 * MaxRetrans
  /\ retransmitted' = [retransmitted EXCEPT ![s] = @ + 1]
  /\ Runs("retransmit", RetransmitProbe(s))
  /\ UNCHANGED <<attached, state, orphan, opened, sampled>>

(* tcp_rtt_estimator. *)
EstimateRtt(s, mrtt, srtt, min) ==
  /\ Live(s)
  /\ sampled' = [sampled EXCEPT ![s] = @ \cup {mrtt, srtt, min}]
  /\ Runs("rtt_estimator", RttProbe(s, mrtt, srtt, min))
  /\ UNCHANGED <<attached, state, orphan, opened, retransmitted>>

(* tcp_close.  A handler on another CPU that has looked the entry up writes  *)
(* it back after it was deleted: the deletion is then lost.                 *)
Close(s) ==
  /\ state[s] # "FREE" /\ s \notin orphan
  /\ orphan' = orphan \cup {s}
  /\ \/ Runs("close", CloseProbe(s))
     \/ Live(s) /\ Idle
  /\ UNCHANGED <<attached, state, opened, retransmitted, sampled>>

(* The socket is freed and its address may be used again. *)
Free(s) ==
  /\ s \in orphan /\ state[s] \in {"NEW", "CLOSE"}
  /\ state' = [state EXCEPT ![s] = "FREE"]
  /\ orphan' = orphan \ {s}
  /\ opened' = opened \ {s}
  /\ Forget(s)
  /\ Idle
  /\ UNCHANGED attached

TcpNext == \E s \in Sockets :
  \/ Connect(s) \/ Retransmit(s) \/ Close(s) \/ Free(s)
  \/ \E st \in States : SetState(s, st)
  \/ \E mrtt, srtt, min \in Rtts : EstimateRtt(s, mrtt, srtt, min)

TcpSpec == TcpInit /\ [][TcpNext]_tcpVars

-----------------------------------------------------------------------------
TcpTypeOK ==
  /\ attached \subseteq Probes
  /\ state \in [Sockets -> States]
  /\ orphan \subseteq Sockets /\ opened \subseteq Sockets
  /\ retransmitted \in [Sockets -> Nat]
  /\ sampled \in [Sockets -> SUBSET Rtts]
  /\ DOMAIN connections \subseteq Sockets
  /\ connections \in [DOMAIN connections -> ConnInfo]

(* What is reported of a connection this node has opened was measured on it, *)
(* although its entry may be left over from an earlier socket at the same    *)
(* address, other probes may be missing and the map may be full.            *)
OwnNumbers ==
  "connect" \in attached =>
    \A s \in opened \cap DOMAIN connections :
      /\ connections[s].retrans <= retransmitted[s]
      /\ connections[s].srtt \in sampled[s] \cup {0}
      /\ connections[s].min_rtt \in sampled[s] \cup {0}

(* tcp_metrics.c says of tcp_close_probe "Clean up closed connections":      *)
(* with all probes attached nothing is left of a socket that is freed.      *)
ClosedAreForgotten ==
  attached = Probes => \A s \in DOMAIN connections : state[s] # "FREE"
=============================================================================

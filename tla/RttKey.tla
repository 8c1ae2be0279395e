-------------------------------- MODULE RttKey --------------------------------
(***************************************************************************)
(* The key of a connection (make_conn_key, ebpf/component-1-daemon/rtt.c),   *)
(* in words of any width.  It is apart from RttProbes, which holds for any    *)
(* key: this one is an exclusive or, so two connections may have the same.   *)
(***************************************************************************)
EXTENDS Naturals, Bitwise

CONSTANTS
  AddrBits,     \* width of an address, 32
  PortBits      \* width of a port, 16

ASSUME KeyAssumption == AddrBits \in Nat /\ PortBits \in Nat

(* make_conn_key, of the pairs of an address and a port at either end and of *)
(* the process id.  The addresses are ored in next to each other.           *)
MakeConnKey(src, dst, pid) ==
  ((src[1] * 2 ^ AddrBits + dst[1]) ^^ (src[2] * 2 ^ PortBits + dst[2])) ^^ pid
=============================================================================

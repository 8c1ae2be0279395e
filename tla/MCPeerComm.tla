------------------------------ MODULE MCPeerComm ------------------------------
(* Instances of PeerComm. *)
EXTENDS PeerComm

CONSTANTS n1, n2, nobody

Name(n) == [kind |-> "name", of |-> n]
Ip(a) == [kind |-> "ip", of |-> a]

MCPayloads == 1 .. MaxSends
MCFilePeers == {nobody}

(* An address and both names: all of them, one or nobody, by what is known. *)
MCRequested == {<<Ip(n1), Name(n1), Name(n2)>>}
=============================================================================

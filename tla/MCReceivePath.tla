--------------------------- MODULE MCReceivePath ---------------------------
(***************************************************************************)
(* The receive path with small batches, for TLC.                           *)
(***************************************************************************)
EXTENDS ReceivePath, TLC

CONSTANT b1, b2, b3, b4, b5

Datagrams(K) == [kind : K, id : {1, 2}]

\* what reaches a socket that is used for STUN as well
StunPackets == Datagrams({"handshake", "transport"}) \cup [kind : {"stun"}, id : {1}]

\* datagrams of every treatment: dropped, filtered out, handed to a queue, reported
AllPackets == [kind : {"short", "empty", "stun", "handshake"}, id : {1}] \cup Datagrams({"transport"})

Symmetry == Permutations(Buffer)
=============================================================================

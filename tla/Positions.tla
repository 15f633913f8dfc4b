----------------------------- MODULE Positions -----------------------------
(***************************************************************************)
(* The positions that a loop with a write index keeps, in order: the       *)
(* filter of receiveIP (conn/bind_std.go) and the deletion of items from   *)
(* the slice of a flow (tun/offload_linux.go).                             *)
(***************************************************************************)
EXTENDS Naturals, FiniteSets

\* a set of positions in increasing order: the n-th is the one with n members up to it
InOrder(S) == [w \in 1..Cardinality(S) |->
                 CHOOSE n \in S : Cardinality({m \in S : m <= n}) = w]
=============================================================================

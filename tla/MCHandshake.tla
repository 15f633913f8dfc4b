---------------------------- MODULE MCHandshake ----------------------------
(***************************************************************************)
(* Handshakes between two devices a and b, for TLC.  A thread is named     *)
(* after its device; the configurations choose which threads there are.   *)
(***************************************************************************)
EXTENDS Handshake, TLC

CONSTANTS a, b, wa, wa2, ta, wb, wb2, tb

MCDeviceOf == [t \in Thread |-> IF t \in {wa, wa2, ta} THEN a ELSE b]

\* one thread of each device runs everything that is not a handshake worker
EraseRoles ==
    [t \in Thread |-> CASE t \in {wa, wa2, wb, wb2} -> {"handshake"}
                        [] t = ta -> {"initiate", "send", "zero", "expire"}
                        [] t = tb -> {"receive", "zero"}]

\* both devices may initiate
CrossRoles ==
    [t \in Thread |-> CASE t \in {wa, wa2, wb, wb2} -> {"handshake"}
                        [] t \in {ta, tb} -> {"initiate", "receive"}]

Symmetry == Permutations(Index \ {Zero})
=============================================================================

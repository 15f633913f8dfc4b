----------------------------- MODULE MCSendPath -----------------------------
(***************************************************************************)
(* The send path of one peer with one goroutine of each kind, for TLC.     *)
(***************************************************************************)
EXTENDS SendPath, TLC

\* the elements of the pool are interchangeable
Symmetry == Permutations(Elem)
=============================================================================

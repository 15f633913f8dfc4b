------------------------------ MODULE MCEngine ------------------------------
(***************************************************************************)
(* The engine with one or two threads of the app, for TLC.                 *)
(***************************************************************************)
EXTENDS Engine
=============================================================================

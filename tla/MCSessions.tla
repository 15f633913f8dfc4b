----------------------------- MODULE MCSessions -----------------------------
(***************************************************************************)
(* The engine for TLC, in two scenes.  In "stop" two threads of the app    *)
(* open, stop and use one session, with one event of the environment or    *)
(* one failing request.  In "replace" one thread opens a second session    *)
(* while the first one runs.  Addresses are interchangeable, so the first  *)
(* one the STUN server sees is fixed.                                      *)
(***************************************************************************)
EXTENDS Engine

CONSTANTS c1,    \* the thread that replaces its session
          x      \* the address this device has at first

ASSUME SceneAssumption == c1 \in Caller /\ x \in Addr

VARIABLE scene

\* what the scene leaves out: calls and events, never a step the code must take
Within ==
    \/ scene = "stop" /\ opened <= 1 /\ events + fails <= 1
    \/ /\ scene = "replace" /\ events = 0 /\ fails = 0 /\ remote \in {NoAddr, x}
       /\ \A c \in Caller : caller[c].pc # "close" /\ (c # c1 => caller[c].pc = "idle")

SceneInit == Init /\ mapped = x /\ scene \in {"stop", "replace"} /\ Within

SceneNext == UNCHANGED scene /\ Next /\ Within'

SceneSpec == SceneInit /\ [][SceneNext]_<<vars, scene>> /\ Fairness
=============================================================================

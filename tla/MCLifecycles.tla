---------------------------- MODULE MCLifecycles ----------------------------
(***************************************************************************)
(* What is started must be stopped, for TLC: the timers of a peer, the     *)
(* embedded FRP client, the STUN client and the listeners of a TUN device. *)
(* They share no state; each behaviour exercises one of them.              *)
(***************************************************************************)
EXTENDS PeerTimers, FrpWrapper, StunClient, TunDevice

VARIABLE subject

LifecyclesInit ==
  /\ subject \in {"timers", "frp", "stun", "tun"}
  /\ TimersInit /\ FrpInit /\ StunInit /\ TunInit
  /\ subject # "tun" => running /\ kmtu = 1

OnTimers(A) == subject = "timers" /\ A /\ UNCHANGED <<frpVars, stunVars, tunVars, subject>>
OnFrp(A) == subject = "frp" /\ A /\ UNCHANGED <<timerVars, stunVars, tunVars, subject>>
OnStun(A) == subject = "stun" /\ A /\ UNCHANGED <<timerVars, frpVars, tunVars, subject>>
OnTun(A) == subject = "tun" /\ A /\ UNCHANGED <<timerVars, frpVars, stunVars, subject>>

LifecyclesNext ==
  \/ OnTimers(TimersNext) \/ OnFrp(FrpNext) \/ OnStun(StunNext) \/ OnTun(TunNext)

allVars == <<timerVars, frpVars, stunVars, tunVars, subject>>

(* Every goroutine goes on and timers fire; a sender to a full channel gets its turn, and
   select does not prefer a tick to a closed channel for ever.  Nobody is obliged to
   start, to stop or to send anything. *)
LifecyclesFairness ==
  /\ WF_allVars(OnTimers((\E t \in Timers : Expiry(t)) \/ TimersFire \/ Stopping \/ Changes))
  /\ \A n \in StunStart : /\ WF_allVars(OnStun(TickerProgress(n)))
                          /\ SF_allVars(OnStun(TickerEnds(n)))
                          /\ WF_allVars(OnStun(ListenProgress(n)))
  /\ SF_allVars(OnTun(Hack)) /\ SF_allVars(OnTun(Netlink))
  /\ WF_allVars(OnTun(RoutineTUNEventReader)) /\ WF_allVars(OnTun(Closes))

LifecyclesSpec == LifecyclesInit /\ [][LifecyclesNext]_allVars /\ LifecyclesFairness

(* Types of the four components.  The wait group of the FRP client counts the goroutines
   that have not called Done, and the retries of a handshake stop one after
   MaxTimerHandshakes. *)
LifecyclesTypeOK == TimersTypeOK /\ FrpTypeOK /\ StunTypeOK /\ TunTypeOK
=============================================================================

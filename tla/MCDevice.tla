------------------------------ MODULE MCDevice ------------------------------
(***************************************************************************)
(* What a device is told and what it checks before it trusts a packet, for *)
(* TLC: its configuration, the table of allowed IPs, the replay filter,    *)
(* cookies and the rate limiter.  They share no state in these modules;    *)
(* each behaviour exercises one of them.                                   *)
(***************************************************************************)
EXTENDS AllowedIPs, ReplayFilter, Cookie, Ratelimiter, Config, TLC

VARIABLE subject

\* the keys of Config and the workers of Cookie are interchangeable
Symmetry == Permutations(Key) \cup Permutations(HsWorker)

DeviceInit ==
  /\ subject \in {"routes", "replay", "cookie", "limiter", "config"}
  /\ TableInit /\ ReplayInit /\ CookieInit /\ LimiterInit /\ ConfigInit

DeviceNext ==
  /\ \/ /\ subject = "routes" /\ TableNext
        /\ UNCHANGED <<replayVars, cookieVars, limiterVars, configVars>>
     \/ /\ subject = "replay" /\ ReplayNext
        /\ UNCHANGED <<tableVars, cookieVars, limiterVars, configVars>>
     \/ /\ subject = "cookie" /\ CookieNext
        /\ UNCHANGED <<tableVars, replayVars, limiterVars, configVars>>
     \/ /\ subject = "limiter" /\ LimiterNext
        /\ UNCHANGED <<tableVars, replayVars, cookieVars, configVars>>
     \/ /\ subject = "config" /\ ConfigNext
        /\ UNCHANGED <<tableVars, replayVars, cookieVars, limiterVars>>
  /\ UNCHANGED subject

DeviceSpec ==
  DeviceInit
    /\ [][DeviceNext]_<<tableVars, replayVars, cookieVars, limiterVars, configVars, subject>>

(* Types of the four components with locks and counters.  The secret of the cookies is
   never younger than now, the limiter's lock has one holder, and a source address is
   to be cleared only for a known endpoint. *)
DeviceTypeOK == ReplayTypeOK /\ CookieTypeOK /\ LimiterTypeOK /\ ConfigTypeOK
=============================================================================

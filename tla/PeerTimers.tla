----------------------------- MODULE PeerTimers -----------------------------
(***************************************************************************)
(* The timers of a peer (device/timers.go) while the peer is started and   *)
(* stopped (Start and Stop of device/peer.go).                             *)
(*                                                                         *)
(* A Timer is a runtime timer with a flag isPending, a lock modifyingLock, *)
(* which is held within one step here, and a lock runningLock, which an    *)
(* expiry function holds.  Every change of a timer is guarded by           *)
(* timersActive, in a step before.  Of what the expiry functions do, this  *)
(* module keeps the changes of timers, in their order, and the lock of the *)
(* static identity; sessions and packets are in Handshake and SendPath.    *)
(***************************************************************************)
EXTENDS Naturals, Sequences, FiniteSets, FiniteSetsExt

CONSTANTS User,                \* goroutines that send and receive packets
          Timers,              \* the timers of the instance
          MaxTimerHandshakes,
          MaxStarts,           \* bound on the calls of Start
          MaxFired             \* bound on the goroutines of a timer that wait

\* in the order in which timersStop deletes them
AllTimers == <<"retransmitHandshake", "sendKeepalive", "newHandshake", "zeroKeyMaterial",
               "persistentKeepalive">>

ASSUME TimerAssumption ==
  /\ Timers # {} /\ \A t \in Timers : \E n \in DOMAIN AllTimers : AllTimers[n] = t
  /\ MaxTimerHandshakes \in Nat /\ MaxStarts \in Nat /\ MaxFired \in Nat

\* the places, from the n-th, of the timers of the instance
StopOrder(n) == {m \in n..Len(AllTimers) : AllTimers[m] \in Timers}

VARIABLES isRunning, starts,
          isPending, armed,   \* of each timer; armed: the runtime timer
          fired,              \* goroutines of the timer that wait for runningLock
          tpc,                \* the goroutine that holds runningLock, of each timer: where it
                              \* is and the calls before it
          attempts,           \* timers.handshakeAttempts
          userpc,
          stopper,            \* [at, n, identity]: Stop, at the n-th of AllTimers
          strayed             \* history: timers set again after Stop had deleted them

timerVars == <<isRunning, starts, isPending, armed, fired, tpc, attempts, userpc, stopper, strayed>>

NotStopping == [at |-> "idle", n |-> 1, identity |-> FALSE]

\* a goroutine that has calls to make; without any it returns
NotRunning == [at |-> "none", todo |-> <<>>]
Doing(at, todo) == IF todo = <<>> THEN NotRunning ELSE [at |-> at, todo |-> todo]

timersActive_Always == TRUE

\* isUp() of the device is left open: a call may be left out although the peer runs
timersActive == isRunning

\* whether the Stop in progress, or the last one, is through with the timer
Deleted(t) ==
  /\ ~ isRunning
  /\ stopper.at = "idle" \/ \E n \in 1..stopper.n - 1 : AllTimers[n] = t

Mod(t) ==
  /\ isPending' = [isPending EXCEPT ![t] = TRUE]
  /\ armed' = [armed EXCEPT ![t] = TRUE]
  /\ strayed' = IF Deleted(t) THEN strayed \cup {t} ELSE strayed

Del(t) ==
  /\ isPending' = [isPending EXCEPT ![t] = FALSE]
  /\ armed' = [armed EXCEPT ![t] = FALSE]
  /\ UNCHANGED strayed

Untouched == UNCHANGED <<isPending, armed, strayed>>

(* A change of a timer: Mod, Del, or Mod of a timer that is not pending ("start"). *)
Call(op, t) == IF t \in Timers THEN <<[op |-> op, timer |-> t]>> ELSE <<>>

Allowed(call) ==
  /\ timersActive
  /\ call.op = "start" => ~ isPending[call.timer]

Change(call) == IF call.op = "del" THEN Del(call.timer) ELSE Mod(call.timer)

(* SendHandshakeInitiation calls timersAnyAuthenticatedPacketTraversal, which does nothing
   without a keepalive interval, timersAnyAuthenticatedPacketSent and
   timersHandshakeInitiated. *)
HandshakeCalls ==
  Call("mod", "persistentKeepalive") \o Call("del", "sendKeepalive")
    \o Call("mod", "retransmitHandshake")

-----------------------------------------------------------------------------
(* The runtime timer fires: its function starts in a goroutine of its own. *)
Fire(t) ==
  /\ armed[t] /\ fired[t] < MaxFired
  /\ armed' = [armed EXCEPT ![t] = FALSE]
  /\ fired' = [fired EXCEPT ![t] = @ + 1]
  /\ UNCHANGED <<isRunning, starts, isPending, tpc, attempts, userpc, stopper, strayed>>

(* NewTimer's function takes runningLock, unless DelSync has it, and does nothing when
   the timer is not pending any more. *)
RunningLockFree(t) ==
  /\ tpc[t] = NotRunning
  /\ stopper.at = "locked" => AllTimers[stopper.n] # t

TakeRunningLock(t) ==
  /\ fired[t] > 0 /\ RunningLockFree(t)
  /\ fired' = [fired EXCEPT ![t] = @ - 1]
  /\ isPending' = [isPending EXCEPT ![t] = FALSE]
  /\ tpc' = IF isPending[t] THEN [tpc EXCEPT ![t] = [at |-> "expired", todo |-> <<>>]] ELSE tpc
  /\ UNCHANGED <<isRunning, starts, armed, attempts, userpc, stopper, strayed>>

\* the handshake timer has given up
GivesUp_Late == attempts > MaxTimerHandshakes + 1
GivesUp == attempts > MaxTimerHandshakes

GivingUp(t) == t = "retransmitHandshake" /\ GivesUp

(* What the function of t does last: giving up deletes the keepalive and leaves the rest
   to zeroKeyMaterial; the keepalive timer may be set again (needAnotherKeepalive). *)
Afterwards(t) ==
  IF GivingUp(t) THEN Call("del", "sendKeepalive") \o Call("start", "zeroKeyMaterial")
  ELSE IF t = "sendKeepalive" THEN Call("mod", "sendKeepalive") ELSE <<>>

(* SendHandshakeInitiation counts a retry and forgets the count otherwise, also when it
   returns because of RekeyTimeout.  A keepalive only asks for it without a session. *)
Attempts(t, sends) ==
  IF t = "retransmitHandshake" THEN {IF GivesUp THEN attempts ELSE attempts + 1}
  ELSE IF sends \/ t = "newHandshake" THEN {0}
  ELSE IF t = "zeroKeyMaterial" THEN {attempts} ELSE {0, attempts}

(* The expiry function begins: it sends a handshake or none. *)
Expire(t) ==
  /\ tpc[t].at = "expired"
  /\ \E sends \in BOOLEAN :
       /\ sends => t # "zeroKeyMaterial" /\ ~ GivingUp(t)
       /\ attempts' \in Attempts(t, sends)
       /\ tpc' = [tpc EXCEPT ![t] = IF sends THEN Doing("create", HandshakeCalls \o Afterwards(t))
                                    ELSE Doing("calls", Afterwards(t))]
  /\ UNCHANGED <<isRunning, starts, fired, userpc, stopper>> /\ Untouched

(* CreateMessageInitiation takes the read lock of the static identity. *)
IdentityFree == ~ stopper.identity

CreateMessageInitiation(t) ==
  /\ tpc[t].at = "create" /\ IdentityFree
  /\ tpc' = [tpc EXCEPT ![t].at = "calls"]
  /\ UNCHANGED <<isRunning, starts, fired, attempts, userpc, stopper>> /\ Untouched

(* The next call asks timersActive; or it is left out, because the peer is not active or
   there is nothing to change. *)
ExpiryAsks(t) ==
  /\ tpc[t].at = "calls"
  /\ \/ /\ Allowed(Head(tpc[t].todo))
        /\ tpc' = [tpc EXCEPT ![t].at = "change"]
     \/ tpc' = [tpc EXCEPT ![t] = Doing("calls", Tail(@.todo))]
  /\ UNCHANGED <<isRunning, starts, fired, attempts, userpc, stopper>> /\ Untouched

ExpiryChanges(t) ==
  /\ tpc[t].at = "change"
  /\ Change(Head(tpc[t].todo))
  /\ tpc' = [tpc EXCEPT ![t] = Doing("calls", Tail(@.todo))]
  /\ UNCHANGED <<isRunning, starts, fired, attempts, userpc, stopper>>

-----------------------------------------------------------------------------
(* The events of the goroutines that send and receive: timersDataSent, timersDataReceived,
   timersAnyAuthenticatedPacketSent, timersAnyAuthenticatedPacketReceived,
   timersHandshakeInitiated, timersHandshakeComplete, timersSessionDerived and
   timersAnyAuthenticatedPacketTraversal. *)
EventCalls ==
  {Call("start", "newHandshake"), Call("start", "sendKeepalive"), Call("del", "sendKeepalive"),
   Call("del", "newHandshake"), Call("mod", "retransmitHandshake"),
   Call("del", "retransmitHandshake"), Call("mod", "zeroKeyMaterial"),
   Call("mod", "persistentKeepalive")}

Event(u, call) ==
  /\ userpc[u] = NotRunning /\ call # <<>> /\ Allowed(Head(call))
  /\ userpc' = [userpc EXCEPT ![u] = Doing("change", call)]
  /\ UNCHANGED <<isRunning, starts, fired, tpc, attempts, stopper>> /\ Untouched

\* timersHandshakeComplete resets the counter in any case
HandshakeComplete(u) ==
  /\ userpc[u] = NotRunning /\ attempts # 0
  /\ attempts' = 0
  /\ UNCHANGED <<isRunning, starts, fired, tpc, userpc, stopper>> /\ Untouched

EventChanges(u) ==
  /\ userpc[u] # NotRunning
  /\ Change(Head(userpc[u].todo))
  /\ userpc' = [userpc EXCEPT ![u] = NotRunning]
  /\ UNCHANGED <<isRunning, starts, fired, tpc, attempts, stopper>>

-----------------------------------------------------------------------------
(* Start, with timersStart *)
StartPeer ==
  /\ ~ isRunning /\ stopper.at = "idle" /\ starts < MaxStarts
  /\ isRunning' = TRUE /\ starts' = starts + 1 /\ attempts' = 0
  /\ strayed' = {}
  /\ UNCHANGED <<isPending, armed, fired, tpc, userpc, stopper>>

(* Stop: SetPrivateKey calls it with the static identity locked. *)
StopPeer(identity) ==
  /\ isRunning /\ stopper.at = "idle"
  /\ isRunning' = FALSE
  /\ stopper' = [at |-> "delete", n |-> Min(StopOrder(1)), identity |-> identity]
  /\ UNCHANGED <<starts, fired, tpc, attempts, userpc>> /\ Untouched

(* DelSync: Del, wait for runningLock, Del again. *)
DelFirst ==
  /\ stopper.at = "delete"
  /\ Del(AllTimers[stopper.n])
  /\ stopper' = [stopper EXCEPT !.at = "wait"]
  /\ UNCHANGED <<isRunning, starts, fired, tpc, attempts, userpc>>

AwaitRunning(t) == tpc[t] = NotRunning

LockRunning ==
  /\ stopper.at = "wait" /\ AwaitRunning(AllTimers[stopper.n])
  /\ stopper' = [stopper EXCEPT !.at = "locked"]
  /\ UNCHANGED <<isRunning, starts, fired, tpc, attempts, userpc>> /\ Untouched

DelAgain_No(t) == Untouched
DelAgain(t) == Del(t)

DelSyncEnds ==
  /\ stopper.at = "locked"
  /\ DelAgain(AllTimers[stopper.n])
  /\ stopper' = IF StopOrder(stopper.n + 1) # {}
                THEN [stopper EXCEPT !.at = "delete", !.n = Min(StopOrder(@ + 1))]
                ELSE NotStopping
  /\ UNCHANGED <<isRunning, starts, fired, tpc, attempts, userpc>>

-----------------------------------------------------------------------------
TimersInit ==
  /\ isRunning = FALSE /\ starts = 0
  /\ isPending = [t \in Timers |-> FALSE] /\ armed = [t \in Timers |-> FALSE]
  /\ fired = [t \in Timers |-> 0] /\ tpc = [t \in Timers |-> NotRunning]
  /\ attempts = 0
  /\ userpc = [u \in User |-> NotRunning]
  /\ stopper = NotStopping /\ strayed = {}

Expiry(t) ==
  TakeRunningLock(t) \/ Expire(t) \/ CreateMessageInitiation(t) \/ ExpiryAsks(t) \/ ExpiryChanges(t)
TimersFire == \E t \in Timers : Fire(t)
Stopping == DelFirst \/ LockRunning \/ DelSyncEnds
Changes == \E u \in User : EventChanges(u)
Outside ==
  \/ StartPeer \/ \E b \in BOOLEAN : StopPeer(b)
  \/ \E u \in User : HandshakeComplete(u)
       \/ \E call \in EventCalls : Event(u, call)

TimersNext == (\E t \in Timers : Expiry(t)) \/ TimersFire \/ Stopping \/ Changes \/ Outside

TimersSpec == TimersInit /\ [][TimersNext]_timerVars

-----------------------------------------------------------------------------
(* Retries are counted up to one more than MaxTimerHandshakes, after which the
   handshake is given up. *)
TimersTypeOK ==
  /\ isPending \in [Timers -> BOOLEAN] /\ armed \in [Timers -> BOOLEAN]
  /\ fired \in [Timers -> 0..MaxFired]
  /\ attempts \in 0..MaxTimerHandshakes + 1
  /\ stopper.n \in 1..Len(AllTimers) /\ strayed \subseteq Timers

(* When Stop returns, no expiry function runs and no timer is pending, although an
   expiry function may set its own timer while Stop waits for it.  The exceptions
   are timers that a goroutine sets after Stop has deleted them, because it had
   asked timersActive before Stop began. *)
StopDeletesTimers ==
  ~ isRunning /\ stopper.at = "idle" =>
    \A t \in Timers : isPending[t] \/ (tpc[t] # NotRunning) => t \in strayed

(* A peer that stays stopped becomes quiet: Stop returns, although it waits for expiry
   functions, and a timer that was set too late fires once and sets nothing.  The
   exception is a caller that holds the static identity: an expiry function that sends
   a handshake waits for that caller. *)
StopQuiesces ==
  \/ []<>(isRunning \/ stopper.identity)
  \/ <>[](stopper.at = "idle" /\ \A t \in Timers : ~ isPending[t])
=============================================================================

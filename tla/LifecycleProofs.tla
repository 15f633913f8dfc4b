--------------------------- MODULE LifecycleProofs ---------------------------
(***************************************************************************)
(* Proofs about what is started and must be stopped: the timers of a peer  *)
(* (PeerTimers), the embedded FRP client (FrpWrapper), the listeners of a  *)
(* TUN device (TunDevice) and the STUN client (StunClient), for any number *)
(* of goroutines, runs and stoppers and any capacity of the events.        *)
(***************************************************************************)
EXTENDS MCLifecycles, SequenceProofs

-----------------------------------------------------------------------------
(* The timers of a peer                                                    *)

TimerCall == [op : {"mod", "start", "del"}, timer : Timers]

\* A goroutine that makes calls has one before it, and another one has none.
Goroutine ==
  {g \in [at : {"none", "expired", "create", "calls", "change"}, todo : Seq(TimerCall)] :
     g.todo = <<>> <=> g.at \in {"none", "expired"}}
EventGoroutine == {g \in Goroutine : g.at \in {"none", "change"}}

TimerTypes ==
  /\ isRunning \in BOOLEAN
  /\ isPending \in [Timers -> BOOLEAN] /\ armed \in [Timers -> BOOLEAN]
  /\ fired \in [Timers -> 0..MaxFired] /\ attempts \in 0..MaxTimerHandshakes + 1
  /\ tpc \in [Timers -> Goroutine] /\ userpc \in [User -> EventGoroutine]
  /\ stopper \in [at : {"idle", "delete", "wait", "locked"}, n : 1..5, identity : BOOLEAN]
  /\ strayed \subseteq Timers

(* Stop is at one of the timers and, from the moment it has runningLock until it lets go
   of it, no expiry function of this timer runs. *)
StopperInv ==
  stopper.at # "idle" =>
    /\ ~ isRunning /\ AllTimers[stopper.n] \in Timers
    /\ stopper.at = "locked" => tpc[AllTimers[stopper.n]] = NotRunning

(* What StopDeletesTimers says when Stop has returned holds, during Stop, of each timer
   that Stop is through with. *)
DeletedInv ==
  \A t \in Timers : Deleted(t) /\ (isPending[t] \/ tpc[t] # NotRunning) => t \in strayed

TimersInv == TimerTypes /\ StopperInv /\ DeletedInv

\* The order of timersStop: what comes next is one of the timers, and nothing of the
\* instance is passed over.
LEMMA StopOrderNext ==
    ASSUME NEW n \in 1..6, StopOrder(n) # {}
    PROVE  LET m == Min(StopOrder(n)) IN
             /\ m \in n..5 /\ m \in 1..5 /\ AllTimers[m] \in Timers
             /\ \A k \in n..m - 1 : AllTimers[k] \notin Timers
<1>1. StopOrder(n) \subseteq n..5 /\ \A m \in StopOrder(n) : AllTimers[m] \in Timers
  BY DEF StopOrder, AllTimers
<1>2. \E x \in StopOrder(n) : \A y \in StopOrder(n) : x <= y
  <2> DEFINE S == StopOrder(n)
  <2>1. S \subseteq 1..5 /\ S # {}
    BY <1>1
  <2> SUFFICES \E x \in S : \A y \in S : x <= y
    OBVIOUS
  <2> HIDE DEF S
  <2>2. CASE 1 \in S
    BY <2>1, <2>2
  <2>3. CASE 1 \notin S /\ 2 \in S
    BY <2>1, <2>3
  <2>4. CASE 1 \notin S /\ 2 \notin S /\ 3 \in S
    BY <2>1, <2>4
  <2>5. CASE 1 \notin S /\ 2 \notin S /\ 3 \notin S /\ 4 \in S
    BY <2>1, <2>5
  <2>6. CASE 1 \notin S /\ 2 \notin S /\ 3 \notin S /\ 4 \notin S
    <3>1. S \subseteq {5}
      BY <2>1, <2>6
    <3>2. S = {5}
      BY <2>1, <3>1
    <3>3. QED
      BY <3>2
  <2>7. QED
    BY <2>2, <2>3, <2>4, <2>5, <2>6
<1>3. Min(StopOrder(n)) \in StopOrder(n) /\ \A y \in StopOrder(n) : Min(StopOrder(n)) <= y
  BY <1>2 DEF Min
<1>4. \A k \in n..5 : AllTimers[k] \in Timers => k \in StopOrder(n)
  BY DEF StopOrder, AllTimers
<1>5. QED
  BY <1>1, <1>3, <1>4

\* Every timer of the instance has its place.
LEMMA StopOrderAll == \A t \in Timers : \E n \in 1..5 : AllTimers[n] = t
  BY TimerAssumption DEF AllTimers

LEMMA StopOrderStarts == StopOrder(1) # {}
<1>1. PICK t \in Timers : TRUE
  BY TimerAssumption
<1>2. PICK n \in 1..5 : AllTimers[n] = t
  BY StopOrderAll
<1>3. n \in StopOrder(1)
  BY <1>2 DEF StopOrder, AllTimers
<1>4. QED
  BY <1>3

\* What a goroutine is about to do.
LEMMA GoroutineDoing ==
    ASSUME NEW at \in {"create", "calls", "change"}, NEW todo \in Seq(TimerCall)
    PROVE  /\ Doing(at, todo) \in Goroutine
           /\ at = "change" => Doing(at, todo) \in EventGoroutine
<1>1. <<>> \in Seq(TimerCall)
  BY EmptySeq
<1>2. NotRunning \in EventGoroutine
  BY <1>1 DEF NotRunning, Goroutine, EventGoroutine
<1>3. CASE todo = <<>>
  BY <1>2, <1>3 DEF Doing, EventGoroutine
<1>4. CASE todo # <<>>
  <2> DEFINE g == [at |-> at, todo |-> todo]
  <2>1. /\ g \in [at : {"none", "expired", "create", "calls", "change"}, todo : Seq(TimerCall)]
        /\ g.at = at /\ g.todo = todo
    OBVIOUS
  <2>2. Doing(at, todo) = g
    BY <1>4 DEF Doing
  <2> HIDE DEF g
  <2>3. g \in Goroutine
    BY <1>4, <2>1 DEF Goroutine
  <2>4. QED
    BY <2>1, <2>2, <2>3 DEF EventGoroutine
<1>5. QED
  BY <1>3, <1>4

\* A goroutine with calls before it: the next one and what is left.
LEMMA GoroutineCalls ==
    ASSUME NEW g \in Goroutine
    PROVE  /\ g.at # "none" <=> g # NotRunning
           /\ g.at \notin {"none", "expired"} =>
                /\ g.todo # <<>> /\ Head(g.todo) \in TimerCall /\ Tail(g.todo) \in Seq(TimerCall)
                /\ [g EXCEPT !.at = "calls"] \in Goroutine
                /\ [g EXCEPT !.at = "change"] \in Goroutine
                /\ [g EXCEPT !.at = "calls"] # NotRunning
                /\ [g EXCEPT !.at = "change"] # NotRunning
<1>1. /\ g \in [at : {"none", "expired", "create", "calls", "change"}, todo : Seq(TimerCall)]
      /\ g.todo = <<>> <=> g.at \in {"none", "expired"}
  BY DEF Goroutine
<1>2. g.at # "none" <=> g # NotRunning
  <2>1. g = [at |-> g.at, todo |-> g.todo]
    BY <1>1
  <2>2. QED
    BY <1>1, <2>1 DEF NotRunning
<1>3. ASSUME g.at \notin {"none", "expired"}
      PROVE  /\ g.todo # <<>> /\ Head(g.todo) \in TimerCall /\ Tail(g.todo) \in Seq(TimerCall)
  <2> PICK todo : todo = g.todo
    OBVIOUS
  <2>1. todo \in Seq(TimerCall) /\ todo # <<>>
    BY <1>1, <1>3
  <2>2. QED
    BY <2>1, HeadTailProperties
<1>4. ASSUME g.at \notin {"none", "expired"}, NEW at \in {"calls", "change"}
      PROVE  [g EXCEPT !.at = at] \in Goroutine /\ [g EXCEPT !.at = at] # NotRunning
  <2> DEFINE h == [g EXCEPT !.at = at]
  <2>1. /\ h \in [at : {"none", "expired", "create", "calls", "change"}, todo : Seq(TimerCall)]
        /\ h.at = at /\ h.todo = g.todo
    BY <1>1
  <2> HIDE DEF h
  <2>2. h \in Goroutine /\ h # NotRunning
    BY <1>3, <1>4, <2>1 DEF Goroutine, NotRunning
  <2>3. QED
    BY <2>2 DEF h
<1>5. QED
  BY <1>2, <1>3, <1>4

\* The calls of the expiry functions and of the events are calls.
LEMMA CallsAreCalls ==
    /\ HandshakeCalls \in Seq(TimerCall)
    /\ \A t \in Timers : /\ Afterwards(t) \in Seq(TimerCall)
                         /\ HandshakeCalls \o Afterwards(t) \in Seq(TimerCall)
    /\ \A call \in EventCalls : call \in Seq(TimerCall)
<1>1. ASSUME NEW op \in {"mod", "start", "del"}, NEW t PROVE Call(op, t) \in Seq(TimerCall)
  <2>1. CASE t \in Timers
    <3>1. [op |-> op, timer |-> t] \in TimerCall
      BY <2>1 DEF TimerCall
    <3> HIDE DEF TimerCall
    <3>2. QED
      BY <2>1, <3>1 DEF Call
  <2>2. CASE t \notin Timers
    BY <2>2, EmptySeq DEF Call
  <2>3. QED
    BY <2>1, <2>2
<1>2. HandshakeCalls \in Seq(TimerCall)
  BY <1>1, ConcatProperties DEF HandshakeCalls
<1>3. ASSUME NEW t \in Timers PROVE Afterwards(t) \in Seq(TimerCall)
  <2>1. /\ Call("del", "sendKeepalive") \o Call("start", "zeroKeyMaterial") \in Seq(TimerCall)
        /\ Call("mod", "sendKeepalive") \in Seq(TimerCall) /\ <<>> \in Seq(TimerCall)
    BY <1>1, ConcatProperties, EmptySeq
  <2>2. QED
    BY <2>1 DEF Afterwards
<1>4. \A call \in EventCalls : call \in Seq(TimerCall)
  BY <1>1 DEF EventCalls
<1>5. QED
  BY <1>2, <1>3, <1>4, ConcatProperties

\* Setting or deleting a timer, by anybody but Stop: a timer that is set after Stop is
\* through with it has strayed.
LEMMA ChangeInv ==
    ASSUME TimersInv, NEW call \in TimerCall, Change(call), UNCHANGED <<isRunning, stopper>>,
           \A s \in Timers : tpc'[s] # NotRunning => tpc[s] # NotRunning
    PROVE  /\ isPending' \in [Timers -> BOOLEAN] /\ armed' \in [Timers -> BOOLEAN]
           /\ strayed' \subseteq Timers
           /\ DeletedInv'
<1>0. PICK t \in Timers : Mod(t) \/ Del(t)
  BY DEF Change, TimerCall
<1>1. isPending' \in [Timers -> BOOLEAN] /\ armed' \in [Timers -> BOOLEAN] /\ strayed' \subseteq Timers
  BY <1>0 DEF Mod, Del, TimersInv, TimerTypes
<1>2. \A s \in Timers : Deleted(s)' <=> Deleted(s)
  BY DEF Deleted
<1>3. \A s \in Timers : isPending'[s] => isPending[s] \/ (s = t /\ Mod(t))
  BY <1>0 DEF Mod, Del, TimersInv, TimerTypes
<1>4. strayed \subseteq strayed' /\ (Mod(t) /\ Deleted(t) => t \in strayed')
  BY <1>0 DEF Mod, Del
<1>5. DeletedInv'
  BY <1>2, <1>3, <1>4 DEF DeletedInv, TimersInv
<1>6. QED
  BY <1>1, <1>5

LEMMA TimersInitInv == TimersInit => TimersInv
<1> SUFFICES ASSUME TimersInit PROVE TimersInv
  OBVIOUS
<1>1. TimerTypes
  <2>0. NotRunning \in Goroutine /\ NotRunning \in EventGoroutine
    BY GoroutineDoing, EmptySeq DEF Doing
  <2>1. /\ tpc \in [Timers -> Goroutine] /\ userpc \in [User -> EventGoroutine]
        /\ fired \in [Timers -> 0..MaxFired] /\ attempts \in 0..MaxTimerHandshakes + 1
    BY <2>0, TimerAssumption DEF TimersInit
  <2>2. stopper \in [at : {"idle", "delete", "wait", "locked"}, n : 1..5, identity : BOOLEAN]
    BY DEF TimersInit, NotStopping
  <2>3. QED
    BY <2>1, <2>2 DEF TimersInit, TimerTypes
<1>2. StopperInv /\ DeletedInv
  BY DEF TimersInit, StopperInv, DeletedInv, NotStopping
<1>3. QED
  BY <1>1, <1>2 DEF TimersInv

\* The expiry functions.
LEMMA ExpiryInv ==
    ASSUME TimersInv, NEW t \in Timers, Expiry(t) \/ Fire(t)
    PROVE  TimersInv'
<1>0. tpc[t] \in Goroutine /\ tpc \in [Timers -> Goroutine]
  BY DEF TimersInv, TimerTypes
<1>1. CASE Fire(t)
  <2>1. TimerTypes'
    BY <1>1, TimerAssumption DEF Fire, TimersInv, TimerTypes
  <2>2. StopperInv' /\ DeletedInv'
    BY <1>1 DEF Fire, TimersInv, StopperInv, DeletedInv, Deleted
  <2>3. QED
    BY <2>1, <2>2 DEF TimersInv
<1>2. CASE TakeRunningLock(t)
  <2>0. [at |-> "expired", todo |-> <<>>] \in Goroutine
    BY EmptySeq DEF Goroutine
  <2>1. tpc' \in [Timers -> Goroutine] /\ \A s \in Timers \ {t} : tpc'[s] = tpc[s]
    BY <1>0, <1>2, <2>0 DEF TakeRunningLock
  <2>2. isPending[t] \/ tpc'[t] = NotRunning
    BY <1>2 DEF TakeRunningLock, RunningLockFree
  <2>3. /\ isPending' \in [Timers -> BOOLEAN] /\ ~ isPending'[t]
        /\ \A s \in Timers \ {t} : isPending'[s] = isPending[s]
    BY <1>2 DEF TakeRunningLock, TimersInv, TimerTypes
  <2>4. fired' \in [Timers -> 0..MaxFired]
    BY <1>2, TimerAssumption DEF TakeRunningLock, TimersInv, TimerTypes
  <2>5. TimerTypes'
    BY <1>2, <2>1, <2>3, <2>4 DEF TakeRunningLock, TimersInv, TimerTypes
  <2>6. StopperInv'
    BY <1>2, <2>1 DEF TakeRunningLock, RunningLockFree, TimersInv, StopperInv
  <2>7. \A s \in Timers : Deleted(s)' <=> Deleted(s)
    BY <1>2 DEF TakeRunningLock, Deleted
  <2>8. DeletedInv'
    BY <1>2, <2>1, <2>2, <2>3, <2>7 DEF TakeRunningLock, TimersInv, DeletedInv
  <2>9. QED
    BY <2>5, <2>6, <2>8 DEF TimersInv
<1>3. CASE Expire(t)
  <2>1. PICK sends \in BOOLEAN :
          /\ attempts' \in Attempts(t, sends)
          /\ tpc' = [tpc EXCEPT ![t] = IF sends THEN Doing("create", HandshakeCalls \o Afterwards(t))
                                      ELSE Doing("calls", Afterwards(t))]
    BY <1>3 DEF Expire
  <2>2. /\ tpc' \in [Timers -> Goroutine] /\ \A s \in Timers \ {t} : tpc'[s] = tpc[s]
        /\ tpc[t] # NotRunning
    BY <1>0, <1>3, <2>1, GoroutineDoing, GoroutineCalls, CallsAreCalls DEF Expire
  <2>3. attempts' \in 0..MaxTimerHandshakes + 1
    BY <2>1, TimerAssumption DEF Attempts, GivesUp, TimersInv, TimerTypes
  <2>4. UNCHANGED <<isRunning, fired, userpc, stopper, isPending, armed, strayed>>
    BY <1>3 DEF Expire, Untouched
  <2>5. TimerTypes'
    BY <2>2, <2>3, <2>4 DEF TimersInv, TimerTypes
  <2>6. StopperInv' /\ DeletedInv'
    BY <2>2, <2>4 DEF TimersInv, StopperInv, DeletedInv, Deleted
  <2>7. QED
    BY <2>5, <2>6 DEF TimersInv
<1>4. CASE CreateMessageInitiation(t) \/ ExpiryAsks(t)
  <2>1. tpc[t].at \in {"create", "calls"} /\ UNCHANGED <<isRunning, fired, attempts, userpc, stopper, isPending,
                                                       armed, strayed>>
    BY <1>4 DEF CreateMessageInitiation, ExpiryAsks, Untouched
  <2>2. \/ tpc' = [tpc EXCEPT ![t].at = "calls"] \/ tpc' = [tpc EXCEPT ![t].at = "change"]
        \/ tpc' = [tpc EXCEPT ![t] = Doing("calls", Tail(tpc[t].todo))]
    BY <1>4 DEF CreateMessageInitiation, ExpiryAsks
  <2>3. /\ tpc' \in [Timers -> Goroutine] /\ \A s \in Timers \ {t} : tpc'[s] = tpc[s]
        /\ tpc[t] # NotRunning
    BY <1>0, <2>1, <2>2, GoroutineDoing, GoroutineCalls
  <2>4. TimerTypes'
    BY <2>1, <2>3 DEF TimersInv, TimerTypes
  <2>5. StopperInv' /\ DeletedInv'
    BY <2>1, <2>3 DEF TimersInv, StopperInv, DeletedInv, Deleted
  <2>6. QED
    BY <2>4, <2>5 DEF TimersInv
<1>5. CASE ExpiryChanges(t)
  <2>1. Head(tpc[t].todo) \in TimerCall /\ tpc[t] # NotRunning
    BY <1>0, <1>5, GoroutineCalls DEF ExpiryChanges
  <2>2. /\ tpc' \in [Timers -> Goroutine]
        /\ \A s \in Timers \ {t} : tpc'[s] = tpc[s]
    BY <1>0, <1>5, GoroutineDoing, GoroutineCalls DEF ExpiryChanges
  <2>3. /\ isPending' \in [Timers -> BOOLEAN] /\ armed' \in [Timers -> BOOLEAN]
        /\ strayed' \subseteq Timers /\ DeletedInv'
    BY <1>5, <2>1, <2>2, ChangeInv DEF ExpiryChanges
  <2>4. TimerTypes'
    BY <1>5, <2>2, <2>3 DEF ExpiryChanges, TimersInv, TimerTypes
  <2>5. StopperInv'
    BY <1>5, <2>1, <2>2 DEF ExpiryChanges, TimersInv, StopperInv
  <2>6. QED
    BY <2>3, <2>4, <2>5 DEF TimersInv
<1>6. QED
  BY <1>1, <1>2, <1>3, <1>4, <1>5 DEF Expiry

\* The goroutines that send and receive packets, and Start.
LEMMA OutsideInv ==
    ASSUME TimersInv,
           \/ StartPeer \/ Changes \/ \E u \in User : HandshakeComplete(u)
           \/ \E u \in User, call \in EventCalls : Event(u, call)
    PROVE  TimersInv'
<1>1. CASE StartPeer
  <2>1. TimerTypes'
    BY <1>1, TimerAssumption DEF StartPeer, TimersInv, TimerTypes
  <2>2. StopperInv' /\ DeletedInv'
    BY <1>1 DEF StartPeer, StopperInv, DeletedInv, Deleted
  <2>3. QED
    BY <2>1, <2>2 DEF TimersInv
<1>2. ASSUME NEW u \in User, EventChanges(u) PROVE TimersInv'
  <2>0. userpc[u] \in EventGoroutine /\ userpc[u] \in Goroutine /\ NotRunning \in EventGoroutine
    BY GoroutineDoing, EmptySeq DEF TimersInv, TimerTypes, EventGoroutine, Doing
  <2>1. Head(userpc[u].todo) \in TimerCall
    BY <1>2, <2>0, GoroutineCalls DEF EventChanges, EventGoroutine
  <2>2. /\ isPending' \in [Timers -> BOOLEAN] /\ armed' \in [Timers -> BOOLEAN]
        /\ strayed' \subseteq Timers /\ DeletedInv'
    BY <1>2, <2>1, ChangeInv DEF EventChanges
  <2>3. TimerTypes'
    BY <1>2, <2>0, <2>2 DEF EventChanges, TimersInv, TimerTypes
  <2>4. StopperInv'
    BY <1>2 DEF EventChanges, TimersInv, StopperInv
  <2>5. QED
    BY <2>2, <2>3, <2>4 DEF TimersInv
<1>3. ASSUME NEW u \in User, HandshakeComplete(u) PROVE TimersInv'
  <2>1. TimerTypes'
    BY <1>3, TimerAssumption DEF HandshakeComplete, Untouched, TimersInv, TimerTypes
  <2>2. StopperInv' /\ DeletedInv'
    BY <1>3 DEF HandshakeComplete, Untouched, TimersInv, StopperInv, DeletedInv, Deleted
  <2>3. QED
    BY <2>1, <2>2 DEF TimersInv
<1>4. ASSUME NEW u \in User, NEW call \in EventCalls, Event(u, call)
      PROVE  TimersInv'
  <2>0. Doing("change", call) \in EventGoroutine
    BY GoroutineDoing, CallsAreCalls
  <2>1. TimerTypes'
    BY <1>4, <2>0 DEF Event, Untouched, TimersInv, TimerTypes
  <2>2. StopperInv' /\ DeletedInv'
    BY <1>4 DEF Event, Untouched, TimersInv, StopperInv, DeletedInv, Deleted
  <2>3. QED
    BY <2>1, <2>2 DEF TimersInv
<1>5. QED
  BY <1>1, <1>2, <1>3, <1>4 DEF Changes

\* Stop: DelSync of one timer after the other.
LEMMA StoppingInv ==
    ASSUME TimersInv, Stopping \/ \E b \in BOOLEAN : StopPeer(b)
    PROVE  TimersInv'
<1> DEFINE t == AllTimers[stopper.n]
<1>0. stopper.n \in 1..5
  BY DEF TimersInv, TimerTypes
<1>1. ASSUME NEW b \in BOOLEAN, StopPeer(b) PROVE TimersInv'
  <2>1. LET m == Min(StopOrder(1)) IN
          /\ m \in 1..5 /\ AllTimers[m] \in Timers
          /\ \A k \in 1..m - 1 : AllTimers[k] \notin Timers
    BY StopOrderNext, StopOrderStarts
  <2>2. /\ stopper'.at = "delete" /\ stopper'.n = Min(StopOrder(1))
        /\ stopper' \in [at : {"idle", "delete", "wait", "locked"}, n : 1..5, identity : BOOLEAN]
    BY <1>1, <2>1 DEF StopPeer
  <2>3. TimerTypes'
    BY <1>1, <2>2 DEF StopPeer, Untouched, TimersInv, TimerTypes
  <2>4. StopperInv'
    BY <1>1, <2>1, <2>2 DEF StopPeer, StopperInv
  <2>5. \A s \in Timers : ~ Deleted(s)'
    BY <2>1, <2>2 DEF Deleted
  <2>6. QED
    BY <2>3, <2>4, <2>5 DEF TimersInv, DeletedInv
<1>2. CASE DelFirst
  <2>1. t \in Timers /\ Del(t)
    BY <1>2 DEF DelFirst, TimersInv, StopperInv
  <2>2. /\ stopper'.at = "wait" /\ stopper'.n = stopper.n
        /\ stopper' \in [at : {"idle", "delete", "wait", "locked"}, n : 1..5, identity : BOOLEAN]
    BY <1>2 DEF DelFirst, TimersInv, TimerTypes
  <2>3. /\ isPending' \in [Timers -> BOOLEAN] /\ armed' \in [Timers -> BOOLEAN]
        /\ strayed' = strayed /\ \A s \in Timers : isPending'[s] => isPending[s]
    BY <2>1 DEF Del, TimersInv, TimerTypes
  <2>4. TimerTypes'
    BY <1>2, <2>2, <2>3 DEF DelFirst, TimersInv, TimerTypes
  <2>5. StopperInv'
    BY <1>2, <2>2 DEF DelFirst, TimersInv, StopperInv
  <2>6. \A s \in Timers : Deleted(s)' => Deleted(s)
    BY <1>2, <2>2 DEF DelFirst, Deleted
  <2>7. DeletedInv'
    BY <1>2, <2>3, <2>6 DEF DelFirst, TimersInv, DeletedInv
  <2>8. QED
    BY <2>4, <2>5, <2>7 DEF TimersInv
<1>3. CASE LockRunning
  <2>1. /\ stopper'.at = "locked" /\ stopper'.n = stopper.n
        /\ stopper' \in [at : {"idle", "delete", "wait", "locked"}, n : 1..5, identity : BOOLEAN]
    BY <1>3 DEF LockRunning, TimersInv, TimerTypes
  <2>2. TimerTypes'
    BY <1>3, <2>1 DEF LockRunning, Untouched, TimersInv, TimerTypes
  <2>3. StopperInv'
    BY <1>3, <2>1 DEF LockRunning, AwaitRunning, TimersInv, StopperInv
  <2>4. \A s \in Timers : Deleted(s)' => Deleted(s)
    BY <1>3, <2>1 DEF LockRunning, Deleted
  <2>5. DeletedInv'
    BY <1>3, <2>4 DEF LockRunning, Untouched, TimersInv, DeletedInv
  <2>6. QED
    BY <2>2, <2>3, <2>5 DEF TimersInv
<1>4. CASE DelSyncEnds
  <2>1. t \in Timers /\ Del(t) /\ tpc[t] = NotRunning /\ tpc' = tpc /\ ~ isRunning
    BY <1>4 DEF DelSyncEnds, DelAgain, TimersInv, StopperInv
  <2>2. /\ isPending' \in [Timers -> BOOLEAN] /\ armed' \in [Timers -> BOOLEAN] /\ ~ isPending'[t]
        /\ strayed' = strayed /\ \A s \in Timers : isPending'[s] => isPending[s]
    BY <2>1 DEF Del, TimersInv, TimerTypes
  <2>3. CASE StopOrder(stopper.n + 1) # {}
    <3>1. /\ stopper'.at = "delete" /\ stopper'.n = Min(StopOrder(stopper.n + 1))
          /\ stopper' = [stopper EXCEPT !.at = "delete", !.n = Min(StopOrder(stopper.n + 1))]
      BY <1>4, <2>3 DEF DelSyncEnds, TimersInv, TimerTypes
    <3>2. /\ stopper'.n \in stopper.n + 1..5 /\ stopper'.n \in 1..5
          /\ AllTimers[stopper'.n] \in Timers
          /\ \A k \in stopper.n + 1..stopper'.n - 1 : AllTimers[k] \notin Timers
      BY <1>0, <2>3, <3>1, StopOrderNext
    <3>3. TimerTypes'
      <4>1. stopper' \in [at : {"idle", "delete", "wait", "locked"}, n : 1..5, identity : BOOLEAN]
        BY <3>1, <3>2 DEF TimersInv, TimerTypes
      <4>2. UNCHANGED <<isRunning, starts, fired, tpc, attempts, userpc>>
        BY <1>4 DEF DelSyncEnds
      <4>3. QED
        BY <2>2, <4>1, <4>2 DEF TimersInv, TimerTypes
    <3>4. StopperInv'
      BY <1>4, <3>1, <3>2 DEF DelSyncEnds, TimersInv, StopperInv
    <3>5. \A s \in Timers : Deleted(s)' => Deleted(s) \/ s = t
      BY <1>0, <2>1, <3>1, <3>2 DEF Deleted
    <3>6. DeletedInv'
      BY <2>1, <2>2, <3>5 DEF TimersInv, DeletedInv
    <3>7. QED
      BY <3>3, <3>4, <3>6 DEF TimersInv
  <2>4. CASE StopOrder(stopper.n + 1) = {}
    <3>1. stopper' = NotStopping
      BY <1>4, <2>4 DEF DelSyncEnds
    <3>2. TimerTypes'
      <4>1. stopper' \in [at : {"idle", "delete", "wait", "locked"}, n : 1..5, identity : BOOLEAN]
        BY <3>1 DEF NotStopping
      <4>2. UNCHANGED <<isRunning, starts, fired, tpc, attempts, userpc>>
        BY <1>4 DEF DelSyncEnds
      <4>3. QED
        BY <2>2, <4>1, <4>2 DEF TimersInv, TimerTypes
    <3>3. StopperInv'
      BY <3>1 DEF NotStopping, StopperInv
    <3>4. \A s \in Timers : Deleted(s) \/ s = t
      <4>1. \A k \in stopper.n + 1..5 : AllTimers[k] \notin Timers
        BY <2>4 DEF StopOrder, AllTimers
      <4>2. QED
        BY <1>0, <2>1, <4>1, StopOrderAll DEF Deleted
    <3>5. DeletedInv'
      BY <2>1, <2>2, <3>4 DEF TimersInv, DeletedInv
    <3>6. QED
      BY <3>2, <3>3, <3>5 DEF TimersInv
  <2>5. QED
    BY <2>3, <2>4
<1>5. QED
  BY <1>1, <1>2, <1>3, <1>4 DEF Stopping

LEMMA TimersInvariant == TimersSpec => []TimersInv
<1>1. TimersInit => TimersInv
  BY TimersInitInv
<1>2. TimersInv /\ [TimersNext]_timerVars => TimersInv'
  <2> SUFFICES ASSUME TimersInv, [TimersNext]_timerVars PROVE TimersInv'
    OBVIOUS
  <2>1. CASE TimersNext
    BY <2>1, ExpiryInv, OutsideInv, StoppingInv DEF TimersNext, TimersFire, Outside
  <2>2. CASE UNCHANGED timerVars
    BY <2>2 DEF timerVars, TimersInv, TimerTypes, StopperInv, DeletedInv, Deleted
  <2>3. QED
    BY <2>1, <2>2
<1>3. QED
  BY <1>1, <1>2, PTL DEF TimersSpec

\* When Stop of device/peer.go has returned, no expiry function of device/timers.go runs
\* and no timer is pending, except one that a goroutine has set after Stop had deleted it,
\* in whatever order expiry functions, packets and Stop interleave.
THEOREM StopDeletes == TimersSpec => []StopDeletesTimers
<1>1. TimersInv => StopDeletesTimers
  BY DEF TimersInv, TimerTypes, DeletedInv, Deleted, StopDeletesTimers
<1>2. QED
  BY <1>1, TimersInvariant, PTL

\* Types: the retries of a handshake stop one after MaxTimerHandshakes
\* (expiredRetransmitHandshake).
THEOREM TimerTypesHold == TimersSpec => []TimersTypeOK
<1>1. TimersInv => TimersTypeOK
  BY DEF TimersInv, TimerTypes, TimersTypeOK, AllTimers
<1>2. QED
  BY <1>1, TimersInvariant, PTL

-----------------------------------------------------------------------------
(* The FRP client                                                          *)

Counted == {r \in FrpRun : Alive(r) \/ runAt[r] = "unlocked"}

FrpTypes ==
  /\ frpcCancel \in FrpRun \cup {NilRun} /\ frpcSvr \in FrpRun \cup {NilRun}
  /\ frpcRunning \in BOOLEAN
  /\ runAt \in [FrpRun -> {"new", "refused", "started", "running", "cleanup", "unlocked", "done"}]
  /\ cancelled \in [FrpRun -> BOOLEAN]
  /\ stopAt \in [FrpStopper -> {"idle", "waiting"}]
  /\ overlapped \subseteq FrpRun

(* The wait group counts the runs that have not called Done. *)
GroupInv == IsFiniteSet(Counted) /\ frpcWG = Cardinality(Counted)

(* Without an overlap there is one run at most, isFrpcRunning tells whether there is, and
   it can be cancelled, or has been. *)
OneRun ==
  overlapped = {} =>
    /\ \A r, q \in FrpRun : Alive(r) /\ Alive(q) => r = q
    /\ \A r \in FrpRun : Alive(r) => frpcRunning /\ (cancelled[r] \/ frpcCancel = r)
    /\ frpcRunning => \E r \in FrpRun : Alive(r)

FrpInv == FrpTypes /\ GroupInv /\ OneRun

\* A step of one run, from one place of startFrpc to another, changes nobody else's.
LEMMA RunMoves ==
    ASSUME FrpTypes, NEW r \in FrpRun,
           NEW at \in {"new", "refused", "started", "running", "cleanup", "unlocked", "done"},
           runAt' = [runAt EXCEPT ![r] = at]
    PROVE  /\ runAt' \in [FrpRun -> {"new", "refused", "started", "running", "cleanup", "unlocked",
                                     "done"}]
           /\ Alive(r)' <=> at \in {"started", "running", "cleanup"}
           /\ \A q \in FrpRun \ {r} : (Alive(q)' <=> Alive(q)) /\ runAt'[q] = runAt[q]
           /\ Counted' = IF at \in {"started", "running", "cleanup", "unlocked"}
                         THEN Counted \cup {r} ELSE Counted \ {r}
<1>1. runAt \in [FrpRun -> {"new", "refused", "started", "running", "cleanup", "unlocked", "done"}]
  BY DEF FrpTypes
<1>2. runAt'[r] = at /\ \A q \in FrpRun \ {r} : runAt'[q] = runAt[q]
  BY <1>1
<1>3. /\ Alive(r)' <=> at \in {"started", "running", "cleanup"}
      /\ \A q \in FrpRun \ {r} : Alive(q)' <=> Alive(q)
  BY <1>2 DEF Alive
<1>4. Counted' = IF at \in {"started", "running", "cleanup", "unlocked"}
                 THEN Counted \cup {r} ELSE Counted \ {r}
  BY <1>2, <1>3 DEF Counted
<1>5. QED
  BY <1>1, <1>2, <1>3, <1>4

\* A run that goes on stays counted.
LEMMA RunGoesOn ==
    ASSUME FrpInv, NEW r \in FrpRun, r \in Counted,
           NEW at \in {"started", "running", "cleanup", "unlocked"},
           runAt' = [runAt EXCEPT ![r] = at], UNCHANGED frpcWG
    PROVE  GroupInv'
<1>1. Counted' = Counted \cup {r}
  BY RunMoves DEF FrpInv
<1>2. QED
  BY <1>1 DEF FrpInv, GroupInv

LEMMA FrpInitInv == FrpInit => FrpInv
<1> SUFFICES ASSUME FrpInit PROVE FrpInv
  OBVIOUS
<1>1. FrpTypes
  BY DEF FrpInit, FrpTypes
<1>2. Counted = {} /\ \A r \in FrpRun : ~ Alive(r)
  BY DEF FrpInit, Counted, Alive
<1>3. GroupInv
  BY <1>2, FS_EmptySet DEF FrpInit, GroupInv
<1>4. OneRun
  BY <1>2 DEF FrpInit, OneRun
<1>5. QED
  BY <1>1, <1>3, <1>4 DEF FrpInv

LEMMA FrpStepInv == FrpInv /\ [FrpNext]_frpVars => FrpInv'
<1> SUFFICES ASSUME FrpInv, [FrpNext]_frpVars PROVE FrpInv'
  OBVIOUS
<1>1. CASE InitWrapper \/ UNCHANGED frpVars
  BY <1>1 DEF InitWrapper, frpVars, FrpInv, FrpTypes, GroupInv, OneRun, Counted, Alive
\* startFrpc is refused, or the run that it starts is the only one unless it overlaps one
<1>2. ASSUME NEW r \in FrpRun, StartFrpc(r) PROVE FrpInv'
  <2>0. runAt[r] = "new" /\ ~ Alive(r) /\ r \notin Counted
    BY <1>2 DEF StartFrpc, Alive, Counted
  <2>1. CASE AlreadyRunning
    <3>1. runAt' = [runAt EXCEPT ![r] = "refused"]
          /\ UNCHANGED <<frpcCancel, frpcRunning, frpcWG, overlapped, frpcSvr, cancelled, stopAt>>
      BY <1>2, <2>1 DEF StartFrpc
    <3>2. Counted' = Counted /\ \A q \in FrpRun : Alive(q)' <=> Alive(q)
      <4>1. /\ Counted' = Counted \ {r} /\ ~ Alive(r)'
            /\ \A q \in FrpRun \ {r} : Alive(q)' <=> Alive(q)
        BY <3>1, RunMoves DEF FrpInv
      <4>2. QED
        BY <2>0, <4>1
    <3>3. FrpTypes'
      BY <3>1, RunMoves DEF FrpInv, FrpTypes
    <3>4. GroupInv' /\ OneRun'
      BY <3>1, <3>2 DEF FrpInv, GroupInv, OneRun
    <3>5. QED
      BY <3>3, <3>4 DEF FrpInv
  <2>2. CASE ~ AlreadyRunning
    <3>1. /\ runAt' = [runAt EXCEPT ![r] = "started"]
          /\ frpcCancel = NilRun /\ frpcCancel' = r /\ frpcRunning' = TRUE /\ frpcWG' = frpcWG + 1
          /\ overlapped' = IF \E q \in FrpRun : Alive(q) /\ (cancelled[q] \/ q \in overlapped)
                           THEN overlapped \cup {r} ELSE overlapped
          /\ UNCHANGED <<frpcSvr, cancelled, stopAt>>
      BY <1>2, <2>2 DEF StartFrpc, AlreadyRunning
    <3>2. Alive(r)' /\ Counted' = Counted \cup {r} /\ \A q \in FrpRun \ {r} : Alive(q)' <=> Alive(q)
      BY <3>1, RunMoves DEF FrpInv
    <3>3. FrpTypes'
      BY <3>1, RunMoves DEF FrpInv, FrpTypes
    <3>4. GroupInv'
      BY <2>0, <3>1, <3>2, FS_AddElement DEF FrpInv, GroupInv
    <3>5. OneRun'
      <4> SUFFICES ASSUME overlapped' = {} PROVE OneRun'
        BY DEF OneRun
      <4>1. overlapped = {} /\ \A q \in FrpRun : Alive(q) => ~ cancelled[q]
        BY <3>1
      <4>2. \A q \in FrpRun : ~ Alive(q)
        BY <3>1, <4>1, FrpAssumption DEF FrpInv, OneRun
      <4>3. QED
        BY <3>1, <3>2, <4>2 DEF OneRun
    <3>6. QED
      BY <3>3, <3>4, <3>5 DEF FrpInv
  <2>3. QED
    BY <2>1, <2>2
\* the run goes on, and is as alive as it was
<1>3. ASSUME NEW r \in FrpRun, ConfigFails(r) \/ ServiceStarts(r) \/ ServiceRunEnds(r)
      PROVE  FrpInv'
  <2>1. PICK at \in {"running", "cleanup"} : runAt' = [runAt EXCEPT ![r] = at]
    BY <1>3 DEF ConfigFails, ServiceStarts, ServiceRunEnds
  <2>2. /\ Alive(r) /\ r \in Counted /\ frpcSvr' \in {r, frpcSvr}
        /\ UNCHANGED <<frpcCancel, frpcRunning, frpcWG, cancelled, stopAt, overlapped>>
    BY <1>3 DEF ConfigFails, ServiceStarts, ServiceRunEnds, Alive, Counted
  <2>3. \A q \in FrpRun : Alive(q)' <=> Alive(q)
    BY <2>1, <2>2, RunMoves DEF FrpInv
  <2>4. FrpTypes'
    BY <2>1, <2>2, RunMoves DEF FrpInv, FrpTypes
  <2>5. GroupInv'
    BY <2>1, <2>2, RunGoesOn
  <2>6. OneRun'
    BY <2>2, <2>3 DEF FrpInv, OneRun
  <2>7. QED
    BY <2>4, <2>5, <2>6 DEF FrpInv
\* the deferred function clears the variables: without an overlap they are its own
<1>4. ASSUME NEW r \in FrpRun, StartFrpcReturns(r) PROVE FrpInv'
  <2>1. /\ runAt' = [runAt EXCEPT ![r] = "unlocked"] /\ Alive(r) /\ r \in Counted
        /\ frpcCancel' = NilRun /\ frpcSvr' = NilRun /\ frpcRunning' = FALSE
        /\ UNCHANGED <<frpcWG, cancelled, stopAt, overlapped>>
    BY <1>4 DEF StartFrpcReturns, Clears, Alive, Counted
  <2>2. ~ Alive(r)' /\ \A q \in FrpRun \ {r} : Alive(q)' <=> Alive(q)
    BY <2>1, RunMoves DEF FrpInv
  <2>3. FrpTypes'
    BY <2>1, RunMoves DEF FrpInv, FrpTypes
  <2>4. GroupInv'
    BY <2>1, RunGoesOn
  <2>5. OneRun'
    BY <2>1, <2>2 DEF FrpInv, OneRun
  <2>6. QED
    BY <2>3, <2>4, <2>5 DEF FrpInv
<1>5. ASSUME NEW r \in FrpRun, WGDone(r) PROVE FrpInv'
  <2>1. /\ runAt' = [runAt EXCEPT ![r] = "done"] /\ ~ Alive(r) /\ r \in Counted
        /\ frpcWG' = frpcWG - 1
        /\ UNCHANGED <<frpcCancel, frpcRunning, frpcSvr, cancelled, stopAt, overlapped>>
    BY <1>5 DEF WGDone, Alive, Counted
  <2>2. Counted' = Counted \ {r} /\ \A q \in FrpRun : Alive(q)' <=> Alive(q)
    BY <2>1, RunMoves DEF FrpInv
  <2>3. FrpTypes'
    BY <2>1, RunMoves DEF FrpInv, FrpTypes
  <2>4. GroupInv'
    BY <2>1, <2>2, FS_RemoveElement DEF FrpInv, GroupInv
  <2>5. OneRun'
    BY <2>1, <2>2 DEF FrpInv, OneRun
  <2>6. QED
    BY <2>3, <2>4, <2>5 DEF FrpInv
<1>6. ASSUME NEW s \in FrpStopper, stopFrpc(s) PROVE FrpInv'
  <2>1. /\ frpcCancel' = NilRun
        /\ cancelled' = [r \in FrpRun |-> cancelled[r] \/ r = frpcCancel]
        /\ stopAt' = [stopAt EXCEPT ![s] = "waiting"]
        /\ UNCHANGED <<frpcRunning, frpcSvr, frpcWG, runAt, overlapped>>
    BY <1>6 DEF stopFrpc, Cancels
  <2>2. FrpTypes'
    BY <2>1 DEF FrpInv, FrpTypes
  <2>3. GroupInv' /\ OneRun'
    BY <2>1 DEF FrpInv, GroupInv, OneRun, Counted, Alive
  <2>4. QED
    BY <2>2, <2>3 DEF FrpInv
<1>7. ASSUME NEW s \in FrpStopper, stopReturns(s) PROVE FrpInv'
  BY <1>7 DEF stopReturns, FrpInv, FrpTypes, GroupInv, OneRun, Counted, Alive
<1>8. QED
  BY <1>1, <1>2, <1>3, <1>4, <1>5, <1>6, <1>7 DEF FrpNext

LEMMA FrpInvariant == FrpSpec => []FrpInv
<1>1. FrpInit => FrpInv
  BY FrpInitInv
<1>2. FrpInv /\ [FrpNext]_frpVars => FrpInv'
  BY FrpStepInv
<1>3. QED
  BY <1>1, <1>2, PTL DEF FrpSpec

\* As long as no startFrpc begins between a stopFrpc and the end of the run it stopped,
\* there is one run at most, isFrpcRunning tells whether there is, and it can be
\* cancelled (startFrpc and stopFrpc of frp/frpwrapper.go).
THEOREM FrpStaysReachable == FrpSpec => []FrpReachable
<1>1. FrpInv => FrpReachable
  <2> SUFFICES ASSUME FrpInv, overlapped = {}
               PROVE  Cardinality({r \in FrpRun : Alive(r)}) <= 1
    BY DEF FrpInv, OneRun, FrpReachable
  <2>1. CASE {r \in FrpRun : Alive(r)} = {}
    BY <2>1, FS_EmptySet
  <2>2. CASE {r \in FrpRun : Alive(r)} # {}
    <3>1. PICK r \in FrpRun : Alive(r)
      BY <2>2
    <3>2. {q \in FrpRun : Alive(q)} = {r}
      BY <3>1 DEF FrpInv, OneRun
    <3>3. QED
      BY <3>2, FS_Singleton
  <2>3. QED
    BY <2>1, <2>2
<1>2. QED
  BY <1>1, FrpInvariant, PTL

\* Types: frpcWG counts the runs that have not called Done, overlap or not, so that
\* stopFrpc returns when they all have.
THEOREM FrpTypesHold == FrpSpec => []FrpTypeOK
<1>1. FrpInv => FrpTypeOK
  BY DEF FrpInv, FrpTypes, GroupInv, Counted, FrpTypeOK
<1>2. QED
  BY <1>1, FrpInvariant, PTL

-----------------------------------------------------------------------------
(* The listeners of a TUN device                                           *)

ListenerTypes ==
  /\ hack \in [at : {"none", "poll", "send", "wait", "done"}, send : {"none", Up_, Down_},
               last : {"none", Up_, Down_}]
  /\ netlink.at \in {"none", "recv", "send", "exit", "close", "done"}
  /\ netlink = [at |-> netlink.at, send |-> netlink.send]
  /\ create \in {"none", "listening", "open", "failed"}
  /\ monitored \in BOOLEAN /\ hackHolds \in BOOLEAN /\ eventsClosed \in BOOLEAN
  /\ sockCloses \in Nat

(* The two listeners begin together, and only CreateTUNFromFile begins them. *)
TogetherInv ==
  /\ hack.at = "none" <=> netlink.at = "none"
  /\ monitored <=> hack.at # "none"
  /\ create = "none" => ~ monitored
  /\ create = "listening" => monitored

(* hackListenerClosed is locked as long as the hack listener runs, and again by the
   netlink listener, which keeps it. *)
HackLockInv ==
  IF netlink.at = "done" THEN hack.at = "done" /\ hackHolds
  ELSE hackHolds <=> hack.at \in {"poll", "send", "wait"}

(* Who may have closed the events. *)
ClosedByInv ==
  eventsClosed => netlink.at = "done" \/ (~ monitored /\ create = "open")

(* How often the socket has been closed, unless its creation failed. *)
SocketInv ==
  create # "failed" => sockCloses = IF netlink.at \in {"close", "done"} THEN 1 ELSE 0

TunInv == ListenerTypes /\ TogetherInv /\ HackLockInv /\ ClosedByInv /\ SocketInv

LEMMA TunInitInv == TunInit => TunInv
<1> SUFFICES ASSUME TunInit PROVE TunInv
  OBVIOUS
<1>1. hack.at = "none" /\ netlink.at = "none" /\ netlink.send = <<>>
  BY DEF TunInit
<1>2. ListenerTypes
  BY <1>1 DEF TunInit, ListenerTypes, Up_, Down_
<1>3. TogetherInv /\ HackLockInv /\ ClosedByInv /\ SocketInv
  BY <1>1 DEF TunInit, TogetherInv, HackLockInv, ClosedByInv, SocketInv
<1>4. QED
  BY <1>2, <1>3 DEF TunInv

\* Creating the device, opening it and closing it.
LEMMA TunLifeInv ==
    ASSUME TunInv,
           \/ LinkChanges \/ CreateFails \/ CreateTUNFromFile \/ CreateUnmonitoredTUNFromFD
           \/ (\E ok \in BOOLEAN : SetMTU(ok)) \/ NewDevice \/ CloseTun \/ Closes
    PROVE  TunInv'
<1> USE DEF TunInv, ListenerTypes, TogetherInv, HackLockInv, ClosedByInv, SocketInv, linkVars, lifeVars
<1>1. CASE LinkChanges
  BY <1>1 DEF LinkChanges
<1>2. CASE CreateFails
  BY <1>2 DEF CreateFails
<1>3. CASE CreateTUNFromFile
  BY <1>3 DEF CreateTUNFromFile
<1>4. CASE CreateUnmonitoredTUNFromFD
  BY <1>4 DEF CreateUnmonitoredTUNFromFD
<1>5. ASSUME NEW ok \in BOOLEAN, SetMTU(ok) PROVE TunInv'
  BY <1>5 DEF SetMTU
<1>6. CASE NewDevice
  BY <1>6 DEF NewDevice
<1>7. CASE CloseTun
  BY <1>7 DEF CloseTun, CloseUnchanged
<1>8. CASE Closes
  BY <1>8 DEF Closes, CloseCancels, CloseFile, CloseUnchanged
<1>9. QED
  BY <1>1, <1>2, <1>3, <1>4, <1>5, <1>6, <1>7, <1>8

\* The hack listener gives up its lock when it returns, after which it sends nothing.
LEMMA HackInv ==
    ASSUME TunInv, Hack
    PROVE  TunInv'
<1> USE DEF TunInv, ListenerTypes, TogetherInv, HackLockInv, ClosedByInv, SocketInv, linkVars,
            lifeVars, HackUnchanged, HackReturns
<1>1. CASE HackPolls
  BY <1>1 DEF HackPolls
<1>2. CASE HackSends
  BY <1>2 DEF HackSends, LastSent
<1>3. CASE HackWaits
  BY <1>3 DEF HackWaits
<1>4. QED
  BY <1>1, <1>2, <1>3 DEF Hack

\* The netlink listener closes the socket once, and the events when it has the lock.
LEMMA NetlinkInv ==
    ASSUME TunInv, Netlink \/ NetlinkFails
    PROVE  TunInv'
<1> USE DEF TunInv, ListenerTypes, TogetherInv, HackLockInv, ClosedByInv, SocketInv, linkVars,
            lifeVars, NetlinkUnchanged
<1>1. ASSUME NEW n \in 1..MaxLinkChanges, NetlinkReceives(n) PROVE TunInv'
  BY <1>1 DEF NetlinkReceives
<1>2. CASE NetlinkCancelled \/ NetlinkFails
  BY <1>2 DEF NetlinkCancelled, NetlinkFails
<1>3. CASE NetlinkSends
  BY <1>3 DEF NetlinkSends
<1>4. CASE NetlinkClosesSocket
  BY <1>4 DEF NetlinkClosesSocket
<1>5. CASE NetlinkReturns
  BY <1>5 DEF NetlinkReturns, HackReleased
<1>6. QED
  BY <1>1, <1>2, <1>3, <1>4, <1>5 DEF Netlink

LEMMA TunInvariant == TunSpec => []TunInv
<1>1. TunInit => TunInv
  BY TunInitInv
<1>2. TunInv /\ [TunNext]_tunVars => TunInv'
  <2> SUFFICES ASSUME TunInv, [TunNext]_tunVars PROVE TunInv'
    OBVIOUS
  <2>1. CASE RoutineTUNEventReader \/ UNCHANGED tunVars
    BY <2>1 DEF RoutineTUNEventReader, tunVars, lifeVars, TunInv, ListenerTypes, TogetherInv,
                HackLockInv, ClosedByInv, SocketInv
  <2>2. QED
    BY <2>1, TunLifeInv, HackInv, NetlinkInv DEF TunNext
<1>3. QED
  BY <1>1, <1>2, PTL DEF TunSpec

\* Neither listener of tun/tun_linux.go can send any more when the channel of events is
\* closed, whether Close or the netlink listener has closed it; and the netlink socket is
\* closed once, unless setMTU has failed.
THEOREM EventsStayOpen == TunSpec => []TunEventsOpen
<1>1. TunInv => TunEventsOpen
  BY DEF TunInv, ListenerTypes, TogetherInv, HackLockInv, ClosedByInv, SocketInv, TunEventsOpen
<1>2. QED
  BY <1>1, TunInvariant, PTL

\* what can be in the channel of events
TunEvents == {Up_, Down_, MTUUpdate}

(* The values of the TUN device, with what its listeners are about to send. *)
TunValues ==
  /\ TunTypeOK
  /\ running \in BOOLEAN /\ kmtu \in Mtu
  /\ hack.at = "send" => hack.send \in {Up_, Down_}
  /\ netlink.send \in Seq(TunEvents)

\* The events for the messages of a read are events (routineNetlinkListener).
LEMMA EventsForType ==
  ASSUME NEW m \in Seq(BOOLEAN)
  PROVE  EventsFor(m) \in Seq(TunEvents)
<1> DEFINE ss == [n \in DOMAIN m |->
             (IF m[n] THEN <<Up_>> ELSE IF \E p \in 1..n - 1 : m[p] THEN <<Down_>> ELSE <<>>)
               \o <<MTUUpdate>>]
<1>1. ASSUME NEW n \in DOMAIN m PROVE ss[n] \in Seq(TunEvents)
  <2>1. PICK h : h = IF m[n] THEN <<Up_>> ELSE IF \E p \in 1..n - 1 : m[p] THEN <<Down_>> ELSE <<>>
    OBVIOUS
  <2>2. <<Up_>> \in Seq(TunEvents) /\ <<Down_>> \in Seq(TunEvents) /\ <<>> \in Seq(TunEvents)
        /\ <<MTUUpdate>> \in Seq(TunEvents)
    BY DEF TunEvents
  <2>3. h \in Seq(TunEvents)
    BY <2>1, <2>2
  <2>4. h \o <<MTUUpdate>> \in Seq(TunEvents)
    BY <2>2, <2>3, ConcatProperties
  <2> QED BY <2>1, <2>4
<1>2. DOMAIN m = 1..Len(m) /\ Len(m) \in Nat
  OBVIOUS
<1>3. ss \in Seq(Seq(TunEvents))
  <2> HIDE DEF TunEvents
  <2>1. ss \in [1..Len(m) -> Seq(TunEvents)]
    BY <1>1, <1>2
  <2> HIDE DEF ss
  <2> QED BY <2>1, <1>2
<1>4. EventsFor(m) = FlattenSeq(ss)
  BY DEF EventsFor
<1> HIDE DEF ss
<1> QED BY <1>3, <1>4, FlattenType

\* Steps of the kernel, of the creation and of Close.
LEMMA TunLifeValues ==
  ASSUME TunInv, TunValues,
         \/ LinkChanges \/ CreateFails \/ CreateTUNFromFile \/ CreateUnmonitoredTUNFromFD
         \/ (\E ok \in BOOLEAN : SetMTU(ok)) \/ NewDevice \/ CloseTun \/ Closes
  PROVE  TunValues'
<1> USE DEF TunValues, TunTypeOK, linkVars, lifeVars
<1>1. CASE LinkChanges
  <2>1. running' \in BOOLEAN /\ kmtu' \in Mtu /\ nlQueue' \in Seq(BOOLEAN)
    <3>1. PICK x \in BOOLEAN, m \in Mtu :
            /\ running' = x /\ kmtu' = m
            /\ nlQueue' = IF nlSock = "open" THEN Append(nlQueue, x) ELSE nlQueue
      BY <1>1 DEF LinkChanges
    <3>2. Append(nlQueue, x) \in Seq(BOOLEAN)
      OBVIOUS
    <3> QED BY <3>1, <3>2
  <2>2. UNCHANGED <<events, nlSock, mtu, told, hack, netlink>>
    BY <1>1 DEF LinkChanges
  <2> QED BY <2>1, <2>2
<1>2. CASE CreateFails \/ CreateUnmonitoredTUNFromFD
  BY <1>2 DEF CreateFails, CreateUnmonitoredTUNFromFD
<1>3. CASE CreateTUNFromFile
  BY <1>3 DEF CreateTUNFromFile, TunInv, ListenerTypes
<1>4. ASSUME NEW ok \in BOOLEAN, SetMTU(ok) PROVE TunValues'
  BY <1>4 DEF SetMTU
<1>5. CASE NewDevice
  BY <1>5 DEF NewDevice
<1>6. CASE CloseTun \/ Closes
  BY <1>6 DEF CloseTun, Closes, CloseCancels, CloseFile, CloseUnchanged
<1> QED BY <1>1, <1>2, <1>3, <1>4, <1>5, <1>6

\* A listener sends only what is an event, and only when there is room.
LEMMA ListenerValues ==
  ASSUME TunInv, TunValues, Hack \/ Netlink \/ NetlinkFails
  PROVE  TunValues'
<1> USE DEF TunValues, TunTypeOK, linkVars, lifeVars, HackUnchanged, NetlinkUnchanged
<1>1. CASE HackPolls
  BY <1>1 DEF HackPolls, HackReturns, TunInv, ListenerTypes
<1>2. CASE HackSends
  <2>1. Append(events, hack.send) \in Seq(TunEvents) /\ Len(Append(events, hack.send)) <= EventsCap
    BY <1>2, TunAssumption DEF HackSends, CanSend, TunEvents
  <2> QED BY <1>2, <2>1 DEF HackSends, TunInv, ListenerTypes, TunEvents
<1>3. CASE HackWaits
  BY <1>3 DEF HackWaits, HackReturns, TunInv, ListenerTypes
<1>4. ASSUME NEW n \in 1..MaxLinkChanges, NetlinkReceives(n) PROVE TunValues'
  <2>1. SubSeq(nlQueue, 1, n) \in Seq(BOOLEAN) /\ SubSeq(nlQueue, n + 1, Len(nlQueue)) \in Seq(BOOLEAN)
    BY <1>4 DEF NetlinkReceives
  <2>2. EventsFor(SubSeq(nlQueue, 1, n)) \in Seq(TunEvents)
    BY <2>1, EventsForType
  <2>3. netlink'.send \in Seq(TunEvents)
    BY <1>4, <2>2 DEF NetlinkReceives
  <2> QED BY <1>4, <2>1, <2>3 DEF NetlinkReceives
<1>5. CASE NetlinkCancelled \/ NetlinkFails
  <2>1. netlink' = [at |-> "exit", send |-> <<>>]
        /\ UNCHANGED <<events, nlQueue, nlSock, mtu, told, hack, running, kmtu>>
    BY <1>5 DEF NetlinkCancelled, NetlinkFails
  <2>2. netlink'.send = <<>> /\ <<>> \in Seq(TunEvents)
    BY <2>1
  <2> QED BY <2>1, <2>2
<1>6. CASE NetlinkSends
  <2>1. CASE netlink.send = <<>>
    BY <1>6, <2>1 DEF NetlinkSends, TunInv, ListenerTypes
  <2>2. CASE netlink.send # <<>>
    <3>1. PICK e, rest : e = Head(netlink.send) /\ rest = Tail(netlink.send)
      OBVIOUS
    <3>2. e \in TunEvents /\ rest \in Seq(TunEvents)
      <4> HIDE DEF TunEvents
      <4> QED BY <2>2, <3>1
    <3>3. events' = Append(events, e) /\ netlink' = [netlink EXCEPT !.send = rest] /\ Len(events) < EventsCap
      BY <1>6, <2>2, <3>1 DEF NetlinkSends, CanSend
    <3>4. events' \in Seq(TunEvents) /\ Len(events') <= EventsCap
      BY <3>2, <3>3, TunAssumption DEF TunEvents
    <3>5. netlink'.send = rest
      BY <3>3 DEF TunInv, ListenerTypes
    <3> QED BY <1>6, <3>2, <3>4, <3>5 DEF NetlinkSends, TunEvents
  <2> QED BY <2>1, <2>2
<1>7. CASE NetlinkClosesSocket
  BY <1>7 DEF NetlinkClosesSocket, TunInv, ListenerTypes
<1>8. CASE NetlinkReturns
  BY <1>8 DEF NetlinkReturns, TunInv, ListenerTypes
<1> QED BY <1>1, <1>2, <1>3, <1>4, <1>5, <1>6, <1>7, <1>8 DEF Hack, Netlink

\* The reader takes an event out.
LEMMA ReaderValues ==
  ASSUME TunInv, TunValues, RoutineTUNEventReader
  PROVE  TunValues'
<1> USE DEF TunValues, TunTypeOK, linkVars, lifeVars
<1>1. CASE events # <<>> /\ events' = Tail(events)
  <2>1. events' \in Seq(TunEvents) /\ Len(events') <= EventsCap
    BY <1>1, TunAssumption DEF TunEvents
  <2> QED BY <1>1, <2>1 DEF RoutineTUNEventReader, TunEvents, Capped, Brought, UpFailed, Up_, Down_
<1>2. CASE UNCHANGED <<events, told, mtu>>
  BY <1>2 DEF RoutineTUNEventReader
<1> QED BY <1>1, <1>2 DEF RoutineTUNEventReader

\* Types of the TUN device: what is in the channel of events is an event, the channel never
\* holds more than its capacity, and the MTU of the device is one of the interface, the
\* limit, or not yet known.
THEOREM TunTypesHold == TunSpec => []TunTypeOK
<1>1. TunInit => TunValues
  BY TunAssumption DEF TunInit, TunValues, TunTypeOK
<1>2. TunInv /\ TunValues /\ [TunNext]_tunVars => TunValues'
  <2> SUFFICES ASSUME TunInv, TunValues, [TunNext]_tunVars PROVE TunValues'
    OBVIOUS
  <2>1. CASE UNCHANGED tunVars
    BY <2>1 DEF tunVars, TunValues, TunTypeOK
  <2> QED BY <2>1, TunLifeValues, ListenerValues, ReaderValues DEF TunNext
<1>3. TunValues => TunTypeOK
  BY DEF TunValues
<1> QED BY <1>1, <1>2, <1>3, TunInvariant, PTL DEF TunSpec

-----------------------------------------------------------------------------
(* The STUN client                                                         *)

(* StunTypeOK, with the values it rests on: a goroutine has seen only channels that were
   made, and a callback is that of a start. *)
StunValues ==
  /\ StunTypeOK /\ stunStarts \in 0..MaxStunStarts
  /\ onEndpointChanged \in 0..stunStarts /\ sendRequestFunc \in BOOLEAN
  /\ tickers \in [StunStart -> [at : {"none", "first", "select", "waiting"}, shared : BOOLEAN,
                               chan : 0..MaxStunStarts]]
  /\ listeners \in [StunStart -> [at : {"none", "select", "reading", "callback"},
                                 cb : 0..MaxStunStarts]]

\* A start makes a channel with a number of its own.
LEMMA StunStartValues ==
  ASSUME StunValues, Start \/ StartShared
  PROVE  StunValues'
<1> USE DEF StunValues, StunTypeOK
<1>1. /\ stunStarts \in Nat /\ stunStarts + 1 \in 0..MaxStunStarts /\ stunStarts + 1 \in StunStart
      /\ \A c \in 0..stunStarts : c \in 0..(stunStarts + 1)
  BY StunAssumption DEF Start, StartShared, StunStart
<1>2. 0 \in 0..(stunStarts + 1) /\ stunStarts + 1 \in 0..(stunStarts + 1) /\ 0 \in 0..MaxStunStarts
  BY <1>1, StunAssumption
<1>3. CASE Start
  <2>1. tickers' \in [StunStart -> [at : {"none", "first", "select", "waiting"}, shared : BOOLEAN,
                                  chan : 0..MaxStunStarts]]
        /\ \A n \in StunStart : tickers'[n].chan = tickers[n].chan
    BY <1>1, <1>3 DEF Start
  <2>2. listeners' \in [StunStart -> [at : {"none", "select", "reading", "callback"},
                                    cb : 0..MaxStunStarts]]
        /\ \A n \in StunStart : listeners'[n].cb = listeners[n].cb
    BY <1>1, <1>3 DEF Start
  <2> QED BY <1>1, <1>2, <1>3, <2>1, <2>2 DEF Start
<1>4. CASE StartShared
  <2>1. tickers' \in [StunStart -> [at : {"none", "first", "select", "waiting"}, shared : BOOLEAN,
                                  chan : 0..MaxStunStarts]]
        /\ \A n \in StunStart : tickers'[n].chan \in {tickers[n].chan, 0}
    BY <1>1, <1>2, <1>4 DEF StartShared
  <2> QED BY <1>1, <1>2, <1>4, <2>1 DEF StartShared
<1> QED BY <1>3, <1>4

\* The goroutines take the channel and the callback that the client has now.
LEMMA StunGoroutineValues ==
  ASSUME StunValues, NEW n \in StunStart,
         \/ FirstRequest(n) \/ TickerSelects(n) \/ Tick(n) \/ TickerEnds(n)
         \/ ListenSelects(n) \/ ReadFails(n) \/ CallbackReturns(n)
         \/ \E e \in Endpoint : ReadReply(n, e)
  PROVE  StunValues'
<1> USE DEF StunValues, StunTypeOK, TickersChange
<1>1. 0 \in 0..stunStarts /\ 0 \in 0..MaxStunStarts /\ \A c \in 0..stunStarts : c \in 0..MaxStunStarts
  BY StunAssumption
<1>2. CASE FirstRequest(n)
  <2>1. tickers' = [tickers EXCEPT ![n].at = "select"] \/ tickers' = [tickers EXCEPT ![n] = NoTicker]
    BY <1>2 DEF FirstRequest
  <2>2. tickers' \in [StunStart -> [at : {"none", "first", "select", "waiting"}, shared : BOOLEAN,
                                  chan : 0..MaxStunStarts]]
        /\ \A k \in StunStart : tickers'[k].chan \in {tickers[k].chan, 0}
    <3>1. NoTicker \in [at : {"none", "first", "select", "waiting"}, shared : BOOLEAN,
                       chan : 0..MaxStunStarts] /\ NoTicker.chan = 0
      BY <1>1 DEF NoTicker
    <3>2. CASE tickers' = [tickers EXCEPT ![n].at = "select"]
      BY <3>2
    <3>3. CASE tickers' = [tickers EXCEPT ![n] = NoTicker]
      BY <3>1, <3>3
    <3> QED BY <2>1, <3>2, <3>3
  <2> QED BY <1>1, <1>2, <2>2 DEF FirstRequest
<1>3. CASE TickerSelects(n)
  BY <1>1, <1>3 DEF TickerSelects, StopChanSeen
<1>4. CASE Tick(n)
  BY <1>1, <1>4 DEF Tick
<1>5. CASE TickerEnds(n)
  BY <1>1, <1>5 DEF TickerEnds, NoTicker
<1>6. CASE ListenSelects(n)
  BY <1>1, <1>6 DEF ListenSelects
<1>7. CASE ReadFails(n)
  BY <1>1, <1>7 DEF ReadFails
<1>8. CASE CallbackReturns(n)
  BY <1>1, <1>8 DEF CallbackReturns
<1>9. ASSUME NEW e \in Endpoint, ReadReply(n, e) PROVE StunValues'
  BY <1>1, <1>9 DEF ReadReply
<1> QED BY <1>2, <1>3, <1>4, <1>5, <1>6, <1>7, <1>8, <1>9

\* Types of the STUN client: the channel in use, those that are closed and those that its
\* goroutines wait for are channels that some start has made (or the nil channel, 0), and a
\* callback is that of a start that has happened.
THEOREM StunTypesHold == StunSpec => []StunTypeOK
<1>1. StunInit => StunValues
  <2> SUFFICES ASSUME StunInit PROVE StunValues
    OBVIOUS
  <2>1. 0 \in 0..0 /\ 0 \in 0..MaxStunStarts
    BY StunAssumption
  <2>2. NoTicker \in [at : {"none", "first", "select", "waiting"}, shared : BOOLEAN,
                     chan : 0..MaxStunStarts] /\ NoTicker.chan = 0
    BY <2>1 DEF NoTicker
  <2>3. NoListener \in [at : {"none", "select", "reading", "callback"}, cb : 0..MaxStunStarts]
        /\ NoListener.cb = 0
    BY <2>1 DEF NoListener
  <2> QED BY <2>1, <2>2, <2>3 DEF StunInit, StunValues, StunTypeOK
<1>2. StunValues /\ [StunNext]_stunVars => StunValues'
  <2> SUFFICES ASSUME StunValues, [StunNext]_stunVars PROVE StunValues'
    OBVIOUS
  <2>1. CASE UNCHANGED stunVars
    BY <2>1 DEF stunVars, StunValues, StunTypeOK
  <2>2. CASE Stop
    BY <2>2 DEF Stop, StunValues, StunTypeOK
  <2>3. ASSUME NEW e \in Endpoint, ProcessPacket(e) PROVE StunValues'
    BY <2>3 DEF ProcessPacket, StunValues, StunTypeOK
  <2> QED BY <2>1, <2>2, <2>3, StunStartValues, StunGoroutineValues DEF StunNext
<1>3. StunValues => StunTypeOK
  BY DEF StunValues
<1> QED BY <1>1, <1>2, <1>3, PTL DEF StunSpec

-----------------------------------------------------------------------------
(* The components together                                                 *)

\* A behaviour of the composition is, seen through the variables of each component, a
\* behaviour of that component.
LEMMA ComponentsOfLifecycles ==
  LifecyclesSpec => TimersSpec /\ FrpSpec /\ StunSpec /\ TunSpec
<1>1. LifecyclesInit => TimersInit /\ FrpInit /\ StunInit /\ TunInit
  BY DEF LifecyclesInit
<1>2. [LifecyclesNext]_allVars => /\ [TimersNext]_timerVars /\ [FrpNext]_frpVars
                                  /\ [StunNext]_stunVars /\ [TunNext]_tunVars
  BY Zenon DEF LifecyclesNext, OnTimers, OnFrp, OnStun, OnTun, allVars
<1> QED
  BY <1>1, <1>2, PTL DEF LifecyclesSpec, TimersSpec, FrpSpec, StunSpec, TunSpec

\* The types of what is started and stopped hold in the composition, with its fairness or
\* without: the retries of a handshake stop one after MaxTimerHandshakes, and frpcWG counts
\* the runs that have not called Done.
THEOREM LifecycleTypes == LifecyclesSpec => []LifecyclesTypeOK
<1>1. TimersTypeOK /\ FrpTypeOK /\ StunTypeOK /\ TunTypeOK => LifecyclesTypeOK
  BY DEF LifecyclesTypeOK
<1> QED
  BY <1>1, ComponentsOfLifecycles, TimerTypesHold, FrpTypesHold, StunTypesHold, TunTypesHold, PTL
=============================================================================

------------------------------ MODULE SendPath ------------------------------
(***************************************************************************)
(* The way of packets from a device to one peer (device/send.go), with the *)
(* lifecycle that runs beside it: Peer.Start and Peer.Stop, Device.Up,     *)
(* Down and Close, and the wait group that keeps the encryption queue open *)
(* (device/peer.go, device.go, channels.go, pools.go).                     *)
(*                                                                         *)
(* Five kinds of goroutine send: the TUN reader, the handshake workers,    *)
(* the timers of the peer, its sequential receiver, and the caller of Up.  *)
(* Each works through SendStagedPackets, whose steps are the values of pc. *)
(* A container is the sequence of its elements.  The mutex of a container  *)
(* is locked from the time its elements have nonces until an encryption    *)
(* worker has sealed them, so it needs no variable of its own: Unlocked.   *)
(***************************************************************************)
EXTENDS Naturals, Sequences, FiniteSets

CONSTANTS tun,          \* RoutineReadFromTUN
          Worker,       \* the goroutines of RoutineHandshake
          Timer,        \* the expiry goroutines of the timers of the peer
          Receiver,     \* RoutineSequentialReceiver
          ctl,          \* the caller of Up, Down and Close
          Elem,         \* QueueOutboundElements: the pool, see PreallocatedBuffersPerPool
          Nil,          \* the sentinel of the outbound queue
          BatchSize, QueueStagedSize, QueueOutboundSize,
          RejectAfterMessages,
          NonceSpace,   \* 2^64, the modulus of sendNonce
          Intervals,    \* what persistentKeepaliveInterval may be when the peer is started
          MaxKey,       \* bound: sessions
          MaxUp,        \* bound: calls of Up
          MaxEvent      \* bound: timers that expire, keypairs that age or are expired

Thread == {tun, ctl} \cup Worker \cup Timer \cup Receiver
Key == 1..MaxKey
NoKey == 0

ASSUME ThreadAssumption == /\ IsFiniteSet(Thread)
                           /\ tun # ctl
                           /\ \A S \in {Worker, Timer, Receiver} : {tun, ctl} \cap S = {}
                           /\ Worker \cap (Timer \cup Receiver) = {} /\ Timer \cap Receiver = {}
ASSUME SizeAssumption == /\ {BatchSize, QueueStagedSize, QueueOutboundSize} \subseteq Nat \ {0}
                         /\ IsFiniteSet(Elem) /\ Nil \notin Seq(Elem)
                         /\ {MaxKey, MaxUp, MaxEvent} \subseteq Nat
                         /\ Intervals \subseteq Nat

\* 2^64 - 2^13 - 1 leaves room for one increment of every goroutine
ASSUME NonceAssumption == /\ RejectAfterMessages \in Nat \ {0}
                          /\ NonceSpace \in Nat
                          /\ NonceSpace > RejectAfterMessages + Cardinality(Thread)

VARIABLES device,      \* device.state.state
          ups, events, \* number of calls of Up and of bounded events so far
          running,     \* peer.isRunning
          staged,      \* peer.queue.staged
          outbound,    \* peer.queue.outbound
          encryption,  \* device.queue.encryption, with what the workers hold
          writers,     \* device.queue.encryption.wg: the channel closes at 0
          free,        \* elements in the pool
          keypair, nonce,  \* fields of an element
          current,     \* peer.keypairs.current
          derived,     \* number of keypairs derived so far
          sendNonce,   \* of each keypair
          old,         \* keypairs of the age RejectAfterTime
          pc,          \* where a thread is
          key,         \* local keypair of SendStagedPackets
          todo,        \* elements of the container taken that have no nonce yet
          kept, late,  \* elemsContainer and elemsContainerOOO
          again,       \* elemsContainerOOO # nil
          sender,      \* where RoutineSequentialSender is
          box,         \* the container it holds
          wire         \* history: keypair and nonce of each packet sent

queues == <<staged, outbound, encryption>>
elems == <<free, keypair, nonce>>
keys == <<current, derived, sendNonce, old>>
locals == <<key, todo, kept, late, again>>
sequential == <<sender, box, wire>>
life == <<device, ups, running, writers>>

vars == <<life, events, queues, elems, keys, pc, locals, sequential>>

-----------------------------------------------------------------------------
Container == UNION {[1..n -> Elem] : n \in 1..BatchSize}
Partial == Container \cup {<<>>}
Members(c) == {c[i] : i \in DOMAIN c}

PC == {"idle", "keepalive", "offer", "stage", "drop", "top", "key", "take", "number", "cap",
       "queue", "out", "enc", "zero", "flush", "off",
       "start", "drain", "run", "stop", "timers", "nil", "wait", "closing", "joining", "closed"}

\* NewDevice: the queue has one reference of its own, one of the TUN reader and
\* one of each handshake worker; the peer is not started
Init ==
  /\ device = "down" /\ ups = 0 /\ events = 0 /\ running = FALSE
  /\ writers = 2 + Cardinality(Worker)
  /\ staged = <<>> /\ outbound = <<>> /\ encryption = {}
  /\ free = Elem
  /\ keypair = [e \in Elem |-> NoKey] /\ nonce = [e \in Elem |-> 0]
  /\ current = NoKey /\ derived = 0
  /\ sendNonce = [k \in Key |-> 0] /\ old = {}
  /\ pc = [t \in Thread |-> IF t \in Receiver THEN "off" ELSE "idle"]
  /\ key = [t \in Thread |-> NoKey]
  /\ todo = [t \in Thread |-> <<>>]
  /\ kept = [t \in Thread |-> <<>>]
  /\ late = [t \in Thread |-> <<>>]
  /\ again = [t \in Thread |-> FALSE]
  /\ sender = "off" /\ box = <<>> /\ wire = {}

Goto(t, l) == pc' = [pc EXCEPT ![t] = l]
From(t, l, m) == pc[t] = l /\ Goto(t, m)

\* PutMessageBuffer and PutOutboundElement of every element of a container
Put(c) == /\ free' = free \cup Members(c)
          /\ keypair' = [e \in Elem |-> IF e \in Members(c) THEN NoKey ELSE keypair[e]]
          /\ nonce' = [e \in Elem |-> IF e \in Members(c) THEN 0 ELSE nonce[e]]

\* the mutex of a container is free: its elements are sealed
Unlocked(c) == /\ c \notin encryption
               /\ \A t \in Thread : pc[t] = "enc" => kept[t] # c

Usable(k) == k # NoKey /\ sendNonce[k] < RejectAfterMessages /\ k \notin old

-----------------------------------------------------------------------------
(* SendKeepalive and StagePackets                                          *)

\* the elements of a batch for this peer; a batch read while the peer does not
\* run goes back to the pool at once
RoutineReadFromTUN ==
  /\ device # "closed" /\ running
  /\ From(tun, "idle", "stage")
  /\ \E n \in 1..BatchSize : \E c \in [1..n -> free] :
       /\ \A i, j \in 1..n : c[i] = c[j] => i = j
       /\ late' = [late EXCEPT ![tun] = c]
       /\ free' = free \ Members(c)
  /\ UNCHANGED <<events, life, queues, keypair, nonce, keys, key, todo, kept, again, sequential>>

SendKeepalive(t) ==
  /\ pc[t] = "keepalive"
  /\ Goto(t, IF staged = <<>> /\ running THEN "offer" ELSE "top")
  /\ UNCHANGED <<events, life, queues, elems, keys, locals, sequential>>

\* bug: the keepalive is queued without a look at the capacity
OfferKeepalive_Unbounded(t) ==
  /\ From(t, "offer", "top")
  /\ \E e \in free : staged' = Append(staged, <<e>>) /\ free' = free \ {e}
  /\ UNCHANGED <<events, life, outbound, encryption, keypair, nonce, keys, locals, sequential>>

\* NewOutboundElement waits for the pool; the element is staged if there is room
OfferKeepalive(t) ==
  /\ From(t, "offer", "top")
  /\ \E e \in free :
       IF Len(staged) < QueueStagedSize
       THEN staged' = Append(staged, <<e>>) /\ free' = free \ {e}
       ELSE UNCHANGED <<staged, free>>
  /\ UNCHANGED <<events, life, outbound, encryption, keypair, nonce, keys, locals, sequential>>

StagePackets(t) ==
  /\ pc[t] = "stage"
  /\ IF Len(staged) < QueueStagedSize
     THEN /\ staged' = Append(staged, late[t])
          /\ late' = [late EXCEPT ![t] = <<>>]
          /\ again' = [again EXCEPT ![t] = kept[t] # <<>>]
          /\ Goto(t, IF kept[t] = <<>> THEN "top" ELSE "queue")
     ELSE Goto(t, "drop") /\ UNCHANGED <<staged, late, again>>
  /\ UNCHANGED <<events, life, outbound, encryption, elems, keys, key, todo, kept, sequential>>

\* the queue was full: the oldest container makes room
DropTooOld(t) ==
  /\ From(t, "drop", "stage")
  /\ IF staged = <<>> THEN UNCHANGED <<staged, elems>>
                      ELSE Put(Head(staged)) /\ staged' = Tail(staged)
  /\ UNCHANGED <<events, life, outbound, encryption, keys, locals, sequential>>

-----------------------------------------------------------------------------
(* SendStagedPackets                                                       *)

Top(t) ==
  /\ pc[t] = "top"
  /\ Goto(t, IF staged = <<>> \/ device # "up" THEN "idle" ELSE "key")
  /\ key' = [key EXCEPT ![t] = NoKey]
  /\ UNCHANGED <<events, life, queues, elems, keys, todo, kept, late, again, sequential>>

\* without a usable keypair SendHandshakeInitiation, see Handshake
PickKeypair(t) ==
  /\ pc[t] = "key"
  /\ IF Usable(current) THEN Goto(t, "take") /\ key' = [key EXCEPT ![t] = current]
                        ELSE Goto(t, "idle") /\ UNCHANGED key
  /\ UNCHANGED <<events, life, queues, elems, keys, todo, kept, late, again, sequential>>

TakeStaged(t) ==
  /\ pc[t] = "take"
  /\ IF staged = <<>>
     THEN /\ Goto(t, "idle")
          /\ key' = [key EXCEPT ![t] = NoKey]
          /\ UNCHANGED <<staged, todo>>
     ELSE /\ Goto(t, "number")
          /\ todo' = [todo EXCEPT ![t] = Head(staged)]
          /\ staged' = Tail(staged)
          /\ UNCHANGED key
  /\ UNCHANGED <<events, life, outbound, encryption, elems, keys, kept, late, again, sequential>>

\* bug: a counter too narrow for the limit
Increment_Narrow(n) == (n + 1) % RejectAfterMessages

\* sendNonce.Add(1) of an unsigned integer
Increment(n) == (n + 1) % NonceSpace

\* the loop over the elements ends: what got no nonce is staged again
AfterElement(rest, ooo) == IF rest # <<>> THEN "number" ELSE IF ooo # <<>> THEN "stage" ELSE "queue"

Number(t) ==
  LET k == key[t]
      e == Head(todo[t])
      n == sendNonce[k] IN
  /\ pc[t] = "number"
  /\ sendNonce' = [sendNonce EXCEPT ![k] = Increment(n)]
  /\ nonce' = [nonce EXCEPT ![e] = n]
  /\ todo' = [todo EXCEPT ![t] = Tail(todo[t])]
  /\ IF n >= RejectAfterMessages
     THEN /\ late' = [late EXCEPT ![t] = Append(late[t], e)]
          /\ Goto(t, "cap")
          /\ UNCHANGED <<kept, keypair>>
     ELSE /\ kept' = [kept EXCEPT ![t] = Append(kept[t], e)]
          /\ keypair' = [keypair EXCEPT ![e] = k]
          /\ Goto(t, AfterElement(Tail(todo[t]), late[t]))
          /\ UNCHANGED late
  /\ UNCHANGED <<events, life, queues, free, current, derived, old, key, again, sequential>>

\* sendNonce.Store(RejectAfterMessages)
CapNonce(t) ==
  /\ From(t, "cap", AfterElement(todo[t], late[t]))
  /\ sendNonce' = [sendNonce EXCEPT ![key[t]] = RejectAfterMessages]
  /\ UNCHANGED <<events, life, queues, elems, current, derived, old, locals, sequential>>

\* back to "top" after elements were staged again, else to the next container
Continue(t) ==
  /\ Goto(t, IF again[t] THEN "top" ELSE "take")
  /\ kept' = [kept EXCEPT ![t] = <<>>]
  /\ again' = [again EXCEPT ![t] = FALSE]

\* bug: the elements are not put back
CheckRunning_Leak(t) ==
  /\ pc[t] = "queue"
  /\ IF running THEN Goto(t, "out") /\ UNCHANGED <<kept, again>> ELSE Continue(t)
  /\ UNCHANGED <<events, life, queues, elems, keys, key, todo, late, sequential>>

CheckRunning(t) ==
  /\ pc[t] = "queue"
  /\ IF running THEN Goto(t, "out") /\ UNCHANGED <<elems, kept, again>>
                ELSE Put(kept[t]) /\ Continue(t)
  /\ UNCHANGED <<events, life, queues, keys, key, todo, late, sequential>>

SendOutbound(t) ==
  /\ From(t, "out", "enc")
  /\ Len(outbound) < QueueOutboundSize
  /\ outbound' = Append(outbound, kept[t])
  /\ UNCHANGED <<events, life, staged, encryption, elems, keys, locals, sequential>>

SendEncryption(t) ==
  /\ pc[t] = "enc"
  /\ Cardinality(encryption) < QueueOutboundSize
  /\ encryption' = encryption \cup {kept[t]}
  /\ Continue(t)
  /\ UNCHANGED <<events, life, staged, outbound, elems, keys, key, todo, late, sequential>>

SendStagedPackets(t) ==
  Top(t) \/ PickKeypair(t) \/ TakeStaged(t) \/ Number(t) \/ CapNonce(t)
    \/ CheckRunning(t) \/ SendOutbound(t) \/ SendEncryption(t)

-----------------------------------------------------------------------------
(* Encryption workers and the sequential sender                            *)

\* workers take containers in order and finish in any order
RoutineEncryption ==
  /\ \E c \in encryption : encryption' = encryption \ {c}
  /\ UNCHANGED <<events, life, staged, outbound, elems, keys, pc, locals, sequential>>

SenderTake ==
  /\ sender = "loop" /\ outbound # <<>>
  /\ outbound' = Tail(outbound)
  /\ IF Head(outbound) = Nil
     THEN sender' = "off" /\ UNCHANGED box
     ELSE sender' = (IF running THEN "send" ELSE "discard") /\ box' = Head(outbound)
  /\ UNCHANGED <<events, life, staged, encryption, elems, keys, pc, locals, wire>>

SenderFinish ==
  /\ sender \in {"send", "discard"} /\ Unlocked(box)
  /\ wire' = IF sender = "send" THEN wire \cup {<<keypair[e], nonce[e]>> : e \in Members(box)}
                                ELSE wire
  /\ Put(box)
  /\ sender' = "loop" /\ box' = <<>>
  /\ UNCHANGED <<events, life, queues, keys, pc, locals>>

-----------------------------------------------------------------------------
(* Keypairs                                                                *)

Event == events < MaxEvent /\ events' = events + 1

NewKeypair ==
  /\ derived < MaxKey
  /\ derived' = derived + 1 /\ current' = derived + 1
  /\ UNCHANGED <<sendNonce, old>>

\* RoutineHandshake on a response: BeginSymmetricSession, then SendKeepalive
BeginSymmetricSession(t) ==
  /\ From(t, "idle", "keepalive") /\ NewKeypair
  /\ UNCHANGED <<events, life, queues, elems, locals, sequential>>

\* bug: no SendStagedPackets
ReceivedWithKeypair_NoSend(t) ==
  /\ pc[t] = "idle" /\ NewKeypair
  /\ UNCHANGED <<events, life, queues, elems, pc, locals, sequential>>

\* the sequential receiver on the first message of a session of the responder
ReceivedWithKeypair(t) ==
  /\ From(t, "idle", "top") /\ NewKeypair
  /\ UNCHANGED <<events, life, queues, elems, locals, sequential>>

\* time.Since(keypair.created) >= RejectAfterTime
KeypairAges ==
  /\ Event
  /\ current \notin old \cup {NoKey}
  /\ old' = old \cup {current}
  /\ UNCHANGED <<life, queues, elems, current, derived, sendNonce, pc, locals, sequential>>

ExpireCurrentKeypairs ==
  /\ Event
  /\ current # NoKey
  /\ sendNonce' = [sendNonce EXCEPT ![current] = RejectAfterMessages]
  /\ UNCHANGED <<life, queues, elems, current, derived, old, pc, locals, sequential>>

ZeroKeypairs(t) ==
  /\ From(t, "zero", "flush")
  /\ current' = NoKey
  /\ UNCHANGED <<events, life, queues, elems, derived, sendNonce, old, locals, sequential>>

\* where Down and Close go on when the peer is stopped
AfterStop == IF device = "closed" THEN "closing" ELSE "idle"

FlushStagedPackets(t) ==
  /\ pc[t] = "flush"
  /\ IF staged = <<>>
     THEN Goto(t, IF t = ctl THEN AfterStop ELSE "idle") /\ UNCHANGED <<staged, elems>>
     ELSE Put(Head(staged)) /\ staged' = Tail(staged) /\ UNCHANGED pc
  /\ UNCHANGED <<events, life, outbound, encryption, keys, locals, sequential>>

\* expiredSendKeepalive and expiredPersistentKeepalive, expiredZeroKeyMaterial,
\* expiredRetransmitHandshake.  DelSync keeps the timer from firing while Stop
\* waits for it; a goroutine that saw the peer running may arm it again later
TimerExpires(t) ==
  /\ Event
  /\ pc[ctl] # "timers"
  /\ \E l \in {"keepalive", "zero", "flush"} : From(t, "idle", l)
  /\ UNCHANGED <<life, queues, elems, keys, locals, sequential>>

-----------------------------------------------------------------------------
(* Device.Up, Down and Close; Peer.Start and Stop                          *)

Up ==
  /\ device = "down" /\ device' = "up"
  /\ ups < MaxUp /\ ups' = ups + 1
  /\ From(ctl, "idle", "start")
  /\ UNCHANGED <<events, running, writers, queues, elems, keys, locals, sequential>>

Down ==
  /\ device = "up" /\ device' = "down"
  /\ From(ctl, "idle", "stop")
  /\ UNCHANGED <<events, ups, running, writers, queues, elems, keys, locals, sequential>>

Close ==
  /\ device # "closed" /\ device' = "closed"
  /\ From(ctl, "idle", "stop")
  /\ UNCHANGED <<events, ups, running, writers, queues, elems, keys, locals, sequential>>

Start ==
  /\ From(ctl, "start", "drain")
  /\ writers' = writers + 1
  /\ UNCHANGED <<events, device, ups, running, queues, elems, keys, locals, sequential>>

\* flushOutboundQueue, then the two goroutines of the peer are started
FlushOutbound ==
  /\ pc[ctl] = "drain"
  /\ IF outbound = <<>>
     THEN /\ pc' = [t \in Thread |-> CASE t = ctl -> "run"
                                         [] t \in Receiver -> "idle"
                                         [] OTHER -> pc[t]]
          /\ sender' = "loop"
          /\ UNCHANGED <<outbound, elems>>
     ELSE /\ Unlocked(Head(outbound))
          /\ Put(Head(outbound))
          /\ outbound' = Tail(outbound)
          /\ UNCHANGED <<pc, sender>>
  /\ UNCHANGED <<events, life, staged, encryption, keys, locals, box, wire>>

\* upLocked sends a keepalive when the peer has an interval for it
AfterStart(interval) == IF interval > 0 THEN "keepalive" ELSE "idle"

FinishStart ==
  /\ \E n \in Intervals : From(ctl, "run", AfterStart(n))
  /\ running' = TRUE
  /\ UNCHANGED <<events, device, ups, writers, queues, elems, keys, locals, sequential>>

Stop ==
  /\ pc[ctl] = "stop"
  /\ running' = FALSE
  /\ Goto(ctl, IF running THEN "timers" ELSE AfterStop)
  /\ UNCHANGED <<events, device, ups, writers, queues, elems, keys, locals, sequential>>

\* bug: Del in place of DelSync
StopTimers_NoWait ==
  /\ From(ctl, "timers", "nil")
  /\ UNCHANGED <<events, life, queues, elems, keys, locals, sequential>>

\* timersStop, then the sentinel of the receiver
StopTimers ==
  /\ \A t \in Timer : pc[t] = "idle"
  /\ From(ctl, "timers", "nil")
  /\ UNCHANGED <<events, life, queues, elems, keys, locals, sequential>>

ReceiverExit(t) ==
  /\ pc[ctl] \in {"nil", "wait"}
  /\ From(t, "idle", "off")
  /\ UNCHANGED <<events, life, queues, elems, keys, locals, sequential>>

\* the sentinel of the sender
StopSender ==
  /\ From(ctl, "nil", "wait")
  /\ Len(outbound) < QueueOutboundSize
  /\ outbound' = Append(outbound, Nil)
  /\ UNCHANGED <<events, life, staged, encryption, elems, keys, locals, sequential>>

\* peer.stopping.Wait, and the peer's reference to the encryption queue
StopWait ==
  /\ sender = "off" /\ \A t \in Receiver : pc[t] = "off"
  /\ From(ctl, "wait", "zero")
  /\ writers' = writers - 1
  /\ UNCHANGED <<events, device, ups, running, queues, elems, keys, locals, sequential>>

\* the references of Close to the queues
CloseQueues ==
  /\ From(ctl, "closing", "joining")
  /\ writers' = writers - 1
  /\ UNCHANGED <<events, device, ups, running, queues, elems, keys, locals, sequential>>

\* the TUN reader ends when the TUN device is closed, a handshake worker when
\* the handshake queue is
Exit(t) ==
  /\ \/ t = tun /\ device = "closed"
     \/ t \in Worker /\ pc[ctl] \in {"joining", "closed"}
  /\ From(t, "idle", "off")
  /\ writers' = writers - 1
  /\ UNCHANGED <<events, device, ups, running, queues, elems, keys, locals, sequential>>

\* device.state.stopping.Wait
CloseReturn ==
  /\ pc[tun] = "off"
  /\ From(ctl, "joining", "closed")
  /\ UNCHANGED <<events, life, queues, elems, keys, locals, sequential>>

-----------------------------------------------------------------------------
Step(t) ==
  \/ SendKeepalive(t) \/ OfferKeepalive(t) \/ StagePackets(t) \/ DropTooOld(t)
  \/ SendStagedPackets(t)
  \/ ZeroKeypairs(t) \/ FlushStagedPackets(t)
  \/ Exit(t)

Lifecycle ==
  \/ Start \/ FlushOutbound \/ FinishStart
  \/ Stop \/ StopTimers \/ StopSender \/ StopWait
  \/ CloseQueues \/ CloseReturn

Sender == SenderTake \/ SenderFinish

Next ==
  \/ \E t \in Thread : Step(t)
  \/ Lifecycle \/ Sender \/ RoutineEncryption
  \/ RoutineReadFromTUN
  \/ \E t \in Worker : BeginSymmetricSession(t)
  \/ \E t \in Timer : TimerExpires(t)
  \/ \E t \in Receiver : ReceivedWithKeypair(t) \/ ReceiverExit(t)
  \/ KeypairAges \/ ExpireCurrentKeypairs
  \/ Up \/ Down \/ Close

Spec == Init /\ [][Next]_vars

-----------------------------------------------------------------------------
(* Properties                                                              *)

\* TypeOK: the state variables range over their types, and no channel holds more
\* than its capacity.
TypeOK ==
  /\ device \in {"down", "up", "closed"} /\ running \in BOOLEAN
  /\ ups \in 0..MaxUp /\ events \in 0..MaxEvent
  /\ writers \in Nat
  /\ staged \in Seq(Container) /\ Len(staged) <= QueueStagedSize
  /\ outbound \in Seq(Container \cup {Nil}) /\ Len(outbound) <= QueueOutboundSize
  /\ encryption \subseteq Container
  /\ free \subseteq Elem
  /\ keypair \in [Elem -> 0..MaxKey] /\ nonce \in [Elem -> 0..(NonceSpace - 1)]
  /\ current \in 0..MaxKey /\ derived \in 0..MaxKey
  /\ sendNonce \in [Key -> 0..(NonceSpace - 1)] /\ old \subseteq Key
  /\ pc \in [Thread -> PC]
  /\ key \in [Thread -> 0..MaxKey]
  /\ todo \in [Thread -> Partial] /\ kept \in [Thread -> Partial] /\ late \in [Thread -> Partial]
  /\ again \in [Thread -> BOOLEAN]
  /\ sender \in {"off", "loop", "send", "discard"} /\ box \in Partial
  /\ wire \subseteq Key \X (0..(NonceSpace - 1))

\* NoNonceReuse: no two packets are sealed with the same key and nonce, and none
\* with those of a packet already sent, although several goroutines number
\* packets of the same keypair and race to its last nonce (send.go:356-363).
NoNonceReuse ==
  \A e \in Elem : keypair[e] # NoKey =>
    /\ <<keypair[e], nonce[e]>> \notin wire
    /\ \A f \in Elem \ {e} : <<keypair[f], nonce[f]>> # <<keypair[e], nonce[e]>>

\* the containers that are somewhere: of "enc" only the mutex, the container is
\* in the outbound queue already
Places ==
  {<<"staged", i, staged[i]>> : i \in DOMAIN staged}
    \cup {<<"outbound", i, outbound[i]>> : i \in {j \in DOMAIN outbound : outbound[j] # Nil}}
    \cup {<<"todo", t, todo[t]>> : t \in Thread}
    \cup {<<"kept", t, kept[t]>> : t \in {u \in Thread : pc[u] # "enc"}}
    \cup {<<"late", t, late[t]>> : t \in Thread}
    \cup {<<"sender", 0, box>>}

\* OneHolder: every element of the pool is in the pool or in exactly one
\* container in one place; no path of SendStagedPackets, StagePackets, Stop or
\* Start leaks it or puts it back twice.
OneHolder ==
  \A e \in Elem :
    LET slots == UNION {{<<p, i>> : i \in {j \in DOMAIN p[3] : p[3][j] = e}} : p \in Places}
    IN  Cardinality(slots) = IF e \in free THEN 0 ELSE 1

\* NothingStranded: when the peer runs with a keypair that can be used and no
\* goroutine is under way, no packet is left in the staged queue (nobody would
\* send it before the next packet or keepalive).  A peer without persistent
\* keepalives is excepted: a packet that was staged while the peer was being
\* stopped may wait for the next one.
NothingStranded ==
  (0 \notin Intervals /\ device = "up" /\ running /\ Usable(current) /\ \A t \in Thread : pc[t] \in {"idle", "off"})
    => staged = <<>>

\* QueueStaysOpen: the encryption channel is open as long as a goroutine may
\* still write to it, whatever Stop and Close do meanwhile (a write to a closed
\* channel panics, send.go:386).
QueueStaysOpen == (\E t \in Thread : pc[t] \in {"out", "enc"}) => writers > 0
=============================================================================

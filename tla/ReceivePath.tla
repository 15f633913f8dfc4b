---------------------------- MODULE ReceivePath ----------------------------
(***************************************************************************)
(* A receive goroutine of a device and the message buffers it works with:  *)
(* StdNetBind.receiveIP of conn/bind_std.go, which OrbitX changed to take  *)
(* STUN packets out of a batch, and RoutineReceiveIncoming of              *)
(* device/receive.go, which evaluates the rest of the batch and hands      *)
(* buffers to the handshake workers and to the peer's sequential receiver. *)
(*                                                                         *)
(* RoutineReceiveIncoming keeps two slices: bufsArrs, the arrays it owns,  *)
(* and bufs, the slices of these arrays that it gives to receiveIP.        *)
(***************************************************************************)
EXTENDS Naturals, Sequences, FiniteSets, Positions

CONSTANTS BatchSize,   \* Bind.BatchSize
          Buffer,      \* the message buffers of the pool
          Packet,      \* datagrams, as records [kind, id]
          Blank,       \* content of a buffer that was never written
          QueueSize    \* QueueHandshakeSize

Kind == {"empty",      \* no payload
         "short",      \* below MinMessageSize
         "stun",       \* carries the STUN magic cookie
         "handshake",  \* a handshake message of the right size
         "transport",  \* a transport message of a known session
         "stale",      \* a transport message of an unknown session
         "unknown"}    \* any other datagram

ASSUME BatchAssumption == BatchSize \in Nat \ {0} /\ QueueSize \in Nat
ASSUME PacketAssumption == /\ \A p \in Packet : p.kind \in Kind
                           /\ Blank \notin Packet
ASSUME PoolAssumption == IsFiniteSet(Buffer) /\ Cardinality(Buffer) >= 2 * BatchSize

Pos == 1..BatchSize

MinMessageSize == 32

\* the length of a datagram; a STUN response has a header and one attribute
Size(p) == CASE p.kind = "empty" -> 0
             [] p.kind = "short" -> 20
             [] p.kind = "stun" -> 32
             [] p.kind = "handshake" -> 148
             [] p.kind = "transport" -> 96
             [] p.kind = "stale" -> 80
             [] p.kind = "unknown" -> 60

VARIABLES phase,     \* where RoutineReceiveIncoming is in its loop
          bufsArrs, bufs,
          content,   \* what a buffer holds
          sizes, count,
          i,         \* the loop variable: next element to evaluate
          arrived,   \* history: the datagrams of the batch that are not filtered
          moved,     \* history: positions of the batch whose slice the filter has moved
          astray,    \* history: it has moved a slice in an earlier batch
          byPeer,    \* elemsByPeer: transport messages of this batch
          handshakes,\* the channel of the handshake queue
          inbound,   \* containers given to the decryption workers and the receiver
          free,      \* the pool
          restart    \* UnknownPacketHandler has been called

history == <<arrived, moved, astray>>

vars == <<phase, bufsArrs, bufs, content, sizes, count, i, history, byPeer, handshakes,
          inbound, free, restart>>

Elem == [buf : Buffer, packet : Packet]

TypeOK ==
    /\ phase \in {"recv", "handle", "closed"}
    /\ bufsArrs \in [Pos -> Buffer] /\ bufs \in [Pos -> Buffer]
    /\ content \in [Buffer -> Packet \cup {Blank}]
    /\ sizes \in [Pos -> Nat] /\ count \in 0..BatchSize /\ i \in 1..BatchSize + 1
    /\ arrived \in Seq(Packet) /\ moved \subseteq Pos /\ astray \in BOOLEAN
    /\ byPeer \subseteq Elem /\ inbound \subseteq Elem
    /\ handshakes \in Seq(Elem) /\ Len(handshakes) <= QueueSize
    /\ free \subseteq Buffer
    /\ restart \in BOOLEAN

Init ==
    /\ phase = "recv"
    /\ \E f \in [Pos -> Buffer] :
         /\ \A m, n \in Pos : f[m] = f[n] => m = n
         /\ bufsArrs = f /\ bufs = f
         /\ free = Buffer \ {f[n] : n \in Pos}
    /\ content = [b \in Buffer |-> Blank]
    /\ sizes = [n \in Pos |-> 0] /\ count = 0 /\ i = 1
    /\ arrived = <<>> /\ moved = {} /\ astray = FALSE
    /\ byPeer = {} /\ handshakes = <<>> /\ inbound = {}
    /\ restart = FALSE

(* Names with a suffix (Skipped_...) are faulty variants: they show which  *)
(* property notices the fault and are not used by the specification.       *)

-----------------------------------------------------------------------------
(* receiveIP.                                                              *)

\* ReadBatch writes message n into bufs[n]; if two slices share an array the later wins
ReadBatch(batch) ==
    [b \in Buffer |->
        LET written == {n \in DOMAIN batch : bufs[n] = b} IN
        IF written = {} THEN content[b]
        ELSE batch[CHOOSE n \in written : \A m \in written : m <= n]]

\* a message the filter skips: the STUN test looks at the bytes in the buffer
Skipped(batch, n) ==
    \/ Size(batch[n]) = 0
    \/ Size(batch[n]) >= 20 /\ ReadBatch(batch)[bufs[n]].kind = "stun"

\* the messages it keeps, in order: writeIdx is the position in this sequence
Kept(batch) == InOrder({n \in DOMAIN batch : ~Skipped(batch, n)})

\* the datagrams the bind has no reason to take out, in order
Wanted(batch) ==
    LET s == InOrder({n \in DOMAIN batch : batch[n].kind \notin {"stun", "empty"}})
    IN  [w \in DOMAIN s |-> batch[s[w]]]

\* the slices after the filter: bufs[writeIdx] = bufs[n], the array is not copied
Compact(kept) == [n \in Pos |-> IF n <= Len(kept) THEN bufs[kept[n]] ELSE bufs[n]]

receiveIP(batch) ==
    LET kept == Kept(batch) IN
    /\ phase = "recv"
    /\ content' = ReadBatch(batch)
    /\ bufs' = Compact(kept)
    /\ sizes' = [n \in Pos |-> IF n <= Len(kept) THEN Size(batch[kept[n]]) ELSE sizes[n]]
    /\ count' = Len(kept)
    /\ arrived' = Wanted(batch)
    /\ moved' = {n \in DOMAIN kept : kept[n] # n}
    /\ astray' = (astray \/ moved # {})
    /\ phase' = "handle" /\ i' = 1
    /\ UNCHANGED <<bufsArrs, byPeer, handshakes, inbound, free, restart>>

-----------------------------------------------------------------------------
(* RoutineReceiveIncoming.                                                 *)

ReplaceBuffer_OldSlice ==
    \E b \in free : /\ free' = free \ {b}
                    /\ bufsArrs' = [bufsArrs EXCEPT ![i] = b]
                    /\ UNCHANGED bufs

\* bufsArrs[i] goes to a queue and GetMessageBuffer supplies another array
ReplaceBuffer ==
    \E b \in free : /\ free' = free \ {b}
                    /\ bufsArrs' = [bufsArrs EXCEPT ![i] = b]
                    /\ bufs' = [bufs EXCEPT ![i] = b]

KeepBuffer == UNCHANGED <<free, bufsArrs, bufs>>

\* the non-blocking send to the handshake queue takes its default case
QueueFull == Len(handshakes) = QueueSize

\* one turn of the loop over the batch: the bytes come from bufsArrs[i], the
\* length from sizes[i]
HandlePacket ==
    LET p == content[bufsArrs[i]]
        elem == [buf |-> bufsArrs[i], packet |-> p]
        handshake == p # Blank /\ p.kind = "handshake" /\ sizes[i] = Size(p)
        transport == p # Blank /\ p.kind = "transport"
        unknown == p = Blank \/ p.kind \in {"stun", "unknown", "short", "empty"}
    IN
    /\ phase = "handle" /\ i <= count
    /\ i' = i + 1
    /\ \/ /\ sizes[i] < MinMessageSize
          /\ KeepBuffer /\ UNCHANGED <<byPeer, handshakes, restart>>
       \/ /\ sizes[i] >= MinMessageSize /\ transport
          /\ byPeer' = byPeer \cup {elem}
          /\ ReplaceBuffer /\ UNCHANGED <<handshakes, restart>>
       \/ /\ sizes[i] >= MinMessageSize /\ handshake /\ ~QueueFull
          /\ handshakes' = Append(handshakes, elem)
          /\ ReplaceBuffer /\ UNCHANGED <<byPeer, restart>>
       \/ /\ sizes[i] >= MinMessageSize /\ ~transport
          /\ handshake => QueueFull
          /\ restart' = (restart \/ unknown)
          /\ KeepBuffer /\ UNCHANGED <<byPeer, handshakes>>
    /\ UNCHANGED <<phase, content, sizes, count, history, inbound>>

FlushBatch_Leak ==
    /\ phase = "handle" /\ i > count
    /\ \/ inbound' = inbound \cup byPeer
       \/ UNCHANGED inbound
    /\ byPeer' = {}
    /\ phase' = "recv" /\ arrived' = <<>>
    /\ UNCHANGED <<bufsArrs, bufs, content, sizes, count, i, moved, astray, handshakes, free,
                   restart>>

\* after the loop: the containers go to the queues of a running peer, or their
\* buffers back to the pool
FlushBatch ==
    /\ phase = "handle" /\ i > count
    /\ \/ inbound' = inbound \cup byPeer /\ UNCHANGED free
       \/ free' = free \cup {e.buf : e \in byPeer} /\ UNCHANGED inbound
    /\ byPeer' = {}
    /\ phase' = "recv" /\ arrived' = <<>>
    /\ UNCHANGED <<bufsArrs, bufs, content, sizes, count, i, moved, astray, handshakes,
                   restart>>

\* recv returns net.ErrClosed: the deferred function returns the arrays
Stop ==
    /\ phase = "recv"
    /\ phase' = "closed"
    /\ free' = free \cup {bufsArrs[n] : n \in Pos}
    /\ UNCHANGED <<bufsArrs, bufs, content, sizes, count, i, history, byPeer, handshakes,
                   inbound, restart>>

-----------------------------------------------------------------------------
(* The consumers.                                                          *)

\* RoutineHandshake handles an element and puts its buffer back
RoutineHandshake ==
    /\ handshakes # <<>>
    /\ handshakes' = Tail(handshakes)
    /\ free' = free \cup {Head(handshakes).buf}
    /\ UNCHANGED <<phase, bufsArrs, bufs, content, sizes, count, i, history, byPeer, inbound,
                   restart>>

\* RoutineSequentialReceiver writes an element to the TUN device and puts its buffer back
RoutineSequentialReceiver ==
    \E e \in inbound :
        /\ inbound' = inbound \ {e}
        /\ free' = free \cup {e.buf}
        /\ UNCHANGED <<phase, bufsArrs, bufs, content, sizes, count, i, history, byPeer,
                       handshakes, restart>>

\* the routine has returned and the queues are drained
Terminated ==
    /\ phase = "closed" /\ handshakes = <<>> /\ inbound = {}
    /\ UNCHANGED vars

Batches == UNION {[1..n -> Packet] : n \in Pos}

Next ==
    \/ \E batch \in Batches : receiveIP(batch)
    \/ HandlePacket
    \/ FlushBatch
    \/ Stop
    \/ RoutineHandshake
    \/ RoutineSequentialReceiver
    \/ Terminated

Spec == Init /\ [][Next]_vars

-----------------------------------------------------------------------------
(* Properties.                                                             *)

\* the elements that wait for a consumer
Queued == byPeer \cup inbound \cup {handshakes[n] : n \in DOMAIN handshakes}

Held == IF phase = "closed" THEN {} ELSE {bufsArrs[n] : n \in Pos}

\* Every message buffer has exactly one owner: the pool, the receive routine or a
\* queued element.  No buffer leaks and none is given out twice, although buffers
\* are swapped one by one while a batch is evaluated.
OneOwner ==
    /\ Buffer = free \cup Held \cup {e.buf : e \in Queued}
    /\ free \cap Held = {}
    /\ \A e \in Queued : e.buf \notin free \cup Held
    /\ \A d, e \in Queued : d.buf = e.buf => d = e
    /\ \A m, n \in DOMAIN handshakes : handshakes[m] = handshakes[n] => m = n
    /\ phase # "closed" => \A m, n \in Pos : bufsArrs[m] = bufsArrs[n] => m = n

\* A buffer that waits in a queue is not written again before its consumer has read
\* it: the element still holds the packet it was queued with.
QueuedIntact == \A e \in Queued : content[e.buf] = e.packet

\* The elements the device evaluates are the datagrams of the batch, in order,
\* without those the bind filtered out.
EvaluatesReceived ==
    phase = "handle" =>
        /\ count = Len(arrived)
        /\ \A n \in i..count : content[bufsArrs[n]] = arrived[n] /\ sizes[n] = Size(arrived[n])

\* As far as the filter has not moved slices, the elements are the datagrams of the batch;
\* sizes and count are right in any case.
BatchIntact ==
    phase = "handle" =>
        /\ count = Len(arrived)
        /\ \A n \in i..count :
             /\ sizes[n] = Size(arrived[n])
             /\ n \notin moved => content[bufsArrs[n]] = arrived[n]

\* What waits in the queues and what is evaluated is what arrived, although buffers and
\* slices are swapped separately (RoutineReceiveIncoming, receiveIP), up to and including
\* the first batch in which a datagram that is filtered out stands before another: in that
\* batch it holds of the elements before the filtered one.  A STUN response or an empty
\* datagram at the end of a batch does no harm.
ReceivedIntact == ~astray => QueuedIntact /\ BatchIntact

=============================================================================

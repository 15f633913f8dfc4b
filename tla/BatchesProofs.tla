--------------------------- MODULE BatchesProofs ---------------------------
(***************************************************************************)
(* Proofs about the batched data path.  The receive path (ReceivePath):    *)
(* every message buffer has one owner, whatever arrives, and what is       *)
(* evaluated is what arrived as long as the bind takes nothing out of a    *)
(* batch.  The UDP bind (BindOffload): splitting a read gives back the     *)
(* datagrams that arrived, and what a send puts on the wire, coalesced or  *)
(* not, repeated without offload or not, is what it was given.             *)
(* And the types of both and of the offload of the TUN device, in the      *)
(* specification that the run checks.                                      *)
(***************************************************************************)
EXTENDS MCBatches, OffloadProofs

-----------------------------------------------------------------------------
(* Type correctness.                                                       *)

\* The length of a datagram is a number.
LEMMA SizeType ==
  ASSUME NEW p \in Packet
  PROVE  Size(p) \in Nat
BY PacketAssumption DEF Size, Kind

\* ReadBatch leaves the buffers outside the batch alone and fills the others with
\* datagrams of the batch.
LEMMA ReadBatchType ==
  ASSUME TypeOK, NEW N \in Pos, NEW arrivals \in [1..N -> Packet]
  PROVE  ReadBatch(arrivals) \in [Buffer -> Packet \cup {Blank}]
<1> DEFINE written(b) == {n \in DOMAIN arrivals : bufs[n] = b}
<1>1. N \in Nat
  BY BatchAssumption DEF Pos
<1>2. ASSUME NEW b \in Buffer, written(b) # {}
      PROVE  arrivals[CHOOSE n \in written(b) : \A m \in written(b) : m <= n] \in Packet
  <2>1. written(b) \in SUBSET (1..N)
    OBVIOUS
  <2> HIDE DEF written
  <2>2. \E n \in written(b) : \A m \in written(b) : m <= n
    BY <1>1, <1>2, <2>1, GreatestMember
  <2>3. (CHOOSE n \in written(b) : \A m \in written(b) : m <= n) \in written(b)
    BY <2>2
  <2> QED BY <2>1, <2>3
<1>3. ReadBatch(arrivals) = [b \in Buffer |->
                            IF written(b) = {} THEN content[b]
                            ELSE arrivals[CHOOSE n \in written(b) :
                                          \A m \in written(b) : m <= n]]
  BY DEF ReadBatch
<1>4. ASSUME NEW b \in Buffer PROVE content[b] \in Packet \cup {Blank}
  BY DEF TypeOK
<1> HIDE DEF written
<1> QED BY <1>2, <1>3, <1>4

\* What the filter keeps are positions of the batch, at most as many as it has.
LEMMA KeptType ==
  ASSUME NEW N \in Pos, NEW arrivals \in [1..N -> Packet]
  PROVE  /\ Kept(arrivals) \in Seq(1..N)
         /\ Len(Kept(arrivals)) \in 0..N
         /\ \A w \in 1..Len(Kept(arrivals)) : Kept(arrivals)[w] \in 1..N
<1> DEFINE S == {n \in DOMAIN arrivals : ~Skipped(arrivals, n)}
<1>1. N \in Nat /\ S \in SUBSET (1..N)
  BY BatchAssumption DEF Pos
<1>2. Kept(arrivals) = InOrder(S)
  BY DEF Kept
<1> HIDE DEF S
<1>3. /\ Cardinality(S) \in 0..N
      /\ DOMAIN InOrder(S) = 1..Cardinality(S)
      /\ \A w \in 1..Cardinality(S) : InOrder(S)[w] \in S
  BY <1>1, InOrderMember
<1>4. InOrder(S) \in [1..Cardinality(S) -> 1..N]
  BY <1>1, <1>3 DEF InOrder
<1>5. InOrder(S) \in Seq(1..N) /\ Len(InOrder(S)) = Cardinality(S)
  BY <1>1, <1>3, <1>4
<1> QED BY <1>1, <1>2, <1>3, <1>5

\* The datagrams that should be kept are a sequence of datagrams.
LEMMA WantedType ==
  ASSUME NEW N \in Pos, NEW arrivals \in [1..N -> Packet]
  PROVE  Wanted(arrivals) \in Seq(Packet)
<1> DEFINE S == {n \in DOMAIN arrivals : arrivals[n].kind \notin {"stun", "empty"}}
<1>1. N \in Nat /\ S \in SUBSET (1..N)
  BY BatchAssumption DEF Pos
<1>2. Wanted(arrivals) = [w \in DOMAIN InOrder(S) |-> arrivals[InOrder(S)[w]]]
  BY DEF Wanted
<1> HIDE DEF S
<1>3. /\ Cardinality(S) \in 0..N
      /\ DOMAIN InOrder(S) = 1..Cardinality(S)
      /\ \A w \in 1..Cardinality(S) : InOrder(S)[w] \in S
  BY <1>1, InOrderMember
<1>4. Wanted(arrivals) \in [1..Cardinality(S) -> Packet]
  BY <1>1, <1>2, <1>3
<1> QED BY <1>3, <1>4

\* The slices after the filter are arrays of the pool.
LEMMA CompactType ==
  ASSUME TypeOK, NEW N \in Pos, NEW kept \in Seq(1..N), Len(kept) \in 0..N
  PROVE  Compact(kept) \in [Pos -> Buffer]
<1>1. N \in Nat /\ N <= BatchSize /\ BatchSize \in Nat
  BY BatchAssumption DEF Pos
<1>2. ASSUME NEW n \in Pos, n <= Len(kept) PROVE bufs[kept[n]] \in Buffer
  <2>1. kept[n] \in 1..N
    BY <1>1, <1>2 DEF Pos
  <2>2. kept[n] \in Pos
    BY <1>1, <2>1 DEF Pos
  <2> QED BY <2>2 DEF TypeOK
<1> QED BY <1>2 DEF Compact, TypeOK

\* receiveIP keeps the types.
LEMMA TypeReceive ==
  ASSUME TypeOK, NEW arrivals \in Batches, receiveIP(arrivals)
  PROVE  TypeOK'
<1>1. PICK N \in Pos : arrivals \in [1..N -> Packet]
  BY DEF Batches
<1>2. BatchSize \in Nat \ {0} /\ N \in Nat /\ N <= BatchSize
  BY BatchAssumption DEF Pos
<1>3. PICK kept : kept = Kept(arrivals)
  OBVIOUS
<1>4. kept \in Seq(1..N) /\ Len(kept) \in 0..N /\ \A w \in 1..Len(kept) : kept[w] \in 1..N
  BY <1>1, <1>3, KeptType
<1>5. content' \in [Buffer -> Packet \cup {Blank}]
  BY <1>1, ReadBatchType DEF receiveIP
<1>6. bufs' \in [Pos -> Buffer]
  <2>1. bufs' = Compact(kept)
    BY <1>3 DEF receiveIP
  <2> QED BY <2>1, <1>4, CompactType
<1>7. sizes' \in [Pos -> Nat]
  <2>1. sizes' = [n \in Pos |-> IF n <= Len(kept) THEN Size(arrivals[kept[n]]) ELSE sizes[n]]
    BY <1>3 DEF receiveIP
  <2>2. ASSUME NEW n \in Pos, n <= Len(kept) PROVE Size(arrivals[kept[n]]) \in Nat
    <3>1. kept[n] \in 1..N
      BY <1>2, <1>4, <2>2 DEF Pos
    <3>2. arrivals[kept[n]] \in Packet
      BY <1>1, <3>1
    <3> QED BY <3>2, SizeType
  <2> QED BY <2>1, <2>2 DEF TypeOK
<1>8. count' \in 0..BatchSize
  BY <1>2, <1>3, <1>4 DEF receiveIP
<1>9. arrived' \in Seq(Packet)
  BY <1>1, WantedType DEF receiveIP
<1>10. phase' = "handle" /\ i' = 1
  BY DEF receiveIP
<1>11. UNCHANGED <<bufsArrs, byPeer, handshakes, inbound, free, restart>>
  BY DEF receiveIP
<1>12. moved' \subseteq Pos /\ astray' \in BOOLEAN
  <2>1. moved' = {n \in DOMAIN kept : kept[n] # n} /\ astray' = (astray \/ moved # {})
    BY <1>3 DEF receiveIP
  <2>2. DOMAIN kept \subseteq Pos
    BY <1>2, <1>4 DEF Pos
  <2> QED BY <2>1, <2>2
<1> QED BY <1>2, <1>5, <1>6, <1>7, <1>8, <1>9, <1>10, <1>11, <1>12 DEF TypeOK

\* The turn of the loop finds a position of the batch.
LEMMA TurnInBatch ==
  ASSUME TypeOK, HandlePacket
  PROVE  /\ i \in Pos /\ i \in Nat /\ i + 1 \in 1..BatchSize + 1
         /\ bufsArrs[i] \in Buffer /\ sizes[i] \in Nat
         /\ content[bufsArrs[i]] \in Packet \cup {Blank}
<1>1. BatchSize \in Nat
  BY BatchAssumption
<1>2. i \in 1..BatchSize + 1 /\ count \in 0..BatchSize /\ i <= count
  BY DEF TypeOK, HandlePacket
<1>3. i \in Pos /\ i \in Nat /\ i + 1 \in 1..BatchSize + 1
  BY <1>1, <1>2 DEF Pos
<1> QED BY <1>3 DEF TypeOK

\* What one turn of the loop does: it keeps the buffer and queues nothing, or it queues
\* the buffer for the peer or for the handshake workers and takes another.
LEMMA TurnCases ==
  ASSUME TypeOK, HandlePacket
  PROVE  /\ UNCHANGED <<phase, content, sizes, count, arrived, moved, astray, inbound>>
         /\ i' = i + 1
         /\ \/ UNCHANGED <<free, bufsArrs, bufs, byPeer, handshakes>>
               /\ restart' \in BOOLEAN
            \/ /\ content[bufsArrs[i]] \in Packet
               /\ \E b \in free : /\ free' = free \ {b}
                                  /\ bufsArrs' = [bufsArrs EXCEPT ![i] = b]
                                  /\ bufs' = [bufs EXCEPT ![i] = b]
               /\ UNCHANGED restart
               /\ LET elem == [buf |-> bufsArrs[i], packet |-> content[bufsArrs[i]]] IN
                  \/ byPeer' = byPeer \cup {elem} /\ UNCHANGED handshakes
                  \/ /\ handshakes' = Append(handshakes, elem)
                     /\ Len(handshakes) # QueueSize /\ UNCHANGED byPeer
<1>1. content[bufsArrs[i]] \in Packet \cup {Blank}
  BY TurnInBatch
<1>2. UNCHANGED <<phase, content, sizes, count, arrived, moved, astray, inbound>> /\ i' = i + 1
  BY DEF HandlePacket, history
<1> QED BY <1>1, <1>2 DEF HandlePacket, KeepBuffer, ReplaceBuffer, QueueFull, TypeOK

\* A turn of the loop keeps the types.
LEMMA TypeHandle ==
  ASSUME TypeOK, HandlePacket
  PROVE  TypeOK'
<1>1. /\ i \in Pos /\ i \in Nat /\ i + 1 \in 1..BatchSize + 1
      /\ bufsArrs[i] \in Buffer
  BY TurnInBatch
<1>2. UNCHANGED <<phase, content, sizes, count, arrived, moved, astray, inbound>> /\ i' = i + 1
  BY TurnCases
<1>3. CASE UNCHANGED <<free, bufsArrs, bufs, byPeer, handshakes>> /\ restart' \in BOOLEAN
  BY <1>1, <1>2, <1>3 DEF TypeOK
<1>4. CASE /\ content[bufsArrs[i]] \in Packet
           /\ \E b \in free : /\ free' = free \ {b}
                              /\ bufsArrs' = [bufsArrs EXCEPT ![i] = b]
                              /\ bufs' = [bufs EXCEPT ![i] = b]
           /\ UNCHANGED restart
           /\ LET elem == [buf |-> bufsArrs[i], packet |-> content[bufsArrs[i]]] IN
              \/ byPeer' = byPeer \cup {elem} /\ UNCHANGED handshakes
              \/ /\ handshakes' = Append(handshakes, elem)
                 /\ Len(handshakes) # QueueSize /\ UNCHANGED byPeer
  <2>1. PICK elem : elem = [buf |-> bufsArrs[i], packet |-> content[bufsArrs[i]]]
    OBVIOUS
  <2>2. elem \in Elem
    BY <1>1, <1>4, <2>1 DEF Elem
  <2>3. byPeer' \subseteq Elem
    BY <1>4, <2>1, <2>2 DEF TypeOK
  <2>4. handshakes' \in Seq(Elem) /\ Len(handshakes') <= QueueSize
    <3>1. handshakes \in Seq(Elem) /\ Len(handshakes) <= QueueSize /\ QueueSize \in Nat
      BY BatchAssumption DEF TypeOK
    <3>2. CASE UNCHANGED handshakes
      BY <3>1, <3>2
    <3>3. CASE handshakes' = Append(handshakes, elem) /\ Len(handshakes) # QueueSize
      <4>1. Len(Append(handshakes, elem)) = Len(handshakes) + 1
        BY <3>1, <2>2, AppendProperties
      <4>2. Append(handshakes, elem) \in Seq(Elem)
        BY <3>1, <2>2, AppendProperties
      <4>3. Len(handshakes) \in Nat
        BY <3>1
      <4> QED BY <3>1, <3>3, <4>1, <4>2, <4>3
    <3> QED BY <1>4, <2>1, <3>2, <3>3
  <2>5. free' \subseteq Buffer /\ bufsArrs' \in [Pos -> Buffer] /\ bufs' \in [Pos -> Buffer]
    BY <1>4 DEF TypeOK
  <2>6. restart' \in BOOLEAN
    BY <1>4 DEF TypeOK
  <2> QED BY <1>1, <1>2, <2>3, <2>4, <2>5, <2>6 DEF TypeOK
<1> QED BY <1>3, <1>4, TurnCases

\* Every step keeps the types.
LEMMA TypeStep ==
  ASSUME TypeOK, [Next]_vars
  PROVE  TypeOK'
<1>1. ASSUME NEW arrivals \in Batches, receiveIP(arrivals) PROVE TypeOK'
  BY <1>1, TypeReceive
<1>2. CASE HandlePacket
  BY <1>2, TypeHandle
<1>3. CASE FlushBatch
  <2>1. \A e \in byPeer : e.buf \in Buffer
    BY DEF TypeOK, Elem
  <2>2. arrived' \in Seq(Packet)
    BY <1>3 DEF FlushBatch
  <2>3. phase' = "recv" /\ byPeer' = {}
    BY <1>3 DEF FlushBatch
  <2>4. free' \subseteq Buffer /\ inbound' \subseteq Elem
    BY <1>3, <2>1 DEF FlushBatch, TypeOK
  <2>5. UNCHANGED <<bufsArrs, bufs, content, sizes, count, i, moved, astray, handshakes, restart>>
    BY <1>3 DEF FlushBatch
  <2> QED BY <2>2, <2>3, <2>4, <2>5 DEF TypeOK
<1>4. CASE Stop
  BY <1>4 DEF Stop, history, TypeOK
<1>5. CASE RoutineHandshake
  <2>1. handshakes \in Seq(Elem) /\ handshakes # <<>> /\ Len(handshakes) <= QueueSize
    BY <1>5 DEF RoutineHandshake, TypeOK
  <2>2. /\ Head(handshakes) \in Elem /\ Tail(handshakes) \in Seq(Elem)
        /\ Len(Tail(handshakes)) = Len(handshakes) - 1
    BY <2>1, HeadTailProperties
  <2>3. Len(Tail(handshakes)) <= QueueSize
    BY <2>1, <2>2, BatchAssumption
  <2>4. Head(handshakes).buf \in Buffer
    BY <2>2 DEF Elem
  <2> QED BY <1>5, <2>2, <2>3, <2>4 DEF RoutineHandshake, history, TypeOK
<1>6. CASE RoutineSequentialReceiver
  BY <1>6 DEF RoutineSequentialReceiver, history, TypeOK, Elem
<1>7. CASE UNCHANGED vars
  BY <1>7 DEF vars, history, TypeOK
<1> QED BY <1>1, <1>2, <1>3, <1>4, <1>5, <1>6, <1>7 DEF Next, Terminated

-----------------------------------------------------------------------------
(* One owner for every buffer.                                             *)

\* the elements in the channel of the handshake queue
Shaking == {handshakes[n] : n \in DOMAIN handshakes}

\* An element waits in one place only.  OneOwner alone is not inductive: it speaks of the
\* union of the places, and an element that waits in two of them would still be queued
\* when one consumer has put its buffer back.
OnePlace ==
    /\ byPeer \cap inbound = {}
    /\ Shaking \cap (byPeer \cup inbound) = {}

OwnerInv == TypeOK /\ OneOwner /\ OnePlace

\* At the start the routine holds a batch of arrays and the pool the others.
LEMMA OwnerInit ==
  ASSUME Init
  PROVE  OwnerInv
<1>1. PICK f \in [Pos -> Buffer] :
         /\ \A m, n \in Pos : f[m] = f[n] => m = n
         /\ bufsArrs = f /\ bufs = f
         /\ free = Buffer \ {f[n] : n \in Pos}
  BY DEF Init
<1>2. TypeOK
  <2>1. BatchSize \in Nat \ {0} /\ QueueSize \in Nat
    BY BatchAssumption
  <2>2. handshakes \in Seq(Elem) /\ Len(handshakes) = 0 /\ arrived \in Seq(Packet)
    BY DEF Init
  <2>3. sizes \in [Pos -> Nat] /\ content \in [Buffer -> Packet \cup {Blank}]
    BY DEF Init
  <2>4. phase = "recv" /\ count \in 0..BatchSize /\ i \in 1..BatchSize + 1
    BY <2>1 DEF Init
  <2>5. /\ byPeer = {} /\ inbound = {} /\ restart \in BOOLEAN /\ free \subseteq Buffer
        /\ moved = {} /\ astray = FALSE
    BY <1>1 DEF Init
  <2>6. Len(handshakes) <= QueueSize
    BY <2>1, <2>2
  <2> QED BY <1>1, <2>2, <2>3, <2>4, <2>5, <2>6 DEF TypeOK
<1>3. Queued = {} /\ Shaking = {}
  BY DEF Init, Queued, Shaking
<1>4. Held = {f[n] : n \in Pos}
  BY <1>1 DEF Init, Held
<1>5. \A m, n \in DOMAIN handshakes : handshakes[m] = handshakes[n] => m = n
  BY DEF Init
<1>6. {f[n] : n \in Pos} \subseteq Buffer
  OBVIOUS
<1> QED BY <1>1, <1>2, <1>3, <1>4, <1>5, <1>6 DEF OwnerInv, OneOwner, OnePlace, Init

\* A turn of the loop hands a buffer the routine holds to one queue and takes a free one.
LEMMA OwnerHandle ==
  ASSUME OwnerInv, HandlePacket
  PROVE  OwnerInv'
<1>1. TypeOK /\ OneOwner /\ OnePlace
  BY DEF OwnerInv
<1>2. TypeOK'
  BY <1>1, TypeHandle
<1>3. i \in Pos /\ bufsArrs[i] \in Buffer /\ bufsArrs \in [Pos -> Buffer]
  BY <1>1, TurnInBatch DEF TypeOK
<1>4. phase = "handle" /\ phase' = "handle" /\ UNCHANGED inbound
  BY <1>1, TurnCases DEF HandlePacket
<1>5. CASE UNCHANGED <<free, bufsArrs, bufs, byPeer, handshakes>>
  BY <1>1, <1>2, <1>4, <1>5 DEF OwnerInv, OneOwner, OnePlace, Queued, Held, Shaking
<1>6. CASE /\ \E b \in free : /\ free' = free \ {b}
                              /\ bufsArrs' = [bufsArrs EXCEPT ![i] = b]
           /\ LET elem == [buf |-> bufsArrs[i], packet |-> content[bufsArrs[i]]] IN
              \/ byPeer' = byPeer \cup {elem} /\ UNCHANGED handshakes
              \/ handshakes' = Append(handshakes, elem) /\ UNCHANGED byPeer
  <2>1. PICK b \in free : /\ free' = free \ {b}
                          /\ bufsArrs' = [bufsArrs EXCEPT ![i] = b]
    BY <1>6
  <2>2. PICK elem : elem = [buf |-> bufsArrs[i], packet |-> content[bufsArrs[i]]]
    OBVIOUS
  <2>3. elem.buf = bufsArrs[i]
    BY <2>2
  <2>4. Held = {bufsArrs[n] : n \in Pos} /\ Held' = {bufsArrs'[n] : n \in Pos}
    BY <1>4 DEF Held
  <2>5. elem \notin Queued
    BY <1>1, <1>3, <2>3, <2>4 DEF OneOwner
  <2>6. /\ Held' = (Held \ {bufsArrs[i]}) \cup {b}
        /\ \A m, n \in Pos : bufsArrs'[m] = bufsArrs'[n] => m = n
    <3>1. \A m, n \in Pos : bufsArrs[m] = bufsArrs[n] => m = n
      BY <1>1, <1>4 DEF OneOwner
    <3>2. \A n \in Pos : bufsArrs'[n] = IF n = i THEN b ELSE bufsArrs[n]
      BY <1>3, <2>1
    <3>3. \A n \in Pos : bufsArrs[n] # b
      BY <1>1, <2>1, <2>4 DEF OneOwner
    <3> QED BY <1>3, <2>4, <3>1, <3>2, <3>3
  <2>7. /\ Queued' = Queued \cup {elem} /\ OnePlace'
        /\ \A m, n \in DOMAIN handshakes' : handshakes'[m] = handshakes'[n] => m = n
    <3>1. \A m, n \in DOMAIN handshakes : handshakes[m] = handshakes[n] => m = n
      BY <1>1 DEF OneOwner
    <3>2. CASE byPeer' = byPeer \cup {elem} /\ UNCHANGED handshakes
      BY <1>1, <1>4, <2>5, <3>1, <3>2 DEF OnePlace, Queued, Shaking
    <3>3. CASE handshakes' = Append(handshakes, elem) /\ UNCHANGED byPeer
      <4>1. handshakes \in Seq(Elem) /\ elem \in Elem
        <5>1. handshakes' \in Seq(Elem) /\ handshakes \in Seq(Elem)
          BY <1>1, <1>2 DEF TypeOK
        <5>2. handshakes'[Len(handshakes) + 1] = elem
          BY <3>3, <5>1
        <5>3. Len(handshakes') = Len(handshakes) + 1
          BY <3>3, <5>1
        <5>4. Len(handshakes) \in Nat
          BY <5>1
        <5> QED BY <5>1, <5>2, <5>3, <5>4
      <4>2. /\ Len(handshakes) \in Nat /\ Len(handshakes') = Len(handshakes) + 1
            /\ \A n \in 1..Len(handshakes) : handshakes'[n] = handshakes[n]
            /\ handshakes'[Len(handshakes) + 1] = elem
        BY <3>3, <4>1, AppendProperties
      <4>3. /\ DOMAIN handshakes = 1..Len(handshakes)
            /\ DOMAIN handshakes' = 1..Len(handshakes) \cup {Len(handshakes) + 1}
        <5>1. handshakes' \in Seq(Elem)
          BY <1>2 DEF TypeOK
        <5>2. DOMAIN handshakes' = 1..Len(handshakes) + 1
          BY <4>2, <5>1
        <5> QED BY <4>1, <4>2, <5>2
      <4>4. Shaking' = Shaking \cup {elem}
        BY <4>2, <4>3 DEF Shaking
      <4>5. \A n \in DOMAIN handshakes : handshakes[n] # elem
        BY <2>5 DEF Queued
      <4>6. \A m, n \in DOMAIN handshakes' : handshakes'[m] = handshakes'[n] => m = n
        BY <3>1, <4>2, <4>3, <4>5
      <4>7. Queued = byPeer \cup inbound \cup Shaking
            /\ Queued' = byPeer' \cup inbound' \cup Shaking'
        BY DEF Queued, Shaking
      <4> QED BY <1>1, <1>4, <2>5, <3>3, <4>4, <4>6, <4>7 DEF OnePlace
    <3> QED BY <1>6, <2>2, <3>2, <3>3
  <2>8. bufsArrs[i] \in Held /\ bufsArrs[i] \notin free /\ b \notin Held
    BY <1>1, <1>3, <2>1, <2>4 DEF OneOwner
  <2>9. OneOwner'
    <3>1. /\ Buffer = free \cup Held \cup {e.buf : e \in Queued}
          /\ free \cap Held = {}
          /\ \A e \in Queued : e.buf \notin free \cup Held
          /\ \A d, e \in Queued : d.buf = e.buf => d = e
      BY <1>1 DEF OneOwner
    <3>2. free' = free \ {b} /\ b \in free
      BY <2>1
    <3>3. Buffer = free' \cup Held' \cup {e.buf : e \in Queued'}
      BY <3>1, <3>2, <2>3, <2>6, <2>7, <2>8
    <3>4. free' \cap Held' = {}
      BY <3>1, <3>2, <2>6, <2>8
    <3>5. \A e \in Queued' : e.buf \notin free' \cup Held'
      BY <3>1, <3>2, <2>3, <2>6, <2>7, <2>8
    <3>6. \A d, e \in Queued' : d.buf = e.buf => d = e
      BY <3>1, <2>3, <2>7, <2>8
    <3> QED BY <2>6, <2>7, <3>3, <3>4, <3>5, <3>6 DEF OneOwner
  <2> QED BY <1>2, <2>7, <2>9 DEF OwnerInv
<1> QED BY <1>1, <1>5, <1>6, TurnCases

\* RoutineHandshake takes the first element of the channel and puts its buffer back.
LEMMA OwnerHandshake ==
  ASSUME OwnerInv, RoutineHandshake
  PROVE  OwnerInv'
<1>1. TypeOK /\ OneOwner /\ OnePlace
  BY DEF OwnerInv
<1>2. TypeOK'
  BY <1>1, TypeStep DEF Next
<1>3. handshakes \in Seq(Elem) /\ handshakes # <<>>
  BY <1>1 DEF TypeOK, RoutineHandshake
<1>4. PICK h, t : h = Head(handshakes) /\ t = Tail(handshakes)
  OBVIOUS
<1>5. /\ t \in Seq(Elem) /\ Len(t) = Len(handshakes) - 1
      /\ \A n \in 1..Len(t) : t[n] = handshakes[n + 1]
      /\ h = handshakes[1] /\ h \in Elem
  BY <1>3, <1>4, HeadTailProperties
<1>6. Len(handshakes) \in Nat \ {0} /\ Len(t) \in Nat
      /\ DOMAIN t = 1..Len(t) /\ DOMAIN handshakes = 1..Len(handshakes)
  BY <1>3, <1>5, EmptySeq
<1>7. \A m, n \in DOMAIN handshakes : handshakes[m] = handshakes[n] => m = n
  BY <1>1 DEF OneOwner
<1>8. \A m, n \in DOMAIN t : t[m] = t[n] => m = n
  <2>1. \A n \in DOMAIN t : n \in Nat /\ n + 1 \in DOMAIN handshakes
    BY <1>5, <1>6
  <2> QED BY <1>5, <1>6, <1>7, <2>1
<1>9. handshakes' = t /\ free' = free \cup {h.buf}
      /\ UNCHANGED <<phase, bufsArrs, byPeer, inbound>>
  BY <1>4 DEF RoutineHandshake
<1>10. Shaking' = Shaking \ {h} /\ h \in Shaking
  <2>1. Shaking' = {t[n] : n \in 1..Len(t)}
    BY <1>6, <1>9 DEF Shaking
  <2>2. Shaking = {handshakes[n] : n \in 1..Len(handshakes)}
    BY <1>6 DEF Shaking
  <2>3. \A n \in 1..Len(t) : n + 1 \in 1..Len(handshakes) /\ n + 1 # 1
    BY <1>5, <1>6
  <2>4. \A n \in 1..Len(handshakes) :
           n # 1 => n - 1 \in 1..Len(t) /\ (n - 1) + 1 = n
    BY <1>5, <1>6
  <2>5. 1 \in 1..Len(handshakes)
    BY <1>6
  <2>6. \A n \in 1..Len(t) : t[n] \in Shaking /\ t[n] # h
    BY <1>5, <1>6, <1>7, <2>2, <2>3, <2>5
  <2>7. \A n \in 1..Len(handshakes) : handshakes[n] # h => handshakes[n] \in Shaking'
    <3>1. TAKE n \in 1..Len(handshakes)
    <3>2. HAVE handshakes[n] # h
    <3>3. n # 1
      BY <3>2, <1>5
    <3>4. t[n - 1] = handshakes[n]
      BY <3>3, <2>4, <1>5
    <3> QED BY <3>3, <3>4, <2>4, <2>1
  <2>8. h \in Shaking
    BY <1>5, <2>2, <2>5
  <2> QED BY <2>1, <2>2, <2>6, <2>7, <2>8
<1>11. Queued = byPeer \cup inbound \cup Shaking
       /\ Queued' = byPeer' \cup inbound' \cup Shaking'
  BY DEF Queued, Shaking
<1>12. Queued' = Queued \ {h} /\ h \in Queued /\ OnePlace'
  BY <1>1, <1>9, <1>10, <1>11 DEF OnePlace
<1>13. Held' = Held
  BY <1>9 DEF Held
<1>14. OneOwner'
  <2>1. /\ Buffer = free \cup Held \cup {e.buf : e \in Queued}
        /\ free \cap Held = {}
        /\ \A e \in Queued : e.buf \notin free \cup Held
        /\ \A d, e \in Queued : d.buf = e.buf => d = e
        /\ phase # "closed" => \A m, n \in Pos : bufsArrs[m] = bufsArrs[n] => m = n
    BY <1>1 DEF OneOwner
  <2>2. Buffer = free' \cup Held' \cup {e.buf : e \in Queued'}
    BY <2>1, <1>9, <1>12, <1>13
  <2>3. free' \cap Held' = {}
    BY <2>1, <1>9, <1>12, <1>13
  <2>4. \A e \in Queued' : e.buf \notin free' \cup Held'
    BY <2>1, <1>9, <1>12, <1>13
  <2>5. \A m, n \in DOMAIN handshakes' : handshakes'[m] = handshakes'[n] => m = n
    BY <1>8, <1>9
  <2> QED BY <2>1, <2>2, <2>3, <2>4, <2>5, <1>9, <1>12 DEF OneOwner
<1> QED BY <1>2, <1>12, <1>14 DEF OwnerInv

\* The other steps move elements from one place to the next, or buffers to the pool.
LEMMA OwnerOther ==
  ASSUME OwnerInv,
         \/ \E arrivals \in Batches : receiveIP(arrivals)
         \/ FlushBatch \/ Stop \/ RoutineSequentialReceiver \/ UNCHANGED vars
  PROVE  OwnerInv'
<1>1. TypeOK /\ OneOwner /\ OnePlace
  BY DEF OwnerInv
<1>2. TypeOK'
  BY <1>1, TypeStep DEF Next
<1>3. UNCHANGED <<bufsArrs, handshakes>> /\ UNCHANGED Shaking
  BY DEF receiveIP, FlushBatch, Stop, RoutineSequentialReceiver, vars, Shaking, history
<1>4. Queued = byPeer \cup inbound \cup Shaking
      /\ Queued' = byPeer' \cup inbound' \cup Shaking'
  BY DEF Queued, Shaking
<1>5. CASE (\E arrivals \in Batches : receiveIP(arrivals)) \/ UNCHANGED vars
  <2>1. UNCHANGED <<byPeer, inbound, free>> /\ (phase = "closed" <=> phase' = "closed")
    BY <1>5 DEF receiveIP, vars, history
  <2> QED BY <1>1, <1>2, <1>3, <1>4, <2>1 DEF OwnerInv, OneOwner, OnePlace, Held
<1>6. CASE FlushBatch
  <2>1. Held' = Held /\ phase' # "closed" /\ phase # "closed"
    BY <1>3, <1>6 DEF FlushBatch, Held
  <2>2. CASE inbound' = inbound \cup byPeer /\ byPeer' = {} /\ UNCHANGED free
    <3>1. Queued' = Queued
      BY <1>3, <1>4, <2>2
    <3> QED BY <1>1, <1>2, <1>3, <2>1, <2>2, <3>1 DEF OwnerInv, OneOwner, OnePlace
  <2>3. CASE /\ free' = free \cup {e.buf : e \in byPeer}
             /\ UNCHANGED inbound /\ byPeer' = {}
    <3>1. Queued' = Queued \ byPeer /\ byPeer \subseteq Queued
      BY <1>1, <1>3, <1>4, <2>3 DEF OnePlace
    <3>2. /\ Buffer = free \cup Held \cup {e.buf : e \in Queued}
          /\ free \cap Held = {}
          /\ \A e \in Queued : e.buf \notin free \cup Held
          /\ \A d, e \in Queued : d.buf = e.buf => d = e
      BY <1>1 DEF OneOwner
    <3>3. Buffer = free' \cup Held' \cup {e.buf : e \in Queued'}
      BY <2>1, <2>3, <3>1, <3>2
    <3>4. free' \cap Held' = {} /\ \A e \in Queued' : e.buf \notin free' \cup Held'
      BY <2>1, <2>3, <3>1, <3>2
    <3>5. OnePlace'
      BY <1>1, <1>3, <2>3 DEF OnePlace
    <3>6. OneOwner'
      BY <1>1, <1>3, <2>1, <3>1, <3>2, <3>3, <3>4 DEF OneOwner
    <3> QED BY <1>2, <3>5, <3>6 DEF OwnerInv
  <2> QED BY <1>6, <2>2, <2>3 DEF FlushBatch
<1>7. CASE Stop
  <2>1. Held' = {} /\ free' = free \cup Held /\ phase' = "closed"
    BY <1>7 DEF Stop, Held
  <2>2. UNCHANGED <<byPeer, inbound>>
    BY <1>7 DEF Stop
  <2>3. Queued' = Queued
    BY <1>3, <1>4, <2>2
  <2> QED BY <1>1, <1>2, <1>3, <2>1, <2>2, <2>3 DEF OwnerInv, OneOwner, OnePlace
<1>8. CASE RoutineSequentialReceiver
  <2>1. PICK e \in inbound : inbound' = inbound \ {e} /\ free' = free \cup {e.buf}
    BY <1>8 DEF RoutineSequentialReceiver
  <2>2. UNCHANGED <<phase, byPeer>>
    BY <1>8 DEF RoutineSequentialReceiver
  <2>3. Queued' = Queued \ {e} /\ e \in Queued /\ OnePlace'
    BY <1>1, <1>3, <1>4, <2>1, <2>2 DEF OnePlace
  <2>4. Held' = Held
    BY <1>3, <2>2 DEF Held
  <2>5. /\ Buffer = free \cup Held \cup {d.buf : d \in Queued}
        /\ free \cap Held = {}
        /\ \A d \in Queued : d.buf \notin free \cup Held
        /\ \A c, d \in Queued : c.buf = d.buf => c = d
    BY <1>1 DEF OneOwner
  <2>6. Buffer = free' \cup Held' \cup {d.buf : d \in Queued'}
    BY <2>1, <2>3, <2>4, <2>5
  <2>7. free' \cap Held' = {} /\ \A d \in Queued' : d.buf \notin free' \cup Held'
    BY <2>1, <2>3, <2>4, <2>5
  <2>8. OneOwner'
    BY <1>1, <1>3, <2>2, <2>3, <2>5, <2>6, <2>7 DEF OneOwner
  <2> QED BY <1>2, <2>3, <2>8 DEF OwnerInv
<1> QED BY <1>5, <1>6, <1>7, <1>8

\* Every step keeps the invariant of the owners.
LEMMA OwnerStep ==
  ASSUME OwnerInv, [Next]_vars
  PROVE  OwnerInv'
BY OwnerHandle, OwnerHandshake, OwnerOther DEF Next, Terminated

\* RoutineReceiveIncoming, RoutineHandshake and RoutineSequentialReceiver keep the types
\* for every size of the batch, the queue and the pool.
THEOREM ReceiveTypes == Spec => []TypeOK
<1>1. OwnerInv => TypeOK
  BY DEF OwnerInv
<1> QED BY <1>1, OwnerInit, OwnerStep, PTL DEF Spec

\* Every message buffer has exactly one owner (GetMessageBuffer, PutMessageBuffer and the
\* swaps of RoutineReceiveIncoming), whatever arrives and whatever the bind filters.
THEOREM BuffersHaveOneOwner == Spec => []OneOwner
<1>1. OwnerInv => OneOwner
  BY DEF OwnerInv
<1> QED BY <1>1, OwnerInit, OwnerStep, PTL DEF Spec

-----------------------------------------------------------------------------
(* What is evaluated is what arrived.                                      *)

\* Until the filter moves a slice, the slices the bind writes to are the arrays the routine
\* owns, one for one.
IntactInv == /\ OwnerInv
             /\ ~astray => /\ moved = {} => bufs = bufsArrs
                           /\ QueuedIntact /\ BatchIntact

\* When no two slices share an array, datagram n ends up in slice n and every other
\* buffer keeps its content.
LEMMA ReadBatchPlaces ==
  ASSUME TypeOK, NEW N \in Pos, NEW arrivals \in [1..N -> Packet],
         \A m, n \in Pos : bufs[m] = bufs[n] => m = n
  PROVE  /\ \A n \in 1..N : ReadBatch(arrivals)[bufs[n]] = arrivals[n]
         /\ \A b \in Buffer : (\A n \in Pos : bufs[n] # b) => ReadBatch(arrivals)[b] = content[b]
<1> DEFINE written(b) == {n \in DOMAIN arrivals : bufs[n] = b}
<1>1. N \in Nat /\ 1..N \subseteq Pos
  BY BatchAssumption DEF Pos
<1>2. \A b \in Buffer : ReadBatch(arrivals)[b] =
                          IF written(b) = {} THEN content[b]
                          ELSE arrivals[CHOOSE n \in written(b) : \A m \in written(b) : m <= n]
  BY DEF ReadBatch
<1>3. ASSUME NEW n \in 1..N PROVE ReadBatch(arrivals)[bufs[n]] = arrivals[n]
  <2>1. bufs[n] \in Buffer
    BY <1>1 DEF TypeOK
  <2>2. written(bufs[n]) = {n}
    BY <1>1
  <2>3. n <= n
    BY <1>1
  <2> HIDE DEF written
  <2>4. (CHOOSE k \in written(bufs[n]) : \A m \in written(bufs[n]) : m <= k) = n
    BY <2>2, <2>3
  <2> QED BY <1>2, <2>1, <2>2, <2>4
<1>4. ASSUME NEW b \in Buffer, \A n \in Pos : bufs[n] # b
      PROVE  ReadBatch(arrivals)[b] = content[b]
  <2>1. written(b) = {}
    BY <1>1, <1>4
  <2> HIDE DEF written
  <2> QED BY <1>2, <2>1
<1> QED BY <1>3, <1>4

\* When no two slices share an array, the filter skips exactly the STUN responses and the
\* empty datagrams: what it keeps is what is wanted.
LEMMA KeepsWanted ==
  ASSUME TypeOK, NEW N \in Pos, NEW arrivals \in [1..N -> Packet],
         \A m, n \in Pos : bufs[m] = bufs[n] => m = n
  PROVE  /\ Wanted(arrivals) = [w \in DOMAIN Kept(arrivals) |-> arrivals[Kept(arrivals)[w]]]
         /\ Len(Wanted(arrivals)) = Len(Kept(arrivals))
<1>1. ASSUME NEW n \in 1..N
      PROVE  Skipped(arrivals, n) <=> arrivals[n].kind \in {"stun", "empty"}
  <2>1. arrivals[n] \in Packet
    OBVIOUS
  <2>2. /\ Size(arrivals[n]) = 0 <=> arrivals[n].kind = "empty"
        /\ arrivals[n].kind = "stun" => Size(arrivals[n]) >= 20
    BY <2>1, PacketAssumption DEF Size, Kind
  <2>3. ReadBatch(arrivals)[bufs[n]] = arrivals[n]
    BY ReadBatchPlaces
  <2> QED BY <2>2, <2>3 DEF Skipped
<1>2. {n \in DOMAIN arrivals : ~Skipped(arrivals, n)}
        = {n \in DOMAIN arrivals : arrivals[n].kind \notin {"stun", "empty"}}
  BY <1>1
<1>3. Wanted(arrivals) = [w \in DOMAIN Kept(arrivals) |-> arrivals[Kept(arrivals)[w]]]
  BY <1>2 DEF Wanted, Kept
<1>4. Kept(arrivals) \in Seq(1..N)
  BY KeptType
<1>5. DOMAIN Kept(arrivals) = 1..Len(Kept(arrivals)) /\ Len(Kept(arrivals)) \in Nat
  BY <1>4
<1>6. Len(Wanted(arrivals)) = Len(Kept(arrivals))
  BY <1>3, <1>5
<1> QED BY <1>3, <1>6

\* receiveIP puts the batch into the arrays of the routine and nowhere else, as long as no
\* earlier batch has led the slices astray.
LEMMA IntactReceive ==
  ASSUME IntactInv, NEW arrivals \in Batches, receiveIP(arrivals)
  PROVE  IntactInv'
<1>0. OwnerInv'
  BY OwnerStep DEF Next, IntactInv
<1> SUFFICES ASSUME ~astray'
             PROVE  (moved' = {} => bufs' = bufsArrs') /\ QueuedIntact' /\ BatchIntact'
  BY <1>0 DEF IntactInv
<1>1. OwnerInv /\ TypeOK /\ OneOwner /\ bufs = bufsArrs /\ QueuedIntact
  BY DEF IntactInv, OwnerInv, receiveIP
<1>2. phase = "recv" /\ phase' = "handle" /\ i' = 1
  BY DEF receiveIP
<1>3. PICK N \in Pos : arrivals \in [1..N -> Packet]
  BY DEF Batches
<1>4. N \in Nat \ {0} /\ 1..N \subseteq Pos
  BY BatchAssumption DEF Pos
<1>5. \A m, n \in Pos : bufs[m] = bufs[n] => m = n
  BY <1>1, <1>2 DEF OneOwner
<1>6. PICK kept : kept = Kept(arrivals)
  OBVIOUS
<1>7. /\ kept \in Seq(1..N) /\ Len(kept) \in 0..N
      /\ \A w \in 1..Len(kept) : kept[w] \in 1..N
      /\ DOMAIN kept = 1..Len(kept)
  BY <1>3, <1>6, KeptType
<1>8. /\ arrived' = [w \in DOMAIN kept |-> arrivals[kept[w]]]
      /\ Len(arrived') = Len(kept)
  BY <1>1, <1>3, <1>5, <1>6, KeepsWanted DEF receiveIP
<1>9. /\ content' = ReadBatch(arrivals) /\ count' = Len(kept)
      /\ moved' = {n \in DOMAIN kept : kept[n] # n}
      /\ bufs' = [n \in Pos |-> IF n <= Len(kept) THEN bufs[kept[n]] ELSE bufs[n]]
      /\ sizes' = [n \in Pos |-> IF n <= Len(kept) THEN Size(arrivals[kept[n]]) ELSE sizes[n]]
      /\ UNCHANGED <<bufsArrs, byPeer, handshakes, inbound>>
  BY <1>6 DEF receiveIP, Compact
<1>10. \A n \in Pos : n \in Nat \ {0} /\ (n <= Len(kept) <=> n \in 1..Len(kept))
  BY <1>4, <1>7, BatchAssumption DEF Pos
<1>11. 1..Len(kept) \subseteq Pos /\ 1..Len(kept) \subseteq 1..N
  BY <1>4, <1>7
<1>12. moved' = {} => bufs' = bufsArrs'
  <2>1. SUFFICES ASSUME moved' = {} PROVE bufs' = bufs
    BY <1>1, <1>9
  <2>2. \A n \in 1..Len(kept) : kept[n] = n
    BY <1>7, <1>9, <2>1
  <2>3. \A n \in Pos : bufs'[n] = bufs[n]
    BY <1>9, <1>10, <2>2
  <2>4. bufs \in [Pos -> Buffer] /\ bufs' \in [Pos -> Buffer]
    BY <1>0, <1>1 DEF OwnerInv, TypeOK
  <2> QED BY <2>3, <2>4
<1>13. BatchIntact'
  <2>1. \A n \in 1..Len(kept) : sizes'[n] = Size(arrived'[n])
    BY <1>7, <1>8, <1>9, <1>10, <1>11
  <2>2. ASSUME NEW n \in 1..Len(kept), n \notin moved'
        PROVE  content'[bufsArrs'[n]] = arrived'[n]
    <3>1. kept[n] = n /\ n \in 1..N
      BY <1>7, <1>9, <1>11, <2>2
    <3>2. content'[bufs[n]] = arrivals[n]
      BY <1>1, <1>3, <1>5, <1>9, <3>1, ReadBatchPlaces
    <3> QED BY <1>1, <1>7, <1>8, <1>9, <3>1, <3>2
  <2> QED BY <1>2, <1>8, <1>9, <2>1, <2>2 DEF BatchIntact
<1>14. QueuedIntact'
  <2>1. Queued' = Queued
    BY <1>9 DEF Queued
  <2>2. \A e \in Queued : e.buf \in Buffer /\ \A n \in Pos : bufs[n] # e.buf
    BY <1>1, <1>2 DEF OneOwner, Held
  <2>3. \A e \in Queued : content'[e.buf] = content[e.buf]
    BY <1>1, <1>3, <1>5, <1>9, <2>2, ReadBatchPlaces
  <2> QED BY <1>1, <2>1, <2>3 DEF QueuedIntact
<1> QED BY <1>12, <1>13, <1>14

\* A turn of the loop queues the datagram that arrived, and replaces array and slice.
LEMMA IntactHandle ==
  ASSUME IntactInv, HandlePacket
  PROVE  IntactInv'
<1>1. OwnerInv /\ TypeOK
  BY DEF IntactInv, OwnerInv
<1>2. OwnerInv'
  BY <1>1, OwnerHandle
<1>3. /\ UNCHANGED <<phase, content, sizes, count, arrived, moved, astray, inbound>>
      /\ i' = i + 1 /\ phase = "handle"
  BY <1>1, TurnCases DEF HandlePacket, history
<1> SUFFICES ASSUME ~astray
             PROVE  (moved' = {} => bufs' = bufsArrs') /\ QueuedIntact' /\ BatchIntact'
  BY <1>2, <1>3 DEF IntactInv
<1>0. (moved = {} => bufs = bufsArrs) /\ QueuedIntact /\ BatchIntact
  BY DEF IntactInv
<1>4. i \in Pos /\ i \in Nat /\ count \in Nat /\ bufsArrs \in [Pos -> Buffer]
  BY <1>1, TurnInBatch DEF TypeOK
<1>5. /\ moved' = {} => bufs' = bufsArrs'
      /\ \A n \in Pos : n # i => bufsArrs'[n] = bufsArrs[n]
  <2>1. CASE UNCHANGED <<bufsArrs, bufs>>
    BY <1>0, <1>3, <2>1
  <2>2. CASE \E b \in free : /\ bufsArrs' = [bufsArrs EXCEPT ![i] = b]
                             /\ bufs' = [bufs EXCEPT ![i] = b]
    BY <1>0, <1>3, <1>4, <2>2
  <2> QED BY <1>1, <2>1, <2>2, TurnCases
<1>6. BatchIntact'
  <2>1. \A n \in (i + 1)..count : n \in i..count /\ n # i /\ n \in Pos
    <3>1. count <= BatchSize /\ BatchSize \in Nat /\ i >= 1
      BY <1>1, <1>4, BatchAssumption DEF TypeOK, Pos
    <3> QED BY <1>4, <3>1 DEF Pos
  <2>2. /\ count = Len(arrived)
        /\ \A n \in i..count : /\ sizes[n] = Size(arrived[n])
                               /\ n \notin moved => content[bufsArrs[n]] = arrived[n]
    BY <1>0, <1>3 DEF BatchIntact
  <2> QED BY <1>3, <1>5, <2>1, <2>2 DEF BatchIntact
<1>7. QueuedIntact'
  <2>1. PICK elem : elem = [buf |-> bufsArrs[i], packet |-> content[bufsArrs[i]]]
    OBVIOUS
  <2>2. content[elem.buf] = elem.packet
    BY <2>1
  <2>3. Queued' \subseteq Queued \cup {elem}
    <3>1. CASE UNCHANGED <<byPeer, handshakes>>
      BY <1>3, <3>1 DEF Queued
    <3>2. CASE byPeer' = byPeer \cup {elem} /\ UNCHANGED handshakes
      BY <1>3, <3>2 DEF Queued
    <3>3. CASE handshakes' = Append(handshakes, elem) /\ UNCHANGED byPeer
      <4>1. handshakes \in Seq(Elem) /\ handshakes' \in Seq(Elem)
        BY <1>1, <1>2 DEF OwnerInv, TypeOK
      <4>2. \A n \in DOMAIN handshakes' :
               \/ handshakes'[n] = elem
               \/ n \in DOMAIN handshakes /\ handshakes'[n] = handshakes[n]
        BY <3>3, <4>1
      <4> QED BY <1>3, <3>3, <4>2 DEF Queued
    <3> QED BY <1>1, <2>1, <3>1, <3>2, <3>3, TurnCases
  <2> QED BY <1>0, <1>3, <2>2, <2>3 DEF QueuedIntact
<1> QED BY <1>5, <1>6, <1>7

\* The other steps write to no buffer.
LEMMA IntactOther ==
  ASSUME IntactInv,
         FlushBatch \/ Stop \/ RoutineHandshake \/ RoutineSequentialReceiver \/ UNCHANGED vars
  PROVE  IntactInv'
<1>1. OwnerInv /\ TypeOK
  BY DEF IntactInv, OwnerInv
<1>2. OwnerInv'
  BY <1>1, OwnerStep DEF Next
<1>3. UNCHANGED <<bufsArrs, bufs, content, sizes, count, i, moved, astray>>
  BY DEF FlushBatch, Stop, RoutineHandshake, RoutineSequentialReceiver, vars, history
<1> SUFFICES ASSUME ~astray
             PROVE  (moved' = {} => bufs' = bufsArrs') /\ QueuedIntact' /\ BatchIntact'
  BY <1>2, <1>3 DEF IntactInv
<1>0. (moved = {} => bufs = bufsArrs) /\ QueuedIntact /\ BatchIntact
  BY DEF IntactInv
<1>4. Queued' \subseteq Queued
  <2>1. CASE FlushBatch \/ Stop \/ RoutineSequentialReceiver \/ UNCHANGED vars
    BY <2>1 DEF FlushBatch, Stop, RoutineSequentialReceiver, vars, Queued
  <2>2. CASE RoutineHandshake
    <3>1. handshakes \in Seq(Elem) /\ handshakes # <<>> /\ handshakes' = Tail(handshakes)
          /\ UNCHANGED <<byPeer, inbound>>
      BY <1>1, <2>2 DEF RoutineHandshake, TypeOK
    <3>2. \A n \in DOMAIN handshakes' : n + 1 \in DOMAIN handshakes
                                        /\ handshakes'[n] = handshakes[n + 1]
      BY <3>1
    <3> QED BY <3>1, <3>2 DEF Queued
  <2> QED BY <2>1, <2>2
<1>5. QueuedIntact'
  BY <1>0, <1>3, <1>4 DEF QueuedIntact
<1>6. BatchIntact'
  BY <1>0, <1>3 DEF BatchIntact, FlushBatch, Stop, RoutineHandshake,
                    RoutineSequentialReceiver, vars, history
<1> QED BY <1>0, <1>3, <1>5, <1>6

\* Whatever arrives, STUN responses and empty datagrams included: what
\* RoutineReceiveIncoming evaluates and what waits in the queues is what arrived, in order,
\* up to the first filtered datagram that stands before another, for every size of the
\* batch and the pool.  Behind it that is false: the run with STUN responses shows it.
THEOREM ReceivedStaysIntact == Spec => []ReceivedIntact
<1>1. Init => IntactInv
  <2>1. SUFFICES ASSUME Init PROVE IntactInv
    OBVIOUS
  <2>2. bufs = bufsArrs /\ phase = "recv" /\ Queued = {}
    BY <2>1 DEF Init, Queued
  <2> QED BY <2>1, <2>2, OwnerInit DEF IntactInv, QueuedIntact, BatchIntact
<1>2. IntactInv /\ [Next]_vars => IntactInv'
  BY IntactReceive, IntactHandle, IntactOther DEF Next, Terminated
<1>3. IntactInv => ReceivedIntact
  BY DEF IntactInv, ReceivedIntact
<1> QED BY <1>1, <1>2, <1>3, PTL DEF Spec

-----------------------------------------------------------------------------
(* receiveIP: what the kernel has put together is split again.             *)

\* the tokens of a datagram
Tokens == Nat \X Nat \X Nat

\* an empty datagram
Lost == << <<>> >>

\* what a round of splitCoalescedMessages finds in the message that was made of a train
SplitsBack(t) ==
  /\ t \in Seq(Seq(Tokens))
  /\ Len(t) \in 1..MaxDgrams
  /\ \A j \in 1..Len(t) : t[j] # <<>>
  /\ GROMessage(t).data # <<>>
  /\ Pieces(GROMessage(t)) = t

\* The datagrams of a train.
LEMMA TrainShape ==
  ASSUME NEW k \in Nat, NEW d \in Trains, d # << 0 >>
  PROVE  \E g \in Nat \ {0} : /\ Train(k, d) \in Seq(Seq(Tokens))
                             /\ Len(Train(k, d)) \in 1..MaxDgrams
                             /\ Even(Train(k, d), g) /\ Len(Train(k, d)[1]) = g
<1>1. PICK n \in 1..MaxDgrams : d \in [1..n -> MsgLen]
  BY DEF Trains
<1>2. n \in Nat /\ MaxDgrams \in Nat /\ MsgLen \subseteq Nat \ {0}
  BY BindBounds
<1>3. DOMAIN d = 1..n /\ Len(d) = n /\ \A j \in 1..n : d[j] \in Nat \ {0}
  <2>1. DOMAIN d = 1..n /\ \A j \in 1..n : d[j] \in MsgLen
    BY <1>1
  <2>2. d \in Seq(MsgLen)
    BY <1>1, <1>2
  <2>3. Len(d) = n
    BY <2>1, <2>2, <1>2, LenProperties
  <2> QED BY <2>1, <2>3, <1>2
<1>4. \A j \in 1..n : IF j < n THEN d[j] = d[1] ELSE d[j] <= d[1]
  BY <1>3 DEF Trains
<1>5. PICK t : t = [j \in 1..n |-> [c \in 1..d[j] |-> <<k, j, c>>]]
  OBVIOUS
<1>6. Train(k, d) = t
  BY <1>3, <1>5 DEF Train
<1>7. ASSUME NEW j \in 1..n PROVE t[j] \in Seq(Tokens) /\ Len(t[j]) = d[j]
  <2>1. PICK l \in Nat : l = d[j]
    BY <1>3
  <2>2. t[j] = [c \in 1..l |-> <<k, j, c>>]
    BY <1>5, <2>1
  <2>3. \A c \in 1..l : <<k, j, c>> \in Tokens
    BY <2>1 DEF Tokens
  <2> QED BY <2>1, <2>2, <2>3
<1>8. t \in Seq(Seq(Tokens)) /\ Len(t) = n
  <2>1. PICK S : S = Seq(Tokens)
    OBVIOUS
  <2>2. \A j \in 1..n : t[j] \in S
    BY <2>1, <1>7
  <2>3. t = [j \in 1..n |-> t[j]]
    BY <1>5
  <2>4. t \in Seq(S) /\ Len(t) = n
    BY <2>2, <2>3, <1>2
  <2> QED BY <2>1, <2>4
<1>9. 1 \in 1..n
  BY <1>1, <1>2
<1>10. Even(t, d[1])
  <2>1. ASSUME NEW j \in 1..n
        PROVE  IF j < n THEN Len(t[j]) = d[1] ELSE Len(t[j]) \in 1..d[1]
    <3>1. d[j] \in Nat \ {0} /\ d[1] \in Nat \ {0} /\ Len(t[j]) = d[j]
      BY <1>3, <1>7, <1>9
    <3> QED BY <3>1, <1>4
  <2> QED BY <2>1, <1>8 DEF Even
<1> QED BY <1>1, <1>3, <1>6, <1>7, <1>8, <1>9, <1>10

\* A message made of a train is split into the train.
LEMMA TrainSplits ==
  ASSUME NEW k \in Nat, NEW d \in Trains, d # << 0 >>
  PROVE  SplitsBack(Train(k, d))
<1>0. PICK g \in Nat \ {0} : /\ Train(k, d) \in Seq(Seq(Tokens)) /\ Len(Train(k, d)) \in 1..MaxDgrams
                            /\ Even(Train(k, d), g) /\ Len(Train(k, d)[1]) = g
  BY TrainShape
<1>1. PICK t : /\ t = Train(k, d) /\ t \in Seq(Seq(Tokens)) /\ Len(t) \in 1..MaxDgrams
               /\ Even(t, g) /\ Len(t[1]) = g
  BY <1>0
<1> HIDE <1>0
<1>2. Len(t) \in Nat /\ Len(t) # 0
  BY <1>1
<1>3. PICK data : data = FlattenSeq(t)
  OBVIOUS
<1>4. /\ CutAt(data, g) = t /\ data \in Seq(Tokens)
      /\ Len(data) = (Len(t) - 1) * g + Len(t[Len(t)])
  BY <1>1, <1>2, <1>3, CutEven
<1>5. Len(t[Len(t)]) \in 1..g
  <2>1. PICK n : n = Len(t)
    OBVIOUS
  <2>2. n \in 1..n /\ ~(n < n)
    BY <2>1, <1>2
  <2>3. \A j \in 1..n : IF j < n THEN Len(t[j]) = g ELSE Len(t[j]) \in 1..g
    BY <2>1, <1>1 DEF Even
  <2> QED BY <2>1, <2>2, <2>3
<1>6. Len(data) \in Nat /\ Len(data) # 0
  <2>1. (Len(t) - 1) * g \in Nat
    BY <1>2, Multiples
  <2>2. PICK o, l : o = (Len(t) - 1) * g /\ l = Len(t[Len(t)])
    OBVIOUS
  <2>3. o \in Nat /\ l \in 1..g /\ Len(data) = o + l
    BY <2>1, <2>2, <1>4, <1>5
  <2> QED BY <2>3
<1>7. data # <<>> /\ \A j \in 1..Len(t) : t[j] # <<>>
  <2>1. ASSUME NEW j \in 1..Len(t) PROVE Len(t[j]) # 0
    BY <1>1 DEF Even
  <2> QED BY <1>6, <2>1
<1>8. PICK m : m = GROMessage(t)
  OBVIOUS
<1>9. m.data = data /\ m.gso = IF Len(t) = 1 THEN 0 ELSE g
  BY <1>1, <1>3, <1>8 DEF GROMessage
<1>10. CASE Len(t) # 1
  <2>1. m.gso = g /\ g # 0
    BY <1>9, <1>10
  <2>2. Pieces(m) = CutAt(data, g)
    BY <2>1, <1>9 DEF Pieces, CutAt
  <2> QED BY <2>2, <1>1, <1>4, <1>7, <1>8, <1>9 DEF SplitsBack
<1>11. CASE Len(t) = 1
  <2>1. m.gso = 0
    BY <1>9, <1>11
  <2>2. Pieces(m) = [j \in 1..1 |-> SubSeq(data, (j - 1) * 0 + 1, Len(data))]
    BY <2>1, <1>9 DEF Pieces
  <2>3. (Len(t) - 1) * g = 0 /\ Len(data) = Len(t[1])
    <3>1. (1 - 1) * g = 0
      BY Multiples
    <3> QED BY <3>1, <1>1, <1>4, <1>11
  <2>4. 1 * g = g /\ (1 - 1) * g = 0
    OBVIOUS
  <2>5. t[1] = SubSeq(data, 1, Len(data))
    <3>1. 1 \in 1..((Len(data) + g - 1) \div g)
      <4>1. DOMAIN CutAt(data, g) = 1..((Len(data) + g - 1) \div g)
        BY DEF CutAt
      <4>2. DOMAIN t = 1..1
        BY <1>1, <1>11
      <4> QED BY <4>1, <4>2, <1>4
    <3>2. t[1] = SubSeq(data, (1 - 1) * g + 1, IF 1 * g > Len(data) THEN Len(data) ELSE 1 * g)
      BY <3>1, <1>4 DEF CutAt
    <3>3. t[1] = SubSeq(data, 0 + 1, IF g > Len(data) THEN Len(data) ELSE g)
      BY <3>2, <2>4
    <3>4. Len(data) = g
      BY <2>3, <1>1
    <3> QED BY <3>3, <3>4
  <2>6. Pieces(m) = [j \in 1..1 |-> t[1]]
    BY <2>2, <2>5
  <2>7. t = [j \in 1..1 |-> t[1]]
    BY <1>1, <1>11
  <2> QED BY <2>6, <2>7, <1>1, <1>7, <1>8, <1>9 DEF SplitsBack
<1> QED BY <1>10, <1>11


\* the read of the trains ts: its messages, and what k rounds have split off when e trains
\* stand before the first empty datagram
ReadOf(ts, in) == in = [k \in 1..Len(ts) |-> GROMessage(ts[k])]

SplitUpto(ts, e, k) ==
  IF k <= e THEN [out |-> FlattenSeq(Firsts(ts, k)), end |-> FALSE, overflow |-> FALSE]
  ELSE [out |-> FlattenSeq(Firsts(ts, e)), end |-> TRUE, overflow |-> FALSE]

\* trains that fit in a read
Trained(ts) ==
  /\ ts \in Seq(Seq(Seq(Tokens)))
  /\ Len(ts) <= MaxMsgs \div MaxDgrams
  /\ \A k \in 1..Len(ts) : ts[k] = Lost \/ SplitsBack(ts[k])

\* e trains stand before the first empty datagram
Whole(ts, e) ==
  /\ e \in 0..Len(ts)
  /\ \A k \in 1..e : SplitsBack(ts[k])
  /\ e < Len(ts) => ts[e + 1] = Lost

\* The pieces that the first rounds have stored: at most MaxDgrams for each message.
LEMMA StoredBound ==
  ASSUME NEW ts, Trained(ts)
  PROVE  \A k \in Nat : k <= Len(ts) => Len(FlattenSeq(Firsts(ts, k))) \in 0..(k * MaxDgrams)
<1> DEFINE P == Seq(Tokens)
           Pieces1(k) == FlattenSeq(Firsts(ts, k))
           Bad == {k \in Nat : k <= Len(ts) /\ Len(Pieces1(k)) \notin 0..(k * MaxDgrams)}
<1>1. ts \in Seq(Seq(P)) /\ Len(ts) \in Nat /\ MaxDgrams \in Nat
  BY BindBounds DEF Trained
<1> HIDE DEF P
<1>2. SUFFICES Bad = {}
  OBVIOUS
<1>3. SUFFICES ASSUME Bad # {} PROVE FALSE
  OBVIOUS
<1>4. PICK n \in Bad : \A k \in Bad : n <= k
  <2>1. Bad \in SUBSET Nat
    OBVIOUS
  <2> HIDE DEF Bad
  <2> QED BY <1>3, <2>1, LeastMember
<1>5. n \in Nat /\ n <= Len(ts) /\ Len(Pieces1(n)) \notin 0..(n * MaxDgrams)
  BY <1>4
<1>6. PICK S : S = Seq(P)
  OBVIOUS
<1>7. ts \in Seq(S)
  BY <1>1, <1>6
<1>8. n # 0
  <2>1. Firsts(ts, 0) = <<>>
    BY <1>7, FirstsEnds
  <2>2. FlattenSeq(<<>>) = <<>> /\ Len(<<>>) = 0
    BY DEF FlattenSeq
  <2>3. 0 * MaxDgrams = 0 /\ 0 \in 0..0
    BY <1>1, Multiples
  <2> QED BY <1>5, <2>1, <2>2, <2>3
<1>9. PICK m : m = n - 1
  OBVIOUS
<1>10. m \in Nat /\ m <= Len(ts) /\ ~(n <= m) /\ n \in 1..Len(ts)
  BY <1>1, <1>5, <1>8, <1>9
<1>11. m \notin Bad
  <2> HIDE DEF Bad
  <2> QED BY <1>4, <1>10
<1>12. Len(Pieces1(m)) \in 0..(m * MaxDgrams)
  BY <1>10, <1>11
<1>13. /\ Firsts(ts, m) \in Seq(S) /\ Firsts(ts, n) = Append(Firsts(ts, m), ts[n])
       /\ ts[n] \in S
  <2>1. ts[n] \in S
    BY <1>7, <1>10
  <2>2. Firsts(ts, n - 1) \in Seq(S) /\ Firsts(ts, n) = Append(Firsts(ts, n - 1), ts[n])
    BY <1>7, <1>10, FirstsNext
  <2> QED BY <2>1, <2>2, <1>9, Zenon
<1>14. Pieces1(n) = Pieces1(m) \o ts[n] /\ Pieces1(m) \in Seq(P)
  BY <1>6, <1>13, FlattenAppend, FlattenType
<1>15. Len(Pieces1(n)) = Len(Pieces1(m)) + Len(ts[n])
  BY <1>6, <1>13, <1>14, ConcatProperties
<1>16. Len(ts[n]) \in 1..MaxDgrams
  <2>1. 1 \in 1..MaxDgrams /\ Len(Lost) = 1
    BY BindBounds DEF Lost
  <2> QED BY <2>1, <1>10 DEF Trained, SplitsBack
<1>17. n * MaxDgrams = m * MaxDgrams + MaxDgrams /\ m * MaxDgrams \in Nat
  BY <1>1, <1>5, <1>8, <1>9, <1>10, Multiples
<1>18. PICK a, b, c, e : a = Len(Pieces1(m)) /\ b = Len(ts[n]) /\ c = m * MaxDgrams /\ e = n * MaxDgrams
  OBVIOUS
<1>19. a \in 0..c /\ b \in 1..MaxDgrams /\ c \in Nat /\ e = c + MaxDgrams /\ a + b \notin 0..e
  BY <1>5, <1>12, <1>15, <1>16, <1>17, <1>18
<1> HIDE DEF Bad
<1> QED BY <1>19, <1>1

\* A round splits the next message: the array has room for its pieces in front of it.
LEMMA SplitWhole ==
  ASSUME NEW ts, Trained(ts), NEW in, ReadOf(ts, in), NEW k \in 1..Len(ts),
         NEW e, Whole(ts, e), k <= e
  PROVE  splitStep(in, SplitUpto(ts, e, k - 1), k) = SplitUpto(ts, e, k)
<1>1. PICK m, P, S : m = k - 1 /\ P = Seq(Tokens) /\ S = Seq(P)
  OBVIOUS
<1>2. ts \in Seq(S) /\ Len(ts) \in Nat /\ m \in Nat /\ m <= Len(ts) /\ k \in Nat \ {0}
  BY <1>1 DEF Trained
<1>3. /\ Firsts(ts, m) \in Seq(S) /\ Firsts(ts, k) = Append(Firsts(ts, m), ts[k]) /\ ts[k] \in S
  <2>1. ts[k] \in S
    BY <1>2
  <2>2. Firsts(ts, k - 1) \in Seq(S) /\ Firsts(ts, k) = Append(Firsts(ts, k - 1), ts[k])
    BY <1>2, FirstsNext
  <2> QED BY <2>1, <2>2, <1>1, Zenon
<1>4. PICK s : s = FlattenSeq(Firsts(ts, m))
  OBVIOUS
<1>5. FlattenSeq(Firsts(ts, k)) = s \o ts[k]
  BY <1>1, <1>3, <1>4, FlattenAppend
<1>6. Len(s) \in 0..(m * MaxDgrams)
  BY <1>2, <1>4, StoredBound
<1>7. SplitsBack(ts[k]) /\ in[k] = GROMessage(ts[k])
  BY DEF Whole, ReadOf
<1>8. in[k].data # <<>> /\ Pieces(in[k]) = ts[k] /\ Len(ts[k]) \in 1..MaxDgrams
  BY <1>7 DEF SplitsBack
<1>9. ~(Len(ts[k]) > Room(k, Len(s)))
  <2>1. PICK q, D, M : q = MaxMsgs \div MaxDgrams /\ D = MaxDgrams /\ M = MaxMsgs
    OBVIOUS
  <2>2. D \in Nat \ {0} /\ M \in Nat /\ M % D = 0
    BY <2>1, BindBounds
  <2>3. q \in Nat /\ M = q * D
    <3>1. M \div D \in Nat /\ M = D * (M \div D) + (M % D)
      BY <2>2
    <3>2. M = D * q /\ q \in Nat
      BY <3>1, <2>1, <2>2
    <3>3. D * q = q * D
      BY <3>2, <2>2
    <3> QED BY <3>2, <3>3
  <2>4. k <= q
    BY <1>2, <2>1, <2>3 DEF Trained
  <2>5. PICK w : w = q - k
    OBVIOUS
  <2>6. w \in Nat /\ q = w + k
    BY <2>3, <2>4, <2>5, <1>2
  <2>7. q * D = w * D + k * D /\ k * D = m * D + D /\ w * D \in Nat /\ m * D \in Nat
    <3>1. (w + k) * D = w * D + k * D
      BY <2>2, <2>6, <1>2
    <3> QED BY <3>1, <2>2, <2>6, <1>1, <1>2, Multiples
  <2>8. w <= w * D
    <3>1. w * 1 <= w * D
      <4>1. 1 * w <= D * w
        BY <2>2, <2>6, Multiples
      <4> QED BY <4>1, <2>2, <2>6
    <3> QED BY <3>1, <2>6
  <2>9. PICK wd, md, l, x : wd = w * D /\ md = m * D /\ l = Len(s) /\ x = Len(ts[k])
    OBVIOUS
  <2>10. /\ wd \in Nat /\ md \in Nat /\ l \in 0..md /\ x \in 1..D /\ w <= wd
         /\ M = wd + (md + D)
    <3>1. wd \in Nat /\ md \in Nat /\ w <= wd
      BY <2>7, <2>8, <2>9
    <3>2. l \in 0..md /\ x \in 1..D
      BY <2>1, <2>9, <1>6, <1>8
    <3>3. M = wd + (md + D)
      BY <2>3, <2>7, <2>9
    <3> QED BY <3>1, <3>2, <3>3
  <2>11. Room(k, Len(s)) = (M - q + k) - l
    <3>1. Room(k, Len(s)) = (MaxMsgs - MaxMsgs \div MaxDgrams + k) - Len(s)
      BY DEF Room, PlaceOf
    <3> QED BY <3>1, <2>1, <2>9, Zenon
  <2>12. ~(x > (M - q + k) - l)
    BY ONLY <2>2, <2>6, <2>10, <1>2
  <2> QED BY <2>9, <2>11, <2>12, Zenon
<1>10. SplitUpto(ts, e, m) = [out |-> s, end |-> FALSE, overflow |-> FALSE]
  <2>1. m <= e
    BY <1>1, <1>2 DEF Whole
  <2> QED BY <1>4, <2>1 DEF SplitUpto
<1>11. splitStep(in, SplitUpto(ts, e, m), k) = [out |-> s \o ts[k], end |-> FALSE, overflow |-> FALSE]
  <2>1. PICK r : r = SplitUpto(ts, e, m)
    OBVIOUS
  <2>2. r.out = s /\ r.end = FALSE /\ r.overflow = FALSE
    BY <2>1, <1>10
  <2>3. PICK x, room : x = ts[k] /\ room = Room(k, Len(s))
    OBVIOUS
  <2>4. splitStep(in, r, k) = [out |-> s \o x, end |-> FALSE, overflow |-> FALSE]
    BY <2>2, <2>3, <1>8, <1>9 DEF splitStep
  <2> QED BY <2>1, <2>3, <2>4
<1>12. SplitUpto(ts, e, k) = [out |-> s \o ts[k], end |-> FALSE, overflow |-> FALSE]
  BY <1>5 DEF SplitUpto
<1> QED BY <1>1, <1>11, <1>12

\* A round splits the next message, or the empty datagram has ended the read.
LEMMA SplitRound ==
  ASSUME NEW ts, Trained(ts), NEW in, ReadOf(ts, in), NEW k \in 1..Len(ts), NEW e, Whole(ts, e)
  PROVE  splitStep(in, SplitUpto(ts, e, k - 1), k) = SplitUpto(ts, e, k)
<1>1. CASE k <= e
  BY <1>1, SplitWhole
<1>2. CASE ~(k <= e)
  <2>1. Len(ts) \in Nat /\ k \in Nat /\ e \in Nat
    BY DEF Trained, Whole
  <2>2. PICK m, s, r : m = k - 1 /\ s = FlattenSeq(Firsts(ts, e)) /\ r = SplitUpto(ts, e, m)
    OBVIOUS
  <2>3. r.out = s /\ r.overflow = FALSE /\ (r.end <=> m > e)
    <3>1. m \in Int /\ (m <= e => m = e)
      BY <1>2, <2>1, <2>2
    <3>2. CASE m <= e
      <4>1. r = [out |-> s, end |-> FALSE, overflow |-> FALSE] /\ ~(m > e)
        BY <3>1, <3>2, <2>1, <2>2 DEF SplitUpto
      <4> QED BY <4>1
    <3>3. CASE ~(m <= e)
      <4>1. r = [out |-> s, end |-> TRUE, overflow |-> FALSE] /\ m > e
        BY <3>1, <3>3, <2>1, <2>2 DEF SplitUpto
      <4> QED BY <4>1
    <3> QED BY <3>2, <3>3
  <2>4. m > e \/ in[k].data = <<>>
    <3>1. CASE m > e
      BY <3>1
    <3>2. CASE ~(m > e)
      <4>1. k = e + 1 /\ e < Len(ts)
        BY <1>2, <2>1, <2>2, <3>2
      <4>2. ts[k] = Lost /\ in[k] = GROMessage(ts[k])
        BY <4>1 DEF Whole, ReadOf
      <4>3. FlattenSeq(Lost) = <<>>
        <5>1. <<>> \in Seq(Tokens) /\ Lost = Append(<<>>, <<>>) /\ <<>> \in Seq(Seq(Tokens))
          BY DEF Lost
        <5>2. FlattenSeq(<<>>) = <<>>
          BY DEF FlattenSeq
        <5>3. FlattenSeq(Append(<<>>, <<>>)) = FlattenSeq(<<>>) \o <<>>
          BY <5>1, FlattenAppend
        <5> QED BY <5>1, <5>2, <5>3
      <4> QED BY <4>2, <4>3 DEF GROMessage
    <3> QED BY <3>1, <3>2
  <2>5. splitStep(in, r, k) = [out |-> s, end |-> TRUE, overflow |-> FALSE]
    BY <2>3, <2>4 DEF splitStep
  <2>6. SplitUpto(ts, e, k) = [out |-> s, end |-> TRUE, overflow |-> FALSE]
    BY <1>2, <2>1, <2>2 DEF SplitUpto
  <2> QED BY <2>2, <2>5, <2>6
<1> QED BY <1>1, <1>2

\* The rounds of splitCoalescedMessages give what arrived before the first empty datagram.
LEMMA SplitAll ==
  ASSUME NEW ts, Trained(ts), NEW in, ReadOf(ts, in), NEW e, Whole(ts, e)
  PROVE  splitCoalescedMessages(in) = SplitUpto(ts, e, Len(ts))
<1> DEFINE Rounds(f) == f = [k \in 0..Len(in) |->
                               IF k = 0 THEN NoneSplit ELSE splitStep(in, f[k - 1], k)]
<1>1. PICK S : S = Seq(Seq(Tokens))
  OBVIOUS
<1>2. ts \in Seq(S) /\ Len(ts) \in Nat /\ Len(in) = Len(ts)
  BY <1>1 DEF Trained, ReadOf
<1>3. SplitUpto(ts, e, 0) = NoneSplit
  <2>1. Firsts(ts, 0) = <<>>
    BY <1>2, FirstsEnds
  <2>2. FlattenSeq(<<>>) = <<>>
    BY DEF FlattenSeq
  <2>3. 0 <= e
    BY <1>2 DEF Whole
  <2> QED BY <2>1, <2>2, <2>3 DEF SplitUpto, NoneSplit
<1>4. \E f : Rounds(f)
  <2> DEFINE h == [k \in 0..Len(in) |-> SplitUpto(ts, e, k)]
  <2>1. ASSUME NEW k \in 0..Len(in)
        PROVE  h[k] = IF k = 0 THEN NoneSplit ELSE splitStep(in, h[k - 1], k)
    <3>1. CASE k = 0
      BY <3>1, <1>3
    <3>2. CASE k # 0
      <4>1. k \in 1..Len(ts) /\ k - 1 \in 0..Len(in)
        BY <3>2, <1>2
      <4>2. splitStep(in, SplitUpto(ts, e, k - 1), k) = SplitUpto(ts, e, k)
        BY <4>1, SplitRound
      <4> QED BY <3>2, <4>1, <4>2
    <3> QED BY <3>1, <3>2
  <2>2. h = [k \in 0..Len(in) |-> h[k]]
    OBVIOUS
  <2> HIDE DEF h
  <2>3. Rounds(h)
    BY <2>1, <2>2
  <2> QED BY <2>3
<1>5. PICK f : f = splits(in)
  OBVIOUS
<1>6. Rounds(f)
  BY <1>4, <1>5 DEF splits
<1>7. \A k \in 0..Len(in) : f[k] = IF k = 0 THEN NoneSplit ELSE splitStep(in, f[k - 1], k)
  BY <1>6
<1> HIDE DEF Rounds
<1>8. f[Len(ts)] = SplitUpto(ts, e, Len(ts))
  <2> DEFINE Bad == {k \in Nat : k <= Len(ts) /\ f[k] # SplitUpto(ts, e, k)}
  <2>1. SUFFICES ASSUME Bad # {} PROVE FALSE
    BY <1>2
  <2>2. PICK n \in Bad : \A k \in Bad : n <= k
    <3>1. Bad \in SUBSET Nat
      OBVIOUS
    <3> HIDE DEF Bad
    <3> QED BY <2>1, <3>1, LeastMember
  <2>3. n \in Nat /\ n <= Len(ts) /\ f[n] # SplitUpto(ts, e, n)
    BY <2>2
  <2>4. n # 0
    <3>1. 0 \in 0..Len(in)
      BY <1>2
    <3> QED BY <3>1, <2>3, <1>3, <1>7
  <2>5. PICK m : m = n - 1
    OBVIOUS
  <2>6. m \in Nat /\ m <= Len(ts) /\ ~(n <= m) /\ n \in 1..Len(ts) /\ n \in 0..Len(in)
    BY <1>2, <2>3, <2>4, <2>5
  <2>7. m \notin Bad
    <3> HIDE DEF Bad
    <3> QED BY <2>2, <2>6
  <2>8. f[m] = SplitUpto(ts, e, m)
    BY <2>6, <2>7
  <2>9. f[n] = splitStep(in, SplitUpto(ts, e, n - 1), n)
    BY <2>4, <2>5, <2>6, <2>8, <1>7
  <2> QED BY <2>3, <2>6, <2>9, SplitRound
<1> QED BY <1>2, <1>5, <1>8 DEF splitCoalescedMessages


\* There is a first empty datagram, or none.
LEMMA WholeExists ==
  ASSUME NEW ts, Trained(ts)
  PROVE  \E e : Whole(ts, e)
<1>1. Len(ts) \in Nat
  BY DEF Trained
<1> DEFINE Empty == {k \in Nat : k \in 1..Len(ts) /\ ts[k] = Lost}
<1>2. CASE Empty = {}
  <2>1. ASSUME NEW k \in 1..Len(ts) PROVE SplitsBack(ts[k])
    <3>1. ts[k] # Lost
      BY <1>1, <1>2
    <3> QED BY <3>1 DEF Trained
  <2>2. Whole(ts, Len(ts))
    BY <1>1, <2>1 DEF Whole
  <2> QED BY <2>2
<1>3. CASE Empty # {}
  <2>1. PICK n \in Empty : \A k \in Empty : n <= k
    <3>1. Empty \in SUBSET Nat
      OBVIOUS
    <3> HIDE DEF Empty
    <3> QED BY <1>3, <3>1, LeastMember
  <2>2. PICK e : e = n - 1
    OBVIOUS
  <2>3. e \in 0..Len(ts) /\ e + 1 = n /\ ts[e + 1] = Lost
    BY <1>1, <2>1, <2>2
  <2>4. ASSUME NEW k \in 1..e PROVE SplitsBack(ts[k])
    <3>1. k \in 1..Len(ts) /\ ~(n <= k)
      BY <1>1, <2>1, <2>2, <2>3
    <3>2. ts[k] # Lost
      BY <2>1, <3>1
    <3> QED BY <3>1, <3>2 DEF Trained
  <2>5. Whole(ts, e)
    BY <2>3, <2>4 DEF Whole
  <2> QED BY <2>5
<1> QED BY <1>2, <1>3

\* The datagrams before the first empty one are the beginning of those that arrived.
LEMMA WholeBegins ==
  ASSUME NEW ts, Trained(ts), NEW e, Whole(ts, e)
  PROVE  LET a == FlattenSeq(ts)
             o == FlattenSeq(Firsts(ts, e))
         IN  /\ a \in Seq(Seq(Tokens)) /\ o \in Seq(Seq(Tokens)) /\ Len(o) <= Len(a)
             /\ \A j \in 1..Len(o) : a[j] = o[j] /\ o[j] # <<>>
             /\ Len(o) < Len(a) => a[Len(o) + 1] = <<>>
<1>1. PICK P, S : P = Seq(Tokens) /\ S = Seq(P)
  OBVIOUS
<1>2. ts \in Seq(S) /\ Len(ts) \in Nat /\ e \in Nat /\ e <= Len(ts) /\ ts \in Seq(Seq(P))
  BY <1>1 DEF Trained, Whole
<1>3. Len(ts) <= Len(ts)
  BY <1>2
<1>4. Firsts(ts, Len(ts)) = ts
  BY <1>2, FirstsEnds
<1>5. PICK a, o : a = FlattenSeq(ts) /\ o = FlattenSeq(Firsts(ts, e))
  OBVIOUS
<1>6. /\ a \in Seq(P) /\ o \in Seq(P) /\ Len(o) <= Len(a)
      /\ \A j \in 1..Len(o) : a[j] = o[j]
  BY <1>2, <1>4, <1>5, FlattenBegins
<1>7. From(o, ts, e)
  BY <1>2, <1>5, FlattenFrom
<1>8. ASSUME NEW j \in 1..Len(o) PROVE o[j] # <<>>
  <2>2. PICK k \in 1..e : \E l \in 1..Len(ts[k]) : o[j] = ts[k][l]
    BY <1>7 DEF From
  <2> QED BY <2>2 DEF Whole, SplitsBack
<1>9. ASSUME Len(o) < Len(a) PROVE a[Len(o) + 1] = <<>>
  <2>1. e # Len(ts)
    BY <1>4, <1>5, <1>6, <1>9
  <2>2. PICK n : n = e + 1
    OBVIOUS
  <2>3. n \in Nat /\ n \in 1..Len(ts) /\ n <= Len(ts) /\ n - 1 = e /\ ts[n] = Lost
    BY <1>2, <2>1, <2>2 DEF Whole
  <2>4. Firsts(ts, e) \in Seq(S) /\ Firsts(ts, n) = Append(Firsts(ts, e), ts[n]) /\ ts[n] \in S
    <3>1. Firsts(ts, n - 1) \in Seq(S) /\ Firsts(ts, n) = Append(Firsts(ts, n - 1), ts[n])
      BY <1>2, <2>3, FirstsNext
    <3>2. ts[n] \in S
      BY <1>2, <2>3
    <3> QED BY <3>1, <3>2, <2>3, Zenon
  <2>5. PICK b : b = FlattenSeq(Firsts(ts, n))
    OBVIOUS
  <2>6. b = o \o Lost
    BY <1>1, <1>5, <2>3, <2>4, <2>5, FlattenAppend
  <2>7. Len(b) = Len(o) + 1 /\ b[Len(o) + 1] = <<>>
    BY <1>6, <2>6 DEF Lost
  <2>8. \A j \in 1..Len(b) : a[j] = b[j]
    <3>1. \A j \in 1..Len(FlattenSeq(Firsts(ts, n))) :
            FlattenSeq(Firsts(ts, Len(ts)))[j] = FlattenSeq(Firsts(ts, n))[j]
      BY <1>2, <1>3, <2>3, FlattenBegins, Zenon
    <3> QED BY <3>1, <1>4, <1>5, <2>5
  <2>9. Len(o) + 1 \in 1..Len(b)
    BY <1>6, <2>7
  <2> QED BY <2>7, <2>8, <2>9
<1> QED BY <1>1, <1>5, <1>6, <1>8, <1>9

\* A read gives what arrived, up to the first empty datagram.
LEMMA ReceiveSplits ==
  ASSUME NEW n \in 1..(MaxMsgs \div MaxDgrams), NEW trains \in [1..n -> Trains], Receive(trains)
  PROVE  SplitIntact'
<1>1. DOMAIN trains = 1..n /\ n \in Nat /\ \A k \in 1..n : trains[k] \in Trains /\ k \in Nat
  <2>1. MaxMsgs \in Nat /\ MaxDgrams \in Nat \ {0}
    BY BindBounds
  <2>2. MaxMsgs \div MaxDgrams \in Nat
    BY <2>1
  <2> QED BY <2>2
<1>2. PICK ts, in : /\ ts = [k \in 1..n |-> Train(k, trains[k])]
                    /\ in = [k \in DOMAIN ts |-> GROMessage(ts[k])]
  OBVIOUS
<1>3. ASSUME NEW k \in 1..n
      PROVE  (ts[k] = Lost \/ SplitsBack(ts[k])) /\ ts[k] \in Seq(Seq(Tokens))
  <2>1. ts[k] = Train(k, trains[k]) /\ trains[k] \in Trains /\ k \in Nat
    BY <1>1, <1>2
  <2>2. CASE trains[k] # << 0 >>
    <3>1. SplitsBack(ts[k])
      BY <2>1, <2>2, TrainSplits
    <3> QED BY <3>1 DEF SplitsBack
  <2>3. CASE trains[k] = << 0 >>
    <3>1. Train(k, << 0 >>) = Lost
      BY DEF Train, Lost
    <3>2. Lost \in Seq(Seq(Tokens))
      BY DEF Lost
    <3> QED BY <2>1, <2>3, <3>1, <3>2
  <2> QED BY <2>2, <2>3
<1>4. ts \in Seq(Seq(Seq(Tokens))) /\ Len(ts) = n
  <2>1. PICK S : S = Seq(Seq(Tokens))
    OBVIOUS
  <2>2. \A k \in 1..n : ts[k] \in S
    BY <2>1, <1>3
  <2>3. ts = [k \in 1..n |-> ts[k]]
    BY <1>2
  <2>4. ts \in Seq(S) /\ Len(ts) = n
    BY <2>2, <2>3, <1>1
  <2> QED BY <2>1, <2>4
<1>5. Trained(ts)
  <2>1. n <= MaxMsgs \div MaxDgrams
    BY BindBounds
  <2> QED BY <2>1, <1>3, <1>4 DEF Trained
<1>6. DOMAIN ts = 1..Len(ts)
  BY <1>2, <1>4
<1>7. ReadOf(ts, in)
  BY <1>2, <1>6 DEF ReadOf
<1>8. PICK r : r = splitCoalescedMessages(in)
  OBVIOUS
<1>9. PICK e : Whole(ts, e)
  BY <1>5, WholeExists
<1>10. PICK a, o : a = FlattenSeq(ts) /\ o = FlattenSeq(Firsts(ts, e))
  OBVIOUS
<1>11. r.out = o /\ r.overflow = FALSE
  <2>1. r = SplitUpto(ts, e, n)
    BY <1>4, <1>5, <1>7, <1>8, <1>9, SplitAll
  <2>2. n <= e => n = e
    BY <1>1, <1>4, <1>9 DEF Whole
  <2> QED BY <2>1, <2>2, <1>10 DEF SplitUpto
<1>12. rcv' = [arrived |-> FlattenSeq(ts), out |-> IF r.overflow THEN <<>> ELSE r.out,
               overflow |-> r.overflow]
  BY <1>1, <1>2, <1>8, Zenon DEF Receive
<1>13. rcv'.arrived = a /\ rcv'.out = o /\ rcv'.overflow = FALSE
  BY <1>10, <1>11, <1>12
<1>14. /\ a \in Seq(Seq(Tokens)) /\ o \in Seq(Seq(Tokens)) /\ Len(o) <= Len(a)
       /\ \A j \in 1..Len(o) : a[j] = o[j] /\ o[j] # <<>>
       /\ Len(o) < Len(a) => a[Len(o) + 1] = <<>>
  BY <1>5, <1>9, <1>10, WholeBegins
<1>15. PICK l : l = Len(o)
  OBVIOUS
<1>16. /\ l \in 0..Len(a) /\ \A m \in 1..l : a[m] # <<>>
       /\ l < Len(a) => a[l + 1] = <<>>
  BY <1>14, <1>15
<1>17. o = SubSeq(a, 1, l)
  <2>1. PICK D : D = Seq(Tokens)
    OBVIOUS
  <2>2. a \in Seq(D) /\ o \in Seq(D) /\ l <= Len(a) /\ l = Len(o) /\ \A j \in 1..l : a[j] = o[j]
    BY <2>1, <1>14, <1>15
  <2> QED BY <2>2
<1> QED BY <1>13, <1>16, <1>17 DEF SplitIntact

\* Every read gives the datagrams that arrived, whole and in their order, up to the first
\* empty one, which ends it, and no read is an error: receiveIP puts the messages of the
\* kernel so far back in the array that splitCoalescedMessages has room for all pieces, for
\* every length of datagrams, 0 included, and every size of the array.
THEOREM ReadsAreSplit == BindSpec => []SplitIntact
<1>1. BindInit => SplitIntact
  BY DEF BindInit, SplitIntact, NothingRead
<1>2. SplitIntact /\ [BindNext]_bindVars => SplitIntact'
  <2>1. SUFFICES ASSUME SplitIntact, [BindNext]_bindVars PROVE SplitIntact'
    OBVIOUS
  <2>2. ASSUME rcv' = rcv PROVE SplitIntact'
    BY <2>1, <2>2 DEF SplitIntact
  <2>3. CASE UNCHANGED bindVars
    BY <2>2, <2>3 DEF bindVars
  <2>4. ASSUME NEW p \in Port \cup {0}, Open(p) PROVE SplitIntact'
    BY <2>2, <2>4 DEF Open
  <2>5. CASE ListenV4
    BY <2>2, <2>5 DEF ListenV4
  <2>6. CASE ListenV6
    BY <2>2, <2>6 DEF ListenV6
  <2>7. CASE ListenV6Fails
    BY <2>2, <2>7 DEF ListenV6Fails
  <2>8. CASE Close
    BY <2>2, <2>8 DEF Close
  <2>9. ASSUME NEW lens, Send(lens) PROVE SplitIntact'
    BY <2>2, <2>9 DEF Send
  <2>10. CASE PrepareMessages \/ WriteBatch
    BY <2>2, <2>10 DEF PrepareMessages, WriteBatch
  <2>11. CASE Refuse \/ DisableOffload \/ WriteFails \/ SendReturns
    BY <2>2, <2>11 DEF Refuse, DisableOffload, WriteFails, SendReturns
  <2>12. ASSUME NEW k \in 1..(MaxMsgs \div MaxDgrams), NEW t \in [1..k -> Trains], Receive(t)
         PROVE  SplitIntact'
    BY <2>12, ReceiveSplits
  <2>13. CASE ReceiveReturns
    BY <2>13 DEF ReceiveReturns, NothingRead, SplitIntact
  <2>14. CASE BindTerminated
    BY <2>3, <2>14 DEF BindTerminated
  <2> QED BY <2>1, <2>3, <2>4, <2>5, <2>6, <2>7, <2>8, <2>9, <2>10, <2>11, <2>12, <2>13, <2>14
          DEF BindNext
<1> QED BY <1>1, <1>2, PTL DEF BindSpec

-----------------------------------------------------------------------------
(* coalesceMessages.                                                       *)

\* data is the messages after lo up to hi, put together with segments of size g
Group(bb, lo, hi, g, data) ==
  /\ lo \in Nat /\ hi \in Nat /\ g \in Nat \ {0}
  /\ lo < hi /\ hi <= Len(bb)
  /\ \A j \in (lo + 1)..hi : IF j < hi THEN Len(bb[j]) = g ELSE Len(bb[j]) \in 1..g
  /\ data = FlattenSeq(Part(bb, lo, hi))

\* Flattening one sequence gives it.
LEMMA FlattenOne ==
  ASSUME NEW T, NEW pp \in Seq(Seq(T)), Len(pp) = 1
  PROVE  FlattenSeq(pp) = pp[1] /\ pp = <<pp[1]>>
<1>1. PICK S : S = Seq(T)
  OBVIOUS
<1>2. pp \in Seq(S) /\ Len(pp) \in Nat /\ Len(pp) # 0
  BY <1>1
<1>3. PICK g : Flat(pp, g) /\ FlattenSeq(pp) = g[Len(pp)]
  BY <1>2, FlattenUnfold
<1>4. 1 \in 1..Len(pp)
  OBVIOUS
<1>5. g[1] = pp[1]
  BY <1>3, <1>4 DEF Flat
<1>6. pp = <<pp[1]>>
  BY <1>2
<1> QED BY <1>3, <1>5, <1>6

\* m has the control of a group
Controlled(lo, hi, g, m) == m.oob = IF hi - lo > 1 THEN g ELSE 0

\* The kernel cuts a group into its messages.
LEMMA GroupSegments ==
  ASSUME NEW T, NEW bb \in Seq(Seq(T)), NEW lo, NEW hi, NEW g, NEW m, Group(bb, lo, hi, g, m.data),
         Controlled(lo, hi, g, m)
  PROVE  Segmented(m) = Part(bb, lo, hi)
<1> USE DEF Controlled
<1>1. PICK pp, S, n : pp = Part(bb, lo, hi) /\ S = Seq(T) /\ n = hi - lo
  OBVIOUS
<1>2. lo \in Nat /\ hi \in Nat /\ g \in Nat \ {0} /\ lo < hi /\ lo <= hi /\ hi <= Len(bb) /\ bb \in Seq(S)
  BY <1>1 DEF Group
<1>3. n \in Nat \ {0}
  BY <1>1, <1>2
<1>4. pp \in Seq(S) /\ Len(pp) = n /\ \A j \in 1..n : pp[j] = bb[lo + j]
  <2>1. /\ Part(bb, lo, hi) \in Seq(S) /\ Len(Part(bb, lo, hi)) = hi - lo
        /\ \A j \in 1..(hi - lo) : Part(bb, lo, hi)[j] = bb[lo + j]
    BY <1>2, PartShape
  <2> QED BY <2>1, <1>1, Zenon
<1>5. Even(pp, g)
  <2>1. ASSUME NEW j \in 1..n PROVE IF j < n THEN Len(pp[j]) = g ELSE Len(pp[j]) \in 1..g
    <3>1. PICK k : k = lo + j
      OBVIOUS
    <3>2. k \in (lo + 1)..hi /\ (k < hi <=> j < n)
      BY <3>1, <1>1, <1>2
    <3>3. IF k < hi THEN Len(bb[k]) = g ELSE Len(bb[k]) \in 1..g
      BY <3>2 DEF Group
    <3>4. pp[j] = bb[k]
      BY <3>1, <1>4
    <3> QED BY <3>2, <3>3, <3>4
  <2> QED BY <2>1, <1>4 DEF Even
<1>6. m.data = FlattenSeq(pp) /\ pp \in Seq(Seq(T)) /\ Len(pp) # 0
  BY <1>1, <1>3, <1>4 DEF Group
<1>7. CutAt(FlattenSeq(pp), g) = pp /\ FlattenSeq(pp) \in Seq(T)
  BY <1>2, <1>5, <1>6, CutEven
<1>8. CASE n > 1
  <2>1. m.oob = g /\ m.oob # 0
    BY <1>1, <1>2, <1>8
  <2>2. Segmented(m) = CutAt(m.data, g)
    BY <2>1 DEF Segmented, CutAt
  <2> QED BY <2>2, <1>1, <1>6, <1>7
<1>9. CASE ~(n > 1)
  <2>1. m.oob = 0 /\ n = 1
    BY <1>1, <1>3, <1>9
  <2>2. FlattenSeq(pp) = pp[1] /\ pp = <<pp[1]>>
    BY <2>1, <1>4, <1>6, FlattenOne
  <2>3. Segmented(m) = <<m.data>>
    BY <2>1 DEF Segmented
  <2> QED BY <2>2, <2>3, <1>1, <1>6, <1>7
<1> QED BY <1>8, <1>9

\* A message joins a group that is not complete.
LEMMA GroupJoins ==
  ASSUME NEW T, NEW bb \in Seq(Seq(T)), NEW lo, NEW hi, NEW g, NEW data, Group(bb, lo, hi, g, data),
         Len(bb[hi]) = g, NEW k, k = hi + 1, k <= Len(bb), Len(bb[k]) \in 1..g
  PROVE  Group(bb, lo, k, g, data \o bb[k])
<1>1. PICK S : S = Seq(T)
  OBVIOUS
<1>2. lo \in Nat /\ hi \in Nat /\ g \in Nat \ {0} /\ lo < hi /\ lo <= hi /\ hi <= Len(bb) /\ bb \in Seq(S)
      /\ hi + 1 <= Len(bb) /\ k \in Nat /\ lo < k /\ k \in 1..Len(bb)
  BY <1>1 DEF Group
<1>3. Part(bb, lo, k) = Append(Part(bb, lo, hi), bb[k])
  <2>1. Part(bb, lo, hi + 1) = Append(Part(bb, lo, hi), bb[hi + 1])
    BY <1>2, PartNext
  <2> QED BY <2>1
<1>4. Part(bb, lo, hi) \in Seq(S) /\ bb[k] \in S
  <2>1. bb[k] \in S
    BY <1>2
  <2> QED BY <2>1, <1>2, PartShape
<1>5. FlattenSeq(Part(bb, lo, k)) = FlattenSeq(Part(bb, lo, hi)) \o bb[k]
  BY <1>1, <1>3, <1>4, FlattenAppend
<1>6. ASSUME NEW j \in (lo + 1)..k PROVE IF j < k THEN Len(bb[j]) = g ELSE Len(bb[j]) \in 1..g
  <2>1. CASE j = k
    BY <2>1, <1>2
  <2>2. CASE j = hi
    BY <2>2, <1>2
  <2>3. CASE j # k /\ j # hi
    <3>1. j \in (lo + 1)..hi /\ j < hi /\ j < k
      BY <2>3, <1>2
    <3> QED BY <3>1 DEF Group
  <2> QED BY <2>1, <2>2, <2>3
<1> QED BY <1>2, <1>5, <1>6 DEF Group

\* A message begins a group.
LEMMA GroupOpens ==
  ASSUME NEW T, NEW bb \in Seq(Seq(T)), NEW hi \in Nat, NEW k, k = hi + 1, k <= Len(bb),
         Len(bb[k]) \in Nat \ {0}
  PROVE  Group(bb, hi, k, Len(bb[k]), bb[k])
<1>1. PICK S : S = Seq(T)
  OBVIOUS
<1>2. k \in Nat /\ hi < k /\ hi <= k /\ bb \in Seq(S) /\ 1 \in 1..(k - hi) /\ hi + 1 = k /\ k - hi = 1
  BY <1>1
<1>3. /\ Part(bb, hi, k) \in Seq(S) /\ Len(Part(bb, hi, k)) = k - hi
      /\ \A j \in 1..(k - hi) : Part(bb, hi, k)[j] = bb[hi + j]
  <2>1. k \in Nat /\ hi \in Nat /\ hi <= k /\ k <= Len(bb) /\ bb \in Seq(S)
    BY <1>2
  <2> QED BY ONLY <2>1, PartShape
<1>4. PICK pp : pp = Part(bb, hi, k)
  OBVIOUS
<1>5. pp \in Seq(Seq(T)) /\ Len(pp) = 1 /\ pp[1] = bb[k]
  BY <1>1, <1>2, <1>3, <1>4
<1>6. FlattenSeq(pp) = bb[k]
  BY <1>5, FlattenOne
<1>7. ASSUME NEW j \in (hi + 1)..k
      PROVE  IF j < k THEN Len(bb[j]) = Len(bb[k]) ELSE Len(bb[j]) \in 1..Len(bb[k])
  <2>1. j = k
    BY <1>2
  <2> QED BY <2>1, <1>2
<1> QED BY <1>2, <1>4, <1>6, <1>7 DEF Group


\* the messages of the pool, and the state of the loop of coalesceMessages
Message == [data : Seq(Nat \X Nat), oob : Nat]

Pooled == [1..MaxMsgs -> Message]

BatchLists == [msgs : Pooled, base : Nat, gsoSize : Nat, dgramCnt : Nat, endBatch : BOOLEAN]

\* the arguments of Send
Called(bb) ==
  /\ bb \in Seq(Seq(Nat \X Nat))
  /\ Len(bb) \in 1..MaxMsgs
  /\ \A j \in 1..Len(bb) : bb[j] \in Seq(Nat \X Nat) /\ Len(bb[j]) \in Nat \ {0}

\* the state after a message has joined the last one, and after it has begun another one
JoinedAs(bb, b, k, u) ==
  /\ u \in BatchLists
  /\ u.base = b.base /\ u.gsoSize = b.gsoSize /\ u.dgramCnt = b.dgramCnt + 1
  /\ ~ u.endBatch => Len(bb[k]) >= b.gsoSize
  /\ u.msgs[b.base].data = b.msgs[b.base].data \o bb[k]
  /\ u.msgs[b.base].oob = IF k = Len(bb) THEN setGSOSize(b.msgs[b.base].oob, b.gsoSize)
                                         ELSE b.msgs[b.base].oob
  /\ \A j \in (1..MaxMsgs) \ {b.base} : u.msgs[j] = b.msgs[j]

OpenedAs(bb, b, k, u) ==
  /\ u \in BatchLists
  /\ u.base = b.base + 1 /\ u.gsoSize = Len(bb[k]) /\ u.dgramCnt = 1
  /\ u.msgs[b.base + 1].data = bb[k]
  /\ u.msgs[b.base + 1].oob = setSrcControl(b.msgs[b.base + 1].oob)
  /\ b.base # 0 => /\ u.msgs[b.base].data = b.msgs[b.base].data
                   /\ u.msgs[b.base].oob = IF b.dgramCnt > 1
                                           THEN setGSOSize(b.msgs[b.base].oob, b.gsoSize)
                                           ELSE b.msgs[b.base].oob
  /\ \A j \in (1..MaxMsgs) \ {b.base, b.base + 1} : u.msgs[j] = b.msgs[j]

\* setGSOSize and setSrcControl give controls.
LEMMA Controls ==
  ASSUME NEW oob \in Nat, NEW g \in Nat
  PROVE  setGSOSize(oob, g) \in Nat /\ setSrcControl(oob) \in Nat
         /\ setGSOSize(0, g) = g /\ setSrcControl(0) = 0
  BY DEF setGSOSize, setSrcControl

\* A message joins the last one.
LEMMA JoinParts ==
  ASSUME NEW bb, Called(bb), NEW b \in BatchLists, NEW k \in 2..Len(bb), b.base \in 1..MaxMsgs,
         Joins(b, bb[k]), NEW u, u = coalesceStep(bb, b, k)
  PROVE  JoinedAs(bb, b, k, u)
<1>1. PICK n, x, m : n = b.base /\ x = bb[k] /\ m = b.msgs[n]
  OBVIOUS
<1>2. /\ x \in Seq(Nat \X Nat) /\ Len(x) \in Nat /\ n \in 1..MaxMsgs /\ k > 1
      /\ b.msgs \in Pooled /\ m.data \in Seq(Nat \X Nat) /\ m.oob \in Nat /\ m \in Message
      /\ b.gsoSize \in Nat /\ b.dgramCnt \in Nat
  <2>1. k \in 1..Len(bb) /\ k > 1
    BY DEF Called
  <2>2. b.msgs \in Pooled /\ n \in 1..MaxMsgs /\ b.gsoSize \in Nat /\ b.dgramCnt \in Nat
    BY <1>1 DEF BatchLists
  <2>3. m \in Message
    BY <2>2, <1>1 DEF Pooled
  <2>4. m.data \in Seq(Nat \X Nat) /\ m.oob \in Nat
    BY <2>3 DEF Message
  <2>5. x \in Seq(Nat \X Nat) /\ Len(x) \in Nat
    BY <2>1, <1>1 DEF Called
  <2> QED BY <2>1, <2>2, <2>3, <2>4, <2>5
<1>3. PICK oob : oob = IF k = Len(bb) THEN setGSOSize(m.oob, b.gsoSize) ELSE m.oob
  OBVIOUS
<1>4. oob \in Nat /\ m.data \o x \in Seq(Nat \X Nat)
  <2>1. m.data \o x \in Seq(Nat \X Nat)
    BY <1>2, ConcatProperties
  <2>2. setGSOSize(m.oob, b.gsoSize) \in Nat
    BY <1>2, Controls
  <2> QED BY <2>1, <2>2, <1>2, <1>3
<1>5. PICK ms : ms = [b.msgs EXCEPT ![n] = [data |-> m.data \o x, oob |-> oob]]
  OBVIOUS
<1>6. /\ ms \in Pooled /\ ms[n].data = m.data \o x /\ ms[n].oob = oob
      /\ \A j \in (1..MaxMsgs) \ {n} : ms[j] = b.msgs[j]
  BY <1>2, <1>4, <1>5 DEF Pooled, Message
<1>7. u = [msgs |-> ms, base |-> n, gsoSize |-> b.gsoSize, dgramCnt |-> b.dgramCnt + 1,
           endBatch |-> Len(x) < b.gsoSize]
  <2>1. u = [b EXCEPT !.msgs[n].data = @ \o x,
                      !.msgs[n].oob = IF k = Len(bb) THEN setGSOSize(@, b.gsoSize) ELSE @,
                      !.dgramCnt = @ + 1, !.endBatch = Len(x) < b.gsoSize]
    BY <1>1, <1>2 DEF coalesceStep
  <2>2. b = [msgs |-> b.msgs, base |-> n, gsoSize |-> b.gsoSize, dgramCnt |-> b.dgramCnt,
             endBatch |-> b.endBatch]
    BY <1>1 DEF BatchLists
  <2>3. PICK e1, e2, e3 : /\ e1 = [b EXCEPT !.msgs[n].data = @ \o x]
                          /\ e2 = [e1 EXCEPT !.msgs[n].oob = oob]
                          /\ e3 = [e2 EXCEPT !.dgramCnt = b.dgramCnt + 1]
    OBVIOUS
  <2>4. u = [e3 EXCEPT !.endBatch = Len(x) < b.gsoSize]
    BY <2>1, <2>3, <1>1, <1>3, Zenon
  <2>5. PICK m1, ms1 : m1 = [data |-> m.data \o x, oob |-> m.oob] /\ ms1 = [b.msgs EXCEPT ![n] = m1]
    OBVIOUS
  <2>6. [m EXCEPT !.data = m.data \o x] = m1
    <3>1. PICK d : d = m.data \o x
      OBVIOUS
    <3>2. m = [data |-> m.data, oob |-> m.oob]
      BY <1>2 DEF Message
    <3>3. [m EXCEPT !.data = d] = [data |-> d, oob |-> m.oob]
      BY <3>2
    <3> QED BY <3>1, <3>3, <2>5, Zenon
  <2>7. e1 = [b EXCEPT !.msgs = ms1]
    BY <2>3, <2>5, <2>6, <1>1, Zenon
  <2>8. e1 = [msgs |-> ms1, base |-> n, gsoSize |-> b.gsoSize, dgramCnt |-> b.dgramCnt,
              endBatch |-> b.endBatch]
    BY <2>2, <2>7
  <2>9. e1.msgs = ms1 /\ ms1[n] = m1
    BY <2>5, <2>8, <1>2 DEF Pooled
  <2>10. [m1 EXCEPT !.oob = oob] = [data |-> m.data \o x, oob |-> oob]
    <3>1. PICK d : d = m.data \o x
      OBVIOUS
    <3>2. m1 = [data |-> d, oob |-> m.oob]
      BY <3>1, <2>5, Zenon
    <3>3. [m1 EXCEPT !.oob = oob] = [data |-> d, oob |-> oob]
      BY <3>2
    <3> QED BY <3>1, <3>3, Zenon
  <2>11. [ms1 EXCEPT ![n] = [data |-> m.data \o x, oob |-> oob]] = ms
    BY <2>5, <1>2, <1>5 DEF Pooled
  <2>12. e2 = [e1 EXCEPT !.msgs = ms]
    BY <2>3, <2>9, <2>10, <2>11, Zenon
  <2>13. e2 = [msgs |-> ms, base |-> n, gsoSize |-> b.gsoSize, dgramCnt |-> b.dgramCnt,
              endBatch |-> b.endBatch]
    BY <2>8, <2>12
  <2>14. e3 = [msgs |-> ms, base |-> n, gsoSize |-> b.gsoSize, dgramCnt |-> b.dgramCnt + 1,
               endBatch |-> b.endBatch]
    <3>1. PICK c : c = b.dgramCnt + 1
      OBVIOUS
    <3>2. e3 = [e2 EXCEPT !.dgramCnt = c]
      BY <3>1, <2>3, Zenon
    <3>3. e3 = [msgs |-> ms, base |-> n, gsoSize |-> b.gsoSize, dgramCnt |-> c, endBatch |-> b.endBatch]
      BY <3>2, <2>13
    <3> QED BY <3>1, <3>3, Zenon
  <2> QED BY <2>4, <2>14
<1>8. /\ u.msgs = ms /\ u.base = n /\ u.gsoSize = b.gsoSize /\ u.dgramCnt = b.dgramCnt + 1
      /\ u.endBatch = (Len(x) < b.gsoSize)
  BY <1>7
<1>9. u \in BatchLists
  <2>1. n \in Nat /\ b.dgramCnt + 1 \in Nat /\ u.endBatch \in BOOLEAN
    BY <1>2, <1>8
  <2> QED BY <2>1, <1>2, <1>6, <1>7 DEF BatchLists
<1>11. ~ u.endBatch => Len(x) >= b.gsoSize
  <2>1. CASE Len(x) < b.gsoSize
    <3>1. u.endBatch = TRUE
      BY <2>1, <1>8
    <3> QED BY <3>1
  <2>2. CASE ~(Len(x) < b.gsoSize)
    BY <2>2, <1>2
  <2> QED BY <2>1, <2>2
<1>12. /\ u.base = b.base /\ u.gsoSize = b.gsoSize /\ u.dgramCnt = b.dgramCnt + 1
       /\ ~ u.endBatch => Len(bb[k]) >= b.gsoSize
  BY <1>1, <1>8, <1>11, Zenon
<1>13. /\ u.msgs[b.base].data = b.msgs[b.base].data \o bb[k]
       /\ u.msgs[b.base].oob = IF k = Len(bb) THEN setGSOSize(b.msgs[b.base].oob, b.gsoSize)
                                              ELSE b.msgs[b.base].oob
       /\ \A j \in (1..MaxMsgs) \ {b.base} : u.msgs[j] = b.msgs[j]
  BY <1>1, <1>3, <1>6, <1>8
<1> QED BY <1>9, <1>12, <1>13, Zenon DEF JoinedAs


\* The last message gets its control when it is complete.
LEMMA EndParts ==
  ASSUME NEW b \in BatchLists, b.base \in 0..MaxMsgs, b.base = 0 => b.dgramCnt = 0, NEW c,
         c = IF b.dgramCnt > 1 THEN [b EXCEPT !.msgs[b.base].oob = setGSOSize(@, b.gsoSize)] ELSE b
  PROVE  /\ c \in BatchLists /\ c.base = b.base
         /\ b.base # 0 => /\ c.msgs[b.base].data = b.msgs[b.base].data
                          /\ c.msgs[b.base].oob = IF b.dgramCnt > 1
                                                  THEN setGSOSize(b.msgs[b.base].oob, b.gsoSize)
                                                  ELSE b.msgs[b.base].oob
         /\ \A j \in (1..MaxMsgs) \ {b.base} : c.msgs[j] = b.msgs[j]
<1>1. CASE ~(b.dgramCnt > 1)
  <2>1. c = b
    BY <1>1
  <2> QED BY <2>1, <1>1
<1>2. CASE b.dgramCnt > 1
  <2>1. PICK n, m, oob : n = b.base /\ m = b.msgs[n] /\ oob = setGSOSize(m.oob, b.gsoSize)
    OBVIOUS
  <2>2. /\ b = [msgs |-> b.msgs, base |-> n, gsoSize |-> b.gsoSize, dgramCnt |-> b.dgramCnt,
                endBatch |-> b.endBatch]
        /\ b.msgs \in Pooled /\ b.gsoSize \in Nat /\ b.dgramCnt \in Nat /\ b.endBatch \in BOOLEAN
    BY <2>1 DEF BatchLists
  <2>3. n \in 1..MaxMsgs /\ MaxMsgs \in Nat
    BY <1>2, <2>1, BindBounds
  <2>4. m \in Message
    BY <2>1, <2>2, <2>3 DEF Pooled
  <2>5. m = [data |-> m.data, oob |-> m.oob] /\ m.data \in Seq(Nat \X Nat) /\ m.oob \in Nat
    BY <2>4 DEF Message
  <2>6. oob \in Nat
    BY <2>1, <2>2, <2>5, Controls
  <2>7. PICK m1, ms : m1 = [data |-> m.data, oob |-> oob] /\ ms = [b.msgs EXCEPT ![n] = m1]
    OBVIOUS
  <2>8. [m EXCEPT !.oob = oob] = m1
    BY <2>5, <2>7
  <2>9. c = [b EXCEPT !.msgs = ms]
    <3>1. c = [b EXCEPT !.msgs[b.base].oob = setGSOSize(@, b.gsoSize)]
      BY <1>2
    <3> QED BY <3>1, <2>1, <2>7, <2>8, Zenon
  <2>10. c = [msgs |-> ms, base |-> n, gsoSize |-> b.gsoSize, dgramCnt |-> b.dgramCnt,
              endBatch |-> b.endBatch]
    BY <2>2, <2>9
  <2>11. m1 \in Message /\ m1.data = m.data /\ m1.oob = oob
    BY <2>5, <2>6, <2>7 DEF Message
  <2>12. ms \in Pooled /\ ms[n] = m1 /\ \A j \in (1..MaxMsgs) \ {n} : ms[j] = b.msgs[j]
    BY <2>2, <2>3, <2>7, <2>11 DEF Pooled
  <2>13. c \in BatchLists
    <3>1. n \in Nat
      BY <2>3
    <3> QED BY <3>1, <2>2, <2>10, <2>12 DEF BatchLists
  <2>14. c.msgs = ms /\ c.base = n
    BY <2>10
  <2>15. c.msgs[n].data = m.data /\ c.msgs[n].oob = oob
    BY <2>11, <2>12, <2>14
  <2> QED BY <1>2, <2>1, <2>12, <2>13, <2>14, <2>15, Zenon
<1> QED BY <1>1, <1>2

\* x is put in message n
Filled(c, n, x, g, u) ==
  u = [c EXCEPT !.base = @ + 1, !.gsoSize = g, !.dgramCnt = 1, !.endBatch = FALSE,
                !.msgs[n].data = x, !.msgs[n].oob = setSrcControl(@)]

FilledAs(c, n, x, g, u) ==
  /\ u \in BatchLists /\ u.base = n /\ u.gsoSize = g /\ u.dgramCnt = 1
  /\ u.msgs[n].data = x /\ u.msgs[n].oob = setSrcControl(c.msgs[n].oob)
  /\ \A j \in (1..MaxMsgs) \ {n} : u.msgs[j] = c.msgs[j]

\* The message of the next place is filled.
LEMMA FillParts ==
  ASSUME NEW c \in BatchLists, NEW n, n = c.base + 1, n \in 1..MaxMsgs,
         NEW x \in Seq(Nat \X Nat), NEW g \in Nat, NEW u, Filled(c, n, x, g, u)
  PROVE  FilledAs(c, n, x, g, u)
<1>1. PICK m, oob : m = c.msgs[n] /\ oob = setSrcControl(m.oob)
  OBVIOUS
<1>2. /\ c = [msgs |-> c.msgs, base |-> c.base, gsoSize |-> c.gsoSize, dgramCnt |-> c.dgramCnt,
              endBatch |-> c.endBatch]
      /\ c.msgs \in Pooled
  BY DEF BatchLists
<1>3. m \in Message /\ n \in Nat
  BY <1>1, <1>2, BindBounds DEF Pooled
<1>4. m = [data |-> m.data, oob |-> m.oob] /\ m.data \in Seq(Nat \X Nat) /\ m.oob \in Nat
  BY <1>3 DEF Message
<1>5. oob \in Nat
  <2>1. 0 \in Nat
    OBVIOUS
  <2> QED BY <2>1, <1>1, <1>4, Controls
<1>6. PICK c1, c2 : /\ c1 = [c EXCEPT !.base = @ + 1, !.gsoSize = g, !.dgramCnt = 1, !.endBatch = FALSE]
                    /\ c2 = [c1 EXCEPT !.msgs[n].data = x]
  OBVIOUS
<1>7. u = [c2 EXCEPT !.msgs[n].oob = oob]
  BY <1>1, <1>6, Zenon DEF Filled
<1>8. c1 = [msgs |-> c.msgs, base |-> n, gsoSize |-> g, dgramCnt |-> 1, endBatch |-> FALSE]
  <2>1. c1 = [c EXCEPT !.base = n, !.gsoSize = g, !.dgramCnt = 1, !.endBatch = FALSE]
    BY <1>6, Zenon
  <2> QED BY <2>1, <1>2
<1>9. PICK m1, m2, ms1, ms : /\ m1 = [data |-> x, oob |-> m.oob] /\ ms1 = [c.msgs EXCEPT ![n] = m1]
                             /\ m2 = [data |-> x, oob |-> oob] /\ ms = [c.msgs EXCEPT ![n] = m2]
  OBVIOUS
<1>10. [m EXCEPT !.data = x] = m1 /\ [m1 EXCEPT !.oob = oob] = m2 /\ c1.msgs = c.msgs
  BY <1>4, <1>8, <1>9
<1>11. c2 = [c1 EXCEPT !.msgs = ms1]
  BY <1>1, <1>6, <1>9, <1>10, Zenon
<1>12. c2 = [msgs |-> ms1, base |-> n, gsoSize |-> g, dgramCnt |-> 1, endBatch |-> FALSE]
  BY <1>8, <1>11
<1>13. c2.msgs = ms1 /\ ms1[n] = m1 /\ [ms1 EXCEPT ![n] = m2] = ms
  BY <1>2, <1>9, <1>12 DEF Pooled
<1>14. u = [c2 EXCEPT !.msgs = ms]
  BY <1>7, <1>10, <1>13, Zenon
<1>15. u = [msgs |-> ms, base |-> n, gsoSize |-> g, dgramCnt |-> 1, endBatch |-> FALSE]
  BY <1>12, <1>14
<1>16. m2 \in Message /\ m2.data = x /\ m2.oob = oob
  BY <1>5, <1>9 DEF Message
<1>17. ms \in Pooled /\ ms[n] = m2 /\ \A j \in (1..MaxMsgs) \ {n} : ms[j] = c.msgs[j]
  BY <1>2, <1>9, <1>16 DEF Pooled
<1>18. PICK w : w = [msgs |-> ms, base |-> n, gsoSize |-> g, dgramCnt |-> 1, endBatch |-> FALSE]
  OBVIOUS
<1>19. w \in BatchLists /\ w.msgs = ms /\ w.base = n /\ w.gsoSize = g /\ w.dgramCnt = 1
  <2>1. w \in BatchLists
    BY ONLY <1>3, <1>17, <1>18, g \in Nat DEF BatchLists
  <2>2. w.msgs = ms /\ w.base = n /\ w.gsoSize = g /\ w.dgramCnt = 1
    BY ONLY <1>18
  <2> QED BY <2>1, <2>2
<1>20. u = w
  BY <1>15, <1>18, Zenon
<1> QED BY <1>1, <1>16, <1>17, <1>19, <1>20, Zenon DEF FilledAs

\* A message begins another one.
LEMMA OpenParts ==
  ASSUME NEW bb, Called(bb), NEW b \in BatchLists, NEW k \in 1..Len(bb), b.base + 1 \in 1..MaxMsgs,
         b.base = 0 => b.dgramCnt = 0, ~(k > 1 /\ Joins(b, bb[k])), NEW u, u = coalesceStep(bb, b, k)
  PROVE  OpenedAs(bb, b, k, u)
<1>1. PICK c, x, n, g : /\ c = IF b.dgramCnt > 1 THEN [b EXCEPT !.msgs[b.base].oob = setGSOSize(@, b.gsoSize)]
                                                 ELSE b
                        /\ x = bb[k] /\ n = b.base + 1 /\ g = Len(x)
  OBVIOUS
<1>2. x \in Seq(Nat \X Nat) /\ g \in Nat
  BY <1>1 DEF Called
<1>3. b.base \in 0..MaxMsgs
  <2>1. b.base \in Nat /\ MaxMsgs \in Nat
    BY BindBounds DEF BatchLists
  <2> QED BY <2>1
<1>4. /\ c \in BatchLists /\ c.base = b.base
      /\ b.base # 0 => /\ c.msgs[b.base].data = b.msgs[b.base].data
                       /\ c.msgs[b.base].oob = IF b.dgramCnt > 1
                                               THEN setGSOSize(b.msgs[b.base].oob, b.gsoSize)
                                               ELSE b.msgs[b.base].oob
      /\ \A j \in (1..MaxMsgs) \ {b.base} : c.msgs[j] = b.msgs[j]
  BY <1>1, <1>3, EndParts, Zenon
<1>5. n = c.base + 1 /\ n \in 1..MaxMsgs /\ n # b.base /\ b.base \in Nat
  BY <1>1, <1>3, <1>4
<1>6. Filled(c, n, x, g, u)
  BY <1>1, Zenon DEF coalesceStep, Filled
<1>7. /\ u \in BatchLists /\ u.base = n /\ u.gsoSize = g /\ u.dgramCnt = 1
      /\ u.msgs[n].data = x /\ u.msgs[n].oob = setSrcControl(c.msgs[n].oob)
      /\ \A j \in (1..MaxMsgs) \ {n} : u.msgs[j] = c.msgs[j]
  <2>1. FilledAs(c, n, x, g, u)
    BY <1>2, <1>4, <1>5, <1>6, FillParts
  <2> QED BY <2>1, Zenon DEF FilledAs
<1>8. c.msgs[n] = b.msgs[n]
  BY <1>4, <1>5
<1>9. b.base # 0 => u.msgs[b.base] = c.msgs[b.base]
  <2>1. b.base # 0 => b.base \in (1..MaxMsgs) \ {n}
    BY <1>3, <1>5
  <2> QED BY <2>1, <1>7
<1>10. \A j \in (1..MaxMsgs) \ {b.base, n} : u.msgs[j] = b.msgs[j]
  BY <1>4, <1>7
<1> QED BY <1>1, <1>4, <1>7, <1>8, <1>9, <1>10, Zenon DEF OpenedAs


\* e holds the number of messages that the first j of n messages of WriteBatch carry
Ends(n, e, k) ==
  /\ e \in [0..n -> 0..k]
  /\ e[0] = 0 /\ e[n] = k
  /\ \A j \in 1..n : e[j - 1] <= e[j]

\* The last message carries one more.
LEMMA EndsJoin ==
  ASSUME NEW n \in Nat \ {0}, NEW k \in Nat, NEW e, Ends(n, e, k), NEW l, l = k + 1
  PROVE  \E d : /\ Ends(n, d, l) /\ \A j \in 0..(n - 1) : d[j] = e[j]
<1> DEFINE d == [j \in 0..n |-> IF j = n THEN l ELSE e[j]]
<1>1. \A j \in 0..n : d[j] = IF j = n THEN l ELSE e[j]
  OBVIOUS
<1>2. d \in [0..n -> 0..l]
  BY DEF Ends
<1>3. \A j \in 0..(n - 1) : d[j] = e[j] /\ j \in 0..n
  BY <1>1
<1> HIDE DEF d
<1>4. d[0] = 0 /\ d[n] = l
  BY <1>1 DEF Ends
<1>5. ASSUME NEW j \in 1..n PROVE d[j - 1] <= d[j]
  <2>1. j - 1 \in 0..(n - 1) /\ j - 1 \in 0..n /\ j \in 0..n
    OBVIOUS
  <2>2. d[j - 1] = e[j - 1] /\ e[j - 1] \in 0..k
    BY <2>1, <1>3 DEF Ends
  <2>3. CASE j = n
    BY <2>2, <2>3, <1>4
  <2>4. CASE j # n
    BY <2>1, <2>2, <2>4, <1>1 DEF Ends
  <2> QED BY <2>3, <2>4
<1> QED BY <1>2, <1>3, <1>4, <1>5 DEF Ends

\* Another message carries one.
LEMMA EndsOpen ==
  ASSUME NEW n \in Nat, NEW k \in Nat, NEW e, Ends(n, e, k), NEW l, l = k + 1
  PROVE  \E d : /\ Ends(n + 1, d, l) /\ \A j \in 0..n : d[j] = e[j]
<1> DEFINE d == [j \in 0..(n + 1) |-> IF j = n + 1 THEN l ELSE e[j]]
<1>1. \A j \in 0..(n + 1) : d[j] = IF j = n + 1 THEN l ELSE e[j]
  OBVIOUS
<1>2. d \in [0..(n + 1) -> 0..l]
  BY DEF Ends
<1>3. \A j \in 0..n : d[j] = e[j] /\ e[j] \in 0..k
  BY <1>1 DEF Ends
<1> HIDE DEF d
<1>4. d[0] = 0 /\ d[n + 1] = l
  BY <1>1, <1>3 DEF Ends
<1>5. ASSUME NEW j \in 1..(n + 1) PROVE d[j - 1] <= d[j]
  <2>1. j - 1 \in 0..n
    OBVIOUS
  <2>2. CASE j = n + 1
    BY <2>1, <2>2, <1>3, <1>4
  <2>3. CASE j # n + 1
    <3>1. j \in 0..n /\ j \in 1..n
      BY <2>3
    <3> QED BY <2>1, <3>1, <1>3 DEF Ends
  <2> QED BY <2>2, <2>3
<1> QED BY <1>2, <1>3, <1>4, <1>5 DEF Ends

\* the messages before n are complete
Complete(bb, ms, n, e) ==
  \A j \in 1..n : Segmented(ms[j]) = Part(bb, e[j - 1], e[j])

\* the state of the loop of coalesceMessages after k messages
BatchInv(bb, b, k, e) ==
  /\ b \in BatchLists /\ b.base \in 1..k
  /\ Ends(b.base, e, k)
  /\ Complete(bb, b.msgs, b.base - 1, e)
  /\ Group(bb, e[b.base - 1], k, b.gsoSize, b.msgs[b.base].data)
  /\ b.dgramCnt = k - e[b.base - 1]
  /\ ~ b.endBatch => Len(bb[k]) = b.gsoSize
  /\ b.msgs[b.base].oob = IF k = Len(bb) /\ k - e[b.base - 1] > 1 THEN b.gsoSize ELSE 0
  /\ \A j \in (b.base + 1)..MaxMsgs : b.msgs[j].oob = 0

\* A message joins the last one.
LEMMA BatchJoins ==
  ASSUME NEW bb, Called(bb), NEW b, NEW k \in Nat, NEW e, BatchInv(bb, b, k, e),
         NEW l, l = k + 1, l <= Len(bb), Joins(b, bb[l]), NEW u, u = coalesceStep(bb, b, l)
  PROVE  \E d : BatchInv(bb, u, l, d)
<1>1. PICK n, g, lo : n = b.base /\ g = b.gsoSize /\ lo = e[n - 1]
  OBVIOUS
<1>2. /\ b \in BatchLists /\ n \in 1..k /\ Ends(n, e, k) /\ Complete(bb, b.msgs, n - 1, e)
      /\ Group(bb, lo, k, g, b.msgs[n].data) /\ b.dgramCnt = k - lo
      /\ (~ b.endBatch => Len(bb[k]) = g) /\ \A j \in (n + 1)..MaxMsgs : b.msgs[j].oob = 0
      /\ b.msgs[n].oob = IF k = Len(bb) /\ k - lo > 1 THEN g ELSE 0
  BY <1>1, Zenon DEF BatchInv
<1>3. /\ Len(bb) \in Nat /\ Len(bb) <= MaxMsgs /\ MaxMsgs \in Nat /\ l \in 2..Len(bb) /\ l \in 1..Len(bb)
      /\ n \in Nat \ {0} /\ n \in 1..MaxMsgs /\ n \in 1..l /\ k # Len(bb)
      /\ bb \in Seq(Seq(Nat \X Nat))
  <2>1. Len(bb) \in 1..MaxMsgs /\ MaxMsgs \in Nat /\ bb \in Seq(Seq(Nat \X Nat))
    BY BindBounds DEF Called
  <2> QED BY <2>1, <1>2
<1>4. JoinedAs(bb, b, l, u)
  BY <1>1, <1>2, <1>3, JoinParts, Zenon
<1>5. /\ u \in BatchLists /\ u.base = n /\ u.gsoSize = g /\ u.dgramCnt = b.dgramCnt + 1
      /\ (~ u.endBatch => Len(bb[l]) >= g)
      /\ u.msgs[n].data = b.msgs[n].data \o bb[l]
      /\ u.msgs[n].oob = IF l = Len(bb) THEN setGSOSize(b.msgs[n].oob, g) ELSE b.msgs[n].oob
      /\ \A j \in (1..MaxMsgs) \ {n} : u.msgs[j] = b.msgs[j]
  BY <1>1, <1>4, Zenon DEF JoinedAs
<1>6. lo \in Nat /\ g \in Nat \ {0} /\ lo < k
  BY <1>2 DEF Group
<1>7. Len(bb[k]) = g /\ Len(bb[l]) \in 1..g
  <2>1. ~ b.endBatch /\ Len(bb[l]) <= g
    BY <1>1 DEF Joins
  <2>2. Len(bb[l]) \in Nat \ {0}
    BY <1>3 DEF Called
  <2>3. Len(bb[k]) = g
    BY <2>1, <1>2, Zenon
  <2>4. Len(bb[l]) \in 1..g
    BY <2>1, <2>2, <1>6
  <2> QED BY <2>3, <2>4
<1>8. PICK data : data = b.msgs[n].data
  OBVIOUS
<1>9. Group(bb, lo, l, g, data \o bb[l])
  <2>1. Group(bb, lo, k, g, data)
    BY <1>2, <1>8
  <2> QED BY <2>1, <1>3, <1>7, GroupJoins
<1>10. PICK d : Ends(n, d, l) /\ \A j \in 0..(n - 1) : d[j] = e[j]
  BY <1>2, <1>3, EndsJoin
<1>11. n - 1 \in 0..(n - 1) /\ d[n - 1] = lo
  <2>1. n - 1 \in 0..(n - 1)
    BY <1>3
  <2> QED BY <2>1, <1>1, <1>10, Zenon
<1>12. Complete(bb, u.msgs, n - 1, d)
  <2>1. ASSUME NEW j \in 1..(n - 1) PROVE Segmented(u.msgs[j]) = Part(bb, d[j - 1], d[j])
    <3>1. j \in 0..(n - 1) /\ j - 1 \in 0..(n - 1) /\ j \in (1..MaxMsgs) \ {n}
      BY <1>3
    <3>2. u.msgs[j] = b.msgs[j] /\ d[j] = e[j] /\ d[j - 1] = e[j - 1]
      BY <3>1, <1>5, <1>10
    <3>3. Segmented(b.msgs[j]) = Part(bb, e[j - 1], e[j])
      BY <1>2 DEF Complete
    <3> QED BY <3>2, <3>3
  <2> QED BY <2>1 DEF Complete
<1>13. ~ u.endBatch => Len(bb[l]) = g
  <2>1. Len(bb[l]) >= g => Len(bb[l]) = g
    BY <1>6, <1>7
  <2> QED BY <2>1, <1>5, Zenon
<1>14. u.msgs[n].oob = IF l = Len(bb) /\ l - d[n - 1] > 1 THEN g ELSE 0
  <2>1. b.msgs[n].oob = 0
    BY <1>2, <1>3
  <2>2. setGSOSize(0, g) = g
    BY <1>6 DEF setGSOSize
  <2>3. l - d[n - 1] > 1
    BY <1>6, <1>11
  <2> QED BY <2>1, <2>2, <2>3, <1>5
<1>15. \A j \in (n + 1)..MaxMsgs : u.msgs[j].oob = 0
  <2>1. \A j \in (n + 1)..MaxMsgs : j \in (1..MaxMsgs) \ {n}
    BY <1>3
  <2> QED BY <2>1, <1>2, <1>5
<1>16. u.dgramCnt = l - d[n - 1]
  BY <1>2, <1>5, <1>6, <1>11
<1> QED BY <1>3, <1>5, <1>8, <1>9, <1>10, <1>11, <1>12, <1>13, <1>14, <1>15, <1>16, Zenon DEF BatchInv

\* A message begins another one.
LEMMA BatchOpens ==
  ASSUME NEW bb, Called(bb), NEW b, NEW k \in Nat, NEW e, BatchInv(bb, b, k, e),
         NEW l, l = k + 1, l <= Len(bb), ~ Joins(b, bb[l]), NEW u, u = coalesceStep(bb, b, l)
  PROVE  \E d : BatchInv(bb, u, l, d)
<1>1. PICK n, g, lo : n = b.base /\ g = b.gsoSize /\ lo = e[n - 1]
  OBVIOUS
<1>2. /\ b \in BatchLists /\ n \in 1..k /\ Ends(n, e, k) /\ Complete(bb, b.msgs, n - 1, e)
      /\ Group(bb, lo, k, g, b.msgs[n].data) /\ b.dgramCnt = k - lo
      /\ \A j \in (n + 1)..MaxMsgs : b.msgs[j].oob = 0
      /\ b.msgs[n].oob = IF k = Len(bb) /\ k - lo > 1 THEN g ELSE 0
  BY <1>1, Zenon DEF BatchInv
<1>3. PICK m : m = n + 1
  OBVIOUS
<1>4. /\ Len(bb) \in Nat /\ Len(bb) <= MaxMsgs /\ MaxMsgs \in Nat /\ l \in 1..Len(bb)
      /\ n \in Nat \ {0} /\ n \in 1..MaxMsgs /\ m \in 1..l /\ m \in 1..MaxMsgs /\ k # Len(bb)
      /\ bb \in Seq(Seq(Nat \X Nat)) /\ m - 1 = n /\ m # n
  <2>1. Len(bb) \in 1..MaxMsgs /\ MaxMsgs \in Nat /\ bb \in Seq(Seq(Nat \X Nat))
    BY BindBounds DEF Called
  <2>2. PICK N : N = Len(bb)
    OBVIOUS
  <2>3. N \in 1..MaxMsgs /\ l = k + 1 /\ l <= N /\ n \in 1..k
    BY <2>1, <2>2, <1>2
  <2>4. /\ N \in Nat /\ N <= MaxMsgs /\ l \in 1..N /\ n \in Nat \ {0} /\ n \in 1..MaxMsgs
        /\ m \in 1..l /\ m \in 1..MaxMsgs /\ k # N /\ m - 1 = n /\ m # n
    BY ONLY <2>1, <2>3, <1>3, k \in Nat
  <2> QED BY <2>1, <2>2, <2>4, Zenon
<1>5. OpenedAs(bb, b, l, u)
  <2>1. b.base + 1 \in 1..MaxMsgs /\ (b.base = 0 => b.dgramCnt = 0) /\ ~(l > 1 /\ Joins(b, bb[l]))
    BY <1>1, <1>3, <1>4
  <2> QED BY <2>1, <1>2, <1>4, OpenParts, Zenon
<1>6. /\ u \in BatchLists /\ u.base = m /\ u.gsoSize = Len(bb[l]) /\ u.dgramCnt = 1
      /\ u.msgs[m].data = bb[l] /\ u.msgs[m].oob = setSrcControl(b.msgs[m].oob)
      /\ n # 0 => /\ u.msgs[n].data = b.msgs[n].data
                  /\ u.msgs[n].oob = IF b.dgramCnt > 1 THEN setGSOSize(b.msgs[n].oob, g) ELSE b.msgs[n].oob
      /\ \A j \in (1..MaxMsgs) \ {n, m} : u.msgs[j] = b.msgs[j]
  BY <1>1, <1>3, <1>5, Zenon DEF OpenedAs
<1>7. lo \in Nat /\ g \in Nat \ {0} /\ lo < k /\ k <= Len(bb)
  BY <1>2 DEF Group
<1>8. Len(bb[l]) \in Nat \ {0}
  BY <1>4 DEF Called
<1>9. Group(bb, k, l, Len(bb[l]), bb[l])
  BY <1>4, <1>8, GroupOpens
<1>10. Segmented(u.msgs[n]) = Part(bb, lo, k)
  <2>1. PICK w : w = u.msgs[n]
    OBVIOUS
  <2>2. Group(bb, lo, k, g, w.data)
    BY <2>1, <1>2, <1>4, <1>6
  <2>3. w.oob = IF k - lo > 1 THEN g ELSE 0
    <3>1. b.msgs[n].oob = 0
      BY <1>2, <1>4
    <3>2. setGSOSize(0, g) = g
      BY <1>7 DEF setGSOSize
    <3> QED BY <2>1, <3>1, <3>2, <1>2, <1>4, <1>6
  <2>4. Segmented(w) = Part(bb, lo, k)
    <3>1. Controlled(lo, k, g, w)
      BY <2>3, Zenon DEF Controlled
    <3> QED BY <3>1, <2>2, <1>4, GroupSegments
  <2> QED BY <2>1, <2>4
<1>11. PICK d : Ends(m, d, l) /\ \A j \in 0..n : d[j] = e[j]
  <2>1. n \in Nat
    BY <1>4
  <2>2. \E d : Ends(n + 1, d, l) /\ \A j \in 0..n : d[j] = e[j]
    BY <2>1, <1>2, EndsOpen
  <2> QED BY <2>2, <1>3, Zenon
<1>12. e[n] = k /\ d[n] = k /\ d[m - 1] = k
  <2>1. n \in 0..n
    BY <1>4
  <2> QED BY <2>1, <1>2, <1>4, <1>11 DEF Ends
<1>13. Complete(bb, u.msgs, m - 1, d)
  <2>1. ASSUME NEW j \in 1..n PROVE Segmented(u.msgs[j]) = Part(bb, d[j - 1], d[j])
    <3>1. j \in 0..n /\ j - 1 \in 0..n
      BY <1>4
    <3>2. d[j] = e[j] /\ d[j - 1] = e[j - 1]
      BY <3>1, <1>11
    <3>3. CASE j = n
      BY <3>2, <3>3, <1>1, <1>10, <1>12
    <3>4. CASE j # n
      <4>1. j \in 1..(n - 1) /\ j \in (1..MaxMsgs) \ {n, m}
        BY <3>4, <1>3, <1>4
      <4>2. Segmented(b.msgs[j]) = Part(bb, e[j - 1], e[j])
        BY <4>1, <1>2 DEF Complete
      <4> QED BY <4>1, <4>2, <3>2, <1>6
    <3> QED BY <3>3, <3>4
  <2> QED BY <2>1, <1>4 DEF Complete
<1>14. u.msgs[m].oob = 0 /\ u.dgramCnt = l - d[m - 1] /\ ~(l - d[m - 1] > 1)
  <2>1. b.msgs[m].oob = 0
    BY <1>2, <1>3, <1>4
  <2>2. setSrcControl(0) = 0
    BY DEF setSrcControl
  <2>3. l - k = 1
    OBVIOUS
  <2> QED BY <2>1, <2>2, <2>3, <1>6, <1>12
<1>15. \A j \in (m + 1)..MaxMsgs : u.msgs[j].oob = 0
  <2>1. \A j \in (m + 1)..MaxMsgs : j \in (n + 1)..MaxMsgs /\ j \in (1..MaxMsgs) \ {n, m}
    BY <1>3, <1>4
  <2> QED BY <2>1, <1>2, <1>6
<1> QED BY <1>4, <1>6, <1>9, <1>11, <1>12, <1>13, <1>14, <1>15, Zenon DEF BatchInv


\* The messages of the pool are messages without a control.
LEMMA FreshPooled ==
  /\ FreshMsgs \in Pooled
  /\ \A j \in 1..MaxMsgs : FreshMsgs[j].oob = 0
<1>1. PICK m : m = [data |-> <<>>, oob |-> 0]
  OBVIOUS
<1>2. <<>> \in Seq(Nat \X Nat)
  OBVIOUS
<1>3. m \in Message /\ m.oob = 0
  BY <1>1, <1>2 DEF Message
<1>4. FreshMsgs = [j \in 1..MaxMsgs |-> m]
  BY <1>1, Zenon DEF FreshMsgs
<1> QED BY <1>3, <1>4 DEF Pooled

\* The first message.
LEMMA BatchBegins ==
  ASSUME NEW bb, Called(bb), msgs = FreshMsgs, NEW u, u = coalesceStep(bb, NoBatch, 1)
  PROVE  \E d : BatchInv(bb, u, 1, d)
<1>1. PICK b : b = NoBatch
  OBVIOUS
<1>2. b \in BatchLists /\ b.base = 0 /\ b.dgramCnt = 0 /\ b.msgs = msgs
  <2>1. msgs \in Pooled
    BY FreshPooled
  <2> QED BY <2>1, <1>1 DEF BatchLists, NoBatch
<1>3. /\ bb \in Seq(Seq(Nat \X Nat)) /\ Len(bb) \in Nat /\ 1 <= Len(bb) /\ 1 <= MaxMsgs /\ MaxMsgs \in Nat
      /\ Len(bb[1]) \in Nat \ {0} /\ 1 \in 1..Len(bb) /\ 1 \in 1..MaxMsgs
  <2>1. Len(bb) \in 1..MaxMsgs /\ MaxMsgs \in Nat /\ bb \in Seq(Seq(Nat \X Nat))
    BY BindBounds DEF Called
  <2>2. Len(bb) \in Nat /\ 1 <= Len(bb) /\ 1 <= MaxMsgs /\ 1 \in 1..Len(bb) /\ 1 \in 1..MaxMsgs
    BY <2>1
  <2>3. Len(bb[1]) \in Nat \ {0}
    BY <2>2 DEF Called
  <2> QED BY <2>1, <2>2, <2>3
<1>4. OpenedAs(bb, b, 1, u)
  <2>1. b.base + 1 \in 1..MaxMsgs /\ ~(1 > 1) /\ b.base + 1 = 1
    BY <1>2, <1>3
  <2> QED BY <2>1, <1>1, <1>2, <1>3, OpenParts, Zenon
<1>5. /\ u \in BatchLists /\ u.base = 1 /\ u.gsoSize = Len(bb[1]) /\ u.dgramCnt = 1
      /\ u.msgs[1].data = bb[1] /\ u.msgs[1].oob = setSrcControl(msgs[1].oob)
      /\ \A j \in (1..MaxMsgs) \ {0, 1} : u.msgs[j] = msgs[j]
  <2>1. b.base + 1 = 1
    BY <1>2
  <2> QED BY <2>1, <1>2, <1>4, Zenon DEF OpenedAs
<1>6. Group(bb, 0, 1, Len(bb[1]), bb[1])
  <2>1. 0 \in Nat /\ 1 = 0 + 1
    OBVIOUS
  <2> QED BY <2>1, <1>3, GroupOpens
<1>7. PICK d : d = [j \in 0..1 |-> j]
  OBVIOUS
<1>8. Ends(1, d, 1) /\ d[1 - 1] = 0
  <2>1. d \in [0..1 -> 0..1] /\ d[0] = 0 /\ d[1] = 1
    BY <1>7
  <2>2. ASSUME NEW j \in 1..1 PROVE d[j - 1] <= d[j]
    <3>1. j = 1 /\ 1 - 1 = 0
      OBVIOUS
    <3> QED BY <3>1, <2>1
  <2>3. 1 - 1 = 0
    OBVIOUS
  <2> QED BY <2>1, <2>2, <2>3 DEF Ends
<1>9. u.msgs[1].oob = 0 /\ \A j \in (1 + 1)..MaxMsgs : u.msgs[j].oob = 0
  <2>1. \A j \in 1..MaxMsgs : msgs[j].oob = 0
    BY FreshPooled
  <2>2. setSrcControl(0) = 0
    BY DEF setSrcControl
  <2>3. \A j \in (1 + 1)..MaxMsgs : j \in (1..MaxMsgs) \ {0, 1}
    BY <1>3
  <2> QED BY <2>1, <2>2, <2>3, <1>3, <1>5
<1>10. Complete(bb, u.msgs, 1 - 1, d)
  <2>1. \A j \in 1..(1 - 1) : FALSE
    OBVIOUS
  <2> QED BY <2>1 DEF Complete
<1>11. 1 \in 1..1 /\ 1 = 1 - 0 /\ ~(1 - 0 > 1)
  OBVIOUS
<1> QED BY <1>5, <1>6, <1>8, <1>9, <1>10, <1>11, Zenon DEF BatchInv

\* f holds the states of the loop of coalesceMessages
Rounds(bb, f) ==
  f = [k \in 0..Len(bb) |-> IF k = 0 THEN NoBatch ELSE coalesceStep(bb, f[k - 1], k)]

\* The loop of coalesceMessages has its states.
LEMMA RoundsExist ==
  ASSUME NEW bb, Len(bb) \in Nat
  PROVE  Rounds(bb, coalesced(bb))
<1> DEFINE Loop(n, f) == f = [k \in 0..n |-> IF k = 0 THEN NoBatch ELSE coalesceStep(bb, f[k - 1], k)]
           Stuck == {n \in Nat : ~ \E f : Loop(n, f)}
<1>1. Stuck = {}
  <2>1. SUFFICES ASSUME Stuck # {} PROVE FALSE
    OBVIOUS
  <2>2. PICK n \in Stuck : \A k \in Stuck : n <= k
    <3>1. Stuck \in SUBSET Nat
      OBVIOUS
    <3> HIDE DEF Stuck
    <3> QED BY <2>1, <3>1, LeastMember
  <2>3. n \in Nat /\ ~ \E f : Loop(n, f)
    BY <2>2, Zenon
  <2>4. n # 0
    <3> DEFINE g == [k \in 0..0 |-> NoBatch]
    <3>1. \A k \in 0..0 : k = 0
      OBVIOUS
    <3>2. Loop(0, g)
      BY <3>1
    <3> QED BY <3>2, <2>3
  <2>5. PICK m : m = n - 1
    OBVIOUS
  <2>6. m \in Nat /\ ~(n <= m) /\ m + 1 = n
    BY <2>3, <2>4, <2>5
  <2>7. m \notin Stuck
    <3> HIDE DEF Stuck
    <3> QED BY <2>2, <2>6
  <2>8. PICK g : Loop(m, g)
    BY <2>6, <2>7
  <2> DEFINE h == [k \in 0..n |-> IF k = n THEN coalesceStep(bb, g[m], n) ELSE g[k]]
  <2>9. ASSUME NEW k \in 0..n PROVE h[k] = IF k = 0 THEN NoBatch ELSE coalesceStep(bb, h[k - 1], k)
    <3>1. CASE k = n
      <4>1. k - 1 = m /\ m \in 0..n /\ m # n
        BY <3>1, <2>3, <2>5, <2>6
      <4> QED BY <4>1, <3>1, <2>4
    <3>2. CASE k # n
      <4>1. k \in 0..m /\ (k # 0 => k - 1 \in 0..n /\ k - 1 # n)
        BY <3>2, <2>6
      <4>2. g[k] = IF k = 0 THEN NoBatch ELSE coalesceStep(bb, g[k - 1], k)
        BY <4>1, <2>8
      <4> QED BY <4>1, <4>2, <3>2
    <3> QED BY <3>1, <3>2
  <2>10. h = [k \in 0..n |-> h[k]]
    OBVIOUS
  <2> HIDE DEF h
  <2>11. Loop(n, h)
    BY <2>9, <2>10
  <2> QED BY <2>3, <2>11
<1>2. \E f : Rounds(bb, f)
  <2>1. Len(bb) \notin Stuck
    BY <1>1
  <2> QED BY <2>1 DEF Rounds
<1>3. coalesced(bb) = CHOOSE f : Rounds(bb, f)
  BY Zenon DEF coalesced, Rounds
<1> HIDE DEF Rounds
<1> QED BY <1>2, <1>3, Zenon

\* coalesceMessages: the kernel cuts its messages into the messages of the call.
LEMMA CoalesceIntact ==
  ASSUME NEW bb, Called(bb), msgs = FreshMsgs, NEW b, b = coalesceMessages(bb)
  PROVE  /\ b.msgs \in Pooled /\ b.base \in 1..Len(bb)
         /\ \E e : Ends(b.base, e, Len(bb)) /\ Complete(bb, b.msgs, b.base, e)
<1>1. PICK f, N : f = coalesced(bb) /\ N = Len(bb)
  OBVIOUS
<1>2. N \in Nat \ {0} /\ N \in 1..MaxMsgs /\ MaxMsgs \in Nat
  BY <1>1, BindBounds DEF Called
<1>3. \A k \in 0..N : f[k] = IF k = 0 THEN NoBatch ELSE coalesceStep(bb, f[k - 1], k)
  <2>1. Rounds(bb, f)
    BY <1>1, <1>2, RoundsExist
  <2> QED BY <2>1, <1>1 DEF Rounds
<1> DEFINE Bad == {k \in Nat : k \in 1..N /\ ~ \E e : BatchInv(bb, f[k], k, e)}
<1>4. Bad = {}
  <2>1. SUFFICES ASSUME Bad # {} PROVE FALSE
    OBVIOUS
  <2>2. PICK k \in Bad : \A m \in Bad : k <= m
    <3>1. Bad \in SUBSET Nat
      OBVIOUS
    <3> HIDE DEF Bad
    <3> QED BY <2>1, <3>1, LeastMember
  <2>3. k \in Nat /\ k \in 1..N /\ ~ \E e : BatchInv(bb, f[k], k, e)
    BY <2>2, Zenon
  <2>4. k # 1
    <3>1. 0 \in 0..N /\ 1 \in 0..N /\ 1 # 0 /\ 1 - 1 = 0
      BY <1>2
    <3>2. f[1] = coalesceStep(bb, NoBatch, 1)
      BY <3>1, <1>3
    <3> QED BY <3>2, <2>3, BatchBegins, Zenon
  <2>5. PICK m : m = k - 1
    OBVIOUS
  <2>6. m \in Nat /\ m \in 1..N /\ ~(k <= m) /\ k = m + 1 /\ k \in 0..N /\ k # 0 /\ k <= N
    BY <2>3, <2>4, <2>5, <1>2
  <2>7. m \notin Bad
    <3> HIDE DEF Bad
    <3> QED BY <2>2, <2>6
  <2>8. PICK e : BatchInv(bb, f[m], m, e)
    BY <2>6, <2>7
  <2>9. f[k] = coalesceStep(bb, f[m], k)
    BY <2>5, <2>6, <1>3
  <2>10. \E d : BatchInv(bb, f[k], k, d)
    <3>1. k <= Len(bb)
      BY <2>6, <1>1
    <3> QED BY <3>1, <2>6, <2>8, <2>9, BatchJoins, BatchOpens, Zenon
  <2> QED BY <2>3, <2>10, Zenon
<1>5. PICK e : BatchInv(bb, b, N, e)
  <2>1. N \in 1..N /\ b = f[N]
    BY <1>1, <1>2 DEF coalesceMessages
  <2>2. N \notin Bad
    <3> HIDE DEF Bad
    <3> QED BY <1>4
  <2> QED BY <2>1, <2>2, <1>2
<1>6. PICK n, lo, w : n = b.base /\ lo = e[n - 1] /\ w = b.msgs[n]
  OBVIOUS
<1>7. /\ b \in BatchLists /\ n \in 1..N /\ Ends(n, e, N) /\ Complete(bb, b.msgs, n - 1, e)
      /\ Group(bb, lo, N, b.gsoSize, w.data)
      /\ w.oob = IF N - lo > 1 THEN b.gsoSize ELSE 0
  <2>1. w.oob = IF N = Len(bb) /\ N - lo > 1 THEN b.gsoSize ELSE 0
    BY <1>5, <1>6, Zenon DEF BatchInv
  <2> QED BY <2>1, <1>1, <1>5, <1>6, Zenon DEF BatchInv
<1>8. Segmented(w) = Part(bb, lo, N)
  <2>1. bb \in Seq(Seq(Nat \X Nat))
    BY DEF Called
  <2>2. PICK g : g = b.gsoSize
    OBVIOUS
  <2>3. Controlled(lo, N, g, w) /\ Group(bb, lo, N, g, w.data)
    BY <2>2, <1>7, Zenon DEF Controlled
  <2> QED BY <2>1, <2>3, GroupSegments
<1>9. Complete(bb, b.msgs, n, e)
  <2>1. ASSUME NEW j \in 1..n PROVE Segmented(b.msgs[j]) = Part(bb, e[j - 1], e[j])
    <3>1. CASE j = n
      BY <3>1, <1>6, <1>7, <1>8 DEF Ends
    <3>2. CASE j # n
      <4>1. j \in 1..(n - 1)
        BY <3>2, <1>2, <1>7
      <4> QED BY <4>1, <1>7 DEF Complete
    <3> QED BY <3>1, <3>2
  <2> QED BY <2>1 DEF Complete
<1>10. b.msgs \in Pooled
  BY <1>7 DEF BatchLists
<1> QED BY <1>1, <1>6, <1>7, <1>9, <1>10, Zenon

-----------------------------------------------------------------------------
(* Send: what is on the wire in each phase of the call.                    *)

SendRecords ==
  [bufs : Seq(Seq(Nat \X Nat)), conn : Nat, offload : BOOLEAN, retried : BOOLEAN,
   start : Nat, n : Nat, err : BOOLEAN]

\* message j of WriteBatch carries the messages after e[j - 1] up to e[j], if the kernel takes it
Sendable(bb, ms, n, e, nic) ==
  \A j \in 1..n : ms[j].oob = 0 \/ nic => Segmented(ms[j]) = Part(bb, e[j - 1], e[j])

\* a part of the messages, before a retry, and then the first m messages, are on the wire
OnWire(bb, m, again, w) ==
  \E k \in 0..Len(bb) : w = Part(bb, 0, k) \o Part(bb, 0, m) /\ (k > 0 => again)

MsgsInv(s, ms, w, nic) ==
  /\ OnWire(s.bufs, 0, s.retried, w)
  /\ s.retried => ~ s.offload /\ ~ nic
  /\ ~ s.retried => ms = FreshMsgs

WriteInv(s, ms, w, nic, src) ==
  /\ s.n \in 1..MaxMsgs /\ s.start \in 1..s.n
  /\ s.retried => ~ s.offload
  /\ s.retried /\ src => \A j \in 1..s.n : ms[j].oob = 0
  /\ \E e : /\ Ends(s.n, e, Len(s.bufs))
            /\ Sendable(s.bufs, ms, s.n, e, nic)
            /\ OnWire(s.bufs, e[s.start - 1], s.retried, w)

EioInv(s, w, nic) == ~ nic /\ s.offload /\ OnWire(s.bufs, 0, TRUE, w)

DoneInv(s, w) == ~ s.err => OnWire(s.bufs, Len(s.bufs), s.retried, w)

(* What is on the wire in each phase of Send: SendTransparent, made inductive. *)
SendCallInv ==
  /\ snd \in SendRecords /\ msgs \in Pooled /\ opens \in Nat
  /\ txOffload \in BOOLEAN /\ sticky \in BOOLEAN /\ nicOk \in BOOLEAN
  /\ spc \in {"idle", "msgs", "write", "eio", "done"}
  /\ spc = "idle" => msgs = FreshMsgs
  /\ spc # "idle" => Called(snd.bufs)
  /\ spc = "msgs" => MsgsInv(snd, msgs, wire, nicOk)
  /\ spc = "write" => WriteInv(snd, msgs, wire, nicOk, sticky)
  /\ spc = "eio" => EioInv(snd, wire, nicOk)
  /\ spc = "done" => DoneInv(snd, wire)

\* The fields of the arguments and locals of Send.
LEMMA SendFields ==
  ASSUME NEW s \in SendRecords
  PROVE  /\ s = [bufs |-> s.bufs, conn |-> s.conn, offload |-> s.offload, retried |-> s.retried,
                 start |-> s.start, n |-> s.n, err |-> s.err]
         /\ s.bufs \in Seq(Seq(Nat \X Nat)) /\ s.conn \in Nat /\ s.start \in Nat /\ s.n \in Nat
         /\ s.offload \in BOOLEAN /\ s.retried \in BOOLEAN /\ s.err \in BOOLEAN
  BY DEF SendRecords

\* The invariant implies what the runs check.
LEMMA SendInvTransparent ==
  ASSUME SendCallInv
  PROVE  SendTransparent
<1>1. SentIntact
  <2>1. SUFFICES ASSUME spc = "done", ~ snd.err
                 PROVE  \E k \in 0..Len(snd.bufs) :
                          /\ wire = SubSeq(snd.bufs, 1, k) \o snd.bufs
                          /\ k > 0 => snd.retried
    BY DEF SentIntact
  <2>2. PICK bb, S : bb = snd.bufs /\ S = Seq(Nat \X Nat)
    OBVIOUS
  <2>3. bb \in Seq(S)
    BY <2>2 DEF SendCallInv, SendRecords
  <2>4. PICK k \in 0..Len(bb) : /\ wire = Part(bb, 0, k) \o Part(bb, 0, Len(bb))
                                /\ k > 0 => snd.retried
    BY <2>1, <2>2, Zenon DEF SendCallInv, DoneInv, OnWire
  <2>5. Part(bb, 0, Len(bb)) = bb
    BY <2>3, PartEnds
  <2>6. Part(bb, 0, k) = SubSeq(bb, 1, k)
    <3>1. 0 + 1 = 1
      OBVIOUS
    <3> QED BY <3>1 DEF Part
  <2> QED BY <2>2, <2>4, <2>5, <2>6, Zenon
<1>2. RetryIsPlain
  <2>1. SUFFICES ASSUME sticky, snd.retried, spc = "write" PROVE msgs[snd.start].oob = 0
    BY DEF RetryIsPlain, Refused
  <2>2. snd.start \in 1..snd.n /\ \A j \in 1..snd.n : msgs[j].oob = 0
    BY <2>1, Zenon DEF SendCallInv, WriteInv
  <2> QED BY <2>2
<1> QED BY <1>1, <1>2 DEF SendTransparent

\* Nothing of a call is on the wire when it begins.
LEMMA WireEmpty ==
  ASSUME NEW S, NEW bb \in Seq(S), NEW again
  PROVE  OnWire(bb, 0, again, <<>>)
<1>1. 0 \in 0..Len(bb) /\ ~(0 > 0) /\ 0 \in Nat
  OBVIOUS
<1>2. Part(bb, 0, 0) = <<>>
  BY <1>1, PartEnds
<1>3. <<>> \o <<>> = <<>>
  <2>1. <<>> \in Seq(S)
    OBVIOUS
  <2> QED BY <2>1, ConcatEmptySeq
<1> QED BY <1>1, <1>2, <1>3, Zenon DEF OnWire

\* The next messages of the call go on the wire.
LEMMA WireNext ==
  ASSUME NEW S, NEW bb \in Seq(S), NEW again, NEW w, NEW a \in Nat, NEW b \in Nat, a <= b, b <= Len(bb),
         OnWire(bb, a, again, w)
  PROVE  OnWire(bb, b, again, w \o Part(bb, a, b))
<1>1. PICK k \in 0..Len(bb) : w = Part(bb, 0, k) \o Part(bb, 0, a) /\ (k > 0 => again)
  BY Zenon DEF OnWire
<1>2. /\ 0 \in Nat /\ 0 <= a /\ a <= Len(bb) /\ k \in Nat /\ 0 <= k /\ k <= Len(bb)
  OBVIOUS
<1>3. Part(bb, 0, k) \in Seq(S) /\ Part(bb, 0, a) \in Seq(S) /\ Part(bb, a, b) \in Seq(S)
  BY <1>2, PartShape
<1>4. Part(bb, 0, a) \o Part(bb, a, b) = Part(bb, 0, b)
  BY <1>2, PartsJoin
<1>5. (Part(bb, 0, k) \o Part(bb, 0, a)) \o Part(bb, a, b)
        = Part(bb, 0, k) \o (Part(bb, 0, a) \o Part(bb, a, b))
  <2>1. PICK p, q, r : p = Part(bb, 0, k) /\ q = Part(bb, 0, a) /\ r = Part(bb, a, b)
    OBVIOUS
  <2>2. p \in Seq(S) /\ q \in Seq(S) /\ r \in Seq(S)
    BY <2>1, <1>3, Zenon
  <2>3. (p \o q) \o r = p \o (q \o r)
    BY ONLY <2>2, ConcatAssociative
  <2> QED BY <2>1, <2>3, Zenon
<1> QED BY <1>1, <1>4, <1>5, Zenon DEF OnWire

\* Before the first retry the first messages are on the wire, once.
LEMMA WireOnce ==
  ASSUME NEW S, NEW bb \in Seq(S), NEW w, NEW m \in 0..Len(bb), OnWire(bb, m, FALSE, w)
  PROVE  OnWire(bb, 0, TRUE, w)
<1>1. PICK k \in 0..Len(bb) : w = Part(bb, 0, k) \o Part(bb, 0, m) /\ (k > 0 => FALSE)
  BY Zenon DEF OnWire
<1>2. k = 0 /\ 0 \in Nat /\ 0 <= m /\ m \in Nat /\ m <= Len(bb)
  BY <1>1
<1>3. Part(bb, 0, 0) = <<>> /\ Part(bb, 0, m) \in Seq(S)
  BY <1>2, PartEnds, PartShape
<1>4. w = Part(bb, 0, m) /\ w = Part(bb, 0, m) \o Part(bb, 0, 0)
  BY <1>1, <1>2, <1>3, ConcatEmptySeq
<1> QED BY <1>4, Zenon DEF OnWire


\* One message of the call by itself.
LEMMA PartOne ==
  ASSUME NEW S, NEW ss \in Seq(S), NEW j \in 1..Len(ss)
  PROVE  Part(ss, j - 1, j) = <<ss[j]>>
<1>1. PICK k, p : k = j - 1 /\ p = Part(ss, k, j)
  OBVIOUS
<1>2. k \in Nat /\ j \in Nat /\ k <= j /\ j <= Len(ss) /\ j - k = 1 /\ k + 1 = j /\ 1 \in 1..(j - k)
  BY <1>1
<1>3. /\ Part(ss, k, j) \in Seq(S) /\ Len(Part(ss, k, j)) = j - k
      /\ \A i1 \in 1..(j - k) : Part(ss, k, j)[i1] = ss[k + i1]
  BY <1>2, PartShape, Zenon
<1>4. p \in Seq(S) /\ Len(p) = 1 /\ p[1] = ss[j]
  BY <1>1, <1>2, <1>3
<1>5. p = <<ss[j]>>
  BY <1>4
<1> QED BY <1>1, <1>5, Zenon

\* Send begins a call.
LEMMA SendStarts ==
  ASSUME SendCallInv, NEW k \in 1..MaxSend, NEW lens \in [1..k -> MsgLen], Send(lens)
  PROVE  SendCallInv'
<1>1. MaxSend \in Nat /\ MaxMsgs \in Nat /\ MaxSend <= MaxMsgs /\ MsgLen \subseteq Nat \ {0}
  BY BindBounds
<1>2. k \in Nat /\ k \in 1..MaxMsgs /\ DOMAIN lens = 1..k /\ \A j \in 1..k : lens[j] \in Nat \ {0}
  <2>1. k \in Nat /\ k \in 1..MaxMsgs
    BY <1>1
  <2>2. DOMAIN lens = 1..k /\ \A j \in 1..k : lens[j] \in MsgLen
    OBVIOUS
  <2> QED BY <2>1, <2>2, <1>1
<1>3. PICK bb : bb = [j \in 1..k |-> [c \in 1..lens[j] |-> <<j, c>>]]
  OBVIOUS
<1>4. ASSUME NEW j \in 1..k PROVE bb[j] \in Seq(Nat \X Nat) /\ Len(bb[j]) \in Nat \ {0}
  <2>1. PICK l \in Nat \ {0} : l = lens[j]
    BY <1>2
  <2>2. bb[j] = [c \in 1..l |-> <<j, c>>]
    BY <1>3, <2>1
  <2>3. \A c \in 1..l : <<j, c>> \in Nat \X Nat
    BY <2>1
  <2>4. bb[j] \in Seq(Nat \X Nat) /\ Len(bb[j]) = l
    BY <2>1, <2>2, <2>3
  <2> QED BY <2>1, <2>4
<1>5. bb \in Seq(Seq(Nat \X Nat)) /\ Len(bb) = k
  <2>1. PICK S : S = Seq(Nat \X Nat)
    OBVIOUS
  <2>2. \A j \in 1..k : bb[j] \in S
    BY <2>1, <1>4
  <2>3. bb = [j \in 1..k |-> bb[j]]
    BY <1>3
  <2>4. bb \in Seq(S) /\ Len(bb) = k
    BY <2>2, <2>3, <1>2
  <2> QED BY <2>1, <2>4
<1>6. Called(bb)
  BY <1>2, <1>4, <1>5 DEF Called
<1>7. snd' = [NoCall EXCEPT !.bufs = bb, !.conn = opens, !.offload = txOffload]
  BY <1>2, <1>3, Zenon DEF Send
<1>8. snd' = [bufs |-> bb, conn |-> opens, offload |-> txOffload, retried |-> FALSE,
              start |-> 1, n |-> 0, err |-> FALSE]
  BY <1>7 DEF NoCall
<1>9. /\ spc = "idle" /\ spc' = "msgs" /\ wire' = <<>> /\ opens' = opens /\ txOffload' = txOffload
      /\ sticky' = sticky /\ nicOk' = nicOk /\ msgs' = msgs
  BY DEF Send, openVars
<1>10. PICK s : s = snd'
  OBVIOUS
<1>11. s \in SendRecords /\ s.bufs = bb /\ s.retried = FALSE
  BY <1>5, <1>8, <1>10 DEF SendCallInv, SendRecords
<1>12. MsgsInv(s, msgs', wire', nicOk')
  <2>1. OnWire(bb, 0, s.retried, <<>>)
    BY <1>5, WireEmpty
  <2> QED BY <2>1, <1>9, <1>11, Zenon DEF MsgsInv, SendCallInv
<1> QED BY <1>6, <1>9, <1>10, <1>11, <1>12 DEF SendCallInv

\* prepareMessages without offload: the messages one by one.
LEMMA PreparePlain ==
  ASSUME NEW bb, Called(bb), NEW ms \in Pooled, NEW nic, NEW again, again \/ ms = FreshMsgs, again => ~ nic,
         NEW ps, ps = [j \in DOMAIN ms |-> IF j \in DOMAIN bb
                                           THEN [data |-> bb[j], oob |-> setSrcControl(ms[j].oob)]
                                           ELSE ms[j]]
  PROVE  /\ ps \in Pooled
         /\ sticky => \A j \in 1..Len(bb) : ps[j].oob = 0
         /\ \E e : Ends(Len(bb), e, Len(bb)) /\ Sendable(bb, ps, Len(bb), e, nic)
<1>1. PICK n : n = Len(bb)
  OBVIOUS
<1>2. /\ n \in Nat \ {0} /\ n \in 1..MaxMsgs /\ MaxMsgs \in Nat /\ bb \in Seq(Seq(Nat \X Nat)) /\ DOMAIN bb = 1..n
      /\ \A j \in 1..n : bb[j] \in Seq(Nat \X Nat) /\ j \in 1..MaxMsgs
  <2>1. n \in 1..MaxMsgs /\ MaxMsgs \in Nat /\ bb \in Seq(Seq(Nat \X Nat))
    BY <1>1, BindBounds DEF Called
  <2>2. n \in Nat \ {0} /\ \A j \in 1..n : j \in 1..MaxMsgs
    BY <2>1
  <2>3. DOMAIN bb = 1..n
    BY <2>1, <1>1, LenProperties
  <2>4. \A j \in 1..n : bb[j] \in Seq(Nat \X Nat)
    BY <1>1 DEF Called
  <2> QED BY <2>1, <2>2, <2>3, <2>4
<1>3. DOMAIN ms = 1..MaxMsgs /\ \A j \in 1..MaxMsgs : ms[j] \in Message /\ ms[j].oob \in Nat
  BY DEF Pooled, Message
<1>4. \A j \in 1..MaxMsgs : ps[j] = IF j \in 1..n THEN [data |-> bb[j], oob |-> setSrcControl(ms[j].oob)] ELSE ms[j]
  BY <1>2, <1>3
<1>5. ASSUME NEW j \in 1..n
      PROVE  /\ ps[j] \in Message /\ ps[j].data = bb[j] /\ ps[j].oob = setSrcControl(ms[j].oob)
  <2>1. PICK oob : oob = setSrcControl(ms[j].oob)
    OBVIOUS
  <2>2. oob \in Nat
    BY <2>1, <1>2, <1>3 DEF setSrcControl
  <2>3. ps[j] = [data |-> bb[j], oob |-> oob]
    BY <2>1, <1>2, <1>4
  <2>4. bb[j] \in Seq(Nat \X Nat)
    BY <1>2
  <2> QED BY <2>1, <2>2, <2>3, <2>4 DEF Message
<1>6. ps \in Pooled
  <2>1. \A j \in 1..MaxMsgs : ps[j] \in Message
    BY <1>3, <1>4, <1>5
  <2>2. ps = [j \in 1..MaxMsgs |-> ps[j]]
    BY <1>3
  <2> QED BY <2>1, <2>2 DEF Pooled
<1>7. sticky => \A j \in 1..n : ps[j].oob = 0
  BY <1>5 DEF setSrcControl
<1>8. PICK e : e = [j \in 0..n |-> j]
  OBVIOUS
<1>9. Ends(n, e, n)
  <2>1. e \in [0..n -> 0..n] /\ e[0] = 0 /\ e[n] = n
    BY <1>2, <1>8
  <2>2. ASSUME NEW j \in 1..n PROVE e[j - 1] <= e[j]
    <3>1. j - 1 \in 0..n /\ j \in 0..n /\ j - 1 <= j
      BY <1>2
    <3> QED BY <3>1, <1>8
  <2> QED BY <2>1, <2>2 DEF Ends
<1>10. Sendable(bb, ps, n, e, nic)
  <2>1. SUFFICES ASSUME NEW j \in 1..n, ps[j].oob = 0 \/ nic
                 PROVE  Segmented(ps[j]) = Part(bb, e[j - 1], e[j])
    BY DEF Sendable
  <2>2. ps[j].oob = 0
    <3>1. CASE nic
      <4>1. ms = FreshMsgs
        BY <3>1
      <4>2. ms[j].oob = 0
        BY <4>1, <1>2, FreshPooled
      <4> QED BY <4>2, <1>5 DEF setSrcControl
    <3> QED BY <3>1, <2>1
  <2>3. Segmented(ps[j]) = <<bb[j]>>
    BY <2>2, <1>5 DEF Segmented
  <2>4. e[j - 1] = j - 1 /\ e[j] = j
    <3>1. j - 1 \in 0..n /\ j \in 0..n
      BY <1>2
    <3> QED BY <3>1, <1>8
  <2>5. Part(bb, j - 1, j) = <<bb[j]>>
    <3>1. PICK S : S = Seq(Nat \X Nat)
      OBVIOUS
    <3>2. bb \in Seq(S) /\ j \in 1..Len(bb)
      BY <3>1, <1>1, <1>2
    <3> QED BY <3>2, PartOne, Zenon
  <2> QED BY <2>3, <2>4, <2>5
<1> QED BY <1>1, <1>6, <1>7, <1>9, <1>10, Zenon

\* prepareMessages.
LEMMA PrepareKeeps ==
  ASSUME SendCallInv, PrepareMessages
  PROVE  SendCallInv'
<1>1. PICK bb, s, n, ms : bb = snd.bufs /\ s = snd' /\ n = s.n /\ ms = msgs'
  OBVIOUS
<1>2. /\ spc = "msgs" /\ spc' = "write" /\ opens' = opens /\ txOffload' = txOffload
      /\ sticky' = sticky /\ nicOk' = nicOk /\ wire' = wire
  BY DEF PrepareMessages, openVars
<1>3. /\ snd \in SendRecords /\ Called(bb) /\ MsgsInv(snd, msgs, wire, nicOk) /\ msgs \in Pooled
  BY <1>1, <1>2 DEF SendCallInv
<1>4. PICK m : s = [snd EXCEPT !.start = 1, !.n = m] /\
               m = IF snd.offload THEN coalesceMessages(snd.bufs).base ELSE Len(snd.bufs)
  BY <1>1, Zenon DEF PrepareMessages
<1>5. Len(bb) \in 1..MaxMsgs /\ MaxMsgs \in Nat /\ bb \in Seq(Seq(Nat \X Nat))
  BY <1>3, BindBounds DEF Called
<1>6. /\ ms \in Pooled /\ m \in 1..Len(bb)
      /\ snd.retried /\ sticky => \A j \in 1..m : ms[j].oob = 0
      /\ \E e : Ends(m, e, Len(bb)) /\ Sendable(bb, ms, m, e, nicOk)
  <2>1. CASE snd.offload
    <3>1. PICK b : b = coalesceMessages(bb)
      OBVIOUS
    <3>2. ms = b.msgs /\ m = b.base /\ ~ snd.retried /\ msgs = FreshMsgs
      BY <2>1, <3>1, <1>1, <1>3, <1>4, Zenon DEF PrepareMessages, MsgsInv
    <3>3. /\ b.msgs \in Pooled /\ b.base \in 1..Len(bb)
          /\ \E e : Ends(b.base, e, Len(bb)) /\ Complete(bb, b.msgs, b.base, e)
      BY <3>1, <3>2, <1>3, CoalesceIntact, Zenon
    <3>4. ASSUME NEW e, Complete(bb, b.msgs, b.base, e) PROVE Sendable(bb, b.msgs, b.base, e, nicOk)
      BY <3>4 DEF Complete, Sendable
    <3> QED BY <3>2, <3>3, <3>4, Zenon
  <2>2. CASE ~ snd.offload
    <3>1. ms = [j \in DOMAIN msgs |-> IF j \in DOMAIN bb
                                      THEN [data |-> bb[j], oob |-> setSrcControl(msgs[j].oob)]
                                      ELSE msgs[j]]
      BY <2>2, <1>1, Zenon DEF PrepareMessages
    <3>2. m = Len(bb) /\ (snd.retried \/ msgs = FreshMsgs) /\ (snd.retried => ~ nicOk)
      BY <2>2, <1>1, <1>3, <1>4, Zenon DEF MsgsInv
    <3>3. /\ ms \in Pooled
          /\ sticky => \A j \in 1..Len(bb) : ms[j].oob = 0
          /\ \E e : Ends(Len(bb), e, Len(bb)) /\ Sendable(bb, ms, Len(bb), e, nicOk)
      BY <3>1, <3>2, <1>3, PreparePlain, Zenon
    <3>4. Len(bb) \in 1..Len(bb)
      BY <1>5
    <3> QED BY <3>2, <3>3, <3>4, Zenon
  <2> QED BY <2>1, <2>2
<1>7. PICK e : Ends(m, e, Len(bb)) /\ Sendable(bb, ms, m, e, nicOk)
  BY <1>6, Zenon
<1>8. m \in Nat /\ m \in 1..MaxMsgs /\ 1 \in 1..m /\ 1 - 1 = 0
  BY <1>5, <1>6
<1>9. /\ s \in SendRecords /\ s.bufs = bb /\ s.start = 1 /\ s.n = m /\ s.offload = snd.offload
      /\ s.retried = snd.retried
  <2>1. s = [bufs |-> snd.bufs, conn |-> snd.conn, offload |-> snd.offload, retried |-> snd.retried,
             start |-> 1, n |-> m, err |-> snd.err]
    <3>1. snd = [bufs |-> snd.bufs, conn |-> snd.conn, offload |-> snd.offload, retried |-> snd.retried,
                 start |-> snd.start, n |-> snd.n, err |-> snd.err]
      BY <1>3, SendFields, Zenon
    <3>2. s = [snd EXCEPT !.start = 1, !.n = m]
      BY <1>4
    <3> HIDE <1>4
    <3> QED BY ONLY <3>1, <3>2
  <2> QED BY <2>1, <1>1, <1>3, <1>8, SendFields DEF SendRecords
<1>10. OnWire(bb, e[1 - 1], s.retried, wire')
  <2>1. e[0] = 0
    BY <1>7 DEF Ends
  <2>2. OnWire(bb, 0, snd.retried, wire)
    BY <1>1, <1>3, Zenon DEF MsgsInv
  <2> QED BY <2>1, <2>2, <1>2, <1>8, <1>9
<1>11. WriteInv(s, ms, wire', nicOk', sticky')
  <2>1. s.retried => ~ s.offload
    BY <1>3, <1>9, Zenon DEF MsgsInv
  <2> QED BY <2>1, <1>2, <1>6, <1>7, <1>8, <1>9, <1>10, Zenon DEF WriteInv
<1> QED BY <1>1, <1>2, <1>3, <1>6, <1>9, <1>11 DEF SendCallInv


\* The messages from start to k are the parts of the call between their ends.
LEMMA WrittenParts ==
  ASSUME NEW bb, Called(bb), NEW ms, NEW n \in Nat, NEW e, Ends(n, e, Len(bb)), NEW nic,
         Sendable(bb, ms, n, e, nic), NEW a \in 1..n, NEW k \in a..n,
         \A j \in a..k : ms[j].oob = 0 \/ nic
  PROVE  /\ FlattenSeq([j \in 1..(k - a + 1) |-> Segmented(ms[a + j - 1])]) = Part(bb, e[a - 1], e[k])
         /\ e[a - 1] <= e[k] /\ e[a - 1] \in Nat /\ e[k] \in Nat /\ e[k] <= Len(bb)
<1>1. PICK r, pp, d, S : /\ r = k - a + 1 /\ pp = [j \in 1..r |-> Segmented(ms[a + j - 1])]
                         /\ d = [j \in 0..r |-> e[a + j - 1]] /\ S = Seq(Nat \X Nat)
  OBVIOUS
<1>2. r \in Nat /\ r # 0 /\ a \in Nat /\ k \in Nat /\ a + r - 1 = k /\ a + 0 - 1 = a - 1
  BY <1>1
<1>3. bb \in Seq(S) /\ Len(bb) \in Nat
  BY <1>1 DEF Called
<1>4. \A j \in 0..n : e[j] \in 0..Len(bb)
  BY DEF Ends
<1>5. \A j \in 0..r : a + j - 1 \in 0..n
  BY <1>2
<1>6. \A j \in 0..r : d[j] = e[a + j - 1]
  BY <1>1
<1>7. d \in [0..r -> 0..Len(bb)]
  <2>1. \A j \in 0..r : d[j] \in 0..Len(bb)
    BY <1>4, <1>5, <1>6
  <2>2. d = [j \in 0..r |-> d[j]]
    BY <1>1
  <2> QED BY <2>1, <2>2
<1>8. ASSUME NEW j \in 1..r PROVE d[j - 1] <= d[j] /\ pp[j] = Part(bb, d[j - 1], d[j])
  <2>1. PICK x : x = a + j - 1
    OBVIOUS
  <2>2. x \in 1..n /\ x \in a..k /\ x - 1 = a + (j - 1) - 1 /\ j - 1 \in 0..r /\ j \in 0..r
    BY <2>1, <1>1, <1>2
  <2>3. d[j - 1] = e[x - 1] /\ d[j] = e[x]
    BY <2>1, <2>2, <1>6
  <2>4. e[x - 1] <= e[x]
    BY <2>2 DEF Ends
  <2>5. Segmented(ms[x]) = Part(bb, e[x - 1], e[x])
    <3>1. ms[x].oob = 0 \/ nic
      BY <2>2
    <3> QED BY <3>1, <2>2 DEF Sendable
  <2>6. pp[j] = Segmented(ms[x])
    BY <2>1, <1>1
  <2> QED BY <2>3, <2>4, <2>5, <2>6
<1>9. pp \in Seq(Seq(S)) /\ Len(pp) = r
  <2>1. PICK Q : Q = Seq(S)
    OBVIOUS
  <2>2. ASSUME NEW j \in 1..r PROVE pp[j] \in Q
    <3>1. PICK x, y : x = d[j - 1] /\ y = d[j]
      OBVIOUS
    <3>2. x \in Nat /\ y \in Nat /\ x <= y /\ y <= Len(bb) /\ pp[j] = Part(bb, x, y)
      <4>1. j - 1 \in 0..r /\ j \in 0..r
        BY <1>2
      <4>2. x \in 0..Len(bb) /\ y \in 0..Len(bb)
        BY <4>1, <3>1, <1>7
      <4>3. x \in Nat /\ y \in Nat /\ y <= Len(bb)
        BY <4>2, <1>3
      <4> QED BY <4>3, <3>1, <1>8
    <3> QED BY <3>2, <2>1, <1>3, PartShape
  <2>3. pp = [j \in 1..r |-> pp[j]]
    BY <1>1
  <2>4. pp \in Seq(Q) /\ Len(pp) = r
    BY <2>2, <2>3, <1>2
  <2> QED BY <2>1, <2>4
<1>10. FlattenSeq(pp) = Part(bb, d[0], d[r]) /\ d[0] <= d[r]
  <2>1. \A j \in 1..r : d[j - 1] <= d[j]
    BY <1>8
  <2>2. \A j \in 1..r : pp[j] = Part(bb, d[j - 1], d[j])
    BY <1>8
  <2>3. PartsOf(bb, r, d, pp)
    BY <2>1, <2>2, <1>7, <1>9 DEF PartsOf
  <2> QED BY <2>3, <1>2, <1>3, <1>9, FlattenParts
<1>11. d[0] = e[a - 1] /\ d[r] = e[k]
  <2>1. 0 \in 0..r /\ r \in 0..r
    BY <1>2
  <2> QED BY <2>1, <1>2, <1>6
<1>12. e[a - 1] \in Nat /\ e[k] \in Nat /\ e[k] <= Len(bb)
  <2>1. a - 1 \in 0..n /\ k \in 0..n
    BY <1>2
  <2>2. e[a - 1] \in 0..Len(bb) /\ e[k] \in 0..Len(bb)
    BY <2>1, <1>4
  <2> QED BY <2>2, <1>3
<1> QED BY <1>1, <1>10, <1>11, <1>12, Zenon

\* WriteBatch.
LEMMA WriteKeeps ==
  ASSUME SendCallInv, WriteBatch
  PROVE  SendCallInv'
<1>1. PICK bb, s, n, a : bb = snd.bufs /\ s = snd' /\ n = snd.n /\ a = snd.start
  OBVIOUS
<1>2. /\ spc = "write" /\ opens' = opens /\ txOffload' = txOffload
      /\ sticky' = sticky /\ nicOk' = nicOk /\ msgs' = msgs
  BY DEF WriteBatch, openVars
<1>3. snd \in SendRecords /\ Called(bb) /\ WriteInv(snd, msgs, wire, nicOk, sticky)
  BY <1>1, <1>2 DEF SendCallInv
<1>4. PICK k \in a..n : /\ \A j \in a..k : ~ Refused(msgs[j])
                        /\ wire' = wire \o FlattenSeq([j \in 1..(k - a + 1) |-> Segmented(msgs[a + j - 1])])
                        /\ s = [snd EXCEPT !.start = k + 1]
                        /\ spc' = IF k = n THEN "done" ELSE "write"
  BY <1>1, Zenon DEF WriteBatch
<1>5. n \in 1..MaxMsgs /\ a \in 1..n /\ (snd.retried => ~ snd.offload)
      /\ (snd.retried /\ sticky => \A j \in 1..n : msgs[j].oob = 0)
  BY <1>1, <1>3, Zenon DEF WriteInv
<1>6. PICK e : /\ Ends(n, e, Len(bb)) /\ Sendable(bb, msgs, n, e, nicOk)
               /\ OnWire(bb, e[a - 1], snd.retried, wire)
  BY <1>1, <1>3, Zenon DEF WriteInv
<1>7. MaxMsgs \in Nat /\ n \in Nat /\ k \in Nat /\ k <= n /\ k \in 1..n /\ bb \in Seq(Seq(Nat \X Nat))
  <2>1. MaxMsgs \in Nat /\ bb \in Seq(Seq(Nat \X Nat))
    BY <1>3, BindBounds DEF Called
  <2> QED BY <2>1, <1>5
<1>8. \A j \in a..k : msgs[j].oob = 0 \/ nicOk
  BY <1>4, Zenon DEF Refused
<1>9. /\ FlattenSeq([j \in 1..(k - a + 1) |-> Segmented(msgs[a + j - 1])]) = Part(bb, e[a - 1], e[k])
      /\ e[a - 1] <= e[k] /\ e[a - 1] \in Nat /\ e[k] \in Nat /\ e[k] <= Len(bb)
  BY <1>3, <1>5, <1>6, <1>7, <1>8, WrittenParts, Zenon
<1>10. OnWire(bb, e[k], snd.retried, wire')
  <2>1. PICK S, x, y : S = Seq(Nat \X Nat) /\ x = e[a - 1] /\ y = e[k]
    OBVIOUS
  <2>2. /\ bb \in Seq(S) /\ x \in Nat /\ y \in Nat /\ x <= y /\ y <= Len(bb)
        /\ OnWire(bb, x, snd.retried, wire)
    BY <2>1, <1>6, <1>7, <1>9, Zenon
  <2>3. OnWire(bb, y, snd.retried, wire \o Part(bb, x, y))
    BY <2>2, WireNext, Zenon
  <2> QED BY <2>1, <2>3, <1>4, <1>9, Zenon
<1>11. /\ s \in SendRecords /\ s.bufs = bb /\ s.start = k + 1 /\ s.n = n /\ s.offload = snd.offload
       /\ s.retried = snd.retried
  <2>1. PICK k1 : k1 = k + 1
    OBVIOUS
  <2>2. snd = [bufs |-> snd.bufs, conn |-> snd.conn, offload |-> snd.offload, retried |-> snd.retried,
               start |-> snd.start, n |-> snd.n, err |-> snd.err]
    BY <1>3, SendFields, Zenon
  <2>3. s = [snd EXCEPT !.start = k1] /\ k1 \in Nat
    BY <2>1, <1>4, <1>7
  <2>4. s = [bufs |-> snd.bufs, conn |-> snd.conn, offload |-> snd.offload, retried |-> snd.retried,
             start |-> k1, n |-> snd.n, err |-> snd.err]
    BY ONLY <2>2, <2>3
  <2>5. s \in SendRecords
    BY <2>3, <2>4, <1>3, SendFields DEF SendRecords
  <2>6. s.bufs = snd.bufs /\ s.start = k1 /\ s.n = snd.n /\ s.offload = snd.offload /\ s.retried = snd.retried
    BY ONLY <2>4
  <2> QED BY <2>1, <2>5, <2>6, <1>1, Zenon
<1>12. CASE k = n
  <2>1. spc' = "done" /\ e[k] = Len(bb)
    BY <1>4, <1>6, <1>12 DEF Ends
  <2>2. DoneInv(s, wire')
    BY <2>1, <1>10, <1>11, Zenon DEF DoneInv
  <2> QED BY <2>1, <2>2, <1>1, <1>2, <1>3, <1>11 DEF SendCallInv
<1>13. CASE k # n
  <2>1. spc' = "write" /\ k + 1 \in 1..n /\ k + 1 - 1 = k
    <3>1. spc' = "write"
      BY <1>4, <1>13, Zenon
    <3>2. k + 1 \in 1..n /\ k + 1 - 1 = k
      BY ONLY <1>7, <1>13
    <3> QED BY <3>1, <3>2
  <2>2. WriteInv(s, msgs', wire', nicOk', sticky')
    <3>1. s.n = n /\ n \in 1..MaxMsgs /\ s.start \in 1..s.n /\ s.start - 1 = k /\ s.bufs = bb
          /\ (s.retried => ~ s.offload)
          /\ (s.retried /\ sticky' => \A j \in 1..s.n : msgs'[j].oob = 0)
      <4>1. s.n = n /\ s.bufs = bb /\ s.start \in 1..s.n /\ s.start - 1 = k
        <5>1. s.n = n /\ s.bufs = bb /\ s.start = k + 1
          BY <1>11
        <5> QED BY <5>1, <2>1
      <4>2. s.retried /\ sticky' => \A j \in 1..n : msgs'[j].oob = 0
        BY <1>2, <1>5, <1>11, Zenon
      <4> QED BY <4>1, <4>2, <1>5, <1>11, Zenon
    <3>2. /\ Ends(s.n, e, Len(s.bufs)) /\ Sendable(s.bufs, msgs', s.n, e, nicOk')
          /\ OnWire(s.bufs, e[s.start - 1], s.retried, wire')
      BY <3>1, <1>2, <1>6, <1>10, <1>11, Zenon
    <3> QED BY <3>1, <3>2, Zenon DEF WriteInv
  <2> QED BY <2>1, <2>2, <1>1, <1>2, <1>3, <1>11 DEF SendCallInv
<1> QED BY <1>12, <1>13

\* The kernel refuses a message.
LEMMA RefuseKeeps ==
  ASSUME SendCallInv, Refuse
  PROVE  SendCallInv'
<1>1. PICK bb, s, n, a : bb = snd.bufs /\ s = snd' /\ n = snd.n /\ a = snd.start
  OBVIOUS
<1>2. /\ spc = "write" /\ opens' = opens /\ txOffload' = txOffload
      /\ sticky' = sticky /\ nicOk' = nicOk /\ msgs' = msgs /\ wire' = wire /\ ~ nicOk
      /\ s = [snd EXCEPT !.err = ~ snd.offload] /\ spc' = IF snd.offload THEN "eio" ELSE "done"
  BY <1>1 DEF Refuse, Refused, openVars
<1>3. snd \in SendRecords /\ Called(bb) /\ WriteInv(snd, msgs, wire, nicOk, sticky)
  BY <1>1, <1>2 DEF SendCallInv
<1>4. PICK er : er = ~ snd.offload
  OBVIOUS
<1>5. er \in BOOLEAN /\ (~ snd.offload => er)
  BY <1>4, Zenon
<1>6. snd = [bufs |-> snd.bufs, conn |-> snd.conn, offload |-> snd.offload, retried |-> snd.retried,
             start |-> snd.start, n |-> snd.n, err |-> snd.err]
  BY <1>3, SendFields, Zenon
<1>7. s = [snd EXCEPT !.err = er]
  BY <1>2, <1>4, Zenon
<1>8. s = [bufs |-> snd.bufs, conn |-> snd.conn, offload |-> snd.offload, retried |-> snd.retried,
           start |-> snd.start, n |-> snd.n, err |-> er]
  BY ONLY <1>6, <1>7
<1>9. s \in SendRecords
  BY <1>3, <1>5, <1>8, SendFields DEF SendRecords
<1>10. s.bufs = snd.bufs /\ s.offload = snd.offload /\ s.retried = snd.retried /\ s.err = er
  BY ONLY <1>8
<1>11. CASE snd.offload
  <2>1. spc' = "eio" /\ ~ snd.retried
    BY <1>2, <1>3, <1>11, Zenon DEF WriteInv
  <2>2. PICK e : Ends(n, e, Len(bb)) /\ OnWire(bb, e[a - 1], snd.retried, wire)
    BY <1>1, <1>3, Zenon DEF WriteInv
  <2>3. e[a - 1] \in 0..Len(bb)
    <3>1. n \in Nat /\ a \in 1..n
      <4>1. n \in 1..MaxMsgs /\ a \in 1..n /\ MaxMsgs \in Nat
        BY <1>1, <1>3, BindBounds DEF WriteInv
      <4> QED BY <4>1
    <3>2. a - 1 \in 0..n
      BY <3>1
    <3> QED BY <3>2, <2>2 DEF Ends
  <2>4. OnWire(bb, e[a - 1], FALSE, wire)
    BY <2>1, <2>2, Zenon DEF OnWire
  <2>5. OnWire(bb, 0, TRUE, wire)
    <3>1. bb \in Seq(Seq(Nat \X Nat))
      BY <1>3 DEF Called
    <3> QED BY <3>1, <2>3, <2>4, WireOnce, Zenon
  <2>6. EioInv(s, wire', nicOk')
    BY <2>5, <1>1, <1>2, <1>10, <1>11, Zenon DEF EioInv
  <2> QED BY <2>1, <2>6, <1>1, <1>2, <1>3, <1>9, <1>10 DEF SendCallInv
<1>12. CASE ~ snd.offload
  <2>1. spc' = "done" /\ DoneInv(s, wire')
    BY <1>2, <1>5, <1>10, <1>12, Zenon DEF DoneInv
  <2> QED BY <2>1, <1>1, <1>2, <1>3, <1>9, <1>10 DEF SendCallInv
<1> QED BY <1>11, <1>12

\* Offload is turned off and the messages are sent again.
LEMMA DisableKeeps ==
  ASSUME SendCallInv, DisableOffload
  PROVE  SendCallInv'
<1>1. PICK bb, s : bb = snd.bufs /\ s = snd'
  OBVIOUS
<1>2. /\ spc = "eio" /\ spc' = "msgs" /\ opens' = opens /\ txOffload' = FALSE
      /\ sticky' = sticky /\ nicOk' = nicOk /\ msgs' = msgs /\ wire' = wire
      /\ s = [snd EXCEPT !.offload = FALSE, !.retried = TRUE]
  BY <1>1 DEF DisableOffload, openVars
<1>3. snd \in SendRecords /\ Called(bb) /\ EioInv(snd, wire, nicOk)
  BY <1>1, <1>2 DEF SendCallInv
<1>4. snd = [bufs |-> snd.bufs, conn |-> snd.conn, offload |-> snd.offload, retried |-> snd.retried,
             start |-> snd.start, n |-> snd.n, err |-> snd.err]
  BY <1>3, SendFields, Zenon
<1>5. s = [bufs |-> snd.bufs, conn |-> snd.conn, offload |-> FALSE, retried |-> TRUE,
           start |-> snd.start, n |-> snd.n, err |-> snd.err]
  BY <1>2, <1>4
<1>6. s \in SendRecords
  BY <1>3, <1>5, SendFields DEF SendRecords
<1>7. s.bufs = snd.bufs /\ s.offload = FALSE /\ s.retried = TRUE
  BY ONLY <1>5
<1>8. MsgsInv(s, msgs', wire', nicOk')
  BY <1>2, <1>3, <1>7, Zenon DEF MsgsInv, EioInv
<1> QED BY <1>1, <1>2, <1>3, <1>6, <1>7, <1>8 DEF SendCallInv

\* The socket is closed under a call, or the call returns.
LEMMA EndKeeps ==
  ASSUME SendCallInv, WriteFails \/ SendReturns
  PROVE  SendCallInv'
<1>1. PICK s : s = snd'
  OBVIOUS
<1>2. opens' = opens /\ txOffload' = txOffload /\ sticky' = sticky /\ nicOk' = nicOk
  BY DEF WriteFails, SendReturns, openVars
<1>3. CASE WriteFails
  <2>1. /\ spc = "write" /\ spc' = "done" /\ s = [snd EXCEPT !.err = TRUE] /\ msgs' = msgs
    BY <1>1, <1>3 DEF WriteFails
  <2>2. snd \in SendRecords /\ Called(snd.bufs)
    BY <2>1 DEF SendCallInv
  <2>3. snd = [bufs |-> snd.bufs, conn |-> snd.conn, offload |-> snd.offload, retried |-> snd.retried,
               start |-> snd.start, n |-> snd.n, err |-> snd.err]
    BY <2>2, SendFields, Zenon
  <2>4. s = [bufs |-> snd.bufs, conn |-> snd.conn, offload |-> snd.offload, retried |-> snd.retried,
             start |-> snd.start, n |-> snd.n, err |-> TRUE]
    BY <2>1, <2>3
  <2>5. s \in SendRecords
    BY <2>2, <2>4, SendFields DEF SendRecords
  <2>6. s.bufs = snd.bufs /\ s.err = TRUE
    BY ONLY <2>4
  <2>7. DoneInv(s, wire')
    BY <2>6 DEF DoneInv
  <2> QED BY <2>1, <2>2, <2>5, <2>6, <2>7, <1>1, <1>2 DEF SendCallInv
<1>4. CASE SendReturns
  <2>1. spc' = "idle" /\ s = NoCall /\ msgs' = FreshMsgs
    BY <1>1, <1>4 DEF SendReturns, putMessages
  <2>2. s \in SendRecords
    <3>1. <<>> \in Seq(Seq(Nat \X Nat))
      OBVIOUS
    <3> QED BY <3>1, <2>1 DEF NoCall, SendRecords
  <2> QED BY <2>1, <2>2, <1>1, <1>2, FreshPooled DEF SendCallInv
<1> QED BY <1>3, <1>4

\* Open, Close and receiveIP.
LEMMA OthersKeep ==
  ASSUME SendCallInv, UNCHANGED sendVars, opens' \in Nat, txOffload' \in BOOLEAN
  PROVE  SendCallInv'
  BY DEF SendCallInv, sendVars

\* The initial states.
LEMMA SendBegins == BindInit => SendCallInv
<1>1. SUFFICES ASSUME BindInit PROVE SendCallInv
  OBVIOUS
<1>2. NoCall \in SendRecords
  <2>1. <<>> \in Seq(Seq(Nat \X Nat))
    OBVIOUS
  <2> QED BY <2>1 DEF NoCall, SendRecords
<1> QED BY <1>1, <1>2, FreshPooled DEF BindInit, SendCallInv

\* The steps.
LEMMA SendStep == SendCallInv /\ [BindNext]_bindVars => SendCallInv'
<1>1. SUFFICES ASSUME SendCallInv, [BindNext]_bindVars PROVE SendCallInv'
  OBVIOUS
<1>2. opens \in Nat /\ txOffload \in BOOLEAN
  BY <1>1 DEF SendCallInv
<1>3. CASE UNCHANGED bindVars
  BY <1>1, <1>2, <1>3, OthersKeep DEF bindVars, sendVars
<1>4. ASSUME NEW p \in Port \cup {0}, Open(p) PROVE SendCallInv'
  BY <1>1, <1>2, <1>4, OthersKeep DEF Open
<1>5. CASE ListenV4
  BY <1>1, <1>2, <1>5, OthersKeep DEF ListenV4
<1>6. CASE ListenV6
  BY <1>1, <1>2, <1>6, OthersKeep DEF ListenV6
<1>7. CASE ListenV6Fails
  BY <1>1, <1>2, <1>7, OthersKeep DEF ListenV6Fails
<1>8. CASE Close
  BY <1>1, <1>2, <1>8, OthersKeep DEF Close
<1>9. ASSUME NEW k \in 1..MaxSend, NEW lens \in [1..k -> MsgLen], Send(lens) PROVE SendCallInv'
  BY <1>1, <1>9, SendStarts
<1>10. CASE PrepareMessages
  BY <1>1, <1>10, PrepareKeeps
<1>11. CASE WriteBatch
  BY <1>1, <1>11, WriteKeeps
<1>12. CASE Refuse
  BY <1>1, <1>12, RefuseKeeps
<1>13. CASE DisableOffload
  BY <1>1, <1>13, DisableKeeps
<1>14. CASE WriteFails \/ SendReturns
  BY <1>1, <1>14, EndKeeps
<1>15. ASSUME NEW t, Receive(t) PROVE SendCallInv'
  BY <1>1, <1>2, <1>15, OthersKeep DEF Receive, openVars
<1>16. CASE ReceiveReturns
  BY <1>1, <1>2, <1>16, OthersKeep DEF ReceiveReturns, openVars
<1>17. CASE BindTerminated
  BY <1>3, <1>17 DEF BindTerminated
<1> QED BY <1>1, <1>3, <1>4, <1>5, <1>6, <1>7, <1>8, <1>9, <1>10, <1>11, <1>12, <1>13, <1>14,
           <1>15, <1>16, <1>17
        DEF BindNext

\* Segmentation offload is transparent: when Send returns without an error, every message
\* of the call went out once, whole and in order, after at most a part of them that an
\* earlier pass had sent before the kernel refused to segment; and with the controls of
\* Linux the second pass does not ask for segmentation again.  This holds for messages of
\* any lengths, any limits of the segments, and however WriteBatch divides the messages.
THEOREM SendsAreTransparent == BindSpec => []SendTransparent
<1>1. SendCallInv => SendTransparent
  BY SendInvTransparent
<1> QED BY <1>1, SendBegins, SendStep, PTL DEF BindSpec

-----------------------------------------------------------------------------
(* Open and Close: the sockets.                                            *)

\* the sockets the bind knows of
Known(fam) == {<<f, fam[f]>> : f \in {g \in Families : fam[g] # 0}}

(* The sockets in each step of Open: BindTypeOK and OnePort, made inductive. *)
OpenInv ==
  /\ bpc \in {"idle", "v4", "v6", "panic"}
  /\ family \in [Families -> Nat]
  /\ port \in [uport : Nat, port : Nat, tries : 0..MaxTries]
  /\ bpc = "idle" => osSockets = Known(family)
  /\ bpc \in {"v4", "v6"} => family = Closed
  /\ bpc = "v4" => osSockets = {}
  /\ bpc = "v6" => \/ osSockets = {}
                   \/ port.port # 0 /\ osSockets = {<<"udp4", port.port>>}
  /\ OnePort

\* Nothing is known of a bind that is closed.
LEMMA ClosedKnown == Closed \in [Families -> Nat] /\ Known(Closed) = {} /\ \A f \in Families : Closed[f] = 0
  BY DEF Closed, Known

\* A step of Open that fails or tries again.
LEMMA ListensKeep ==
  ASSUME OpenInv, ListenV4 \/ ListenV6Fails
  PROVE  OpenInv'
<1>1. MaxTries \in Nat /\ Port \subseteq Nat \ {0} /\ NoOpen \in [uport : Nat, port : Nat, tries : 0..MaxTries]
  BY BindBounds DEF NoOpen
<1>2. family = Closed /\ family' = family
  BY DEF OpenInv, ListenV4, ListenV6Fails
<1>3. family' \in [Families -> Nat] /\ Known(family') = {} /\ OnePort'
  BY <1>2, ClosedKnown DEF OnePort, Families
<1>4. CASE ListenV4
  <2>1. osSockets = {} /\ bpc' \in {"idle", "v6"}
    BY <1>4 DEF ListenV4, OpenInv
  <2>2. CASE bpc' = "v6" /\ \E p \in Granted(port.port) : /\ osSockets' = osSockets \cup {<<"udp4", p>>}
                                                          /\ port' = [port EXCEPT !.port = p]
    <3>1. PICK p \in Granted(port.port) : /\ osSockets' = osSockets \cup {<<"udp4", p>>}
                                          /\ port' = [port EXCEPT !.port = p]
      BY <2>2
    <3>2. p \in Nat /\ p # 0
      BY <1>1 DEF Granted, OpenInv
    <3>3. port' \in [uport : Nat, port : Nat, tries : 0..MaxTries] /\ port'.port = p
      BY <3>1, <3>2 DEF OpenInv
    <3> QED BY <1>2, <1>3, <2>1, <2>2, <3>1, <3>2, <3>3 DEF OpenInv
  <2>3. CASE bpc' = "v6" /\ osSockets' = osSockets /\ port' = [port EXCEPT !.port = 0]
    <3>1. port' \in [uport : Nat, port : Nat, tries : 0..MaxTries]
      BY <2>3 DEF OpenInv
    <3> QED BY <1>2, <1>3, <2>1, <2>3, <3>1 DEF OpenInv
  <2>4. CASE bpc' = "idle" /\ osSockets' = osSockets /\ port' = NoOpen
    BY <1>1, <1>2, <1>3, <2>1, <2>4 DEF OpenInv
  <2> QED BY <1>4, <2>2, <2>3, <2>4 DEF ListenV4
<1>5. CASE ListenV6Fails
  <2>1. osSockets' = {}
    <3>1. osSockets' = CloseV4 /\ bpc = "v6"
      BY <1>5 DEF ListenV6Fails
    <3>2. \A x \in osSockets : x[1] = "udp4"
      BY <3>1 DEF OpenInv
    <3> QED BY <3>1, <3>2 DEF CloseV4, Opened
  <2>2. CASE bpc' = "panic" /\ port' = port
    BY <1>2, <1>3, <2>1, <2>2 DEF OpenInv
  <2>3. CASE bpc' = "v4" /\ port.tries < MaxTries /\ port' = [port EXCEPT !.port = 0, !.tries = @ + 1]
    <3>1. port' \in [uport : Nat, port : Nat, tries : 0..MaxTries]
      <4>1. port.tries + 1 \in 0..MaxTries
        BY <2>3, <1>1 DEF OpenInv
      <4> QED BY <2>3, <4>1 DEF OpenInv
    <3> QED BY <1>2, <1>3, <2>1, <2>3, <3>1 DEF OpenInv
  <2>4. CASE bpc' = "idle" /\ port' = NoOpen
    BY <1>1, <1>2, <1>3, <2>1, <2>4 DEF OpenInv
  <2> QED BY <1>5, <2>2, <2>3, <2>4 DEF ListenV6Fails
<1> QED BY <1>4, <1>5

\* Open ends with its sockets.
LEMMA OpenedKeeps ==
  ASSUME OpenInv, ListenV6
  PROVE  OpenInv'
<1>1. Port \subseteq Nat \ {0} /\ NoOpen \in [uport : Nat, port : Nat, tries : 0..MaxTries]
  BY BindBounds DEF NoOpen
<1>2. PICK v4 : v4 = IF Opened = {} THEN 0 ELSE (CHOOSE x \in Opened : TRUE)[2]
  OBVIOUS
<1>3. PICK v6 \in IF "udp6" \in host THEN Granted(V6Port) ELSE {0} :
         /\ family' = [f \in Families |-> IF f = "udp4" THEN v4 ELSE v6]
         /\ osSockets' = osSockets \cup (IF v6 = 0 THEN {} ELSE {<<"udp6", v6>>})
         /\ actualPort' = v6
  BY <1>2 DEF ListenV6
<1>4. bpc = "v6" /\ bpc' = "idle" /\ port' = NoOpen
  BY DEF ListenV6
<1>5. port.port \in Nat /\ v6 \in Nat /\ (v6 # 0 /\ port.port # 0 => v6 = port.port)
  <2>1. port.port \in Nat
    BY DEF OpenInv
  <2>2. v6 = 0 \/ v6 \in Granted(port.port)
    BY DEF V6Port
  <2> QED BY <2>1, <2>2, <1>1 DEF Granted
<1>6. /\ v4 = 0 \/ v4 = port.port
      /\ osSockets = IF v4 = 0 THEN {} ELSE {<<"udp4", v4>>}
  <2>1. CASE osSockets = {}
    <3>1. Opened = {}
      BY <2>1 DEF Opened
    <3> QED BY <2>1, <3>1, <1>2
  <2>2. CASE port.port # 0 /\ osSockets = {<<"udp4", port.port>>}
    <3>1. Opened = {<<"udp4", port.port>>}
      BY <2>2 DEF Opened
    <3>2. PICK x : x = CHOOSE y \in Opened : TRUE
      OBVIOUS
    <3>3. x \in Opened
      BY <3>1, <3>2
    <3>4. x[2] = port.port
      BY <3>1, <3>3
    <3>5. v4 = port.port
      BY <1>2, <3>1, <3>2, <3>4
    <3> QED BY <2>2, <3>5
  <2> QED BY <2>1, <2>2, <1>4 DEF OpenInv
<1>7. family' \in [Families -> Nat] /\ family'["udp4"] = v4 /\ family'["udp6"] = v6
  BY <1>3, <1>5, <1>6 DEF Families
<1>8. osSockets' = Known(family')
  <2>1. ASSUME NEW x PROVE x \in osSockets' <=> x \in Known(family')
    <3>1. x \in osSockets' <=> (v4 # 0 /\ x = <<"udp4", v4>>) \/ (v6 # 0 /\ x = <<"udp6", v6>>)
      BY <1>3, <1>6
    <3>2. x \in Known(family') <=> \E f \in Families : family'[f] # 0 /\ x = <<f, family'[f]>>
      BY DEF Known
    <3> QED BY <3>1, <3>2, <1>7 DEF Families
  <2> QED BY <2>1
<1>9. OnePort'
  <2>1. SUFFICES ASSUME \A f \in Families : family'[f] # 0
                 PROVE  \A f \in Families : family'[f] = actualPort'
    BY DEF OnePort
  <2>2. v4 # 0 /\ v6 # 0
    BY <2>1, <1>7 DEF Families
  <2>3. v4 = v6 /\ actualPort' = v6
    BY <2>2, <1>3, <1>5, <1>6
  <2> QED BY <2>3, <1>7 DEF Families
<1> QED BY <1>1, <1>4, <1>7, <1>8, <1>9 DEF OpenInv

\* the sockets and the call of Send
SocketInv == OpenInv /\ SendCallInv

\* A bind begins without sockets.
LEMMA SocketsBegin ==
  ASSUME BindInit
  PROVE  SocketInv
<1>1. SendCallInv
  BY SendBegins
<1>2. NoOpen \in [uport : Nat, port : Nat, tries : 0..MaxTries]
  BY BindBounds DEF NoOpen
<1>3. OnePort
  BY ClosedKnown DEF BindInit, OnePort, Families
<1>4. OpenInv
  BY <1>2, <1>3, ClosedKnown DEF BindInit, OpenInv
<1> QED BY <1>1, <1>4 DEF SocketInv

\* Every step of the bind keeps the invariant of its sockets.
LEMMA SocketsStep ==
  ASSUME SocketInv, [BindNext]_bindVars
  PROVE  SocketInv'
<1>1. SUFFICES OpenInv'
  BY SendStep DEF SocketInv
<1>2. QED
  <2>1. OpenInv /\ SendCallInv /\ [BindNext]_bindVars
    BY DEF SocketInv
  <2>2. ASSUME UNCHANGED openVars PROVE OpenInv'
    BY <2>1, <2>2 DEF OpenInv, OnePort, openVars, Known
  <2>3. CASE UNCHANGED bindVars
    BY <2>2, <2>3 DEF bindVars, openVars
  <2>4. ASSUME NEW p \in Port \cup {0}, Open(p) PROVE OpenInv'
    <3>1. /\ bpc = "idle" /\ family = Closed /\ bpc' = "v4" /\ family' = family /\ osSockets' = osSockets
          /\ port' = [uport |-> p, port |-> p, tries |-> 0]
      BY <2>4 DEF Open
    <3>2. port' \in [uport : Nat, port : Nat, tries : 0..MaxTries]
      BY <3>1, BindBounds
    <3>3. osSockets = {}
      BY <2>1, <3>1, ClosedKnown DEF OpenInv
    <3>4. OnePort'
      BY <3>1, ClosedKnown DEF OnePort, Families
    <3> QED BY <3>1, <3>2, <3>3, <3>4, ClosedKnown DEF OpenInv
  <2>5. CASE ListenV4 \/ ListenV6Fails
    BY <2>1, <2>5, ListensKeep
  <2>6. CASE ListenV6
    BY <2>1, <2>6, OpenedKeeps
  <2>7. CASE Close
    <3>1. /\ bpc = "idle" /\ bpc' = "idle" /\ family' = Closed /\ port' = port
          /\ osSockets' = {x \in osSockets : family[x[1]] = 0}
      BY <2>7 DEF Close
    <3>2. \A x \in osSockets : family[x[1]] # 0
      BY <2>1, <3>1 DEF OpenInv, Known
    <3>3. osSockets' = {}
      BY <3>1, <3>2
    <3>4. OnePort'
      BY <3>1, ClosedKnown DEF OnePort, Families
    <3> QED BY <2>1, <3>1, <3>3, <3>4, ClosedKnown DEF OpenInv
  <2>8. ASSUME NEW lens, Send(lens) PROVE OpenInv'
    BY <2>2, <2>8 DEF Send
  <2>9. CASE PrepareMessages \/ WriteBatch
    BY <2>2, <2>9 DEF PrepareMessages, WriteBatch
  <2>10. CASE Refuse \/ DisableOffload \/ WriteFails \/ SendReturns
    BY <2>2, <2>10 DEF Refuse, DisableOffload, WriteFails, SendReturns
  <2>11. ASSUME NEW t, Receive(t) PROVE OpenInv'
    BY <2>2, <2>11 DEF Receive
  <2>12. CASE ReceiveReturns
    BY <2>2, <2>12 DEF ReceiveReturns
  <2>13. CASE BindTerminated
    BY <2>3, <2>13 DEF BindTerminated
  <2> QED BY <2>1, <2>3, <2>4, <2>5, <2>6, <2>7, <2>8, <2>9, <2>10, <2>11, <2>12, <2>13
          DEF BindNext

\* The invariant gives the types.
LEMMA SocketsTyped ==
  ASSUME SocketInv
  PROVE  BindTypeOK /\ OnePort
<1>1. OpenInv /\ SendCallInv
  BY DEF SocketInv
<1>2. DOMAIN msgs = 1..MaxMsgs /\ spc \in {"idle", "msgs", "write", "eio", "done"}
  BY <1>1 DEF SendCallInv, Pooled
<1>3. port.tries <= MaxTries
  BY <1>1, BindBounds DEF OpenInv
<1> QED BY <1>1, <1>2, <1>3 DEF OpenInv, BindTypeOK, Known

\* The bind forgets no socket: between the calls of Open and Close, the sockets that are
\* open in the kernel are those it knows of, whichever step of Open failed and however
\* often it tried again; and with both families they have one port, the one Open returned.
THEOREM SocketsAreKnown == BindSpec => [](BindTypeOK /\ OnePort)
  BY SocketsBegin, SocketsStep, SocketsTyped, PTL DEF BindSpec

-----------------------------------------------------------------------------
(* The components of the run together                                      *)

\* one component runs, and the others are switched off
BatchesInv ==
  \/ tphase = "off" /\ bpc = "off" /\ OwnerInv /\ OffloadTypeOK /\ BindTypeOK /\ OnePort
  \/ bpc = "off" /\ OffloadInv /\ TypeOK /\ BindTypeOK /\ OnePort
  \/ tphase = "off" /\ SocketInv /\ TypeOK /\ OffloadTypeOK

\* A component that is switched off has its types.
LEMMA OffTypes ==
  /\ ReceiveOff => TypeOK
  /\ OffloadOff => OffloadTypeOK
  /\ BindOff => BindTypeOK /\ OnePort
<1>1. ASSUME ReceiveOff PROVE TypeOK
  <2>1. /\ phase = "closed" /\ free = Buffer /\ bufsArrs = [n \in Pos |-> b1] /\ bufs = [n \in Pos |-> b1]
        /\ content = [b \in Buffer |-> Blank] /\ sizes = [n \in Pos |-> 0] /\ count = 0 /\ i = 1 /\ arrived = <<>>
        /\ moved = {} /\ astray = FALSE /\ byPeer = {} /\ handshakes = <<>> /\ inbound = {} /\ restart = FALSE
    BY <1>1 DEF ReceiveOff
  <2>2. bufsArrs \in [Pos -> Buffer] /\ bufs \in [Pos -> Buffer]
    BY <2>1, OffAssumption
  <2>3. content \in [Buffer -> Packet \cup {Blank}] /\ sizes \in [Pos -> Nat]
    BY <2>1
  <2>4. count \in 0..BatchSize /\ i \in 1..BatchSize + 1
    BY <2>1, BatchAssumption
  <2>5. arrived \in Seq(Packet) /\ handshakes \in Seq(Elem) /\ Len(handshakes) <= QueueSize
    BY <2>1, BatchAssumption
  <2> QED BY <2>1, <2>2, <2>3, <2>4, <2>5 DEF TypeOK
<1>2. ASSUME OffloadOff PROVE OffloadTypeOK
  <2>1. /\ tphase = "off" /\ vnetHdr = FALSE /\ udpGSO = FALSE /\ lost = FALSE /\ batch = <<>> /\ tunBufs = <<>>
        /\ itemsByFlow = <<>> /\ toWrite = <<>> /\ itemsPool = [x \in Protos |-> IdealBatchSize]
    BY <1>2 DEF OffloadOff
  <2>2. DOMAIN itemsByFlow = {} /\ Range(toWrite) = {}
    BY <2>1 DEF Range
  <2>3. IdealBatchSize \in Nat /\ Cardinality({}) = 0
    BY OffloadBounds, FS_EmptySet
  <2>4. ASSUME NEW x \in Protos
        PROVE  /\ itemsPool[x] \in Nat
               /\ itemsPool[x] + Cardinality({k \in DOMAIN itemsByFlow : k[1] = x}) = IdealBatchSize
    <3>1. itemsPool[x] = IdealBatchSize /\ {k \in DOMAIN itemsByFlow : k[1] = x} = {}
      BY <2>1, <2>2
    <3> QED BY <2>3, <3>1
  <2> QED BY <2>1, <2>2, <2>4 DEF OffloadTypeOK
<1>3. ASSUME BindOff PROVE BindTypeOK /\ OnePort
  <2>1. bpc = "off" /\ spc = "idle" /\ DOMAIN msgs = 1..MaxMsgs /\ port.tries = 0
    BY <1>3 DEF BindOff, FreshMsgs, NoOpen
  <2>2. 0 <= MaxTries
    BY BindBounds
  <2> QED BY <2>1, <2>2 DEF BindTypeOK, OnePort
<1>4. QED
  BY <1>1, <1>2, <1>3

\* What a component that does not move keeps.
LEMMA OffStays ==
  /\ TypeOK /\ UNCHANGED vars => TypeOK'
  /\ OffloadTypeOK /\ UNCHANGED offloadVars => OffloadTypeOK' /\ tphase' = tphase
  /\ BindTypeOK /\ OnePort /\ UNCHANGED bindVars => BindTypeOK' /\ OnePort' /\ bpc' = bpc
<1>1. TypeOK /\ UNCHANGED vars => TypeOK'
  BY DEF TypeOK, vars, history
<1>2. OffloadTypeOK /\ UNCHANGED offloadVars => OffloadTypeOK' /\ tphase' = tphase
  BY DEF OffloadTypeOK, offloadVars
<1>3. BindTypeOK /\ OnePort /\ UNCHANGED bindVars => BindTypeOK' /\ OnePort' /\ bpc' = bpc
  BY DEF BindTypeOK, OnePort, bindVars
<1>4. QED
  BY <1>1, <1>2, <1>3

\* The one that runs keeps its invariant.
LEMMA BatchesStep ==
  ASSUME BatchesInv, [BatchesNext]_<<vars, offloadVars, bindVars>>
  PROVE  BatchesInv'
<1>1. CASE tphase = "off" /\ bpc = "off" /\ OwnerInv /\ OffloadTypeOK /\ BindTypeOK /\ OnePort
  <2>1. [Next]_vars /\ UNCHANGED <<offloadVars, bindVars>>
    BY <1>1 DEF BatchesNext
  <2>2. OwnerInv'
    BY <1>1, <2>1, OwnerStep
  <2> QED BY <1>1, <2>1, <2>2, OffStays DEF BatchesInv
<1>2. CASE bpc = "off" /\ OffloadInv /\ TypeOK /\ BindTypeOK /\ OnePort
  <2>1. tphase # "off"
    BY <1>2 DEF OffloadInv
  <2>2. (OffloadNext \/ UNCHANGED offloadVars) /\ UNCHANGED <<vars, bindVars>>
    BY <1>2, <2>1 DEF BatchesNext
  <2>3. OffloadInv'
    BY <1>2, <2>2, OffloadInvStep, OffloadInvStutter
  <2> QED BY <1>2, <2>2, <2>3, OffStays DEF BatchesInv
<1>3. CASE tphase = "off" /\ SocketInv /\ TypeOK /\ OffloadTypeOK
  <2>1. bpc # "off"
    BY <1>3 DEF SocketInv, OpenInv
  <2>2. [BindNext]_bindVars /\ UNCHANGED <<vars, offloadVars>>
    BY <1>3, <2>1 DEF BatchesNext
  <2>3. SocketInv'
    BY <1>3, <2>2, SocketsStep
  <2> QED BY <1>3, <2>2, <2>3, OffStays DEF BatchesInv
<1>4. QED
  BY <1>1, <1>2, <1>3 DEF BatchesInv

\* Types of the receive path, the offload of the TUN device and the bind, in the specification
\* the run checks: no pool and no table of items loses a slice, and no socket is forgotten.
THEOREM BatchesTypes == BatchesSpec => []BatchesTypeOK
<1>1. BatchesInit => BatchesInv
  <2>1. ASSUME Init, OffloadOff, BindOff PROVE BatchesInv
    BY <2>1, OwnerInit, OffTypes DEF BatchesInv, OffloadOff, BindOff
  <2>2. ASSUME ReceiveOff, OffloadInit, BindOff PROVE BatchesInv
    BY <2>2, OffloadInvInit, OffTypes DEF BatchesInv, BindOff
  <2>3. ASSUME ReceiveOff, OffloadOff, BindInit PROVE BatchesInv
    BY <2>3, SocketsBegin, OffTypes DEF BatchesInv, OffloadOff
  <2> QED BY <2>1, <2>2, <2>3 DEF BatchesInit
<1>2. BatchesInv => BatchesTypeOK
  BY OffloadTyped, SocketsTyped DEF BatchesInv, BatchesTypeOK, OwnerInv
<1>3. QED
  BY <1>1, <1>2, BatchesStep, PTL DEF BatchesSpec
=============================================================================

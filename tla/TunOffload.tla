----------------------------- MODULE TunOffload -----------------------------
(***************************************************************************)
(* Segmentation offload of the Linux TUN device (tun/offload_linux.go and  *)
(* the data path of tun/tun_linux.go).                                     *)
(*                                                                         *)
(* Write gives the kernel a batch of decrypted packets.  handleGRO looks   *)
(* for packets that continue one another and copies them into one buffer,  *)
(* with a virtio header that tells the kernel how to cut it up.  Read is   *)
(* the converse: gsoSplit cuts a large packet of the kernel into packets   *)
(* that fit the tunnel.  Here the kernel hands what was written to the     *)
(* reading side unchanged, as it does when it forwards, so that what       *)
(* leaves Read can be compared with what entered Write.                    *)
(*                                                                         *)
(* A packet is a record; data is a sequence of tokens, each of which       *)
(* occurs in one packet only, and csum says whether the transport checksum *)
(* is right.  plain stands for the header checks of tcpGRO and udpGRO:     *)
(* consistent lengths, no fragment, no flag but ACK and PSH.               *)
(***************************************************************************)
EXTENDS Naturals, Sequences, FiniteSets, SequencesExt, Positions

CONSTANTS
  TunPacket,   \* the packets a batch is made of; data holds a length here
  V6Flow,      \* the flows between IPv6 addresses
  SeqSpace,    \* number of TCP sequence numbers, 2^32 in the code
  Cap,         \* payload that fits a buffer
  IdealBatchSize, \* packets in a batch, IdealBatchSize
  Segs         \* possible numbers of buffers given to Read

ASSUME OffloadBounds == /\ {SeqSpace, Cap, IdealBatchSize} \subseteq Nat \ {0}
                        /\ Segs \subseteq Nat \ {0}
                        /\ SeqSpace > 2 * Cap

\* a datagram has no sequence number, no PSH flag and no options
ASSUME TunPacketAssumption ==
  \A p \in TunPacket :
    /\ p = [proto |-> p.proto, flow |-> p.flow, seq |-> p.seq, data |-> p.data, psh |-> p.psh,
            csum |-> p.csum, tos |-> p.tos, opts |-> p.opts, plain |-> p.plain]
    /\ p.seq \in 0..SeqSpace - 1 /\ p.data \in Nat
    /\ {p.psh, p.csum, p.plain} \subseteq BOOLEAN
    /\ p.proto = "udp" => p.seq = 0 /\ ~ p.psh /\ p.opts = 0

VARIABLES
  tphase,      \* "off", "gro" (handleGRO), "write", "read"
  vnetHdr,     \* NativeTun.vnetHdr: the kernel does offload
  udpGSO,      \* NativeTun.udpGSO
  batch,       \* the packets given to Write
  tunBufs,     \* bufs: packet and virtio header in front of it
  itemsByFlow, \* tcpGROTable and udpGROTable
  itemsPool,   \* number of free item slices of each table
  toWrite,     \* indices of the buffers to be written
  kernel,      \* what the kernel holds, in order
  delivered,   \* packets returned by Read
  lost         \* a write failed or a Read had too few buffers

offloadVars == <<tphase, vnetHdr, udpGSO, batch, tunBufs, itemsByFlow, itemsPool,
                 toWrite, kernel, delivered, lost>>

Protos == {"tcp", "udp"}

(* virtioNetHdr: what precedes a packet in its buffer.  Before handleGRO the
   bytes are those of the decrypted message. *)
Stale == [gsoType |-> "stale", gsoSize |-> 0, flags |-> {}]
ZeroHdr == [gsoType |-> "none", gsoSize |-> 0, flags |-> {}]

(* newTCPFlowKey, newUDPFlowKey: the acknowledged number is part of flow. *)
FlowKey(p) == <<p.proto, p.flow>>

Items(k) == IF k \in DOMAIN itemsByFlow THEN itemsByFlow[k] ELSE <<>>

(* What insert stores: the packet's place in bufs and its size. *)
NewItem(p, i, cSumKnownInvalid) ==
  [bufsIndex |-> i, numMerged |-> 0, gsoSize |-> Len(p.data), sentSeq |-> p.seq,
   pshSet |-> p.psh, cSumKnownInvalid |-> cSumKnownInvalid]

(* itemsByFlow[key] = s; a new key takes a slice from the pool (newItems). *)
SetItems(k, s) ==
  /\ itemsByFlow' = [j \in DOMAIN itemsByFlow \cup {k} |->
                       IF j = k THEN s ELSE itemsByFlow[j]]
  /\ itemsPool' = IF k \in DOMAIN itemsByFlow THEN itemsPool
                  ELSE [itemsPool EXCEPT ![k[1]] = @ - 1]

ipHeadersCanCoalesce(p, q) == p.tos = q.tos

(* packetIsGROCandidate, with the early returns of tcpGRO and udpGRO. *)
IsCandidate(p) ==
  /\ p.proto \in Protos
  /\ p.proto = "udp" => udpGSO
  /\ p.plain
  /\ p.data # <<>>

udpPacketsCanCoalesce(p, item) ==
  LET target == tunBufs[item.bufsIndex].pkt
  IN  IF /\ ipHeadersCanCoalesce(p, target)
         /\ Len(target.data) % item.gsoSize = 0
         /\ Len(p.data) <= item.gsoSize
      THEN "append" ELSE "unavailable"

tcpPacketsCanCoalesce_NoTail(p, item) ==
  IF p.seq = (item.sentSeq + item.gsoSize * (item.numMerged + 1)) % SeqSpace
     /\ ~ item.pshSet /\ Len(p.data) <= item.gsoSize
  THEN "append" ELSE "unavailable"

tcpPacketsCanCoalesce(p, item) ==
  LET target == tunBufs[item.bufsIndex].pkt
      lhsLen == item.gsoSize + item.numMerged * item.gsoSize
      gsoSize == Len(p.data)
      same == p.opts = target.opts /\ ipHeadersCanCoalesce(p, target)
      after == p.seq = (item.sentSeq + lhsLen) % SeqSpace
  IN  IF /\ same
         /\ after
         /\ ~ item.pshSet
         /\ Len(target.data) % item.gsoSize = 0
         /\ gsoSize <= item.gsoSize
      THEN "append"
      ELSE IF /\ same
              /\ ~ after
              /\ (p.seq + gsoSize) % SeqSpace = item.sentSeq
              /\ ~ p.psh
              /\ gsoSize >= item.gsoSize
              /\ gsoSize > item.gsoSize => item.numMerged = 0
      THEN "prepend" ELSE "unavailable"

(* How coalesceTCPPackets or coalesceUDPPackets ends when the packets fit. *)
coalesceResult_NoItemCheck(p, item) ==
  IF ~ p.csum THEN "pktInvalidCSum" ELSE "success"

coalesceResult(p, item) ==
  LET target == tunBufs[item.bufsIndex].pkt
  IN  IF Len(target.data) + Len(p.data) > Cap THEN "insufficientCap"
      ELSE IF item.numMerged = 0 /\ (item.cSumKnownInvalid \/ ~ target.csum)
           THEN "itemInvalidCSum"
      ELSE IF ~ p.csum THEN "pktInvalidCSum"
      ELSE "success"

(* TunPacket i joins item n of s; b are the buffers.  A prepended packet becomes
   the head, and the two buffers change places. *)
coalescePackets(mode, i, b, k, s, n) ==
  LET p == b[i].pkt
      item == s[n]
      at == item.bufsIndex
      target == b[at].pkt
      merged == [item EXCEPT
                   !.numMerged = @ + 1,
                   !.sentSeq = IF mode = "prepend" THEN p.seq ELSE @,
                   !.pshSet = @ \/ (mode = "append" /\ p.psh),
                   !.gsoSize = IF Len(p.data) > @ THEN Len(p.data) ELSE @]
      head == IF mode = "prepend"
              THEN [pkt |-> [p EXCEPT !.data = @ \o target.data], hdr |-> b[i].hdr]
              ELSE [pkt |-> [target EXCEPT !.data = @ \o p.data, !.psh = @ \/ p.psh],
                    hdr |-> b[at].hdr]
  IN  /\ SetItems(k, [s EXCEPT ![n] = merged])
      /\ tunBufs' = [j \in DOMAIN b |-> IF j = at THEN head
                                    ELSE IF j = i /\ mode = "prepend" THEN b[at]
                                    ELSE b[j]]

(* A zero virtio header in front of the buffers of S. *)
clear(b, S) ==
  [j \in DOMAIN b |-> IF j \in S THEN [b[j] EXCEPT !.hdr = ZeroHdr] ELSE b[j]]

(* groResultNoop: the packet is written as it is. *)
Noop(i, b) ==
  /\ tunBufs' = clear(b, {i})
  /\ toWrite' = Append(toWrite, i)

(* groResultTableInsert *)
Insert(i, b, k, s, cSumKnownInvalid) ==
  /\ SetItems(k, Append(s, NewItem(b[i].pkt, i, cSumKnownInvalid)))
  /\ toWrite' = Append(toWrite, i)

(* A packet that could not join the last item becomes the last item itself. *)
udpInsert(i, b, k, s, result) ==
  /\ Insert(i, b, k, s, result = "pktInvalidCSum")
  /\ tunBufs' = b

(* udpGRO tries the last item of the flow only. *)
udpGRO(i, b) ==
  LET p == b[i].pkt
      k == FlowKey(p)
      s == Items(k)
      can == s # <<>> /\ udpPacketsCanCoalesce(p, Last(s)) = "append"
      result == IF can THEN coalesceResult(p, Last(s)) ELSE "unavailable"
  IN  IF result = "success"
      THEN /\ coalescePackets("append", i, b, k, s, Len(s))
           /\ UNCHANGED toWrite
      ELSE udpInsert(i, b, k, s, result)

(* deleteAt: the items of s but the deleted ones. *)
deleteAt(s, deleted) ==
  LET order == InOrder(DOMAIN s \ deleted)
  IN  [n \in DOMAIN order |-> s[order[n]]]

(* The buffers of deleted items get a zero header at once, since the accounting
   does not visit them. *)
ToClear(s, deleted) == {s[n].bufsIndex : n \in deleted}

(* tcpGRO goes through the items of the flow from the last to the first.  It
   stops at the first success, or at the first item that shows the packet's own
   checksum to be wrong; items found invalid on the way are deleted. *)
tcpGRO(i, b) ==
  LET p == b[i].pkt
      k == FlowKey(p)
      s == Items(k)
      can(n) == tcpPacketsCanCoalesce(p, s[n])
      result(n) == IF can(n) = "unavailable" THEN "unavailable"
                   ELSE coalesceResult(p, s[n])
      ends == {n \in DOMAIN s : result(n) \in {"success", "pktInvalidCSum"}}
      end == IF ends = {} THEN 0 ELSE CHOOSE n \in ends : \A m \in ends : m <= n
      deleted == {n \in DOMAIN s : n > end /\ result(n) = "itemInvalidCSum"}
      left == deleteAt(s, deleted)
      kept == clear(b, ToClear(s, deleted))
  IN  CASE end = 0 ->
             Insert(i, b, k, left, FALSE) /\ tunBufs' = kept
        [] end # 0 /\ result(end) = "success" ->
             coalescePackets(can(end), i, kept, k, left, end) /\ UNCHANGED toWrite
        [] OTHER ->
             /\ SetItems(k, left)
             /\ tunBufs' = clear(b, ToClear(s, deleted) \cup {i})
             /\ toWrite' = Append(toWrite, i)

(* One turn of the loop of handleGRO, for the packet p that is next in the
   batch.  Without offload every packet is written as it is. *)
handleGRO(p) ==
  LET i == Len(batch) + 1
      q == [p EXCEPT !.data = [j \in 1..p.data |-> <<i, j>>]]
  IN  /\ tphase = "gro"
      /\ Len(batch) < IdealBatchSize
      /\ batch' = Append(batch, q)
      /\ UNCHANGED <<tphase, vnetHdr, udpGSO, kernel, delivered, lost>>
      /\ LET b == Append(tunBufs, [pkt |-> q, hdr |-> Stale])
         IN  CASE ~ vnetHdr ->
                    /\ toWrite' = Append(toWrite, i)
                    /\ tunBufs' = b
                    /\ UNCHANGED <<itemsByFlow, itemsPool>>
               [] vnetHdr /\ ~ IsCandidate(q) ->
                    /\ Noop(i, b)
                    /\ UNCHANGED <<itemsByFlow, itemsPool>>
               [] vnetHdr /\ IsCandidate(q) /\ q.proto = "udp" -> udpGRO(i, b)
               [] OTHER -> tcpGRO(i, b)

gsoType(k) == CASE k[1] = "udp" -> "udpL4"
                [] k[1] = "tcp" /\ k[2] \in V6Flow -> "tcpV6"
                [] OTHER -> "tcpV4"

(* applyTCPCoalesceAccounting, applyUDPCoalesceAccounting: the virtio header of
   every buffer that has an item.  The checksum is left to whoever splits. *)
applyCoalesceAccounting ==
  /\ tphase = "gro"
  /\ batch # <<>>
  /\ tphase' = "write"
  /\ tunBufs' = [j \in DOMAIN tunBufs |->
       IF \E k \in DOMAIN itemsByFlow : \E n \in DOMAIN itemsByFlow[k] :
             itemsByFlow[k][n].bufsIndex = j
       THEN LET k == FlowKey(tunBufs[j].pkt)
                item == CHOOSE it \in Range(itemsByFlow[k]) : it.bufsIndex = j
            IN  [tunBufs[j] EXCEPT !.hdr =
                   IF item.numMerged = 0 THEN ZeroHdr
                   ELSE [gsoType |-> gsoType(k), gsoSize |-> item.gsoSize,
                         flags |-> {"needsCsum"}]]
       ELSE tunBufs[j]]
  /\ UNCHANGED <<vnetHdr, udpGSO, batch, itemsByFlow, itemsPool, toWrite, kernel,
                 delivered, lost>>

(* reset of both tables, deferred by Write: the slices return to the pool. *)
reset_Tcp ==
  /\ itemsByFlow' = [k \in {} |-> <<>>]
  /\ itemsPool' = [itemsPool EXCEPT !["tcp"] =
       @ + Cardinality({k \in DOMAIN itemsByFlow : k[1] = "tcp"})]

reset ==
  /\ itemsByFlow' = [k \in {} |-> <<>>]
  /\ itemsPool' = [c \in Protos |->
       itemsPool[c] + Cardinality({k \in DOMAIN itemsByFlow : k[1] = c})]

(* The loop of Write over toWrite.  A write may fail and the others still go
   out; a closed descriptor ends the call. *)
WriteOne(result) ==
  /\ tphase = "write"
  /\ toWrite # <<>>
  /\ kernel' = IF result = "ok" THEN Append(kernel, tunBufs[Head(toWrite)]) ELSE kernel
  /\ toWrite' = IF result = "closed" THEN <<>> ELSE Tail(toWrite)
  /\ lost' = (lost \/ result # "ok")
  /\ UNCHANGED <<tphase, vnetHdr, udpGSO, batch, tunBufs, itemsByFlow, itemsPool,
                 delivered>>

WriteReturns ==
  /\ tphase = "write"
  /\ toWrite = <<>>
  /\ tphase' = "read"
  /\ reset
  /\ UNCHANGED <<vnetHdr, udpGSO, batch, tunBufs, toWrite, kernel, delivered, lost>>

(* gsoSplit: the segments of a large packet, each with a checksum of its own.
   PSH is for the last one.  With too few buffers the packets returned are one
   fewer than the buffers. *)
gsoSplit(pkt, hdr, nbufs) ==
  LET n == (Len(pkt.data) + hdr.gsoSize - 1) \div hdr.gsoSize
      at(i) == (i - 1) * hdr.gsoSize
      end(i) == IF at(i) + hdr.gsoSize > Len(pkt.data) THEN Len(pkt.data)
                ELSE at(i) + hdr.gsoSize
      segment(i) == [pkt EXCEPT
        !.data = SubSeq(@, at(i) + 1, end(i)),
        !.seq = IF pkt.proto = "tcp" THEN (@ + hdr.gsoSize * (i - 1)) % SeqSpace ELSE @,
        !.psh = @ /\ i = n,
        !.csum = TRUE]
  IN  [i \in 1..(IF n > nbufs THEN nbufs - 1 ELSE n) |-> segment(i)]

(* handleVirtioRead *)
handleVirtioRead(b, nbufs) ==
  IF b.hdr.gsoType = "none"
  THEN <<IF "needsCsum" \in b.hdr.flags THEN [b.pkt EXCEPT !.csum = TRUE] ELSE b.pkt>>
  ELSE gsoSplit(b.pkt, b.hdr, nbufs)

Read(nbufs) ==
  /\ tphase = "read"
  /\ kernel # <<>>
  /\ LET b == Head(kernel)
         out == IF vnetHdr THEN handleVirtioRead(b, nbufs) ELSE <<b.pkt>>
     IN  /\ delivered' = delivered \o out
         /\ lost' = (lost \/ Len(b.pkt.data) # Len(FlattenSeq([i \in DOMAIN out |-> out[i].data])))
  /\ kernel' = Tail(kernel)
  /\ UNCHANGED <<tphase, vnetHdr, udpGSO, batch, tunBufs, itemsByFlow, itemsPool,
                 toWrite>>

(* The next call of Write finds the tables and the pool as this one left them. *)
NextBatch ==
  /\ tphase = "read"
  /\ kernel = <<>>
  /\ tphase' = "gro"
  /\ batch' = <<>>
  /\ tunBufs' = <<>>
  /\ delivered' = <<>>
  /\ lost' = FALSE
  /\ UNCHANGED <<vnetHdr, udpGSO, itemsByFlow, itemsPool, toWrite, kernel>>

OffloadInit ==
  /\ tphase = "gro"
  /\ vnetHdr \in BOOLEAN
  /\ udpGSO \in BOOLEAN
  /\ udpGSO => vnetHdr
  /\ batch = <<>>
  /\ tunBufs = <<>>
  /\ itemsByFlow = [k \in {} |-> <<>>]
  /\ itemsPool = [c \in Protos |-> IdealBatchSize]
  /\ toWrite = <<>>
  /\ kernel = <<>>
  /\ delivered = <<>>
  /\ lost = FALSE

OffloadNext ==
  \/ \E p \in TunPacket : handleGRO(p)
  \/ applyCoalesceAccounting
  \/ \E result \in {"ok", "failed", "closed"} : WriteOne(result)
  \/ WriteReturns
  \/ \E nbufs \in Segs : Read(nbufs)
  \/ NextBatch

OffloadSpec == OffloadInit /\ [][OffloadNext]_offloadVars

-----------------------------------------------------------------------------
(* Types, and the item slices: each is in the pool or in a table.  newItems
   takes the last free slice without a test, and a slice that is not returned
   is missing for good. *)
OffloadTypeOK ==
  /\ tphase \in {"off", "gro", "write", "read"}
  /\ {vnetHdr, udpGSO, lost} \subseteq BOOLEAN
  /\ Len(tunBufs) = Len(batch)
  /\ Range(toWrite) \subseteq DOMAIN tunBufs
  /\ \A c \in Protos :
       /\ itemsPool[c] \in Nat
       /\ itemsPool[c] + Cardinality({k \in DOMAIN itemsByFlow : k[1] = c}) = IdealBatchSize

Settled == tphase = "read" /\ kernel = <<>>

Content(p) == [p EXCEPT !.psh = FALSE, !.csum = TRUE]

(* Coalescing and splitting lose, repeat, change and invent nothing: the packets
   that leave Read are those that entered Write (handleGRO, gsoSplit), with the
   same header, sequence number and payload. *)
RoundTrip ==
  Settled =>
    LET count(s, c) == Cardinality({i \in DOMAIN s : Content(s[i]) = c})
        contents == {Content(p) : p \in Range(batch) \cup Range(delivered)}
    IN  \A c \in contents : IF lost THEN count(delivered, c) <= count(batch, c)
                             ELSE count(delivered, c) = count(batch, c)

(* A packet with a wrong checksum is never merged: the checksum gsoSplit computes
   would make it look right.  Nor does a packet gain a PSH flag. *)
NotLaundered ==
  \A i \in DOMAIN delivered : \E j \in DOMAIN batch :
    /\ Content(delivered[i]) = Content(batch[j])
    /\ delivered[i].csum => batch[j].csum
    /\ delivered[i].psh => batch[j].psh

(* udpGRO keeps the order of a flow, as its comment on the last item promises,
   among the packets it considers. *)
UdpOrder ==
  \A i, j \in DOMAIN delivered :
    LET p == delivered[i]
        q == delivered[j]
    IN  /\ i < j
        /\ FlowKey(p) = FlowKey(q)
        /\ p.proto = "udp"
        /\ \A r \in {p, q} : r.plain /\ r.data # <<>>
        => Head(p.data)[1] < Head(q.data)[1]

(* The kernel never reads the bytes of a decrypted message as a virtio header:
   each buffer that is written got a header from handleGRO, from the accounting
   or when its item was deleted. *)
NoStaleHeader == vnetHdr => \A i \in DOMAIN kernel : kernel[i].hdr # Stale

(* Write and Read together are transparent: the packets come out as they went in, and
   the datagrams of a UDP flow in their order. *)
OffloadTransparent == RoundTrip /\ UdpOrder

(* The offload hides no fault: a wrong checksum stays wrong, and no stale bytes are
   read as a header. *)
OffloadHonest == NotLaundered /\ NoStaleHeader
=============================================================================

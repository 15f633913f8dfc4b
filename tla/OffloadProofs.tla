--------------------------- MODULE OffloadProofs ---------------------------
(***************************************************************************)
(* Proofs about the segmentation offload of the TUN device (TunOffload).   *)
(*                                                                         *)
(* The argument follows chains: chain j lists the packets of the batch     *)
(* that buffer j stands for, in the order in which they leave it when it   *)
(* is cut up.  handleGRO adds each packet to one chain, at its end or in   *)
(* front, or gives it a chain of its own; the accounting turns an item     *)
(* into the header that cuts the buffer where the packets meet; the kernel *)
(* and Read take the chains in the order of their buffers.                 *)
(***************************************************************************)
EXTENDS TunOffload, SequenceProofs

-----------------------------------------------------------------------------
(* Segmentation offload of the TUN device: pieces of a payload             *)

\* the m-th piece of a payload cut at g (gsoSplit)
PieceOf(d, g, m) ==
  SubSeq(d, (m - 1) * g + 1, IF (m - 1) * g + g > Len(d) THEN Len(d) ELSE (m - 1) * g + g)

\* x follows the n full pieces of d
Follows(T, d, x, g, n) ==
  /\ d \in Seq(T) /\ x \in Seq(T) /\ g \in Nat \ {0} /\ n \in Nat \ {0}
  /\ Len(d) = (n - 1) * g + g /\ Len(x) \in 1..g

\* y has the pieces of d and x
LastPiece(d, x, g, n, y) ==
  /\ PieceOf(y, g, n + 1) = x
  /\ \A m \in 1..n : PieceOf(y, g, m) = PieceOf(d, g, m)
  /\ Len(y) = n * g + Len(x)

\* What is appended to n full pieces is the next piece, and the others stay.
LEMMA AppendPieces ==
  ASSUME NEW T, NEW d, NEW x, NEW g, NEW n, Follows(T, d, x, g, n)
  PROVE  LastPiece(d, x, g, n, d \o x)
<1> PICK y : y = d \o x
  OBVIOUS
<1> USE DEF Follows
<1>1. y \in Seq(T) /\ Len(y) = Len(d) + Len(x) /\ Len(d) \in Nat /\ Len(x) \in Nat
  <2>1. d \in Seq(T) /\ x \in Seq(T)
    OBVIOUS
  <2>2. Len(d) \in Nat /\ Len(x) \in Nat
    BY <2>1, LenProperties
  <2> QED BY <2>1, <2>2, ConcatProperties, Zenon
<1>2. n * g = (n - 1) * g + g /\ n * g \in Nat /\ (n + 1) - 1 = n
  BY Multiples
<1>3. /\ \A a \in Nat, b \in Nat : 1 <= a /\ b <= Len(d) => SubSeq(y, a, b) = SubSeq(d, a, b)
      /\ SubSeq(y, Len(d) + 1, Len(d) + Len(x)) = x
  BY <1>1, CutConcat
<1>4. PieceOf(y, g, n + 1) = x
  <2>1. PICK e \in Nat, l \in 1..g : e = n * g /\ l = Len(x) /\ e = Len(d)
    BY <1>2
  <2>2. (IF e + g > e + l THEN e + l ELSE e + g) = e + l
    BY ONLY e \in Nat, g \in Nat, l \in 1..g
  <2>3. Len(y) = e + l
    BY <1>1, <2>1
  <2>4. PieceOf(y, g, n + 1) = SubSeq(y, e + 1, IF e + g > e + l THEN e + l ELSE e + g)
    BY <1>2, <2>1, <2>3 DEF PieceOf
  <2> QED BY <1>3, <2>1, <2>2, <2>4
<1>5. ASSUME NEW m \in 1..n PROVE PieceOf(y, g, m) = PieceOf(d, g, m)
  <2>1. /\ (m - 1) * g \in Nat /\ (m - 1) * g <= (n - 1) * g /\ (n - 1) * g \in Nat
    BY Multiples, m - 1 \in Nat, n - 1 \in Nat, m - 1 <= n - 1
  <2>2. PICK a \in Nat : a = (m - 1) * g /\ a + g <= Len(d)
    BY <2>1
  <2>3. PICK l \in Nat, k \in Nat : l = Len(d) /\ k = Len(x)
    BY <1>1
  <2>4. ~ (a + g > l) /\ ~ (a + g > l + k)
    BY ONLY <2>2, <2>3, a \in Nat, g \in Nat, l \in Nat, k \in Nat
  <2>5. PieceOf(y, g, m) = SubSeq(y, a + 1, a + g)
    BY <1>1, <2>2, <2>3, <2>4 DEF PieceOf
  <2>6. PieceOf(d, g, m) = SubSeq(d, a + 1, a + g)
    BY <2>2, <2>3, <2>4 DEF PieceOf
  <2>7. SubSeq(y, a + 1, a + g) = SubSeq(d, a + 1, a + g)
    <3>0. a + 1 \in Nat /\ a + g \in Nat /\ 1 <= a + 1
      BY ONLY a \in Nat, g \in Nat
    <3>1. PICK f \in Nat, h \in Nat : f = a + 1 /\ h = a + g /\ 1 <= f /\ h <= Len(d)
      BY <2>2, <3>0, Zenon
    <3>2. SubSeq(y, f, h) = SubSeq(d, f, h)
      BY <1>3, <3>1, Zenon
    <3> QED BY <3>1, <3>2
  <2> QED BY <2>5, <2>6, <2>7
<1>6. QED
  BY <1>1, <1>2, <1>4, <1>5 DEF LastPiece

\* A piece of the second of two sequences put together.
LEMMA CutSecond ==
  ASSUME NEW T, NEW x \in Seq(T), NEW d \in Seq(T), NEW a \in Nat \ {0}, NEW b \in Nat, b <= Len(d)
  PROVE  SubSeq(x \o d, Len(x) + a, Len(x) + b) = SubSeq(d, a, b)
<1>1. PICK y \in Seq(T) : y = x \o d /\ Len(y) = Len(x) + Len(d) /\ Len(d) \in Nat /\ Len(x) \in Nat
  <2>1. d \in Seq(T) /\ x \in Seq(T)
    OBVIOUS
  <2>2. Len(d) \in Nat /\ Len(x) \in Nat
    BY <2>1, LenProperties
  <2> QED BY <2>1, <2>2, ConcatProperties, Zenon
<1>2. \A j \in 1..Len(d) : y[Len(x) + j] = d[j]
  BY <1>1, ConcatProperties
<1>3. PICK n \in Nat : n = Len(x)
  BY <1>1
<1>4. SubSeq(d, a, b) = [j \in 1..(b - a + 1) |-> d[a + j - 1]]
  BY DEF SubSeq
<1>5. SubSeq(y, n + a, n + b) = [j \in 1..((n + b) - (n + a) + 1) |-> y[(n + a) + j - 1]]
  BY DEF SubSeq
<1>6. \A j \in 1..(b - a + 1) : y[(n + a) + j - 1] = d[a + j - 1]
  <2> SUFFICES ASSUME NEW j \in 1..(b - a + 1) PROVE y[(n + a) + j - 1] = d[a + j - 1]
    OBVIOUS
  <2>1. a + j - 1 \in 1..Len(d) /\ n + (a + j - 1) = (n + a) + j - 1
    BY <1>1
  <2> QED BY <1>2, <1>3, <2>1
<1>7. (n + b) - (n + a) + 1 = b - a + 1
  OBVIOUS
<1>8. SubSeq(y, n + a, n + b) = SubSeq(d, a, b)
  BY <1>4, <1>5, <1>6, <1>7
<1>9. QED
  BY <1>1, <1>3, <1>8

\* y has x as its first piece and then those of d
FirstPiece(x, d, g, y) ==
  /\ PieceOf(y, g, 1) = x
  /\ \A m \in Nat \ {0} : PieceOf(y, g, m + 1) = PieceOf(d, g, m)

\* A full piece in front of a payload is the first piece, and the others move up.
LEMMA PrependPieces ==
  ASSUME NEW T, NEW x \in Seq(T), NEW d \in Seq(T), Len(x) # 0
  PROVE  FirstPiece(x, d, Len(x), x \o d)
<1> PICK y : y = x \o d
  OBVIOUS
<1> PICK g \in Nat \ {0} : g = Len(x)
  OBVIOUS
<1>1. y \in Seq(T) /\ Len(y) = Len(x) + Len(d) /\ Len(d) \in Nat /\ Len(x) \in Nat
  <2>1. d \in Seq(T) /\ x \in Seq(T)
    OBVIOUS
  <2>2. Len(d) \in Nat /\ Len(x) \in Nat
    BY <2>1, LenProperties
  <2> QED BY <2>1, <2>2, ConcatProperties, Zenon
<1>2. PICK l \in Nat : l = Len(d) /\ Len(y) = g + l
  BY <1>1
<1>3. PieceOf(y, g, 1) = x
  <2>1. (1 - 1) * g + 1 = 1 /\ (1 - 1) * g + g = g /\ ~ (g > g + l)
    OBVIOUS
  <2>2. PieceOf(y, g, 1) = SubSeq(y, 1, g)
    BY <1>2, <2>1 DEF PieceOf
  <2>3. SubSeq(y, 1, g) = SubSeq(x, 1, g)
    BY <1>1, CutConcat
  <2>4. SubSeq(x, 1, g) = x
    BY SubSeqFull
  <2> QED BY <2>2, <2>3, <2>4
<1>4. ASSUME NEW m \in Nat \ {0} PROVE PieceOf(y, g, m + 1) = PieceOf(d, g, m)
  <2>1. m * g = (m - 1) * g + g /\ (m - 1) * g \in Nat /\ (m + 1) - 1 = m
    BY Multiples, m - 1 \in Nat
  <2>2. PICK a \in Nat : a = (m - 1) * g /\ m * g = a + g
    BY <2>1
  <2>3. PICK b \in Nat : b = IF a + g > l THEN l ELSE a + g
    OBVIOUS
  <2>4. b <= l /\ (IF (a + g) + g > g + l THEN g + l ELSE (a + g) + g) = g + b
    BY <2>3
  <2>5. PieceOf(y, g, m + 1)
          = SubSeq(y, (a + g) + 1, IF (a + g) + g > g + l THEN g + l ELSE (a + g) + g)
    BY <1>2, <2>1, <2>2 DEF PieceOf
  <2>6. PieceOf(d, g, m) = SubSeq(d, a + 1, b)
    BY <1>2, <2>2, <2>3 DEF PieceOf
  <2>7. (a + g) + 1 = g + (a + 1) /\ a + 1 \in Nat \ {0}
    OBVIOUS
  <2>8. SubSeq(y, g + (a + 1), g + b) = SubSeq(d, a + 1, b)
    <3>1. PICK f \in Nat \ {0} : f = a + 1
      BY <2>7
    <3>2. b <= Len(d)
      BY <1>2, <2>4
    <3>3. SubSeq(x \o d, Len(x) + f, Len(x) + b) = SubSeq(d, f, b)
      BY ONLY CutSecond, <3>2, x \in Seq(T), d \in Seq(T), f \in Nat \ {0}, b \in Nat, ZenonT(30)
    <3> QED BY <1>1, <3>1, <3>3
  <2> QED BY <2>4, <2>5, <2>6, <2>7, <2>8
<1>5. QED
  BY <1>1, <1>3, <1>4 DEF FirstPiece

\* A payload that is one piece.
LEMMA WholePiece ==
  ASSUME NEW T, NEW d \in Seq(T), NEW g \in Nat \ {0}, Len(d) <= g
  PROVE  PieceOf(d, g, 1) = d
<1>1. PICK l \in Nat : l = Len(d)
  OBVIOUS
<1>2. (1 - 1) * g + 1 = 1 /\ (IF (1 - 1) * g + g > l THEN l ELSE (1 - 1) * g + g) = l
  BY <1>1
<1>3. PieceOf(d, g, 1) = SubSeq(d, 1, l)
  BY <1>1, <1>2 DEF PieceOf
<1>4. SubSeq(d, 1, l) = d
  BY <1>1, SubSeqFull
<1>5. QED
  BY <1>3, <1>4

\* A payload whose length is a multiple of g has a full last piece.
LEMMA FullPieces ==
  ASSUME NEW g \in Nat \ {0}, NEW n \in Nat, NEW l \in 1..g, (n * g + l) % g = 0
  PROVE  l = g
<1>1. SUFFICES ASSUME l # g PROVE FALSE
  OBVIOUS
<1>2. l \in 1..g - 1
  BY <1>1
<1>3. PICK e \in Nat : e = n * g + l
  BY Multiples
<1>4. PICK q \in Nat : e = g * q
  BY <1>3
<1>5. CASE q <= n
  <2>1. q * g <= n * g /\ q * g = g * q
    BY <1>5, Multiples
  <2> QED BY <1>2, <1>3, <1>4, <2>1, Multiples
<1>6. CASE q > n
  <2>1. (n + 1) * g <= q * g /\ (n + 1) * g = n * g + g /\ q * g = g * q /\ n * g \in Nat
    BY <1>6, Multiples, n + 1 \in Nat \ {0}, (n + 1) - 1 = n
  <2> QED BY <1>2, <1>3, <1>4, <2>1
<1>7. QED
  BY <1>5, <1>6

\* Adding to a remainder.
LEMMA ModAdd ==
  ASSUME NEW S \in Nat \ {0}, NEW a \in Nat, NEW b \in Nat
  PROVE  ((a % S) + b) % S = (a + b) % S /\ a % S \in 0..S - 1
<1> DEFINE Parts(e) == \E q \in Nat, r \in 0..S - 1 : e = S * q + r /\ r = e % S
<1>0. \A e \in Nat : Parts(e)
  <2> SUFFICES ASSUME NEW e \in Nat PROVE Parts(e)
    OBVIOUS
  <2>1. e \div S \in Nat /\ e % S \in 0..S - 1 /\ e = S * (e \div S) + (e % S)
    OBVIOUS
  <2> QED BY <2>1
<1>1. PICK q \in Nat, r \in 0..S - 1 : a = S * q + r /\ r = a % S
  BY <1>0
<1>2. PICK x \in Nat, y \in Nat : x = r + b /\ y = a + b
  OBVIOUS
<1>3. PICK p \in Nat, t \in 0..S - 1 : x = S * p + t /\ t = x % S
  BY <1>0
<1>4. PICK w \in Nat, u \in 0..S - 1 : y = S * w + u /\ u = y % S
  BY <1>0
<1>5. S * (q + p) = S * q + S * p /\ S * q \in Nat /\ S * p \in Nat /\ S * w \in Nat
  OBVIOUS
<1>6. PICK z \in Nat : z = q + p
  OBVIOUS
<1>7. S * w + u = S * z + t /\ S * z \in Nat
  BY <1>1, <1>2, <1>3, <1>4, <1>5, <1>6
<1>8. CASE w < z
  <2>1. (w + 1) * S <= z * S /\ (w + 1) * S = w * S + S /\ z * S = S * z /\ w * S = S * w
    BY <1>8, Multiples, w + 1 \in Nat \ {0}, (w + 1) - 1 = w
  <2> QED BY <1>5, <1>7, <2>1
<1>9. CASE z < w
  <2>1. (z + 1) * S <= w * S /\ (z + 1) * S = z * S + S /\ z * S = S * z /\ w * S = S * w
    BY <1>9, Multiples, z + 1 \in Nat \ {0}, (z + 1) - 1 = z
  <2> QED BY <1>5, <1>7, <2>1
<1>10. CASE w = z
  <2>1. t = u
    BY <1>7, <1>10
  <2> QED BY <1>1, <1>2, <1>3, <1>4, <2>1
<1>11. QED
  BY <1>8, <1>9, <1>10

-----------------------------------------------------------------------------
(* What a buffer stands for                                                *)

TunTokens == Nat \X Nat

\* the packets of a batch and those made of them
TunPackets ==
  [proto : {p.proto : p \in TunPacket}, flow : {p.flow : p \in TunPacket}, seq : 0..SeqSpace - 1,
   data : Seq(TunTokens), psh : BOOLEAN, csum : BOOLEAN, tos : {p.tos : p \in TunPacket},
   opts : {p.opts : p \in TunPacket}, plain : BOOLEAN]

Headers == [gsoType : {"stale", "none", "udpL4", "tcpV6", "tcpV4"}, gsoSize : Nat, flags : SUBSET {"needsCsum"}]

TunBuffers == [pkt : TunPackets, hdr : Headers]

ItemRecords ==
  [bufsIndex : Nat, numMerged : Nat, gsoSize : Nat, sentSeq : Nat, pshSet : BOOLEAN,
   cSumKnownInvalid : BOOLEAN]

\* the packets given to Write; the tokens of the i-th begin with <<i, 1>>
Batched(B) ==
  /\ B \in Seq(TunPackets)
  /\ \A i \in DOMAIN B :
       /\ B[i].data # <<>> => B[i].data[1] = <<i, 1>>
       /\ B[i].proto = "udp" => B[i].seq = 0 /\ ~ B[i].psh /\ B[i].opts = 0

SameHeader(p, q) ==
  p.proto = q.proto /\ p.flow = q.flow /\ p.tos = q.tos /\ p.opts = q.opts /\ p.plain = q.plain

\* the sequence number of the m-th piece of pkt (gsoSplit)
SeqAt(pkt, g, m) ==
  IF pkt.proto = "tcp" THEN (pkt.seq + g * (m - 1)) % SeqSpace ELSE pkt.seq

\* pkt, cut at g, gives the packets of B that the chain c names: the first has the number and
\* every one the header of pkt; more than one have right checksums, and PSH is that of the last
Stands(B, c, pkt, g) ==
  /\ c # <<>> /\ g \in Nat \ {0}
  /\ \E l \in 1..g : Len(pkt.data) = (Len(c) - 1) * g + l
  /\ \A m \in DOMAIN c : /\ SameHeader(B[c[m]], pkt)
                         /\ B[c[m]].data = PieceOf(pkt.data, g, m)
                         /\ B[c[m]].seq = SeqAt(pkt, g, m)
  /\ Len(c) = 1 => pkt = B[c[1]]
  /\ Len(c) > 1 => \A m \in DOMAIN c : B[c[m]].csum
  /\ pkt.psh => B[c[Len(c)]].psh

\* A packet with a payload stands for itself.
LEMMA StandsAlone ==
  ASSUME NEW B, Batched(B), NEW i \in DOMAIN B, B[i].data # <<>>
  PROVE  Stands(B, <<i>>, B[i], Len(B[i].data))
<1>1. PICK p \in TunPackets : p = B[i]
  BY DEF Batched
<1>2. PICK g \in Nat \ {0} : g = Len(p.data) /\ p.data \in Seq(TunTokens)
  BY <1>1 DEF TunPackets
<1>3. SeqAt(p, g, 1) = p.seq
  <2>1. p.seq \in 0..SeqSpace - 1 /\ SeqSpace \in Nat \ {0}
    BY <1>1, OffloadBounds DEF TunPackets
  <2>2. PICK n \in 0..SeqSpace - 1 : n = p.seq
    BY <2>1
  <2>3. n + g * (1 - 1) = n /\ n % SeqSpace = n
    BY <2>1
  <2> QED BY <2>2, <2>3 DEF SeqAt
<1>4. PieceOf(p.data, g, 1) = p.data
  BY <1>2, WholePiece
<1>5. (1 - 1) * g + g = g /\ g \in 1..g
  OBVIOUS
<1>6. DOMAIN <<i>> = {1} /\ Len(<<i>>) = 1 /\ <<i>>[1] = i /\ <<i>> # <<>>
  OBVIOUS
<1>7. Stands(B, <<i>>, p, g)
  BY <1>1, <1>2, <1>3, <1>4, <1>5, <1>6 DEF Stands, SameHeader
<1>8. QED
  BY <1>1, <1>2, <1>7

\* The chain, the packet and its place, as coalescing finds them.
Joining(B, c, pkt, g, i) ==
  /\ Batched(B) /\ pkt \in TunPackets
  /\ c \in Seq(DOMAIN B) /\ i \in DOMAIN B
  /\ Stands(B, c, pkt, g)
  /\ SameHeader(B[i], pkt) /\ B[i].csum /\ B[i].proto \in Protos
  /\ Len(c) = 1 => pkt.csum

\* The header of an appended packet stays.
Appended(pkt, q) == [pkt EXCEPT !.data = @ \o q.data, !.psh = @ \/ q.psh]

\* A packet that continues a full chain is appended (coalesceTCPPackets, coalesceUDPPackets).
LEMMA StandsAppend ==
  ASSUME NEW B, NEW c, NEW pkt, NEW g, NEW i, Joining(B, c, pkt, g, i),
         Len(pkt.data) % g = 0, Len(B[i].data) \in 1..g,
         B[i].proto = "tcp" => B[i].seq = (pkt.seq + g * Len(c)) % SeqSpace /\ ~ pkt.psh
  PROVE  /\ Stands(B, Append(c, i), Appended(pkt, B[i]), g)
         /\ Appended(pkt, B[i]) \in TunPackets
<1>1. PICK q \in TunPackets : q = B[i]
  BY DEF Joining, Batched
<1>2. PICK n \in Nat \ {0} : n = Len(c) /\ c \in Seq(DOMAIN B)
  BY DEF Joining, Stands
<1>3. g \in Nat \ {0} /\ Len(pkt.data) = (n - 1) * g + g
  <2>1. g \in Nat \ {0}
    BY DEF Joining, Stands
  <2>2. PICK l \in 1..g : Len(pkt.data) = (n - 1) * g + l
    BY <1>2 DEF Joining, Stands
  <2>3. ((n - 1) * g + l) % g = 0
    BY <2>2
  <2>4. l = g
    BY <2>1, <2>3, FullPieces, n - 1 \in Nat
  <2> QED BY <2>1, <2>2, <2>4
<1>4. pkt \in TunPackets /\ pkt.data \in Seq(TunTokens) /\ q.data \in Seq(TunTokens)
  BY <1>1 DEF Joining, TunPackets
<1>5. PICK d \in Seq(TunTokens) : d = pkt.data \o q.data
  BY <1>4, ConcatProperties
<1>6. /\ PieceOf(d, g, n + 1) = q.data
      /\ \A m \in 1..n : PieceOf(d, g, m) = PieceOf(pkt.data, g, m)
      /\ Len(d) = n * g + Len(q.data)
  <2>1. Len(q.data) \in 1..g
    BY <1>1
  <2>2. PICK x \in Seq(TunTokens), y \in Seq(TunTokens) : x = pkt.data /\ y = q.data
    BY <1>4
  <2>3. Len(x) = (n - 1) * g + g /\ Len(y) \in 1..g /\ g \in Nat \ {0} /\ d = x \o y
    BY <1>3, <1>5, <2>1, <2>2
  <2>4. Follows(TunTokens, x, y, g, n)
    BY <2>3 DEF Follows
  <2>5. LastPiece(x, y, g, n, d)
    BY <2>3, <2>4, AppendPieces
  <2> QED BY <2>2, <2>5 DEF LastPiece
<1>7. PICK r \in TunPackets : r = [pkt EXCEPT !.data = d, !.psh = @ \/ q.psh]
  BY <1>1, <1>4, <1>5 DEF TunPackets
<1>8. r = Appended(pkt, B[i])
  BY <1>1, <1>5, <1>7 DEF Appended
<1>9. r.data = d /\ r.seq = pkt.seq /\ SameHeader(r, pkt) /\ r.psh = (pkt.psh \/ q.psh)
  BY <1>4, <1>7 DEF SameHeader, TunPackets
<1>10. PICK e \in Seq(DOMAIN B) :
         e = Append(c, i) /\ Len(e) = n + 1 /\ e[n + 1] = i /\ \A m \in 1..n : e[m] = c[m]
  <2>1. i \in DOMAIN B /\ c \in Seq(DOMAIN B)
    BY DEF Joining
  <2>2. /\ Append(c, i) \in Seq(DOMAIN B) /\ Len(Append(c, i)) = Len(c) + 1
        /\ Append(c, i)[Len(c) + 1] = i /\ \A m \in 1..Len(c) : Append(c, i)[m] = c[m]
    BY <2>1, AppendProperties
  <2> QED BY <1>2, <2>2
<1>11. DOMAIN e = 1..(n + 1) /\ e # <<>> /\ DOMAIN c = 1..n
  BY <1>2, <1>10
<1>12. ASSUME NEW m \in 1..n
       PROVE  SameHeader(B[e[m]], r) /\ B[e[m]].data = PieceOf(r.data, g, m) /\ B[e[m]].seq = SeqAt(r, g, m)
  <2>1. SameHeader(B[c[m]], pkt) /\ B[c[m]].data = PieceOf(pkt.data, g, m) /\ B[c[m]].seq = SeqAt(pkt, g, m)
    BY <1>11 DEF Joining, Stands
  <2> QED BY <2>1, <1>6, <1>9, <1>10 DEF SameHeader, SeqAt
<1>13. /\ SameHeader(B[i], r) /\ B[i].data = PieceOf(r.data, g, n + 1)
       /\ B[i].seq = SeqAt(r, g, n + 1)
  <2>1. SameHeader(B[i], r)
    BY <1>9 DEF Joining, SameHeader
  <2>2. CASE B[i].proto = "tcp"
    <3>1. g * ((n + 1) - 1) = g * n
      BY <1>3
    <3> QED BY <1>1, <1>2, <1>6, <1>9, <2>1, <2>2, <3>1 DEF SeqAt, SameHeader
  <2>3. CASE B[i].proto = "udp"
    <3>1. B[i].seq = 0
      BY <2>3 DEF Joining, Batched
    <3>2. B[c[1]].proto = "udp" /\ B[c[1]].seq = SeqAt(pkt, g, 1) /\ c[1] \in DOMAIN B /\ pkt.proto = "udp"
      BY <1>2, <1>11, <2>3, 1 \in DOMAIN c DEF Joining, Stands, SameHeader
    <3>3. pkt.seq = 0
      BY <3>2 DEF Joining, Batched, SeqAt
    <3> QED BY <1>1, <1>6, <1>9, <2>1, <2>3, <3>1, <3>3 DEF SeqAt, SameHeader
  <2> QED BY <2>2, <2>3 DEF Joining, Protos
<1>14. \A m \in DOMAIN e : SameHeader(B[e[m]], r) /\ B[e[m]].data = PieceOf(r.data, g, m) /\ B[e[m]].seq = SeqAt(r, g, m)
  BY <1>10, <1>11, <1>12, <1>13
<1>15. \A m \in DOMAIN e : B[e[m]].csum
  <2>1. \A m \in DOMAIN c : B[c[m]].csum
    <3>1. CASE n = 1
      BY <1>2, <1>11, <3>1 DEF Joining, Stands
    <3>2. CASE n > 1
      BY <1>2, <3>2 DEF Joining, Stands
    <3> QED BY <3>1, <3>2
  <2> QED BY <1>10, <1>11, <2>1 DEF Joining
<1>16. r.psh => B[e[Len(e)]].psh
  <2>1. CASE B[i].proto = "tcp"
    BY <1>1, <1>9, <1>10, <2>1
  <2>2. CASE B[i].proto = "udp"
    <3>1. ~ B[i].psh
      BY <2>2 DEF Joining, Batched
    <3>2. SameHeader(B[c[n]], pkt) /\ c[n] \in DOMAIN B /\ pkt.proto = "udp"
      BY <1>2, <1>11, <2>2, n \in DOMAIN c DEF Joining, Stands, SameHeader
    <3>4. ~ B[c[n]].psh
      BY <3>2 DEF Joining, SameHeader, Batched
    <3>3. ~ pkt.psh
      BY <1>2, <3>4 DEF Joining, Stands
    <3> QED BY <1>1, <1>9, <3>1, <3>3
  <2> QED BY <2>1, <2>2 DEF Joining, Protos
<1>17. \E l \in 1..g : Len(r.data) = (Len(e) - 1) * g + l
  BY <1>1, <1>6, <1>9, <1>10, (n + 1) - 1 = n
<1>18. Stands(B, e, r, g)
  BY <1>3, <1>10, <1>11, <1>14, <1>15, <1>16, <1>17 DEF Stands
<1>19. QED
  BY <1>8, <1>10, <1>18

\* The header of a prepended packet replaces the old one.
Prepended(pkt, q) == [q EXCEPT !.data = @ \o pkt.data]

\* A packet that a chain continues is prepended; it may be longer than the only packet of the
\* chain (coalesceTCPPackets).
LEMMA StandsPrepend ==
  ASSUME NEW B, NEW c, NEW pkt, NEW g, NEW i, Joining(B, c, pkt, g, i), B[i].proto = "tcp",
         NEW h \in Nat \ {0}, h = Len(B[i].data), g <= h, g < h => Len(c) = 1,
         pkt.seq = (B[i].seq + h) % SeqSpace, ~ B[i].psh
  PROVE  /\ Stands(B, <<i>> \o c, Prepended(pkt, B[i]), h)
         /\ Prepended(pkt, B[i]) \in TunPackets
<1>1. PICK q \in TunPackets : q = B[i]
  BY DEF Joining, Batched
<1>2. PICK n \in Nat \ {0} : n = Len(c) /\ c \in Seq(DOMAIN B)
  BY DEF Joining, Stands
<1>3. g \in Nat \ {0} /\ i \in DOMAIN B
  BY DEF Joining, Stands
<1>4. pkt \in TunPackets /\ pkt.data \in Seq(TunTokens) /\ q.data \in Seq(TunTokens)
  BY <1>1 DEF Joining, TunPackets
<1>5. PICK d \in Seq(TunTokens) : d = q.data \o pkt.data /\ Len(d) = Len(q.data) + Len(pkt.data)
  <2>1. PICK x \in Seq(TunTokens), y \in Seq(TunTokens) : x = q.data /\ y = pkt.data
    BY <1>4
  <2>2. x \o y \in Seq(TunTokens) /\ Len(x \o y) = Len(x) + Len(y)
    BY ConcatProperties
  <2> QED BY <2>1, <2>2
<1>0. g = h \/ n = 1
  BY <1>2, <1>3
<1>6. PICK l \in 1..h : Len(pkt.data) = (n - 1) * h + l
  <2>1. PICK x \in 1..g : Len(pkt.data) = (n - 1) * g + x
    BY <1>2 DEF Joining, Stands
  <2>2. CASE g = h
    BY <2>1, <2>2
  <2>3. CASE n = 1
    <3>1. (n - 1) * g = 0 /\ (n - 1) * h = 0
      BY <1>3, <2>3
    <3>2. x \in 1..h /\ x \in Nat
      BY <1>3
    <3>3. Len(pkt.data) = (n - 1) * h + x
      BY <2>1, <3>1, <3>2
    <3> QED BY <3>2, <3>3
  <2> QED BY <1>0, <2>2, <2>3
<1>7. PICK r \in TunPackets : r = [q EXCEPT !.data = d]
  BY <1>1, <1>4, <1>5 DEF TunPackets
<1>8. r = Prepended(pkt, B[i])
  BY <1>1, <1>5, <1>7 DEF Prepended
<1>9. r.data = d /\ r.seq = q.seq /\ SameHeader(r, q) /\ r.psh = q.psh /\ SameHeader(q, pkt) /\ r.proto = "tcp"
  BY <1>1, <1>4, <1>7 DEF SameHeader, TunPackets, Joining
<1>10. PICK e \in Seq(DOMAIN B) :
         e = <<i>> \o c /\ Len(e) = n + 1 /\ e[1] = i /\ \A m \in 1..n : e[m + 1] = c[m]
  <2>0. <<i>> \in Seq(DOMAIN B)
    BY <1>3
  <2>1. PICK f \in Seq(DOMAIN B) : f = <<i>> /\ Len(f) = 1 /\ f[1] = i
    BY <2>0
  <2>2. /\ f \o c \in Seq(DOMAIN B) /\ Len(f \o c) = Len(f) + Len(c)
        /\ \A m \in 1..Len(f) : (f \o c)[m] = f[m]
        /\ \A m \in 1..Len(c) : (f \o c)[Len(f) + m] = c[m]
    BY <1>2, <2>1, ConcatProperties
  <2>3. PICK y \in Seq(DOMAIN B) : y = f \o c
    BY <2>2
  <2>4. Len(y) = n + 1 /\ y[1] = i /\ \A m \in 1..n : y[1 + m] = c[m]
    BY <1>2, <2>1, <2>2, <2>3
  <2>5. \A m \in 1..n : 1 + m = m + 1
    OBVIOUS
  <2>6. \A m \in 1..n : y[m + 1] = c[m]
    BY <2>4, <2>5
  <2> QED BY <2>1, <2>3, <2>4, <2>6
<1>11. DOMAIN e = 1..(n + 1) /\ e # <<>> /\ DOMAIN c = 1..n
  BY <1>2, <1>10
<1>12. /\ PieceOf(d, h, 1) = q.data
       /\ \A m \in Nat \ {0} : PieceOf(d, h, m + 1) = PieceOf(pkt.data, h, m)
  <2>1. PICK x \in Seq(TunTokens), y \in Seq(TunTokens) : x = q.data /\ y = pkt.data /\ Len(x) = h
    BY <1>1, <1>4
  <2>2. d = x \o y
    BY <1>5, <2>1
  <2>3. FirstPiece(x, y, h, d)
    BY <2>1, <2>2, PrependPieces
  <2> QED BY <2>1, <2>3 DEF FirstPiece
<1>13. \A m \in 1..n : PieceOf(pkt.data, h, m) = PieceOf(pkt.data, g, m)
  <2>1. CASE g = h
    BY <2>1
  <2>2. CASE n = 1
    <3>1. PICK x \in 1..g : Len(pkt.data) = (n - 1) * g + x
      BY <1>2 DEF Joining, Stands
    <3>2. Len(pkt.data) <= g /\ Len(pkt.data) <= h
      <4>1. (n - 1) * g = 0
        BY <1>3, <2>2
      <4> QED BY <1>3, <3>1, <4>1
    <3>3. PieceOf(pkt.data, h, 1) = pkt.data /\ PieceOf(pkt.data, g, 1) = pkt.data
      BY <1>3, <1>4, <3>2, WholePiece
    <3> QED BY <2>2, <3>3
  <2> QED BY <1>0, <2>1, <2>2
<1>14. SeqSpace \in Nat \ {0} /\ q.seq \in Nat /\ q.seq % SeqSpace = q.seq /\ pkt.seq \in Nat
  <2>1. q.seq \in 0..SeqSpace - 1 /\ SeqSpace \in Nat \ {0} /\ pkt.seq \in 0..SeqSpace - 1
    BY <1>1, <1>4, OffloadBounds DEF TunPackets
  <2>2. PICK a \in 0..SeqSpace - 1 : a = q.seq
    BY <2>1
  <2>3. a % SeqSpace = a
    <3>1. PICK S \in Nat \ {0} : S = SeqSpace /\ a \in 0..S - 1
      BY <2>1
    <3>2. a % S = a
      BY ONLY <3>1, S \in Nat \ {0}, SMTT(30)
    <3> QED BY <3>1, <3>2
  <2> QED BY <2>1, <2>2, <2>3
<1>15. SeqAt(r, h, 1) = q.seq
  <2>1. q.seq + h * (1 - 1) = q.seq
    BY <1>14
  <2> QED BY <1>9, <1>14, <2>1 DEF SeqAt
<1>16. ASSUME NEW m \in 1..n PROVE B[c[m]].seq = SeqAt(r, h, m + 1)
  <2>1. B[c[m]].seq = (pkt.seq + g * (m - 1)) % SeqSpace
    BY <1>1, <1>9, <1>11 DEF Joining, Stands, SeqAt, SameHeader
  <2>2. g * (m - 1) = h * (m - 1)
    <3>1. CASE g = h
      BY <3>1
    <3>2. CASE n = 1
      BY <1>3, <3>2
    <3> QED BY <1>0, <3>1, <3>2
  <2>3. PICK a \in Nat, b \in Nat : a = q.seq + h /\ b = h * (m - 1)
    <3>1. PICK w \in Nat : w = m - 1
      OBVIOUS
    <3>2. h * w \in Nat
      OBVIOUS
    <3>3. PICK e2 \in Nat : e2 = q.seq + h
      BY <1>14
    <3> QED BY <3>1, <3>2, <3>3
  <2>4. ((a % SeqSpace) + b) % SeqSpace = (a + b) % SeqSpace
    BY <1>14, ModAdd
  <2>5. a + b = q.seq + h * ((m + 1) - 1)
    <3>1. PICK w \in Nat : w = m - 1 /\ (m + 1) - 1 = w + 1
      OBVIOUS
    <3>2. h * (w + 1) = h * w + h /\ h * w \in Nat /\ h * (w + 1) \in Nat
      BY ONLY h \in Nat, w \in Nat
    <3>3. PICK x \in Nat, y \in Nat : x = h * (w + 1) /\ y = h * w /\ x = y + h
      BY ONLY <3>2
    <3>4. PICK z \in Nat : z = q.seq
      BY <1>14
    <3>5. (z + h) + y = z + (y + h)
      BY ONLY z \in Nat, y \in Nat, h \in Nat
    <3> QED BY <2>3, <3>1, <3>3, <3>4, <3>5
  <2> QED BY <1>1, <1>9, <2>1, <2>2, <2>3, <2>4, <2>5 DEF SeqAt
<1>17. ASSUME NEW m \in DOMAIN e
       PROVE  SameHeader(B[e[m]], r) /\ B[e[m]].data = PieceOf(r.data, h, m) /\ B[e[m]].seq = SeqAt(r, h, m)
  <2>1. CASE m = 1
    BY <1>1, <1>9, <1>10, <1>12, <1>15, <2>1 DEF SameHeader
  <2>2. CASE m # 1
    <3>1. PICK w \in 1..n : m = w + 1
      BY <1>11, <2>2, m - 1 \in 1..n, m = (m - 1) + 1
    <3>2. SameHeader(B[c[w]], pkt) /\ B[c[w]].data = PieceOf(pkt.data, g, w)
      BY <1>11 DEF Joining, Stands
    <3>3. PieceOf(d, h, w + 1) = PieceOf(pkt.data, g, w)
      BY <1>12, <1>13
    <3>4. SameHeader(B[c[w]], r)
      BY <1>9, <3>2 DEF SameHeader
    <3> QED BY <1>9, <1>10, <1>16, <3>1, <3>2, <3>3, <3>4
  <2> QED BY <2>1, <2>2
<1>18. \A m \in DOMAIN e : B[e[m]].csum
  <2>1. \A m \in DOMAIN c : B[c[m]].csum
    <3>1. CASE n = 1
      BY <1>2, <1>11, <3>1 DEF Joining, Stands
    <3>2. CASE n > 1
      BY <1>2, <3>2 DEF Joining, Stands
    <3> QED BY <3>1, <3>2
  <2>2. ASSUME NEW m \in DOMAIN e PROVE B[e[m]].csum
    <3>1. CASE m = 1
      BY <1>10, <3>1 DEF Joining
    <3>2. CASE m # 1
      BY <1>10, <1>11, <2>1, <3>2, m - 1 \in 1..n, m = (m - 1) + 1
    <3> QED BY <3>1, <3>2
  <2> QED BY <2>2
<1>19. \E x \in 1..h : Len(r.data) = (Len(e) - 1) * h + x
  <2>1. n * h = (n - 1) * h + h /\ (n - 1) * h \in Nat
    BY Multiples, n - 1 \in Nat
  <2>2. Len(r.data) = h + ((n - 1) * h + l)
    BY <1>1, <1>5, <1>6, <1>9
  <2>3. (n + 1) - 1 = n
    OBVIOUS
  <2>4. Len(r.data) = n * h + l
    <3>1. PICK x \in Nat : x = (n - 1) * h
      BY <2>1
    <3>2. h + (x + l) = (x + h) + l
      BY ONLY x \in Nat, h \in Nat, l \in 1..h
    <3> QED BY <2>1, <2>2, <3>1, <3>2
  <2> QED BY <1>10, <2>3, <2>4
<1>20. ~ r.psh
  BY <1>1, <1>9
<1>21. Stands(B, e, r, h)
  <2>1. Len(e) # 1
    BY <1>10
  <2> QED BY <2>1, <1>10, <1>11, <1>17, <1>18, <1>19, <1>20 DEF Stands
<1>22. QED
  BY <1>8, <1>10, <1>21

-----------------------------------------------------------------------------
(* The tables and the buffers while handleGRO goes through a batch         *)

\* c[j] are the packets of the batch that buffer j stands for, none when it is not written
ChainTypes(B, T, I, c) ==
  /\ Batched(B)
  /\ T \in Seq(TunBuffers) /\ Len(T) = Len(B)
  /\ c \in Seq(Seq(DOMAIN B)) /\ Len(c) = Len(B)
  /\ I \in [DOMAIN I -> Seq(ItemRecords)]

\* every packet is in one chain, once
Once(c) ==
  \A j, l \in DOMAIN c : \A m \in DOMAIN c[j], n \in DOMAIN c[l] :
    c[j][m] = c[l][n] => j = l /\ m = n

\* what an item says of its buffer
ItemOK(B, T, c, k, it) ==
  /\ it.bufsIndex \in DOMAIN c /\ c[it.bufsIndex] # <<>>
  /\ k = FlowKey(T[it.bufsIndex].pkt) /\ k[1] \in Protos
  /\ T[it.bufsIndex].pkt.plain
  /\ it.sentSeq = T[it.bufsIndex].pkt.seq
  /\ T[it.bufsIndex].pkt.psh => it.pshSet
  /\ it.numMerged + 1 = Len(c[it.bufsIndex])
  /\ Stands(B, c[it.bufsIndex], T[it.bufsIndex].pkt, it.gsoSize)

ItemsOK(B, T, I, c) == \A k \in DOMAIN I : \A n \in DOMAIN I[k] : ItemOK(B, T, c, k, I[k][n])

\* the items of a flow have different buffers, those of a UDP flow in increasing order
Apart(k, s) ==
  \A m, n \in DOMAIN s : m < n => /\ s[m].bufsIndex # s[n].bufsIndex
                                  /\ k[1] = "udp" => s[m].bufsIndex < s[n].bufsIndex

ItemsApart(I) == \A k \in DOMAIN I : Apart(k, I[k])

HasItem(I, k, j) == k \in DOMAIN I /\ \E n \in DOMAIN I[k] : I[k][n].bufsIndex = j

\* a buffer without an item holds one packet as it came, and has its header
Unmerged(B, b, ch, v) == Len(ch) = 1 /\ b.pkt = B[ch[1]] /\ (v => b.hdr = ZeroHdr)

OthersOK(B, T, I, c, v) ==
  \A j \in DOMAIN c : c[j] # <<>> =>
    HasItem(I, FlowKey(T[j].pkt), j) \/ Unmerged(B, T[j], c[j], v)

\* the datagrams that udpGRO considers, and their items
Considered(p) == p.proto = "udp" /\ p.plain /\ p.data # <<>>

UdpHeld(T, I, c, u) ==
  u => \A j \in DOMAIN c : c[j] # <<>> /\ Considered(T[j].pkt) => HasItem(I, FlowKey(T[j].pkt), j)

\* the datagrams of a flow are in their order, by buffers and within each
UdpOrdered(B, c) ==
  \A j, l \in DOMAIN c : \A m \in DOMAIN c[j], n \in DOMAIN c[l] :
    /\ Considered(B[c[j][m]]) /\ Considered(B[c[l][n]]) /\ B[c[j][m]].flow = B[c[l][n]].flow
    /\ j < l \/ (j = l /\ m < n)
    => c[j][m] < c[l][n]

GroInv(B, T, I, c, v, u) ==
  /\ ChainTypes(B, T, I, c)
  /\ Once(c)
  /\ ItemsOK(B, T, I, c)
  /\ ItemsApart(I)
  /\ OthersOK(B, T, I, c, v)
  /\ UdpHeld(T, I, c, u)
  /\ UdpOrdered(B, c)
  /\ ~ v => DOMAIN I = {}

\* the table with the items s for the flow k (SetItems)
With(I, k, s) == [j \in DOMAIN I \cup {k} |-> IF j = k THEN s ELSE I[j]]

\* t is s with x at the end
OneMore(s, x, t) ==
  /\ Len(t) = Len(s) + 1 /\ DOMAIN t = 1..(Len(s) + 1) /\ t[Len(s) + 1] = x
  /\ \A m \in 1..Len(s) : t[m] = s[m]

\* Append.
LEMMA AppendShape ==
  ASSUME NEW S, NEW s \in Seq(S), NEW x \in S
  PROVE  Append(s, x) \in Seq(S) /\ OneMore(s, x, Append(s, x)) /\ Len(s) \in Nat
<1> PICK t : t = Append(s, x)
  OBVIOUS
<1>1. t \in Seq(S) /\ Len(t) = Len(s) + 1 /\ t[Len(s) + 1] = x
  BY AppendProperties
<1>2. \A m \in 1..Len(s) : t[m] = s[m]
  BY AppendProperties
<1>3. DOMAIN t = 1..(Len(s) + 1) /\ Len(s) \in Nat
  BY <1>1
<1>4. QED
  BY <1>1, <1>2, <1>3 DEF OneMore

\* A packet that comes with its buffer and is not written yet changes nothing.
LEMMA GroExtend ==
  ASSUME NEW B, NEW T, NEW I, NEW c, NEW v, NEW u, GroInv(B, T, I, c, v, u),
         NEW q \in TunPackets, q.data # <<>> => q.data[1] = <<Len(B) + 1, 1>>,
         q.proto = "udp" => q.seq = 0 /\ ~ q.psh /\ q.opts = 0
  PROVE  GroInv(Append(B, q), Append(T, [pkt |-> q, hdr |-> Stale]), I, Append(c, <<>>), v, u)
<1>1. PICK N \in Nat : /\ N = Len(B) /\ N = Len(T) /\ N = Len(c)
                       /\ B \in Seq(TunPackets) /\ T \in Seq(TunBuffers) /\ c \in Seq(Seq(DOMAIN B))
                       /\ DOMAIN B = 1..N /\ DOMAIN c = 1..N /\ DOMAIN T = 1..N
  BY DEF GroInv, ChainTypes, Batched
<1>2. PICK X \in Seq(TunPackets) : /\ X = Append(B, q) /\ Len(X) = N + 1 /\ X[N + 1] = q
                                   /\ DOMAIN X = 1..(N + 1) /\ \A m \in 1..N : X[m] = B[m]
  <2>1. Append(B, q) \in Seq(TunPackets) /\ OneMore(B, q, Append(B, q))
    BY <1>1, AppendShape
  <2> QED BY <1>1, <2>1 DEF OneMore
<1>3. PICK x \in TunBuffers : x = [pkt |-> q, hdr |-> Stale]
  <2>1. Stale \in Headers
    BY DEF Headers, Stale
  <2> QED BY <2>1 DEF TunBuffers
<1>4. PICK Y \in Seq(TunBuffers) : /\ Y = Append(T, x) /\ Len(Y) = N + 1
                                   /\ \A m \in 1..N : Y[m] = T[m]
  <2>1. Append(T, x) \in Seq(TunBuffers) /\ OneMore(T, x, Append(T, x))
    BY <1>1, AppendShape
  <2> QED BY <1>1, <2>1 DEF OneMore
<1>5. PICK d \in Seq(Seq(1..(N + 1))) : /\ d = Append(c, <<>>) /\ Len(d) = N + 1 /\ d[N + 1] = <<>>
                                        /\ DOMAIN d = 1..(N + 1) /\ \A m \in 1..N : d[m] = c[m]
  <2>1. c \in Seq(Seq(1..(N + 1))) /\ <<>> \in Seq(1..(N + 1))
    <3>1. \A j \in 1..N : c[j] \in Seq(1..(N + 1))
      BY ONLY <1>1, N \in Nat
    <3> QED BY ONLY <1>1, <3>1, N \in Nat
  <2>2. Append(c, <<>>) \in Seq(Seq(1..(N + 1))) /\ OneMore(c, <<>>, Append(c, <<>>))
    BY <2>1, AppendShape
  <2> QED BY <1>1, <2>2 DEF OneMore
<1>6. \A j \in 1..N : \A m \in DOMAIN c[j] : c[j][m] \in 1..N
  <2>1. \A j \in 1..N : c[j] \in Seq(1..N)
    BY ONLY <1>1
  <2> QED BY ONLY <2>1
<1>7. ChainTypes(X, Y, I, d)
  <2>1. Batched(X)
    BY <1>1, <1>2, SMTT(30) DEF GroInv, ChainTypes, Batched
  <2> QED BY <1>2, <1>4, <1>5, <2>1 DEF GroInv, ChainTypes
<1>8. \A j \in DOMAIN d : \A m \in DOMAIN d[j] : j \in 1..N /\ d[j] = c[j] /\ X[d[j][m]] = B[c[j][m]]
  BY <1>1, <1>2, <1>5, <1>6
<1>9. Once(d) /\ UdpOrdered(X, d)
  <2>1. Once(d)
    <3>1. DOMAIN c = 1..N /\ Once(c)
      BY <1>1 DEF GroInv
    <3>2. ASSUME NEW j \in DOMAIN d, NEW l \in DOMAIN d, NEW m \in DOMAIN d[j], NEW n \in DOMAIN d[l], d[j][m] = d[l][n]
          PROVE  j = l /\ m = n
      <4>1. j \in DOMAIN c /\ l \in DOMAIN c /\ d[j] = c[j] /\ d[l] = c[l]
        BY <1>8, <3>1
      <4> QED BY <3>1, <3>2, <4>1 DEF Once
    <3> QED BY <3>2 DEF Once
  <2>2. UdpOrdered(X, d)
    <3>1. DOMAIN c = 1..N /\ UdpOrdered(B, c)
      BY <1>1 DEF GroInv
    <3> QED BY ONLY <1>8, <3>1, ZenonT(30) DEF UdpOrdered
  <2> QED BY <2>1, <2>2
<1>10. \A j \in DOMAIN d : d[j] # <<>> => j \in 1..N /\ d[j] = c[j] /\ Y[j] = T[j]
  BY <1>1, <1>4, <1>5
<1>11. ItemsOK(X, Y, I, d)
  <2> SUFFICES ASSUME NEW k \in DOMAIN I, NEW n \in DOMAIN I[k] PROVE ItemOK(X, Y, d, k, I[k][n])
    BY DEF ItemsOK
  <2>1. PICK it : it = I[k][n]
    OBVIOUS
  <2>2. ItemOK(B, T, c, k, it)
    BY <2>1 DEF GroInv, ItemsOK
  <2>3. PICK j \in 1..N : j = it.bufsIndex /\ c[j] # <<>> /\ d[j] = c[j] /\ Y[j] = T[j] /\ j \in DOMAIN d
    <3>1. it.bufsIndex \in 1..N /\ c[it.bufsIndex] # <<>>
      BY <1>1, <2>2 DEF ItemOK
    <3>2. \A j \in 1..N : d[j] = c[j] /\ Y[j] = T[j] /\ j \in DOMAIN d
      BY <1>4, <1>5
    <3> QED BY <3>1, <3>2
  <2>4. Stands(B, c[j], T[j].pkt, it.gsoSize)
    BY <2>2, <2>3 DEF ItemOK
  <2>5. \A m \in DOMAIN c[j] : X[c[j][m]] = B[c[j][m]]
    BY <1>2, <1>6
  <2>6. 1 \in DOMAIN c[j] /\ Len(c[j]) \in DOMAIN c[j]
    BY <1>1, <2>3
  <2>7. Stands(X, c[j], T[j].pkt, it.gsoSize)
    BY <2>4, <2>5, <2>6 DEF Stands
  <2> QED BY <2>1, <2>2, <2>3, <2>7 DEF ItemOK
<1>12. OthersOK(X, Y, I, d, v)
  <2> SUFFICES ASSUME NEW j \in DOMAIN d, d[j] # <<>>
               PROVE  HasItem(I, FlowKey(Y[j].pkt), j) \/ Unmerged(X, Y[j], d[j], v)
    BY DEF OthersOK
  <2>1. j \in 1..N /\ d[j] = c[j] /\ Y[j] = T[j]
    BY <1>10
  <2>2. HasItem(I, FlowKey(T[j].pkt), j) \/ Unmerged(B, T[j], c[j], v)
    BY <1>1, <2>1 DEF GroInv, OthersOK
  <2>3. X[c[j][1]] = B[c[j][1]]
    BY <1>1, <1>2, <1>6, <2>1, 1 \in DOMAIN c[j]
  <2> QED BY <2>1, <2>2, <2>3 DEF Unmerged
<1>13. UdpHeld(Y, I, d, u)
  BY <1>1, <1>10 DEF GroInv, UdpHeld
<1>14. QED
  BY <1>2, <1>3, <1>4, <1>5, <1>7, <1>9, <1>11, <1>12, <1>13 DEF GroInv

\* packet i is the newest, and no chain has it yet
Fresh(B, c, i) ==
  /\ i \in DOMAIN B /\ i \in DOMAIN c /\ c[i] = <<>>
  /\ \A j \in DOMAIN c : c[j] # <<>> => j < i
  /\ \A j \in DOMAIN c : \A m \in DOMAIN c[j] : c[j][m] < i

\* The packet that just came is fresh.
LEMMA ExtendedFresh ==
  ASSUME NEW B, NEW T, NEW I, NEW c, ChainTypes(B, T, I, c), NEW q
  PROVE  Fresh(Append(B, q), Append(c, <<>>), Len(B) + 1)
<1>1. PICK N \in Nat : /\ N = Len(B) /\ N = Len(c) /\ DOMAIN B = 1..N /\ DOMAIN c = 1..N
                       /\ B \in Seq(TunPackets) /\ c \in Seq(Seq(1..N))
  BY DEF ChainTypes, Batched
<1>2. PICK d : d = Append(c, <<>>)
  OBVIOUS
<1>3. OneMore(c, <<>>, d)
  <2>1. <<>> \in Seq(1..N)
    OBVIOUS
  <2> QED BY <1>1, <1>2, <2>1, AppendShape
<1>4. DOMAIN Append(B, q) = 1..(N + 1)
  <2>1. B \in Seq(TunPackets \cup {q}) /\ q \in TunPackets \cup {q}
    BY <1>1
  <2>2. OneMore(B, q, Append(B, q))
    BY <2>1, AppendShape
  <2> QED BY <1>1, <2>2 DEF OneMore
<1>5. \A j \in 1..N : c[j] \in Seq(1..N)
  BY <1>1
<1>6. \A j \in 1..N : \A m \in DOMAIN c[j] : c[j][m] \in 1..N
  BY ONLY <1>5
<1>7. DOMAIN d = 1..(N + 1) /\ d[N + 1] = <<>> /\ \A j \in 1..N : d[j] = c[j]
  BY <1>1, <1>3 DEF OneMore
<1>8. \A j \in DOMAIN d : d[j] # <<>> => j < N + 1
  BY <1>7
<1>9. \A j \in DOMAIN d : \A m \in DOMAIN d[j] : d[j][m] < N + 1
  BY <1>6, <1>7
<1>10. QED
  BY <1>1, <1>2, <1>4, <1>7, <1>8, <1>9 DEF Fresh

\* An item whose buffer and chain do not change.
LEMMA ItemKept ==
  ASSUME NEW B, NEW T, NEW c, NEW k, NEW it, ItemOK(B, T, c, k, it), NEW U, NEW d,
         DOMAIN d = DOMAIN c, d[it.bufsIndex] = c[it.bufsIndex], U[it.bufsIndex].pkt = T[it.bufsIndex].pkt
  PROVE  ItemOK(B, U, d, k, it)
  BY DEF ItemOK

\* the chain of buffer i is ch now
Rechained(c, i, ch, d) == DOMAIN d = DOMAIN c /\ d[i] = ch /\ \A j \in DOMAIN c \ {i} : d[j] = c[j]

\* Replacing one chain.
LEMMA RechainedIs ==
  ASSUME NEW S, NEW c \in Seq(S), NEW i \in DOMAIN c, NEW ch \in S
  PROVE  /\ [c EXCEPT ![i] = ch] \in Seq(S) /\ Len([c EXCEPT ![i] = ch]) = Len(c)
         /\ Rechained(c, i, ch, [c EXCEPT ![i] = ch])
<1>1. PICK d : d = [c EXCEPT ![i] = ch]
  OBVIOUS
<1>2. PICK N \in Nat : N = Len(c) /\ DOMAIN c = 1..N
  OBVIOUS
<1>3. d \in [1..N -> S] /\ Rechained(c, i, ch, d)
  BY <1>1, <1>2 DEF Rechained
<1>4. d \in Seq(S) /\ Len(d) = N
  BY ONLY <1>3, N \in Nat
<1>5. QED
  BY <1>1, <1>2, <1>3, <1>4

\* The chains after the newest packet is written in its own buffer.
LEMMA PlaceChains ==
  ASSUME NEW B, NEW T, NEW I, NEW c, ChainTypes(B, T, I, c), Once(c), UdpOrdered(B, c),
         NEW i, Fresh(B, c, i)
  PROVE  \E d : /\ d = [c EXCEPT ![i] = <<i>>]
                /\ d \in Seq(Seq(DOMAIN B)) /\ Len(d) = Len(B) /\ Rechained(c, i, <<i>>, d)
                /\ Once(d) /\ UdpOrdered(B, d)
<1>1. PICK N \in Nat : /\ N = Len(B) /\ N = Len(c) /\ DOMAIN B = 1..N /\ DOMAIN c = 1..N
                       /\ c \in Seq(Seq(1..N)) /\ i \in 1..N
  BY DEF ChainTypes, Batched, Fresh
<1>2. PICK x : x = <<i>> /\ DOMAIN x = {1} /\ x[1] = i
  <2>1. DOMAIN <<i>> = {1} /\ <<i>>[1] = i
    OBVIOUS
  <2> QED BY <2>1
<1>3. x \in Seq(1..N)
  BY <1>1, <1>2
<1>4. PICK d : d = [c EXCEPT ![i] = x] /\ d \in Seq(Seq(1..N)) /\ Len(d) = N /\ Rechained(c, i, x, d)
  <2>1. /\ [c EXCEPT ![i] = x] \in Seq(Seq(1..N)) /\ Len([c EXCEPT ![i] = x]) = Len(c)
        /\ Rechained(c, i, x, [c EXCEPT ![i] = x])
    BY <1>1, <1>3, RechainedIs
  <2> QED BY <1>1, <2>1
<1>5. /\ DOMAIN d = 1..N
      /\ DOMAIN d[i] = {1} /\ d[i][1] = i
      /\ \A j \in 1..N \ {i} : d[j] = c[j]
  BY <1>1, <1>2, <1>4 DEF Rechained
<1>6. \A j \in 1..N \ {i} : \A m \in DOMAIN d[j] : d[j][m] \in 1..N /\ d[j][m] < i /\ j < i
  <2>1. \A j \in 1..N : c[j] \in Seq(1..N)
    BY ONLY <1>1
  <2> SUFFICES ASSUME NEW j \in 1..N \ {i}, NEW m \in DOMAIN c[j]
               PROVE  c[j][m] \in 1..N /\ c[j][m] < i /\ j < i
    BY <1>5
  <2>2. c[j][m] \in 1..N
    BY ONLY <2>1, j \in 1..N, m \in DOMAIN c[j]
  <2>3. c[j] # <<>>
    OBVIOUS
  <2> QED BY <1>1, <2>2, <2>3 DEF Fresh
<1>7. Once(d)
  <2> SUFFICES ASSUME NEW j \in 1..N, NEW l \in 1..N, NEW m \in DOMAIN d[j], NEW n \in DOMAIN d[l],
                      d[j][m] = d[l][n]
               PROVE  j = l /\ m = n
    BY <1>5 DEF Once
  <2>1. CASE j = i /\ l = i
    BY <1>5, <2>1
  <2>2. CASE j = i /\ l # i
    <3>1. d[j][m] = i /\ d[l][n] \in 1..N /\ d[l][n] < i
      BY <1>5, <1>6, <2>2
    <3> QED BY <1>1, <3>1
  <2>3. CASE j # i /\ l = i
    <3>1. d[l][n] = i /\ d[j][m] \in 1..N /\ d[j][m] < i
      BY <1>5, <1>6, <2>3
    <3> QED BY <1>1, <3>1
  <2>4. CASE j # i /\ l # i
    <3>1. d[j] = c[j] /\ d[l] = c[l] /\ j \in DOMAIN c /\ l \in DOMAIN c
      BY <1>1, <1>5, <2>4
    <3> QED BY <3>1 DEF Once
  <2> QED BY <2>1, <2>2, <2>3, <2>4
<1>8. UdpOrdered(B, d)
  <2> SUFFICES ASSUME NEW j \in 1..N, NEW l \in 1..N, NEW m \in DOMAIN d[j], NEW n \in DOMAIN d[l],
                      Considered(B[d[j][m]]), Considered(B[d[l][n]]), B[d[j][m]].flow = B[d[l][n]].flow,
                      j < l \/ (j = l /\ m < n)
               PROVE  d[j][m] < d[l][n]
    BY <1>5 DEF UdpOrdered
  <2>1. CASE j = i /\ l = i
    <3>1. m = 1 /\ n = 1
      BY <1>5, <2>1
    <3> QED BY <2>1, <3>1
  <2>2. CASE j = i /\ l # i
    BY <1>1, <1>6, <2>2
  <2>3. CASE j # i /\ l = i
    BY <1>5, <1>6, <2>3
  <2>4. CASE j # i /\ l # i
    <3>1. d[j] = c[j] /\ d[l] = c[l] /\ j \in DOMAIN c /\ l \in DOMAIN c
      BY <1>1, <1>5, <2>4
    <3> QED BY <3>1 DEF UdpOrdered
  <2> QED BY <2>1, <2>2, <2>3, <2>4
<1>9. QED
  BY <1>1, <1>2, <1>4, <1>7, <1>8

\* A packet that is written as it is (Noop, and groResultNoop of tcpGRO).
LEMMA GroNoop ==
  ASSUME NEW B, NEW T, NEW I, NEW c, NEW v, NEW u, GroInv(B, T, I, c, v, u),
         NEW i, Fresh(B, c, i), ~ (u /\ Considered(B[i])), NEW U \in Seq(TunBuffers), Len(U) = Len(T),
         U[i].pkt = B[i], v => U[i].hdr = ZeroHdr, \A j \in DOMAIN T \ {i} : U[j] = T[j]
  PROVE  GroInv(B, U, I, [c EXCEPT ![i] = <<i>>], v, u)
<1>1. ChainTypes(B, T, I, c) /\ Once(c) /\ UdpOrdered(B, c)
  BY DEF GroInv
<1>2. PICK d : /\ d = [c EXCEPT ![i] = <<i>>]
               /\ d \in Seq(Seq(DOMAIN B)) /\ Len(d) = Len(B) /\ Rechained(c, i, <<i>>, d)
               /\ Once(d) /\ UdpOrdered(B, d)
  BY <1>1, PlaceChains
<1>3. PICK N \in Nat : /\ N = Len(B) /\ DOMAIN T = 1..N /\ DOMAIN c = 1..N
                       /\ DOMAIN U = 1..N /\ i \in 1..N /\ DOMAIN d = 1..N
  BY <1>2 DEF GroInv, ChainTypes, Batched, Fresh, Rechained
<1>4. ChainTypes(B, U, I, d)
  BY <1>2 DEF GroInv, ChainTypes
<1>5. \A j \in DOMAIN c : c[j] # <<>> => j # i /\ d[j] = c[j] /\ U[j] = T[j]
  BY <1>2, <1>3 DEF Rechained, Fresh
<1>6. ItemsOK(B, U, I, d)
  <2> SUFFICES ASSUME NEW k \in DOMAIN I, NEW n \in DOMAIN I[k] PROVE ItemOK(B, U, d, k, I[k][n])
    BY DEF ItemsOK
  <2>1. ItemOK(B, T, c, k, I[k][n])
    BY DEF GroInv, ItemsOK
  <2>2. PICK j \in DOMAIN c : j = I[k][n].bufsIndex /\ c[j] # <<>>
    BY <2>1 DEF ItemOK
  <2> QED BY <1>3, <1>5, <2>1, <2>2, ItemKept
<1>7. \A j \in DOMAIN d : d[j] # <<>> => j = i \/ (j \in DOMAIN c /\ c[j] # <<>>)
  BY <1>2, <1>3 DEF Rechained
<1>8. OthersOK(B, U, I, d, v)
  <2> SUFFICES ASSUME NEW j \in DOMAIN d, d[j] # <<>>
               PROVE  HasItem(I, FlowKey(U[j].pkt), j) \/ Unmerged(B, U[j], d[j], v)
    BY DEF OthersOK
  <2>1. CASE j = i
    <3>1. d[j] = <<i>> /\ Len(<<i>>) = 1 /\ <<i>>[1] = i
      BY <1>2, <2>1 DEF Rechained
    <3> QED BY <2>1, <3>1 DEF Unmerged
  <2>2. CASE j # i
    BY <1>5, <1>7, <2>2 DEF GroInv, OthersOK
  <2> QED BY <2>1, <2>2
<1>9. UdpHeld(U, I, d, u)
  BY <1>5, <1>7 DEF GroInv, UdpHeld
<1>10. QED
  BY <1>1, <1>2, <1>4, <1>6, <1>8, <1>9 DEF GroInv

ItemsAt(I, k) == IF k \in DOMAIN I THEN I[k] ELSE <<>>

\* The items of a flow that has some, or none.
LEMMA ItemsAtType ==
  ASSUME NEW I, I \in [DOMAIN I -> Seq(ItemRecords)], NEW k
  PROVE  /\ ItemsAt(I, k) \in Seq(ItemRecords)
         /\ \A n \in DOMAIN ItemsAt(I, k) : k \in DOMAIN I /\ ItemsAt(I, k) = I[k]
  BY DEF ItemsAt

\* J is the table I but for the flow k, which has the items s
Replaced(I, k, s, J) ==
  /\ DOMAIN J = DOMAIN I \cup {k} /\ J \in [DOMAIN I \cup {k} -> Seq(ItemRecords)]
  /\ J[k] = s /\ \A j \in DOMAIN I \ {k} : J[j] = I[j]

\* A table with other items for one flow.
LEMMA WithType ==
  ASSUME NEW I, I \in [DOMAIN I -> Seq(ItemRecords)], NEW k, NEW s \in Seq(ItemRecords)
  PROVE  Replaced(I, k, s, With(I, k, s))
<1>1. PICK J : J = With(I, k, s)
  OBVIOUS
<1>2. J = [j \in DOMAIN I \cup {k} |-> IF j = k THEN s ELSE I[j]]
  BY <1>1 DEF With
<1>3. \A j \in DOMAIN I : I[j] \in Seq(ItemRecords)
  OBVIOUS
<1>4. /\ DOMAIN J = DOMAIN I \cup {k} /\ J[k] = s /\ \A j \in DOMAIN I \ {k} : J[j] = I[j]
  BY <1>2
<1>5. J \in [DOMAIN I \cup {k} -> Seq(ItemRecords)]
  BY <1>2, <1>3
<1>6. QED
  BY <1>1, <1>4, <1>5 DEF Replaced

\* A packet that becomes an item (groResultTableInsert).
LEMMA GroInsert ==
  ASSUME NEW B, NEW T, NEW I, NEW c, NEW v, NEW u, GroInv(B, T, I, c, v, u), v,
         NEW i, Fresh(B, c, i), T[i].pkt = B[i],
         B[i].plain, B[i].data # <<>>, B[i].proto \in Protos, NEW x \in BOOLEAN,
         NEW k, k = FlowKey(B[i])
  PROVE  GroInv(B, T, With(I, k, Append(ItemsAt(I, k), NewItem(B[i], i, x))),
                [c EXCEPT ![i] = <<i>>], v, u)
<1>1. ChainTypes(B, T, I, c) /\ Once(c) /\ UdpOrdered(B, c)
  BY DEF GroInv
<1>2. PICK d : /\ d = [c EXCEPT ![i] = <<i>>]
               /\ d \in Seq(Seq(DOMAIN B)) /\ Len(d) = Len(B) /\ Rechained(c, i, <<i>>, d)
               /\ Once(d) /\ UdpOrdered(B, d)
  BY <1>1, PlaceChains
<1>3. PICK N \in Nat : /\ N = Len(B) /\ DOMAIN T = 1..N /\ DOMAIN c = 1..N
                       /\ i \in 1..N /\ DOMAIN d = 1..N /\ DOMAIN B = 1..N
  BY <1>1, <1>2 DEF ChainTypes, Batched, Fresh, Rechained
<1>4. PICK s \in Seq(ItemRecords) :
        s = ItemsAt(I, k) /\ \A n \in DOMAIN s : k \in DOMAIN I /\ s = I[k]
  BY <1>1, ItemsAtType DEF ChainTypes
<1>5. PICK it \in ItemRecords :
        /\ it = NewItem(B[i], i, x) /\ it.bufsIndex = i /\ it.numMerged = 0
        /\ it.gsoSize = Len(B[i].data) /\ it.sentSeq = B[i].seq /\ it.pshSet = B[i].psh
  <2>1. PICK p \in TunPackets : p = B[i]
    BY <1>1, <1>3 DEF ChainTypes, Batched
  <2>2. Len(p.data) \in Nat /\ p.seq \in Nat /\ p.psh \in BOOLEAN
    <3>1. SeqSpace \in Nat
      BY OffloadBounds
    <3> QED BY <3>1 DEF TunPackets
  <2>3. i \in Nat
    BY <1>3
  <2>4. PICK f \in Nat, g \in Nat, h \in BOOLEAN : f = p.seq /\ g = Len(p.data) /\ h = p.psh
    BY <2>2
  <2>5. PICK w : w = [bufsIndex |-> i, numMerged |-> 0, gsoSize |-> g, sentSeq |-> f,
                      pshSet |-> h, cSumKnownInvalid |-> x]
    OBVIOUS
  <2>6. /\ w \in ItemRecords /\ w.bufsIndex = i /\ w.numMerged = 0 /\ w.gsoSize = g
        /\ w.sentSeq = f /\ w.pshSet = h
    BY ONLY <2>3, <2>5, x \in BOOLEAN, f \in Nat, g \in Nat, h \in BOOLEAN DEF ItemRecords
  <2>7. w = NewItem(p, i, x)
    BY <2>4, <2>5 DEF NewItem
  <2> QED BY <2>1, <2>4, <2>6, <2>7
<1>6. PICK r : r = Append(s, it) /\ r \in Seq(ItemRecords) /\ OneMore(s, it, r) /\ Len(s) \in Nat
  BY AppendShape
<1>7. PICK J : J = With(I, k, r)
  OBVIOUS
<1>8. /\ DOMAIN J = DOMAIN I \cup {k} /\ J \in [DOMAIN I \cup {k} -> Seq(ItemRecords)]
      /\ J[k] = r /\ \A j \in DOMAIN I \ {k} : J[j] = I[j]
  <2>1. I \in [DOMAIN I -> Seq(ItemRecords)]
    BY <1>1 DEF ChainTypes
  <2>2. Replaced(I, k, r, J)
    BY <2>1, <1>6, <1>7, WithType
  <2> QED BY <2>2 DEF Replaced
<1>9. \A j \in DOMAIN c : c[j] # <<>> => j # i /\ d[j] = c[j]
  BY <1>2, <1>3 DEF Rechained, Fresh
<1>10. ChainTypes(B, T, J, d)
  BY <1>1, <1>2, <1>8 DEF ChainTypes
<1>11. ASSUME NEW l \in DOMAIN I, NEW n \in DOMAIN I[l]
       PROVE  ItemOK(B, T, d, l, I[l][n]) /\ I[l][n].bufsIndex \in Nat /\ I[l][n].bufsIndex < i
  <2>1. ItemOK(B, T, c, l, I[l][n])
    BY DEF GroInv, ItemsOK
  <2>2. PICK j \in DOMAIN c : j = I[l][n].bufsIndex /\ c[j] # <<>>
    BY <2>1 DEF ItemOK
  <2>3. j < i
    BY <2>2 DEF Fresh
  <2> QED BY <1>3, <1>9, <2>1, <2>2, <2>3, ItemKept
<1>12. ItemOK(B, T, d, k, it)
  <2>1. d[i] = <<i>> /\ <<i>> # <<>> /\ Len(<<i>>) = 1
    BY <1>2 DEF Rechained
  <2>2. Stands(B, <<i>>, B[i], Len(B[i].data))
    BY <1>1, <1>3, StandsAlone DEF ChainTypes
  <2>3. k[1] \in Protos
    BY DEF FlowKey
  <2>4. it.numMerged + 1 = 1
    BY <1>5
  <2> QED BY <1>3, <1>5, <2>1, <2>2, <2>3, <2>4 DEF ItemOK
<1>13. ASSUME NEW n \in DOMAIN r
       PROVE  (n \in DOMAIN s /\ r[n] = s[n] /\ k \in DOMAIN I /\ s = I[k] /\ n < Len(s) + 1)
              \/ (n = Len(s) + 1 /\ r[n] = it)
  BY <1>4, <1>6 DEF OneMore
<1>14. ItemsOK(B, T, J, d)
  <2> SUFFICES ASSUME NEW l \in DOMAIN J, NEW n \in DOMAIN J[l] PROVE ItemOK(B, T, d, l, J[l][n])
    BY DEF ItemsOK
  <2>1. CASE l = k
    BY <1>8, <1>11, <1>12, <1>13, <2>1
  <2>2. CASE l # k
    BY <1>8, <1>11, <2>2
  <2> QED BY <2>1, <2>2
<1>15. ItemsApart(J)
  <2> SUFFICES ASSUME NEW l \in DOMAIN J PROVE Apart(l, J[l])
    BY DEF ItemsApart
  <2>1. CASE l = k
    <3> SUFFICES ASSUME NEW m \in DOMAIN r, NEW n \in DOMAIN r, m < n
                 PROVE  /\ r[m].bufsIndex # r[n].bufsIndex
                        /\ k[1] = "udp" => r[m].bufsIndex < r[n].bufsIndex
      BY <1>8, <2>1 DEF Apart
    <3>1. m \in DOMAIN s /\ r[m] = s[m] /\ k \in DOMAIN I /\ s = I[k]
      <4>1. DOMAIN r = 1..(Len(s) + 1)
        BY <1>6 DEF OneMore
      <4> QED BY <1>6, <1>13, <4>1
    <3>2. CASE n \in DOMAIN s /\ r[n] = s[n]
      BY <3>1, <3>2 DEF GroInv, ItemsApart, Apart
    <3>3. CASE r[n] = it
      <4>1. r[m].bufsIndex \in Nat /\ r[m].bufsIndex < i
        BY <1>11, <3>1
      <4> QED BY <1>3, <1>5, <3>3, <4>1
    <3> QED BY <1>13, <3>2, <3>3
  <2>2. CASE l # k
    BY <1>8, <2>2 DEF GroInv, ItemsApart
  <2> QED BY <2>1, <2>2
<1>16. \A l, j : HasItem(I, l, j) => HasItem(J, l, j)
  <2> SUFFICES ASSUME NEW l, NEW j, HasItem(I, l, j) PROVE HasItem(J, l, j)
    OBVIOUS
  <2> PICK n \in DOMAIN I[l] : l \in DOMAIN I /\ I[l][n].bufsIndex = j
    BY DEF HasItem
  <2>1. CASE l = k
    <3>1. s = I[k]
      BY <1>4, <2>1 DEF ItemsAt
    <3>2. n \in DOMAIN r /\ r[n] = s[n]
      BY <1>6, <2>1, <3>1 DEF OneMore
    <3> QED BY <1>8, <2>1, <3>1, <3>2 DEF HasItem
  <2>2. CASE l # k
    BY <1>8, <2>2 DEF HasItem
  <2> QED BY <2>1, <2>2
<1>17. HasItem(J, FlowKey(T[i].pkt), i)
  <2>1. Len(s) + 1 \in DOMAIN r /\ r[Len(s) + 1] = it
    BY <1>6 DEF OneMore
  <2> QED BY <1>5, <1>8, <2>1 DEF HasItem
<1>18. \A j \in DOMAIN d : d[j] # <<>> => j = i \/ (j \in DOMAIN c /\ c[j] # <<>> /\ d[j] = c[j])
  BY <1>2, <1>3 DEF Rechained
<1>19. OthersOK(B, T, J, d, v)
  BY <1>16, <1>17, <1>18 DEF GroInv, OthersOK
<1>20. UdpHeld(T, J, d, u)
  BY <1>16, <1>17, <1>18 DEF GroInv, UdpHeld
<1>21. GroInv(B, T, J, d, v, u)
  BY <1>2, <1>10, <1>14, <1>15, <1>19, <1>20 DEF GroInv
<1>22. QED
  BY <1>2, <1>4, <1>5, <1>6, <1>7, <1>21

\* r are the items of s but those of D, those before the first of D at their places
Remaining(s, D, r) ==
  /\ \A n \in DOMAIN r : \E m \in DOMAIN s \ D : r[n] = s[m]
  /\ \A x, y \in DOMAIN r : x # y => \E m, n \in DOMAIN s \ D : m # n /\ r[x] = s[m] /\ r[y] = s[n]
  /\ \A m \in DOMAIN s \ D : \E n \in DOMAIN r : r[n] = s[m]
  /\ \A e \in DOMAIN s : (\A n \in D : n > e) => e \in DOMAIN r /\ r[e] = s[e]

\* What deleteAt leaves.
LEMMA DeleteAtLeaves ==
  ASSUME NEW S, NEW s \in Seq(S), NEW D \in SUBSET DOMAIN s
  PROVE  deleteAt(s, D) \in Seq(S) /\ Remaining(s, D, deleteAt(s, D))
<1>1. PICK N \in Nat : N = Len(s) /\ DOMAIN s = 1..N
  OBVIOUS
<1>2. PICK K \in SUBSET (1..N) : K = DOMAIN s \ D
  BY <1>1
<1> PICK f : f = InOrder(K)
  OBVIOUS
<1>3. PICK C \in Nat : C = Cardinality(K) /\ DOMAIN f = 1..C /\ \A w \in 1..C : f[w] \in K
  <2>1. /\ Cardinality(K) \in 0..N
        /\ DOMAIN InOrder(K) = 1..Cardinality(K)
        /\ \A w \in 1..Cardinality(K) : InOrder(K)[w] \in K
    BY InOrderMember
  <2> QED BY <2>1
<1>4. /\ \A w, x \in 1..C : f[w] = f[x] => w = x
      /\ \A n \in K : \E w \in 1..C : f[w] = n
      /\ \A n \in K : 1..n \subseteq K => n <= C /\ f[n] = n
  <2>1. /\ \A w, x \in 1..Cardinality(K) : InOrder(K)[w] = InOrder(K)[x] => w = x
        /\ \A n \in K : \E w \in 1..Cardinality(K) : InOrder(K)[w] = n
        /\ \A n \in K : 1..n \subseteq K => n <= Cardinality(K) /\ InOrder(K)[n] = n
    BY InOrderExact
  <2> QED BY <1>3, <2>1
<1>5. PICK r : r = deleteAt(s, D)
  OBVIOUS
<1>6. r = [n \in 1..C |-> s[f[n]]]
  BY <1>2, <1>3, <1>5 DEF deleteAt
<1>7. r \in Seq(S) /\ DOMAIN r = 1..C
  <2>0. \A m \in 1..N : s[m] \in S
    BY <1>1
  <2>1. \A w \in 1..C : s[f[w]] \in S
    BY <1>3, <2>0
  <2> QED BY <1>6, <2>1
<1>8. \A n \in 1..C : r[n] = s[f[n]]
  BY <1>6
<1>9. ASSUME NEW e \in DOMAIN s, \A n \in D : n > e PROVE e \in DOMAIN r /\ r[e] = s[e]
  <2>1. e \in K /\ 1..e \subseteq K
    BY <1>1, <1>2, <1>9
  <2>2. e <= C /\ f[e] = e /\ e \in 1..C
    BY <1>1, <1>4, <2>1
  <2> QED BY <1>7, <1>8, <2>2
<1>10. \A m \in K : \E n \in DOMAIN r : r[n] = s[m]
  BY <1>4, <1>7, <1>8
<1>11. \A n \in DOMAIN r : \E m \in K : r[n] = s[m]
  BY <1>3, <1>7, <1>8
<1>12. ASSUME NEW x \in DOMAIN r, NEW y \in DOMAIN r, x # y
       PROVE  \E m, n \in K : m # n /\ r[x] = s[m] /\ r[y] = s[n]
  <2>1. x \in 1..C /\ y \in 1..C
    BY <1>7
  <2>2. f[x] \in K /\ f[y] \in K /\ f[x] # f[y] /\ r[x] = s[f[x]] /\ r[y] = s[f[y]]
    BY <1>3, <1>4, <1>8, <1>12, <2>1
  <2> QED BY <2>2
<1>13. Remaining(s, D, r)
  BY <1>2, <1>9, <1>10, <1>11, <1>12 DEF Remaining
<1>14. QED
  BY <1>5, <1>7, <1>13

\* clear changes headers only.
LEMMA ClearShape ==
  ASSUME NEW T \in Seq(TunBuffers), NEW S
  PROVE  /\ clear(T, S) \in Seq(TunBuffers) /\ Len(clear(T, S)) = Len(T)
         /\ \A j \in DOMAIN T : /\ clear(T, S)[j].pkt = T[j].pkt
                                /\ j \in S => clear(T, S)[j].hdr = ZeroHdr
                                /\ j \notin S => clear(T, S)[j] = T[j]
<1>1. PICK N \in Nat : N = Len(T) /\ DOMAIN T = 1..N
  OBVIOUS
<1>2. PICK U : U = clear(T, S)
  OBVIOUS
<1>3. U = [j \in 1..N |-> IF j \in S THEN [T[j] EXCEPT !.hdr = ZeroHdr] ELSE T[j]]
  BY <1>1, <1>2 DEF clear
<1>4. ZeroHdr \in Headers
  BY DEF ZeroHdr, Headers
<1>5. ASSUME NEW j \in 1..N
      PROVE  /\ U[j] \in TunBuffers /\ U[j].pkt = T[j].pkt
             /\ j \in S => U[j].hdr = ZeroHdr
             /\ j \notin S => U[j] = T[j]
  <2>1. PICK x \in TunBuffers : x = T[j]
    BY <1>1
  <2>2. /\ [x EXCEPT !.hdr = ZeroHdr] \in TunBuffers
        /\ [x EXCEPT !.hdr = ZeroHdr].pkt = x.pkt /\ [x EXCEPT !.hdr = ZeroHdr].hdr = ZeroHdr
    BY <1>4 DEF TunBuffers
  <2> QED BY <1>3, <2>1, <2>2
<1>6. U \in [1..N -> TunBuffers]
  BY <1>3, <1>5
<1>7. U \in Seq(TunBuffers) /\ Len(U) = N
  BY ONLY <1>6, N \in Nat
<1>8. QED
  BY <1>1, <1>2, <1>5, <1>7

\* Items of a TCP flow that were never merged are taken out, and their buffers get a header
\* (deleteAt in tcpGRO).
LEMMA GroDrop ==
  ASSUME NEW B, NEW T, NEW I, NEW c, NEW v, NEW u, GroInv(B, T, I, c, v, u), v,
         NEW k, k[1] = "tcp", NEW s, s = ItemsAt(I, k), NEW D \in SUBSET DOMAIN s,
         \A n \in D : s[n].numMerged = 0
  PROVE  GroInv(B, clear(T, ToClear(s, D)), With(I, k, deleteAt(s, D)), c, v, u)
<1>1. ChainTypes(B, T, I, c) /\ I \in [DOMAIN I -> Seq(ItemRecords)]
  BY DEF GroInv, ChainTypes
<1>2. s \in Seq(ItemRecords) /\ \A n \in DOMAIN s : k \in DOMAIN I /\ s = I[k]
  BY <1>1, ItemsAtType
<1>3. PICK r \in Seq(ItemRecords) : r = deleteAt(s, D) /\ Remaining(s, D, r)
  BY <1>2, DeleteAtLeaves
<1>4. PICK J : J = With(I, k, r)
  OBVIOUS
<1>5. /\ DOMAIN J = DOMAIN I \cup {k} /\ J \in [DOMAIN I \cup {k} -> Seq(ItemRecords)]
      /\ J[k] = r /\ \A j \in DOMAIN I \ {k} : J[j] = I[j]
  <2>1. Replaced(I, k, r, J)
    BY <1>1, <1>4, WithType
  <2> QED BY <2>1 DEF Replaced
<1>6. PICK N \in Nat : /\ N = Len(B) /\ DOMAIN T = 1..N /\ DOMAIN c = 1..N
                       /\ T \in Seq(TunBuffers) /\ Len(T) = N
  BY <1>1 DEF ChainTypes
<1>7. PICK U \in Seq(TunBuffers) :
        /\ U = clear(T, ToClear(s, D)) /\ Len(U) = N
        /\ \A j \in 1..N : /\ U[j].pkt = T[j].pkt
                           /\ j \in ToClear(s, D) => U[j].hdr = ZeroHdr
                           /\ j \notin ToClear(s, D) => U[j] = T[j]
  BY <1>6, ClearShape
<1>8. ChainTypes(B, U, J, c)
  BY <1>1, <1>5, <1>6, <1>7 DEF ChainTypes
<1>9. ASSUME NEW l \in DOMAIN I, NEW n \in DOMAIN I[l] PROVE ItemOK(B, U, c, l, I[l][n])
  <2>1. ItemOK(B, T, c, l, I[l][n])
    BY DEF GroInv, ItemsOK
  <2>2. I[l][n].bufsIndex \in 1..N
    BY <1>6, <2>1 DEF ItemOK
  <2> QED BY <1>7, <2>1, <2>2, ItemKept
<1>10. ItemsOK(B, U, J, c)
  <2> SUFFICES ASSUME NEW l \in DOMAIN J, NEW n \in DOMAIN J[l] PROVE ItemOK(B, U, c, l, J[l][n])
    BY DEF ItemsOK
  <2>1. CASE l = k
    <3>1. PICK m \in DOMAIN s : r[n] = s[m]
      BY <1>3, <1>5, <2>1 DEF Remaining
    <3> QED BY <1>2, <1>5, <1>9, <2>1, <3>1
  <2>2. CASE l # k
    BY <1>5, <1>9, <2>2
  <2> QED BY <2>1, <2>2
<1>11. ItemsApart(J)
  <2> SUFFICES ASSUME NEW l \in DOMAIN J PROVE Apart(l, J[l])
    BY DEF ItemsApart
  <2>1. CASE l = k
    <3> SUFFICES ASSUME NEW x \in DOMAIN r, NEW y \in DOMAIN r, x < y
                 PROVE  r[x].bufsIndex # r[y].bufsIndex
      BY <1>5, <2>1 DEF Apart
    <3>1. x # y
      BY <1>3
    <3>2. PICK m \in DOMAIN s, n \in DOMAIN s : m # n /\ r[x] = s[m] /\ r[y] = s[n]
      BY <1>3, <3>1 DEF Remaining
    <3>3. m < n \/ n < m
      BY <1>2, <3>2
    <3> QED BY <1>2, <3>2, <3>3 DEF GroInv, ItemsApart, Apart
  <2>2. CASE l # k
    BY <1>5, <2>2 DEF GroInv, ItemsApart
  <2> QED BY <2>1, <2>2
<1>12. ASSUME NEW l, NEW j, HasItem(I, l, j)
       PROVE  \/ HasItem(J, l, j)
              \/ l = k /\ \E n \in D : s[n].bufsIndex = j
  <2>1. PICK n \in DOMAIN I[l] : l \in DOMAIN I /\ I[l][n].bufsIndex = j
    BY <1>12 DEF HasItem
  <2>2. CASE l = k
    <3>1. s = I[k]
      BY <2>1, <2>2 DEF ItemsAt
    <3>2. CASE n \notin D
      <4>1. PICK m \in DOMAIN r : r[m] = s[n]
        BY <1>3, <2>1, <2>2, <3>1, <3>2 DEF Remaining
      <4> QED BY <1>5, <2>1, <2>2, <3>1, <4>1 DEF HasItem
    <3> QED BY <2>1, <2>2, <3>1, <3>2
  <2>3. CASE l # k
    BY <1>5, <2>1, <2>3 DEF HasItem
  <2> QED BY <2>2, <2>3
<1>13. ASSUME NEW j \in 1..N, NEW n \in D, s[n].bufsIndex = j PROVE Unmerged(B, U[j], c[j], v)
  <2>1. ItemOK(B, T, c, k, s[n])
    BY <1>2, n \in DOMAIN s DEF GroInv, ItemsOK
  <2>2. s[n].numMerged + 1 = 1
    OBVIOUS
  <2>3. Len(c[j]) = 1 /\ Stands(B, c[j], T[j].pkt, s[n].gsoSize)
    BY <1>13, <2>1, <2>2 DEF ItemOK
  <2>4. T[j].pkt = B[c[j][1]]
    BY <2>3 DEF Stands
  <2>5. j \in ToClear(s, D)
    BY <1>13 DEF ToClear
  <2> QED BY <1>7, <2>3, <2>4, <2>5 DEF Unmerged
<1>14. OthersOK(B, U, J, c, v)
  <2> SUFFICES ASSUME NEW j \in 1..N, c[j] # <<>>
               PROVE  HasItem(J, FlowKey(T[j].pkt), j) \/ Unmerged(B, U[j], c[j], v)
    BY <1>6, <1>7 DEF OthersOK
  <2>1. CASE HasItem(I, FlowKey(T[j].pkt), j)
    BY <1>12, <1>13, <2>1
  <2>2. CASE Unmerged(B, T[j], c[j], v)
    <3>1. U[j].pkt = T[j].pkt /\ U[j].hdr = ZeroHdr
      BY <1>7, <2>2 DEF Unmerged
    <3> QED BY <2>2, <3>1 DEF Unmerged
  <2> QED BY <1>6, <2>1, <2>2 DEF GroInv, OthersOK
<1>15. UdpHeld(U, J, c, u)
  <2> SUFFICES ASSUME u, NEW j \in 1..N, c[j] # <<>>, Considered(T[j].pkt)
               PROVE  HasItem(J, FlowKey(T[j].pkt), j)
    BY <1>6, <1>7 DEF UdpHeld
  <2>1. HasItem(I, FlowKey(T[j].pkt), j)
    BY <1>6 DEF GroInv, UdpHeld
  <2>2. FlowKey(T[j].pkt)[1] = "udp"
    BY DEF FlowKey, Considered
  <2> QED BY <1>12, <2>1, <2>2
<1>16. GroInv(B, U, J, c, v, u)
  BY <1>8, <1>10, <1>11, <1>14, <1>15 DEF GroInv
<1>17. QED
  BY <1>3, <1>4, <1>7, <1>16

\* the new chain of a buffer: packet i at its end, or in front
Joined(ch, i, d) == d = Append(ch, i) \/ d = <<i>> \o ch

\* the members of the new chain, in terms of the old one
JoinedShape(N, ch, i, d) ==
  /\ d \in Seq(1..N) /\ d # <<>>
  /\ \E f \in [DOMAIN d -> Nat] :
       /\ \A m, n \in DOMAIN d : f[m] = f[n] => m = n
       /\ \A m \in DOMAIN d : f[m] # 0 => f[m] \in DOMAIN ch /\ d[m] = ch[f[m]]
       /\ \A m \in DOMAIN d : f[m] = 0 => d[m] = i
  /\ \A m \in DOMAIN ch : \E n \in DOMAIN d : d[n] = ch[m]
  /\ \E n \in DOMAIN d : d[n] = i
  /\ d = Append(ch, i) => \A m \in DOMAIN d : \/ m \in DOMAIN ch /\ d[m] = ch[m]
                                              \/ m = Len(ch) + 1 /\ d[m] = i

\* A chain that was joined has that shape.
LEMMA JoinedMembers ==
  ASSUME NEW N \in Nat, NEW ch \in Seq(1..N), NEW i \in 1..N, NEW d, Joined(ch, i, d)
  PROVE  JoinedShape(N, ch, i, d)
<1>1. PICK L \in Nat : L = Len(ch) /\ DOMAIN ch = 1..L
  OBVIOUS
<1>2. CASE d = Append(ch, i)
  <2>1. d \in Seq(1..N) /\ OneMore(ch, i, d)
    BY <1>2, AppendShape
  <2>2. DOMAIN d = 1..(L + 1) /\ d[L + 1] = i /\ \A m \in 1..L : d[m] = ch[m]
    BY <1>1, <2>1 DEF OneMore
  <2>3. PICK f : f = [m \in 1..(L + 1) |-> IF m = L + 1 THEN 0 ELSE m]
    OBVIOUS
  <2>4. /\ f \in [DOMAIN d -> Nat]
        /\ \A m, n \in DOMAIN d : f[m] = f[n] => m = n
        /\ \A m \in DOMAIN d : f[m] # 0 => f[m] \in DOMAIN ch /\ d[m] = ch[f[m]]
        /\ \A m \in DOMAIN d : f[m] = 0 => d[m] = i
    BY <1>1, <2>2, <2>3
  <2>5. d # <<>> /\ \A m \in DOMAIN ch : \E n \in DOMAIN d : d[n] = ch[m]
    BY <1>1, <2>2
  <2>6. L + 1 \in DOMAIN d
    BY <2>2
  <2>7. \A m \in DOMAIN d : \/ m \in DOMAIN ch /\ d[m] = ch[m]
                            \/ m = Len(ch) + 1 /\ d[m] = i
    BY <1>1, <2>2
  <2> QED BY <2>1, <2>2, <2>4, <2>5, <2>6, <2>7 DEF JoinedShape
<1>3. CASE d = <<i>> \o ch /\ d # Append(ch, i)
  <2>0. <<i>> \in Seq(1..N) /\ Len(<<i>>) = 1 /\ <<i>>[1] = i
    OBVIOUS
  <2>1. PICK x \in Seq(1..N) : x = <<i>> /\ Len(x) = 1 /\ x[1] = i
    BY ONLY <2>0
  <2>2. /\ d \in Seq(1..N) /\ Len(d) = 1 + L /\ d[1] = i /\ \A m \in 1..L : d[1 + m] = ch[m]
    <3>1. d = x \o ch
      BY <1>3, <2>1
    <3> HIDE <1>3
    <3>2. /\ x \o ch \in Seq(1..N) /\ Len(x \o ch) = Len(x) + Len(ch)
          /\ \A m \in 1..Len(x) : (x \o ch)[m] = x[m]
          /\ \A m \in 1..Len(ch) : (x \o ch)[Len(x) + m] = ch[m]
      BY ConcatProperties
    <3> QED BY <1>1, <2>1, <3>1, <3>2
  <2>3. DOMAIN d = 1..(L + 1) /\ 1 \in DOMAIN d
    BY <2>2
  <2>4. \A m \in DOMAIN d : m # 1 => m - 1 \in 1..L /\ 1 + (m - 1) = m
    BY <2>3
  <2>5. PICK f : f = [m \in 1..(L + 1) |-> m - 1]
    OBVIOUS
  <2>6. /\ f \in [DOMAIN d -> Nat]
        /\ \A m, n \in DOMAIN d : f[m] = f[n] => m = n
    BY <2>3, <2>5
  <2>7. /\ \A m \in DOMAIN d : f[m] # 0 => f[m] \in DOMAIN ch /\ d[m] = ch[f[m]]
        /\ \A m \in DOMAIN d : f[m] = 0 => d[m] = i
    BY <1>1, <2>2, <2>3, <2>4, <2>5
  <2>8. d # <<>> /\ \A m \in DOMAIN ch : \E n \in DOMAIN d : d[n] = ch[m]
    <3>1. \A m \in 1..L : 1 + m \in DOMAIN d
      BY <2>3
    <3>2. ASSUME NEW m \in 1..L PROVE \E n \in DOMAIN d : d[n] = ch[m]
      <4>1. 1 + m \in DOMAIN d /\ d[1 + m] = ch[m]
        BY <2>2, <3>1
      <4> QED BY <4>1
    <3>3. d # <<>>
      BY <2>3
    <3> QED BY <1>1, <3>2, <3>3
  <2> QED BY <1>3, <2>2, <2>3, <2>6, <2>7, <2>8 DEF JoinedShape
<1>4. QED
  BY <1>2, <1>3 DEF Joined

\* A datagram that udpGRO considers has an item of its flow for its buffer.
LEMMA ConsideredHasItem ==
  ASSUME NEW B, NEW T, NEW I, NEW c, NEW v, NEW u, GroInv(B, T, I, c, v, u), u,
         NEW l \in DOMAIN c, NEW w \in DOMAIN c[l], Considered(B[c[l][w]])
  PROVE  HasItem(I, FlowKey(B[c[l][w]]), l)
<1>1. c[l] # <<>> /\ c[l] \in Seq(DOMAIN B)
  BY DEF GroInv, ChainTypes
<1>2. CASE HasItem(I, FlowKey(T[l].pkt), l)
  <2>1. PICK k, n : k = FlowKey(T[l].pkt) /\ k \in DOMAIN I /\ n \in DOMAIN I[k] /\ I[k][n].bufsIndex = l
    BY <1>2 DEF HasItem
  <2>2. ItemOK(B, T, c, k, I[k][n])
    BY <2>1 DEF GroInv, ItemsOK
  <2>3. SameHeader(B[c[l][w]], T[l].pkt)
    BY <2>1, <2>2 DEF ItemOK, Stands
  <2> QED BY <1>2, <2>3 DEF SameHeader, FlowKey
<1>3. CASE Unmerged(B, T[l], c[l], v)
  <2>1. w = 1
    BY <1>1, <1>3 DEF Unmerged
  <2>2. T[l].pkt = B[c[l][w]]
    BY <1>3, <2>1 DEF Unmerged
  <2> QED BY <1>1, <2>2 DEF GroInv, UdpHeld
<1>4. QED
  BY <1>1, <1>2, <1>3 DEF GroInv, OthersOK

\* packet i joins item n of the flow k, and it is the item, e the chains and U the buffers then
JoinsChain(B, T, I, c, v, u, i, k, n, at, ch, e, U, it) ==
  /\ GroInv(B, T, I, c, v, u)
  /\ Fresh(B, c, i) /\ k \in DOMAIN I /\ n \in DOMAIN I[k]
  /\ at = I[k][n].bufsIndex /\ Joined(c[at], i, ch)
  /\ e \in Seq(Seq(DOMAIN B)) /\ Len(e) = Len(B) /\ Rechained(c, at, ch, e)
  /\ U \in Seq(TunBuffers) /\ Len(U) = Len(T) /\ \A j \in DOMAIN T \ {at, i} : U[j] = T[j]
  /\ it \in ItemRecords /\ it.bufsIndex = at /\ ItemOK(B, U, e, k, it)
  /\ k[1] = "tcp" \/ (u /\ ch = Append(c[at], i) /\ n = Len(I[k]))

\* A packet that joins an item: only its buffer, its chain and the item change
\* (coalesceTCPPackets, coalesceUDPPackets).
LEMMA GroJoin ==
  ASSUME NEW B, NEW T, NEW I, NEW c, NEW v, NEW u, NEW i, NEW k, NEW n, NEW at, NEW ch, NEW e, NEW U,
         NEW it, JoinsChain(B, T, I, c, v, u, i, k, n, at, ch, e, U, it)
  PROVE  GroInv(B, U, With(I, k, [I[k] EXCEPT ![n] = it]), e, v, u)
<1> SUFFICES ASSUME GroInv(B, T, I, c, v, u), Fresh(B, c, i), k \in DOMAIN I, n \in DOMAIN I[k],
                    at = I[k][n].bufsIndex, Joined(c[at], i, ch),
                    e \in Seq(Seq(DOMAIN B)), Len(e) = Len(B), Rechained(c, at, ch, e),
                    U \in Seq(TunBuffers), Len(U) = Len(T), \A j \in DOMAIN T \ {at, i} : U[j] = T[j],
                    it \in ItemRecords, it.bufsIndex = at, ItemOK(B, U, e, k, it),
                    k[1] = "tcp" \/ (u /\ ch = Append(c[at], i) /\ n = Len(I[k]))
             PROVE  GroInv(B, U, With(I, k, [I[k] EXCEPT ![n] = it]), e, v, u)
  BY DEF JoinsChain
<1>1. ChainTypes(B, T, I, c) /\ I \in [DOMAIN I -> Seq(ItemRecords)]
  BY DEF GroInv, ChainTypes
<1>2. PICK N \in Nat : /\ N = Len(B) /\ DOMAIN B = 1..N /\ DOMAIN T = 1..N /\ DOMAIN c = 1..N
                       /\ c \in Seq(Seq(1..N)) /\ i \in 1..N
  BY <1>1 DEF ChainTypes, Batched, Fresh
<1>3. ItemOK(B, T, c, k, I[k][n])
  BY DEF GroInv, ItemsOK
<1>4. at \in 1..N /\ c[at] # <<>> /\ at # i /\ at < i
  BY <1>2, <1>3 DEF ItemOK, Fresh
<1>5. \A j \in 1..N : c[j] \in Seq(1..N)
  BY ONLY <1>2
<1>6. DOMAIN e = 1..N /\ e[at] = ch /\ \A j \in 1..N \ {at} : e[j] = c[j]
  BY <1>2 DEF Rechained
<1>7. JoinedShape(N, c[at], i, ch)
  BY <1>2, <1>4, <1>5, JoinedMembers
<1>8. PICK f \in [DOMAIN ch -> Nat] :
        /\ \A m, w \in DOMAIN ch : f[m] = f[w] => m = w
        /\ \A m \in DOMAIN ch : f[m] # 0 => f[m] \in DOMAIN c[at] /\ ch[m] = c[at][f[m]]
        /\ \A m \in DOMAIN ch : f[m] = 0 => ch[m] = i
  BY <1>7 DEF JoinedShape
<1>9. \A j \in 1..N : \A m \in DOMAIN c[j] : c[j][m] \in 1..N /\ c[j][m] < i
  <2>1. \A j \in 1..N : \A m \in DOMAIN c[j] : c[j][m] \in 1..N
    BY ONLY <1>5
  <2> QED BY <1>2, <2>1 DEF Fresh
<1>10. DOMAIN c[at] = 1..Len(c[at]) /\ Len(c[at]) \in Nat
  <2>1. PICK x \in Seq(1..N) : x = c[at]
    BY <1>4, <1>5
  <2>2. DOMAIN x = 1..Len(x) /\ Len(x) \in Nat
    OBVIOUS
  <2> QED BY <2>1, <2>2
<1>11. Once(e)
  <2> SUFFICES ASSUME NEW j \in 1..N, NEW l \in 1..N, NEW m \in DOMAIN e[j], NEW w \in DOMAIN e[l],
                      e[j][m] = e[l][w]
               PROVE  j = l /\ m = w
    BY <1>6 DEF Once
  <2>1. CASE j = at /\ l = at
    <3>1. m \in DOMAIN ch /\ w \in DOMAIN ch /\ ch[m] = ch[w]
      BY <1>6, <2>1
    <3>2. f[m] = f[w]
      <4>1. CASE f[m] = 0 /\ f[w] # 0
        <5>1. ch[m] = i /\ ch[w] < i
          BY <1>4, <1>8, <1>9, <3>1, <4>1
        <5> QED BY <1>2, <3>1, <5>1
      <4>2. CASE f[m] # 0 /\ f[w] = 0
        <5>1. ch[w] = i /\ ch[m] < i
          BY <1>4, <1>8, <1>9, <3>1, <4>2
        <5> QED BY <1>2, <3>1, <5>1
      <4>3. CASE f[m] # 0 /\ f[w] # 0
        <5>1. f[m] \in DOMAIN c[at] /\ f[w] \in DOMAIN c[at] /\ c[at][f[m]] = c[at][f[w]] /\ at \in DOMAIN c
          BY <1>2, <1>4, <1>8, <3>1, <4>3
        <5> QED BY <5>1 DEF GroInv, Once
      <4> QED BY <4>1, <4>2, <4>3
    <3> QED BY <1>8, <2>1, <3>1, <3>2
  <2>2. CASE j = at /\ l # at
    <3>1. m \in DOMAIN ch /\ e[l] = c[l] /\ w \in DOMAIN c[l] /\ c[l][w] \in 1..N /\ c[l][w] < i /\ ch[m] = c[l][w]
      BY <1>6, <1>9, <2>2
    <3>2. f[m] # 0
      BY <1>2, <1>8, <3>1
    <3>3. f[m] \in DOMAIN c[at] /\ c[at][f[m]] = c[l][w] /\ at \in DOMAIN c /\ l \in DOMAIN c
      BY <1>2, <1>4, <1>8, <3>1, <3>2
    <3>4. at = l
      BY <3>1, <3>3 DEF GroInv, Once
    <3> QED BY <2>2, <3>4
  <2>3. CASE j # at /\ l = at
    <3>1. w \in DOMAIN ch /\ e[j] = c[j] /\ m \in DOMAIN c[j] /\ c[j][m] \in 1..N /\ c[j][m] < i /\ ch[w] = c[j][m]
      BY <1>6, <1>9, <2>3
    <3>2. f[w] # 0
      BY <1>2, <1>8, <3>1
    <3>3. f[w] \in DOMAIN c[at] /\ c[at][f[w]] = c[j][m] /\ at \in DOMAIN c /\ j \in DOMAIN c
      BY <1>2, <1>4, <1>8, <3>1, <3>2
    <3>4. at = j
      BY <3>1, <3>3 DEF GroInv, Once
    <3> QED BY <2>3, <3>4
  <2>4. CASE j # at /\ l # at
    <3>1. e[j] = c[j] /\ e[l] = c[l] /\ j \in DOMAIN c /\ l \in DOMAIN c
      BY <1>2, <1>6, <2>4
    <3> QED BY <3>1 DEF GroInv, Once
  <2> QED BY <2>1, <2>2, <2>3, <2>4
<1>12. \A m \in DOMAIN ch : SameHeader(B[ch[m]], U[at].pkt) /\ FlowKey(B[ch[m]]) = k
  <2>1. Stands(B, ch, U[at].pkt, it.gsoSize) /\ k = FlowKey(U[at].pkt)
    BY <1>6 DEF ItemOK
  <2>2. \A m \in DOMAIN ch : SameHeader(B[ch[m]], U[at].pkt)
    BY <2>1 DEF Stands
  <2> QED BY <2>1, <2>2 DEF SameHeader, FlowKey
<1>13. UdpOrdered(B, e)
  <2> SUFFICES ASSUME NEW j \in 1..N, NEW l \in 1..N, NEW m \in DOMAIN e[j], NEW w \in DOMAIN e[l],
                      Considered(B[e[j][m]]), Considered(B[e[l][w]]), B[e[j][m]].flow = B[e[l][w]].flow,
                      j < l \/ (j = l /\ m < w)
               PROVE  e[j][m] < e[l][w]
    BY <1>6 DEF UdpOrdered
  <2>1. CASE j # at /\ l # at
    <3>1. e[j] = c[j] /\ e[l] = c[l] /\ j \in DOMAIN c /\ l \in DOMAIN c
      BY <1>2, <1>6, <2>1
    <3> QED BY <3>1 DEF GroInv, UdpOrdered
  <2>2. ASSUME j = at \/ l = at PROVE k[1] = "udp"
    <3>0. \A x \in DOMAIN ch : B[ch[x]].proto = "udp" => k[1] = "udp"
      <4> SUFFICES ASSUME NEW x \in DOMAIN ch, B[ch[x]].proto = "udp" PROVE k[1] = "udp"
        OBVIOUS
      <4>1. k = <<B[ch[x]].proto, B[ch[x]].flow>>
        BY <1>12 DEF FlowKey
      <4> QED BY <4>1
    <3>1. CASE j = at
      <4>1. m \in DOMAIN ch /\ B[ch[m]].proto = "udp"
        BY <1>6, <3>1 DEF Considered
      <4> QED BY <3>0, <4>1
    <3>2. CASE l = at
      <4>1. w \in DOMAIN ch /\ B[ch[w]].proto = "udp"
        BY <1>6, <3>2 DEF Considered
      <4> QED BY <3>0, <4>1
    <3> QED BY <2>2, <3>1, <3>2
  <2>3. ASSUME j = at \/ l = at
        PROVE  /\ u /\ n = Len(I[k]) /\ Len(c[at]) \in Nat
               /\ \A x \in DOMAIN ch : \/ x \in DOMAIN c[at] /\ ch[x] = c[at][x]
                                       \/ x = Len(c[at]) + 1 /\ ch[x] = i
    <3>1. u /\ n = Len(I[k]) /\ ch = Append(c[at], i)
      BY <2>2, <2>3
    <3>2. Len(c[at]) \in Nat
      BY <1>10
    <3> QED BY <1>7, <3>1, <3>2 DEF JoinedShape
  <2>4. CASE l = at /\ ch[w] = i
    <3>1. CASE j = at
      <4>1. m \in DOMAIN c[at] /\ ch[m] = c[at][m]
        <5>1. m < w /\ m \in DOMAIN ch /\ w \in DOMAIN ch
          BY <1>4, <1>6, <2>4, <3>1
        <5>2. w \in DOMAIN c[at] \/ w = Len(c[at]) + 1
          BY <2>3, <2>4, <5>1
        <5>3. m # Len(c[at]) + 1
          BY <1>10, <5>1, <5>2
        <5> QED BY <2>3, <2>4, <5>1, <5>3
      <4> QED BY <1>4, <1>6, <1>9, <2>4, <3>1, <4>1
    <3>2. CASE j # at
      BY <1>6, <1>9, <2>4, <3>2
    <3> QED BY <3>1, <3>2
  <2>5. CASE l = at /\ ch[w] # i
    <3>1. w \in DOMAIN c[at] /\ ch[w] = c[at][w]
      BY <1>6, <2>3, <2>5
    <3>2. CASE j = at
      <4>1. m \in DOMAIN c[at] /\ ch[m] = c[at][m]
        <5>1. m < w /\ m \in DOMAIN ch
          BY <1>4, <1>6, <2>5, <3>2
        <5>2. m # Len(c[at]) + 1
          BY <1>10, <3>1, <5>1
        <5> QED BY <2>3, <2>5, <5>1, <5>2
      <4> QED BY <1>2, <1>4, <1>6, <2>5, <3>1, <3>2, <4>1 DEF GroInv, UdpOrdered
    <3>3. CASE j # at
      BY <1>2, <1>4, <1>6, <2>5, <3>1, <3>3 DEF GroInv, UdpOrdered
    <3> QED BY <3>2, <3>3
  <2>6. CASE j = at /\ l # at /\ ch[m] # i
    <3>1. m \in DOMAIN c[at] /\ ch[m] = c[at][m]
      BY <1>6, <2>3, <2>6
    <3> QED BY <1>2, <1>4, <1>6, <2>6, <3>1 DEF GroInv, UdpOrdered
  <2>7. CASE j = at /\ l # at /\ ch[m] = i
    <3>1. e[l] = c[l] /\ w \in DOMAIN c[l] /\ l \in DOMAIN c /\ at < l
      BY <1>2, <1>6, <2>7
    <3>2. FlowKey(B[c[l][w]]) = k
      <4>1. m \in DOMAIN ch /\ FlowKey(B[ch[m]]) = k
        BY <1>6, <1>12, <2>7
      <4>2. B[ch[m]].proto = B[c[l][w]].proto /\ B[ch[m]].flow = B[c[l][w]].flow
        BY <1>6, <2>7, <3>1 DEF Considered
      <4> QED BY <4>1, <4>2 DEF FlowKey
    <3>3. HasItem(I, k, l)
      BY <2>3, <2>7, <3>1, <3>2, ConsideredHasItem
    <3>4. PICK x \in DOMAIN I[k] : I[k][x].bufsIndex = l
      BY <3>3 DEF HasItem
    <3>5. PICK L \in Nat : L = Len(I[k]) /\ x \in 1..L
      <4>1. DOMAIN I[k] = 1..Len(I[k]) /\ Len(I[k]) \in Nat
        BY <1>1
      <4> QED BY <4>1
    <3>6. x = n \/ x < n
      <4>1. n = L
        BY <2>3, <2>7, <3>5
      <4> QED BY ONLY <3>5, <4>1, L \in Nat
    <3>7. CASE x < n
      <4>1. I[k][x].bufsIndex < I[k][n].bufsIndex
        BY <2>2, <2>7, <3>7 DEF GroInv, ItemsApart, Apart
      <4> QED BY <1>4, <3>1, <3>4, <4>1
    <3> QED BY <1>4, <3>1, <3>4, <3>6, <3>7
  <2> QED BY <2>1, <2>4, <2>5, <2>6, <2>7
<1>14. PICK s \in Seq(ItemRecords) : s = I[k] /\ n \in DOMAIN s
  BY <1>1
<1>15. PICK t \in Seq(ItemRecords) :
         t = [s EXCEPT ![n] = it] /\ DOMAIN t = DOMAIN s /\ t[n] = it /\ \A x \in DOMAIN s \ {n} : t[x] = s[x]
  <2>1. /\ [s EXCEPT ![n] = it] \in Seq(ItemRecords)
        /\ Rechained(s, n, it, [s EXCEPT ![n] = it])
    BY <1>14, RechainedIs
  <2> QED BY <2>1 DEF Rechained
<1>16. PICK J : /\ J = With(I, k, t) /\ DOMAIN J = DOMAIN I /\ J \in [DOMAIN J -> Seq(ItemRecords)]
                /\ J[k] = t /\ \A l \in DOMAIN I \ {k} : J[l] = I[l]
  <2>1. DOMAIN I \cup {k} = DOMAIN I
    OBVIOUS
  <2>2. Replaced(I, k, t, With(I, k, t))
    BY <1>1, WithType
  <2> QED BY <2>1, <2>2 DEF Replaced
<1>17. \A l \in DOMAIN I : DOMAIN J[l] = DOMAIN I[l] /\ \A x \in DOMAIN I[l] : J[l][x].bufsIndex = I[l][x].bufsIndex
  <2> SUFFICES ASSUME NEW l \in DOMAIN I
               PROVE  DOMAIN J[l] = DOMAIN I[l] /\ \A x \in DOMAIN I[l] : J[l][x].bufsIndex = I[l][x].bufsIndex
    OBVIOUS
  <2>1. CASE l = k
    BY <1>14, <1>15, <1>16, <2>1
  <2>2. CASE l # k
    BY <1>16, <2>2
  <2> QED BY <2>1, <2>2
<1>18. \A l, j : HasItem(J, l, j) <=> HasItem(I, l, j)
  BY ONLY <1>16, <1>17, ZenonT(30) DEF HasItem
<1>19. ChainTypes(B, U, J, e)
  BY <1>1, <1>16 DEF ChainTypes
<1>20. ItemsApart(J)
  <2> SUFFICES ASSUME NEW l \in DOMAIN I PROVE Apart(l, J[l])
    BY <1>16 DEF ItemsApart
  <2>1. Apart(l, I[l])
    BY DEF GroInv, ItemsApart
  <2> QED BY <1>17, <2>1 DEF Apart
<1>21. ItemsOK(B, U, J, e)
  <2> SUFFICES ASSUME NEW l \in DOMAIN I, NEW x \in DOMAIN I[l] PROVE ItemOK(B, U, e, l, J[l][x])
    BY <1>16, <1>17 DEF ItemsOK
  <2>1. CASE l = k /\ x = n
    BY <1>15, <1>16, <2>1
  <2>2. CASE ~ (l = k /\ x = n)
    <3>1. J[l][x] = I[l][x]
      BY <1>14, <1>15, <1>16, <2>2
    <3>2. ItemOK(B, T, c, l, I[l][x])
      BY DEF GroInv, ItemsOK
    <3>3. PICK j \in 1..N : j = I[l][x].bufsIndex /\ c[j] # <<>> /\ l = FlowKey(T[j].pkt)
      BY <1>2, <3>2 DEF ItemOK
    <3>4. j # at
      <4>1. CASE l # k
        BY <1>3, <3>3, <4>1, ZenonT(30) DEF ItemOK
      <4>2. CASE l = k
        <5>1. x < n \/ n < x
          <6>1. DOMAIN s = 1..Len(s) /\ Len(s) \in Nat
            OBVIOUS
          <6> QED BY <1>14, <2>2, <4>2, <6>1
        <5>2. Apart(k, I[k]) /\ x \in DOMAIN I[k]
          BY <4>2 DEF GroInv, ItemsApart
        <5> QED BY <3>3, <4>2, <5>1, <5>2 DEF Apart
      <4> QED BY <4>1, <4>2
    <3>5. j # i
      BY <3>3 DEF Fresh
    <3>6. e[j] = c[j] /\ U[j].pkt = T[j].pkt /\ DOMAIN e = DOMAIN c
      BY <1>2, <1>6, <3>4, <3>5
    <3> QED BY <3>1, <3>2, <3>3, <3>6, ItemKept
  <2> QED BY <2>1, <2>2
<1>22. \A j \in 1..N : e[j] # <<>> /\ j # at => c[j] # <<>> /\ e[j] = c[j] /\ U[j] = T[j]
  <2> SUFFICES ASSUME NEW j \in 1..N, e[j] # <<>>, j # at PROVE c[j] # <<>> /\ e[j] = c[j] /\ U[j] = T[j]
    OBVIOUS
  <2>1. e[j] = c[j] /\ c[j] # <<>>
    BY <1>6
  <2>2. j # i
    BY <2>1 DEF Fresh
  <2> QED BY <1>2, <2>1, <2>2
<1>23. HasItem(J, FlowKey(U[at].pkt), at)
  <2>1. k = FlowKey(U[at].pkt)
    BY DEF ItemOK
  <2>2. HasItem(I, k, at)
    BY DEF HasItem
  <2> QED BY <1>18, <2>1, <2>2
<1>24. OthersOK(B, U, J, e, v)
  <2> SUFFICES ASSUME NEW j \in 1..N, e[j] # <<>>
               PROVE  HasItem(J, FlowKey(U[j].pkt), j) \/ Unmerged(B, U[j], e[j], v)
    BY <1>6 DEF OthersOK
  <2>1. CASE j = at
    BY <1>23, <2>1
  <2>2. CASE j # at
    <3>1. c[j] # <<>> /\ e[j] = c[j] /\ U[j] = T[j] /\ j \in DOMAIN c
      BY <1>2, <1>22, <2>2
    <3>2. HasItem(I, FlowKey(T[j].pkt), j) \/ Unmerged(B, T[j], c[j], v)
      BY <3>1 DEF GroInv, OthersOK
    <3> QED BY <1>18, <3>1, <3>2
  <2> QED BY <2>1, <2>2
<1>25. UdpHeld(U, J, e, u)
  <2> SUFFICES ASSUME u, NEW j \in 1..N, e[j] # <<>>, Considered(U[j].pkt)
               PROVE  HasItem(J, FlowKey(U[j].pkt), j)
    BY <1>6 DEF UdpHeld
  <2>1. CASE j = at
    BY <1>23, <2>1
  <2>2. CASE j # at
    <3>1. c[j] # <<>> /\ e[j] = c[j] /\ U[j] = T[j] /\ j \in DOMAIN c
      BY <1>2, <1>22, <2>2
    <3>2. HasItem(I, FlowKey(T[j].pkt), j)
      BY <3>1 DEF GroInv, UdpHeld
    <3> QED BY <1>18, <3>1, <3>2
  <2> QED BY <2>1, <2>2
<1>26. ~ v => DOMAIN J = {}
  BY <1>16 DEF GroInv
<1>27. GroInv(B, U, J, e, v, u)
  BY <1>11, <1>13, <1>19, <1>20, <1>21, <1>24, <1>25, <1>26 DEF GroInv
<1>28. QED
  BY <1>14, <1>15, <1>16, <1>27

-----------------------------------------------------------------------------
(* Where the packets of a batch are                                        *)

\* every packet of S is in a chain
Placed(c, S) == \A a \in S : \E j \in DOMAIN c : \E m \in DOMAIN c[j] : c[j][m] = a

\* w names the buffers that are written, in increasing order
Lined(w, c) ==
  /\ w \in Seq(DOMAIN c)
  /\ \A x, y \in DOMAIN w : x < y => w[x] < w[y]
  /\ \A x \in DOMAIN w : c[w[x]] # <<>>
  /\ \A j \in DOMAIN c : c[j] # <<>> => \E x \in DOMAIN w : w[x] = j

\* A packet in a buffer of its own is the last to be written.
LEMMA OwnBuffer ==
  ASSUME NEW B, NEW T, NEW I, NEW c, ChainTypes(B, T, I, c), NEW i, Fresh(B, c, i),
         NEW w, Lined(w, c), Placed(c, DOMAIN B \ {i})
  PROVE  /\ Lined(Append(w, i), [c EXCEPT ![i] = <<i>>])
         /\ Placed([c EXCEPT ![i] = <<i>>], DOMAIN B)
<1>1. PICK N \in Nat : /\ N = Len(B) /\ DOMAIN B = 1..N /\ DOMAIN c = 1..N /\ i \in 1..N
                       /\ c \in Seq(Seq(1..N)) /\ w \in Seq(1..N)
  BY DEF ChainTypes, Batched, Fresh, Lined
<1>2. PICK x : x = <<i>> /\ DOMAIN x = {1} /\ x[1] = i /\ x # <<>>
  <2>1. DOMAIN <<i>> = {1} /\ <<i>>[1] = i /\ <<i>> # <<>>
    OBVIOUS
  <2> QED BY <2>1
<1>3. x \in Seq(1..N)
  BY <1>1, <1>2
<1>4. PICK d : d = [c EXCEPT ![i] = x] /\ Rechained(c, i, x, d)
  <2>1. Rechained(c, i, x, [c EXCEPT ![i] = x])
    BY <1>1, <1>3, RechainedIs
  <2> QED BY <2>1
<1>5. DOMAIN d = 1..N /\ d[i] = x /\ \A j \in 1..N \ {i} : d[j] = c[j]
  BY <1>1, <1>4 DEF Rechained
<1>6. PICK y \in Seq(1..N) : y = Append(w, i) /\ OneMore(w, i, y) /\ Len(w) \in Nat
  BY <1>1, AppendShape
<1>7. DOMAIN y = 1..(Len(w) + 1) /\ y[Len(w) + 1] = i /\ (\A m \in 1..Len(w) : y[m] = w[m]) /\ DOMAIN w = 1..Len(w)
  BY <1>1, <1>6 DEF OneMore
<1>8. \A m \in DOMAIN w : w[m] \in 1..N /\ w[m] < i /\ c[w[m]] # <<>>
  <2>1. \A m \in DOMAIN w : w[m] \in 1..N
    BY <1>1
  <2> QED BY <1>1, <2>1 DEF Lined, Fresh
<1>9. Lined(y, d)
  <2>1. y \in Seq(DOMAIN d)
    BY <1>5
  <2>2. ASSUME NEW a \in DOMAIN y, NEW b \in DOMAIN y, a < b PROVE y[a] < y[b]
    <3>1. a \in DOMAIN w /\ y[a] = w[a]
      BY <1>6, <1>7, <2>2
    <3>2. CASE b = Len(w) + 1
      BY <1>7, <1>8, <3>1, <3>2
    <3>3. CASE b # Len(w) + 1
      <4>1. b \in DOMAIN w /\ y[b] = w[b]
        BY <1>6, <1>7, <3>3, SMTT(30)
      <4> QED BY <2>2, <3>1, <4>1 DEF Lined
    <3> QED BY <3>2, <3>3
  <2>3. ASSUME NEW a \in DOMAIN y PROVE d[y[a]] # <<>>
    <3>1. CASE a = Len(w) + 1
      BY <1>2, <1>5, <1>7, <3>1
    <3>2. CASE a # Len(w) + 1
      <4>1. a \in DOMAIN w /\ y[a] = w[a]
        BY <1>6, <1>7, <3>2
      <4>2. w[a] \in 1..N /\ w[a] # i /\ c[w[a]] # <<>>
        BY <1>1, <1>8, <4>1
      <4> QED BY <1>5, <4>1, <4>2
    <3> QED BY <3>1, <3>2
  <2>4. ASSUME NEW j \in DOMAIN d, d[j] # <<>> PROVE \E a \in DOMAIN y : y[a] = j
    <3>1. CASE j = i
      BY <1>6, <1>7, <3>1, Len(w) + 1 \in 1..(Len(w) + 1)
    <3>2. CASE j # i
      <4>1. j \in DOMAIN c /\ c[j] # <<>>
        BY <1>1, <1>5, <2>4, <3>2
      <4>2. PICK a \in DOMAIN w : w[a] = j
        BY <4>1 DEF Lined
      <4>3. a \in DOMAIN y /\ y[a] = w[a]
        BY <1>6, <1>7
      <4> QED BY <4>2, <4>3
    <3> QED BY <3>1, <3>2
  <2> QED BY <2>1, <2>2, <2>3, <2>4 DEF Lined
<1>10. Placed(d, 1..N)
  <2> SUFFICES ASSUME NEW a \in 1..N PROVE \E j \in DOMAIN d : \E m \in DOMAIN d[j] : d[j][m] = a
    BY DEF Placed
  <2>1. CASE a = i
    BY <1>1, <1>2, <1>5, <2>1, ZenonT(40)
  <2>2. CASE a # i
    <3>1. PICK j \in DOMAIN c : \E m \in DOMAIN c[j] : c[j][m] = a
      BY <1>1, <2>2 DEF Placed
    <3>0. PICK m \in DOMAIN c[j] : c[j][m] = a
      BY <3>1
    <3>2. j # i
      BY <3>0 DEF Fresh
    <3> QED BY <1>1, <1>5, <3>0, <3>2
  <2> QED BY <2>1, <2>2
<1>11. QED
  BY <1>1, <1>2, <1>4, <1>6, <1>9, <1>10

\* A packet that joins a chain is written with it.
LEMMA JoinedBuffer ==
  ASSUME NEW B, NEW T, NEW I, NEW c, ChainTypes(B, T, I, c), NEW i, Fresh(B, c, i),
         NEW w, Lined(w, c), Placed(c, DOMAIN B \ {i}),
         NEW at \in DOMAIN c, c[at] # <<>>, NEW ch, Joined(c[at], i, ch), NEW e, Rechained(c, at, ch, e)
  PROVE  Lined(w, e) /\ Placed(e, DOMAIN B)
<1>1. PICK N \in Nat : /\ N = Len(B) /\ DOMAIN B = 1..N /\ DOMAIN c = 1..N /\ i \in 1..N
                       /\ c \in Seq(Seq(1..N))
  BY DEF ChainTypes, Batched, Fresh, Lined
<1>2. c[at] \in Seq(1..N)
  BY <1>1
<1>3. JoinedShape(N, c[at], i, ch)
  BY <1>1, <1>2, JoinedMembers
<1>4. DOMAIN e = DOMAIN c /\ e[at] = ch /\ ch # <<>> /\ \A j \in DOMAIN c \ {at} : e[j] = c[j]
  BY <1>3 DEF Rechained, JoinedShape
<1>5. \A j \in DOMAIN c : e[j] # <<>> <=> c[j] # <<>>
  BY <1>4
<1>6. Lined(w, e)
  <2>1. \A x \in DOMAIN w : w[x] \in DOMAIN c
    BY DEF Lined
  <2> QED BY <1>4, <1>5, <2>1 DEF Lined
<1>7. ASSUME NEW a \in DOMAIN B PROVE \E j \in DOMAIN e : \E m \in DOMAIN e[j] : e[j][m] = a
  <2>1. CASE a = i
    BY <1>3, <1>4, <2>1 DEF JoinedShape
  <2>2. CASE a # i
    <3>1. PICK j \in DOMAIN c : \E m \in DOMAIN c[j] : c[j][m] = a
      BY <2>2 DEF Placed
    <3>0. PICK m \in DOMAIN c[j] : c[j][m] = a
      BY <3>1
    <3>2. CASE j = at
      <4>1. PICK n \in DOMAIN ch : ch[n] = c[at][m]
        BY <1>3, <3>0, <3>2 DEF JoinedShape
      <4> QED BY <1>4, <3>0, <3>2, <4>1
    <3>3. CASE j # at
      BY <1>4, <3>0, <3>3
    <3> QED BY <3>2, <3>3
  <2> QED BY <2>1, <2>2
<1>8. QED
  BY <1>6, <1>7 DEF Placed

-----------------------------------------------------------------------------
(* Coalescing                                                              *)

MergedItem(mode, p, item) ==
  [item EXCEPT !.numMerged = @ + 1,
               !.sentSeq = IF mode = "prepend" THEN p.seq ELSE @,
               !.pshSet = @ \/ (mode = "append" /\ p.psh),
               !.gsoSize = IF Len(p.data) > @ THEN Len(p.data) ELSE @]

MergedHead(mode, b, i, at) ==
  IF mode = "prepend" THEN [pkt |-> Prepended(b[at].pkt, b[i].pkt), hdr |-> b[i].hdr]
  ELSE [pkt |-> Appended(b[at].pkt, b[i].pkt), hdr |-> b[at].hdr]

MergedBufs(mode, b, i, at) ==
  [j \in DOMAIN b |-> IF j = at THEN MergedHead(mode, b, i, at)
                      ELSE IF j = i /\ mode = "prepend" THEN b[at]
                      ELSE b[j]]

\* coalescePackets in these terms.
LEMMA CoalesceIs ==
  ASSUME NEW mode, NEW i, NEW b, NEW k, NEW s, NEW n, coalescePackets(mode, i, b, k, s, n)
  PROVE  /\ SetItems(k, [s EXCEPT ![n] = MergedItem(mode, b[i].pkt, s[n])])
         /\ tunBufs' = MergedBufs(mode, b, i, s[n].bufsIndex)
  BY DEF coalescePackets, MergedItem, MergedBufs, MergedHead, Appended, Prepended

\* the packet and the item have the same headers and right checksums
Alike(B, i, pkt, item) ==
  /\ SameHeader(B[i], pkt) /\ B[i].csum /\ B[i].proto \in Protos
  /\ item.numMerged = 0 => pkt.csum
  /\ B[i].data # <<>>

FitsAfter(B, i, pkt, item) ==
  /\ Alike(B, i, pkt, item)
  /\ Len(pkt.data) % item.gsoSize = 0
  /\ Len(B[i].data) <= item.gsoSize
  /\ B[i].proto = "tcp" =>
       B[i].seq = (item.sentSeq + (item.gsoSize + item.numMerged * item.gsoSize)) % SeqSpace /\ ~ item.pshSet

FitsBefore(B, i, pkt, item) ==
  /\ Alike(B, i, pkt, item)
  /\ B[i].proto = "tcp"
  /\ (B[i].seq + Len(B[i].data)) % SeqSpace = item.sentSeq
  /\ ~ B[i].psh
  /\ Len(B[i].data) >= item.gsoSize
  /\ Len(B[i].data) > item.gsoSize => item.numMerged = 0

\* the newest packet and the item it joins
Meets(B, T, I, c, v, u, i, k, n) ==
  /\ GroInv(B, T, I, c, v, u)
  /\ Fresh(B, c, i) /\ T[i].pkt = B[i]
  /\ k \in DOMAIN I /\ n \in DOMAIN I[k]

\* What joining takes from the invariant.
LEMMA MeetsFacts ==
  ASSUME NEW B, NEW T, NEW I, NEW c, NEW v, NEW u, NEW i, NEW k, NEW n, Meets(B, T, I, c, v, u, i, k, n),
         NEW item, item = I[k][n], NEW at, at = item.bufsIndex, Alike(B, i, T[at].pkt, item)
  PROVE  /\ item \in ItemRecords /\ ItemOK(B, T, c, k, item)
         /\ at \in DOMAIN c /\ at \in DOMAIN T /\ i \in DOMAIN T /\ at # i /\ c[at] # <<>>
         /\ T \in Seq(TunBuffers) /\ c \in Seq(Seq(DOMAIN B)) /\ Len(c) = Len(B) /\ Len(T) = Len(B)
         /\ c[at] \in Seq(DOMAIN B) /\ i \in DOMAIN B /\ DOMAIN c = DOMAIN B /\ DOMAIN T = DOMAIN B
         /\ T[at] \in TunBuffers /\ T[i] \in TunBuffers /\ B[i] \in TunPackets
         /\ Joining(B, c[at], T[at].pkt, item.gsoSize, i)
         /\ item.numMerged + 1 = Len(c[at]) /\ Len(c[at]) \in Nat \ {0} /\ item.numMerged \in Nat
<1>1. ChainTypes(B, T, I, c) /\ Batched(B)
  BY DEF Meets, GroInv, ChainTypes
<1>2. ItemOK(B, T, c, k, item)
  BY DEF Meets, GroInv, ItemsOK
<1>3. item \in ItemRecords
  <2>1. I[k] \in Seq(ItemRecords)
    BY <1>1 DEF ChainTypes, Meets
  <2> QED BY <2>1 DEF Meets
<1>4. at \in DOMAIN c /\ c[at] # <<>> /\ item.numMerged + 1 = Len(c[at]) /\ Stands(B, c[at], T[at].pkt, item.gsoSize)
  BY <1>2 DEF ItemOK
<1>5. i \in DOMAIN B /\ i \in DOMAIN c /\ c[i] = <<>> /\ at # i
  BY <1>4 DEF Meets, Fresh
<1>6. PICK N \in Nat : /\ N = Len(B) /\ DOMAIN B = 1..N /\ DOMAIN c = 1..N /\ DOMAIN T = 1..N
                       /\ T \in Seq(TunBuffers) /\ c \in Seq(Seq(DOMAIN B)) /\ Len(c) = Len(B) /\ Len(T) = Len(B)
                       /\ B \in Seq(TunPackets)
  BY <1>1 DEF ChainTypes, Batched
<1>7. c[at] \in Seq(DOMAIN B) /\ T[at] \in TunBuffers /\ T[i] \in TunBuffers /\ B[i] \in TunPackets
  <2>1. at \in 1..N /\ i \in 1..N
    BY <1>4, <1>5, <1>6
  <2>2. c[at] \in Seq(DOMAIN B)
    BY ONLY <1>6, <2>1
  <2> QED BY ONLY <1>6, <2>1, <2>2
<1>8. item.numMerged \in Nat
  BY <1>3 DEF ItemRecords
<1>9. Len(c[at]) \in Nat \ {0}
  BY <1>4, <1>8
<1>10. Joining(B, c[at], T[at].pkt, item.gsoSize, i)
  <2>1. T[at].pkt \in TunPackets
    BY <1>7 DEF TunBuffers
  <2>2. Len(c[at]) = 1 => item.numMerged = 0
    BY <1>4, <1>8
  <2> QED BY <1>1, <1>4, <1>5, <1>7, <2>1, <2>2 DEF Joining, Alike
<1>11. QED
  BY <1>2, <1>3, <1>4, <1>5, <1>6, <1>7, <1>8, <1>9, <1>10

\* e and ch are the chains after packet i joined the item n of the flow k
JoinsAt(B, T, I, c, v, u, i, k, n, mode, e, ch) ==
  /\ e \in Seq(Seq(DOMAIN B)) /\ Len(e) = Len(B)
  /\ Joined(c[I[k][n].bufsIndex], i, ch)
  /\ Rechained(c, I[k][n].bufsIndex, ch, e)
  /\ GroInv(B, MergedBufs(mode, T, i, I[k][n].bufsIndex),
            With(I, k, [I[k] EXCEPT ![n] = MergedItem(mode, B[i], I[k][n])]), e, v, u)

\* The buffers after two were merged.
LEMMA MergedBufsShape ==
  ASSUME NEW T \in Seq(TunBuffers), NEW i \in DOMAIN T, NEW at \in DOMAIN T, NEW mode,
         MergedHead(mode, T, i, at) \in TunBuffers
  PROVE  /\ MergedBufs(mode, T, i, at) \in Seq(TunBuffers) /\ Len(MergedBufs(mode, T, i, at)) = Len(T)
         /\ MergedBufs(mode, T, i, at)[at] = MergedHead(mode, T, i, at)
         /\ \A j \in DOMAIN T \ {at, i} : MergedBufs(mode, T, i, at)[j] = T[j]
<1>1. PICK N \in Nat, h \in TunBuffers : N = Len(T) /\ DOMAIN T = 1..N /\ h = MergedHead(mode, T, i, at)
  OBVIOUS
<1>2. PICK U : U = [j \in 1..N |-> IF j = at THEN h ELSE IF j = i /\ mode = "prepend" THEN T[at] ELSE T[j]]
  OBVIOUS
<1>3. U = MergedBufs(mode, T, i, at)
  BY <1>1, <1>2 DEF MergedBufs
<1>4. \A j \in 1..N : T[j] \in TunBuffers
  BY <1>1
<1>5. U \in [1..N -> TunBuffers] /\ U[at] = h /\ \A j \in 1..N \ {at, i} : U[j] = T[j]
  BY <1>1, <1>2, <1>4
<1>6. U \in Seq(TunBuffers) /\ Len(U) = N
  BY ONLY <1>5, N \in Nat
<1>7. QED
  BY <1>1, <1>3, <1>5, <1>6

\* A packet appended to the buffer of an item.
LEMMA GroAppend ==
  ASSUME NEW B, NEW T, NEW I, NEW c, NEW v, NEW u, NEW i, NEW k, NEW n, Meets(B, T, I, c, v, u, i, k, n),
         FitsAfter(B, i, T[I[k][n].bufsIndex].pkt, I[k][n]),
         k[1] = "tcp" \/ (u /\ n = Len(I[k]))
  PROVE  \E e, ch : JoinsAt(B, T, I, c, v, u, i, k, n, "append", e, ch)
<1>1. PICK item, at : item = I[k][n] /\ at = item.bufsIndex
  OBVIOUS
<1>2. FitsAfter(B, i, T[at].pkt, item) /\ Alike(B, i, T[at].pkt, item)
  BY <1>1 DEF FitsAfter
<1>3. /\ item \in ItemRecords /\ ItemOK(B, T, c, k, item)
      /\ at \in DOMAIN c /\ at \in DOMAIN T /\ i \in DOMAIN T /\ at # i /\ c[at] # <<>>
      /\ T \in Seq(TunBuffers) /\ c \in Seq(Seq(DOMAIN B)) /\ Len(c) = Len(B) /\ Len(T) = Len(B)
      /\ c[at] \in Seq(DOMAIN B) /\ i \in DOMAIN B /\ DOMAIN c = DOMAIN B /\ DOMAIN T = DOMAIN B
      /\ T[at] \in TunBuffers /\ T[i] \in TunBuffers /\ B[i] \in TunPackets
      /\ Joining(B, c[at], T[at].pkt, item.gsoSize, i)
      /\ item.numMerged + 1 = Len(c[at]) /\ Len(c[at]) \in Nat \ {0} /\ item.numMerged \in Nat
  BY <1>1, <1>2, MeetsFacts
<1>4. PICK g \in Nat \ {0}, L \in Nat \ {0}, pkt \in TunPackets, q \in TunPackets :
        g = item.gsoSize /\ L = Len(c[at]) /\ pkt = T[at].pkt /\ q = B[i]
  <2>1. item.gsoSize \in Nat \ {0} /\ T[at].pkt \in TunPackets
    BY <1>3 DEF Joining, Stands
  <2> QED BY <1>3, <2>1
<1>5. /\ q.data \in Seq(TunTokens) /\ Len(q.data) \in 1..g
  <2>1. q.data \in Seq(TunTokens) /\ q.data # <<>> /\ Len(q.data) <= g
    BY <1>2, <1>4 DEF TunPackets, FitsAfter, Alike
  <2> QED BY <2>1
<1>6. /\ Stands(B, Append(c[at], i), Appended(pkt, q), g)
      /\ Appended(pkt, q) \in TunPackets
  <2>1. item.numMerged = L - 1
    <3>1. PICK a \in Nat : a = item.numMerged /\ a + 1 = L
      BY <1>3, <1>4
    <3>2. a = L - 1
      BY ONLY <3>1, a \in Nat, L \in Nat
    <3> QED BY <3>1, <3>2
  <2>2. g + (L - 1) * g = g * L
    <3>1. L * g = (L - 1) * g + g /\ L * g = g * L /\ (L - 1) * g \in Nat
      BY Multiples, L - 1 \in Nat
    <3> QED BY <3>1
  <2>3. item.sentSeq = pkt.seq /\ (pkt.psh => item.pshSet)
    BY <1>1, <1>3, <1>4 DEF ItemOK
  <2>4. q.proto = "tcp" => q.seq = (pkt.seq + g * L) % SeqSpace /\ ~ pkt.psh
    BY <1>2, <1>4, <2>1, <2>2, <2>3 DEF FitsAfter
  <2>5. Len(pkt.data) % g = 0
    BY <1>2, <1>4 DEF FitsAfter
  <2>6. PICK cc : cc = c[at]
    OBVIOUS
  <2>7. /\ Joining(B, cc, pkt, g, i) /\ Len(pkt.data) % g = 0 /\ Len(B[i].data) \in 1..g
        /\ B[i].proto = "tcp" => B[i].seq = (pkt.seq + g * Len(cc)) % SeqSpace /\ ~ pkt.psh
    BY <1>3, <1>4, <1>5, <2>4, <2>5, <2>6
  <2>8. Stands(B, Append(cc, i), Appended(pkt, B[i]), g) /\ Appended(pkt, B[i]) \in TunPackets
    BY ONLY <2>7, StandsAppend
  <2> QED BY <1>4, <2>6, <2>8
<1>7. PICK ch \in Seq(DOMAIN B) : ch = Append(c[at], i) /\ Len(ch) = L + 1 /\ ch # <<>>
  <2>1. Append(c[at], i) \in Seq(DOMAIN B) /\ OneMore(c[at], i, Append(c[at], i))
    BY <1>3, AppendShape
  <2>2. Len(Append(c[at], i)) = L + 1
    BY <1>4, <2>1 DEF OneMore
  <2>3. PICK x \in Seq(DOMAIN B) : x = Append(c[at], i) /\ Len(x) = L + 1
    BY <2>1, <2>2
  <2>4. x # <<>>
    BY ONLY <2>3, L \in Nat
  <2> QED BY <2>3, <2>4
<1>8. PICK e : /\ e = [c EXCEPT ![at] = ch] /\ e \in Seq(Seq(DOMAIN B)) /\ Len(e) = Len(B)
               /\ Rechained(c, at, ch, e)
  <2>1. /\ [c EXCEPT ![at] = ch] \in Seq(Seq(DOMAIN B)) /\ Len([c EXCEPT ![at] = ch]) = Len(c)
        /\ Rechained(c, at, ch, [c EXCEPT ![at] = ch])
    <3>1. PICK S : S = Seq(DOMAIN B)
      OBVIOUS
    <3>2. c \in Seq(S) /\ at \in DOMAIN c /\ ch \in S
      BY <1>3, <1>7, <3>1
    <3>3. /\ [c EXCEPT ![at] = ch] \in Seq(S) /\ Len([c EXCEPT ![at] = ch]) = Len(c)
          /\ Rechained(c, at, ch, [c EXCEPT ![at] = ch])
      BY ONLY <3>2, RechainedIs
    <3> QED BY <3>1, <3>3
  <2> QED BY <1>3, <2>1
<1>9. PICK h \in TunBuffers : h = MergedHead("append", T, i, at) /\ h.pkt = Appended(pkt, q)
  <2>1. PICK x \in TunBuffers, z \in TunBuffers : x = T[at] /\ z = T[i] /\ z.pkt = q /\ x.pkt = pkt
    BY <1>1, <1>3, <1>4 DEF Meets
  <2>2. PICK hh \in Headers : hh = x.hdr
    BY DEF TunBuffers
  <2>3. MergedHead("append", T, i, at) = [pkt |-> Appended(pkt, q), hdr |-> hh]
    BY <2>1, <2>2 DEF MergedHead
  <2>6. [pkt |-> Appended(pkt, q), hdr |-> hh] \in TunBuffers
    BY <1>6 DEF TunBuffers
  <2> QED BY <2>3, <2>6
<1>10. PICK U \in Seq(TunBuffers) :
         /\ U = MergedBufs("append", T, i, at) /\ Len(U) = Len(T) /\ U[at] = h
         /\ \A j \in DOMAIN T \ {at, i} : U[j] = T[j]
  <2>1. MergedHead("append", T, i, at) \in TunBuffers
    BY <1>9
  <2>2. T \in Seq(TunBuffers) /\ i \in DOMAIN T /\ at \in DOMAIN T
    BY <1>3
  <2>3. /\ MergedBufs("append", T, i, at) \in Seq(TunBuffers) /\ Len(MergedBufs("append", T, i, at)) = Len(T)
        /\ MergedBufs("append", T, i, at)[at] = MergedHead("append", T, i, at)
        /\ \A j \in DOMAIN T \ {at, i} : MergedBufs("append", T, i, at)[j] = T[j]
    BY ONLY <2>1, <2>2, MergedBufsShape
  <2> QED BY <1>9, <2>3
<1>11. PICK it \in ItemRecords :
         /\ it = MergedItem("append", q, item) /\ it.bufsIndex = at /\ it.numMerged = item.numMerged + 1
         /\ it.sentSeq = item.sentSeq /\ it.pshSet = (item.pshSet \/ q.psh) /\ it.gsoSize = g
  <2>1. ~ (Len(q.data) > g) /\ q.psh \in BOOLEAN
    BY <1>4, <1>5 DEF TunPackets
  <2>2. PICK f \in BOOLEAN, t \in BOOLEAN : f = q.psh /\ t = item.pshSet
    BY <1>3, <2>1 DEF ItemRecords
  <2>3. PICK w : w = [item EXCEPT !.numMerged = item.numMerged + 1, !.sentSeq = item.sentSeq,
                               !.pshSet = (t \/ f), !.gsoSize = g]
    OBVIOUS
  <2>4. w = MergedItem("append", q, item)
    BY <1>4, <2>1, <2>2, <2>3 DEF MergedItem
  <2>5. /\ w \in ItemRecords /\ w.bufsIndex = item.bufsIndex /\ w.numMerged = item.numMerged + 1
        /\ w.sentSeq = item.sentSeq /\ w.pshSet = (t \/ f) /\ w.gsoSize = g
    BY ONLY <1>3, <2>3, g \in Nat, t \in BOOLEAN, f \in BOOLEAN DEF ItemRecords
  <2> QED BY <1>1, <2>2, <2>4, <2>5
<1>12. ItemOK(B, U, e, k, it)
  <2>1. /\ at \in DOMAIN e /\ e[at] = ch
    BY <1>3, <1>8 DEF Rechained
  <2>2. PICK r \in TunPackets : r = Appended(pkt, q) /\ U[at].pkt = r
    BY <1>6, <1>9, <1>10
  <2>3. /\ FlowKey(r) = FlowKey(pkt) /\ r.plain = pkt.plain /\ r.seq = pkt.seq /\ r.psh = (pkt.psh \/ q.psh)
    <3>1. pkt \in TunPackets
      BY <1>3, <1>4 DEF TunBuffers
    <3>2. r = [pkt EXCEPT !.data = @ \o q.data, !.psh = @ \/ q.psh]
      BY <2>2 DEF Appended
    <3>3. r.proto = pkt.proto /\ r.flow = pkt.flow /\ r.plain = pkt.plain /\ r.seq = pkt.seq
          /\ r.psh = (pkt.psh \/ q.psh)
      BY ONLY <3>1, <3>2 DEF TunPackets
    <3> QED BY <3>3 DEF FlowKey
  <2>4. /\ k = FlowKey(pkt) /\ k[1] \in Protos /\ pkt.plain /\ item.sentSeq = pkt.seq /\ (pkt.psh => item.pshSet)
    BY <1>1, <1>3, <1>4 DEF ItemOK
  <2>5. it.numMerged + 1 = Len(ch)
    BY <1>3, <1>4, <1>7, <1>11
  <2>6. Stands(B, ch, r, g)
    BY <1>6, <1>7, <2>2
  <2>7. r.psh => it.pshSet
    BY <1>11, <2>3, <2>4
  <2> QED BY <1>7, <1>11, <2>1, <2>2, <2>3, <2>4, <2>5, <2>6, <2>7 DEF ItemOK
<1>13. GroInv(B, U, With(I, k, [I[k] EXCEPT ![n] = it]), e, v, u)
  <2>1. /\ GroInv(B, T, I, c, v, u) /\ Fresh(B, c, i) /\ k \in DOMAIN I /\ n \in DOMAIN I[k]
        /\ at = I[k][n].bufsIndex /\ Joined(c[at], i, ch)
        /\ k[1] = "tcp" \/ (u /\ ch = Append(c[at], i) /\ n = Len(I[k]))
    BY <1>1, <1>7 DEF Meets, Joined
  <2>2. /\ e \in Seq(Seq(DOMAIN B)) /\ Len(e) = Len(B) /\ Rechained(c, at, ch, e)
        /\ U \in Seq(TunBuffers) /\ Len(U) = Len(T) /\ \A j \in DOMAIN T \ {at, i} : U[j] = T[j]
        /\ it \in ItemRecords /\ it.bufsIndex = at /\ ItemOK(B, U, e, k, it)
    BY <1>8, <1>10, <1>11, <1>12
  <2>3. JoinsChain(B, T, I, c, v, u, i, k, n, at, ch, e, U, it)
    BY <2>1, <2>2 DEF JoinsChain
  <2> QED BY <2>3, GroJoin, Zenon
<1>14. JoinsAt(B, T, I, c, v, u, i, k, n, "append", e, ch)
  BY <1>1, <1>4, <1>7, <1>8, <1>10, <1>11, <1>13 DEF JoinsAt, Joined
<1>15. QED
  BY <1>14

\* A packet put in front of the buffer of an item.
LEMMA GroPrepend ==
  ASSUME NEW B, NEW T, NEW I, NEW c, NEW v, NEW u, NEW i, NEW k, NEW n, Meets(B, T, I, c, v, u, i, k, n),
         FitsBefore(B, i, T[I[k][n].bufsIndex].pkt, I[k][n]), k[1] = "tcp"
  PROVE  \E e, ch : JoinsAt(B, T, I, c, v, u, i, k, n, "prepend", e, ch)
<1>1. PICK item, at : item = I[k][n] /\ at = item.bufsIndex
  OBVIOUS
<1>2. FitsBefore(B, i, T[at].pkt, item) /\ Alike(B, i, T[at].pkt, item)
  BY <1>1 DEF FitsBefore
<1>3. /\ item \in ItemRecords /\ ItemOK(B, T, c, k, item)
      /\ at \in DOMAIN c /\ at \in DOMAIN T /\ i \in DOMAIN T /\ at # i /\ c[at] # <<>>
      /\ T \in Seq(TunBuffers) /\ c \in Seq(Seq(DOMAIN B)) /\ Len(c) = Len(B) /\ Len(T) = Len(B)
      /\ c[at] \in Seq(DOMAIN B) /\ i \in DOMAIN B /\ DOMAIN c = DOMAIN B /\ DOMAIN T = DOMAIN B
      /\ T[at] \in TunBuffers /\ T[i] \in TunBuffers /\ B[i] \in TunPackets
      /\ Joining(B, c[at], T[at].pkt, item.gsoSize, i)
      /\ item.numMerged + 1 = Len(c[at]) /\ Len(c[at]) \in Nat \ {0} /\ item.numMerged \in Nat
  BY <1>1, <1>2, MeetsFacts
<1>4. PICK g \in Nat \ {0}, L \in Nat \ {0}, pkt \in TunPackets, q \in TunPackets :
        g = item.gsoSize /\ L = Len(c[at]) /\ pkt = T[at].pkt /\ q = B[i]
  <2>1. item.gsoSize \in Nat \ {0} /\ T[at].pkt \in TunPackets
    BY <1>3 DEF Joining, Stands
  <2> QED BY <1>3, <2>1
<1>5. PICK h \in Nat \ {0} : h = Len(q.data) /\ g <= h
  <2>1. q.data \in Seq(TunTokens) /\ q.data # <<>> /\ Len(q.data) >= g
    BY <1>2, <1>4 DEF TunPackets, FitsBefore, Alike
  <2>2. Len(q.data) \in Nat \ {0}
    BY <2>1
  <2> QED BY <2>1, <2>2
<1>6. /\ Stands(B, <<i>> \o c[at], Prepended(pkt, q), h)
      /\ Prepended(pkt, q) \in TunPackets
  <2>1. g < h => L = 1
    <3>1. PICK a \in Nat : a = item.numMerged /\ a + 1 = L
      BY <1>3, <1>4
    <3>2. g < h => a = 0
      BY <1>2, <1>4, <1>5, <3>1 DEF FitsBefore
    <3> QED BY <3>1, <3>2
  <2>3. item.sentSeq = pkt.seq
    BY <1>1, <1>3, <1>4 DEF ItemOK
  <2>4. pkt.seq = (q.seq + h) % SeqSpace /\ ~ q.psh /\ q.proto = "tcp"
    BY <1>2, <1>4, <1>5, <2>3 DEF FitsBefore
  <2>6. PICK cc : cc = c[at]
    OBVIOUS
  <2>7. /\ Joining(B, cc, pkt, g, i) /\ B[i].proto = "tcp" /\ h = Len(B[i].data) /\ g <= h
        /\ g < h => Len(cc) = 1
        /\ pkt.seq = (B[i].seq + h) % SeqSpace /\ ~ B[i].psh
    BY <1>3, <1>4, <1>5, <2>1, <2>4, <2>6
  <2>8. Stands(B, <<i>> \o cc, Prepended(pkt, B[i]), h) /\ Prepended(pkt, B[i]) \in TunPackets
    BY ONLY <2>7, StandsPrepend, h \in Nat \ {0}
  <2> QED BY <1>4, <2>6, <2>8
<1>7. PICK ch \in Seq(DOMAIN B) : ch = <<i>> \o c[at] /\ Len(ch) = L + 1 /\ ch # <<>>
  <2>1. PICK x \in Seq(DOMAIN B), y \in Seq(DOMAIN B) : x = <<i>> /\ y = c[at] /\ Len(x) = 1 /\ Len(y) = L
    <3>1. <<i>> \in Seq(DOMAIN B) /\ Len(<<i>>) = 1
      BY <1>3
    <3> QED BY <1>3, <1>4, <3>1
  <2>2. x \o y \in Seq(DOMAIN B) /\ Len(x \o y) = Len(x) + Len(y)
    BY ConcatProperties
  <2>3. PICK z \in Seq(DOMAIN B) : z = x \o y /\ Len(z) = L + 1
    BY <2>1, <2>2, 1 + L = L + 1
  <2>4. z # <<>>
    BY ONLY <2>3, L \in Nat
  <2> QED BY <2>1, <2>3, <2>4
<1>8. PICK e : /\ e = [c EXCEPT ![at] = ch] /\ e \in Seq(Seq(DOMAIN B)) /\ Len(e) = Len(B)
               /\ Rechained(c, at, ch, e)
  <2>1. /\ [c EXCEPT ![at] = ch] \in Seq(Seq(DOMAIN B)) /\ Len([c EXCEPT ![at] = ch]) = Len(c)
        /\ Rechained(c, at, ch, [c EXCEPT ![at] = ch])
    <3>1. PICK S : S = Seq(DOMAIN B)
      OBVIOUS
    <3>2. c \in Seq(S) /\ at \in DOMAIN c /\ ch \in S
      BY <1>3, <1>7, <3>1
    <3>3. /\ [c EXCEPT ![at] = ch] \in Seq(S) /\ Len([c EXCEPT ![at] = ch]) = Len(c)
          /\ Rechained(c, at, ch, [c EXCEPT ![at] = ch])
      BY ONLY <3>2, RechainedIs
    <3> QED BY <3>1, <3>3
  <2> QED BY <1>3, <2>1
<1>9. PICK b \in TunBuffers : b = MergedHead("prepend", T, i, at) /\ b.pkt = Prepended(pkt, q)
  <2>1. PICK x \in TunBuffers, z \in TunBuffers : x = T[at] /\ z = T[i] /\ z.pkt = q /\ x.pkt = pkt
    BY <1>1, <1>3, <1>4 DEF Meets
  <2>2. PICK hh \in Headers : hh = z.hdr
    BY DEF TunBuffers
  <2>3. MergedHead("prepend", T, i, at) = [pkt |-> Prepended(pkt, q), hdr |-> hh]
    BY <2>1, <2>2 DEF MergedHead
  <2>6. [pkt |-> Prepended(pkt, q), hdr |-> hh] \in TunBuffers
    BY <1>6 DEF TunBuffers
  <2> QED BY <2>3, <2>6
<1>10. PICK U \in Seq(TunBuffers) :
         /\ U = MergedBufs("prepend", T, i, at) /\ Len(U) = Len(T) /\ U[at] = b
         /\ \A j \in DOMAIN T \ {at, i} : U[j] = T[j]
  <2>1. MergedHead("prepend", T, i, at) \in TunBuffers
    BY <1>9
  <2>2. T \in Seq(TunBuffers) /\ i \in DOMAIN T /\ at \in DOMAIN T
    BY <1>3
  <2>3. /\ MergedBufs("prepend", T, i, at) \in Seq(TunBuffers) /\ Len(MergedBufs("prepend", T, i, at)) = Len(T)
        /\ MergedBufs("prepend", T, i, at)[at] = MergedHead("prepend", T, i, at)
        /\ \A j \in DOMAIN T \ {at, i} : MergedBufs("prepend", T, i, at)[j] = T[j]
    BY ONLY <2>1, <2>2, MergedBufsShape
  <2> QED BY <1>9, <2>3
<1>11. PICK it \in ItemRecords :
         /\ it = MergedItem("prepend", q, item) /\ it.bufsIndex = at /\ it.numMerged = item.numMerged + 1
         /\ it.sentSeq = q.seq /\ it.gsoSize = h
  <2>1. PICK f \in Nat, t \in BOOLEAN : f = q.seq /\ t = item.pshSet
    <3>1. SeqSpace \in Nat /\ q.seq \in 0..SeqSpace - 1
      BY OffloadBounds DEF TunPackets
    <3>2. q.seq \in Nat
      BY <3>1
    <3> QED BY <1>3, <3>2 DEF ItemRecords
  <2>2. (IF h > g THEN h ELSE g) = h
    BY <1>5
  <2>3. PICK w : w = [item EXCEPT !.numMerged = item.numMerged + 1, !.sentSeq = f,
                               !.pshSet = t, !.gsoSize = h]
    OBVIOUS
  <2>4. w = MergedItem("prepend", q, item)
    BY <1>4, <1>5, <2>1, <2>2, <2>3 DEF MergedItem
  <2>5. /\ w \in ItemRecords /\ w.bufsIndex = item.bufsIndex /\ w.numMerged = item.numMerged + 1
        /\ w.sentSeq = f /\ w.gsoSize = h
    BY ONLY <1>3, <2>3, h \in Nat, t \in BOOLEAN, f \in Nat DEF ItemRecords
  <2> QED BY <1>1, <2>1, <2>4, <2>5
<1>12. ItemOK(B, U, e, k, it)
  <2>1. /\ at \in DOMAIN e /\ e[at] = ch
    BY <1>3, <1>8 DEF Rechained
  <2>2. PICK r \in TunPackets : r = Prepended(pkt, q) /\ U[at].pkt = r
    BY <1>6, <1>9, <1>10
  <2>3. /\ FlowKey(r) = FlowKey(q) /\ r.plain = q.plain /\ r.seq = q.seq /\ r.psh = q.psh
    <3>2. r = [q EXCEPT !.data = @ \o pkt.data]
      BY <2>2 DEF Prepended
    <3>3. r.proto = q.proto /\ r.flow = q.flow /\ r.plain = q.plain /\ r.seq = q.seq /\ r.psh = q.psh
      BY ONLY <3>2, q \in TunPackets DEF TunPackets
    <3> QED BY <3>3 DEF FlowKey
  <2>4. k = FlowKey(pkt) /\ k[1] \in Protos /\ pkt.plain
    BY <1>1, <1>3, <1>4 DEF ItemOK
  <2>5. it.numMerged + 1 = Len(ch)
    BY <1>3, <1>4, <1>7, <1>11
  <2>6. Stands(B, ch, r, h)
    BY <1>6, <1>7, <2>2
  <2>7. ~ r.psh
    BY <1>2, <1>4, <2>3 DEF FitsBefore
  <2>8. FlowKey(q) = k /\ q.plain
    BY <1>2, <1>4, <2>4 DEF Alike, SameHeader, FlowKey
  <2> QED BY <1>7, <1>11, <2>1, <2>2, <2>3, <2>4, <2>5, <2>6, <2>7, <2>8 DEF ItemOK
<1>13. GroInv(B, U, With(I, k, [I[k] EXCEPT ![n] = it]), e, v, u)
  <2>1. /\ GroInv(B, T, I, c, v, u) /\ Fresh(B, c, i) /\ k \in DOMAIN I /\ n \in DOMAIN I[k]
        /\ at = I[k][n].bufsIndex /\ Joined(c[at], i, ch)
    BY <1>1, <1>7 DEF Meets, Joined
  <2>2. /\ e \in Seq(Seq(DOMAIN B)) /\ Len(e) = Len(B) /\ Rechained(c, at, ch, e)
        /\ U \in Seq(TunBuffers) /\ Len(U) = Len(T) /\ \A j \in DOMAIN T \ {at, i} : U[j] = T[j]
        /\ it \in ItemRecords /\ it.bufsIndex = at /\ ItemOK(B, U, e, k, it)
    BY <1>8, <1>10, <1>11, <1>12
  <2>3. JoinsChain(B, T, I, c, v, u, i, k, n, at, ch, e, U, it)
    BY <2>1, <2>2 DEF JoinsChain
  <2> QED BY <2>3, GroJoin, Zenon
<1>14. JoinsAt(B, T, I, c, v, u, i, k, n, "prepend", e, ch)
  BY <1>1, <1>4, <1>7, <1>8, <1>10, <1>11, <1>13 DEF JoinsAt, Joined
<1>15. QED
  BY <1>14

-----------------------------------------------------------------------------
(* A turn of handleGRO                                                     *)

\* the newest packet is in the batch and in a buffer, and nothing else was done with it
Arrived(B, b, c, i) ==
  /\ GroInv(B, b, itemsByFlow, c, vnetHdr, udpGSO)
  /\ Fresh(B, c, i) /\ Placed(c, DOMAIN B \ {i}) /\ Lined(toWrite, c)
  /\ b[i].pkt = B[i]
  /\ \A j \in DOMAIN c : j < i => b[j] = tunBufs[j]

\* the packet has its place
Handled(B) ==
  \E d : /\ GroInv(B, tunBufs', itemsByFlow', d, vnetHdr, udpGSO)
         /\ Placed(d, DOMAIN B) /\ Lined(toWrite', d)

\* SetItems stores s for the flow.
LEMMA SetItemsIs ==
  ASSUME NEW k, NEW s, SetItems(k, s)
  PROVE  itemsByFlow' = With(itemsByFlow, k, s)
  BY DEF SetItems, With

\* A packet that is written as it is, with offload or without.
LEMMA NoopStep ==
  ASSUME NEW B, NEW b, NEW c, NEW i, Arrived(B, b, c, i), ~ (udpGSO /\ Considered(B[i])),
         itemsByFlow' = itemsByFlow, toWrite' = Append(toWrite, i),
         vnetHdr => tunBufs' = clear(b, {i}), ~ vnetHdr => tunBufs' = b
  PROVE  Handled(B)
<1>1. GroInv(B, b, itemsByFlow, c, vnetHdr, udpGSO) /\ ChainTypes(B, b, itemsByFlow, c)
  BY DEF Arrived, GroInv
<1>2. Fresh(B, c, i) /\ b[i].pkt = B[i] /\ i \in DOMAIN b /\ b \in Seq(TunBuffers)
  BY <1>1 DEF Arrived, Fresh, ChainTypes, Batched
<1>3. PICK U : U = tunBufs'
  OBVIOUS
<1>4. /\ U \in Seq(TunBuffers) /\ Len(U) = Len(b) /\ U[i].pkt = B[i] /\ (vnetHdr => U[i].hdr = ZeroHdr)
      /\ \A j \in DOMAIN b \ {i} : U[j] = b[j]
  <2>1. CASE vnetHdr
    <3>1. /\ clear(b, {i}) \in Seq(TunBuffers) /\ Len(clear(b, {i})) = Len(b)
          /\ \A j \in DOMAIN b : /\ clear(b, {i})[j].pkt = b[j].pkt
                                 /\ j \in {i} => clear(b, {i})[j].hdr = ZeroHdr
                                 /\ j \notin {i} => clear(b, {i})[j] = b[j]
      BY <1>2, ClearShape
    <3>2. U = clear(b, {i})
      BY <1>3, <2>1
    <3> QED BY <1>2, <3>1, <3>2
  <2>2. CASE ~ vnetHdr
    BY <1>2, <1>3, <2>2
  <2> QED BY <2>1, <2>2
<1>5. GroInv(B, U, itemsByFlow, [c EXCEPT ![i] = <<i>>], vnetHdr, udpGSO)
  BY <1>1, <1>2, <1>4, GroNoop
<1>6. /\ Lined(Append(toWrite, i), [c EXCEPT ![i] = <<i>>])
      /\ Placed([c EXCEPT ![i] = <<i>>], DOMAIN B)
  <2>1. PICK w : w = toWrite
    OBVIOUS
  <2>2. Lined(w, c) /\ Placed(c, DOMAIN B \ {i})
    BY <2>1 DEF Arrived
  <2> QED BY <1>1, <1>2, <2>1, <2>2, OwnBuffer
<1>7. QED
  BY <1>3, <1>5, <1>6 DEF Handled

\* A packet that joined an item.
LEMMA JoinStep ==
  ASSUME NEW B, NEW b, NEW c, NEW i, Arrived(B, b, c, i), UNCHANGED toWrite,
         NEW T, NEW I, NEW k, NEW n, NEW mode, NEW e, NEW ch, Meets(B, T, I, c, vnetHdr, udpGSO, i, k, n),
         JoinsAt(B, T, I, c, vnetHdr, udpGSO, i, k, n, mode, e, ch),
         tunBufs' = MergedBufs(mode, T, i, I[k][n].bufsIndex),
         itemsByFlow' = With(I, k, [I[k] EXCEPT ![n] = MergedItem(mode, B[i], I[k][n])])
  PROVE  Handled(B)
<1>1. PICK at : at = I[k][n].bufsIndex
  OBVIOUS
<1>2. ChainTypes(B, T, I, c) /\ ItemOK(B, T, c, k, I[k][n])
  BY DEF Meets, GroInv, ItemsOK
<1>3. at \in DOMAIN c /\ c[at] # <<>>
  BY <1>1, <1>2 DEF ItemOK
<1>4. Joined(c[at], i, ch) /\ Rechained(c, at, ch, e)
  BY <1>1 DEF JoinsAt
<1>5. PICK w : w = toWrite /\ Lined(w, c) /\ Placed(c, DOMAIN B \ {i}) /\ Fresh(B, c, i)
  BY DEF Arrived
<1>6. Lined(w, e) /\ Placed(e, DOMAIN B)
  BY <1>2, <1>3, <1>4, <1>5, JoinedBuffer
<1>7. GroInv(B, tunBufs', itemsByFlow', e, vnetHdr, udpGSO)
  BY DEF JoinsAt
<1>8. QED
  BY <1>5, <1>6, <1>7 DEF Handled

\* A packet that became an item.
LEMMA InsertStep ==
  ASSUME NEW B, NEW b, NEW c, NEW i, Arrived(B, b, c, i), vnetHdr, toWrite' = Append(toWrite, i),
         NEW T, NEW I, NEW k, k = FlowKey(B[i]), GroInv(B, T, I, c, vnetHdr, udpGSO), T[i].pkt = B[i],
         B[i].plain, B[i].data # <<>>, B[i].proto \in Protos, NEW x \in BOOLEAN,
         tunBufs' = T, itemsByFlow' = With(I, k, Append(ItemsAt(I, k), NewItem(B[i], i, x)))
  PROVE  Handled(B)
<1>1. Fresh(B, c, i) /\ ChainTypes(B, T, I, c)
  BY DEF Arrived, GroInv
<1>2. GroInv(B, T, itemsByFlow', [c EXCEPT ![i] = <<i>>], vnetHdr, udpGSO)
  BY <1>1, GroInsert
<1>3. PICK w : w = toWrite /\ Lined(w, c) /\ Placed(c, DOMAIN B \ {i})
  BY DEF Arrived
<1>4. /\ Lined(Append(w, i), [c EXCEPT ![i] = <<i>>])
      /\ Placed([c EXCEPT ![i] = <<i>>], DOMAIN B)
  BY <1>1, <1>3, OwnBuffer
<1>5. QED
  BY <1>2, <1>3, <1>4 DEF Handled

\* item n of the flow of the newest packet
Compared(B, b, c, i, k, n, item) ==
  /\ Arrived(B, b, c, i) /\ k = FlowKey(B[i]) /\ B[i].plain
  /\ k \in DOMAIN itemsByFlow /\ n \in DOMAIN itemsByFlow[k] /\ item = itemsByFlow[k][n]

\* The item that a packet of the flow is compared with, and its buffer.
LEMMA ItemTarget ==
  ASSUME NEW B, NEW b, NEW c, NEW i, NEW k, NEW n, NEW item, Compared(B, b, c, i, k, n, item)
  PROVE  /\ item.bufsIndex \in DOMAIN c /\ item.bufsIndex \in DOMAIN b /\ item.bufsIndex # i
         /\ tunBufs[item.bufsIndex] = b[item.bufsIndex]
         /\ b[item.bufsIndex].pkt.proto = B[i].proto /\ b[item.bufsIndex].pkt.flow = B[i].flow
         /\ b[item.bufsIndex].pkt.plain = B[i].plain
         /\ B[i].proto = "udp" => b[item.bufsIndex].pkt.opts = B[i].opts
<1>0. /\ Arrived(B, b, c, i) /\ k = FlowKey(B[i]) /\ B[i].plain
      /\ k \in DOMAIN itemsByFlow /\ n \in DOMAIN itemsByFlow[k] /\ item = itemsByFlow[k][n]
  BY DEF Compared
<1>1. ChainTypes(B, b, itemsByFlow, c) /\ ItemOK(B, b, c, k, item) /\ Fresh(B, c, i) /\ Batched(B)
  BY <1>0 DEF Arrived, GroInv, ItemsOK, ChainTypes
<1>2. PICK at, pkt : at = item.bufsIndex /\ pkt = b[at].pkt
  OBVIOUS
<1>3. at \in DOMAIN c /\ c[at] # <<>> /\ k = FlowKey(pkt) /\ pkt.plain /\ Stands(B, c[at], pkt, item.gsoSize)
  BY <1>1, <1>2 DEF ItemOK
<1>4. at < i /\ at # i /\ b[at] = tunBufs[at]
  <2>1. at < i
    BY <1>1, <1>3 DEF Fresh
  <2>2. at # i
    BY <1>1, <1>3 DEF Fresh
  <2> QED BY <1>0, <1>3, <2>1, <2>2 DEF Arrived
<1>5. DOMAIN c = DOMAIN b
  BY <1>1 DEF ChainTypes
<1>6. pkt.proto = B[i].proto /\ pkt.flow = B[i].flow
  <2>1. <<pkt.proto, pkt.flow>> = <<B[i].proto, B[i].flow>>
    BY <1>0, <1>3 DEF FlowKey
  <2> QED BY <2>1
<1>7. B[i].plain \in BOOLEAN /\ pkt.plain \in BOOLEAN
  <2>1. B[i] \in TunPackets /\ b[at] \in TunBuffers
    BY <1>1, <1>3, <1>5 DEF ChainTypes, Batched, Fresh
  <2> QED BY <1>2, <2>1 DEF TunBuffers, TunPackets
<1>8. ASSUME B[i].proto = "udp" PROVE pkt.opts = B[i].opts
  <2>1. c[at] \in Seq(DOMAIN B) /\ 1 \in DOMAIN c[at]
    <3>1. c[at] \in Seq(DOMAIN B)
      BY <1>1, <1>3 DEF ChainTypes
    <3>2. PICK ch \in Seq(DOMAIN B) : ch = c[at] /\ ch # <<>>
      BY <1>3, <3>1
    <3>3. 1 \in DOMAIN ch
      BY ONLY <3>2
    <3> QED BY <3>1, <3>2, <3>3
  <2>2. SameHeader(B[c[at][1]], pkt) /\ c[at][1] \in DOMAIN B
    BY <1>3, <2>1 DEF Stands
  <2>3. B[c[at][1]].opts = 0
    BY <1>1, <1>6, <1>8, <2>2 DEF Batched, SameHeader
  <2>4. B[i].opts = 0
    BY <1>1, <1>8 DEF Batched, Fresh
  <2> QED BY <2>2, <2>3, <2>4 DEF SameHeader
<1>9. QED
  BY <1>0, <1>2, <1>3, <1>4, <1>5, <1>6, <1>7, <1>8

\* A datagram that udpGRO considers.
LEMMA UdpStep ==
  ASSUME NEW B, NEW b, NEW c, NEW i, Arrived(B, b, c, i), vnetHdr, udpGSO,
         B[i].proto = "udp", B[i].plain, B[i].data # <<>>, udpGRO(i, b)
  PROVE  Handled(B)
<1>1. PICK p, k, s : p = B[i] /\ p = b[i].pkt /\ k = FlowKey(p) /\ s = ItemsAt(itemsByFlow, k) /\ s = Items(k)
  BY DEF Arrived, Items, ItemsAt
<1>2. GroInv(B, b, itemsByFlow, c, vnetHdr, udpGSO) /\ ChainTypes(B, b, itemsByFlow, c) /\ Fresh(B, c, i)
  BY DEF Arrived, GroInv
<1>3. PICK I : I = itemsByFlow
  OBVIOUS
<1>4. s \in Seq(ItemRecords) /\ \A n \in DOMAIN s : k \in DOMAIN I /\ s = I[k]
  <2>1. I \in [DOMAIN I -> Seq(ItemRecords)]
    BY <1>2, <1>3 DEF ChainTypes
  <2>2. s = ItemsAt(I, k)
    BY <1>1, <1>3
  <2> QED BY <2>1, <2>2, ItemsAtType
<1>5. PICK can, result :
        /\ can = (s # <<>> /\ udpPacketsCanCoalesce(p, Last(s)) = "append")
        /\ result = IF can THEN coalesceResult(p, Last(s)) ELSE "unavailable"
  OBVIOUS
<1>6. IF result = "success"
      THEN coalescePackets("append", i, b, k, s, Len(s)) /\ UNCHANGED toWrite
      ELSE udpInsert(i, b, k, s, result)
  <2> DEFINE pp == b[i].pkt
             ss == Items(FlowKey(pp))
             cc == ss # <<>> /\ udpPacketsCanCoalesce(pp, Last(ss)) = "append"
             rr == IF cc THEN coalesceResult(pp, Last(ss)) ELSE "unavailable"
  <2>1. IF rr = "success"
        THEN coalescePackets("append", i, b, FlowKey(pp), ss, Len(ss)) /\ UNCHANGED toWrite
        ELSE udpInsert(i, b, FlowKey(pp), ss, rr)
    BY DEF udpGRO
  <2>2. pp = p /\ ss = s
    BY <1>1
  <2>3. cc = can
    BY <1>5, <2>2
  <2>4. rr = result
    BY <1>5, <2>2, <2>3
  <2> HIDE DEF pp, ss, rr
  <2> QED BY <1>1, <2>1, <2>2, <2>4
<1>7. CASE result # "success"
  <2>1. SetItems(k, Append(s, NewItem(p, i, result = "pktInvalidCSum"))) /\ toWrite' = Append(toWrite, i) /\ tunBufs' = b
    BY <1>1, <1>6, <1>7 DEF udpInsert, Insert
  <2>2. PICK x \in BOOLEAN : x = (result = "pktInvalidCSum")
    OBVIOUS
  <2>3. itemsByFlow' = With(I, k, Append(ItemsAt(I, k), NewItem(B[i], i, x)))
    <3>1. itemsByFlow' = With(itemsByFlow, k, Append(s, NewItem(p, i, result = "pktInvalidCSum")))
      BY <2>1, SetItemsIs
    <3> QED BY <1>1, <1>3, <2>2, <3>1, Zenon
  <2>4. B[i].proto \in Protos /\ k = FlowKey(B[i]) /\ b[i].pkt = B[i] /\ GroInv(B, b, I, c, vnetHdr, udpGSO)
    BY <1>1, <1>2, <1>3 DEF Protos
  <2> QED BY <2>1, <2>3, <2>4, InsertStep
<1>8. CASE result = "success"
  <2>0. "success" # "unavailable"
    OBVIOUS
  <2>1. can /\ coalesceResult(p, Last(s)) = "success"
    BY <1>5, <1>8, <2>0
  <2>2. PICK n : n = Len(s) /\ n \in DOMAIN s /\ Last(s) = s[n]
    <3>1. s # <<>>
      BY <1>5, <2>1
    <3>2. Len(s) \in DOMAIN s
      BY <1>4, <3>1
    <3> QED BY <3>2 DEF Last
  <2>3. k \in DOMAIN I /\ s = I[k] /\ n \in DOMAIN I[k]
    BY <1>4, <2>2
  <2>4. PICK item, at : item = I[k][n] /\ at = item.bufsIndex
    OBVIOUS
  <2>5. /\ tunBufs[at] = b[at] /\ b[at].pkt.proto = B[i].proto /\ b[at].pkt.flow = B[i].flow
        /\ b[at].pkt.plain = B[i].plain /\ b[at].pkt.opts = B[i].opts
    <3>1. Compared(B, b, c, i, k, n, item)
      BY <1>1, <1>3, <2>3, <2>4 DEF Compared
    <3>2. /\ tunBufs[item.bufsIndex] = b[item.bufsIndex]
          /\ b[item.bufsIndex].pkt.proto = B[i].proto /\ b[item.bufsIndex].pkt.flow = B[i].flow
          /\ b[item.bufsIndex].pkt.plain = B[i].plain
          /\ B[i].proto = "udp" => b[item.bufsIndex].pkt.opts = B[i].opts
      BY ONLY <3>1, ItemTarget
    <3> QED BY <2>4, <3>2
  <2>6. PICK pkt : pkt = b[at].pkt
    OBVIOUS
  <2>7. p.tos = pkt.tos /\ Len(pkt.data) % item.gsoSize = 0 /\ Len(p.data) <= item.gsoSize
    <3>1. udpPacketsCanCoalesce(p, item) = "append"
      BY <1>5, <2>1, <2>2, <2>3, <2>4
    <3>2. "unavailable" # "append"
      OBVIOUS
    <3> QED BY <2>4, <2>5, <2>6, <3>1, <3>2 DEF udpPacketsCanCoalesce, ipHeadersCanCoalesce
  <2>8. (item.numMerged = 0 => pkt.csum) /\ p.csum
    <3>1. coalesceResult(p, item) = "success"
      BY <2>1, <2>2, <2>3, <2>4
    <3>2. "insufficientCap" # "success" /\ "itemInvalidCSum" # "success" /\ "pktInvalidCSum" # "success"
      OBVIOUS
    <3> QED BY <2>4, <2>5, <2>6, <3>1, <3>2 DEF coalesceResult
  <2>9. FitsAfter(B, i, pkt, item)
    <3>1. Alike(B, i, pkt, item)
      BY <1>1, <2>5, <2>6, <2>7, <2>8 DEF Alike, SameHeader, Protos
    <3> QED BY <1>1, <2>7, <3>1 DEF FitsAfter
  <2>10. Meets(B, b, I, c, vnetHdr, udpGSO, i, k, n)
    BY <1>1, <1>2, <1>3, <2>3 DEF Meets
  <2>11. PICK e, ch : JoinsAt(B, b, I, c, vnetHdr, udpGSO, i, k, n, "append", e, ch)
    <3>1. FitsAfter(B, i, b[I[k][n].bufsIndex].pkt, I[k][n]) /\ n = Len(I[k])
      BY <2>2, <2>3, <2>4, <2>6, <2>9
    <3> QED BY <2>10, <3>1, GroAppend
  <2>12. coalescePackets("append", i, b, k, s, n) /\ UNCHANGED toWrite
    BY <1>6, <1>8, <2>2
  <2>13. /\ SetItems(k, [s EXCEPT ![n] = MergedItem("append", b[i].pkt, s[n])])
         /\ tunBufs' = MergedBufs("append", b, i, s[n].bufsIndex)
    BY <2>12, CoalesceIs
  <2>14. itemsByFlow' = With(I, k, [I[k] EXCEPT ![n] = MergedItem("append", B[i], I[k][n])])
    BY <1>1, <1>3, <2>3, <2>13, SetItemsIs
  <2> QED BY <2>3, <2>10, <2>11, <2>12, <2>13, <2>14, JoinStep
<1>9. QED
  BY <1>7, <1>8

\* The last of two stores for a flow counts.
LEMMA WithAgain ==
  ASSUME NEW I, NEW k, NEW s, NEW t
  PROVE  With(With(I, k, s), k, t) = With(I, k, t) /\ ItemsAt(With(I, k, s), k) = s
<1>1. DOMAIN With(I, k, s) = DOMAIN I \cup {k} /\ With(I, k, s)[k] = s /\ \A j \in DOMAIN I : j # k => With(I, k, s)[j] = I[j]
  BY DEF With
<1>2. PICK J : J = With(I, k, s)
  OBVIOUS
<1>3. DOMAIN J \cup {k} = DOMAIN I \cup {k} /\ k \in DOMAIN J
  BY <1>1, <1>2
<1>4. With(J, k, t) = With(I, k, t)
  <2>1. \A j \in DOMAIN I \cup {k} : (IF j = k THEN t ELSE J[j]) = (IF j = k THEN t ELSE I[j])
    BY <1>1, <1>2
  <2> QED BY <1>3, <2>1 DEF With
<1>5. QED
  BY <1>1, <1>2, <1>3, <1>4 DEF ItemsAt

\* what tcpGRO finds when it compares the packet with an item
TcpResult(p, item) ==
  IF tcpPacketsCanCoalesce(p, item) = "unavailable" THEN "unavailable" ELSE coalesceResult(p, item)

TcpEnds(p, s) == {n \in DOMAIN s : TcpResult(p, s[n]) \in {"success", "pktInvalidCSum"}}

TcpEnd(p, s) == IF TcpEnds(p, s) = {} THEN 0
                ELSE CHOOSE n \in TcpEnds(p, s) : \A m \in TcpEnds(p, s) : m <= n

TcpDeleted(p, s) == {n \in DOMAIN s : n > TcpEnd(p, s) /\ TcpResult(p, s[n]) = "itemInvalidCSum"}

\* the three ends of tcpGRO
TcpCases(p, i, b, k, s, end, D) ==
  \/ /\ end = 0
     /\ Insert(i, b, k, deleteAt(s, D), FALSE) /\ tunBufs' = clear(b, ToClear(s, D))
  \/ /\ end # 0 /\ TcpResult(p, s[end]) = "success"
     /\ coalescePackets(tcpPacketsCanCoalesce(p, s[end]), i, clear(b, ToClear(s, D)), k, deleteAt(s, D), end)
     /\ UNCHANGED toWrite
  \/ /\ end # 0 /\ TcpResult(p, s[end]) # "success"
     /\ SetItems(k, deleteAt(s, D))
     /\ tunBufs' = clear(b, ToClear(s, D) \cup {i})
     /\ toWrite' = Append(toWrite, i)

\* tcpGRO in these terms.
LEMMA TcpIs ==
  ASSUME NEW i, NEW b, tcpGRO(i, b), NEW p, p = b[i].pkt, NEW k, k = FlowKey(p), NEW s, s = Items(k)
  PROVE  TcpCases(p, i, b, k, s, TcpEnd(p, s), TcpDeleted(p, s))
<1> DEFINE q == b[i].pkt
           l == FlowKey(q)
           t == Items(l)
           en == TcpEnd(q, t)
           de == TcpDeleted(q, t)
<1>1. (CASE en = 0 ->
             Insert(i, b, l, deleteAt(t, de), FALSE) /\ tunBufs' = clear(b, ToClear(t, de))
        [] en # 0 /\ TcpResult(q, t[en]) = "success" ->
             /\ coalescePackets(tcpPacketsCanCoalesce(q, t[en]), i, clear(b, ToClear(t, de)), l, deleteAt(t, de), en)
             /\ UNCHANGED toWrite
        [] OTHER ->
             /\ SetItems(l, deleteAt(t, de))
             /\ tunBufs' = clear(b, ToClear(t, de) \cup {i})
             /\ toWrite' = Append(toWrite, i))
  BY DEF tcpGRO, TcpEnd, TcpDeleted, TcpEnds, TcpResult
<1>2. q = p /\ l = k /\ t = s
  OBVIOUS
<1>3. en = TcpEnd(p, s) /\ de = TcpDeleted(p, s)
  BY <1>2
<1> HIDE DEF q, l, t, en, de
<1>4. TcpCases(q, i, b, l, t, en, de)
  BY <1>1 DEF TcpCases
<1>5. QED
  BY <1>2, <1>3, <1>4

\* The place where tcpGRO stops is the last of those where it can.
LEMMA TcpEndIs ==
  ASSUME NEW p, NEW s \in Seq(ItemRecords)
  PROVE  \/ TcpEnd(p, s) = 0
         \/ TcpEnd(p, s) \in DOMAIN s /\ TcpEnd(p, s) \in TcpEnds(p, s) /\ TcpEnd(p, s) # 0
<1>1. PICK N, S : N \in Nat /\ N = Len(s) /\ DOMAIN s = 1..N /\ S = TcpEnds(p, s)
  OBVIOUS
<1>2. S \in SUBSET (1..N)
  BY <1>1 DEF TcpEnds
<1>3. CASE S = {}
  BY <1>1, <1>3 DEF TcpEnd
<1>4. CASE S # {}
  <2>1. \E n \in S : \A m \in S : m <= n
    BY <1>1, <1>2, <1>4, GreatestMember
  <2>2. TcpEnd(p, s) = CHOOSE n \in S : \A m \in S : m <= n
    BY <1>1, <1>4 DEF TcpEnd
  <2>3. TcpEnd(p, s) \in S
    BY <2>1, <2>2
  <2> QED BY <1>1, <1>2, <2>3
<1>5. QED
  BY <1>3, <1>4

\* What tcpGRO knows of an item it can join.
LEMMA TcpFits ==
  ASSUME NEW B, NEW b, NEW c, NEW i, NEW k, NEW n, NEW item, Compared(B, b, c, i, k, n, item),
         B[i].proto = "tcp", B[i].data # <<>>, TcpResult(B[i], item) = "success"
  PROVE  \/ /\ tcpPacketsCanCoalesce(B[i], item) = "append"
            /\ FitsAfter(B, i, b[item.bufsIndex].pkt, item)
         \/ /\ tcpPacketsCanCoalesce(B[i], item) = "prepend"
            /\ FitsBefore(B, i, b[item.bufsIndex].pkt, item)
<1>1. PICK p, pkt : p = B[i] /\ pkt = b[item.bufsIndex].pkt
  OBVIOUS
<1>2. /\ tunBufs[item.bufsIndex] = b[item.bufsIndex]
      /\ pkt.proto = p.proto /\ pkt.flow = p.flow /\ pkt.plain = p.plain
  BY <1>1, ItemTarget
<1>3. tunBufs[item.bufsIndex].pkt = pkt
  BY <1>1, <1>2
<1>4. "insufficientCap" # "success" /\ "itemInvalidCSum" # "success" /\ "pktInvalidCSum" # "success"
      /\ "unavailable" # "success" /\ "append" # "unavailable" /\ "prepend" # "unavailable"
  OBVIOUS
<1>5. tcpPacketsCanCoalesce(p, item) # "unavailable" /\ coalesceResult(p, item) = "success"
  BY <1>1, <1>4 DEF TcpResult
<1>6. (item.numMerged = 0 => pkt.csum) /\ p.csum
  BY <1>3, <1>4, <1>5 DEF coalesceResult
<1>7. p.opts = pkt.opts /\ p.tos = pkt.tos
  BY <1>3, <1>5 DEF tcpPacketsCanCoalesce, ipHeadersCanCoalesce
<1>8. Alike(B, i, pkt, item)
  BY <1>1, <1>2, <1>6, <1>7 DEF Alike, SameHeader, Protos
<1>9. \/ /\ tcpPacketsCanCoalesce(p, item) = "append"
         /\ p.seq = (item.sentSeq + (item.gsoSize + item.numMerged * item.gsoSize)) % SeqSpace
         /\ ~ item.pshSet /\ Len(pkt.data) % item.gsoSize = 0 /\ Len(p.data) <= item.gsoSize
      \/ /\ tcpPacketsCanCoalesce(p, item) = "prepend"
         /\ (p.seq + Len(p.data)) % SeqSpace = item.sentSeq
         /\ ~ p.psh /\ Len(p.data) >= item.gsoSize
         /\ Len(p.data) > item.gsoSize => item.numMerged = 0
  BY <1>3, <1>5 DEF tcpPacketsCanCoalesce
<1>10. QED
  BY <1>1, <1>8, <1>9 DEF FitsAfter, FitsBefore

\* A segment that tcpGRO considers.
LEMMA TcpStep ==
  ASSUME NEW B, NEW b, NEW c, NEW i, Arrived(B, b, c, i), vnetHdr,
         B[i].proto = "tcp", B[i].plain, B[i].data # <<>>, tcpGRO(i, b)
  PROVE  Handled(B)
<1>1. PICK p, k, s : p = B[i] /\ p = b[i].pkt /\ k = FlowKey(p) /\ s = ItemsAt(itemsByFlow, k) /\ s = Items(k)
  BY DEF Arrived, Items, ItemsAt
<1>2. GroInv(B, b, itemsByFlow, c, vnetHdr, udpGSO) /\ ChainTypes(B, b, itemsByFlow, c) /\ Fresh(B, c, i)
  BY DEF Arrived, GroInv
<1>3. PICK I : I = itemsByFlow
  OBVIOUS
<1>4. s \in Seq(ItemRecords) /\ \A n \in DOMAIN s : k \in DOMAIN I /\ s = I[k]
  <2>1. I \in [DOMAIN I -> Seq(ItemRecords)]
    BY <1>2, <1>3 DEF ChainTypes
  <2>2. s = ItemsAt(I, k)
    BY <1>1, <1>3
  <2> QED BY <2>1, <2>2, ItemsAtType
<1>5. PICK end, D : end = TcpEnd(p, s) /\ D = TcpDeleted(p, s)
  OBVIOUS
<1>6. TcpCases(p, i, b, k, s, end, D)
  BY <1>1, <1>5, TcpIs
<1>7. k[1] = "tcp"
  BY <1>1 DEF FlowKey
<1>8. D \in SUBSET DOMAIN s /\ \A n \in D : n > end /\ s[n].numMerged = 0
  <2>1. \A n \in D : n \in DOMAIN s /\ n > end /\ TcpResult(p, s[n]) = "itemInvalidCSum"
    BY <1>5 DEF TcpDeleted
  <2>2. "itemInvalidCSum" # "unavailable" /\ "itemInvalidCSum" # "insufficientCap"
        /\ "itemInvalidCSum" # "pktInvalidCSum" /\ "itemInvalidCSum" # "success"
    OBVIOUS
  <2>3. ASSUME NEW n \in D PROVE s[n].numMerged = 0
    <3>1. PICK it : it = s[n]
      OBVIOUS
    <3>2. TcpResult(p, it) = "itemInvalidCSum"
      BY <2>1, <3>1
    <3>3. coalesceResult(p, it) = "itemInvalidCSum"
      BY <2>2, <3>2 DEF TcpResult
    <3>4. it.numMerged = 0
      BY <2>2, <3>3 DEF coalesceResult
    <3> QED BY <3>1, <3>4
  <2> QED BY <2>1, <2>3
<1>9. PICK left \in Seq(ItemRecords) : left = deleteAt(s, D) /\ Remaining(s, D, left)
  BY <1>4, <1>8, DeleteAtLeaves
<1>10. PICK T, J : T = clear(b, ToClear(s, D)) /\ J = With(I, k, left)
  OBVIOUS
<1>11. GroInv(B, T, J, c, vnetHdr, udpGSO)
  <2>1. GroInv(B, b, I, c, vnetHdr, udpGSO) /\ s = ItemsAt(I, k)
    BY <1>1, <1>2, <1>3
  <2>2. GroInv(B, clear(b, ToClear(s, D)), With(I, k, deleteAt(s, D)), c, vnetHdr, udpGSO)
    BY <1>7, <1>8, <2>1, GroDrop
  <2> QED BY <1>9, <1>10, <2>2
<1>12. b \in Seq(TunBuffers) /\ i \in DOMAIN b /\ DOMAIN c = DOMAIN b
  BY <1>2 DEF ChainTypes, Fresh, Batched
<1>13. /\ T \in Seq(TunBuffers) /\ Len(T) = Len(b)
       /\ \A j \in DOMAIN b : /\ T[j].pkt = b[j].pkt
                              /\ j \in ToClear(s, D) => T[j].hdr = ZeroHdr
                              /\ j \notin ToClear(s, D) => T[j] = b[j]
  BY <1>10, <1>12, ClearShape
<1>14. T[i].pkt = B[i]
  BY <1>1, <1>12, <1>13
<1>15. /\ ItemsAt(J, k) = left /\ \A t : With(J, k, t) = With(I, k, t)
       /\ k \in DOMAIN J /\ J[k] = left
  <2>1. \A t : With(With(I, k, left), k, t) = With(I, k, t) /\ ItemsAt(With(I, k, left), k) = left
    BY WithAgain
  <2>2. k \in DOMAIN With(I, k, left) /\ With(I, k, left)[k] = left
    BY DEF With
  <2> QED BY <1>10, <2>1, <2>2
<1>16. CASE end = 0 /\ Insert(i, b, k, deleteAt(s, D), FALSE) /\ tunBufs' = clear(b, ToClear(s, D))
  <2>1. SetItems(k, Append(left, NewItem(B[i], i, FALSE))) /\ toWrite' = Append(toWrite, i) /\ tunBufs' = T
    BY <1>1, <1>9, <1>10, <1>16 DEF Insert
  <2>2. itemsByFlow' = With(J, k, Append(ItemsAt(J, k), NewItem(B[i], i, FALSE)))
    BY <1>3, <1>15, <2>1, SetItemsIs
  <2>3. B[i].proto \in Protos /\ k = FlowKey(B[i]) /\ FALSE \in BOOLEAN
    BY <1>1 DEF Protos
  <2> QED BY <1>11, <1>14, <2>1, <2>2, <2>3, InsertStep
<1>17. CASE /\ end # 0 /\ TcpResult(p, s[end]) = "success"
            /\ coalescePackets(tcpPacketsCanCoalesce(p, s[end]), i, clear(b, ToClear(s, D)), k, deleteAt(s, D), end)
            /\ UNCHANGED toWrite
  <2>1. end \in DOMAIN s /\ end \in DOMAIN left /\ left[end] = s[end]
    <3>1. end \in DOMAIN s
      BY <1>4, <1>5, <1>17, TcpEndIs
    <3> QED BY <1>8, <1>9, <3>1 DEF Remaining
  <2>2. PICK item : item = s[end] /\ item = left[end] /\ item = I[k][end] /\ k \in DOMAIN I /\ end \in DOMAIN I[k]
    BY <1>4, <2>1
  <2>3. Compared(B, b, c, i, k, end, item)
    BY <1>1, <1>3, <2>2 DEF Compared
  <2>4. \/ tcpPacketsCanCoalesce(p, item) = "append" /\ FitsAfter(B, i, b[item.bufsIndex].pkt, item)
        \/ tcpPacketsCanCoalesce(p, item) = "prepend" /\ FitsBefore(B, i, b[item.bufsIndex].pkt, item)
    <3>1. TcpResult(B[i], item) = "success"
      BY <1>1, <1>17, <2>2
    <3>2. B[i].proto = "tcp" /\ B[i].data # <<>>
      OBVIOUS
    <3>3. \/ tcpPacketsCanCoalesce(B[i], item) = "append" /\ FitsAfter(B, i, b[item.bufsIndex].pkt, item)
          \/ tcpPacketsCanCoalesce(B[i], item) = "prepend" /\ FitsBefore(B, i, b[item.bufsIndex].pkt, item)
      BY ONLY <2>3, <3>1, <3>2, TcpFits
    <3> QED BY <1>1, <3>3
  <2>5. b[item.bufsIndex].pkt = T[item.bufsIndex].pkt
    <3>1. item.bufsIndex \in DOMAIN b
      BY <2>3, ItemTarget
    <3> QED BY <1>13, <3>1
  <2>6. Meets(B, T, J, c, vnetHdr, udpGSO, i, k, end) /\ item = J[k][end]
    BY <1>2, <1>11, <1>14, <1>15, <2>1, <2>2 DEF Meets
  <2>7. PICK mode : mode = tcpPacketsCanCoalesce(p, item)
    OBVIOUS
  <2>8. \E e, ch : JoinsAt(B, T, J, c, vnetHdr, udpGSO, i, k, end, mode, e, ch)
    <3>1. CASE mode = "append" /\ FitsAfter(B, i, T[J[k][end].bufsIndex].pkt, J[k][end])
      BY <1>7, <2>6, <3>1, GroAppend
    <3>2. CASE mode = "prepend" /\ FitsBefore(B, i, T[J[k][end].bufsIndex].pkt, J[k][end])
      BY <1>7, <2>6, <3>2, GroPrepend
    <3> QED BY <2>4, <2>5, <2>6, <2>7, <3>1, <3>2
  <2>9. PICK e, ch : JoinsAt(B, T, J, c, vnetHdr, udpGSO, i, k, end, mode, e, ch)
    BY <2>8
  <2>10. coalescePackets(mode, i, T, k, left, end)
    BY <1>9, <1>10, <1>17, <2>2, <2>7
  <2>11. /\ SetItems(k, [left EXCEPT ![end] = MergedItem(mode, T[i].pkt, left[end])])
         /\ tunBufs' = MergedBufs(mode, T, i, left[end].bufsIndex)
    BY <2>10, CoalesceIs
  <2>12. itemsByFlow' = With(J, k, [J[k] EXCEPT ![end] = MergedItem(mode, B[i], J[k][end])])
    <3>1. itemsByFlow' = With(itemsByFlow, k, [left EXCEPT ![end] = MergedItem(mode, T[i].pkt, left[end])])
      BY <2>11, SetItemsIs
    <3> QED BY <1>3, <1>14, <1>15, <3>1
  <2>13. tunBufs' = MergedBufs(mode, T, i, J[k][end].bufsIndex) /\ UNCHANGED toWrite
    BY <1>15, <1>17, <2>11
  <2> QED BY <2>6, <2>9, <2>12, <2>13, JoinStep
<1>18. CASE /\ SetItems(k, deleteAt(s, D))
            /\ tunBufs' = clear(b, ToClear(s, D) \cup {i})
            /\ toWrite' = Append(toWrite, i)
  <2>1. PICK U : U = clear(b, ToClear(s, D) \cup {i})
    OBVIOUS
  <2>2. /\ U \in Seq(TunBuffers) /\ Len(U) = Len(b)
        /\ \A j \in DOMAIN b : /\ U[j].pkt = b[j].pkt
                               /\ j \in ToClear(s, D) \cup {i} => U[j].hdr = ZeroHdr
                               /\ j \notin ToClear(s, D) \cup {i} => U[j] = b[j]
    BY <1>12, <2>1, ClearShape
  <2>3. \A j \in DOMAIN T \ {i} : U[j] = T[j]
    <3> SUFFICES ASSUME NEW j \in DOMAIN b, j # i PROVE U[j] = T[j]
      BY <1>12, <1>13, SMTT(30)
    <3>1. CASE j \in ToClear(s, D)
      <4>1. U[j] \in TunBuffers /\ T[j] \in TunBuffers
        BY <1>12, <1>13, <2>2
      <4>2. PICK x \in TunBuffers, y \in TunBuffers : x = U[j] /\ y = T[j] /\ x.pkt = y.pkt /\ x.hdr = y.hdr
        BY <1>13, <2>2, <3>1, <4>1
      <4>3. x = y
        BY ONLY <4>2, x \in TunBuffers, y \in TunBuffers DEF TunBuffers
      <4> QED BY <4>2, <4>3
    <3>2. CASE j \notin ToClear(s, D)
      BY <1>13, <2>2, <3>2
    <3> QED BY <3>1, <3>2
  <2>4. /\ U \in Seq(TunBuffers) /\ Len(U) = Len(T) /\ U[i].pkt = B[i] /\ U[i].hdr = ZeroHdr
    BY <1>1, <1>12, <1>13, <2>2
  <2>5. ~ (udpGSO /\ Considered(B[i]))
    BY DEF Considered
  <2>6. GroInv(B, U, J, [c EXCEPT ![i] = <<i>>], vnetHdr, udpGSO)
    BY <1>2, <1>11, <2>3, <2>4, <2>5, GroNoop
  <2>7. itemsByFlow' = J
    BY <1>3, <1>9, <1>10, <1>18, SetItemsIs
  <2>8. PICK w : w = toWrite /\ Lined(w, c) /\ Placed(c, DOMAIN B \ {i})
    BY DEF Arrived
  <2>9. /\ Lined(Append(w, i), [c EXCEPT ![i] = <<i>>])
        /\ Placed([c EXCEPT ![i] = <<i>>], DOMAIN B)
    BY <1>2, <2>8, OwnBuffer
  <2> QED BY <1>18, <2>1, <2>6, <2>7, <2>8, <2>9 DEF Handled
<1>19. QED
  BY <1>6, <1>16, <1>17, <1>18 DEF TcpCases

\* the packets so far have their places (handleGRO)
GroPhase(c) ==
  /\ GroInv(batch, tunBufs, itemsByFlow, c, vnetHdr, udpGSO)
  /\ Placed(c, DOMAIN batch) /\ Lined(toWrite, c)

\* the packet p as number i of the batch, with its tokens
Numbered(p, i) == [p EXCEPT !.data = [j \in 1..p.data |-> <<i, j>>]]

\* It is a packet.
LEMMA NumberedType ==
  ASSUME NEW p \in TunPacket, NEW i \in Nat, NEW q, q = Numbered(p, i)
  PROVE  /\ q \in TunPackets /\ (q.data # <<>> => q.data[1] = <<i, 1>>)
         /\ q.proto = "udp" => q.seq = 0 /\ ~ q.psh /\ q.opts = 0
<1>1. /\ p = [proto |-> p.proto, flow |-> p.flow, seq |-> p.seq, data |-> p.data, psh |-> p.psh,
              csum |-> p.csum, tos |-> p.tos, opts |-> p.opts, plain |-> p.plain]
      /\ p.seq \in 0..SeqSpace - 1 /\ p.data \in Nat
      /\ {p.psh, p.csum, p.plain} \subseteq BOOLEAN
      /\ p.proto = "udp" => p.seq = 0 /\ ~ p.psh /\ p.opts = 0
  BY TunPacketAssumption
<1>2. PICK n, d : n \in Nat /\ n = p.data /\ d = [j \in 1..n |-> <<i, j>>]
  BY <1>1
<1>3. d \in Seq(TunTokens) /\ (d # <<>> => d[1] = <<i, 1>>)
  <2>1. \A j \in 1..n : <<i, j>> \in TunTokens
    BY DEF TunTokens
  <2>2. d \in Seq(TunTokens)
    BY <1>2, <2>1
  <2>3. d # <<>> => 1 \in 1..n
    <3>1. CASE n = 0
      BY <1>2, <3>1
    <3> QED BY <1>2, <3>1
  <2> QED BY <1>2, <2>2, <2>3
<1>4. q = [p EXCEPT !.data = d]
  BY <1>2 DEF Numbered
<1>5. q = [proto |-> p.proto, flow |-> p.flow, seq |-> p.seq, data |-> d, psh |-> p.psh,
           csum |-> p.csum, tos |-> p.tos, opts |-> p.opts, plain |-> p.plain]
  BY <1>1, <1>4
<1>6. /\ q.proto = p.proto /\ q.seq = p.seq /\ q.psh = p.psh /\ q.opts = p.opts /\ q.data = d
  BY ONLY <1>5
<1>7. q \in TunPackets
  <2>1. /\ p.proto \in {r.proto : r \in TunPacket} /\ p.flow \in {r.flow : r \in TunPacket}
        /\ p.tos \in {r.tos : r \in TunPacket} /\ p.opts \in {r.opts : r \in TunPacket}
    OBVIOUS
  <2>2. p.psh \in BOOLEAN /\ p.csum \in BOOLEAN /\ p.plain \in BOOLEAN
    BY <1>1
  <2> QED BY <1>1, <1>3, <1>5, <2>1, <2>2 DEF TunPackets
<1>8. QED
  BY <1>1, <1>3, <1>6, <1>7

\* Without its newest packet the batch is as it was.
LEMMA ArrivedIs ==
  ASSUME NEW c, GroPhase(c), NEW i, i = Len(batch) + 1, NEW q \in TunPackets, q.data # <<>> => q.data[1] = <<i, 1>>,
         q.proto = "udp" => q.seq = 0 /\ ~ q.psh /\ q.opts = 0
  PROVE  /\ Arrived(Append(batch, q), Append(tunBufs, [pkt |-> q, hdr |-> Stale]), Append(c, <<>>), i)
         /\ Append(batch, q)[i] = q
<1>1. PICK B, T, I, v, u, w : B = batch /\ T = tunBufs /\ I = itemsByFlow /\ v = vnetHdr /\ u = udpGSO /\ w = toWrite
  OBVIOUS
<1>2. GroInv(B, T, I, c, v, u) /\ Placed(c, DOMAIN B) /\ Lined(w, c) /\ ChainTypes(B, T, I, c)
  BY <1>1 DEF GroPhase, GroInv
<1>3. PICK N \in Nat : /\ N = Len(B) /\ N = Len(T) /\ N = Len(c) /\ i = N + 1
                       /\ B \in Seq(TunPackets) /\ T \in Seq(TunBuffers) /\ c \in Seq(Seq(DOMAIN B))
                       /\ DOMAIN B = 1..N /\ DOMAIN c = 1..N /\ DOMAIN T = 1..N
  BY <1>1, <1>2 DEF ChainTypes, Batched
<1>4. PICK x \in TunBuffers : x = [pkt |-> q, hdr |-> Stale] /\ x.pkt = q
  <2>1. Stale \in Headers
    BY DEF Headers, Stale
  <2>2. PICK h \in Headers : h = Stale
    BY <2>1
  <2>3. [pkt |-> q, hdr |-> h] \in TunBuffers /\ [pkt |-> q, hdr |-> h].pkt = q
    BY DEF TunBuffers
  <2> QED BY <2>2, <2>3
<1>5. PICK X, Y, d : X = Append(B, q) /\ Y = Append(T, x) /\ d = Append(c, <<>>)
  OBVIOUS
<1>6. DOMAIN X = 1..(N + 1) /\ X[i] = q
  <2>1. OneMore(B, q, X)
    BY <1>3, <1>5, AppendShape
  <2> QED BY <1>3, <2>1 DEF OneMore
<1>7. Y[i] = x /\ \A j \in 1..N : Y[j] = T[j]
  <2>1. OneMore(T, x, Y)
    BY <1>3, <1>5, AppendShape
  <2> QED BY <1>3, <2>1 DEF OneMore
<1>8. DOMAIN d = 1..(N + 1) /\ d[i] = <<>> /\ \A j \in 1..N : d[j] = c[j]
  <2>1. <<>> \in Seq(DOMAIN B)
    OBVIOUS
  <2>2. OneMore(c, <<>>, d)
    <3>1. PICK S : S = Seq(DOMAIN B)
      OBVIOUS
    <3>2. c \in Seq(S) /\ <<>> \in S
      BY <1>3, <2>1, <3>1
    <3> QED BY <1>5, <3>2, AppendShape
  <2> QED BY <1>3, <2>2 DEF OneMore
<1>9. GroInv(X, Y, I, d, v, u)
  BY <1>1, <1>2, <1>3, <1>4, <1>5, GroExtend
<1>10. Fresh(X, d, i)
  BY <1>1, <1>2, <1>5, ExtendedFresh
<1>11. Placed(d, DOMAIN X \ {i})
  <2> SUFFICES ASSUME NEW a \in 1..N PROVE \E j \in DOMAIN d : \E m \in DOMAIN d[j] : d[j][m] = a
    <3>1. DOMAIN X \ {i} = 1..N
      BY <1>3, <1>6
    <3> QED BY <3>1 DEF Placed
  <2>1. PICK j \in DOMAIN c : \E m \in DOMAIN c[j] : c[j][m] = a
    BY <1>2, <1>3 DEF Placed
  <2> QED BY <1>3, <1>8, <2>1
<1>12. Lined(w, d)
  <2>1. w \in Seq(1..N)
    BY <1>2, <1>3 DEF Lined
  <2>2. \A a \in DOMAIN w : w[a] \in 1..N
    BY <2>1
  <2>3. w \in Seq(1..(N + 1))
    BY ONLY <2>1, N \in Nat
  <2>4. \A a \in DOMAIN w : d[w[a]] # <<>>
    BY <1>2, <1>8, <2>2 DEF Lined
  <2>5. \A j \in DOMAIN d : d[j] # <<>> => \E a \in DOMAIN w : w[a] = j
    <3> SUFFICES ASSUME NEW j \in 1..(N + 1), d[j] # <<>> PROVE \E a \in DOMAIN w : w[a] = j
      BY <1>8
    <3>1. j \in DOMAIN c /\ c[j] # <<>>
      BY <1>3, <1>8
    <3> QED BY <1>2, <3>1 DEF Lined
  <2> QED BY <1>2, <1>8, <2>3, <2>4, <2>5 DEF Lined
<1>13. \A j \in DOMAIN d : j < i => Y[j] = T[j]
  BY <1>3, <1>7, <1>8
<1>14. Arrived(X, Y, d, i) /\ X[i] = q
  BY <1>1, <1>4, <1>6, <1>7, <1>9, <1>10, <1>11, <1>12, <1>13 DEF Arrived
<1>15. QED
  BY <1>1, <1>4, <1>5, <1>14

\* A turn of handleGRO gives the packet its place.
LEMMA HandleStep ==
  ASSUME NEW c, GroPhase(c), udpGSO => vnetHdr, NEW p \in TunPacket, handleGRO(p)
  PROVE  Handled(batch')
<1>1. PICK i, q : i \in Nat /\ i = Len(batch) + 1 /\ q = Numbered(p, i)
  <2>1. Len(batch) \in Nat
    BY DEF GroPhase, GroInv, ChainTypes, Batched
  <2> QED BY <2>1
<1>2. /\ q \in TunPackets /\ (q.data # <<>> => q.data[1] = <<i, 1>>)
      /\ q.proto = "udp" => q.seq = 0 /\ ~ q.psh /\ q.opts = 0
  BY <1>1, NumberedType
<1>3. PICK B, b, d : B = Append(batch, q) /\ b = Append(tunBufs, [pkt |-> q, hdr |-> Stale]) /\ d = Append(c, <<>>)
  OBVIOUS
<1>4. Arrived(B, b, d, i) /\ B[i] = q
  BY <1>1, <1>2, <1>3, ArrivedIs
<1>5. /\ batch' = B
      /\ CASE ~ vnetHdr ->
                /\ toWrite' = Append(toWrite, i)
                /\ tunBufs' = b
                /\ UNCHANGED <<itemsByFlow, itemsPool>>
           [] vnetHdr /\ ~ IsCandidate(q) ->
                /\ Noop(i, b)
                /\ UNCHANGED <<itemsByFlow, itemsPool>>
           [] vnetHdr /\ IsCandidate(q) /\ q.proto = "udp" -> udpGRO(i, b)
           [] OTHER -> tcpGRO(i, b)
  <2> DEFINE ii == Len(batch) + 1
             qq == [p EXCEPT !.data = [j \in 1..p.data |-> <<ii, j>>]]
             bb == Append(tunBufs, [pkt |-> qq, hdr |-> Stale])
  <2>1. /\ batch' = Append(batch, qq)
        /\ CASE ~ vnetHdr ->
                /\ toWrite' = Append(toWrite, ii)
                /\ tunBufs' = bb
                /\ UNCHANGED <<itemsByFlow, itemsPool>>
             [] vnetHdr /\ ~ IsCandidate(qq) ->
                /\ Noop(ii, bb)
                /\ UNCHANGED <<itemsByFlow, itemsPool>>
             [] vnetHdr /\ IsCandidate(qq) /\ qq.proto = "udp" -> udpGRO(ii, bb)
             [] OTHER -> tcpGRO(ii, bb)
    BY DEF handleGRO
  <2>2. ii = i /\ qq = q
    BY <1>1 DEF Numbered
  <2>3. bb = b
    BY <1>3, <2>2
  <2> HIDE DEF ii, qq, bb
  <2> QED BY <1>3, <2>1, <2>2, <2>3
<1>6. CASE ~ vnetHdr
  <2>1. ~ (udpGSO /\ Considered(B[i]))
    BY <1>6
  <2> QED BY <1>4, <1>5, <1>6, <2>1, NoopStep
<1>7. CASE vnetHdr /\ ~ IsCandidate(q)
  <2>1. ~ (udpGSO /\ Considered(B[i]))
    BY <1>4, <1>7 DEF IsCandidate, Considered, Protos
  <2>2. Noop(i, b) /\ itemsByFlow' = itemsByFlow
    BY <1>5, <1>7
  <2>3. tunBufs' = clear(b, {i}) /\ toWrite' = Append(toWrite, i)
    BY <2>2 DEF Noop
  <2> QED BY <1>4, <1>5, <1>7, <2>1, <2>2, <2>3, NoopStep
<1>8. CASE vnetHdr /\ IsCandidate(q) /\ q.proto = "udp"
  <2>1. udpGRO(i, b)
    BY <1>5, <1>8
  <2>2. udpGSO /\ q.plain /\ q.data # <<>>
    BY <1>8 DEF IsCandidate
  <2> QED BY <1>4, <1>5, <1>8, <2>1, <2>2, UdpStep
<1>9. CASE vnetHdr /\ IsCandidate(q) /\ q.proto # "udp"
  <2>1. tcpGRO(i, b)
    BY <1>5, <1>9
  <2>2. q.proto = "tcp" /\ q.plain /\ q.data # <<>>
    BY <1>9 DEF IsCandidate, Protos
  <2> QED BY <1>4, <1>5, <1>9, <2>1, <2>2, TcpStep
<1>10. QED
  BY <1>6, <1>7, <1>8, <1>9

\* A turn of handleGRO leaves the tables or stores items for the flow of the packet.
LEMMA HandleTables ==
  ASSUME NEW p, handleGRO(p), NEW c, GroPhase(c)
  PROVE  \/ UNCHANGED <<itemsByFlow, itemsPool>>
         \/ \E q, s : /\ batch' = Append(batch, q) /\ q.proto \in Protos
                      /\ SetItems(FlowKey(q), s)
<1> DEFINE i == Len(batch) + 1
           q == [p EXCEPT !.data = [j \in 1..p.data |-> <<i, j>>]]
           b == Append(tunBufs, [pkt |-> q, hdr |-> Stale])
<1>1. /\ batch' = Append(batch, q)
      /\ CASE ~ vnetHdr ->
              /\ toWrite' = Append(toWrite, i)
              /\ tunBufs' = b
              /\ UNCHANGED <<itemsByFlow, itemsPool>>
           [] vnetHdr /\ ~ IsCandidate(q) ->
              /\ Noop(i, b)
              /\ UNCHANGED <<itemsByFlow, itemsPool>>
           [] vnetHdr /\ IsCandidate(q) /\ q.proto = "udp" -> udpGRO(i, b)
           [] OTHER -> tcpGRO(i, b)
  BY DEF handleGRO
<1>2. b[i].pkt = q
  <2>1. tunBufs \in Seq(TunBuffers) /\ Len(tunBufs) = Len(batch)
    BY DEF GroPhase, GroInv, ChainTypes
  <2>2. PICK x : x = [pkt |-> q, hdr |-> Stale] /\ x.pkt = q
    <3>1. PICK y : y = q
      OBVIOUS
    <3>2. [pkt |-> y, hdr |-> Stale].pkt = y
      BY ONLY TRUE
    <3> QED BY <3>1, <3>2
  <2>3. PICK T : T = tunBufs /\ T \in Seq(TunBuffers \cup {x}) /\ x \in TunBuffers \cup {x} /\ Len(T) + 1 = i
    BY <2>1
  <2> HIDE DEF q, i
  <2>4. Append(T, x)[Len(T) + 1] = x
    BY <2>3, AppendProperties
  <2> QED BY <2>2, <2>3, <2>4
<1> HIDE DEF i, q, b
<1>3. CASE udpGRO(i, b) /\ IsCandidate(q)
  <2>1. \E k, s : k = FlowKey(b[i].pkt) /\ SetItems(k, s)
    BY <1>3 DEF udpGRO, coalescePackets, udpInsert, Insert
  <2> QED BY <1>1, <1>2, <1>3, <2>1 DEF IsCandidate
<1>4. CASE tcpGRO(i, b) /\ IsCandidate(q)
  <2>1. PICK r, k, s : r = b[i].pkt /\ k = FlowKey(r) /\ s = Items(k)
    OBVIOUS
  <2>2. PICK end, D : TcpCases(r, i, b, k, s, end, D)
    BY <1>4, <2>1, TcpIs
  <2>3. \E t : SetItems(k, t)
    BY <2>2 DEF TcpCases, coalescePackets, Insert
  <2> QED BY <1>1, <1>2, <1>4, <2>1, <2>3 DEF IsCandidate
<1>5. QED
  BY <1>1, <1>3, <1>4

-----------------------------------------------------------------------------
(* The buffers once they have their headers                                *)

\* a large packet and the header that tells how to cut it
Merged(B, b, ch, v) ==
  /\ v /\ Len(ch) > 1
  /\ b.hdr.gsoType # "none" /\ b.hdr.gsoType # "stale"
  /\ Stands(B, ch, b.pkt, b.hdr.gsoSize)

Ready(B, b, ch, v) == Unmerged(B, b, ch, v) \/ Merged(B, b, ch, v)

\* the batch, its chains and its buffers, after the accounting
Chains(B, T, c, v) ==
  /\ Batched(B)
  /\ T \in Seq(TunBuffers) /\ Len(T) = Len(B)
  /\ c \in Seq(Seq(DOMAIN B)) /\ Len(c) = Len(B)
  /\ Once(c) /\ UdpOrdered(B, c) /\ Placed(c, DOMAIN B)
  /\ \A j \in DOMAIN c : c[j] # <<>> => Ready(B, T[j], c[j], v)

\* the header that an item gives its buffer
HeaderOf(k, item) ==
  IF item.numMerged = 0 THEN ZeroHdr
  ELSE [gsoType |-> gsoType(k), gsoSize |-> item.gsoSize, flags |-> {"needsCsum"}]

HeldBy(I, j) == \E k \in DOMAIN I : \E n \in DOMAIN I[k] : I[k][n].bufsIndex = j

ItemFor(I, k, j) == CHOOSE it \in Range(I[k]) : it.bufsIndex = j

Accounted(T, I, j) ==
  IF HeldBy(I, j)
  THEN [T[j] EXCEPT !.hdr = HeaderOf(FlowKey(T[j].pkt), ItemFor(I, FlowKey(T[j].pkt), j))]
  ELSE T[j]

\* The accounting in these terms.
LEMMA AccountingIs ==
  ASSUME applyCoalesceAccounting
  PROVE  tunBufs' = [j \in DOMAIN tunBufs |-> Accounted(tunBufs, itemsByFlow, j)]
  BY DEF applyCoalesceAccounting, Accounted, HeldBy, ItemFor, HeaderOf

\* The header of an item is a header, and not what was there before.
LEMMA HeaderType ==
  ASSUME NEW k, NEW item \in ItemRecords
  PROVE  /\ HeaderOf(k, item) \in Headers
         /\ item.numMerged = 0 => HeaderOf(k, item) = ZeroHdr
         /\ item.numMerged # 0 => /\ HeaderOf(k, item).gsoSize = item.gsoSize
                                  /\ HeaderOf(k, item).gsoType # "none" /\ HeaderOf(k, item).gsoType # "stale"
<1>1. PICK g, t : g \in Nat /\ g = item.gsoSize /\ t = gsoType(k)
  BY DEF ItemRecords
<1>2. t = "udpL4" \/ t = "tcpV6" \/ t = "tcpV4"
  BY <1>1 DEF gsoType
<1>3. t # "none" /\ t # "stale"
  BY <1>2
<1>4. [gsoType |-> t, gsoSize |-> g, flags |-> {"needsCsum"}] \in Headers
  BY <1>1, <1>2 DEF Headers
<1>5. ZeroHdr \in Headers
  BY DEF ZeroHdr, Headers
<1>6. CASE item.numMerged = 0
  BY <1>5, <1>6 DEF HeaderOf
<1>7. CASE item.numMerged # 0
  BY <1>1, <1>3, <1>4, <1>7 DEF HeaderOf
<1>8. QED
  BY <1>6, <1>7

\* After the accounting a buffer is a packet as it came, or a large one with its header.
LEMMA AccountedReady ==
  ASSUME NEW B, NEW T, NEW I, NEW c, NEW v, NEW u, GroInv(B, T, I, c, v, u), v \in BOOLEAN, NEW j \in DOMAIN c
  PROVE  /\ Accounted(T, I, j) \in TunBuffers
         /\ c[j] # <<>> => Ready(B, Accounted(T, I, j), c[j], v)
<1>1. ChainTypes(B, T, I, c) /\ T[j] \in TunBuffers
  <2>1. ChainTypes(B, T, I, c)
    BY DEF GroInv
  <2>2. T \in Seq(TunBuffers) /\ DOMAIN T = DOMAIN c
    BY <2>1 DEF ChainTypes
  <2> QED BY <2>1, <2>2
<1>2. PICK b \in TunBuffers : b = T[j]
  BY <1>1
<1>3. CASE HeldBy(I, j)
  <2>1. PICK k \in DOMAIN I : \E n \in DOMAIN I[k] : I[k][n].bufsIndex = j
    BY <1>3 DEF HeldBy
  <2>2. PICK n \in DOMAIN I[k] : I[k][n].bufsIndex = j
    BY <2>1
  <2>3. k = FlowKey(b.pkt)
    BY <1>2, <2>2 DEF GroInv, ItemsOK, ItemOK
  <2>4. PICK it : it = ItemFor(I, k, j)
    OBVIOUS
  <2>5. it \in Range(I[k]) /\ it.bufsIndex = j
    <3>1. I[k][n] \in Range(I[k])
      BY DEF Range
    <3> QED BY <2>2, <2>4, <3>1 DEF ItemFor
  <2>6. PICK m \in DOMAIN I[k] : it = I[k][m]
    BY <2>5 DEF Range
  <2>7. ItemOK(B, T, c, k, it)
    BY <2>6 DEF GroInv, ItemsOK
  <2>8. it \in ItemRecords
    <3>1. I[k] \in Seq(ItemRecords)
      BY <1>1 DEF ChainTypes
    <3> QED BY <2>6, <3>1
  <2>9. PICK h \in Headers : h = HeaderOf(k, it)
    BY <2>8, HeaderType
  <2>10. Accounted(T, I, j) = [b EXCEPT !.hdr = h]
    BY <1>2, <1>3, <2>3, <2>4, <2>9 DEF Accounted
  <2>11. PICK x \in TunBuffers : x = [b EXCEPT !.hdr = h] /\ x.pkt = b.pkt /\ x.hdr = h
    <3>1. PICK y : y = [b EXCEPT !.hdr = h]
      OBVIOUS
    <3>2. y \in TunBuffers /\ y.pkt = b.pkt /\ y.hdr = h
      BY ONLY <3>1, b \in TunBuffers, h \in Headers DEF TunBuffers
    <3> QED BY <3>1, <3>2
  <2>12. c[j] # <<>> /\ it.numMerged + 1 = Len(c[j]) /\ Stands(B, c[j], b.pkt, it.gsoSize)
    BY <1>2, <2>5, <2>7 DEF ItemOK
  <2>13. v
    BY <2>1 DEF GroInv
  <2>14. CASE it.numMerged = 0
    <3>1. Len(c[j]) = 1 /\ b.pkt = B[c[j][1]]
      <4>1. Len(c[j]) = 1
        BY <2>12, <2>14
      <4> QED BY <2>12, <4>1 DEF Stands
    <3>2. h = ZeroHdr
      BY <2>8, <2>9, <2>14, HeaderType
    <3> QED BY <2>10, <2>11, <3>1, <3>2 DEF Ready, Unmerged
  <2>15. CASE it.numMerged # 0
    <3>1. Len(c[j]) > 1
      <4>1. it.numMerged \in Nat
        BY <2>8 DEF ItemRecords
      <4> QED BY <2>12, <2>15, <4>1
    <3>2. h.gsoSize = it.gsoSize /\ h.gsoType # "none" /\ h.gsoType # "stale"
      BY <2>8, <2>9, <2>15, HeaderType
    <3> QED BY <2>10, <2>11, <2>12, <2>13, <3>1, <3>2 DEF Ready, Merged
  <2> QED BY <2>14, <2>15
<1>4. CASE ~ HeldBy(I, j)
  <2>1. Accounted(T, I, j) = b
    BY <1>2, <1>4 DEF Accounted
  <2>2. \A k : ~ HasItem(I, k, j)
    BY <1>4 DEF HasItem, HeldBy
  <2>3. c[j] # <<>> => Unmerged(B, b, c[j], v)
    BY <1>2, <2>2 DEF GroInv, OthersOK
  <2> QED BY <2>1, <2>3 DEF Ready
<1>5. QED
  BY <1>3, <1>4

\* Every buffer has its header when handleGRO is done.
LEMMA AccountingStep ==
  ASSUME NEW c, GroPhase(c), vnetHdr \in BOOLEAN, applyCoalesceAccounting
  PROVE  Chains(batch, tunBufs', c, vnetHdr)
<1>1. PICK B, T, I, v, u : B = batch /\ T = tunBufs /\ I = itemsByFlow /\ v = vnetHdr /\ u = udpGSO
  OBVIOUS
<1>2. GroInv(B, T, I, c, v, u) /\ Placed(c, DOMAIN B) /\ v \in BOOLEAN
  BY <1>1 DEF GroPhase
<1>3. PICK N \in Nat : N = Len(T) /\ N = Len(B) /\ DOMAIN T = 1..N /\ DOMAIN c = 1..N
  BY <1>2 DEF GroInv, ChainTypes
<1>4. PICK U : U = [j \in 1..N |-> Accounted(T, I, j)] /\ U = tunBufs'
  <2>1. tunBufs' = [j \in DOMAIN tunBufs |-> Accounted(tunBufs, itemsByFlow, j)]
    BY AccountingIs
  <2> QED BY <1>1, <1>3, <2>1
<1>5. \A j \in 1..N : Accounted(T, I, j) \in TunBuffers /\ (c[j] # <<>> => Ready(B, Accounted(T, I, j), c[j], v))
  BY <1>2, <1>3, AccountedReady
<1>6. U \in [1..N -> TunBuffers] /\ \A j \in 1..N : c[j] # <<>> => Ready(B, U[j], c[j], v)
  BY <1>4, <1>5
<1>7. U \in Seq(TunBuffers) /\ Len(U) = N
  BY ONLY <1>6, N \in Nat
<1>8. Chains(B, U, c, v)
  BY <1>2, <1>3, <1>6, <1>7 DEF Chains, GroInv, ChainTypes
<1>9. QED
  BY <1>1, <1>4, <1>8

-----------------------------------------------------------------------------
(* Cutting a buffer up                                                     *)

\* p is q as it came out: it has the header, number and payload, and hides no fault
Came(p, q) == Content(p) = Content(q) /\ (p.csum => q.csum) /\ (p.psh => q.psh)

\* segment m of n of a large packet (gsoSplit)
Segment(pkt, g, n, m) ==
  [pkt EXCEPT !.data = PieceOf(pkt.data, g, m), !.seq = SeqAt(pkt, g, m), !.psh = @ /\ m = n, !.csum = TRUE]

\* the first of n segments of a large packet
Segments(pkt, g, n, nbufs) == [m \in 1..(IF n > nbufs THEN nbufs - 1 ELSE n) |-> Segment(pkt, g, n, m)]

\* gsoSplit in these terms.
LEMMA SplitIs ==
  ASSUME NEW pkt \in TunPackets, NEW hdr \in Headers, NEW nbufs, NEW g, g = hdr.gsoSize,
         NEW n, n = (Len(pkt.data) + g - 1) \div g
  PROVE  gsoSplit(pkt, hdr, nbufs) = Segments(pkt, g, n, nbufs)
<1>1. \A m : SeqAt(pkt, g, m) = IF pkt.proto = "tcp" THEN (pkt.seq + hdr.gsoSize * (m - 1)) % SeqSpace ELSE pkt.seq
  BY DEF SeqAt
<1>2. QED
  BY <1>1 DEF gsoSplit, Segments, Segment, PieceOf

\* The length of a piece that is not the last.
LEMMA PieceLen ==
  ASSUME NEW d \in Seq(TunTokens), NEW g \in Nat \ {0}, NEW n \in Nat \ {0}, NEW l \in 1..g,
         Len(d) = (n - 1) * g + l, NEW m \in Nat \ {0}, m < n
  PROVE  Len(PieceOf(d, g, m)) = g
<1>1. PICK L \in Nat : L = Len(d)
  OBVIOUS
<1>2. /\ (m - 1) * g \in Nat /\ m * g = (m - 1) * g + g /\ m * g <= (n - 1) * g /\ (n - 1) * g \in Nat
  BY Multiples, m - 1 \in Nat, n - 1 \in Nat, m <= n - 1
<1>3. PICK a \in Nat, z \in Nat : a = (m - 1) * g /\ a + g <= z /\ L = z + l
  BY <1>1, <1>2
<1>4. ~ (a + g > L) /\ a + g <= L
  BY <1>3
<1>5. PieceOf(d, g, m) = SubSeq(d, a + 1, a + g)
  BY <1>1, <1>3, <1>4 DEF PieceOf
<1>6. SubSeq(d, a + 1, a + g) = [j \in 1..((a + g) - (a + 1) + 1) |-> d[(a + 1) + j - 1]]
  BY DEF SubSeq
<1>7. (a + g) - (a + 1) + 1 = g
  OBVIOUS
<1>8. Len(SubSeq(d, a + 1, a + g)) = g
  <2>1. PICK f : f = [j \in 1..g |-> d[(a + 1) + j - 1]]
    OBVIOUS
  <2>2. DOMAIN f = 1..g
    BY <2>1
  <2>3. Len(f) = g
    BY <2>1, <2>2
  <2> QED BY <1>6, <1>7, <2>1, <2>3
<1>9. QED
  BY <1>5, <1>8

\* Two packets that differ in PSH and checksum only.
LEMMA ContentSame ==
  ASSUME NEW p \in TunPackets, NEW q \in TunPackets, SameHeader(p, q), p.data = q.data, p.seq = q.seq
  PROVE  Content(p) = Content(q)
<1>1. PICK x : x = Content(p)
  OBVIOUS
<1>2. PICK y : y = Content(q)
  OBVIOUS
<1>3. /\ x \in TunPackets /\ x.proto = p.proto /\ x.flow = p.flow /\ x.seq = p.seq /\ x.data = p.data
      /\ x.psh = FALSE /\ x.csum = TRUE /\ x.tos = p.tos /\ x.opts = p.opts /\ x.plain = p.plain
  BY ONLY <1>1, p \in TunPackets DEF Content, TunPackets
<1>4. /\ y \in TunPackets /\ y.proto = q.proto /\ y.flow = q.flow /\ y.seq = q.seq /\ y.data = q.data
      /\ y.psh = FALSE /\ y.csum = TRUE /\ y.tos = q.tos /\ y.opts = q.opts /\ y.plain = q.plain
  BY ONLY <1>2, q \in TunPackets DEF Content, TunPackets
<1>5. /\ x.proto = y.proto /\ x.flow = y.flow /\ x.seq = y.seq /\ x.data = y.data /\ x.psh = y.psh /\ x.csum = y.csum
      /\ x.tos = y.tos /\ x.opts = y.opts /\ x.plain = y.plain
  BY <1>3, <1>4 DEF SameHeader
<1>6. x = y
  <2>1. PICK P, F, D, O, Q, S : TunPackets = [proto : P, flow : F, seq : S, data : D, psh : BOOLEAN, csum : BOOLEAN,
                                              tos : O, opts : Q, plain : BOOLEAN]
    BY DEF TunPackets
  <2>2. PICK G : G = [proto : P, flow : F, seq : S, data : D, psh : BOOLEAN, csum : BOOLEAN,
                      tos : O, opts : Q, plain : BOOLEAN]
    OBVIOUS
  <2>3. x \in G /\ y \in G
    BY <1>3, <1>4, <2>1, <2>2
  <2> QED BY ONLY <1>5, <2>2, <2>3
<1>7. QED
  BY <1>1, <1>2, <1>6

\* A segment is the packet of the batch that it stands for.
LEMMA SegmentCame ==
  ASSUME NEW B, Batched(B), NEW ch \in Seq(DOMAIN B), NEW pkt \in TunPackets, NEW g, Stands(B, ch, pkt, g),
         NEW n, n = Len(ch), n > 1, NEW m \in 1..n
  PROVE  Segment(pkt, g, n, m) \in TunPackets /\ Came(Segment(pkt, g, n, m), B[ch[m]])
<1>1. PICK q \in TunPackets : q = B[ch[m]] /\ m \in DOMAIN ch
  <2>1. m \in DOMAIN ch /\ ch[m] \in DOMAIN B
    OBVIOUS
  <2> QED BY <2>1 DEF Batched
<1>2. /\ SameHeader(q, pkt) /\ q.data = PieceOf(pkt.data, g, m) /\ q.seq = SeqAt(pkt, g, m)
      /\ q.csum /\ (pkt.psh => B[ch[n]].psh)
  BY <1>1 DEF Stands
<1>3. PICK f \in BOOLEAN : f = (pkt.psh /\ m = n)
  OBVIOUS
<1>4. PICK x : x = [pkt EXCEPT !.data = q.data, !.seq = q.seq, !.psh = f, !.csum = TRUE]
  OBVIOUS
<1>5. x = Segment(pkt, g, n, m)
  BY <1>2, <1>3, <1>4 DEF Segment
<1>6. q.data \in Seq(TunTokens) /\ q.seq \in 0..SeqSpace - 1
  BY DEF TunPackets
<1>7. /\ x \in TunPackets /\ x.proto = pkt.proto /\ x.flow = pkt.flow /\ x.tos = pkt.tos /\ x.opts = pkt.opts
      /\ x.plain = pkt.plain /\ x.data = q.data /\ x.seq = q.seq /\ x.psh = f
  BY ONLY <1>4, <1>6, pkt \in TunPackets, f \in BOOLEAN DEF TunPackets
<1>8. SameHeader(x, q)
  BY <1>2, <1>7 DEF SameHeader
<1>9. Content(x) = Content(q)
  BY <1>7, <1>8, ContentSame
<1>10. f => q.psh
  BY <1>1, <1>2, <1>3
<1>11. QED
  BY <1>1, <1>2, <1>5, <1>7, <1>9, <1>10 DEF Came

\* what Read makes of a buffer
ReadOut(b, v, nbufs) == IF v THEN handleVirtioRead(b, nbufs) ELSE <<b.pkt>>

\* the first packets of a chain come out, and when they are not all the payloads are too short
SplitsInto(B, ch, b, out) ==
  /\ out \in Seq(TunPackets) /\ Len(out) \in 0..Len(ch)
  /\ \A m \in DOMAIN out : Came(out[m], B[ch[m]])
  /\ Len(out) # Len(ch) => Len(b.pkt.data) # Len(FlattenSeq([m \in DOMAIN out |-> out[m].data]))

\* A large packet.
LEMMA LargeSplits ==
  ASSUME NEW B, Batched(B), NEW ch \in Seq(DOMAIN B), NEW b \in TunBuffers, NEW v, Merged(B, b, ch, v),
         NEW nbufs \in Nat \ {0}
  PROVE  SplitsInto(B, ch, b, gsoSplit(b.pkt, b.hdr, nbufs))
<1>1. PICK pkt \in TunPackets, hdr \in Headers, g \in Nat \ {0}, n \in Nat \ {0} :
        /\ pkt = b.pkt /\ hdr = b.hdr /\ g = hdr.gsoSize /\ n = Len(ch) /\ n > 1
        /\ Stands(B, ch, pkt, g)
  <2>1. b.pkt \in TunPackets /\ b.hdr \in Headers
    BY DEF TunBuffers
  <2>2. Len(ch) \in Nat \ {0} /\ Len(ch) > 1 /\ Stands(B, ch, b.pkt, b.hdr.gsoSize)
    BY DEF Merged
  <2>3. b.hdr.gsoSize \in Nat \ {0}
    BY <2>2 DEF Stands
  <2> QED BY <2>1, <2>2, <2>3
<1>2. PICK l \in 1..g : Len(pkt.data) = (n - 1) * g + l
  BY <1>1 DEF Stands
<1>3. (Len(pkt.data) + g - 1) \div g = n
  BY <1>2, PieceCount
<1>4. PICK r \in 0..n : r = IF n > nbufs THEN nbufs - 1 ELSE n
  OBVIOUS
<1>5. PICK out : out = gsoSplit(pkt, hdr, nbufs) /\ out = [m \in 1..r |-> Segment(pkt, g, n, m)]
  <2>1. g = hdr.gsoSize /\ n = (Len(pkt.data) + g - 1) \div g
    BY <1>1, <1>3
  <2>2. gsoSplit(pkt, hdr, nbufs) = Segments(pkt, g, n, nbufs)
    BY <2>1, SplitIs
  <2>3. Segments(pkt, g, n, nbufs) = [m \in 1..r |-> Segment(pkt, g, n, m)]
    BY ONLY <1>4 DEF Segments
  <2> QED BY ONLY <2>2, <2>3, Zenon
<1>6. \A m \in 1..r : Segment(pkt, g, n, m) \in TunPackets /\ Came(Segment(pkt, g, n, m), B[ch[m]])
  <2> SUFFICES ASSUME NEW m \in 1..r
               PROVE  Segment(pkt, g, n, m) \in TunPackets /\ Came(Segment(pkt, g, n, m), B[ch[m]])
    OBVIOUS
  <2>1. m \in 1..n
    OBVIOUS
  <2> QED BY <1>1, <2>1, SegmentCame
<1>7. out \in [1..r -> TunPackets] /\ \A m \in 1..r : out[m] = Segment(pkt, g, n, m)
  BY <1>5, <1>6
<1>8. out \in Seq(TunPackets) /\ Len(out) = r /\ DOMAIN out = 1..r
  BY ONLY <1>7, r \in Nat
<1>9. ASSUME r # n PROVE Len(pkt.data) # Len(FlattenSeq([m \in 1..r |-> out[m].data]))
  <2>1. PICK ss : ss = [m \in 1..r |-> out[m].data]
    OBVIOUS
  <2>2. ASSUME NEW m \in 1..r PROVE out[m].data = PieceOf(pkt.data, g, m) /\ Len(out[m].data) = g /\ out[m].data \in Seq(TunTokens)
    <3>1. out[m] \in TunPackets /\ out[m] = Segment(pkt, g, n, m)
      BY <1>7
    <3>2. Segment(pkt, g, n, m).data = PieceOf(pkt.data, g, m)
      BY ONLY pkt \in TunPackets DEF Segment, TunPackets
    <3>3. pkt.data \in Seq(TunTokens) /\ m \in Nat \ {0} /\ m < n
      BY <1>9 DEF TunPackets
    <3>4. Len(PieceOf(pkt.data, g, m)) = g
      <4>1. PICK d \in Seq(TunTokens) : d = pkt.data
        BY <3>3
      <4>2. Len(d) = (n - 1) * g + l
        BY <1>2, <4>1
      <4>3. Len(PieceOf(d, g, m)) = g
        BY <3>3, <4>2, PieceLen
      <4> QED BY <4>1, <4>3
    <3>5. out[m].data \in Seq(TunTokens)
      BY <3>1 DEF TunPackets
    <3> QED BY <3>1, <3>2, <3>4, <3>5
  <2>3. ss \in [1..r -> Seq(TunTokens)] /\ \A m \in 1..r : Len(ss[m]) = g
    BY <2>1, <2>2
  <2>4. ss \in Seq(Seq(TunTokens)) /\ Len(ss) = r
    BY ONLY <2>3, r \in Nat
  <2>5. Len(FlattenSeq(ss)) = r * g
    <3>1. CASE r = 0
      <4>1. ss = <<>>
        BY <2>4, <3>1
      <4>2. FlattenSeq(<<>>) = <<>>
        BY DEF FlattenSeq
      <4>3. 0 * g = 0 /\ Len(<<>>) = 0
        BY Multiples
      <4> QED BY <3>1, <4>1, <4>2, <4>3
    <3>2. CASE r # 0
      <4>1. Even(ss, g)
        BY <2>3, <2>4, <3>2 DEF Even
      <4>2. Len(FlattenSeq(ss)) = (Len(ss) - 1) * g + Len(ss[Len(ss)])
        BY <2>4, <3>2, <4>1, CutEven
      <4>3. r * g = (r - 1) * g + g /\ r \in 1..r
        BY <3>2, Multiples
      <4> QED BY <2>3, <2>4, <4>2, <4>3
    <3> QED BY <3>1, <3>2
  <2>6. r * g <= (n - 1) * g /\ r * g \in Nat /\ (n - 1) * g \in Nat
    BY <1>9, Multiples, n - 1 \in Nat, r <= n - 1
  <2>7. PICK a \in Nat, z \in Nat : a = r * g /\ z = (n - 1) * g /\ a <= z
    BY <2>6
  <2>8. z + l # a
    BY <2>7
  <2> QED BY <1>2, <2>1, <2>5, <2>7, <2>8
<1>10. SplitsInto(B, ch, b, out)
  BY <1>1, <1>6, <1>7, <1>8, <1>9 DEF SplitsInto
<1>11. QED
  BY <1>1, <1>5, <1>10

\* A buffer gives the packets it stands for.
LEMMA ReadSplits ==
  ASSUME NEW B, Batched(B), NEW ch \in Seq(DOMAIN B), ch # <<>>, NEW b \in TunBuffers, NEW v \in BOOLEAN,
         Ready(B, b, ch, v), NEW nbufs \in Nat \ {0}
  PROVE  SplitsInto(B, ch, b, ReadOut(b, v, nbufs))
<1>1. CASE Unmerged(B, b, ch, v)
  <2>1. PICK q \in TunPackets : q = b.pkt /\ q = B[ch[1]]
    BY <1>1 DEF Unmerged, TunBuffers
  <2>2. ReadOut(b, v, nbufs) = <<q>>
    <3>1. CASE v
      <4>1. b.hdr.gsoType = "none" /\ b.hdr.flags = {}
        BY <1>1, <3>1 DEF Unmerged, ZeroHdr
      <4> QED BY <2>1, <3>1, <4>1 DEF ReadOut, handleVirtioRead
    <3>2. CASE ~ v
      BY <2>1, <3>2 DEF ReadOut
    <3> QED BY <3>1, <3>2
  <2>3. PICK out \in Seq(TunPackets) : out = <<q>> /\ Len(out) = 1 /\ DOMAIN out = {1} /\ out[1] = q
    <3>1. <<q>> \in Seq(TunPackets) /\ Len(<<q>>) = 1 /\ DOMAIN <<q>> = {1} /\ <<q>>[1] = q
      OBVIOUS
    <3> QED BY <3>1
  <2>4. Len(ch) = 1
    BY <1>1 DEF Unmerged
  <2>5. Came(q, q)
    BY DEF Came
  <2>6. SplitsInto(B, ch, b, out)
    BY <2>1, <2>3, <2>4, <2>5 DEF SplitsInto
  <2> QED BY <2>2, <2>3, <2>6
<1>2. CASE Merged(B, b, ch, v)
  <2>1. ReadOut(b, v, nbufs) = gsoSplit(b.pkt, b.hdr, nbufs)
    BY <1>2 DEF Merged, ReadOut, handleVirtioRead
  <2> QED BY <1>2, <2>1, LargeSplits
<1>3. QED
  BY <1>1, <1>2 DEF Ready

-----------------------------------------------------------------------------
(* The buffers on their way: toWrite, then the kernel                      *)

\* w names buffers that stand for something, in increasing order
Queue(w, c) ==
  /\ w \in Seq(DOMAIN c)
  /\ \A x, y \in DOMAIN w : x < y => w[x] < w[y]
  /\ \A x \in DOMAIN w : c[w[x]] # <<>>

Named(w, j) == \E x \in DOMAIN w : w[x] = j

\* K holds the buffers that w names
Holds(K, T, w) == K \in Seq(TunBuffers) /\ Len(K) = Len(w) /\ \A x \in DOMAIN w : K[x] = T[w[x]]

\* what w names comes before what u names
Ahead(w, u) == \A x \in DOMAIN w : \A y \in DOMAIN u : w[x] < u[y]

\* t is w without its first member
Shorter(w, t) == Len(w) = Len(t) + 1 /\ DOMAIN t = 1..Len(t) /\ DOMAIN w = 1..Len(w) /\ \A x \in DOMAIN t : t[x] = w[x + 1]

\* Tail takes the first member away.
LEMMA TailShorter ==
  ASSUME NEW S, NEW w \in Seq(S), w # <<>>
  PROVE  Tail(w) \in Seq(S) /\ Shorter(w, Tail(w)) /\ Head(w) = w[1] /\ 1 \in DOMAIN w
<1>1. /\ Tail(w) \in Seq(S) /\ Len(Tail(w)) = Len(w) - 1
      /\ \A i \in 1 .. Len(Tail(w)) : Tail(w)[i] = w[i + 1]
  BY HeadTailProperties
<1>2. PICK t \in Seq(S), n \in Nat : t = Tail(w) /\ n = Len(w)
  BY <1>1, LenProperties, Zenon
<1>3. Len(t) = n - 1 /\ DOMAIN t = 1..Len(t) /\ DOMAIN w = 1..n /\ n # 0 /\ Len(t) \in Nat
  BY <1>1, <1>2
<1>4. Shorter(w, t)
  BY <1>1, <1>2, <1>3 DEF Shorter
<1>5. QED
  BY <1>1, <1>2, <1>3, <1>4

\* What is left of a queue is a queue, and the first comes before it.
LEMMA QueueTail ==
  ASSUME NEW c, NEW w, Queue(w, c), NEW t \in Seq(DOMAIN c), Shorter(w, t), DOMAIN c \subseteq Nat
  PROVE  /\ Queue(t, c)
         /\ \A y \in DOMAIN t : w[1] < t[y]
         /\ \A y \in DOMAIN t : Named(w, t[y])
         /\ \A j : Named(w, j) => j = w[1] \/ Named(t, j)
<1>1. PICK n \in Nat : n = Len(t) /\ DOMAIN t = 1..n /\ DOMAIN w = 1..(n + 1) /\ \A x \in 1..n : t[x] = w[x + 1]
  <2>1. PICK n \in Nat : n = Len(t)
    OBVIOUS
  <2> QED BY <2>1 DEF Shorter
<1>2. ASSUME NEW x \in 1..n PROVE x + 1 \in 1..(n + 1) /\ 1 < x + 1 /\ 1 \in 1..(n + 1)
  OBVIOUS
<1>3. Queue(t, c)
  <2>1. ASSUME NEW x \in 1..n, NEW y \in 1..n, x < y PROVE t[x] < t[y]
    <3>1. x + 1 < y + 1
      BY <2>1
    <3> QED BY <1>1, <1>2, <3>1 DEF Queue
  <2>2. ASSUME NEW x \in 1..n PROVE c[t[x]] # <<>>
    BY <1>1, <1>2 DEF Queue
  <2> QED BY <1>1, <2>1, <2>2 DEF Queue
<1>4. ASSUME NEW y \in 1..n PROVE w[1] < t[y] /\ Named(w, t[y])
  BY <1>1, <1>2 DEF Queue, Named
<1>5. ASSUME NEW j, Named(w, j) PROVE j = w[1] \/ Named(t, j)
  <2>1. PICK x \in 1..(n + 1) : w[x] = j
    BY <1>1, <1>5 DEF Named
  <2>2. CASE x = 1
    BY <2>1, <2>2
  <2>3. CASE x # 1
    <3>1. x - 1 \in 1..n /\ (x - 1) + 1 = x
      BY <2>3
    <3>2. t[x - 1] = j
      BY <1>1, <2>1, <3>1
    <3> QED BY <1>1, <3>1, <3>2 DEF Named
  <2> QED BY <2>2, <2>3
<1>6. QED
  BY <1>1, <1>3, <1>4, <1>5

\* u names what w names and j, and the kernel has them
Lengthened(c, w, K, T, j, u) ==
  /\ Queue(u, c) /\ Holds(Append(K, T[j]), T, u)
  /\ Named(u, j) /\ (\A l : Named(w, l) => Named(u, l))
  /\ \A x \in DOMAIN u : u[x] = j \/ \E y \in DOMAIN w : u[x] = w[y]

\* A buffer that comes after a queue is put at its end.
LEMMA QueueAppend ==
  ASSUME NEW c, NEW w, Queue(w, c), NEW j \in DOMAIN c, c[j] # <<>>, \A x \in DOMAIN w : w[x] < j,
         NEW K, NEW T \in Seq(TunBuffers), DOMAIN T = DOMAIN c, Holds(K, T, w)
  PROVE  \E u : Lengthened(c, w, K, T, j, u)
<1>1. PICK n \in Nat : n = Len(w) /\ DOMAIN w = 1..n /\ Len(K) = n /\ w \in Seq(DOMAIN c) /\ K \in Seq(TunBuffers)
  BY DEF Queue, Holds
<1>2. PICK u \in Seq(DOMAIN c) : u = Append(w, j) /\ Len(u) = n + 1 /\ DOMAIN u = 1..(n + 1) /\ u[n + 1] = j
                              /\ \A x \in 1..n : u[x] = w[x]
  <2>1. /\ Append(w, j) \in Seq(DOMAIN c) /\ Len(Append(w, j)) = Len(w) + 1
        /\ \A x \in 1..Len(w) : Append(w, j)[x] = w[x]
        /\ Append(w, j)[Len(w) + 1] = j
    BY <1>1, AppendProperties
  <2>2. PICK u : u = Append(w, j)
    OBVIOUS
  <2>3. u \in Seq(DOMAIN c) /\ Len(u) = n + 1 /\ u[n + 1] = j /\ \A x \in 1..n : u[x] = w[x]
    BY <1>1, <2>1, <2>2
  <2>4. DOMAIN u = 1..(n + 1)
    BY <2>3
  <2> QED BY <2>2, <2>3, <2>4
<1>3. PICK b \in TunBuffers : b = T[j]
  OBVIOUS
<1>4. PICK M \in Seq(TunBuffers) : M = Append(K, b) /\ Len(M) = n + 1 /\ M[n + 1] = b /\ \A x \in 1..n : M[x] = K[x]
  <2>1. /\ Append(K, b) \in Seq(TunBuffers) /\ Len(Append(K, b)) = Len(K) + 1
        /\ \A x \in 1..Len(K) : Append(K, b)[x] = K[x]
        /\ Append(K, b)[Len(K) + 1] = b
    BY <1>1, AppendProperties
  <2> QED BY <1>1, <2>1
<1>5. ASSUME NEW x \in 1..(n + 1) PROVE x \in 1..n \/ x = n + 1
  OBVIOUS
<1>6. Queue(u, c)
  <2>1. ASSUME NEW x \in 1..(n + 1), NEW y \in 1..(n + 1), x < y PROVE u[x] < u[y]
    <3>1. x \in 1..n
      BY <2>1
    <3>2. CASE y \in 1..n
      BY <1>1, <1>2, <2>1, <3>1, <3>2 DEF Queue
    <3>3. CASE y = n + 1
      BY <1>1, <1>2, <3>1, <3>3
    <3> QED BY <1>5, <3>2, <3>3
  <2>2. ASSUME NEW x \in 1..(n + 1) PROVE c[u[x]] # <<>>
    BY <1>1, <1>2, <1>5 DEF Queue
  <2> QED BY <1>2, <2>1, <2>2 DEF Queue
<1>7. Holds(M, T, u)
  <2>1. ASSUME NEW x \in 1..(n + 1) PROVE M[x] = T[u[x]]
    BY <1>1, <1>2, <1>3, <1>4, <1>5 DEF Holds
  <2> QED BY <1>2, <1>4, <2>1 DEF Holds
<1>8. Named(u, j) /\ \A l : Named(w, l) => Named(u, l)
  <2>1. n + 1 \in 1..(n + 1) /\ \A x \in 1..n : x \in 1..(n + 1)
    OBVIOUS
  <2> QED BY <1>1, <1>2, <2>1 DEF Named
<1>9. \A x \in DOMAIN u : u[x] = j \/ \E y \in DOMAIN w : u[x] = w[y]
  BY <1>1, <1>2, <1>5
<1>10. QED
  BY <1>3, <1>4, <1>6, <1>7, <1>8, <1>9 DEF Lengthened

\* every buffer that stands for something is named by w or u
Covered(c, w, u) == \A j \in DOMAIN c : c[j] # <<>> => Named(w, j) \/ Named(u, j)

\* while Write gives the buffers to the kernel; w names those the kernel has
WritePhase(c, w) ==
  /\ Chains(batch, tunBufs, c, vnetHdr)
  /\ Queue(w, c) /\ Holds(kernel, tunBufs, w)
  /\ Queue(toWrite, c) /\ Ahead(w, toWrite)
  /\ ~ lost => Covered(c, w, toWrite)

\* The accounting begins the phase, with nothing in the kernel.
LEMMA WritingBegins ==
  ASSUME NEW c, GroPhase(c), vnetHdr \in BOOLEAN, kernel = <<>>, applyCoalesceAccounting
  PROVE  WritePhase(c, <<>>)'
<1>1. Chains(batch, tunBufs', c, vnetHdr)
  BY AccountingStep
<1>2. batch' = batch /\ vnetHdr' = vnetHdr /\ toWrite' = toWrite /\ kernel' = <<>>
  BY DEF applyCoalesceAccounting
<1>3. Queue(toWrite, c) /\ Covered(c, <<>>, toWrite)
  BY DEF GroPhase, Lined, Queue, Covered, Named
<1>4. PICK e : e = <<>>
  OBVIOUS
<1>5. e \in Seq(DOMAIN c) /\ e \in Seq(TunBuffers) /\ DOMAIN e = {} /\ Len(e) = 0
  BY <1>4
<1>6. Queue(e, c) /\ Holds(e, tunBufs', e) /\ Ahead(e, toWrite)
  BY <1>5 DEF Queue, Holds, Ahead
<1>7. QED
  BY <1>1, <1>2, <1>3, <1>4, <1>6 DEF WritePhase

\* A write moves the first buffer to the kernel, or loses it or all.
LEMMA WriteStep ==
  ASSUME NEW c, NEW w, WritePhase(c, w), lost \in BOOLEAN, NEW result \in {"ok", "failed", "closed"}, WriteOne(result)
  PROVE  \E u : WritePhase(c, u)'
<1>1. PICK q, t, K, T : q = toWrite /\ t = toWrite' /\ K = kernel /\ T = tunBufs
  OBVIOUS
<1>2. /\ batch' = batch /\ vnetHdr' = vnetHdr /\ tunBufs' = T /\ q # <<>>
      /\ kernel' = IF result = "ok" THEN Append(K, T[Head(q)]) ELSE K
      /\ t = IF result = "closed" THEN <<>> ELSE Tail(q)
      /\ lost' = (lost \/ result # "ok")
  BY <1>1 DEF WriteOne
<1>3. /\ Chains(batch, T, c, vnetHdr) /\ Queue(w, c) /\ Holds(K, T, w) /\ Queue(q, c) /\ Ahead(w, q)
      /\ ~ lost => Covered(c, w, q)
  BY <1>1 DEF WritePhase
<1>4. T \in Seq(TunBuffers) /\ DOMAIN T = DOMAIN c /\ DOMAIN c \subseteq Nat
  BY <1>3 DEF Chains
<1>5. /\ Tail(q) \in Seq(DOMAIN c) /\ Shorter(q, Tail(q)) /\ Head(q) = q[1] /\ 1 \in DOMAIN q
  <2>1. q \in Seq(DOMAIN c)
    BY <1>3 DEF Queue
  <2> QED BY <1>2, <2>1, TailShorter
<1>6. PICK r, j : r \in Seq(DOMAIN c) /\ r = Tail(q) /\ j = q[1] /\ j = Head(q) /\ j \in DOMAIN c /\ c[j] # <<>>
  <2>1. q[1] \in DOMAIN c /\ c[q[1]] # <<>>
    BY <1>3, <1>5 DEF Queue
  <2> QED BY <1>5, <2>1
<1>7. /\ Queue(r, c)
      /\ \A y \in DOMAIN r : j < r[y]
      /\ \A y \in DOMAIN r : Named(q, r[y])
      /\ \A l : Named(q, l) => l = j \/ Named(r, l)
  BY <1>3, <1>4, <1>5, <1>6, QueueTail
<1>8. Ahead(w, r)
  BY <1>3, <1>7 DEF Ahead, Named
<1>9. CASE result = "ok"
  <2>1. \A x \in DOMAIN w : w[x] < j
    BY <1>3, <1>5, <1>6 DEF Ahead
  <2>2. PICK u : /\ Queue(u, c) /\ Holds(Append(K, T[j]), T, u)
                 /\ Named(u, j) /\ (\A l : Named(w, l) => Named(u, l))
                 /\ \A x \in DOMAIN u : u[x] = j \/ \E y \in DOMAIN w : u[x] = w[y]
    <3>1. \E u : Lengthened(c, w, K, T, j, u)
      BY <1>3, <1>4, <1>6, <2>1, QueueAppend
    <3> QED BY <3>1 DEF Lengthened
  <2>3. Ahead(u, r)
    BY <1>7, <1>8, <2>2 DEF Ahead
  <2>4. kernel' = Append(K, T[j]) /\ t = r /\ lost' = lost
    BY <1>2, <1>6, <1>9
  <2>5. ~ lost => Covered(c, u, r)
    BY <1>3, <1>7, <2>2 DEF Covered
  <2>6. WritePhase(c, u)'
    BY <1>1, <1>2, <1>3, <1>7, <2>2, <2>3, <2>4, <2>5 DEF WritePhase
  <2> QED BY <2>6
<1>10. CASE result # "ok"
  <2>1. kernel' = K /\ lost' = TRUE
    BY <1>2, <1>10
  <2>2. Queue(t, c) /\ Ahead(w, t)
    <3>1. CASE t = r
      BY <1>7, <1>8, <3>1
    <3>2. CASE t = <<>>
      <4>1. t \in Seq(DOMAIN c) /\ DOMAIN t = {}
        BY <3>2
      <4> QED BY <4>1 DEF Queue, Ahead
    <3> QED BY <1>2, <1>6, <3>1, <3>2
  <2>3. WritePhase(c, w)'
    BY <1>1, <1>2, <1>3, <2>1, <2>2 DEF WritePhase
  <2> QED BY <2>3
<1>11. QED
  BY <1>9, <1>10

-----------------------------------------------------------------------------
(* The packets that leave Read                                             *)

\* D are packets of the batch, src their numbers: none twice, the datagrams of a flow in their
\* order, and all of them from buffers before those that w names
Sources(B, D, c, w, src) ==
  /\ src \in Seq(DOMAIN B) /\ D \in Seq(TunPackets) /\ Len(D) = Len(src)
  /\ \A x \in DOMAIN src : Came(D[x], B[src[x]])
  /\ \A x, y \in DOMAIN src : x # y => src[x] # src[y]
  /\ \A x, y \in DOMAIN src :
       x < y /\ Considered(B[src[x]]) /\ Considered(B[src[y]]) /\ B[src[x]].flow = B[src[y]].flow
       => src[x] < src[y]
  /\ \A x \in DOMAIN src : \E j \in DOMAIN c :
       /\ \E m \in DOMAIN c[j] : src[x] = c[j][m]
       /\ \A y \in DOMAIN w : j < w[y]

\* z is a and then b
Joint(a, b, z) ==
  /\ Len(z) = Len(a) + Len(b) /\ DOMAIN z = 1..Len(z) /\ DOMAIN a = 1..Len(a) /\ DOMAIN b = 1..Len(b)
  /\ Len(a) \in Nat /\ Len(b) \in Nat
  /\ \A x \in DOMAIN a : x \in DOMAIN z /\ z[x] = a[x]
  /\ \A m \in DOMAIN b : Len(a) + m \in DOMAIN z /\ z[Len(a) + m] = b[m]
  /\ \A x \in DOMAIN z : x \in DOMAIN a \/ \E m \in DOMAIN b : x = Len(a) + m

\* Two sequences put together.
LEMMA JointIs ==
  ASSUME NEW S, NEW a \in Seq(S), NEW b \in Seq(S)
  PROVE  a \o b \in Seq(S) /\ Joint(a, b, a \o b)
<1>1. /\ a \o b \in Seq(S) /\ Len(a \o b) = Len(a) + Len(b)
      /\ \A i \in 1 .. Len(a) + Len(b) : (a \o b)[i] = IF i <= Len(a) THEN a[i] ELSE b[i - Len(a)]
  BY ConcatProperties, Zenon
<1>2. PICK z : z = a \o b
  OBVIOUS
<1>3. PICK k \in Nat, n \in Nat : k = Len(a) /\ n = Len(b) /\ DOMAIN a = 1..k /\ DOMAIN b = 1..n
  <2>1. Len(a) \in Nat /\ Len(b) \in Nat /\ DOMAIN a = 1..Len(a) /\ DOMAIN b = 1..Len(b)
    OBVIOUS
  <2> QED BY <2>1, Zenon
<1>4. /\ z \in Seq(S) /\ Len(z) = k + n
      /\ \A i \in 1..(k + n) : z[i] = IF i <= k THEN a[i] ELSE b[i - k]
  BY <1>1, <1>2, <1>3, Zenon
<1>5. DOMAIN z = 1..(k + n)
  BY <1>4
<1>6. ASSUME NEW x \in 1..k PROVE x \in 1..(k + n) /\ z[x] = a[x]
  BY <1>4
<1>7. ASSUME NEW m \in 1..n PROVE k + m \in 1..(k + n) /\ z[k + m] = b[m]
  <2>1. k + m \in 1..(k + n) /\ ~ (k + m <= k) /\ (k + m) - k = m
    OBVIOUS
  <2> QED BY <1>4, <2>1
<1>8. ASSUME NEW x \in 1..(k + n) PROVE x \in 1..k \/ \E m \in 1..n : x = k + m
  <2>1. CASE x <= k
    BY <2>1
  <2>2. CASE ~ (x <= k)
    <3>1. x - k \in 1..n /\ x = k + (x - k)
      BY <2>2
    <3> QED BY <3>1
  <2> QED BY <2>1, <2>2
<1>9. Joint(a, b, z)
  BY <1>3, <1>4, <1>5, <1>6, <1>7, <1>8, ZenonT(40) DEF Joint
<1>10. QED
  BY <1>2, <1>4, <1>9

\* the first packets of the chain of buffer j, and what Read made of them
Taken(B, c, j, out, add) ==
  /\ j \in DOMAIN c
  /\ out \in Seq(TunPackets) /\ add \in Seq(DOMAIN B) /\ Len(out) = Len(add) /\ Len(add) <= Len(c[j])
  /\ \A m \in DOMAIN add : m \in DOMAIN c[j] /\ add[m] = c[j][m] /\ Came(out[m], B[add[m]])

\* They keep their order, behind what came out before.
LEMMA SourcesGrow ==
  ASSUME NEW B, NEW D, NEW c, NEW w, NEW t, NEW src, Sources(B, D, c, w, src), Once(c), UdpOrdered(B, c),
         DOMAIN c \subseteq Nat,
         Queue(w, c), Shorter(w, t), \A y \in DOMAIN t : w[1] < t[y] /\ Named(w, t[y]),
         NEW out, NEW add, Taken(B, c, w[1], out, add)
  PROVE  Sources(B, D \o out, c, t, src \o add)
<1>1. PICK j \in DOMAIN c : j = w[1] /\ 1 \in DOMAIN w
  <2>1. 1 \in DOMAIN w
    <3>1. w \in Seq(DOMAIN c) /\ Len(w) = Len(t) + 1 /\ DOMAIN t = 1..Len(t) /\ DOMAIN w = 1..Len(w)
      BY DEF Queue, Shorter
    <3>2. PICK n \in Nat : n = Len(w)
      BY <3>1
    <3>3. n # 0
      BY <3>1, <3>2 DEF Taken
    <3> QED BY <3>1, <3>2, <3>3
  <2> QED BY <2>1 DEF Taken
<1>2. PICK z : z = src \o add /\ z \in Seq(DOMAIN B) /\ Joint(src, add, z)
  BY JointIs DEF Sources, Taken
<1>3. PICK E : E = D \o out /\ E \in Seq(TunPackets) /\ Joint(D, out, E)
  BY JointIs DEF Sources, Taken
<1>4. PICK k \in Nat : k = Len(src) /\ k = Len(D) /\ DOMAIN D = DOMAIN src /\ DOMAIN out = DOMAIN add /\ DOMAIN src = 1..k
                    /\ \A m \in DOMAIN add : m \in Nat /\ m > 0
  <2>1. /\ Len(D) = Len(src) /\ Len(out) = Len(add) /\ Len(src) \in Nat /\ Len(add) \in Nat
        /\ DOMAIN D = 1..Len(D) /\ DOMAIN src = 1..Len(src) /\ DOMAIN out = 1..Len(out) /\ DOMAIN add = 1..Len(add)
    BY <1>2, <1>3 DEF Joint, Sources, Taken
  <2>2. PICK k \in Nat, n \in Nat : k = Len(src) /\ n = Len(add)
    BY <2>1
  <2>3. \A m \in 1..n : m \in Nat /\ m > 0
    OBVIOUS
  <2> QED BY <2>1, <2>2, <2>3
<1>5. ASSUME NEW x \in DOMAIN z
      PROVE  \/ x \in DOMAIN src /\ z[x] = src[x] /\ E[x] = D[x]
             \/ \E m \in DOMAIN add : x = k + m /\ z[x] = add[m] /\ E[x] = out[m]
  <2>1. x \in DOMAIN src \/ \E m \in DOMAIN add : x = k + m
    BY <1>2, <1>4 DEF Joint
  <2>2. CASE x \in DOMAIN src
    <3>1. z[x] = src[x]
      BY <1>2, <2>2 DEF Joint
    <3>2. E[x] = D[x]
      BY <1>3, <1>4, <2>2 DEF Joint
    <3> QED BY <2>2, <3>1, <3>2
  <2>3. ASSUME NEW m \in DOMAIN add, x = k + m PROVE z[x] = add[m] /\ E[x] = out[m]
    <3>1. z[x] = add[m]
      BY <1>2, <1>4, <2>3 DEF Joint
    <3>2. E[x] = out[m]
      BY <1>3, <1>4, <2>3 DEF Joint
    <3> QED BY <3>1, <3>2
  <2> QED BY <2>1, <2>2, <2>3
<1>6. ASSUME NEW x \in DOMAIN src
      PROVE  \E l \in DOMAIN c : /\ \E m \in DOMAIN c[l] : src[x] = c[l][m]
                                 /\ l < j /\ \A y \in DOMAIN t : l < t[y]
  <2>1. PICK l \in DOMAIN c : (\E m \in DOMAIN c[l] : src[x] = c[l][m]) /\ \A y \in DOMAIN w : l < w[y]
    BY DEF Sources
  <2> QED BY <1>1, <2>1 DEF Named
<1>7. ASSUME NEW m \in DOMAIN add PROVE m \in DOMAIN c[j] /\ add[m] = c[j][m] /\ Came(out[m], B[add[m]])
  BY <1>1 DEF Taken
<1>8. \A x \in DOMAIN z : Came(E[x], B[z[x]])
  BY <1>5, <1>7 DEF Sources
<1>9. \A x \in DOMAIN z : \E l \in DOMAIN c : /\ \E m \in DOMAIN c[l] : z[x] = c[l][m]
                                              /\ \A y \in DOMAIN t : l < t[y]
  <2> SUFFICES ASSUME NEW x \in DOMAIN z
               PROVE  \E l \in DOMAIN c : (\E m \in DOMAIN c[l] : z[x] = c[l][m]) /\ \A y \in DOMAIN t : l < t[y]
    OBVIOUS
  <2>1. CASE x \in DOMAIN src /\ z[x] = src[x]
    BY <1>6, <2>1
  <2>2. CASE \E m \in DOMAIN add : z[x] = add[m]
    BY <1>1, <1>7, <2>2
  <2> QED BY <1>5, <2>1, <2>2
<1>10. ASSUME NEW x \in DOMAIN src, NEW m \in DOMAIN add
       PROVE  /\ src[x] # add[m]
              /\ Considered(B[src[x]]) /\ Considered(B[add[m]]) /\ B[src[x]].flow = B[add[m]].flow => src[x] < add[m]
  <2>1. PICK l \in DOMAIN c : (\E n \in DOMAIN c[l] : src[x] = c[l][n]) /\ l < j
    BY <1>6
  <2>2. PICK n \in DOMAIN c[l] : src[x] = c[l][n]
    BY <2>1
  <2>3. l # j
    BY <2>1
  <2>4. src[x] # add[m]
    BY <1>7, <2>2, <2>3 DEF Once
  <2>5. Considered(B[src[x]]) /\ Considered(B[add[m]]) /\ B[src[x]].flow = B[add[m]].flow => src[x] < add[m]
    BY <1>7, <2>1, <2>2 DEF UdpOrdered
  <2> QED BY <2>4, <2>5
<1>11. ASSUME NEW m \in DOMAIN add, NEW n \in DOMAIN add
       PROVE  /\ m # n => add[m] # add[n]
              /\ m < n /\ Considered(B[add[m]]) /\ Considered(B[add[n]]) /\ B[add[m]].flow = B[add[n]].flow
                 => add[m] < add[n]
  <2>1. m # n => add[m] # add[n]
    BY <1>7 DEF Once
  <2>2. m < n /\ Considered(B[add[m]]) /\ Considered(B[add[n]]) /\ B[add[m]].flow = B[add[n]].flow
        => add[m] < add[n]
    BY <1>7 DEF UdpOrdered
  <2> QED BY <2>1, <2>2
<1>12. ASSUME NEW x \in DOMAIN z, NEW y \in DOMAIN z
       PROVE  /\ x # y => z[x] # z[y]
              /\ x < y /\ Considered(B[z[x]]) /\ Considered(B[z[y]]) /\ B[z[x]].flow = B[z[y]].flow => z[x] < z[y]
  <2>1. CASE x \in DOMAIN src /\ z[x] = src[x]
    <3>1. CASE y \in DOMAIN src /\ z[y] = src[y]
      BY <2>1, <3>1 DEF Sources
    <3>2. CASE \E m \in DOMAIN add : z[y] = add[m]
      BY <1>10, <2>1, <3>2
    <3> QED BY <1>5, <3>1, <3>2
  <2>2. CASE \E m \in DOMAIN add : x = k + m /\ z[x] = add[m]
    <3>1. PICK m \in DOMAIN add : x = k + m /\ z[x] = add[m]
      BY <2>2
    <3>2. CASE y \in DOMAIN src /\ z[y] = src[y]
      <4>1. ~ (x < y)
        BY <1>4, <3>1, <3>2
      <4> QED BY <1>10, <3>1, <3>2, <4>1
    <3>3. CASE \E n \in DOMAIN add : y = k + n /\ z[y] = add[n]
      <4>1. PICK n \in DOMAIN add : y = k + n /\ z[y] = add[n]
        BY <3>3
      <4>2. (x # y => m # n) /\ (x < y => m < n)
        BY <1>4, <3>1, <4>1
      <4> QED BY <1>11, <3>1, <4>1, <4>2
    <3> QED BY <1>5, <3>2, <3>3
  <2> QED BY <1>5, <2>1, <2>2
<1>13. Len(E) = Len(z)
  BY <1>2, <1>3, <1>4 DEF Joint, Taken
<1>14. Sources(B, E, c, t, z)
  BY <1>2, <1>3, <1>8, <1>9, <1>12, <1>13 DEF Sources
<1>15. QED
  BY <1>2, <1>3, <1>14

\* every buffer is still in the kernel, or all its packets came out
Delivered(c, w, src) ==
  \A j \in DOMAIN c : c[j] # <<>> => Named(w, j) \/ \A m \in DOMAIN c[j] : Named(src, c[j][m])

\* while Read takes the buffers from the kernel
ReadPhase(c, w, src) ==
  /\ Chains(batch, tunBufs, c, vnetHdr)
  /\ Queue(w, c) /\ Holds(kernel, tunBufs, w)
  /\ Sources(batch, delivered, c, w, src)
  /\ ~ lost => Delivered(c, w, src)

\* When Write returns nothing has been read.
LEMMA ReadingBegins ==
  ASSUME NEW c, NEW w, WritePhase(c, w), delivered = <<>>, WriteReturns
  PROVE  ReadPhase(c, w, <<>>)'
<1>1. /\ batch' = batch /\ tunBufs' = tunBufs /\ vnetHdr' = vnetHdr /\ kernel' = kernel /\ delivered' = <<>>
      /\ lost' = lost /\ toWrite = <<>>
  BY DEF WriteReturns
<1>2. PICK e : e = <<>>
  OBVIOUS
<1>3. e \in Seq(DOMAIN batch) /\ e \in Seq(TunPackets) /\ DOMAIN e = {} /\ Len(e) = 0
  BY <1>2
<1>4. Sources(batch, e, c, w, e)
  BY <1>3 DEF Sources
<1>5. ~ lost => Delivered(c, w, e)
  <2>1. ~ lost => Covered(c, w, e)
    BY <1>1, <1>2 DEF WritePhase
  <2> QED BY <1>3, <2>1 DEF Covered, Delivered, Named
<1>6. QED
  BY <1>1, <1>2, <1>4, <1>5 DEF WritePhase, ReadPhase

\* Read cuts the first buffer up and delivers its packets.
LEMMA ReadStep ==
  ASSUME NEW c, NEW w, NEW src, ReadPhase(c, w, src), vnetHdr \in BOOLEAN, lost \in BOOLEAN,
         NEW nbufs \in Nat \ {0}, Read(nbufs)
  PROVE  \E u, z : ReadPhase(c, u, z)'
<1>1. PICK B, T, v, K, D : B = batch /\ T = tunBufs /\ v = vnetHdr /\ K = kernel /\ D = delivered
  OBVIOUS
<1>2. PICK b, out : b = Head(K) /\ out = ReadOut(b, v, nbufs)
  OBVIOUS
<1>3. /\ batch' = B /\ tunBufs' = T /\ vnetHdr' = v /\ kernel' = Tail(K) /\ K # <<>>
      /\ delivered' = D \o out
      /\ lost' = (lost \/ Len(b.pkt.data) # Len(FlattenSeq([m \in DOMAIN out |-> out[m].data])))
  BY <1>1, <1>2 DEF Read, ReadOut
<1>4. /\ Chains(B, T, c, v) /\ Queue(w, c) /\ Holds(K, T, w) /\ Sources(B, D, c, w, src)
      /\ ~ lost => Delivered(c, w, src)
  BY <1>1 DEF ReadPhase
<1>5. /\ T \in Seq(TunBuffers) /\ DOMAIN T = DOMAIN c /\ DOMAIN c \subseteq Nat /\ c \in Seq(Seq(DOMAIN B))
      /\ Batched(B) /\ Once(c) /\ UdpOrdered(B, c)
  BY <1>4 DEF Chains
<1>6. K \in Seq(TunBuffers) /\ Len(K) = Len(w) /\ w \in Seq(DOMAIN c) /\ w # <<>>
  <2>1. K \in Seq(TunBuffers) /\ Len(K) = Len(w) /\ w \in Seq(DOMAIN c)
    BY <1>4 DEF Holds, Queue
  <2>2. Len(K) # 0
    BY <1>3, <2>1
  <2> QED BY <2>1, <2>2
<1>7. /\ Tail(w) \in Seq(DOMAIN c) /\ Shorter(w, Tail(w)) /\ 1 \in DOMAIN w
      /\ Tail(K) \in Seq(TunBuffers) /\ Shorter(K, Tail(K)) /\ Head(K) = K[1]
  BY <1>3, <1>6, TailShorter
<1>8. PICK t \in Seq(DOMAIN c), M \in Seq(TunBuffers) : t = Tail(w) /\ M = Tail(K) /\ Shorter(w, t) /\ Shorter(K, M)
  BY <1>7
<1>9. PICK j \in DOMAIN c : j = w[1] /\ b = T[j] /\ c[j] # <<>>
  BY <1>2, <1>4, <1>7 DEF Queue, Holds
<1>10. PICK ch \in Seq(DOMAIN B) : ch = c[j]
  BY <1>5
<1>11. SplitsInto(B, ch, b, out)
  <2>1. Ready(B, b, ch, v) /\ b \in TunBuffers /\ v \in BOOLEAN
    BY <1>1, <1>4, <1>5, <1>9, <1>10 DEF Chains
  <2> QED BY <1>2, <1>5, <1>9, <1>10, <2>1, ReadSplits
<1>12. /\ Queue(t, c)
       /\ \A y \in DOMAIN t : w[1] < t[y]
       /\ \A y \in DOMAIN t : Named(w, t[y])
       /\ \A l : Named(w, l) => l = w[1] \/ Named(t, l)
  BY <1>4, <1>5, <1>8, QueueTail
<1>13. Holds(M, T, t)
  <2>1. PICK n \in Nat : n = Len(t) /\ DOMAIN t = 1..n /\ DOMAIN w = 1..(n + 1) /\ \A x \in 1..n : t[x] = w[x + 1]
    <3>1. PICK n \in Nat : n = Len(t)
      OBVIOUS
    <3> QED BY <1>8, <3>1 DEF Shorter
  <2>2. Len(M) = n /\ \A x \in 1..n : M[x] = K[x + 1]
    <3>1. PICK l \in Nat : l = Len(M)
      OBVIOUS
    <3>2. l + 1 = n + 1 /\ DOMAIN M = 1..l
      BY <1>6, <1>8, <2>1, <3>1 DEF Shorter
    <3>3. l = n
      BY <3>2
    <3> QED BY <1>8, <3>1, <3>2, <3>3 DEF Shorter
  <2>3. \A x \in 1..n : x + 1 \in 1..(n + 1)
    OBVIOUS
  <2> QED BY <1>4, <2>1, <2>2, <2>3 DEF Holds
<1>14. PICK add \in Seq(DOMAIN B) : /\ Len(add) = Len(out) /\ Len(add) <= Len(ch)
                                    /\ \A m \in DOMAIN add : m \in DOMAIN ch /\ add[m] = ch[m]
                                    /\ Len(out) = Len(ch) => DOMAIN add = DOMAIN ch
  <2>1. PICK n \in Nat, r \in Nat : n = Len(ch) /\ r \in 0..n /\ r = Len(out) /\ DOMAIN ch = 1..n
    <3>1. Len(ch) \in Nat /\ DOMAIN ch = 1..Len(ch) /\ Len(out) \in 0..Len(ch)
      BY <1>11 DEF SplitsInto
    <3>2. PICK n \in Nat : n = Len(ch)
      BY <3>1
    <3>3. PICK r \in 0..n : r = Len(out)
      BY <3>1, <3>2
    <3>4. r \in Nat
      OBVIOUS
    <3> QED BY ONLY <3>1, <3>2, <3>3, <3>4, n \in Nat, r \in 0..n
  <2>2. PICK add : add = [m \in 1..r |-> ch[m]]
    OBVIOUS
  <2>3. \A m \in 1..r : m \in 1..n /\ ch[m] \in DOMAIN B
    BY <2>1
  <2>4. add \in [1..r -> DOMAIN B] /\ r \in Nat
    BY <2>2, <2>3
  <2>5. add \in Seq(DOMAIN B) /\ Len(add) = r /\ DOMAIN add = 1..r
    BY ONLY <2>4
  <2>6. \A m \in DOMAIN add : m \in DOMAIN ch /\ add[m] = ch[m]
    BY <2>1, <2>2, <2>3, <2>5
  <2>7. Len(add) <= Len(ch) /\ (Len(out) = Len(ch) => DOMAIN add = DOMAIN ch)
    BY <2>1, <2>5
  <2> QED BY ONLY <2>1, <2>5, <2>6, <2>7, Zenon
<1>15. Taken(B, c, j, out, add)
  BY <1>9, <1>10, <1>11, <1>14 DEF Taken, SplitsInto
<1>16. Sources(B, D \o out, c, t, src \o add)
  BY <1>4, <1>5, <1>8, <1>9, <1>12, <1>15, SourcesGrow
<1>17. ~ lost' => Delivered(c, t, src \o add)
  <2> SUFFICES ASSUME ~ lost' PROVE Delivered(c, t, src \o add)
    OBVIOUS
  <2>1. ~ lost /\ Len(b.pkt.data) = Len(FlattenSeq([m \in DOMAIN out |-> out[m].data]))
    BY <1>3
  <2>2. Len(out) = Len(ch) /\ DOMAIN add = DOMAIN ch
    BY <1>11, <1>14, <2>1 DEF SplitsInto
  <2>3. PICK z : z = src \o add /\ Joint(src, add, z)
    BY <1>4, JointIs DEF Sources
  <2>4. ASSUME NEW a, Named(src, a) PROVE Named(z, a)
    BY <2>3, <2>4 DEF Joint, Named
  <2>5. ASSUME NEW m \in DOMAIN c[j] PROVE Named(z, c[j][m])
    <3>1. m \in DOMAIN add /\ add[m] = c[j][m]
      BY <1>10, <1>14, <2>2
    <3> QED BY <2>3, <3>1 DEF Joint, Named
  <2>6. Delivered(c, t, z)
    BY <1>4, <1>9, <1>12, <2>1, <2>4, <2>5 DEF Delivered
  <2> QED BY <2>3, <2>6
<1>18. ReadPhase(c, t, src \o add)'
  BY <1>3, <1>4, <1>8, <1>12, <1>13, <1>16, <1>17 DEF ReadPhase
<1>19. QED
  BY <1>18

-----------------------------------------------------------------------------
(* The item slices of the tables                                           *)

KeysOf(I, x) == {k \in DOMAIN I : k[1] = x}

\* every slice is in the pool or in a table, and there are no more flows than packets
SlicesPooled(B, I, P) ==
  /\ P \in [Protos -> Nat]
  /\ IsFiniteSet(DOMAIN I) /\ Cardinality(DOMAIN I) <= Len(B)
  /\ \A x \in Protos : P[x] + Cardinality(KeysOf(I, x)) = IdealBatchSize

\* A packet takes at most one slice, and the pool has one.
LEMMA PoolStep ==
  ASSUME NEW B, NEW I, NEW P, SlicesPooled(B, I, P), Len(B) \in Nat, Len(B) < IdealBatchSize, NEW k, k[1] \in Protos, NEW s,
         NEW C, Len(C) = Len(B) + 1, NEW J, J = With(I, k, s),
         NEW Q, Q = IF k \in DOMAIN I THEN P ELSE [P EXCEPT ![k[1]] = @ - 1]
  PROVE  SlicesPooled(C, J, Q)
<1>1. DOMAIN J = DOMAIN I \cup {k}
  BY DEF With
<1>2. PICK K : K = DOMAIN I /\ IsFiniteSet(K)
  BY DEF SlicesPooled
<1>3. PICK n \in Nat, l \in Nat, N \in Nat : n = Cardinality(K) /\ l = Len(B) /\ n <= l /\ N = IdealBatchSize /\ l < N
  BY <1>2, OffloadBounds, FS_CardinalityType DEF SlicesPooled
<1>4. /\ IsFiniteSet(K \cup {k})
      /\ Cardinality(K \cup {k}) = IF k \in K THEN n ELSE n + 1
  BY <1>2, <1>3, FS_AddElement
<1>5. IsFiniteSet(DOMAIN J) /\ Cardinality(DOMAIN J) <= Len(C)
  BY <1>1, <1>2, <1>3, <1>4
<1>6. CASE k \in DOMAIN I
  <2>1. DOMAIN J = DOMAIN I /\ Q = P
    BY <1>1, <1>6
  <2>2. \A x : KeysOf(J, x) = KeysOf(I, x)
    BY <2>1 DEF KeysOf
  <2> QED BY <1>5, <2>1, <2>2 DEF SlicesPooled
<1>7. CASE k \notin DOMAIN I
  <2>1. PICK y \in Protos : y = k[1]
    OBVIOUS
  <2>2. ASSUME NEW x \in Protos
        PROVE  /\ IsFiniteSet(KeysOf(I, x)) /\ Cardinality(KeysOf(I, x)) \in Nat
               /\ Cardinality(KeysOf(I, x)) <= n
    <3>1. PICK S \in SUBSET K : S = KeysOf(I, x)
      BY <1>2 DEF KeysOf
    <3>2. IsFiniteSet(S) /\ Cardinality(S) <= Cardinality(K)
      BY <1>2, FS_Subset
    <3>3. Cardinality(S) \in Nat
      BY <3>2, FS_CardinalityType
    <3> QED BY <1>3, <3>1, <3>2, <3>3
  <2>3. Q = [P EXCEPT ![y] = P[y] - 1]
    BY <1>7, <2>1
  <2>4. PICK a \in Nat : a = P[y] /\ P \in [Protos -> Nat]
    BY DEF SlicesPooled
  <2>5. a - 1 \in Nat
    <3>1. PICK e \in Nat : e = Cardinality(KeysOf(I, y)) /\ e <= n
      BY <2>2
    <3>2. a + e = N
      BY <1>3, <2>4, <3>1 DEF SlicesPooled
    <3> QED BY <1>3, <3>1, <3>2
  <2>6. Q \in [Protos -> Nat] /\ Q[y] = a - 1 /\ \A x \in Protos : x # y => Q[x] = P[x]
    BY <2>3, <2>4, <2>5
  <2>7. ASSUME NEW x \in Protos PROVE Q[x] + Cardinality(KeysOf(J, x)) = IdealBatchSize
    <3>1. P[x] + Cardinality(KeysOf(I, x)) = IdealBatchSize
      BY DEF SlicesPooled
    <3>2. CASE x # y
      <4>1. KeysOf(J, x) = KeysOf(I, x)
        BY <1>1, <2>1, <3>2 DEF KeysOf
      <4> QED BY <2>6, <3>1, <3>2, <4>1
    <3>3. CASE x = y
      <4>1. PICK S : S = KeysOf(I, y) /\ IsFiniteSet(S)
        BY <2>2
      <4>2. k \notin S
        BY <1>7, <4>1 DEF KeysOf
      <4>3. KeysOf(J, x) = S \cup {k}
        BY <1>1, <2>1, <3>3, <4>1 DEF KeysOf
      <4>4. Cardinality(S \cup {k}) = Cardinality(S) + 1
        BY <4>1, <4>2, FS_AddElement
      <4>5. PICK e \in Nat : e = Cardinality(S)
        BY <2>2, <4>1
      <4>6. a + e = IdealBatchSize /\ (a - 1) + (e + 1) = a + e
        BY <2>4, <3>1, <3>3, <4>1, <4>5
      <4> QED BY <2>6, <3>3, <4>3, <4>4, <4>5, <4>6
    <3> QED BY <3>2, <3>3
  <2> QED BY <1>5, <2>6, <2>7 DEF SlicesPooled
<1>8. QED
  BY <1>6, <1>7

NoItems == [k \in {} |-> <<>>]

\* With no item in the tables all slices are free.
LEMMA PoolFull ==
  ASSUME NEW B, Len(B) \in Nat, NEW P, P = [x \in Protos |-> IdealBatchSize]
  PROVE  SlicesPooled(B, NoItems, P)
<1>1. DOMAIN NoItems = {} /\ \A x : KeysOf(NoItems, x) = {}
  BY DEF NoItems, KeysOf
<1>2. IsFiniteSet({}) /\ Cardinality({}) = 0
  BY FS_EmptySet
<1>3. IdealBatchSize \in Nat
  BY OffloadBounds
<1>4. P \in [Protos -> Nat] /\ \A x \in Protos : P[x] = IdealBatchSize
  BY <1>3
<1>5. IsFiniteSet(DOMAIN NoItems) /\ Cardinality(DOMAIN NoItems) = 0 /\ 0 <= Len(B)
  BY <1>1, <1>2
<1>6. ASSUME NEW x \in Protos PROVE P[x] + Cardinality(KeysOf(NoItems, x)) = IdealBatchSize
  <2>1. Cardinality(KeysOf(NoItems, x)) = 0 /\ P[x] = IdealBatchSize
    BY <1>1, <1>2, <1>4
  <2> QED BY <1>3, <2>1
<1>7. QED
  BY <1>4, <1>5, <1>6 DEF SlicesPooled

\* reset gives every slice back.
LEMMA PoolReset ==
  ASSUME SlicesPooled(batch, itemsByFlow, itemsPool), Len(batch) \in Nat, reset
  PROVE  itemsByFlow' = NoItems /\ SlicesPooled(batch, NoItems, itemsPool')
<1>1. itemsByFlow' = NoItems
  BY DEF reset, NoItems
<1>2. itemsPool' = [x \in Protos |-> itemsPool[x] + Cardinality(KeysOf(itemsByFlow, x))]
  BY DEF reset, KeysOf
<1>3. itemsPool' = [x \in Protos |-> IdealBatchSize]
  BY <1>2 DEF SlicesPooled
<1>4. QED
  BY <1>1, <1>3, PoolFull

-----------------------------------------------------------------------------
(* The inductive invariant of the offload                                  *)

OffloadInv ==
  /\ tphase \in {"gro", "write", "read"}
  /\ vnetHdr \in BOOLEAN /\ udpGSO \in BOOLEAN /\ lost \in BOOLEAN /\ (udpGSO => vnetHdr)
  /\ SlicesPooled(batch, itemsByFlow, itemsPool)
  /\ tphase = "gro" => (\E c : GroPhase(c)) /\ kernel = <<>> /\ delivered = <<>> /\ ~ lost
  /\ tphase = "write" => (\E c, w : WritePhase(c, w)) /\ delivered = <<>>
  /\ tphase = "read" => (\E c, w, src : ReadPhase(c, w, src)) /\ toWrite = <<>> /\ itemsByFlow = NoItems

\* Before the first packet of a batch.
LEMMA GroBegins ==
  ASSUME NEW v, NEW u
  PROVE  /\ GroInv(<<>>, <<>>, NoItems, <<>>, v, u)
         /\ Placed(<<>>, DOMAIN <<>>) /\ Lined(<<>>, <<>>)
<1>1. PICK e, I : e = <<>> /\ I = NoItems /\ DOMAIN I = {}
  BY DEF NoItems
<1>2. DOMAIN e = {} /\ Len(e) = 0 /\ \A S : e \in Seq(S)
  BY <1>1
<1>3. I \in [DOMAIN I -> Seq(ItemRecords)]
  BY <1>1 DEF NoItems
<1>4. Batched(e)
  BY <1>2 DEF Batched
<1>5. PICK U : U = Seq(DOMAIN e)
  OBVIOUS
<1>6. e \in Seq(U)
  BY <1>2
<1>7. ChainTypes(e, e, I, e)
  BY <1>2, <1>3, <1>4, <1>5, <1>6 DEF ChainTypes
<1>8. Once(e) /\ UdpOrdered(e, e) /\ Placed(e, DOMAIN e) /\ Lined(e, e)
  BY <1>2 DEF Once, UdpOrdered, Placed, Lined
<1>9. ItemsOK(e, e, I, e) /\ ItemsApart(I) /\ OthersOK(e, e, I, e, v) /\ UdpHeld(e, I, e, u)
  BY <1>1, <1>2 DEF ItemsOK, ItemsApart, OthersOK, UdpHeld
<1>10. GroInv(e, e, I, e, v, u)
  BY <1>1, <1>7, <1>8, <1>9 DEF GroInv
<1>11. QED
  BY <1>1, <1>8, <1>10

\* The invariant holds initially.
LEMMA OffloadInvInit ==
  ASSUME OffloadInit
  PROVE  OffloadInv
<1>1. itemsByFlow = NoItems /\ batch = <<>> /\ tunBufs = <<>> /\ toWrite = <<>> /\ kernel = <<>> /\ delivered = <<>>
  BY DEF OffloadInit, NoItems
<1>2. GroPhase(<<>>)
  BY <1>1, GroBegins DEF GroPhase
<1>3. SlicesPooled(batch, itemsByFlow, itemsPool)
  <2>1. Len(batch) \in Nat
    BY <1>1
  <2>2. itemsPool = [x \in Protos |-> IdealBatchSize]
    BY DEF OffloadInit
  <2> QED BY <1>1, <2>1, <2>2, PoolFull
<1>4. /\ tphase = "gro" /\ vnetHdr \in BOOLEAN /\ udpGSO \in BOOLEAN /\ lost = FALSE /\ (udpGSO => vnetHdr)
  BY DEF OffloadInit
<1>5. QED
  BY <1>1, <1>2, <1>3, <1>4 DEF OffloadInv

\* The length of the batch, in every phase.
LEMMA OffloadSizes ==
  ASSUME OffloadInv
  PROVE  /\ Len(batch) \in Nat /\ Len(tunBufs) = Len(batch) /\ DOMAIN tunBufs = 1..Len(batch)
         /\ DOMAIN toWrite \subseteq Nat /\ \A x \in DOMAIN toWrite : toWrite[x] \in DOMAIN tunBufs
<1>1. tphase = "gro" \/ tphase = "write" \/ tphase = "read"
  BY DEF OffloadInv
<1>2. CASE tphase = "gro"
  <2>1. PICK c : GroPhase(c)
    BY <1>2 DEF OffloadInv
  <2>2. /\ batch \in Seq(TunPackets) /\ tunBufs \in Seq(TunBuffers) /\ Len(tunBufs) = Len(batch) /\ c \in Seq(Seq(DOMAIN batch))
        /\ Len(c) = Len(batch) /\ toWrite \in Seq(DOMAIN c)
    BY <2>1 DEF GroPhase, GroInv, ChainTypes, Batched, Lined
  <2>3. DOMAIN c = 1..Len(batch) /\ DOMAIN tunBufs = 1..Len(batch) /\ Len(batch) \in Nat
    BY <2>2
  <2> QED BY <2>2, <2>3
<1>3. CASE tphase = "write"
  <2>1. PICK c, w : WritePhase(c, w)
    BY <1>3 DEF OffloadInv
  <2>2. /\ batch \in Seq(TunPackets) /\ tunBufs \in Seq(TunBuffers) /\ Len(tunBufs) = Len(batch) /\ c \in Seq(Seq(DOMAIN batch))
        /\ Len(c) = Len(batch) /\ toWrite \in Seq(DOMAIN c)
    BY <2>1 DEF WritePhase, Chains, Batched, Queue
  <2>3. DOMAIN c = 1..Len(batch) /\ DOMAIN tunBufs = 1..Len(batch) /\ Len(batch) \in Nat
    BY <2>2
  <2> QED BY <2>2, <2>3
<1>4. CASE tphase = "read"
  <2>1. PICK c, w, src : ReadPhase(c, w, src)
    BY <1>4 DEF OffloadInv
  <2>2. batch \in Seq(TunPackets) /\ tunBufs \in Seq(TunBuffers) /\ Len(tunBufs) = Len(batch)
    BY <2>1 DEF ReadPhase, Chains, Batched
  <2>3. DOMAIN tunBufs = 1..Len(batch) /\ Len(batch) \in Nat
    BY <2>2
  <2>4. DOMAIN toWrite = {}
    BY <1>4 DEF OffloadInv
  <2> QED BY <2>2, <2>3, <2>4
<1>5. QED
  BY <1>1, <1>2, <1>3, <1>4

\* A turn of handleGRO keeps the slices.
LEMMA HandlePool ==
  ASSUME OffloadInv, NEW p, handleGRO(p)
  PROVE  SlicesPooled(batch', itemsByFlow', itemsPool')
<1>1. PICK c : GroPhase(c)
  BY DEF OffloadInv, handleGRO
<1>2. PICK B, I, P : B = batch /\ I = itemsByFlow /\ P = itemsPool
  OBVIOUS
<1>3. SlicesPooled(B, I, P) /\ Len(B) \in Nat /\ Len(B) < IdealBatchSize
  BY <1>2, OffloadSizes DEF OffloadInv, handleGRO
<1>4. PICK C : C = batch' /\ Len(C) = Len(B) + 1
  <2>1. \E q : batch' = Append(batch, q)
    BY DEF handleGRO
  <2>2. PICK q : batch' = Append(B, q)
    BY <1>2, <2>1
  <2>3. B \in Seq(TunPackets \cup {q})
    BY <1>1, <1>2 DEF GroPhase, GroInv, ChainTypes, Batched
  <2>4. Len(Append(B, q)) = Len(B) + 1
    BY <2>3, AppendProperties, q \in TunPackets \cup {q}
  <2> QED BY <2>2, <2>4
<1>5. CASE UNCHANGED <<itemsByFlow, itemsPool>>
  <2>1. SlicesPooled(C, I, P)
    <3>1. PICK l \in Nat : l = Len(B)
      BY <1>3
    <3>2. Cardinality(DOMAIN I) \in Nat /\ Cardinality(DOMAIN I) <= l
      BY <1>3, <3>1, FS_CardinalityType DEF SlicesPooled
    <3>3. Cardinality(DOMAIN I) <= l + 1
      BY <3>2
    <3> QED BY <1>3, <1>4, <3>1, <3>3 DEF SlicesPooled
  <2> QED BY <1>2, <1>4, <1>5, <2>1
<1>6. CASE \E q, s : /\ batch' = Append(batch, q) /\ q.proto \in Protos /\ SetItems(FlowKey(q), s)
  <2>1. PICK q, s : q.proto \in Protos /\ SetItems(FlowKey(q), s)
    BY <1>6
  <2>2. PICK k : k = FlowKey(q) /\ k[1] \in Protos
    BY <2>1 DEF FlowKey
  <2>3. PICK J, Q : J = itemsByFlow' /\ Q = itemsPool'
    OBVIOUS
  <2>4. J = With(I, k, s) /\ Q = IF k \in DOMAIN I THEN P ELSE [P EXCEPT ![k[1]] = @ - 1]
    BY <1>2, <2>1, <2>2, <2>3 DEF SetItems, With
  <2>5. SlicesPooled(C, J, Q)
    BY <1>3, <1>4, <2>2, <2>4, PoolStep
  <2> QED BY <1>4, <2>3, <2>5
<1>7. QED
  BY <1>1, <1>5, <1>6, HandleTables

\* Every step keeps the invariant.
LEMMA OffloadInvStep ==
  ASSUME OffloadInv, OffloadNext
  PROVE  OffloadInv'
<1> USE DEF OffloadInv
<1>1. ASSUME NEW p \in TunPacket, handleGRO(p) PROVE OffloadInv'
  <2>1. PICK c : GroPhase(c)
    BY <1>1 DEF handleGRO
  <2>2. Handled(batch')
    BY <1>1, <2>1, HandleStep
  <2>3. UNCHANGED <<tphase, vnetHdr, udpGSO, kernel, delivered, lost>> /\ tphase = "gro"
    BY <1>1 DEF handleGRO
  <2>4. (\E d : GroPhase(d))'
    <3>1. PICK d : /\ GroInv(batch', tunBufs', itemsByFlow', d, vnetHdr, udpGSO)
                   /\ Placed(d, DOMAIN batch') /\ Lined(toWrite', d)
      BY <2>2 DEF Handled
    <3>2. GroPhase(d)'
      BY <2>3, <3>1 DEF GroPhase
    <3> QED BY <3>2
  <2>5. SlicesPooled(batch', itemsByFlow', itemsPool')
    BY <1>1, HandlePool
  <2> QED BY <2>3, <2>4, <2>5
<1>2. ASSUME applyCoalesceAccounting PROVE OffloadInv'
  <2>1. PICK c : GroPhase(c)
    BY <1>2 DEF applyCoalesceAccounting
  <2>2. /\ UNCHANGED <<vnetHdr, udpGSO, batch, itemsByFlow, itemsPool, toWrite, kernel, delivered, lost>>
        /\ tphase = "gro" /\ tphase' = "write"
    BY <1>2 DEF applyCoalesceAccounting
  <2>3. WritePhase(c, <<>>)'
    BY <1>2, <2>1, <2>2, WritingBegins
  <2> QED BY <2>2, <2>3
<1>3. ASSUME NEW result \in {"ok", "failed", "closed"}, WriteOne(result) PROVE OffloadInv'
  <2>1. /\ UNCHANGED <<tphase, vnetHdr, udpGSO, batch, tunBufs, itemsByFlow, itemsPool, delivered>> /\ tphase = "write"
        /\ lost' \in BOOLEAN
    BY <1>3 DEF WriteOne
  <2>2. PICK c, w : WritePhase(c, w)
    BY <2>1
  <2>3. \E u : WritePhase(c, u)'
    BY <1>3, <2>2, WriteStep
  <2> QED BY <2>1, <2>3
<1>4. ASSUME WriteReturns PROVE OffloadInv'
  <2>1. /\ UNCHANGED <<vnetHdr, udpGSO, batch, tunBufs, toWrite, kernel, delivered, lost>>
        /\ tphase = "write" /\ tphase' = "read" /\ toWrite = <<>> /\ reset
    BY <1>4 DEF WriteReturns
  <2>2. PICK c, w : WritePhase(c, w)
    BY <2>1
  <2>3. ReadPhase(c, w, <<>>)'
    BY <1>4, <2>1, <2>2, ReadingBegins
  <2>4. itemsByFlow' = NoItems /\ SlicesPooled(batch, NoItems, itemsPool')
    BY <2>1, OffloadSizes, PoolReset
  <2> QED BY <2>1, <2>3, <2>4
<1>5. ASSUME NEW nbufs \in Segs, Read(nbufs) PROVE OffloadInv'
  <2>1. /\ UNCHANGED <<tphase, vnetHdr, udpGSO, batch, tunBufs, itemsByFlow, itemsPool, toWrite>> /\ tphase = "read"
        /\ lost' \in BOOLEAN
    BY <1>5 DEF Read
  <2>2. PICK c, w, src : ReadPhase(c, w, src)
    BY <2>1
  <2>3. nbufs \in Nat \ {0}
    BY <1>5, OffloadBounds
  <2>4. \E u, z : ReadPhase(c, u, z)'
    BY <1>5, <2>2, <2>3, ReadStep
  <2> QED BY <2>1, <2>4
<1>6. ASSUME NextBatch PROVE OffloadInv'
  <2>1. /\ UNCHANGED <<vnetHdr, udpGSO, itemsByFlow, itemsPool, toWrite, kernel>> /\ tphase = "read" /\ tphase' = "gro"
        /\ kernel = <<>> /\ batch' = <<>> /\ tunBufs' = <<>> /\ delivered' = <<>> /\ lost' = FALSE
    BY <1>6 DEF NextBatch
  <2>2. toWrite = <<>> /\ itemsByFlow = NoItems
    BY <2>1
  <2>3. GroPhase(<<>>)'
    <3>1. PICK v, u : v = vnetHdr' /\ u = udpGSO'
      OBVIOUS
    <3>2. GroInv(<<>>, <<>>, NoItems, <<>>, v, u) /\ Placed(<<>>, DOMAIN <<>>) /\ Lined(<<>>, <<>>)
      BY GroBegins
    <3> QED BY <2>1, <2>2, <3>1, <3>2 DEF GroPhase
  <2>4. SlicesPooled(<<>>, NoItems, itemsPool)
    <3>1. SlicesPooled(batch, NoItems, itemsPool)
      BY <2>2
    <3>2. DOMAIN NoItems = {} /\ Cardinality({}) = 0 /\ Len(<<>>) = 0
      BY FS_EmptySet DEF NoItems
    <3> QED BY <3>1, <3>2 DEF SlicesPooled
  <2> QED BY <2>1, <2>2, <2>3, <2>4
<1>7. QED
  BY <1>1, <1>2, <1>3, <1>4, <1>5, <1>6 DEF OffloadNext

\* The invariant does not depend on anything but the variables.
LEMMA OffloadInvStutter ==
  ASSUME OffloadInv, UNCHANGED offloadVars
  PROVE  OffloadInv'
<1>1. UNCHANGED <<tphase, vnetHdr, udpGSO, batch, tunBufs, itemsByFlow, itemsPool, toWrite, kernel, delivered, lost>>
  BY DEF offloadVars
<1>2. QED
  BY <1>1 DEF OffloadInv, GroPhase, WritePhase, ReadPhase

\* The invariant holds in every state of the offload.
LEMMA OffloadInvariant == OffloadSpec => []OffloadInv
<1>1. OffloadInit => OffloadInv
  BY OffloadInvInit
<1>2. OffloadInv /\ [OffloadNext]_offloadVars => OffloadInv'
  BY OffloadInvStep, OffloadInvStutter
<1>3. QED
  BY <1>1, <1>2, PTL DEF OffloadSpec

-----------------------------------------------------------------------------
(* What the offload promises                                               *)

\* The invariant gives the types and the count of the slices.
LEMMA OffloadTyped ==
  ASSUME OffloadInv
  PROVE  OffloadTypeOK
<1>1. /\ Len(tunBufs) = Len(batch) /\ \A x \in DOMAIN toWrite : toWrite[x] \in DOMAIN tunBufs
  BY OffloadSizes
<1>2. Range(toWrite) \subseteq DOMAIN tunBufs
  BY <1>1 DEF Range
<1>3. tphase \in {"off", "gro", "write", "read"} /\ {vnetHdr, udpGSO, lost} \subseteq BOOLEAN
  BY DEF OffloadInv
<1>4. \A x \in Protos : /\ itemsPool[x] \in Nat
                        /\ itemsPool[x] + Cardinality({k \in DOMAIN itemsByFlow : k[1] = x}) = IdealBatchSize
  BY DEF OffloadInv, SlicesPooled, KeysOf
<1>5. QED
  BY <1>1, <1>2, <1>3, <1>4 DEF OffloadTypeOK

\* What came out of a packet has its content; it is the packet but for checksum and PSH.
LEMMA CameSame ==
  ASSUME NEW p \in TunPackets, NEW q \in TunPackets, Came(p, q)
  PROVE  p.proto = q.proto /\ p.flow = q.flow /\ p.data = q.data /\ p.plain = q.plain
<1>1. \A x \in TunPackets : /\ Content(x).proto = x.proto /\ Content(x).flow = x.flow
                            /\ Content(x).data = x.data /\ Content(x).plain = x.plain
  BY DEF Content, TunPackets
<1>2. QED
  BY <1>1 DEF Came

\* The datagrams of a flow come out in their order.
LEMMA SourcesOrdered ==
  ASSUME NEW B, Batched(B), NEW D, NEW c, NEW w, NEW src, Sources(B, D, c, w, src), NEW x \in DOMAIN D, NEW y \in DOMAIN D,
         x < y, FlowKey(D[x]) = FlowKey(D[y]), D[x].proto = "udp",
         \A r \in {D[x], D[y]} : r.plain /\ r.data # <<>>
  PROVE  Head(D[x].data)[1] < Head(D[y].data)[1]
<1>1. src \in Seq(DOMAIN B) /\ D \in Seq(TunPackets) /\ Len(D) = Len(src) /\ B \in Seq(TunPackets)
  BY DEF Sources, Batched
<1>2. DOMAIN D = DOMAIN src
  BY <1>1
<1>3. PICK a \in DOMAIN B, b \in DOMAIN B : a = src[x] /\ b = src[y]
  BY <1>1, <1>2
<1>4. PICK p \in TunPackets, q \in TunPackets : p = D[x] /\ q = D[y]
  BY <1>1
<1>5. PICK f \in TunPackets, g \in TunPackets : f = B[a] /\ g = B[b]
  BY <1>1
<1>6. Came(p, f) /\ Came(q, g)
  BY <1>2, <1>3, <1>4, <1>5 DEF Sources
<1>7. /\ p.proto = f.proto /\ p.flow = f.flow /\ p.data = f.data /\ p.plain = f.plain
      /\ q.proto = g.proto /\ q.flow = g.flow /\ q.data = g.data /\ q.plain = g.plain
  BY <1>6, CameSame
<1>8. p.plain /\ p.data # <<>> /\ q.plain /\ q.data # <<>> /\ p.proto = "udp" /\ q.proto = "udp" /\ p.flow = q.flow
  <2>1. p.proto = q.proto /\ p.flow = q.flow
    BY <1>4 DEF FlowKey
  <2> QED BY <1>4, <2>1
<1>9. Considered(B[a]) /\ Considered(B[b]) /\ B[a].flow = B[b].flow
  BY <1>5, <1>7, <1>8 DEF Considered
<1>10. a < b
  BY <1>2, <1>3, <1>9 DEF Sources
<1>11. f.data[1] = <<a, 1>> /\ g.data[1] = <<b, 1>>
  BY <1>5, <1>7, <1>8 DEF Batched
<1>12. Head(p.data) = p.data[1] /\ Head(q.data) = q.data[1]
  <2>1. p.data \in Seq(TunTokens) /\ q.data \in Seq(TunTokens)
    BY DEF TunPackets
  <2> QED BY <1>8, <2>1
<1>13. QED
  BY <1>4, <1>7, <1>10, <1>11, <1>12

\* the packets of s with the content k
Having(s, k) == {i \in DOMAIN s : Content(s[i]) = k}

\* No content comes out more often than it went in, and none less when nothing was lost.
LEMMA SourcesCount ==
  ASSUME NEW B, Batched(B), NEW D, NEW c, NEW w, NEW src, Sources(B, D, c, w, src), NEW k
  PROVE  /\ Cardinality(Having(D, k)) <= Cardinality(Having(B, k))
         /\ (\A i \in DOMAIN B : Named(src, i)) => Cardinality(Having(D, k)) = Cardinality(Having(B, k))
<1>1. src \in Seq(DOMAIN B) /\ D \in Seq(TunPackets) /\ Len(D) = Len(src) /\ B \in Seq(TunPackets)
  BY DEF Sources, Batched
<1>2. DOMAIN D = DOMAIN src /\ DOMAIN B = 1..Len(B) /\ Len(B) \in Nat
  BY <1>1
<1>3. PICK X, Y : X = Having(D, k) /\ Y = Having(B, k)
  OBVIOUS
<1>4. PICK f : f = [x \in X |-> src[x]]
  OBVIOUS
<1>5. ASSUME NEW x \in DOMAIN src PROVE src[x] \in DOMAIN B /\ Content(D[x]) = Content(B[src[x]])
  BY <1>1 DEF Sources, Came
<1>6. f \in [X -> Y]
  BY <1>2, <1>3, <1>4, <1>5 DEF Having
<1>7. f \in Injection(X, Y)
  <2>1. ASSUME NEW x \in X, NEW y \in X, f[x] = f[y] PROVE x = y
    BY <1>2, <1>3, <1>4, <2>1 DEF Sources, Having
  <2> QED BY <1>6, <2>1 DEF Injection, IsInjective
<1>8. IsFiniteSet(Y)
  <2>1. Y \in SUBSET (1..Len(B))
    BY <1>2, <1>3 DEF Having
  <2>2. IsFiniteSet(1..Len(B))
    BY <1>2, FS_Interval
  <2> QED BY <2>1, <2>2, FS_Subset
<1>9. /\ Cardinality(X) <= Cardinality(Y)
      /\ Cardinality(X) = Cardinality(Y) <=> f \in Surjection(X, Y)
  BY <1>7, <1>8, FS_Injection
<1>10. ASSUME \A i \in DOMAIN B : Named(src, i) PROVE f \in Surjection(X, Y)
  <2>1. ASSUME NEW i \in Y PROVE \E x \in X : f[x] = i
    <3>1. i \in DOMAIN B /\ Content(B[i]) = k
      BY <1>3 DEF Having
    <3>2. PICK x \in DOMAIN src : src[x] = i
      BY <1>10, <3>1 DEF Named
    <3>3. x \in X
      BY <1>2, <1>3, <1>5, <3>1, <3>2 DEF Having
    <3> QED BY <1>4, <3>2, <3>3
  <2> QED BY <1>6, <2>1 DEF Surjection
<1>11. QED
  BY <1>3, <1>9, <1>10

\* The invariant gives both halves of transparency.
LEMMA OffloadKeeps ==
  ASSUME OffloadInv
  PROVE  OffloadTransparent
<1>1. RoundTrip
  <2> SUFFICES ASSUME Settled
               PROVE  \A k : IF lost THEN Cardinality(Having(delivered, k)) <= Cardinality(Having(batch, k))
                             ELSE Cardinality(Having(delivered, k)) = Cardinality(Having(batch, k))
    BY DEF RoundTrip, Having
  <2>1. PICK c, w, src : ReadPhase(c, w, src)
    BY DEF OffloadInv, Settled
  <2>2. /\ Chains(batch, tunBufs, c, vnetHdr) /\ Sources(batch, delivered, c, w, src) /\ Queue(w, c)
        /\ Holds(kernel, tunBufs, w) /\ (~ lost => Delivered(c, w, src))
    BY <2>1 DEF ReadPhase
  <2>3. Batched(batch) /\ Placed(c, DOMAIN batch)
    BY <2>2 DEF Chains
  <2>4. DOMAIN w = {}
    <3>1. Len(kernel) = 0 /\ Len(kernel) = Len(w) /\ w \in Seq(DOMAIN c)
      BY <2>2 DEF Holds, Queue, Settled
    <3> QED BY <3>1
  <2>5. ASSUME ~ lost, NEW i \in DOMAIN batch PROVE Named(src, i)
    <3>1. PICK j \in DOMAIN c : \E m \in DOMAIN c[j] : c[j][m] = i
      BY <2>3 DEF Placed
    <3>2. PICK m \in DOMAIN c[j] : c[j][m] = i
      BY <3>1
    <3>3. c[j] # <<>>
      BY <3>2
    <3> QED BY <2>2, <2>4, <2>5, <3>2, <3>3 DEF Delivered, Named
  <2>6. PICK B, D : B = batch /\ D = delivered
    OBVIOUS
  <2>7. ASSUME NEW k
        PROVE  /\ Cardinality(Having(D, k)) <= Cardinality(Having(B, k))
               /\ (\A i \in DOMAIN B : Named(src, i)) => Cardinality(Having(D, k)) = Cardinality(Having(B, k))
    BY <2>2, <2>3, <2>6, SourcesCount
  <2> QED BY <2>5, <2>6, <2>7
<1>2. UdpOrder
  <2>1. CASE tphase = "read"
    <3>1. PICK c, w, src : ReadPhase(c, w, src)
      BY <2>1 DEF OffloadInv
    <3>2. PICK B, D : B = batch /\ D = delivered /\ Batched(B) /\ Sources(B, D, c, w, src)
      BY <3>1 DEF ReadPhase, Chains
    <3>3. \A x, y \in DOMAIN D :
            /\ x < y /\ FlowKey(D[x]) = FlowKey(D[y]) /\ D[x].proto = "udp"
            /\ \A r \in {D[x], D[y]} : r.plain /\ r.data # <<>>
            => Head(D[x].data)[1] < Head(D[y].data)[1]
      BY <3>2, SourcesOrdered
    <3> QED BY <3>2, <3>3 DEF UdpOrder
  <2>2. CASE tphase # "read"
    <3>1. delivered = <<>>
      BY <2>2 DEF OffloadInv
    <3>2. DOMAIN delivered = {}
      BY <3>1
    <3> QED BY <3>2 DEF UdpOrder
  <2> QED BY <2>1, <2>2
<1>3. QED
  BY <1>1, <1>2 DEF OffloadTransparent

\* The invariant gives both halves of honesty.
LEMMA OffloadHides ==
  ASSUME OffloadInv
  PROVE  OffloadHonest
<1>1. NotLaundered
  <2>1. CASE tphase = "read"
    <3>1. PICK c, w, src : ReadPhase(c, w, src)
      BY <2>1 DEF OffloadInv
    <3>2. PICK B, D : B = batch /\ D = delivered /\ Sources(B, D, c, w, src)
      BY <3>1 DEF ReadPhase
    <3>3. src \in Seq(DOMAIN B) /\ D \in Seq(TunPackets) /\ Len(D) = Len(src)
      BY <3>2 DEF Sources
    <3>4. DOMAIN D = DOMAIN src
      BY <3>3
    <3>5. ASSUME NEW x \in DOMAIN D PROVE src[x] \in DOMAIN B /\ Came(D[x], B[src[x]])
      BY <3>2, <3>3, <3>4 DEF Sources
    <3> QED BY <3>2, <3>5 DEF NotLaundered, Came
  <2>2. CASE tphase # "read"
    <3>1. delivered = <<>>
      BY <2>2 DEF OffloadInv
    <3>2. DOMAIN delivered = {}
      BY <3>1
    <3> QED BY <3>2 DEF NotLaundered
  <2> QED BY <2>1, <2>2
<1>2. ASSUME NEW c, NEW w, NEW K, Chains(batch, tunBufs, c, vnetHdr), Queue(w, c), Holds(K, tunBufs, w), K = kernel
      PROVE  NoStaleHeader
  <2>1. w \in Seq(DOMAIN c) /\ K \in Seq(TunBuffers) /\ Len(K) = Len(w)
    BY <1>2 DEF Queue, Holds
  <2>2. DOMAIN K = DOMAIN w
    BY <2>1
  <2>3. ASSUME vnetHdr, NEW x \in DOMAIN w PROVE K[x].hdr # Stale
    <3>1. PICK j \in DOMAIN c, b \in TunBuffers : b = K[x] /\ j = w[x] /\ b = tunBufs[j] /\ c[j] # <<>>
      BY <1>2, <2>1, <2>2, <2>3 DEF Queue, Holds
    <3>2. Ready(batch, b, c[j], vnetHdr)
      BY <1>2, <3>1 DEF Chains
    <3>3. b.hdr = ZeroHdr \/ b.hdr.gsoType # "stale"
      BY <2>3, <3>2 DEF Ready, Unmerged, Merged
    <3>4. ZeroHdr # Stale /\ Stale.gsoType = "stale"
      BY DEF ZeroHdr, Stale
    <3> QED BY <3>1, <3>3, <3>4
  <2> QED BY <1>2, <2>2, <2>3 DEF NoStaleHeader
<1>3. NoStaleHeader
  <2>1. CASE tphase = "gro"
    <3>1. DOMAIN kernel = {}
      BY <2>1 DEF OffloadInv
    <3> QED BY <3>1 DEF NoStaleHeader
  <2>2. CASE tphase = "write"
    <3>1. PICK c, w : WritePhase(c, w)
      BY <2>2 DEF OffloadInv
    <3> QED BY <1>2, <3>1 DEF WritePhase
  <2>3. CASE tphase = "read"
    <3>1. PICK c, w, src : ReadPhase(c, w, src)
      BY <2>3 DEF OffloadInv
    <3> QED BY <1>2, <3>1 DEF ReadPhase
  <2> QED BY <2>1, <2>2, <2>3 DEF OffloadInv
<1>4. QED
  BY <1>1, <1>3 DEF OffloadHonest

\* Types of the offload; every item slice is in the pool or in a table, and newItems
\* always finds one.
THEOREM OffloadTypes == OffloadSpec => []OffloadTypeOK
  BY OffloadInvariant, OffloadTyped, PTL

\* Coalescing (handleGRO) and splitting (gsoSplit) lose, repeat, change and invent nothing,
\* whatever the batch, and keep the order of the datagrams of a flow.
THEOREM OffloadIsTransparent == OffloadSpec => []OffloadTransparent
  BY OffloadInvariant, OffloadKeeps, PTL

\* A wrong checksum is never repaired by the offload, no packet gains PSH, and the kernel
\* never reads the bytes of a message as a virtio header.
THEOREM OffloadIsHonest == OffloadSpec => []OffloadHonest
  BY OffloadInvariant, OffloadHides, PTL
=============================================================================

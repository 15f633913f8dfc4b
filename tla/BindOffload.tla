---------------------------- MODULE BindOffload ----------------------------
(***************************************************************************)
(* The sockets of StdNetBind (conn/bind_std.go) and its batched datapath.  *)
(*                                                                         *)
(* Open listens on one port for IPv4 and IPv6, Close closes both sockets.  *)
(* Send copies messages that follow one another into one message with a    *)
(* UDP_SEGMENT control, which the kernel cuts up again; when the network   *)
(* card cannot do that the kernel answers EIO, and Send turns offload off  *)
(* and sends the messages one by one.  receiveIP splits the messages that  *)
(* the kernel has put together (UDP_GRO).                                  *)
(*                                                                         *)
(* A message is a sequence of tokens that occur nowhere else, or of other  *)
(* length.  A control is 0 or the segment size it carries.                 *)
(***************************************************************************)
EXTENDS Naturals, Sequences, FiniteSets, SequencesExt

CONSTANTS
  Port,          \* port numbers; 0 stands for a port the kernel picks
  MaxTries,      \* attempts of Open, 100 in the code
  MaxMsgs,       \* IdealBatchSize
  MsgLen,        \* lengths of the messages of Send, and of datagrams that are not empty
  MaxDgrams,     \* udpSegmentMaxDatagrams
  MaxPayloadLen, \* largest UDP payload
  MsgCap,        \* capacity of a message buffer
  MaxSend,       \* bound on the messages of a call of Send
  MaxOpens       \* bound on the calls of Open

ASSUME BindBounds ==
  /\ {MaxTries, MaxMsgs, MaxDgrams, MaxPayloadLen, MsgCap, MaxSend, MaxOpens} \subseteq Nat
  /\ MsgLen \subseteq Nat \ {0}
  /\ Port \subseteq Nat \ {0} /\ Port # {}
  /\ MaxDgrams # 0 /\ MaxMsgs % MaxDgrams = 0 /\ MaxSend <= MaxMsgs

VARIABLES
  bpc,           \* Open and Close: "off", "idle", "v4", "v6", "panic"
  host,          \* the address families the host supports
  family,        \* ipv4 and ipv6: the port of the socket, or 0 for nil
  osSockets,     \* sockets that are open in the kernel
  port,          \* Open: [uport, port, tries]
  actualPort,    \* what Open returned last
  opens,
  sticky,        \* setSrcControl of Linux; FALSE for the empty one of Android
  nicOk,         \* the network card can do checksums for UDP_SEGMENT
  txOffload,     \* ipv4TxOffload
  spc,           \* Send: "idle", "msgs", "write", "eio", "done"
  snd,           \* Send: its arguments and local variables
  msgs,          \* data and control of the pooled messages
  wire,          \* history: datagrams this call has put on the wire
  rcv            \* receiveIP: the datagrams that arrived and those that came out

bindVars == <<bpc, host, family, osSockets, port, actualPort, opens, sticky, nicOk,
              txOffload, spc, snd, msgs, wire, rcv>>

openVars == <<bpc, host, family, osSockets, port, actualPort, opens>>
sendVars == <<sticky, nicOk, spc, snd, msgs, wire>>

Families == {"udp4", "udp6"}

Closed == [f \in Families |-> 0]

FreshMsgs == [i \in 1..MaxMsgs |-> [data |-> <<>>, oob |-> 0]]

NoCall == [bufs |-> <<>>, conn |-> 0, offload |-> FALSE, retried |-> FALSE,
           start |-> 1, n |-> 0, err |-> FALSE]

NoOpen == [uport |-> 0, port |-> 0, tries |-> 0]

NothingRead == [arrived |-> <<>>, out |-> <<>>, overflow |-> FALSE]

-----------------------------------------------------------------------------
(* Open on a bind that is not open; otherwise it is ErrBindAlreadyOpen.  s.mu is
   held to the end. *)
Open(uport) ==
  /\ bpc = "idle"
  /\ family = Closed
  /\ opens < MaxOpens
  /\ bpc' = "v4"
  /\ opens' = opens + 1
  /\ port' = [uport |-> uport, port |-> uport, tries |-> 0]
  /\ UNCHANGED <<host, family, osSockets, actualPort, txOffload, sendVars, rcv>>

(* A port the kernel gives to listenNet. *)
Granted(p) == IF p = 0 THEN Port ELSE {p}

(* listenNet("udp4"): without IPv4 the code goes on, with port 0. *)
ListenV4 ==
  /\ bpc = "v4"
  /\ \/ /\ "udp4" \in host
        /\ \E p \in Granted(port.port) :
             /\ osSockets' = osSockets \cup {<<"udp4", p>>}
             /\ port' = [port EXCEPT !.port = p]
        /\ bpc' = "v6"
        /\ UNCHANGED actualPort
     \/ /\ "udp4" \notin host
        /\ port' = [port EXCEPT !.port = 0]
        /\ bpc' = "v6"
        /\ UNCHANGED <<osSockets, actualPort>>
     \/ /\ "udp4" \in host            \* the port is in use
        /\ bpc' = "idle"
        /\ actualPort' = 0
        /\ port' = NoOpen
        /\ UNCHANGED osSockets
  /\ UNCHANGED <<host, family, opens, txOffload, sendVars, rcv>>

(* The sockets Open has so far. *)
Opened == {s \in osSockets : s[1] = "udp4"}

CloseV4 == osSockets \ Opened

V6Port == port.port

(* listenNet("udp6") for the port of udp4 fails.  A port in use (EADDRINUSE) is tried
   again with another one when the caller did not ask for a port; otherwise, and after
   any other error, Open returns the error.  v4conn.Close() panics when there is no
   IPv4 socket. *)
ListenV6Fails ==
  /\ bpc = "v6"
  /\ "udp6" \in host
  /\ osSockets' = CloseV4
  /\ \/ /\ Opened = {}
        /\ bpc' = "panic"
        /\ UNCHANGED <<port, actualPort>>
     \/ /\ Opened # {} /\ port.uport = 0 /\ port.tries < MaxTries
        /\ bpc' = "v4"
        /\ port' = [port EXCEPT !.port = 0, !.tries = @ + 1]
        /\ UNCHANGED actualPort
     \/ /\ Opened # {}
        /\ bpc' = "idle"
        /\ actualPort' = 0
        /\ port' = NoOpen
  /\ UNCHANGED <<host, family, opens, txOffload, sendVars, rcv>>

ListenV6 ==
  /\ bpc = "v6"
  /\ \E v6 \in IF "udp6" \in host THEN Granted(V6Port) ELSE {0} :
       LET v4 == IF Opened = {} THEN 0 ELSE (CHOOSE s \in Opened : TRUE)[2]
       IN  /\ family' = [f \in Families |-> IF f = "udp4" THEN v4 ELSE v6]
           /\ osSockets' = osSockets \cup (IF v6 = 0 THEN {} ELSE {<<"udp6", v6>>})
           /\ actualPort' = v6        \* listenNet returns 0 with an error
  /\ bpc' = "idle"
  /\ port' = NoOpen
  /\ txOffload' \in BOOLEAN           \* supportsUDPOffload
  /\ UNCHANGED <<host, opens, sendVars, rcv>>

Close ==
  /\ bpc = "idle"
  /\ family # Closed
  /\ osSockets' = {s \in osSockets : family[s[1]] = 0}
  /\ family' = Closed
  /\ txOffload' = FALSE
  /\ UNCHANGED <<bpc, host, port, actualPort, opens, sendVars, rcv>>

-----------------------------------------------------------------------------
(* Send takes a snapshot of the socket and the offload flag under s.mu. *)
Send(lens) ==
  /\ bpc = "idle"
  /\ spc = "idle"
  /\ family["udp4"] # 0
  /\ spc' = "msgs"
  /\ snd' = [NoCall EXCEPT !.bufs = [i \in DOMAIN lens |-> [j \in 1..lens[i] |-> <<i, j>>]],
                           !.conn = opens,
                           !.offload = txOffload]
  /\ wire' = <<>>
  /\ UNCHANGED <<openVars, txOffload, sticky, nicOk, msgs, rcv>>

(* setSrcControl empties the control; on Android it leaves it alone. *)
setSrcControl(oob) == IF sticky THEN 0 ELSE oob

(* setGSOSize: nothing is written when the control has no room. *)
setGSOSize(oob, gsoSize) == IF oob = 0 THEN gsoSize ELSE oob

(* The condition under which coalesceMessages appends buf to the message b. *)
Joins_NoEnd(b, buf) ==
  /\ Len(buf) + Len(b.msgs[b.base].data) <= MaxPayloadLen
  /\ Len(buf) <= b.gsoSize
  /\ Len(buf) <= MsgCap - Len(b.msgs[b.base].data)
  /\ b.dgramCnt < MaxDgrams

Joins(b, buf) ==
  /\ Len(buf) + Len(b.msgs[b.base].data) <= MaxPayloadLen
  /\ Len(buf) <= b.gsoSize
  /\ Len(buf) <= MsgCap - Len(b.msgs[b.base].data)
  /\ b.dgramCnt < MaxDgrams
  /\ ~ b.endBatch

(* One round of coalesceMessages: buf i joins the last message, or the last message is
   complete and buf i begins another one. *)
coalesceStep(bufs, b, i) ==
  LET join ==
        [b EXCEPT !.msgs[b.base].data = @ \o bufs[i],
                  !.msgs[b.base].oob = IF i = Len(bufs) THEN setGSOSize(@, b.gsoSize) ELSE @,
                  !.dgramCnt = @ + 1,
                  !.endBatch = Len(bufs[i]) < b.gsoSize]
      endBase ==
        IF b.dgramCnt > 1 THEN [b EXCEPT !.msgs[b.base].oob = setGSOSize(@, b.gsoSize)] ELSE b
      open ==
        [endBase EXCEPT !.base = @ + 1, !.gsoSize = Len(bufs[i]), !.dgramCnt = 1,
                        !.endBatch = FALSE,
                        !.msgs[b.base + 1].data = bufs[i],
                        !.msgs[b.base + 1].oob = setSrcControl(@)]
  IN  IF i > 1 /\ Joins(b, bufs[i]) THEN join ELSE open

NoBatch == [msgs |-> msgs, base |-> 0, gsoSize |-> 0, dgramCnt |-> 0, endBatch |-> FALSE]

(* The rounds of coalesceMessages. *)
coalesced(bufs) ==
  LET after[i \in 0..Len(bufs)] ==
        IF i = 0 THEN NoBatch ELSE coalesceStep(bufs, after[i - 1], i)
  IN  after

(* coalesceMessages: the messages, and how many there are. *)
coalesceMessages(bufs) == coalesced(bufs)[Len(bufs)]

PrepareMessages ==
  /\ spc = "msgs"
  /\ spc' = "write"
  /\ LET b == coalesceMessages(snd.bufs)
     IN  IF snd.offload
         THEN /\ msgs' = b.msgs
              /\ snd' = [snd EXCEPT !.start = 1, !.n = b.base]
         ELSE /\ msgs' = [i \in DOMAIN msgs |->
                            IF i \in DOMAIN snd.bufs
                            THEN [data |-> snd.bufs[i], oob |-> setSrcControl(msgs[i].oob)]
                            ELSE msgs[i]]
              /\ snd' = [snd EXCEPT !.start = 1, !.n = Len(snd.bufs)]
  /\ UNCHANGED <<openVars, txOffload, sticky, nicOk, wire, rcv>>

(* What the kernel puts on the wire for a message: UDP_SEGMENT cuts it up. *)
Segmented(m) ==
  IF m.oob = 0 THEN <<m.data>>
  ELSE [i \in 1..((Len(m.data) + m.oob - 1) \div m.oob) |->
          SubSeq(m.data, (i - 1) * m.oob + 1,
                 IF i * m.oob > Len(m.data) THEN Len(m.data) ELSE i * m.oob)]

Refused(m) == m.oob # 0 /\ ~ nicOk

SocketOpen == family["udp4"] # 0 /\ snd.conn = opens

(* WriteBatch sends some of the messages, up to one the kernel refuses. *)
WriteBatch ==
  /\ spc = "write"
  /\ SocketOpen
  /\ \E k \in snd.start..snd.n :
       /\ \A i \in snd.start..k : ~ Refused(msgs[i])
       /\ wire' = wire \o FlattenSeq([i \in 1..(k - snd.start + 1) |->
                                        Segmented(msgs[snd.start + i - 1])])
       /\ snd' = [snd EXCEPT !.start = k + 1]
       /\ spc' = IF k = snd.n THEN "done" ELSE "write"
  /\ UNCHANGED <<openVars, txOffload, sticky, nicOk, msgs, rcv>>

(* EIO.  Offload is turned off, for the sockets the bind has by now, and all
   messages are sent again. *)
Refuse ==
  /\ spc = "write"
  /\ SocketOpen
  /\ Refused(msgs[snd.start])
  /\ spc' = IF snd.offload THEN "eio" ELSE "done"
  /\ snd' = [snd EXCEPT !.err = ~ snd.offload]
  /\ UNCHANGED <<openVars, txOffload, sticky, nicOk, msgs, wire, rcv>>

DisableOffload ==
  /\ spc = "eio"
  /\ bpc = "idle"
  /\ txOffload' = FALSE
  /\ snd' = [snd EXCEPT !.offload = FALSE, !.retried = TRUE]
  /\ spc' = "msgs"
  /\ UNCHANGED <<openVars, sticky, nicOk, msgs, wire, rcv>>

(* The socket was closed under the call, or the write failed for good. *)
WriteFails ==
  /\ spc = "write"
  /\ ~ SocketOpen
  /\ spc' = "done"
  /\ snd' = [snd EXCEPT !.err = TRUE]
  /\ UNCHANGED <<openVars, txOffload, sticky, nicOk, msgs, wire, rcv>>

(* putMessages: the messages go back to the pool with empty controls. *)
putMessages == FreshMsgs

SendReturns ==
  /\ spc = "done"
  /\ spc' = "idle"
  /\ msgs' = putMessages
  /\ snd' = NoCall
  /\ wire' = <<>>
  /\ UNCHANGED <<openVars, txOffload, sticky, nicOk, rcv>>

-----------------------------------------------------------------------------
(* The place of message k of a read: the kernel fills the end of the array, so
   that the pieces fit in front. *)
PlaceOf(k) == MaxMsgs - MaxMsgs \div MaxDgrams + k

(* The message k of a read, cut at gso; gso 0 is one datagram. *)
Pieces(m) ==
  LET numToSplit == IF m.gso = 0 THEN 1 ELSE (Len(m.data) + m.gso - 1) \div m.gso
      start(j) == (j - 1) * m.gso
      end(j) == IF m.gso = 0 \/ j * m.gso > Len(m.data) THEN Len(m.data) ELSE j * m.gso
  IN  [j \in 1..numToSplit |-> SubSeq(m.data, start(j) + 1, end(j))]

(* The pieces of message k that can be stored after those already there: not
   beyond the message itself. *)
Room_Strict(k, stored) == PlaceOf(k) - 1 - stored

Room(k, stored) == PlaceOf(k) - stored

(* One round of splitCoalescedMessages: an empty message ends the read; too many
   pieces are an error, with which receiveIP returns nothing. *)
splitStep(in, r, k) ==
  LET p == Pieces(in[k])
      ends == r.end \/ in[k].data = <<>>
      over == ~ ends /\ Len(p) > Room(k, Len(r.out))
  IN  [out |-> IF ends \/ over THEN r.out ELSE r.out \o p,
       end |-> ends \/ over,
       overflow |-> r.overflow \/ over]

NoneSplit == [out |-> <<>>, end |-> FALSE, overflow |-> FALSE]

(* The rounds of splitCoalescedMessages. *)
splits(in) ==
  LET after[k \in 0..Len(in)] == IF k = 0 THEN NoneSplit ELSE splitStep(in, after[k - 1], k)
  IN  after

splitCoalescedMessages(in) == splits(in)[Len(in)]

(* What the kernel makes of datagrams of one sender: equal sizes but for the last,
   at most MaxDgrams of them.  An empty datagram stays alone. *)
Trains ==
  {<<0>>} \cup {d \in UNION {[1..k -> MsgLen] : k \in 1..MaxDgrams} :
                 \A j \in DOMAIN d : IF j < Len(d) THEN d[j] = d[1] ELSE d[j] <= d[1]}

Train(k, d) == [j \in DOMAIN d |-> [c \in 1..d[j] |-> <<k, j, c>>]]

GROMessage(t) == [data |-> FlattenSeq(t), gso |-> IF Len(t) = 1 THEN 0 ELSE Len(t[1])]

(* receiveIP with UDP_GRO. *)
Receive(trains) ==
  LET t == [k \in DOMAIN trains |-> Train(k, trains[k])]
      r == splitCoalescedMessages([k \in DOMAIN t |-> GROMessage(t[k])])
  IN  /\ bpc = "idle"
      /\ family["udp4"] # 0
      /\ spc = "idle"
      /\ rcv' = [arrived |-> FlattenSeq(t),
                 out |-> IF r.overflow THEN <<>> ELSE r.out,
                 overflow |-> r.overflow]
      /\ UNCHANGED <<openVars, txOffload, sendVars>>

ReceiveReturns ==
  /\ rcv # NothingRead
  /\ rcv' = NothingRead
  /\ UNCHANGED <<openVars, txOffload, sendVars>>

BindInit ==
  /\ bpc = "idle"
  /\ host \in SUBSET Families \ {{}}
  /\ family = Closed
  /\ osSockets = {}
  /\ port = NoOpen
  /\ actualPort = 0
  /\ opens = 0
  /\ sticky \in BOOLEAN
  /\ nicOk \in BOOLEAN
  /\ txOffload = FALSE
  /\ spc = "idle"
  /\ snd = NoCall
  /\ msgs = FreshMsgs
  /\ wire = <<>>
  /\ rcv = NothingRead

(* All calls of Open that the bound allows have been made, or one has panicked. *)
BindTerminated ==
  /\ \/ bpc = "idle" /\ spc = "idle" /\ family = Closed /\ opens = MaxOpens
     \/ bpc = "panic"
  /\ UNCHANGED bindVars

(* A read shares no state with Open, Close and Send; nothing happens within it. *)
BindNext ==
  \/ /\ rcv = NothingRead
     /\ \/ \E p \in Port \cup {0} : Open(p)
        \/ ListenV4
        \/ ListenV6
        \/ ListenV6Fails
        \/ Close
        \/ \E k \in 1..MaxSend : \E lens \in [1..k -> MsgLen] : Send(lens)
        \/ PrepareMessages
        \/ WriteBatch
        \/ Refuse
        \/ DisableOffload
        \/ WriteFails
        \/ SendReturns
        \/ \E k \in 1..(MaxMsgs \div MaxDgrams) : \E t \in [1..k -> Trains] : Receive(t)
  \/ ReceiveReturns
  \/ BindTerminated

BindSpec == BindInit /\ [][BindNext]_bindVars

-----------------------------------------------------------------------------
(* Types, and no socket is forgotten: what the kernel has open is what the bind
   knows of, except within Open (the retries close the IPv4 socket). *)
BindTypeOK ==
  /\ bpc \in {"off", "idle", "v4", "v6", "panic"}
  /\ spc \in {"idle", "msgs", "write", "eio", "done"}
  /\ DOMAIN msgs = 1..MaxMsgs
  /\ port.tries <= MaxTries
  /\ bpc = "idle" => osSockets = {<<f, family[f]>> : f \in {g \in Families : family[g] # 0}}

(* With both families the sockets have the same port, and it is the one Open
   returns, also after retries. *)
OnePort ==
  bpc = "idle" /\ (\A f \in Families : family[f] # 0)
    => \A f \in Families : family[f] = actualPort

(* When Send returns without an error, every message went out once, whole and in
   order; before a retry, a part of them went out already. *)
SentIntact ==
  spc = "done" /\ ~ snd.err =>
    \E k \in 0..Len(snd.bufs) :
      /\ wire = SubSeq(snd.bufs, 1, k) \o snd.bufs
      /\ k > 0 => snd.retried

(* With the controls of Linux, the retry after EIO does not ask for segmentation
   again. *)
RetryIsPlain ==
  sticky /\ snd.retried /\ spc = "write" => ~ Refused(msgs[snd.start])

(* Segmentation offload is transparent to Send, and its retry can succeed. *)
SendTransparent == SentIntact /\ RetryIsPlain

(* Splitting a read gives the datagrams that arrived, whole and in order, up to the first
   empty one, and never runs out of places in the array.  The datagrams of the read behind
   an empty one are lost: splitCoalescedMessages takes a length of 0 for the end. *)
SplitIntact ==
  /\ ~ rcv.overflow
  /\ \E n \in 0..Len(rcv.arrived) :
       /\ rcv.out = SubSeq(rcv.arrived, 1, n)
       /\ \A m \in 1..n : rcv.arrived[m] # <<>>
       /\ n < Len(rcv.arrived) => rcv.arrived[n + 1] = <<>>
=============================================================================

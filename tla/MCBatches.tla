----------------------------- MODULE MCBatches -----------------------------
(***************************************************************************)
(* The batched data path, for TLC: the receive routine with its buffers,   *)
(* the offload of the UDP sockets and the offload of the TUN device.  They *)
(* share no state; each initial state runs one of them.                    *)
(***************************************************************************)
EXTENDS MCReceivePath, TunOffload, BindOffload

Tcp(seq, len, psh, csum) ==
  [proto |-> "tcp", flow |-> 1, seq |-> seq, data |-> len, psh |-> psh,
   csum |-> csum, tos |-> 0, opts |-> 0, plain |-> TRUE]

Udp(len, csum) ==
  [proto |-> "udp", flow |-> 2, seq |-> 0, data |-> len, psh |-> FALSE,
   csum |-> csum, tos |-> 0, opts |-> 0, plain |-> TRUE]

\* segments of one TCP flow around sequence number 0, among them one that starts
\* before the wrap, and the datagrams of a UDP flow
OffloadPackets ==
  {Tcp(s, 1, FALSE, TRUE) : s \in 0..2}
  \cup {Tcp(SeqSpace - 1, 2, FALSE, TRUE), Tcp(0, 1, FALSE, FALSE), Tcp(1, 2, TRUE, TRUE)}
  \cup {[Tcp(1, 1, FALSE, TRUE) EXCEPT !.tos = 1], [Tcp(1, 1, FALSE, TRUE) EXCEPT !.opts = 1],
        [Tcp(1, 1, FALSE, TRUE) EXCEPT !.plain = FALSE]}
  \cup {Udp(len, TRUE) : len \in 0..2} \cup {Udp(1, FALSE)}

\* a buffer for the receive path while it is switched off
ASSUME OffAssumption == b1 \in Buffer

ReceiveOff ==
  /\ phase = "closed" /\ free = Buffer
  /\ bufsArrs \in {[n \in Pos |-> b1]} /\ bufs = bufsArrs
  /\ content = [b \in Buffer |-> Blank]
  /\ sizes = [n \in Pos |-> 0] /\ count = 0 /\ i = 1
  /\ arrived = <<>> /\ moved = {} /\ astray = FALSE
  /\ byPeer = {} /\ handshakes = <<>> /\ inbound = {} /\ restart = FALSE

OffloadOff ==
  /\ tphase = "off" /\ vnetHdr = FALSE /\ udpGSO = FALSE
  /\ batch = <<>> /\ tunBufs = <<>> /\ itemsByFlow = <<>>
  /\ itemsPool = [c \in Protos |-> IdealBatchSize]
  /\ toWrite = <<>> /\ kernel = <<>> /\ delivered = <<>> /\ lost = FALSE

BindOff ==
  /\ bpc = "off" /\ host = {} /\ family = Closed /\ osSockets = {}
  /\ port = NoOpen /\ actualPort = 0 /\ opens = 0 /\ sticky = TRUE /\ nicOk = TRUE
  /\ txOffload = FALSE /\ spc = "idle" /\ snd = NoCall /\ msgs = FreshMsgs
  /\ wire = <<>> /\ rcv = NothingRead

BatchesInit ==
  \/ Init /\ OffloadOff /\ BindOff
  \/ ReceiveOff /\ OffloadInit /\ BindOff
  \/ ReceiveOff /\ OffloadOff /\ BindInit

BatchesNext ==
  \/ tphase = "off" /\ bpc = "off" /\ Next /\ UNCHANGED <<offloadVars, bindVars>>
  \/ tphase # "off" /\ OffloadNext /\ UNCHANGED <<vars, bindVars>>
  \/ bpc # "off" /\ BindNext /\ UNCHANGED <<vars, offloadVars>>

BatchesSpec == BatchesInit /\ [][BatchesNext]_<<vars, offloadVars, bindVars>>

(* Types of the three components.  The pools of items are complete: what is not in the
   table of a flow is free.  The sockets that are open are those the bind knows, and both
   families have one port. *)
BatchesTypeOK == TypeOK /\ OffloadTypeOK /\ BindTypeOK /\ OnePort
=============================================================================

----------------------------- MODULE Handshake -----------------------------
(***************************************************************************)
(* The Noise handshake and the session keys of wireguard-go/device, at the *)
(* granularity of the locks the code takes.  Every device has one handshake *)
(* and one set of key pairs per peer, and one index table.  The threads of *)
(* a device (handshake workers, timers, sequential receivers, the UAPI)    *)
(* interleave between any two critical sections.  The network keeps every  *)
(* datagram that was ever sent: it may lose, duplicate and reorder them.   *)
(*                                                                         *)
(* Cryptography is symbolic.  An ephemeral key is a number that is drawn   *)
(* once; the hash and chain key of a handshake are the ephemerals mixed    *)
(* into them; a session key is the pair of the two ephemerals.             *)
(***************************************************************************)
EXTENDS Naturals

CONSTANTS Device,      \* the devices; every other device is a configured peer
          Thread,      \* goroutines of all devices
          DeviceOf,    \* the device a thread belongs to
          Roles,       \* the operations a thread starts: a goroutine has one
                       \* role, a thread with several stands for goroutines
                       \* that run one at a time
          Index,       \* the values randUint32 may return
          Zero,        \* the uint32 0, which also stands for "no index"
          NoKeypair,   \* the nil keypair
          NoMsg,       \* a thread holds no message
          MaxEph,      \* bound: ephemeral keys drawn in a behaviour
          MaxTime      \* bound: distinct TAI64N timestamps of a device

Peers(d) == Device \ {d}

\* uint32 values that occur as indices
Idx == Index \cup {Zero}

\* 0 is the zeroed key
Eph == 0..MaxEph

\* hash and chain key: the initiator's and the responder's ephemeral
Chain == [i : Eph, r : Eph]
NoChain == [i |-> 0, r |-> 0]

HandshakeState == {"Zeroed", "InitiationCreated", "InitiationConsumed",
                   "ResponseCreated", "ResponseConsumed"}

HandshakeRec == [state : HandshakeState, chain : Chain, localIndex : Idx,
                 remoteIndex : Idx, lastTimestamp : 0..MaxTime]

Keypair == [key : Chain, isInitiator : BOOLEAN, localIndex : Idx,
            remoteIndex : Idx]

MessageInitiation == [type : {"initiation"}, from : Device, to : Device,
                      sender : Idx, eph : Eph, timestamp : 0..MaxTime]
MessageResponse == [type : {"response"}, from : Device, to : Device,
                    sender : Idx, receiver : Idx, chain : Chain]
MessageTransport == [type : {"transport"}, from : Device, to : Device,
                     receiver : Idx, key : Chain]
Message == MessageInitiation \cup MessageResponse \cup MessageTransport

NoEntry == [kind |-> "none"]
HandshakeEntry(p) == [kind |-> "handshake", peer |-> p]
KeypairEntry(p, k) == [kind |-> "keypair", peer |-> p, keypair |-> k]
IndexTableEntry == [kind : {"none"}] \cup [kind : {"handshake"}, peer : Device]
                     \cup [kind : {"keypair"}, peer : Device, keypair : Keypair]

Role == {"handshake",  \* RoutineHandshake
         "receive",    \* RoutineReceiveIncoming, Decryption, SequentialReceiver
         "send",       \* RoutineReadFromTUN, the keepalive timers
         "initiate",   \* the retransmission and rekey timers
         "zero",       \* the zeroKeyMaterial timer, Peer.Stop
         "expire"}     \* SetPrivateKey

Slot == {"previous", "current", "next"}

ASSUME ThreadAssumption == DeviceOf \in [Thread -> Device] /\ Roles \in [Thread -> SUBSET Role]
ASSUME NilAssumption == NoKeypair \notin Keypair /\ NoMsg \notin Message
ASSUME BoundAssumption == MaxEph \in Nat /\ MaxTime \in Nat \ {0}

VARIABLES hs,         \* hs[d][p]: peer.handshake
          slots,      \* slots[d][p]: peer.keypairs
          table,      \* table[d]: device.indexTable
          recent,     \* recent[d][p]: less than RekeyTimeout since lastSentHandshake
          spent,      \* spent[d]: keypairs whose sendNonce or age forbids sending
          clock,      \* clock[d]: the last timestamp taken from tai64n.Now
          nextEph,    \* the next ephemeral key
          net,        \* every datagram sent
          pc, job,    \* per thread: its next step and what it holds
          derived     \* history: derived[d] is the set of session keys d derived

vars == <<hs, slots, table, recent, spent, clock, nextEph, net, pc, job, derived>>

PC == {"idle", "create", "consume", "respond", "install", "begin", "rotate",
       "send", "received", "zero", "expire"}

NoJob(d) == [peer |-> d, msg |-> NoMsg, keypair |-> NoKeypair]
Job == [peer : Device, msg : Message \cup {NoMsg}, keypair : Keypair \cup {NoKeypair}]

\* Every variable has its type; in particular an entry of the index table is that of a
\* handshake or has a keypair, which ReceiveTransport needs to accept a packet.
TypeOK ==
    /\ hs \in [Device -> [Device -> HandshakeRec]]
    /\ slots \in [Device -> [Device -> [Slot -> Keypair \cup {NoKeypair}]]]
    /\ table \in [Device -> [Idx -> IndexTableEntry]]
    /\ recent \in [Device -> [Device -> BOOLEAN]]
    /\ spent \in [Device -> SUBSET Keypair]
    /\ clock \in [Device -> 0..MaxTime]
    /\ nextEph \in 1..MaxEph + 1
    /\ net \subseteq Message
    /\ pc \in [Thread -> PC]
    /\ job \in [Thread -> Job]
    /\ derived \in [Device -> SUBSET Chain]

ZeroHandshake == [state |-> "Zeroed", chain |-> NoChain, localIndex |-> Zero,
                  remoteIndex |-> Zero, lastTimestamp |-> 0]

Init ==
    /\ hs = [d \in Device |-> [p \in Device |-> ZeroHandshake]]
    /\ slots = [d \in Device |-> [p \in Device |-> [s \in Slot |-> NoKeypair]]]
    /\ table = [d \in Device |-> [i \in Idx |-> NoEntry]]
    /\ recent = [d \in Device |-> [p \in Device |-> FALSE]]
    /\ spent = [d \in Device |-> {}]
    /\ clock = [d \in Device |-> 1]
    /\ nextEph = 1
    /\ net = {}
    /\ pc = [t \in Thread |-> "idle"]
    /\ job = [t \in Thread |-> NoJob(DeviceOf[t])]
    /\ derived = [d \in Device |-> {}]

-----------------------------------------------------------------------------
(* The index table and the locks.                                          *)

(* Names with a suffix (FreeIndex_...) are faulty variants: they show which    *)
(* property notices the fault and are not used by the specification.       *)

Delete(tab, i) == [tab EXCEPT ![i] = NoEntry]

FreeIndex_Unchecked(tab) == Index

\* indices NewIndexForHandshake may return
FreeIndex(tab) == {i \in Index : tab[i] = NoEntry}

SwapIndexForKeypair_NoRemap(tab, i, k) == tab

\* the field keypair is left out of the new entry and is nil
SwapIndexForKeypair_NoKeypair(tab, i, k) ==
    IF tab[i] = NoEntry THEN tab ELSE [tab EXCEPT ![i] = KeypairEntry(tab[i].peer, NoKeypair)]

SwapIndexForKeypair(tab, i, k) ==
    IF tab[i] = NoEntry THEN tab ELSE [tab EXCEPT ![i] = KeypairEntry(tab[i].peer, k)]

DeleteKeypairs_Kept(tab, K) == tab

\* DeleteKeypair for every keypair of K that is not nil
DeleteKeypairs(tab, K) ==
    [i \in Idx |-> IF \E k \in K : k # NoKeypair /\ k.localIndex = i THEN NoEntry ELSE tab[i]]

\* BeginSymmetricSession keeps handshake.mutex while it waits for keypairs.Lock
HandshakeFree(d, p) ==
    \A t \in Thread : ~(pc[t] = "rotate" /\ DeviceOf[t] = d /\ job[t].peer = p)

Goto(t, label, j) == pc' = [pc EXCEPT ![t] = label] /\ job' = [job EXCEPT ![t] = j]

Done(t) == Goto(t, "idle", NoJob(DeviceOf[t]))

\* Handshake.Clear
Clear(h) == [h EXCEPT !.state = "Zeroed", !.chain = NoChain, !.localIndex = Zero]

-----------------------------------------------------------------------------
(* The initiator's first message.                                          *)

\* SendHandshakeInitiation up to CreateMessageInitiation
StartInitiation(t, p) ==
    LET d == DeviceOf[t] IN
    /\ HandshakeFree(d, p)
    /\ IF recent[d][p]
         THEN Done(t) /\ UNCHANGED recent
         ELSE /\ recent' = [recent EXCEPT ![d][p] = TRUE]
              /\ Goto(t, "create", [NoJob(d) EXCEPT !.peer = p])
    /\ UNCHANGED <<hs, slots, table, spent, clock, nextEph, net, derived>>

\* a timer expires, a key must be refreshed, or a packet has no session
SendHandshakeInitiation(t, p) ==
    /\ pc[t] = "idle" /\ "initiate" \in Roles[t] /\ p \in Peers(DeviceOf[t])
    /\ ~recent[DeviceOf[t]][p]
    /\ StartInitiation(t, p)

CreateMessageInitiation(t) ==
    LET d == DeviceOf[t]
        p == job[t].peer
        tab == Delete(table[d], hs[d][p].localIndex)
    IN
    /\ pc[t] = "create" /\ HandshakeFree(d, p) /\ nextEph <= MaxEph
    /\ \E i \in FreeIndex(tab), now \in {clock[d], clock[d] + 1} \cap 0..MaxTime :
         /\ table' = [table EXCEPT ![d] = [tab EXCEPT ![i] = HandshakeEntry(p)]]
         /\ hs' = [hs EXCEPT ![d][p].chain = [i |-> nextEph, r |-> 0],
                             ![d][p].localIndex = i,
                             ![d][p].state = "InitiationCreated"]
         /\ clock' = [clock EXCEPT ![d] = now]
         /\ net' = net \cup {[type |-> "initiation", from |-> d, to |-> p,
                              sender |-> i, eph |-> nextEph, timestamp |-> now]}
    /\ nextEph' = nextEph + 1
    /\ Done(t)
    /\ UNCHANGED <<slots, recent, spent, derived>>

-----------------------------------------------------------------------------
(* The responder.                                                          *)

\* ConsumeMessageInitiation under the read lock: the replay check.  A message
\* that the flood check, the MAC or the rate limiter drops is one the network lost.
CheckInitiation(t, m) ==
    LET d == DeviceOf[t] IN
    /\ pc[t] = "idle" /\ "handshake" \in Roles[t]
    /\ m \in net /\ m.type = "initiation" /\ m.to = d
    /\ HandshakeFree(d, m.from)
    /\ m.timestamp > hs[d][m.from].lastTimestamp
    /\ Goto(t, "consume", [NoJob(d) EXCEPT !.peer = m.from, !.msg = m])
    /\ UNCHANGED <<hs, slots, table, recent, spent, clock, nextEph, net, derived>>

Latest_Unguarded(old, timestamp) == timestamp

\* lastTimestamp is only replaced by a later one
Latest(old, timestamp) == IF timestamp > old THEN timestamp ELSE old

\* ConsumeMessageInitiation under the write lock, taken after the read lock was released
ConsumeMessageInitiation(t) ==
    LET d == DeviceOf[t]
        p == job[t].peer
        m == job[t].msg
    IN
    /\ pc[t] = "consume" /\ HandshakeFree(d, p)
    /\ hs' = [hs EXCEPT ![d][p].chain = [i |-> m.eph, r |-> 0],
                        ![d][p].remoteIndex = m.sender,
                        ![d][p].lastTimestamp = Latest(@, m.timestamp),
                        ![d][p].state = "InitiationConsumed"]
    /\ Goto(t, "respond", [NoJob(d) EXCEPT !.peer = p])
    /\ UNCHANGED <<slots, table, recent, spent, clock, nextEph, net, derived>>

\* SendHandshakeResponse up to BeginSymmetricSession.  The message is only sent
\* once the session exists, so the thread keeps it.
CreateMessageResponse(t) ==
    LET d == DeviceOf[t]
        p == job[t].peer
        h == hs[d][p]
        tab == Delete(table[d], h.localIndex)
        chain == [i |-> h.chain.i, r |-> nextEph]
    IN
    /\ pc[t] = "respond" /\ HandshakeFree(d, p)
    /\ recent' = [recent EXCEPT ![d][p] = TRUE]
    /\ \/ /\ h.state # "InitiationConsumed"
          /\ Done(t)
          /\ UNCHANGED <<hs, table, nextEph>>
       \/ /\ h.state = "InitiationConsumed" /\ nextEph <= MaxEph
          /\ \E i \in FreeIndex(tab) :
               /\ table' = [table EXCEPT ![d] = [tab EXCEPT ![i] = HandshakeEntry(p)]]
               /\ hs' = [hs EXCEPT ![d][p].chain = chain,
                                   ![d][p].localIndex = i,
                                   ![d][p].state = "ResponseCreated"]
               /\ Goto(t, "begin",
                       [NoJob(d) EXCEPT !.peer = p,
                          !.msg = [type |-> "response", from |-> d, to |-> p, sender |-> i,
                                   receiver |-> h.remoteIndex, chain |-> chain]])
          /\ nextEph' = nextEph + 1
    /\ UNCHANGED <<slots, spent, clock, net, derived>>

-----------------------------------------------------------------------------
(* The initiator's second step.                                            *)

\* ConsumeMessageResponse: Lookup, then the checks under the read lock.  Any step
\* between the two changes the state or the transcript, and the check fails as it does here.
CheckResponse(t, m) ==
    LET d == DeviceOf[t] IN
    /\ pc[t] = "idle" /\ "handshake" \in Roles[t]
    /\ m \in net /\ m.type = "response" /\ m.to = d
    /\ \E p \in Peers(d) :
         /\ table[d][m.receiver] = HandshakeEntry(p)
         /\ HandshakeFree(d, p)
         /\ hs[d][p].state = "InitiationCreated"
         /\ hs[d][p].chain.i = m.chain.i
         /\ Goto(t, "install", [NoJob(d) EXCEPT !.peer = p, !.msg = m])
    /\ UNCHANGED <<hs, slots, table, recent, spent, clock, nextEph, net, derived>>

\* ConsumeMessageResponse under the write lock: nothing is checked again
ConsumeMessageResponse(t) ==
    LET d == DeviceOf[t]
        p == job[t].peer
        m == job[t].msg
    IN
    /\ pc[t] = "install" /\ HandshakeFree(d, p)
    /\ hs' = [hs EXCEPT ![d][p].chain = m.chain,
                        ![d][p].remoteIndex = m.sender,
                        ![d][p].state = "ResponseConsumed"]
    /\ Goto(t, "begin", [NoJob(d) EXCEPT !.peer = p])
    /\ UNCHANGED <<slots, table, recent, spent, clock, nextEph, net, derived>>

-----------------------------------------------------------------------------
(* The session.                                                            *)

\* the keypair a handshake gives; the role decides which derived key sends
NewKeypair(h) ==
    [key |-> h.chain, isInitiator |-> h.state = "ResponseConsumed",
     localIndex |-> h.localIndex, remoteIndex |-> h.remoteIndex]

\* BeginSymmetricSession: derive the keys, zero the handshake, remap the index
BeginSymmetricSession(t) ==
    LET d == DeviceOf[t]
        p == job[t].peer
        h == hs[d][p]
        k == NewKeypair(h)
    IN
    /\ pc[t] = "begin" /\ HandshakeFree(d, p)
    /\ \/ /\ h.state \notin {"ResponseConsumed", "ResponseCreated"}
          /\ Done(t)
          /\ UNCHANGED <<hs, table, derived>>
       \/ /\ h.state \in {"ResponseConsumed", "ResponseCreated"}
          /\ hs' = [hs EXCEPT ![d][p] = Clear(h)]
          /\ table' = [table EXCEPT ![d] = SwapIndexForKeypair(table[d], h.localIndex, k)]
          /\ derived' = [derived EXCEPT ![d] = @ \cup {h.chain}]
          /\ Goto(t, "rotate", [job[t] EXCEPT !.keypair = k])
    /\ UNCHANGED <<slots, recent, spent, clock, nextEph, net>>

\* the key pairs after a session of the initiator
RotateInitiator(ks, k) ==
    [previous |-> IF ks["next"] # NoKeypair THEN ks["next"] ELSE ks["current"],
     current |-> k, next |-> NoKeypair]

RotateResponder_Unconfirmed(ks, k) ==
    [previous |-> ks["current"], current |-> k, next |-> NoKeypair]

\* the key pairs after a session of the responder: usable for sending once confirmed
RotateResponder(ks, k) ==
    [previous |-> NoKeypair, current |-> ks["current"], next |-> k]

\* the keypairs the rotation drops from the index table
Dropped(ks, k) ==
    {ks["previous"]} \cup (IF k.isInitiator
                             THEN IF ks["next"] # NoKeypair THEN {ks["current"]} ELSE {}
                             ELSE {ks["next"]})

\* BeginSymmetricSession under keypairs.Lock, then what its caller does:
\* SendHandshakeResponse sends, RoutineHandshake calls SendKeepalive
RotateKeypairs(t) ==
    LET d == DeviceOf[t]
        p == job[t].peer
        k == job[t].keypair
        ks == slots[d][p]
    IN
    /\ pc[t] = "rotate"
    /\ slots' = [slots EXCEPT ![d][p] = IF k.isInitiator THEN RotateInitiator(ks, k)
                                                         ELSE RotateResponder(ks, k)]
    /\ table' = [table EXCEPT ![d] = DeleteKeypairs(table[d], Dropped(ks, k))]
    /\ IF job[t].msg = NoMsg
         THEN Goto(t, "send", [NoJob(d) EXCEPT !.peer = p]) /\ UNCHANGED net
         ELSE Done(t) /\ net' = net \cup {job[t].msg}
    /\ UNCHANGED <<hs, recent, spent, clock, nextEph, derived>>

-----------------------------------------------------------------------------
(* Transport messages.                                                     *)

\* SendStagedPackets with a packet staged: the TUN reader or a keepalive timer
StagePacket(t, p) ==
    /\ pc[t] = "idle" /\ "send" \in Roles[t] /\ p \in Peers(DeviceOf[t])
    /\ Goto(t, "send", [NoJob(DeviceOf[t]) EXCEPT !.peer = p])
    /\ UNCHANGED <<hs, slots, table, recent, spent, clock, nextEph, net, derived>>

SendStagedPackets(t) ==
    LET d == DeviceOf[t]
        p == job[t].peer
        k == slots[d][p]["current"]
    IN
    /\ pc[t] = "send"
    /\ \/ /\ k = NoKeypair \/ k \in spent[d]
          /\ StartInitiation(t, p)
       \/ /\ k # NoKeypair /\ k \notin spent[d]
          /\ net' = net \cup {[type |-> "transport", from |-> d, to |-> p,
                               receiver |-> k.remoteIndex, key |-> k.key]}
          /\ Done(t)
          /\ UNCHANGED <<hs, slots, table, recent, spent, clock, nextEph, derived>>

\* RoutineReceiveIncoming looks the keypair up and RoutineDecryption opens the packet
ReceiveTransport(t, m) ==
    LET d == DeviceOf[t] IN
    /\ pc[t] = "idle" /\ "receive" \in Roles[t]
    /\ m \in net /\ m.type = "transport" /\ m.to = d
    /\ table[d][m.receiver].kind = "keypair"
    /\ LET k == table[d][m.receiver].keypair IN
         /\ k.key = m.key
         /\ Goto(t, "received", [NoJob(d) EXCEPT !.peer = table[d][m.receiver].peer, !.keypair = k])
    /\ UNCHANGED <<hs, slots, table, recent, spent, clock, nextEph, net, derived>>

\* RoutineSequentialReceiver calls ReceivedWithKeypair with the keypair looked up
\* earlier, and SendStagedPackets if it was promoted
ReceivedWithKeypair(t) ==
    LET d == DeviceOf[t]
        p == job[t].peer
        ks == slots[d][p]
    IN
    /\ pc[t] = "received"
    /\ \/ /\ ks["next"] # job[t].keypair
          /\ Done(t)
          /\ UNCHANGED <<slots, table>>
       \/ /\ ks["next"] = job[t].keypair
          /\ slots' = [slots EXCEPT ![d][p] = [previous |-> ks["current"],
                                               current |-> ks["next"],
                                               next |-> NoKeypair]]
          /\ table' = [table EXCEPT ![d] = DeleteKeypairs(table[d], {ks["previous"]})]
          /\ Goto(t, "send", [NoJob(d) EXCEPT !.peer = p])
    /\ UNCHANGED <<hs, recent, spent, clock, nextEph, net, derived>>

-----------------------------------------------------------------------------
(* Key erasure.                                                            *)

\* ZeroAndFlushAll, first under keypairs.Lock
ZeroAndFlushAll(t, p) ==
    LET d == DeviceOf[t]
        ks == slots[d][p]
    IN
    /\ pc[t] = "idle" /\ "zero" \in Roles[t] /\ p \in Peers(d)
    /\ table' = [table EXCEPT ![d] = DeleteKeypairs(table[d], {ks[s] : s \in Slot})]
    /\ slots' = [slots EXCEPT ![d][p] = [s \in Slot |-> NoKeypair]]
    /\ Goto(t, "zero", [NoJob(d) EXCEPT !.peer = p])
    /\ UNCHANGED <<hs, recent, spent, clock, nextEph, net, derived>>

\* then under handshake.mutex
ZeroHandshakeState(t) ==
    LET d == DeviceOf[t]
        p == job[t].peer
    IN
    /\ pc[t] = "zero" /\ HandshakeFree(d, p)
    /\ table' = [table EXCEPT ![d] = Delete(@, hs[d][p].localIndex)]
    /\ hs' = [hs EXCEPT ![d][p] = Clear(@)]
    /\ Done(t)
    /\ UNCHANGED <<slots, recent, spent, clock, nextEph, net, derived>>

\* ExpireCurrentKeypairs, first under handshake.mutex
ExpireCurrentKeypairs(t, p) ==
    LET d == DeviceOf[t] IN
    /\ pc[t] = "idle" /\ "expire" \in Roles[t] /\ p \in Peers(d)
    /\ HandshakeFree(d, p)
    /\ table' = [table EXCEPT ![d] = Delete(@, hs[d][p].localIndex)]
    /\ hs' = [hs EXCEPT ![d][p] = Clear(@)]
    /\ recent' = [recent EXCEPT ![d][p] = FALSE]
    /\ Goto(t, "expire", [NoJob(d) EXCEPT !.peer = p])
    /\ UNCHANGED <<slots, spent, clock, nextEph, net, derived>>

\* then under keypairs.Lock
ExpireNonces(t) ==
    LET d == DeviceOf[t]
        ks == slots[d][job[t].peer]
    IN
    /\ pc[t] = "expire"
    /\ spent' = [spent EXCEPT ![d] = @ \cup ({ks["current"], ks["next"]} \ {NoKeypair})]
    /\ Done(t)
    /\ UNCHANGED <<hs, slots, table, recent, clock, nextEph, net, derived>>

-----------------------------------------------------------------------------
(* The passage of time.                                                    *)

\* RekeyTimeout has passed since lastSentHandshake
RekeyTimeout(d, p) ==
    /\ recent[d][p]
    /\ recent' = [recent EXCEPT ![d][p] = FALSE]
    /\ UNCHANGED <<hs, slots, table, spent, clock, nextEph, net, pc, job, derived>>

\* the current keypair reaches RejectAfterTime or RejectAfterMessages
Reject(d, p) ==
    /\ slots[d][p]["current"] \notin {NoKeypair} \cup spent[d]
    /\ spent' = [spent EXCEPT ![d] = @ \cup {slots[d][p]["current"]}]
    /\ UNCHANGED <<hs, slots, table, recent, clock, nextEph, net, pc, job, derived>>

Next ==
    \/ \E t \in Thread :
         \/ \E p \in Device : \/ SendHandshakeInitiation(t, p)
                              \/ StagePacket(t, p)
                              \/ ZeroAndFlushAll(t, p)
                              \/ ExpireCurrentKeypairs(t, p)
         \/ \E m \in net : \/ CheckInitiation(t, m)
                           \/ CheckResponse(t, m)
                           \/ ReceiveTransport(t, m)
         \/ CreateMessageInitiation(t)
         \/ ConsumeMessageInitiation(t)
         \/ CreateMessageResponse(t)
         \/ ConsumeMessageResponse(t)
         \/ BeginSymmetricSession(t)
         \/ RotateKeypairs(t)
         \/ SendStagedPackets(t)
         \/ ReceivedWithKeypair(t)
         \/ ZeroHandshakeState(t)
         \/ ExpireNonces(t)
    \/ \E d, p \in Device : RekeyTimeout(d, p) \/ Reject(d, p)

Spec == Init /\ [][Next]_vars

-----------------------------------------------------------------------------
(* Properties.                                                             *)

\* The keypair thread t has mapped into the table but not yet put into a slot.
Pending(d, p) ==
    {job[t].keypair : t \in {u \in Thread : pc[u] = "rotate" /\ DeviceOf[u] = d
                                            /\ job[u].peer = p}}

\* The keypairs peer p of device d holds.
Held(d, p) == ({slots[d][p][s] : s \in Slot} \ {NoKeypair}) \cup Pending(d, p)

\* A packet that carries the index of a session, or a response that carries the
\* index of a handshake, is delivered to it: what indexTable.Lookup returns for a
\* nonzero index in use is the handshake or the keypair that uses it.
LookupFindsOwner ==
    \A d, p \in Device :
        /\ hs[d][p].localIndex # Zero => table[d][hs[d][p].localIndex] = HandshakeEntry(p)
        /\ \A k \in Held(d, p) :
              k.localIndex # Zero => table[d][k.localIndex] = KeypairEntry(p, k)

\* No index leaks: every nonzero entry of the index table belongs to a handshake in
\* progress or to a keypair that is still held, so erased keys cannot be found again.
NoIndexLeak ==
    \A d \in Device : \A i \in Idx \ {Zero} :
        \/ table[d][i] = NoEntry
        \/ \E p \in Device : /\ table[d][i] = HandshakeEntry(p)
                              /\ hs[d][p].localIndex = i
        \/ \E p \in Device : \E k \in Held(d, p) : /\ table[d][i] = KeypairEntry(p, k)
                                                   /\ k.localIndex = i

\* The greatest timestamp accepted from a peer never decreases, although two
\* workers may check initiations under the read lock and store them out of order.
TimestampMonotone ==
    [][\A d, p \in Device : hs'[d][p].lastTimestamp >= hs[d][p].lastTimestamp]_hs

\* Two devices that hold the same session key hold it in opposite roles, so the
\* sending key of one is the receiving key of the other.
RolesDiffer ==
    \A d, p \in Device : \A k \in Held(d, p), l \in Held(p, d) :
        d # p /\ k.key = l.key => k.isInitiator # l.isInitiator

\* A responder sends only on a confirmed session: a session in which it is the
\* responder becomes current only after the initiator has derived the same key.
KeyConfirmation ==
    \A d, p \in Device :
        LET k == slots[d][p]["current"] IN
        k # NoKeypair /\ ~k.isInitiator => k.key \in derived[p]

\* The two ends of a session agree: they have opposite roles, and the responder uses
\* it as the current one only when the initiator has it too (BeginSymmetricSession,
\* ReceivedWithKeypair).
SessionsAgree == RolesDiffer /\ KeyConfirmation

\* One handshake gives one session: no two keypairs of a peer have the same key
\* (each keypair starts its nonces at 0).
OneSessionPerHandshake ==
    \A d, p \in Device : \A k, l \in Held(d, p) : k.key = l.key => k = l

=============================================================================

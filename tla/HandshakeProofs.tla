-------------------------- MODULE HandshakeProofs --------------------------
(***************************************************************************)
(* Proofs about the handshake of module Handshake, for any number of       *)
(* devices, threads and indices and for any bound on keys and timestamps.  *)
(***************************************************************************)
EXTENDS Handshake, TLAPS

-----------------------------------------------------------------------------
(* Lemmas about the operators.                                             *)

\* A message of type "initiation" or "response" has the fields the consumers read.
LEMMA MessageKinds ==
    ASSUME NEW m \in Message
    PROVE  /\ m.type = "initiation" => m \in MessageInitiation
           /\ m.type = "response" => m \in MessageResponse
  BY DEF Message, MessageInitiation, MessageResponse, MessageTransport

\* What the index table stores is typed, and the three kinds of entry never coincide.
LEMMA EntryTypes ==
    /\ NoEntry \in IndexTableEntry
    /\ \A p \in Device : HandshakeEntry(p) \in IndexTableEntry
    /\ \A p \in Device, k \in Keypair : KeypairEntry(p, k) \in IndexTableEntry
  BY DEF IndexTableEntry, NoEntry, HandshakeEntry, KeypairEntry

\* What a lookup returns has the fields the consumers read.
LEMMA EntryFields ==
    ASSUME NEW e \in IndexTableEntry
    PROVE  /\ e # NoEntry => e.peer \in Device
           /\ e.kind = "keypair" => e.keypair \in Keypair /\ e.peer \in Device
  BY DEF IndexTableEntry, NoEntry

\* The operators that delete, remap and look up indices keep the type of the table.
LEMMA TableTypes ==
    ASSUME NEW tab \in [Idx -> IndexTableEntry]
    PROVE  /\ \A i \in Idx : Delete(tab, i) \in [Idx -> IndexTableEntry]
           /\ \A K : DeleteKeypairs(tab, K) \in [Idx -> IndexTableEntry]
           /\ \A i \in Idx, k \in Keypair :
                SwapIndexForKeypair(tab, i, k) \in [Idx -> IndexTableEntry]
           /\ FreeIndex(tab) \subseteq Index
<1>1. \A i \in Idx : Delete(tab, i) \in [Idx -> IndexTableEntry]
  BY EntryTypes DEF Delete
<1>2. \A K : DeleteKeypairs(tab, K) \in [Idx -> IndexTableEntry]
  BY EntryTypes DEF DeleteKeypairs
<1>3. \A i \in Idx, k \in Keypair :
        SwapIndexForKeypair(tab, i, k) \in [Idx -> IndexTableEntry]
  BY EntryTypes, EntryFields DEF SwapIndexForKeypair
<1>4. FreeIndex(tab) \subseteq Index
  BY DEF FreeIndex
<1>5. QED
  BY <1>1, <1>2, <1>3, <1>4

\* Clearing a handshake keeps its type, and its keypair is typed.
LEMMA HandshakeTypes ==
    ASSUME NEW h \in HandshakeRec
    PROVE  Clear(h) \in HandshakeRec /\ NewKeypair(h) \in Keypair
<1>1. NoChain \in Chain /\ Zero \in Idx /\ "Zeroed" \in HandshakeState
  BY BoundAssumption DEF NoChain, Chain, Eph, Idx, HandshakeState
<1>2. Clear(h) \in HandshakeRec
  BY <1>1 DEF HandshakeRec, Clear
<1>3. (h.state = "ResponseConsumed") \in BOOLEAN
  OBVIOUS
<1>4. NewKeypair(h) \in Keypair
  BY <1>3 DEF HandshakeRec, Keypair, NewKeypair
<1>5. QED
  BY <1>2, <1>4

\* Both rotations give the three slots.
LEMMA RotateTypes ==
    ASSUME NEW ks \in [Slot -> Keypair \cup {NoKeypair}], NEW k \in Keypair
    PROVE  /\ RotateInitiator(ks, k) \in [Slot -> Keypair \cup {NoKeypair}]
           /\ RotateResponder(ks, k) \in [Slot -> Keypair \cup {NoKeypair}]
  BY DEF RotateInitiator, RotateResponder, Slot

-----------------------------------------------------------------------------
(* Type correctness.  TypeOK is not inductive: a step reads fields of the  *)
(* message or keypair a thread took at an earlier step, and needs to know  *)
(* which kind it took.                                                     *)

JobOK ==
    \A t \in Thread :
        /\ pc[t] = "consume" => job[t].msg \in MessageInitiation
        /\ pc[t] = "install" => job[t].msg \in MessageResponse
        /\ pc[t] = "rotate" => job[t].keypair \in Keypair

TypeInv == TypeOK /\ JobOK

\* Goto keeps the types if the new job fits the new program counter.
LEMMA GotoTypes ==
    ASSUME TypeInv, NEW t \in Thread, NEW l \in PC, NEW j \in Job, Goto(t, l, j),
           l = "consume" => j.msg \in MessageInitiation,
           l = "install" => j.msg \in MessageResponse,
           l = "rotate" => j.keypair \in Keypair
    PROVE  /\ pc' \in [Thread -> PC]
           /\ job' \in [Thread -> Job]
           /\ JobOK'
  BY DEF TypeInv, TypeOK, JobOK, Goto

\* The job of a thread that holds nothing, or only a peer.
LEMMA NoJobTypes ==
    \A d, p \in Device : NoJob(d) \in Job /\ [NoJob(d) EXCEPT !.peer = p] \in Job
  BY DEF NoJob, Job

\* A thread that is done holds nothing.
LEMMA DoneTypes ==
    ASSUME TypeInv, NEW t \in Thread, Done(t)
    PROVE  pc' \in [Thread -> PC] /\ job' \in [Thread -> Job] /\ JobOK'
<1>1. DeviceOf[t] \in Device /\ NoJob(DeviceOf[t]) \in Job /\ "idle" \in PC
  BY ThreadAssumption, NoJobTypes DEF PC
<1>2. QED
  BY <1>1, GotoTypes DEF Done

\* The device, the peer and the handshake of a thread.
LEMMA ThreadTypes ==
    ASSUME TypeInv, NEW t \in Thread
    PROVE  /\ DeviceOf[t] \in Device /\ job[t].peer \in Device
           /\ hs[DeviceOf[t]][job[t].peer] \in HandshakeRec
<1>1. DeviceOf[t] \in Device /\ job[t] \in Job
  BY ThreadAssumption DEF TypeInv, TypeOK
<1>2. job[t].peer \in Device
  BY <1>1 DEF Job
<1>3. QED
  BY <1>1, <1>2 DEF TypeInv, TypeOK

\* The initial state is typed.
LEMMA InitTypes == Init => TypeInv
<1> SUFFICES ASSUME Init PROVE TypeInv
  OBVIOUS
<1>1. ZeroHandshake \in HandshakeRec
  BY BoundAssumption DEF ZeroHandshake, HandshakeRec, HandshakeState, NoChain, Chain, Eph, Idx
<1>2. NoEntry \in IndexTableEntry
  BY EntryTypes
<1>3. job \in [Thread -> Job]
  BY NoJobTypes, ThreadAssumption DEF Init
<1>4. JobOK
  BY DEF Init, JobOK
<1>5. QED
  BY <1>1, <1>2, <1>3, <1>4, BoundAssumption DEF Init, TypeInv, TypeOK, PC

\* SendHandshakeInitiation keeps the types, whoever calls it.
LEMMA StartTypes ==
    ASSUME TypeInv, NEW t \in Thread, NEW p \in Device, StartInitiation(t, p)
    PROVE  TypeInv'
<1>1. DeviceOf[t] \in Device /\ "create" \in PC
  BY ThreadAssumption DEF PC
<1>2. recent' \in [Device -> [Device -> BOOLEAN]]
  <2>1. recent' = recent \/ recent' = [recent EXCEPT ![DeviceOf[t]][p] = TRUE]
    BY DEF StartInitiation
  <2>2. CASE recent' = recent
    BY <2>2 DEF TypeInv, TypeOK
  <2>3. CASE recent' = [recent EXCEPT ![DeviceOf[t]][p] = TRUE]
    BY <1>1, <2>3 DEF TypeInv, TypeOK
  <2>4. QED
    BY <2>1, <2>2, <2>3
<1>3. pc' \in [Thread -> PC] /\ job' \in [Thread -> Job] /\ JobOK'
  <2>1. CASE recent[DeviceOf[t]][p]
    BY <2>1, DoneTypes DEF StartInitiation
  <2>2. CASE ~recent[DeviceOf[t]][p]
    BY <2>2, <1>1, NoJobTypes, GotoTypes DEF StartInitiation
  <2>3. QED
    BY <2>1, <2>2
<1>4. QED
  BY <1>2, <1>3 DEF StartInitiation, TypeInv, TypeOK

\* Every action keeps the types: TypeInv is inductive.
LEMMA NextTypes == TypeInv /\ [Next]_vars => TypeInv'
<1> SUFFICES ASSUME TypeInv, [Next]_vars PROVE TypeInv'
  OBVIOUS
<1> USE ThreadAssumption, BoundAssumption
<1>1. ASSUME NEW t \in Thread, NEW p \in Device, SendHandshakeInitiation(t, p) PROVE TypeInv'
  BY <1>1, StartTypes DEF SendHandshakeInitiation
<1>2. ASSUME NEW t \in Thread, NEW p \in Device, StagePacket(t, p) PROVE TypeInv'
  <2>1. [NoJob(DeviceOf[t]) EXCEPT !.peer = p] \in Job /\ "send" \in PC
    BY NoJobTypes DEF PC
  <2>2. pc' \in [Thread -> PC] /\ job' \in [Thread -> Job] /\ JobOK'
    BY <1>2, <2>1, GotoTypes DEF StagePacket
  <2>3. QED
    BY <1>2, <2>2 DEF StagePacket, TypeInv, TypeOK
<1>3. ASSUME NEW t \in Thread, CreateMessageInitiation(t) PROVE TypeInv'
  <2> DEFINE d == DeviceOf[t]
             p == job[t].peer
             tab == Delete(table[d], hs[d][p].localIndex)
  <2>1. d \in Device /\ p \in Device /\ hs[d][p] \in HandshakeRec /\ nextEph \in Eph
    <3>1. nextEph \in 1..MaxEph + 1 /\ nextEph <= MaxEph
      BY <1>3 DEF CreateMessageInitiation, TypeInv, TypeOK
    <3>2. QED
      BY <3>1, ThreadTypes DEF Eph
  <2>2. tab \in [Idx -> IndexTableEntry]
    BY <2>1, TableTypes DEF TypeInv, TypeOK, HandshakeRec
  <2>3. PICK i \in FreeIndex(tab), now \in {clock[d], clock[d] + 1} \cap 0..MaxTime :
         /\ table' = [table EXCEPT ![d] = [tab EXCEPT ![i] = HandshakeEntry(p)]]
         /\ hs' = [hs EXCEPT ![d][p].chain = [i |-> nextEph, r |-> 0],
                             ![d][p].localIndex = i,
                             ![d][p].state = "InitiationCreated"]
         /\ clock' = [clock EXCEPT ![d] = now]
         /\ net' = net \cup {[type |-> "initiation", from |-> d, to |-> p,
                              sender |-> i, eph |-> nextEph, timestamp |-> now]}
    BY <1>3 DEF CreateMessageInitiation
  <2>4. i \in Idx
    BY <2>2, TableTypes DEF Idx
  <2>5. table' \in [Device -> [Idx -> IndexTableEntry]]
    BY <2>1, <2>2, <2>3, <2>4, EntryTypes DEF TypeInv, TypeOK
  <2>6. hs' \in [Device -> [Device -> HandshakeRec]]
    <3>1. [i |-> nextEph, r |-> 0] \in Chain /\ "InitiationCreated" \in HandshakeState
      BY <2>1 DEF Chain, Eph, HandshakeState
    <3>2. QED
      BY <3>1, <2>1, <2>3, <2>4, ZenonT(40) DEF TypeInv, TypeOK, HandshakeRec
  <2>7. clock' \in [Device -> 0..MaxTime]
    BY <2>1, <2>3 DEF TypeInv, TypeOK
  <2>8. net' \subseteq Message
    BY <2>1, <2>3, <2>4 DEF TypeInv, TypeOK, Message, MessageInitiation
  <2>9. nextEph' \in 1..MaxEph + 1
    <3>1. nextEph \in 1..MaxEph + 1
      BY DEF TypeInv, TypeOK
    <3>2. nextEph <= MaxEph /\ nextEph' = nextEph + 1
      BY <1>3 DEF CreateMessageInitiation
    <3>3. QED
      BY <3>1, <3>2, BoundAssumption
  <2>10. pc' \in [Thread -> PC] /\ job' \in [Thread -> Job] /\ JobOK'
    BY <1>3, DoneTypes DEF CreateMessageInitiation
  <2>11. QED
    BY <1>3, <2>5, <2>6, <2>7, <2>8, <2>9, <2>10 DEF CreateMessageInitiation, TypeInv, TypeOK
<1>4. ASSUME NEW t \in Thread, NEW m \in net, CheckInitiation(t, m) PROVE TypeInv'
  <2> DEFINE j == [NoJob(DeviceOf[t]) EXCEPT !.peer = m.from, !.msg = m]
  <2>1. m \in MessageInitiation /\ m \in Message /\ m.from \in Device /\ "consume" \in PC
    BY <1>4, MessageKinds DEF CheckInitiation, TypeInv, TypeOK, MessageInitiation, PC
  <2>2. j \in Job /\ j.msg = m
    BY <2>1 DEF NoJob, Job
  <2>3. pc' \in [Thread -> PC] /\ job' \in [Thread -> Job] /\ JobOK'
    BY <1>4, <2>1, <2>2, GotoTypes DEF CheckInitiation
  <2>4. QED
    BY <1>4, <2>3 DEF CheckInitiation, TypeInv, TypeOK
<1>5. ASSUME NEW t \in Thread, ConsumeMessageInitiation(t) PROVE TypeInv'
  <2> DEFINE d == DeviceOf[t]
             p == job[t].peer
             m == job[t].msg
  <2>1. d \in Device /\ p \in Device /\ hs[d][p] \in HandshakeRec /\ m \in MessageInitiation
    <3>1. pc[t] = "consume"
      BY <1>5 DEF ConsumeMessageInitiation
    <3>2. QED
      BY <3>1, ThreadTypes DEF TypeInv, JobOK
  <2>2. [i |-> m.eph, r |-> 0] \in Chain /\ m.sender \in Idx
    BY <2>1 DEF MessageInitiation, Chain, Eph
  <2>3. Latest(hs[d][p].lastTimestamp, m.timestamp) \in 0..MaxTime
    BY <2>1 DEF MessageInitiation, HandshakeRec, Latest
  <2>4. hs' \in [Device -> [Device -> HandshakeRec]]
    <3>1. /\ hs' = [hs EXCEPT ![d][p].chain = [i |-> m.eph, r |-> 0],
                              ![d][p].remoteIndex = m.sender,
                              ![d][p].lastTimestamp = Latest(@, m.timestamp),
                              ![d][p].state = "InitiationConsumed"]
          /\ "InitiationConsumed" \in HandshakeState
      BY <1>5 DEF ConsumeMessageInitiation, HandshakeState
    <3>2. hs \in [Device -> [Device -> HandshakeRec]]
      BY DEF TypeInv, TypeOK
    <3>3. QED
      BY <2>1, <2>2, <2>3, <3>1, <3>2, ZenonT(40) DEF HandshakeRec
  <2>5. pc' \in [Thread -> PC] /\ job' \in [Thread -> Job] /\ JobOK'
    <3>1. [NoJob(d) EXCEPT !.peer = p] \in Job /\ "respond" \in PC
      BY <2>1, NoJobTypes DEF PC
    <3>2. QED
      BY <1>5, <3>1, GotoTypes DEF ConsumeMessageInitiation
  <2>6. QED
    BY <1>5, <2>4, <2>5 DEF ConsumeMessageInitiation, TypeInv, TypeOK
<1>6. ASSUME NEW t \in Thread, CreateMessageResponse(t) PROVE TypeInv'
  <2> DEFINE d == DeviceOf[t]
             p == job[t].peer
             h == hs[d][p]
             tab == Delete(table[d], h.localIndex)
             chain == [i |-> h.chain.i, r |-> nextEph]
             m(i) == [type |-> "response", from |-> d, to |-> p, sender |-> i,
                      receiver |-> h.remoteIndex, chain |-> chain]
  <2>1. d \in Device /\ p \in Device /\ h \in HandshakeRec
    BY DEF TypeInv, TypeOK, Job
  <2>2. recent' \in [Device -> [Device -> BOOLEAN]]
    BY <1>6, <2>1 DEF CreateMessageResponse, TypeInv, TypeOK
  <2>3. CASE h.state # "InitiationConsumed"
    <3>1. pc' \in [Thread -> PC] /\ job' \in [Thread -> Job] /\ JobOK'
      BY <1>6, <2>3, DoneTypes DEF CreateMessageResponse
    <3>2. QED
      BY <1>6, <2>2, <2>3, <3>1 DEF CreateMessageResponse, TypeInv, TypeOK
  <2>4. CASE h.state = "InitiationConsumed"
    <3>1. nextEph \in Eph /\ nextEph' = nextEph + 1 /\ nextEph' \in 1..MaxEph + 1
      <4>1. nextEph <= MaxEph /\ nextEph' = nextEph + 1
        BY <1>6, <2>4 DEF CreateMessageResponse
      <4>2. nextEph \in 1..MaxEph + 1
        BY DEF TypeInv, TypeOK
      <4>3. QED
        BY <4>1, <4>2 DEF Eph
    <3>2. tab \in [Idx -> IndexTableEntry]
      BY <2>1, TableTypes DEF TypeInv, TypeOK, HandshakeRec
    <3>3. PICK i \in FreeIndex(tab) :
            /\ table' = [table EXCEPT ![d] = [tab EXCEPT ![i] = HandshakeEntry(p)]]
            /\ hs' = [hs EXCEPT ![d][p].chain = chain,
                                ![d][p].localIndex = i,
                                ![d][p].state = "ResponseCreated"]
            /\ Goto(t, "begin", [NoJob(d) EXCEPT !.peer = p, !.msg = m(i)])
      BY <1>6, <2>4 DEF CreateMessageResponse
    <3>4. i \in Idx /\ chain \in Chain /\ "ResponseCreated" \in HandshakeState
      BY <2>1, <3>1, <3>2, TableTypes DEF Idx, HandshakeRec, Chain, HandshakeState
    <3>5. table' \in [Device -> [Idx -> IndexTableEntry]]
      BY <2>1, <3>2, <3>3, <3>4, EntryTypes DEF TypeInv, TypeOK
    <3>6. hs' \in [Device -> [Device -> HandshakeRec]]
      BY <2>1, <3>3, <3>4, ZenonT(40) DEF TypeInv, TypeOK, HandshakeRec
    <3>7. m(i) \in Message
      BY <2>1, <3>4 DEF Message, MessageResponse, HandshakeRec
    <3>8. [NoJob(d) EXCEPT !.peer = p, !.msg = m(i)] \in Job /\ "begin" \in PC
      BY <2>1, <3>7 DEF NoJob, Job, PC
    <3>9. pc' \in [Thread -> PC] /\ job' \in [Thread -> Job] /\ JobOK'
      BY <3>3, <3>8, GotoTypes
    <3>10. QED
      BY <1>6, <2>2, <3>1, <3>5, <3>6, <3>9 DEF CreateMessageResponse, TypeInv, TypeOK
  <2>5. QED
    BY <2>3, <2>4
<1>7. ASSUME NEW t \in Thread, NEW m \in net, CheckResponse(t, m) PROVE TypeInv'
  <2>1. PICK p \in Peers(DeviceOf[t]) :
          Goto(t, "install", [NoJob(DeviceOf[t]) EXCEPT !.peer = p, !.msg = m])
    BY <1>7 DEF CheckResponse
  <2> DEFINE j == [NoJob(DeviceOf[t]) EXCEPT !.peer = p, !.msg = m]
  <2>2. m \in MessageResponse /\ m \in Message /\ p \in Device /\ "install" \in PC
    BY <1>7, MessageKinds DEF CheckResponse, TypeInv, TypeOK, PC, Peers
  <2>3. j \in Job /\ j.msg = m
    BY <2>2 DEF NoJob, Job
  <2>4. pc' \in [Thread -> PC] /\ job' \in [Thread -> Job] /\ JobOK'
    BY <2>1, <2>2, <2>3, GotoTypes
  <2>5. QED
    BY <1>7, <2>4 DEF CheckResponse, TypeInv, TypeOK
<1>8. ASSUME NEW t \in Thread, ConsumeMessageResponse(t) PROVE TypeInv'
  <2> DEFINE d == DeviceOf[t]
             p == job[t].peer
             m == job[t].msg
  <2>1. d \in Device /\ p \in Device /\ hs[d][p] \in HandshakeRec /\ m \in MessageResponse
    <3>1. pc[t] = "install"
      BY <1>8 DEF ConsumeMessageResponse
    <3>2. QED
      BY <3>1, ThreadTypes DEF TypeInv, JobOK
  <2>2. m.chain \in Chain /\ m.sender \in Idx
    BY <2>1 DEF MessageResponse
  <2>3. hs' \in [Device -> [Device -> HandshakeRec]]
    BY <1>8, <2>1, <2>2, ZenonT(40) DEF ConsumeMessageResponse, TypeInv, TypeOK, HandshakeRec, HandshakeState
  <2>4. pc' \in [Thread -> PC] /\ job' \in [Thread -> Job] /\ JobOK'
    <3>1. [NoJob(d) EXCEPT !.peer = p] \in Job /\ "begin" \in PC
      BY <2>1, NoJobTypes DEF PC
    <3>2. QED
      BY <1>8, <3>1, GotoTypes DEF ConsumeMessageResponse
  <2>5. QED
    BY <1>8, <2>3, <2>4 DEF ConsumeMessageResponse, TypeInv, TypeOK
<1>9. ASSUME NEW t \in Thread, BeginSymmetricSession(t) PROVE TypeInv'
  <2> DEFINE d == DeviceOf[t]
             p == job[t].peer
             h == hs[d][p]
             k == NewKeypair(h)
  <2>1. d \in Device /\ p \in Device /\ h \in HandshakeRec /\ k \in Keypair /\ Clear(h) \in HandshakeRec
    BY HandshakeTypes DEF TypeInv, TypeOK, Job
  <2>2. CASE h.state \notin {"ResponseConsumed", "ResponseCreated"}
    <3>1. pc' \in [Thread -> PC] /\ job' \in [Thread -> Job] /\ JobOK'
      BY <1>9, <2>2, DoneTypes DEF BeginSymmetricSession
    <3>2. QED
      BY <1>9, <2>2, <3>1 DEF BeginSymmetricSession, TypeInv, TypeOK
  <2>3. CASE h.state \in {"ResponseConsumed", "ResponseCreated"}
    <3>1. hs' \in [Device -> [Device -> HandshakeRec]]
      <4>1. hs' = [hs EXCEPT ![d][p] = Clear(h)]
        BY <1>9, <2>3 DEF BeginSymmetricSession
      <4>2. QED
        BY <2>1, <4>1 DEF TypeInv, TypeOK
    <3>2. table' \in [Device -> [Idx -> IndexTableEntry]]
      <4>1. SwapIndexForKeypair(table[d], h.localIndex, k) \in [Idx -> IndexTableEntry]
        BY <2>1, TableTypes DEF TypeInv, TypeOK, HandshakeRec
      <4>2. QED
        BY <1>9, <2>1, <2>3, <4>1, ZenonT(40) DEF BeginSymmetricSession, TypeInv, TypeOK
    <3>3. derived' \in [Device -> SUBSET Chain]
      <4>1. derived' = [derived EXCEPT ![d] = @ \cup {h.chain}] /\ h.chain \in Chain
        BY <1>9, <2>1, <2>3 DEF BeginSymmetricSession, HandshakeRec
      <4>2. QED
        BY <2>1, <4>1 DEF TypeInv, TypeOK
    <3>4. [job[t] EXCEPT !.keypair = k] \in Job /\ [job[t] EXCEPT !.keypair = k].keypair = k
      BY <2>1 DEF TypeInv, TypeOK, Job
    <3>5. pc' \in [Thread -> PC] /\ job' \in [Thread -> Job] /\ JobOK'
      BY <1>9, <2>1, <2>3, <3>4, GotoTypes DEF BeginSymmetricSession, PC
    <3>6. QED
      BY <1>9, <3>1, <3>2, <3>3, <3>5 DEF BeginSymmetricSession, TypeInv, TypeOK
  <2>4. QED
    BY <2>2, <2>3
<1>10. ASSUME NEW t \in Thread, RotateKeypairs(t) PROVE TypeInv'
  <2> DEFINE d == DeviceOf[t]
             p == job[t].peer
             k == job[t].keypair
             ks == slots[d][p]
  <2>1. d \in Device /\ p \in Device /\ k \in Keypair
    BY <1>10 DEF RotateKeypairs, TypeInv, TypeOK, JobOK, Job
  <2>2. ks \in [Slot -> Keypair \cup {NoKeypair}]
    BY <2>1 DEF TypeInv, TypeOK
  <2>3. slots' \in [Device -> [Device -> [Slot -> Keypair \cup {NoKeypair}]]]
    <3>1. /\ RotateInitiator(ks, k) \in [Slot -> Keypair \cup {NoKeypair}]
          /\ RotateResponder(ks, k) \in [Slot -> Keypair \cup {NoKeypair}]
      BY <2>1, <2>2, RotateTypes
    <3>2. QED
      BY <1>10, <2>1, <3>1 DEF RotateKeypairs, TypeInv, TypeOK
  <2>4. table' \in [Device -> [Idx -> IndexTableEntry]]
    BY <1>10, <2>1, TableTypes DEF RotateKeypairs, TypeInv, TypeOK
  <2>5. net' \subseteq Message
    BY <1>10 DEF RotateKeypairs, TypeInv, TypeOK, Job
  <2>6. pc' \in [Thread -> PC] /\ job' \in [Thread -> Job] /\ JobOK'
    <3>1. [NoJob(d) EXCEPT !.peer = p] \in Job /\ "send" \in PC
      BY <2>1, NoJobTypes DEF PC
    <3>2. QED
      BY <1>10, <3>1, GotoTypes, DoneTypes DEF RotateKeypairs
  <2>7. QED
    BY <1>10, <2>3, <2>4, <2>5, <2>6 DEF RotateKeypairs, TypeInv, TypeOK
<1>11. ASSUME NEW t \in Thread, SendStagedPackets(t) PROVE TypeInv'
  <2> DEFINE d == DeviceOf[t]
             p == job[t].peer
             k == slots[d][p]["current"]
  <2>1. d \in Device /\ p \in Device /\ k \in Keypair \cup {NoKeypair}
    BY DEF TypeInv, TypeOK, Job, Slot
  <2>2. CASE k = NoKeypair \/ k \in spent[d]
    BY <1>11, <2>1, <2>2, StartTypes DEF SendStagedPackets
  <2>3. CASE k # NoKeypair /\ k \notin spent[d]
    <3>1. [type |-> "transport", from |-> d, to |-> p, receiver |-> k.remoteIndex, key |-> k.key] \in Message
      BY <2>1, <2>3 DEF Message, MessageTransport, Keypair
    <3>2. pc' \in [Thread -> PC] /\ job' \in [Thread -> Job] /\ JobOK'
      BY <1>11, <2>3, DoneTypes DEF SendStagedPackets
    <3>3. QED
      BY <1>11, <2>3, <3>1, <3>2 DEF SendStagedPackets, TypeInv, TypeOK
  <2>4. QED
    BY <2>2, <2>3
<1>12. ASSUME NEW t \in Thread, NEW m \in net, ReceiveTransport(t, m) PROVE TypeInv'
  <2> DEFINE e == table[DeviceOf[t]][m.receiver]
             j == [NoJob(DeviceOf[t]) EXCEPT !.peer = e.peer, !.keypair = e.keypair]
  <2>1. m \in MessageTransport
    BY <1>12 DEF ReceiveTransport, TypeInv, TypeOK, Message, MessageInitiation, MessageResponse
  <2>2. e.keypair \in Keypair /\ e.peer \in Device
    BY <1>12, <2>1, EntryFields DEF ReceiveTransport, TypeInv, TypeOK, MessageTransport
  <2>3. j \in Job /\ "received" \in PC
    BY <2>2 DEF NoJob, Job, PC
  <2>4. pc' \in [Thread -> PC] /\ job' \in [Thread -> Job] /\ JobOK'
    BY <1>12, <2>3, GotoTypes DEF ReceiveTransport
  <2>5. QED
    BY <1>12, <2>4 DEF ReceiveTransport, TypeInv, TypeOK
<1>13. ASSUME NEW t \in Thread, ReceivedWithKeypair(t) PROVE TypeInv'
  <2> DEFINE d == DeviceOf[t]
             p == job[t].peer
             ks == slots[d][p]
  <2>1. d \in Device /\ p \in Device /\ ks \in [Slot -> Keypair \cup {NoKeypair}]
    BY DEF TypeInv, TypeOK, Job
  <2>2. CASE ks["next"] # job[t].keypair
    <3>1. pc' \in [Thread -> PC] /\ job' \in [Thread -> Job] /\ JobOK'
      BY <1>13, <2>2, DoneTypes DEF ReceivedWithKeypair
    <3>2. QED
      BY <1>13, <2>2, <3>1 DEF ReceivedWithKeypair, TypeInv, TypeOK
  <2>3. CASE ks["next"] = job[t].keypair
    <3>1. [previous |-> ks["current"], current |-> ks["next"], next |-> NoKeypair]
             \in [Slot -> Keypair \cup {NoKeypair}]
      BY <2>1 DEF Slot
    <3>2. slots' \in [Device -> [Device -> [Slot -> Keypair \cup {NoKeypair}]]]
      <4>1. slots' = [slots EXCEPT ![d][p] = [previous |-> ks["current"], current |-> ks["next"],
                                             next |-> NoKeypair]]
        BY <1>13, <2>3 DEF ReceivedWithKeypair
      <4>2. QED
        BY <2>1, <3>1, <4>1 DEF TypeInv, TypeOK
    <3>3. table' \in [Device -> [Idx -> IndexTableEntry]]
      <4>1. table' = [table EXCEPT ![d] = DeleteKeypairs(table[d], {ks["previous"]})]
        BY <1>13, <2>3 DEF ReceivedWithKeypair
      <4>2. QED
        BY <2>1, <4>1, TableTypes DEF TypeInv, TypeOK
    <3>4. pc' \in [Thread -> PC] /\ job' \in [Thread -> Job] /\ JobOK'
      <4>1. [NoJob(d) EXCEPT !.peer = p] \in Job /\ "send" \in PC
        BY <2>1, NoJobTypes DEF PC
      <4>2. QED
        BY <1>13, <2>3, <4>1, GotoTypes DEF ReceivedWithKeypair
    <3>5. QED
      BY <1>13, <3>2, <3>3, <3>4 DEF ReceivedWithKeypair, TypeInv, TypeOK
  <2>4. QED
    BY <2>2, <2>3
<1>14. ASSUME NEW t \in Thread, NEW p \in Device, ZeroAndFlushAll(t, p) PROVE TypeInv'
  <2>1. [NoJob(DeviceOf[t]) EXCEPT !.peer = p] \in Job /\ "zero" \in PC
    BY NoJobTypes DEF PC
  <2>2. pc' \in [Thread -> PC] /\ job' \in [Thread -> Job] /\ JobOK'
    BY <1>14, <2>1, GotoTypes DEF ZeroAndFlushAll
  <2>3. table' \in [Device -> [Idx -> IndexTableEntry]]
    BY <1>14, TableTypes DEF ZeroAndFlushAll, TypeInv, TypeOK
  <2>4. slots' \in [Device -> [Device -> [Slot -> Keypair \cup {NoKeypair}]]]
    BY <1>14 DEF ZeroAndFlushAll, TypeInv, TypeOK
  <2>5. QED
    BY <1>14, <2>2, <2>3, <2>4 DEF ZeroAndFlushAll, TypeInv, TypeOK
<1>15. ASSUME NEW t \in Thread, ZeroHandshakeState(t) PROVE TypeInv'
  <2>1. job[t].peer \in Device
    BY DEF TypeInv, TypeOK, Job
  <2>2. pc' \in [Thread -> PC] /\ job' \in [Thread -> Job] /\ JobOK'
    BY <1>15, DoneTypes DEF ZeroHandshakeState
  <2>3. table' \in [Device -> [Idx -> IndexTableEntry]]
    <3>1. hs[DeviceOf[t]][job[t].peer].localIndex \in Idx
      BY <2>1 DEF TypeInv, TypeOK, HandshakeRec
    <3>2. QED
      BY <1>15, <2>1, <3>1, TableTypes DEF ZeroHandshakeState, TypeInv, TypeOK
  <2>4. hs' \in [Device -> [Device -> HandshakeRec]]
    BY <1>15, <2>1, HandshakeTypes DEF ZeroHandshakeState, TypeInv, TypeOK
  <2>5. QED
    BY <1>15, <2>2, <2>3, <2>4 DEF ZeroHandshakeState, TypeInv, TypeOK
<1>16. ASSUME NEW t \in Thread, NEW p \in Device, ExpireCurrentKeypairs(t, p) PROVE TypeInv'
  <2>1. [NoJob(DeviceOf[t]) EXCEPT !.peer = p] \in Job /\ "expire" \in PC
    BY NoJobTypes DEF PC
  <2>2. pc' \in [Thread -> PC] /\ job' \in [Thread -> Job] /\ JobOK'
    BY <1>16, <2>1, GotoTypes DEF ExpireCurrentKeypairs
  <2>3. table' \in [Device -> [Idx -> IndexTableEntry]]
    <3>1. hs[DeviceOf[t]][p].localIndex \in Idx
      BY DEF TypeInv, TypeOK, HandshakeRec
    <3>2. QED
      BY <1>16, <3>1, TableTypes DEF ExpireCurrentKeypairs, TypeInv, TypeOK
  <2>4. hs' \in [Device -> [Device -> HandshakeRec]]
    BY <1>16, HandshakeTypes DEF ExpireCurrentKeypairs, TypeInv, TypeOK
  <2>5. recent' \in [Device -> [Device -> BOOLEAN]]
    BY <1>16 DEF ExpireCurrentKeypairs, TypeInv, TypeOK
  <2>6. QED
    BY <1>16, <2>2, <2>3, <2>4, <2>5 DEF ExpireCurrentKeypairs, TypeInv, TypeOK
<1>17. ASSUME NEW t \in Thread, ExpireNonces(t) PROVE TypeInv'
  <2>1. slots[DeviceOf[t]][job[t].peer] \in [Slot -> Keypair \cup {NoKeypair}]
    BY DEF TypeInv, TypeOK, Job
  <2>2. spent' \in [Device -> SUBSET Keypair]
    BY <1>17, <2>1 DEF ExpireNonces, TypeInv, TypeOK, Slot
  <2>3. pc' \in [Thread -> PC] /\ job' \in [Thread -> Job] /\ JobOK'
    BY <1>17, DoneTypes DEF ExpireNonces
  <2>4. QED
    BY <1>17, <2>2, <2>3 DEF ExpireNonces, TypeInv, TypeOK
<1>18. ASSUME NEW d \in Device, NEW p \in Device, RekeyTimeout(d, p) PROVE TypeInv'
  BY <1>18 DEF RekeyTimeout, TypeInv, TypeOK, JobOK
<1>19. ASSUME NEW d \in Device, NEW p \in Device, Reject(d, p) PROVE TypeInv'
  BY <1>19 DEF Reject, TypeInv, TypeOK, JobOK, Slot
<1>20. CASE UNCHANGED vars
  BY <1>20 DEF vars, TypeInv, TypeOK, JobOK
<1>21. QED
  BY <1>1, <1>2, <1>3, <1>4, <1>5, <1>6, <1>7, <1>8, <1>9, <1>10, <1>11, <1>12, <1>13, <1>14,
     <1>15, <1>16, <1>17, <1>18, <1>19, <1>20 DEF Next

\* Type correctness: in every state of every behaviour all variables have their
\* types; in particular a step finds in its job the kind of message it expects.
THEOREM TypeCorrect == Spec => []TypeOK
<1>1. Init => TypeInv
  BY InitTypes
<1>2. TypeInv /\ [Next]_vars => TypeInv'
  BY NextTypes
<1>3. TypeInv => TypeOK
  BY DEF TypeInv
<1>4. QED
  BY <1>1, <1>2, <1>3, PTL DEF Spec

-----------------------------------------------------------------------------
(* What a step does to the two fields of a handshake that the theorems are *)
(* about, and to the threads that hold handshake.mutex in "rotate".        *)

\* the handshake of d with p gets index i, the other indices stay
SetsIndex(d, p, i) ==
    \A e, q \in Device :
        hs'[e][q].localIndex = IF e = d /\ q = p THEN i ELSE hs[e][q].localIndex

KeepsIndices == \A e, q \in Device : hs'[e][q].localIndex = hs[e][q].localIndex

KeepsTimestamps == \A e, q \in Device : hs'[e][q].lastTimestamp = hs[e][q].lastTimestamp

\* an index is drawn for the handshake of d with p and the old one is given back
Reindexes(d, p) ==
    LET tab == Delete(table[d], hs[d][p].localIndex) IN
    \E i \in FreeIndex(tab) :
        /\ table' = [table EXCEPT ![d] = [tab EXCEPT ![i] = HandshakeEntry(p)]]
        /\ SetsIndex(d, p, i)

\* the index of the handshake of d with p is given back
Unindexes(d, p) ==
    /\ table' = [table EXCEPT ![d] = Delete(@, hs[d][p].localIndex)]
    /\ SetsIndex(d, p, Zero)

KeepsRotations ==
    \A u \in Thread : /\ pc'[u] = "rotate" <=> pc[u] = "rotate"
                      /\ pc[u] = "rotate" => job'[u] = job[u]

\* A move from and to anything but "rotate" leaves the rotations under way alone.
LEMMA GotoRotations ==
    ASSUME TypeInv, NEW t \in Thread, NEW l, NEW j, Goto(t, l, j), pc[t] # "rotate", l # "rotate"
    PROVE  KeepsRotations
  BY DEF TypeInv, TypeOK, Goto, KeepsRotations

\* The assignments of CreateMessageInitiation and CreateMessageResponse.
LEMMA CreateFields ==
    ASSUME TypeInv, NEW d \in Device, NEW p \in Device, NEW c, NEW i, NEW state,
           hs' = [hs EXCEPT ![d][p].chain = c, ![d][p].localIndex = i, ![d][p].state = state]
    PROVE  SetsIndex(d, p, i) /\ KeepsTimestamps
<1>1. hs \in [Device -> [Device -> HandshakeRec]]
  BY DEF TypeInv, TypeOK
<1>2. ASSUME NEW e \in Device, NEW q \in Device
      PROVE  /\ hs'[e][q].lastTimestamp = hs[e][q].lastTimestamp
             /\ hs'[e][q].localIndex = IF e = d /\ q = p THEN i ELSE hs[e][q].localIndex
  BY <1>1 DEF HandshakeRec
<1>3. QED
  BY <1>2 DEF SetsIndex, KeepsTimestamps

\* The assignments of ConsumeMessageResponse.
LEMMA ConsumeFields ==
    ASSUME TypeInv, NEW d \in Device, NEW p \in Device, NEW c, NEW i, NEW state,
           hs' = [hs EXCEPT ![d][p].chain = c, ![d][p].remoteIndex = i, ![d][p].state = state]
    PROVE  KeepsIndices /\ KeepsTimestamps
<1>1. hs \in [Device -> [Device -> HandshakeRec]]
  BY DEF TypeInv, TypeOK
<1>2. ASSUME NEW e \in Device, NEW q \in Device
      PROVE  /\ hs'[e][q].lastTimestamp = hs[e][q].lastTimestamp
             /\ hs'[e][q].localIndex = hs[e][q].localIndex
  BY <1>1 DEF HandshakeRec
<1>3. QED
  BY <1>2 DEF KeepsIndices, KeepsTimestamps

\* The assignments of ConsumeMessageInitiation.
LEMMA TimestampFields ==
    ASSUME TypeInv, NEW d \in Device, NEW p \in Device, NEW c, NEW i, NEW state, NEW time \in 0..MaxTime,
           hs' = [hs EXCEPT ![d][p].chain = c, ![d][p].remoteIndex = i,
                            ![d][p].lastTimestamp = Latest(@, time), ![d][p].state = state]
    PROVE  /\ KeepsIndices
           /\ \A e, q \in Device : hs'[e][q].lastTimestamp >= hs[e][q].lastTimestamp
<1>1. hs \in [Device -> [Device -> HandshakeRec]]
  BY DEF TypeInv, TypeOK
<1>2. ASSUME NEW e \in Device, NEW q \in Device
      PROVE  /\ \/ hs'[e][q].lastTimestamp = hs[e][q].lastTimestamp
                \/ hs'[e][q].lastTimestamp = Latest(hs[e][q].lastTimestamp, time)
             /\ hs'[e][q].localIndex = hs[e][q].localIndex
             /\ hs[e][q].lastTimestamp \in 0..MaxTime
  BY <1>1 DEF HandshakeRec
<1>3. \A old \in 0..MaxTime : old >= old /\ Latest(old, time) >= old
  BY BoundAssumption DEF Latest
<1>4. ASSUME NEW e \in Device, NEW q \in Device
      PROVE  hs'[e][q].lastTimestamp >= hs[e][q].lastTimestamp
  <2> DEFINE old == hs[e][q].lastTimestamp
  <2>1. hs'[e][q].lastTimestamp = old \/ hs'[e][q].lastTimestamp = Latest(old, time)
    BY <1>2
  <2>2. old >= old /\ Latest(old, time) >= old
    BY <1>2, <1>3
  <2> HIDE DEF old
  <2>3. hs'[e][q].lastTimestamp >= old
    BY <2>1, <2>2
  <2>4. QED
    BY <2>3 DEF old
<1>5. KeepsIndices
  BY <1>2 DEF KeepsIndices
<1>6. QED
  BY <1>4, <1>5

\* CreateMessageInitiation keeps the timestamps and draws a new index.
LEMMA CreateInitiationStep ==
    ASSUME TypeInv, NEW t \in Thread, CreateMessageInitiation(t)
    PROVE  KeepsTimestamps /\ Reindexes(DeviceOf[t], job[t].peer)
<1> DEFINE d == DeviceOf[t]
           p == job[t].peer
           tab == Delete(table[d], hs[d][p].localIndex)
<1>1. d \in Device /\ p \in Device /\ hs \in [Device -> [Device -> HandshakeRec]]
  BY ThreadAssumption DEF TypeInv, TypeOK, Job
<1>2. PICK i \in FreeIndex(tab) :
        /\ table' = [table EXCEPT ![d] = [tab EXCEPT ![i] = HandshakeEntry(p)]]
        /\ hs' = [hs EXCEPT ![d][p].chain = [i |-> nextEph, r |-> 0],
                            ![d][p].localIndex = i,
                            ![d][p].state = "InitiationCreated"]
  BY DEF CreateMessageInitiation
<1>3. KeepsTimestamps /\ SetsIndex(d, p, i)
  BY <1>1, <1>2, CreateFields
<1>4. QED
  BY <1>2, <1>3 DEF Reindexes

\* CreateMessageResponse keeps the timestamps and draws a new index.
LEMMA CreateResponseStep ==
    ASSUME TypeInv, NEW t \in Thread, CreateMessageResponse(t)
    PROVE  \/ UNCHANGED <<hs, table>>
           \/ KeepsTimestamps /\ Reindexes(DeviceOf[t], job[t].peer)
<1> DEFINE d == DeviceOf[t]
           p == job[t].peer
           tab == Delete(table[d], hs[d][p].localIndex)
           chain == [i |-> hs[d][p].chain.i, r |-> nextEph]
<1>1. d \in Device /\ p \in Device /\ hs \in [Device -> [Device -> HandshakeRec]]
  BY ThreadAssumption DEF TypeInv, TypeOK, Job
<1>2. CASE UNCHANGED <<hs, table>>
  BY <1>2
<1>3. CASE ~UNCHANGED <<hs, table>>
  <2>1. PICK i \in FreeIndex(tab) :
          /\ table' = [table EXCEPT ![d] = [tab EXCEPT ![i] = HandshakeEntry(p)]]
          /\ hs' = [hs EXCEPT ![d][p].chain = chain,
                              ![d][p].localIndex = i,
                              ![d][p].state = "ResponseCreated"]
    BY <1>3 DEF CreateMessageResponse
  <2>2. KeepsTimestamps /\ SetsIndex(d, p, i)
    BY <1>1, <2>1, CreateFields
  <2>3. QED
    BY <2>1, <2>2 DEF Reindexes
<1>4. QED
  BY <1>2, <1>3

\* ConsumeMessageInitiation keeps the indices and makes no timestamp older.
LEMMA ConsumeInitiationStep ==
    ASSUME TypeInv, NEW t \in Thread, ConsumeMessageInitiation(t)
    PROVE  /\ KeepsIndices
           /\ \A e, q \in Device : hs'[e][q].lastTimestamp >= hs[e][q].lastTimestamp
<1> DEFINE d == DeviceOf[t]
           p == job[t].peer
           m == job[t].msg
<1>1. d \in Device /\ p \in Device /\ hs \in [Device -> [Device -> HandshakeRec]]
  BY ThreadAssumption DEF TypeInv, TypeOK, Job
<1>2. m.timestamp \in 0..MaxTime
  BY DEF ConsumeMessageInitiation, TypeInv, JobOK, MessageInitiation
<1>3. hs' = [hs EXCEPT ![d][p].chain = [i |-> m.eph, r |-> 0],
                      ![d][p].remoteIndex = m.sender,
                      ![d][p].lastTimestamp = Latest(@, m.timestamp),
                      ![d][p].state = "InitiationConsumed"]
  BY DEF ConsumeMessageInitiation
<1>4. QED
  BY <1>1, <1>2, <1>3, TimestampFields

\* ConsumeMessageResponse keeps the indices and the timestamps.
LEMMA ConsumeResponseStep ==
    ASSUME TypeInv, NEW t \in Thread, ConsumeMessageResponse(t)
    PROVE  KeepsIndices /\ KeepsTimestamps
<1> DEFINE d == DeviceOf[t]
           p == job[t].peer
           m == job[t].msg
<1>1. d \in Device /\ p \in Device /\ hs \in [Device -> [Device -> HandshakeRec]]
  BY ThreadAssumption DEF TypeInv, TypeOK, Job
<1>2. hs' = [hs EXCEPT ![d][p].chain = m.chain,
                      ![d][p].remoteIndex = m.sender,
                      ![d][p].state = "ResponseConsumed"]
  BY DEF ConsumeMessageResponse
<1>3. QED
  BY <1>1, <1>2, ConsumeFields

\* Clearing a handshake gives it index 0 and keeps its timestamp.
LEMMA ClearStep ==
    ASSUME TypeInv, NEW d \in Device, NEW p \in Device, hs' = [hs EXCEPT ![d][p] = Clear(@)]
    PROVE  SetsIndex(d, p, Zero) /\ KeepsTimestamps
<1>1. hs \in [Device -> [Device -> HandshakeRec]]
  BY DEF TypeInv, TypeOK
<1>2. \A h \in HandshakeRec : Clear(h).localIndex = Zero /\ Clear(h).lastTimestamp = h.lastTimestamp
  BY DEF Clear, HandshakeRec
<1>3. QED
  BY <1>1, <1>2 DEF SetsIndex, KeepsTimestamps

-----------------------------------------------------------------------------
(* The replay protection of the responder.                                 *)

\* No action makes a timestamp older.
LEMMA NextMonotone ==
    TypeInv /\ [Next]_vars =>
        \A d, p \in Device : hs'[d][p].lastTimestamp >= hs[d][p].lastTimestamp
<1> SUFFICES ASSUME TypeInv, [Next]_vars
             PROVE  \A d, p \in Device : hs'[d][p].lastTimestamp >= hs[d][p].lastTimestamp
  OBVIOUS
<1> DEFINE Goal == \A d, p \in Device : hs'[d][p].lastTimestamp >= hs[d][p].lastTimestamp
<1>1. KeepsTimestamps => Goal
  BY BoundAssumption DEF KeepsTimestamps, TypeInv, TypeOK, HandshakeRec
<1>2. UNCHANGED hs => Goal
  BY <1>1 DEF KeepsTimestamps
<1>3. ASSUME NEW t \in Thread, CreateMessageInitiation(t) PROVE Goal
  BY <1>1, <1>3, CreateInitiationStep
<1>4. ASSUME NEW t \in Thread, CreateMessageResponse(t) PROVE Goal
  BY <1>1, <1>2, <1>4, CreateResponseStep
<1>5. ASSUME NEW t \in Thread, ConsumeMessageInitiation(t) PROVE Goal
  BY <1>5, ConsumeInitiationStep
<1>6. ASSUME NEW t \in Thread, ConsumeMessageResponse(t) PROVE Goal
  BY <1>1, <1>6, ConsumeResponseStep
<1>7. ASSUME NEW t \in Thread, BeginSymmetricSession(t) PROVE Goal
  <2>1. DeviceOf[t] \in Device /\ job[t].peer \in Device
    BY ThreadAssumption DEF TypeInv, TypeOK, Job
  <2>2. \/ UNCHANGED hs
        \/ hs' = [hs EXCEPT ![DeviceOf[t]][job[t].peer] = Clear(@)]
    BY <1>7 DEF BeginSymmetricSession
  <2>3. QED
    BY <1>1, <1>2, <2>1, <2>2, ClearStep
<1>8. ASSUME NEW t \in Thread, ZeroHandshakeState(t) PROVE Goal
  <2>1. DeviceOf[t] \in Device /\ job[t].peer \in Device
    BY ThreadAssumption DEF TypeInv, TypeOK, Job
  <2>2. QED
    BY <1>1, <1>8, <2>1, ClearStep DEF ZeroHandshakeState
<1>9. ASSUME NEW t \in Thread, NEW q \in Device, ExpireCurrentKeypairs(t, q) PROVE Goal
  BY <1>1, <1>9, ThreadAssumption, ClearStep DEF ExpireCurrentKeypairs
<1>10. ASSUME NEW t \in Thread, NEW q \in Device,
              SendHandshakeInitiation(t, q) \/ StagePacket(t, q) \/ ZeroAndFlushAll(t, q)
       PROVE  UNCHANGED hs
  BY <1>10 DEF SendHandshakeInitiation, StartInitiation, StagePacket, ZeroAndFlushAll
<1>11. ASSUME NEW t \in Thread, NEW m \in net,
              CheckInitiation(t, m) \/ CheckResponse(t, m) \/ ReceiveTransport(t, m)
       PROVE  UNCHANGED hs
  BY <1>11 DEF CheckInitiation, CheckResponse, ReceiveTransport
<1>12. ASSUME NEW t \in Thread,
              RotateKeypairs(t) \/ SendStagedPackets(t) \/ ReceivedWithKeypair(t) \/ ExpireNonces(t)
       PROVE  UNCHANGED hs
  BY <1>12 DEF RotateKeypairs, SendStagedPackets, StartInitiation, ReceivedWithKeypair, ExpireNonces
<1>13. ASSUME NEW d \in Device, NEW q \in Device, RekeyTimeout(d, q) \/ Reject(d, q)
       PROVE  UNCHANGED hs
  BY <1>13 DEF RekeyTimeout, Reject
<1>14. CASE UNCHANGED vars
  BY <1>2, <1>14 DEF vars
<1>15. QED
  BY <1>2, <1>3, <1>4, <1>5, <1>6, <1>7, <1>8, <1>9, <1>10, <1>11, <1>12, <1>13, <1>14 DEF Next

\* Replay protection: whatever order two handshake workers store the initiations
\* they have checked in, the latest accepted timestamp of a peer never decreases.
THEOREM Monotone == Spec => TimestampMonotone
<1>1. Init => TypeInv
  BY InitTypes
<1>2. TypeInv /\ [Next]_vars => TypeInv'
  BY NextTypes
<1>3. TypeInv /\ [Next]_vars =>
        [\A d, p \in Device : hs'[d][p].lastTimestamp >= hs[d][p].lastTimestamp]_hs
  BY NextMonotone
<1>4. QED
  BY <1>1, <1>2, <1>3, PTL DEF Spec, TimestampMonotone
-----------------------------------------------------------------------------
(* The two ends of a session.  An ephemeral key is drawn once, so the      *)
(* initiation that carries it tells who started a handshake with whom, and *)
(* every later use of the key is traced back to that message.              *)

Initiations == {m \in net : m.type = "initiation"}
Transports == {m \in net : m.type = "transport"}

\* d has sent an initiation with the ephemeral key e to p
InitiatedBy(d, p, e) == \E m \in Initiations : m.from = d /\ m.to = p /\ m.eph = e

\* No two initiations carry the same ephemeral key.
InitiationInv ==
    /\ \A m \in Initiations : m.eph < nextEph
    /\ \A m, n \in Initiations : m.eph = n.eph => m = n

\* A state of d's handshake with p says who started it.
StateFits(d, p, state, e) ==
    /\ state \in {"InitiationCreated", "ResponseConsumed"} => InitiatedBy(d, p, e)
    /\ state \in {"InitiationConsumed", "ResponseCreated"} => InitiatedBy(p, d, e)

StateInv == \A d, p \in Device : StateFits(d, p, hs[d][p].state, hs[d][p].chain.i)

\* A keypair that d has for p: d derived its key, and the initiator started the handshake.
SessionOf(d, p, k) ==
    /\ k.key \in derived[d]
    /\ k.isInitiator => InitiatedBy(d, p, k.key.i)
    /\ ~k.isInitiator => InitiatedBy(p, d, k.key.i)

SlotInv ==
    \A d, p \in Device, s \in Slot :
        slots[d][p][s] # NoKeypair => SessionOf(d, p, slots[d][p][s])

\* What a thread took at an earlier step still holds, however long it waits.
HoldsOf(t, label, j) ==
    /\ label = "consume" => /\ j.msg \in Initiations
                            /\ j.msg.from = j.peer /\ j.msg.to = DeviceOf[t]
    /\ label = "install" => InitiatedBy(DeviceOf[t], j.peer, j.msg.chain.i)
    /\ label = "rotate" => SessionOf(DeviceOf[t], j.peer, j.keypair)
    /\ label \in {"begin", "rotate"} => j.msg = NoMsg \/ j.msg.type = "response"
    /\ label = "received" => \E m \in Transports : m.to = DeviceOf[t] /\ m.key = j.keypair.key

HoldsInv == \A t \in Thread : HoldsOf(t, pc[t], job[t])

\* A transport message is sealed with a key its sender derived, of a handshake between
\* the sender and the receiver.
TransportInv ==
    \A m \in Transports :
        /\ m.key \in derived[m.from]
        /\ InitiatedBy(m.from, m.to, m.key.i) \/ InitiatedBy(m.to, m.from, m.key.i)

SessionInv == /\ InitiationInv /\ StateInv /\ SlotInv /\ HoldsInv /\ TransportInv
              /\ KeyConfirmation

\* A datagram stays in the network and a derived key stays derived.
LEMMA NothingForgotten ==
    ASSUME TypeInv, [Next]_vars
    PROVE  net \subseteq net' /\ \A d \in Device : derived[d] \subseteq derived'[d]
<1>1. ASSUME NEW t \in Thread, BeginSymmetricSession(t)
      PROVE  /\ UNCHANGED net
             /\ \/ UNCHANGED derived
                \/ derived' = [derived EXCEPT ![DeviceOf[t]] =
                                 @ \cup {hs[DeviceOf[t]][job[t].peer].chain}]
  BY <1>1 DEF BeginSymmetricSession
<1>2. ASSUME NEW t \in Thread,
             \/ CreateMessageInitiation(t) \/ ConsumeMessageInitiation(t)
             \/ CreateMessageResponse(t) \/ ConsumeMessageResponse(t)
             \/ RotateKeypairs(t) \/ SendStagedPackets(t) \/ ReceivedWithKeypair(t)
             \/ ZeroHandshakeState(t) \/ ExpireNonces(t)
      PROVE  net \subseteq net' /\ UNCHANGED derived
  BY <1>2 DEF CreateMessageInitiation, ConsumeMessageInitiation, CreateMessageResponse,
              ConsumeMessageResponse, RotateKeypairs, SendStagedPackets, StartInitiation,
              ReceivedWithKeypair, ZeroHandshakeState, ExpireNonces
<1>3. ASSUME NEW t \in Thread, NEW p \in Device,
             \/ SendHandshakeInitiation(t, p) \/ StagePacket(t, p)
             \/ ZeroAndFlushAll(t, p) \/ ExpireCurrentKeypairs(t, p)
      PROVE  UNCHANGED <<net, derived>>
  BY <1>3 DEF SendHandshakeInitiation, StartInitiation, StagePacket, ZeroAndFlushAll,
              ExpireCurrentKeypairs
<1>4. ASSUME NEW t \in Thread, NEW m \in net,
             CheckInitiation(t, m) \/ CheckResponse(t, m) \/ ReceiveTransport(t, m)
      PROVE  UNCHANGED <<net, derived>>
  BY <1>4 DEF CheckInitiation, CheckResponse, ReceiveTransport
<1>5. ASSUME NEW d \in Device, NEW p \in Device, RekeyTimeout(d, p) \/ Reject(d, p)
      PROVE  UNCHANGED <<net, derived>>
  BY <1>5 DEF RekeyTimeout, Reject
<1>6. CASE UNCHANGED vars
  BY <1>6 DEF vars
<1>7. derived \in [Device -> SUBSET Chain]
  BY DEF TypeInv, TypeOK
<1>8. QED
  BY <1>1, <1>2, <1>3, <1>4, <1>5, <1>6, <1>7 DEF Next

\* So who started a handshake, and that a keypair is a session, stays true.
LEMMA Persists ==
    ASSUME TypeInv, [Next]_vars, NEW d \in Device, NEW p \in Device
    PROVE  /\ \A e : InitiatedBy(d, p, e) => InitiatedBy(d, p, e)'
           /\ \A k : SessionOf(d, p, k) => SessionOf(d, p, k)'
           /\ \A k : k.key \in derived[d] => k.key \in derived'[d]
           /\ Initiations \subseteq Initiations' /\ Transports \subseteq Transports'
<1>1. net \subseteq net' /\ derived[d] \subseteq derived'[d]
  BY NothingForgotten
<1>2. Initiations \subseteq Initiations' /\ Transports \subseteq Transports'
  BY <1>1 DEF Initiations, Transports
<1>3. ASSUME NEW a \in Device, NEW b \in Device, NEW e, InitiatedBy(a, b, e)
      PROVE  InitiatedBy(a, b, e)'
  BY <1>2, <1>3 DEF InitiatedBy
<1>4. ASSUME NEW k, SessionOf(d, p, k) PROVE SessionOf(d, p, k)'
  BY <1>1, <1>3, <1>4 DEF SessionOf
<1>5. QED
  BY <1>1, <1>2, <1>3, <1>4

-----------------------------------------------------------------------------
(* What the steps send.                                                    *)

\* Only three actions send, and each one kind of message.
LEMMA SentBy ==
    ASSUME TypeInv, HoldsInv, [Next]_vars
    PROVE  \/ UNCHANGED net /\ (UNCHANGED nextEph \/ nextEph' = nextEph + 1)
           \/ \E t \in Thread : \E m \in Message :
                /\ net' = net \cup {m}
                /\ \/ /\ CreateMessageInitiation(t)
                      /\ m.type = "initiation" /\ m.eph = nextEph /\ nextEph' = nextEph + 1
                      /\ m.from = DeviceOf[t] /\ m.to = job[t].peer
                   \/ RotateKeypairs(t) /\ m.type = "response" /\ UNCHANGED nextEph
                   \/ LET k == slots[DeviceOf[t]][job[t].peer]["current"] IN
                      /\ SendStagedPackets(t) /\ UNCHANGED nextEph
                      /\ m.type = "transport" /\ m.key = k.key /\ k # NoKeypair
                      /\ m.from = DeviceOf[t] /\ m.to = job[t].peer
<1> DEFINE Goal ==
           \/ UNCHANGED net /\ (UNCHANGED nextEph \/ nextEph' = nextEph + 1)
           \/ \E t \in Thread : \E m \in Message :
                /\ net' = net \cup {m}
                /\ \/ /\ CreateMessageInitiation(t)
                      /\ m.type = "initiation" /\ m.eph = nextEph /\ nextEph' = nextEph + 1
                      /\ m.from = DeviceOf[t] /\ m.to = job[t].peer
                   \/ RotateKeypairs(t) /\ m.type = "response" /\ UNCHANGED nextEph
                   \/ LET k == slots[DeviceOf[t]][job[t].peer]["current"] IN
                      /\ SendStagedPackets(t) /\ UNCHANGED nextEph
                      /\ m.type = "transport" /\ m.key = k.key /\ k # NoKeypair
                      /\ m.from = DeviceOf[t] /\ m.to = job[t].peer
<1>1. TypeOK' /\ net' \subseteq Message
  BY NextTypes DEF TypeInv, TypeOK
<1>2. ASSUME NEW t \in Thread, CreateMessageInitiation(t) PROVE Goal
  <2>1. PICK i, now : LET m == [type |-> "initiation", from |-> DeviceOf[t],
                                to |-> job[t].peer, sender |-> i, eph |-> nextEph,
                                timestamp |-> now] IN
                      net' = net \cup {m}
    BY <1>2 DEF CreateMessageInitiation
  <2>2. PICK m : /\ m = [type |-> "initiation", from |-> DeviceOf[t],
                         to |-> job[t].peer, sender |-> i, eph |-> nextEph,
                         timestamp |-> now]
                 /\ net' = net \cup {m}
    BY <2>1
  <2>3. /\ m \in Message /\ m.type = "initiation" /\ m.eph = nextEph
        /\ m.from = DeviceOf[t] /\ m.to = job[t].peer
    BY <1>1, <2>2
  <2>4. nextEph' = nextEph + 1
    BY <1>2 DEF CreateMessageInitiation
  <2>5. QED
    BY <1>2, <2>2, <2>3, <2>4
<1>3. ASSUME NEW t \in Thread, RotateKeypairs(t) PROVE Goal
  <2>1. UNCHANGED nextEph /\ pc[t] = "rotate"
    BY <1>3 DEF RotateKeypairs
  <2>2. CASE UNCHANGED net
    BY <2>1, <2>2
  <2>3. CASE job[t].msg # NoMsg /\ net' = net \cup {job[t].msg}
    <3>1. job[t].msg.type = "response"
      BY <2>1, <2>3 DEF HoldsInv, HoldsOf
    <3>2. job[t].msg \in Message
      BY <1>1, <2>3
    <3>3. QED
      BY <1>3, <2>1, <2>3, <3>1, <3>2
  <2>4. QED
    BY <1>3, <2>2, <2>3 DEF RotateKeypairs
<1>4. ASSUME NEW t \in Thread, SendStagedPackets(t) PROVE Goal
  <2>1. PICK k : k = slots[DeviceOf[t]][job[t].peer]["current"]
    OBVIOUS
  <2>2. UNCHANGED nextEph
    BY <1>4 DEF SendStagedPackets, StartInitiation
  <2>3. CASE UNCHANGED net
    BY <2>2, <2>3
  <2>4. CASE ~UNCHANGED net
    <3>1. k # NoKeypair /\ net' = net \cup {[type |-> "transport", from |-> DeviceOf[t],
                                             to |-> job[t].peer, receiver |-> k.remoteIndex,
                                             key |-> k.key]}
      BY <1>4, <2>1, <2>4 DEF SendStagedPackets, StartInitiation
    <3>2. PICK m : m = [type |-> "transport", from |-> DeviceOf[t], to |-> job[t].peer,
                        receiver |-> k.remoteIndex, key |-> k.key]
      OBVIOUS
    <3>3. /\ net' = net \cup {m} /\ m \in Message /\ m.type = "transport" /\ m.key = k.key
          /\ m.from = DeviceOf[t] /\ m.to = job[t].peer
      BY <1>1, <3>1, <3>2
    <3>4. QED
      BY <1>4, <2>1, <2>2, <3>1, <3>3
  <2>5. QED
    BY <2>3, <2>4
<1>5. ASSUME NEW t \in Thread, NEW p \in Device,
             \/ SendHandshakeInitiation(t, p) \/ StagePacket(t, p)
             \/ ZeroAndFlushAll(t, p) \/ ExpireCurrentKeypairs(t, p)
      PROVE  Goal
  BY <1>5 DEF SendHandshakeInitiation, StartInitiation, StagePacket, ZeroAndFlushAll,
              ExpireCurrentKeypairs
<1>6. ASSUME NEW t \in Thread, NEW m \in net,
             CheckInitiation(t, m) \/ CheckResponse(t, m) \/ ReceiveTransport(t, m)
      PROVE  Goal
  BY <1>6 DEF CheckInitiation, CheckResponse, ReceiveTransport
<1>7. ASSUME NEW t \in Thread,
             \/ ConsumeMessageInitiation(t) \/ CreateMessageResponse(t)
             \/ ConsumeMessageResponse(t) \/ BeginSymmetricSession(t)
             \/ ReceivedWithKeypair(t) \/ ZeroHandshakeState(t) \/ ExpireNonces(t)
      PROVE  Goal
  BY <1>7 DEF ConsumeMessageInitiation, CreateMessageResponse, ConsumeMessageResponse,
              BeginSymmetricSession, ReceivedWithKeypair, ZeroHandshakeState, ExpireNonces
<1>8. ASSUME NEW d \in Device, NEW p \in Device, RekeyTimeout(d, p) \/ Reject(d, p) PROVE Goal
  BY <1>8 DEF RekeyTimeout, Reject
<1>9. ASSUME UNCHANGED vars PROVE Goal
  BY <1>9 DEF vars
<1> HIDE DEF Goal
<1>10. Goal
  BY <1>2, <1>3, <1>4, <1>5, <1>6, <1>7, <1>8, <1>9 DEF Next
<1>11. QED
  BY <1>10 DEF Goal

\* Ephemeral keys stay fresh, and a transport message is sealed with a session of its
\* sender for its receiver.
LEMMA NetStep ==
    ASSUME TypeInv, InitiationInv, SlotInv, HoldsInv, TransportInv, [Next]_vars
    PROVE  InitiationInv' /\ TransportInv'
<1>1. /\ nextEph \in Nat /\ net \subseteq Message
      /\ \A m \in Initiations : m.eph \in Nat
  <2>1. nextEph \in Nat /\ net \subseteq Message
    BY BoundAssumption DEF TypeInv, TypeOK
  <2>2. ASSUME NEW m \in Initiations PROVE m.eph \in Nat
    <3>1. m \in MessageInitiation
      BY <2>1, MessageKinds DEF Initiations
    <3>2. QED
      BY <3>1, BoundAssumption DEF MessageInitiation, Eph
  <2>3. QED
    BY <2>1, <2>2
<1>2. ASSUME NEW m \in Transports
      PROVE  /\ m.key \in derived'[m.from]
             /\ InitiatedBy(m.from, m.to, m.key.i)' \/ InitiatedBy(m.to, m.from, m.key.i)'
  <2>1. m.from \in Device /\ m.to \in Device
    BY <1>1 DEF Transports, Message, MessageInitiation, MessageResponse, MessageTransport
  <2>2. PICK f, g, e : f = m.from /\ g = m.to /\ e = m.key.i
    OBVIOUS
  <2>3. InitiatedBy(f, g, e) \/ InitiatedBy(g, f, e)
    BY <2>2 DEF TransportInv
  <2>4. InitiatedBy(f, g, e)' \/ InitiatedBy(g, f, e)'
    BY <2>1, <2>2, <2>3, Persists
  <2>5. m.key \in derived'[m.from]
    BY <2>1, Persists DEF TransportInv
  <2>6. QED
    BY <2>2, <2>4, <2>5
<1>3. ASSUME Initiations' = Initiations, UNCHANGED nextEph \/ nextEph' = nextEph + 1
      PROVE  InitiationInv'
  BY <1>1, <1>3 DEF InitiationInv
<1>4. ASSUME Transports' = Transports
      PROVE  TransportInv'
  BY <1>2, <1>4 DEF TransportInv
<1>5. CASE UNCHANGED net /\ (UNCHANGED nextEph \/ nextEph' = nextEph + 1)
  BY <1>3, <1>4, <1>5 DEF Initiations, Transports
<1>6. ASSUME NEW m \in Message, net' = net \cup {m}, m.type = "initiation",
             m.eph = nextEph, nextEph' = nextEph + 1
      PROVE  InitiationInv' /\ TransportInv'
  <2>1. Initiations' = Initiations \cup {m}
    BY <1>6 DEF Initiations
  <2>2. Transports' = Transports
    BY <1>6 DEF Transports
  <2>3. InitiationInv'
    <3>1. \A n \in Initiations' : n.eph < nextEph'
      BY <1>1, <1>6, <2>1 DEF InitiationInv
    <3>2. \A n \in Initiations : n.eph # m.eph
      BY <1>1, <1>6 DEF InitiationInv
    <3>3. \A n, o \in Initiations' : n.eph = o.eph => n = o
      BY <2>1, <3>2 DEF InitiationInv
    <3>4. QED
      BY <3>1, <3>3 DEF InitiationInv
  <2>4. QED
    BY <1>4, <2>2, <2>3
<1>7. ASSUME NEW m \in Message, net' = net \cup {m}, m.type = "response", UNCHANGED nextEph
      PROVE  InitiationInv' /\ TransportInv'
  <2>1. Initiations' = Initiations /\ Transports' = Transports
    BY <1>7 DEF Initiations, Transports
  <2>2. QED
    BY <1>3, <1>4, <1>7, <2>1
<1>8. ASSUME NEW t \in Thread, NEW m \in Message, net' = net \cup {m}, m.type = "transport",
             UNCHANGED nextEph, NEW k, k = slots[DeviceOf[t]][job[t].peer]["current"],
             m.key = k.key, k # NoKeypair, m.from = DeviceOf[t], m.to = job[t].peer
      PROVE  InitiationInv' /\ TransportInv'
  <2>1. Initiations' = Initiations /\ Transports' = Transports \cup {m}
    BY <1>8 DEF Initiations, Transports
  <2>2. PICK f, g : f = m.from /\ g = m.to
    OBVIOUS
  <2>3. f \in Device /\ g \in Device /\ f = DeviceOf[t] /\ g = job[t].peer
    BY <1>8, <2>2, ThreadTypes
  <2>4. SessionOf(f, g, k)
    BY <1>8, <2>3 DEF SlotInv, Slot
  <2>5. SessionOf(f, g, k)'
    BY <2>3, <2>4, Persists
  <2>6. /\ m.key \in derived'[m.from]
        /\ InitiatedBy(m.from, m.to, m.key.i)' \/ InitiatedBy(m.to, m.from, m.key.i)'
    <3>1. k.key \in derived'[f] /\ (InitiatedBy(f, g, k.key.i)' \/ InitiatedBy(g, f, k.key.i)')
      BY <2>5 DEF SessionOf
    <3>2. QED
      BY <1>8, <2>2, <3>1
  <2>7. TransportInv'
    BY <1>2, <2>1, <2>6 DEF TransportInv
  <2>8. QED
    BY <1>3, <1>8, <2>1, <2>7
<1>9. QED
  BY <1>5, <1>6, <1>7, <1>8, SentBy

-----------------------------------------------------------------------------
(* What the steps do to the state of a handshake.                          *)

\* the handshake of d with p gets a state and a chain key, the others keep theirs
SetsState(d, p, state, c) ==
    \A e, q \in Device :
        /\ hs'[e][q].state = IF e = d /\ q = p THEN state ELSE hs[e][q].state
        /\ hs'[e][q].chain = IF e = d /\ q = p THEN c ELSE hs[e][q].chain

\* The assignments of the four messages and of Clear, seen from the state.
LEMMA StateFields ==
    ASSUME TypeInv, NEW d \in Device, NEW p \in Device, NEW c, NEW i, NEW time, NEW state
    PROVE  /\ hs' = [hs EXCEPT ![d][p].chain = c, ![d][p].localIndex = i,
                               ![d][p].state = state] => SetsState(d, p, state, c)
           /\ hs' = [hs EXCEPT ![d][p].chain = c, ![d][p].remoteIndex = i,
                               ![d][p].state = state] => SetsState(d, p, state, c)
           /\ hs' = [hs EXCEPT ![d][p].chain = c, ![d][p].remoteIndex = i,
                               ![d][p].lastTimestamp = Latest(@, time),
                               ![d][p].state = state] => SetsState(d, p, state, c)
           /\ hs' = [hs EXCEPT ![d][p] = Clear(@)] => SetsState(d, p, "Zeroed", NoChain)
<1>1. hs \in [Device -> [Device -> HandshakeRec]]
  BY DEF TypeInv, TypeOK
<1>2. ASSUME hs' = [hs EXCEPT ![d][p].chain = c, ![d][p].localIndex = i, ![d][p].state = state]
      PROVE  SetsState(d, p, state, c)
  BY <1>1, <1>2 DEF HandshakeRec, SetsState
<1>3. ASSUME hs' = [hs EXCEPT ![d][p].chain = c, ![d][p].remoteIndex = i, ![d][p].state = state]
      PROVE  SetsState(d, p, state, c)
  BY <1>1, <1>3 DEF HandshakeRec, SetsState
<1>4. ASSUME hs' = [hs EXCEPT ![d][p].chain = c, ![d][p].remoteIndex = i,
                              ![d][p].lastTimestamp = Latest(@, time), ![d][p].state = state]
      PROVE  SetsState(d, p, state, c)
  BY <1>1, <1>4 DEF HandshakeRec, SetsState
<1>5. ASSUME hs' = [hs EXCEPT ![d][p] = Clear(@)]
      PROVE  SetsState(d, p, "Zeroed", NoChain)
  <2>1. \A h \in HandshakeRec : Clear(h).state = "Zeroed" /\ Clear(h).chain = NoChain
    BY DEF Clear, HandshakeRec
  <2>2. QED
    BY <1>1, <1>5, <2>1 DEF SetsState
<1>6. QED
  BY <1>2, <1>3, <1>4, <1>5

\* A state that fits still fits when more has been sent.
LEMMA FitsPersists ==
    ASSUME TypeInv, [Next]_vars, NEW d \in Device, NEW p \in Device, NEW state, NEW e,
           StateFits(d, p, state, e)
    PROVE  StateFits(d, p, state, e)'
<1>1. /\ InitiatedBy(d, p, e) => InitiatedBy(d, p, e)'
      /\ InitiatedBy(p, d, e) => InitiatedBy(p, d, e)'
  BY Persists
<1>2. QED
  BY <1>1 DEF StateFits

\* One handshake is set to a state that fits, the others stay as they were.
LEMMA SetStep ==
    ASSUME TypeInv, StateInv, [Next]_vars, NEW d \in Device, NEW p \in Device,
           NEW state, NEW c, SetsState(d, p, state, c), StateFits(d, p, state, c.i)'
    PROVE  StateInv'
<1>1. ASSUME NEW e \in Device, NEW q \in Device
      PROVE  StateFits(e, q, hs[e][q].state, hs[e][q].chain.i)'
  <2>1. PICK st, x : st = hs'[e][q].state /\ x = hs'[e][q].chain.i
    OBVIOUS
  <2>2. StateFits(e, q, st, x)'
    <3>1. CASE e = d /\ q = p
      <4>1. st = state /\ x = c.i
        BY <2>1, <3>1 DEF SetsState
      <4>2. QED
        BY <3>1, <4>1
    <3>2. CASE ~(e = d /\ q = p)
      <4>1. st = hs[e][q].state /\ x = hs[e][q].chain.i
        BY <2>1, <3>2 DEF SetsState
      <4>2. StateFits(e, q, st, x)
        BY <4>1 DEF StateInv
      <4>3. QED
        BY <4>2, FitsPersists
    <3>3. QED
      BY <3>1, <3>2
  <2>3. QED
    BY <2>1, <2>2
<1>2. QED
  BY <1>1 DEF StateInv

\* The handshakes stay as they are.
LEMMA QuietState ==
    ASSUME TypeInv, StateInv, [Next]_vars, UNCHANGED hs
    PROVE  StateInv'
<1>1. ASSUME NEW e \in Device, NEW q \in Device
      PROVE  StateFits(e, q, hs[e][q].state, hs[e][q].chain.i)'
  <2>1. PICK st, x : st = hs[e][q].state /\ x = hs[e][q].chain.i
    OBVIOUS
  <2>2. StateFits(e, q, st, x)
    BY <2>1 DEF StateInv
  <2>3. StateFits(e, q, st, x)'
    BY <2>2, FitsPersists
  <2>4. QED
    BY <2>1, <2>3
<1>2. QED
  BY <1>1 DEF StateInv

\* Every step keeps the states true to the messages.
LEMMA StateStep ==
    ASSUME TypeInv, InitiationInv, StateInv, HoldsInv, [Next]_vars
    PROVE  StateInv'
<1>1. ASSUME NEW t \in Thread
      PROVE  DeviceOf[t] \in Device /\ job[t].peer \in Device
  BY ThreadTypes
<1>2. ASSUME NEW t \in Thread, CreateMessageInitiation(t) PROVE StateInv'
  <2>1. PICK d, p, e : d = DeviceOf[t] /\ p = job[t].peer /\ e = nextEph
    OBVIOUS
  <2>2. d \in Device /\ p \in Device
    BY <1>1, <2>1
  <2>3. PICK i, now :
          /\ hs' = [hs EXCEPT ![d][p].chain = [i |-> e, r |-> 0],
                              ![d][p].localIndex = i, ![d][p].state = "InitiationCreated"]
          /\ net' = net \cup {[type |-> "initiation", from |-> d, to |-> p,
                               sender |-> i, eph |-> e, timestamp |-> now]}
    BY <1>2, <2>1 DEF CreateMessageInitiation
  <2>4. SetsState(d, p, "InitiationCreated", [i |-> e, r |-> 0])
    BY <2>2, <2>3, StateFields
  <2>5. InitiatedBy(d, p, e)'
    <3>1. PICK m : /\ m = [type |-> "initiation", from |-> d, to |-> p,
                           sender |-> i, eph |-> e, timestamp |-> now]
                   /\ net' = net \cup {m}
      BY <2>3
    <3>2. m \in Initiations' /\ m.from = d /\ m.to = p /\ m.eph = e
      BY <3>1 DEF Initiations
    <3>3. QED
      BY <3>2 DEF InitiatedBy
  <2>6. StateFits(d, p, "InitiationCreated", [i |-> e, r |-> 0].i)'
    BY <2>5 DEF StateFits
  <2>7. QED
    BY <2>2, <2>4, <2>6, SetStep
<1>3. ASSUME NEW t \in Thread, ConsumeMessageInitiation(t) PROVE StateInv'
  <2>1. PICK d, p, m : d = DeviceOf[t] /\ p = job[t].peer /\ m = job[t].msg
    OBVIOUS
  <2>2. d \in Device /\ p \in Device
    BY <1>1, <2>1
  <2>3. hs' = [hs EXCEPT ![d][p].chain = [i |-> m.eph, r |-> 0],
                        ![d][p].remoteIndex = m.sender,
                        ![d][p].lastTimestamp = Latest(@, m.timestamp),
                        ![d][p].state = "InitiationConsumed"]
    BY <1>3, <2>1 DEF ConsumeMessageInitiation
  <2>4. PICK c : c = [i |-> m.eph, r |-> 0]
    OBVIOUS
  <2>5. SetsState(d, p, "InitiationConsumed", c)
    BY <2>2, <2>3, <2>4, StateFields
  <2>6. InitiatedBy(p, d, m.eph)
    <3>1. m \in Initiations /\ m.from = p /\ m.to = d
      BY <1>3, <2>1 DEF ConsumeMessageInitiation, HoldsInv, HoldsOf
    <3>2. QED
      BY <3>1 DEF InitiatedBy
  <2>7. StateFits(d, p, "InitiationConsumed", c.i)'
    <3>1. c.i = m.eph
      BY <2>4
    <3>2. InitiatedBy(p, d, c.i)'
      BY <2>2, <2>6, <3>1, Persists
    <3>3. QED
      BY <3>2 DEF StateFits
  <2>8. QED
    BY <2>2, <2>5, <2>7, SetStep
<1>4. ASSUME NEW t \in Thread, CreateMessageResponse(t) PROVE StateInv'
  <2>1. CASE UNCHANGED hs
    BY <2>1, QuietState
  <2>2. CASE ~UNCHANGED hs
    <3>1. PICK d, p, c : /\ d = DeviceOf[t] /\ p = job[t].peer
                         /\ c = [i |-> hs[d][p].chain.i, r |-> nextEph]
      OBVIOUS
    <3>2. d \in Device /\ p \in Device
      BY <1>1, <3>1
    <3>3. PICK i : /\ hs' = [hs EXCEPT ![d][p].chain = c, ![d][p].localIndex = i,
                                       ![d][p].state = "ResponseCreated"]
                   /\ hs[d][p].state = "InitiationConsumed"
      BY <1>4, <2>2, <3>1 DEF CreateMessageResponse
    <3>4. SetsState(d, p, "ResponseCreated", c)
      BY <3>2, <3>3, StateFields
    <3>5. InitiatedBy(p, d, c.i)
      <4>1. c.i = hs[d][p].chain.i
        BY <3>1
      <4>2. StateFits(d, p, hs[d][p].state, hs[d][p].chain.i)
        BY <3>2 DEF StateInv
      <4>3. QED
        BY <3>3, <4>1, <4>2 DEF StateFits
    <3>6. StateFits(d, p, "ResponseCreated", c.i)'
      <4>1. InitiatedBy(p, d, c.i)'
        BY <3>2, <3>5, Persists
      <4>2. QED
        BY <4>1 DEF StateFits
    <3>7. QED
      BY <3>2, <3>4, <3>6, SetStep
  <2>3. QED
    BY <2>1, <2>2
<1>5. ASSUME NEW t \in Thread, ConsumeMessageResponse(t) PROVE StateInv'
  <2>1. PICK d, p, m : d = DeviceOf[t] /\ p = job[t].peer /\ m = job[t].msg
    OBVIOUS
  <2>2. d \in Device /\ p \in Device
    BY <1>1, <2>1
  <2>3. hs' = [hs EXCEPT ![d][p].chain = m.chain, ![d][p].remoteIndex = m.sender,
                        ![d][p].state = "ResponseConsumed"]
    BY <1>5, <2>1 DEF ConsumeMessageResponse
  <2>4. SetsState(d, p, "ResponseConsumed", m.chain)
    BY <2>2, <2>3, StateFields
  <2>5. InitiatedBy(d, p, m.chain.i)
    BY <1>5, <2>1 DEF ConsumeMessageResponse, HoldsInv, HoldsOf
  <2>6. StateFits(d, p, "ResponseConsumed", m.chain.i)'
    <3>1. InitiatedBy(d, p, m.chain.i)'
      BY <2>2, <2>5, Persists
    <3>2. QED
      BY <3>1 DEF StateFits
  <2>7. QED
    BY <2>2, <2>4, <2>6, SetStep
<1>6. ASSUME NEW d \in Device, NEW p \in Device, hs' = [hs EXCEPT ![d][p] = Clear(@)]
      PROVE  StateInv'
  <2>1. SetsState(d, p, "Zeroed", NoChain)
    BY <1>6, StateFields
  <2>2. StateFits(d, p, "Zeroed", NoChain.i)'
    BY DEF StateFits
  <2>3. QED
    BY <2>1, <2>2, SetStep
<1>7. ASSUME NEW t \in Thread, BeginSymmetricSession(t) PROVE StateInv'
  <2>1. \/ UNCHANGED hs
        \/ hs' = [hs EXCEPT ![DeviceOf[t]][job[t].peer] = Clear(@)]
    BY <1>7 DEF BeginSymmetricSession
  <2>2. QED
    BY <1>1, <1>6, <2>1, QuietState
<1>8. ASSUME NEW t \in Thread, ZeroHandshakeState(t) PROVE StateInv'
  BY <1>1, <1>6, <1>8 DEF ZeroHandshakeState
<1>9. ASSUME NEW t \in Thread, NEW p \in Device, ExpireCurrentKeypairs(t, p) PROVE StateInv'
  BY <1>1, <1>6, <1>9 DEF ExpireCurrentKeypairs
<1>10. ASSUME NEW t \in Thread, NEW q \in Device,
              SendHandshakeInitiation(t, q) \/ StagePacket(t, q) \/ ZeroAndFlushAll(t, q)
       PROVE  UNCHANGED hs
  BY <1>10 DEF SendHandshakeInitiation, StartInitiation, StagePacket, ZeroAndFlushAll
<1>11. ASSUME NEW t \in Thread, NEW m \in net,
              CheckInitiation(t, m) \/ CheckResponse(t, m) \/ ReceiveTransport(t, m)
       PROVE  UNCHANGED hs
  BY <1>11 DEF CheckInitiation, CheckResponse, ReceiveTransport
<1>12. ASSUME NEW t \in Thread,
              RotateKeypairs(t) \/ SendStagedPackets(t) \/ ReceivedWithKeypair(t) \/ ExpireNonces(t)
       PROVE  UNCHANGED hs
  BY <1>12 DEF RotateKeypairs, SendStagedPackets, StartInitiation, ReceivedWithKeypair, ExpireNonces
<1>13. ASSUME NEW d \in Device, NEW q \in Device, RekeyTimeout(d, q) \/ Reject(d, q)
       PROVE  UNCHANGED hs
  BY <1>13 DEF RekeyTimeout, Reject
<1>14. CASE UNCHANGED hs
  BY <1>14, QuietState
<1>15. UNCHANGED vars => UNCHANGED hs
  BY DEF vars
<1>16. QED
  BY <1>2, <1>3, <1>4, <1>5, <1>7, <1>8, <1>9, <1>10, <1>11, <1>12, <1>13, <1>14, <1>15
     DEF Next

-----------------------------------------------------------------------------
(* What the threads hold.                                                  *)

\* What a thread holds is not undone by a step of another.
LEMMA HoldsPersists ==
    ASSUME TypeInv, [Next]_vars, NEW t \in Thread, NEW label, NEW j,
           label \in {"install", "rotate"} => j.peer \in Device, HoldsOf(t, label, j)
    PROVE  HoldsOf(t, label, j)'
<1>1. PICK d, p : d = DeviceOf[t] /\ p = j.peer /\ d \in Device
  BY ThreadAssumption
<1>2. Initiations \subseteq Initiations' /\ Transports \subseteq Transports'
  BY <1>1, Persists
<1>3. label = "install" => InitiatedBy(d, p, j.msg.chain.i)'
  <2>1. SUFFICES ASSUME label = "install" PROVE InitiatedBy(d, p, j.msg.chain.i)'
    OBVIOUS
  <2>2. InitiatedBy(d, p, j.msg.chain.i) /\ p \in Device
    BY <1>1, <2>1 DEF HoldsOf
  <2>3. QED
    BY <1>1, <2>2, Persists
<1>4. label = "rotate" => SessionOf(d, p, j.keypair)'
  <2>1. SUFFICES ASSUME label = "rotate" PROVE SessionOf(d, p, j.keypair)'
    OBVIOUS
  <2>2. SessionOf(d, p, j.keypair) /\ p \in Device
    BY <1>1, <2>1 DEF HoldsOf
  <2>3. QED
    BY <1>1, <2>2, Persists
<1>5. QED
  BY <1>1, <1>2, <1>3, <1>4 DEF HoldsOf

\* Whoever moves must hold what its new label says; the others keep what they hold.
LEMMA MoveStep ==
    ASSUME TypeInv, HoldsInv, [Next]_vars, NEW t \in Thread, NEW l, NEW j, Goto(t, l, j),
           HoldsOf(t, l, j)'
    PROVE  HoldsInv'
<1>1. ASSUME NEW u \in Thread PROVE HoldsOf(u, pc[u], job[u])'
  <2>1. PICK label, k : label = pc'[u] /\ k = job'[u]
    OBVIOUS
  <2>2. HoldsOf(u, label, k)'
    <3>1. CASE u = t
      <4>1. label = l /\ k = j
        BY <2>1, <3>1 DEF Goto, TypeInv, TypeOK
      <4>2. QED
        BY <3>1, <4>1
    <3>2. CASE u # t
      <4>1. label = pc[u] /\ k = job[u]
        BY <2>1, <3>2 DEF Goto, TypeInv, TypeOK
      <4>2. HoldsOf(u, label, k) /\ k.peer \in Device
        BY <4>1, ThreadTypes DEF HoldsInv
      <4>3. QED
        BY <4>2, HoldsPersists
    <3>3. QED
      BY <3>1, <3>2
  <2>3. QED
    BY <2>1, <2>2
<1>2. QED
  BY <1>1 DEF HoldsInv

\* A move to a label that holds nothing.
LEMMA PlainStep ==
    ASSUME TypeInv, HoldsInv, [Next]_vars, NEW t \in Thread, NEW l, NEW j, Goto(t, l, j),
           l \notin {"consume", "install", "begin", "rotate", "received"}
    PROVE  HoldsInv'
<1>1. HoldsOf(t, l, j)'
  BY DEF HoldsOf
<1>2. QED
  BY <1>1, MoveStep

\* No thread moves.
LEMMA StillStep ==
    ASSUME TypeInv, HoldsInv, [Next]_vars, UNCHANGED <<pc, job>>
    PROVE  HoldsInv'
<1>1. ASSUME NEW u \in Thread PROVE HoldsOf(u, pc[u], job[u])'
  <2>1. PICK label, k : label = pc[u] /\ k = job[u]
    OBVIOUS
  <2>2. HoldsOf(u, label, k) /\ k.peer \in Device
    BY <2>1, ThreadTypes DEF HoldsInv
  <2>3. HoldsOf(u, label, k)'
    BY <2>2, HoldsPersists
  <2>4. QED
    BY <2>1, <2>3
<1>2. QED
  BY <1>1 DEF HoldsInv

\* The steps that end a job or only stage one.
LEMMA PlainMoves ==
    ASSUME TypeInv, HoldsInv, [Next]_vars, NEW t \in Thread,
           \/ \E p \in Device : \/ SendHandshakeInitiation(t, p) \/ StagePacket(t, p)
                                \/ ZeroAndFlushAll(t, p) \/ ExpireCurrentKeypairs(t, p)
           \/ CreateMessageInitiation(t) \/ ConsumeMessageInitiation(t) \/ RotateKeypairs(t)
           \/ SendStagedPackets(t) \/ ReceivedWithKeypair(t) \/ ZeroHandshakeState(t)
           \/ ExpireNonces(t)
    PROVE  HoldsInv'
<1>1. \E l, j : /\ Goto(t, l, j)
                /\ l \notin {"consume", "install", "begin", "rotate", "received"}
  <2>1. ASSUME NEW p, SendHandshakeInitiation(t, p) \/ StartInitiation(t, p)
        PROVE  \E j : \E l \in {"idle", "create"} : Goto(t, l, j)
    BY <2>1 DEF SendHandshakeInitiation, StartInitiation, Done
  <2>2. ASSUME NEW p, \/ StagePacket(t, p) \/ ZeroAndFlushAll(t, p)
                      \/ ExpireCurrentKeypairs(t, p)
        PROVE  \E j : \E l \in {"send", "zero", "expire"} : Goto(t, l, j)
    BY <2>2 DEF StagePacket, ZeroAndFlushAll, ExpireCurrentKeypairs
  <2>3. ASSUME \/ CreateMessageInitiation(t) \/ ConsumeMessageInitiation(t)
               \/ ZeroHandshakeState(t) \/ ExpireNonces(t)
        PROVE  \E j : \E l \in {"idle", "respond"} : Goto(t, l, j)
    BY <2>3 DEF CreateMessageInitiation, ConsumeMessageInitiation, ZeroHandshakeState,
                ExpireNonces, Done
  <2>4. ASSUME RotateKeypairs(t) \/ ReceivedWithKeypair(t)
        PROVE  \E j : \E l \in {"idle", "send"} : Goto(t, l, j)
    BY <2>4 DEF RotateKeypairs, ReceivedWithKeypair, Done
  <2>5. ASSUME SendStagedPackets(t)
        PROVE  \E j : \E l \in {"idle", "create"} : Goto(t, l, j)
    BY <2>1, <2>5 DEF SendStagedPackets, Done
  <2>6. QED
    BY <2>1, <2>2, <2>3, <2>4, <2>5
<1>2. QED
  BY <1>1, PlainStep

\* Every step leaves every thread with what its label says.
LEMMA HoldsStep ==
    ASSUME TypeInv, StateInv, HoldsInv, [Next]_vars
    PROVE  HoldsInv'
<1>1. ASSUME NEW t \in Thread, NEW m \in net, CheckInitiation(t, m) PROVE HoldsInv'
  <2>1. PICK j : /\ j = [NoJob(DeviceOf[t]) EXCEPT !.peer = m.from, !.msg = m]
                 /\ Goto(t, "consume", j)
    BY <1>1 DEF CheckInitiation
  <2>2. j.msg = m /\ j.peer = m.from /\ m.to = DeviceOf[t] /\ m.type = "initiation"
    BY <1>1, <2>1 DEF CheckInitiation, NoJob
  <2>3. m \in Initiations'
    BY <2>2, NothingForgotten DEF Initiations
  <2>4. HoldsOf(t, "consume", j)'
    BY <2>2, <2>3 DEF HoldsOf
  <2>5. QED
    BY <2>1, <2>4, MoveStep
<1>2. ASSUME NEW t \in Thread, NEW m \in net, CheckResponse(t, m) PROVE HoldsInv'
  <2>1. PICK d : d = DeviceOf[t] /\ d \in Device
    BY ThreadAssumption
  <2>2. PICK p \in Device : /\ hs[d][p].state = "InitiationCreated"
                            /\ hs[d][p].chain.i = m.chain.i
                            /\ Goto(t, "install", [NoJob(d) EXCEPT !.peer = p, !.msg = m])
    BY <1>2, <2>1 DEF CheckResponse, Peers
  <2>3. PICK j : j = [NoJob(d) EXCEPT !.peer = p, !.msg = m] /\ Goto(t, "install", j)
    BY <2>2
  <2>4. j.msg = m /\ j.peer = p
    BY <2>3 DEF NoJob
  <2>5. InitiatedBy(d, p, m.chain.i)
    <3>1. StateFits(d, p, hs[d][p].state, hs[d][p].chain.i)
      BY <2>1 DEF StateInv
    <3>2. QED
      BY <2>2, <3>1 DEF StateFits
  <2>6. InitiatedBy(d, p, m.chain.i)'
    BY <2>1, <2>5, Persists
  <2>7. HoldsOf(t, "install", j)'
    BY <2>1, <2>4, <2>6 DEF HoldsOf
  <2>8. QED
    BY <2>3, <2>7, MoveStep
<1>3. ASSUME NEW t \in Thread, NEW m \in net, ReceiveTransport(t, m) PROVE HoldsInv'
  <2>1. PICK d, k, q : d = DeviceOf[t] /\ k = table[d][m.receiver].keypair
                       /\ q = table[d][m.receiver].peer
    OBVIOUS
  <2>2. PICK j : /\ j = [NoJob(d) EXCEPT !.peer = q, !.keypair = k]
                 /\ Goto(t, "received", j)
    BY <1>3, <2>1 DEF ReceiveTransport
  <2>3. j.keypair = k /\ k.key = m.key /\ m.to = d /\ m.type = "transport"
    BY <1>3, <2>1, <2>2 DEF ReceiveTransport, NoJob
  <2>4. m \in Transports'
    BY <2>3, NothingForgotten DEF Transports
  <2>5. HoldsOf(t, "received", j)'
    BY <2>1, <2>3, <2>4 DEF HoldsOf
  <2>6. QED
    BY <2>2, <2>5, MoveStep
<1>4. ASSUME NEW t \in Thread, CreateMessageResponse(t) PROVE HoldsInv'
  <2>1. CASE Done(t)
    BY <2>1, PlainStep DEF Done
  <2>2. CASE ~Done(t)
    <3>1. PICK i, c : Goto(t, "begin",
                 [NoJob(DeviceOf[t]) EXCEPT !.peer = job[t].peer,
                    !.msg = [type |-> "response", from |-> DeviceOf[t], to |-> job[t].peer,
                             sender |-> i,
                             receiver |-> hs[DeviceOf[t]][job[t].peer].remoteIndex,
                             chain |-> c]])
      BY <1>4, <2>2 DEF CreateMessageResponse
    <3>2. PICK j : /\ Goto(t, "begin", j)
                   /\ j = [NoJob(DeviceOf[t]) EXCEPT !.peer = job[t].peer,
                             !.msg = [type |-> "response", from |-> DeviceOf[t],
                                      to |-> job[t].peer, sender |-> i,
                                      receiver |-> hs[DeviceOf[t]][job[t].peer].remoteIndex,
                                      chain |-> c]]
      BY <3>1
    <3>3. j.msg.type = "response"
      BY <3>2 DEF NoJob
    <3>4. HoldsOf(t, "begin", j)'
      BY <3>3 DEF HoldsOf
    <3>5. QED
      BY <3>2, <3>4, MoveStep
  <2>3. QED
    BY <2>1, <2>2
<1>5. ASSUME NEW t \in Thread, ConsumeMessageResponse(t) PROVE HoldsInv'
  <2>1. PICK j : /\ j = [NoJob(DeviceOf[t]) EXCEPT !.peer = job[t].peer]
                 /\ Goto(t, "begin", j)
    BY <1>5 DEF ConsumeMessageResponse
  <2>2. j.msg = NoMsg
    BY <2>1 DEF NoJob
  <2>3. HoldsOf(t, "begin", j)'
    BY <2>2 DEF HoldsOf
  <2>4. QED
    BY <2>1, <2>3, MoveStep
<1>6. ASSUME NEW t \in Thread, BeginSymmetricSession(t) PROVE HoldsInv'
  <2>1. CASE Done(t)
    BY <2>1, PlainStep DEF Done
  <2>2. CASE ~Done(t)
    <3>1. PICK d, p, h : d = DeviceOf[t] /\ p = job[t].peer /\ h = hs[d][p]
      OBVIOUS
    <3>2. d \in Device /\ p \in Device /\ h \in HandshakeRec /\ job[t] \in Job
      BY <3>1, ThreadTypes DEF TypeInv, TypeOK
    <3>3. PICK k : k = NewKeypair(h)
      OBVIOUS
    <3>4. /\ pc[t] = "begin" /\ h.state \in {"ResponseConsumed", "ResponseCreated"}
          /\ derived' = [derived EXCEPT ![d] = @ \cup {h.chain}]
          /\ Goto(t, "rotate", [job[t] EXCEPT !.keypair = k])
      BY <1>6, <2>2, <3>1, <3>3 DEF BeginSymmetricSession
    <3>5. PICK j : j = [job[t] EXCEPT !.keypair = k] /\ Goto(t, "rotate", j)
      BY <3>4
    <3>6. j.keypair = k /\ j.peer = p /\ j.msg = job[t].msg
      BY <3>1, <3>2, <3>5 DEF Job
    <3>7. k.key = h.chain /\ k.isInitiator = (h.state = "ResponseConsumed")
      BY <3>3 DEF NewKeypair
    <3>8. SessionOf(d, p, k)'
      <4>1. k.key \in derived'[d]
        BY <3>2, <3>4, <3>7 DEF TypeInv, TypeOK
      <4>2. StateFits(d, p, h.state, k.key.i)
        BY <3>1, <3>2, <3>7 DEF StateInv
      <4>3. StateFits(d, p, h.state, k.key.i)'
        BY <3>2, <4>2, FitsPersists
      <4>4. /\ h.state = "ResponseConsumed" => InitiatedBy(d, p, k.key.i)'
            /\ h.state = "ResponseCreated" => InitiatedBy(p, d, k.key.i)'
        BY <4>3 DEF StateFits
      <4>5. QED
        BY <3>4, <3>7, <4>1, <4>4 DEF SessionOf
    <3>9. j.msg = NoMsg \/ j.msg.type = "response"
      BY <3>4, <3>6 DEF HoldsInv, HoldsOf
    <3>10. HoldsOf(t, "rotate", j)'
      BY <3>1, <3>6, <3>8, <3>9 DEF HoldsOf
    <3>11. QED
      BY <3>5, <3>10, MoveStep
  <2>3. QED
    BY <2>1, <2>2
<1>7. ASSUME NEW d \in Device, NEW p \in Device, RekeyTimeout(d, p) \/ Reject(d, p)
      PROVE  HoldsInv'
  BY <1>7, StillStep DEF RekeyTimeout, Reject
<1>8. CASE UNCHANGED vars
  BY <1>8, StillStep DEF vars
<1>9. QED
  BY <1>1, <1>2, <1>3, <1>4, <1>5, <1>6, <1>7, <1>8, PlainMoves DEF Next

-----------------------------------------------------------------------------
(* What the slots hold.                                                    *)

\* A slot keeps a keypair of the peer, loses it, or gets the one of a thread that has
\* just derived it.
LEMMA SlotSources ==
    ASSUME TypeInv, [Next]_vars, NEW d \in Device, NEW p \in Device, NEW s \in Slot
    PROVE  \/ slots'[d][p][s] = NoKeypair
           \/ \E x \in Slot : slots'[d][p][s] = slots[d][p][x]
           \/ \E t \in Thread : /\ pc[t] = "rotate" /\ DeviceOf[t] = d /\ job[t].peer = p
                                /\ slots'[d][p][s] = job[t].keypair
<1> DEFINE Goal ==
           \/ slots'[d][p][s] = NoKeypair
           \/ \E x \in Slot : slots'[d][p][s] = slots[d][p][x]
           \/ \E t \in Thread : /\ pc[t] = "rotate" /\ DeviceOf[t] = d /\ job[t].peer = p
                                /\ slots'[d][p][s] = job[t].keypair
<1>1. slots \in [Device -> [Device -> [Slot -> Keypair \cup {NoKeypair}]]]
  BY DEF TypeInv, TypeOK
<1>2. ASSUME UNCHANGED slots PROVE Goal
  BY <1>2
<1>3. ASSUME NEW t \in Thread, RotateKeypairs(t) PROVE Goal
  <2>1. PICK e, q, k : e = DeviceOf[t] /\ q = job[t].peer /\ k = job[t].keypair
    OBVIOUS
  <2>2. /\ pc[t] = "rotate" /\ e \in Device /\ q \in Device
        /\ slots' = [slots EXCEPT ![e][q] = IF k.isInitiator
                                               THEN RotateInitiator(slots[e][q], k)
                                               ELSE RotateResponder(slots[e][q], k)]
    BY <1>3, <2>1, ThreadTypes DEF RotateKeypairs
  <2>3. CASE ~(e = d /\ q = p)
    <3>1. slots'[d][p] = slots[d][p]
      BY <1>1, <2>2, <2>3
    <3>2. QED
      BY <3>1
  <2>4. CASE e = d /\ q = p
    <3>1. \/ slots'[d][p] = RotateInitiator(slots[d][p], k)
          \/ slots'[d][p] = RotateResponder(slots[d][p], k)
      BY <1>1, <2>2, <2>4
    <3>2. slots'[d][p][s] \in {NoKeypair, k} \cup {slots[d][p][x] : x \in Slot}
      BY <3>1 DEF RotateInitiator, RotateResponder, Slot
    <3>3. QED
      BY <2>1, <2>2, <2>4, <3>2
  <2>5. QED
    BY <2>3, <2>4
<1>4. ASSUME NEW t \in Thread, ReceivedWithKeypair(t) PROVE Goal
  <2>1. PICK e, q : e = DeviceOf[t] /\ q = job[t].peer
    OBVIOUS
  <2>2. /\ e \in Device /\ q \in Device
        /\ \/ UNCHANGED slots
           \/ slots' = [slots EXCEPT ![e][q] = [previous |-> slots[e][q]["current"],
                                                current |-> slots[e][q]["next"],
                                                next |-> NoKeypair]]
    BY <1>4, <2>1, ThreadTypes DEF ReceivedWithKeypair
  <2>3. CASE UNCHANGED slots
    BY <2>3
  <2>4. CASE ~UNCHANGED slots /\ ~(e = d /\ q = p)
    <3>1. slots'[d][p] = slots[d][p]
      BY <1>1, <2>2, <2>4, ZenonT(40)
    <3>2. QED
      BY <3>1
  <2>5. CASE ~UNCHANGED slots /\ e = d /\ q = p
    <3>1. slots'[d][p] = [previous |-> slots[d][p]["current"],
                          current |-> slots[d][p]["next"], next |-> NoKeypair]
      BY <1>1, <2>2, <2>5
    <3>2. slots'[d][p][s] \in {NoKeypair, slots[d][p]["current"], slots[d][p]["next"]}
      BY <3>1 DEF Slot
    <3>3. QED
      BY <3>2 DEF Slot
  <2>6. QED
    BY <2>3, <2>4, <2>5
<1>5. ASSUME NEW t \in Thread, NEW q \in Device, ZeroAndFlushAll(t, q) PROVE Goal
  <2>1. PICK e : /\ e \in Device
                 /\ slots' = [slots EXCEPT ![e][q] = [x \in Slot |-> NoKeypair]]
    BY <1>5, ThreadAssumption DEF ZeroAndFlushAll
  <2>2. slots'[d][p] = slots[d][p] \/ slots'[d][p] = [x \in Slot |-> NoKeypair]
    BY <1>1, <2>1
  <2>3. QED
    BY <2>2
<1>6. ASSUME NEW t \in Thread, NEW q \in Device,
             \/ SendHandshakeInitiation(t, q) \/ StagePacket(t, q)
             \/ ExpireCurrentKeypairs(t, q)
      PROVE  UNCHANGED slots
  BY <1>6 DEF SendHandshakeInitiation, StartInitiation, StagePacket, ExpireCurrentKeypairs
<1>7. ASSUME NEW t \in Thread, NEW m \in net,
             CheckInitiation(t, m) \/ CheckResponse(t, m) \/ ReceiveTransport(t, m)
      PROVE  UNCHANGED slots
  BY <1>7 DEF CheckInitiation, CheckResponse, ReceiveTransport
<1>8. ASSUME NEW t \in Thread,
             \/ CreateMessageInitiation(t) \/ ConsumeMessageInitiation(t)
             \/ CreateMessageResponse(t) \/ ConsumeMessageResponse(t)
             \/ BeginSymmetricSession(t) \/ SendStagedPackets(t) \/ ZeroHandshakeState(t)
             \/ ExpireNonces(t)
      PROVE  UNCHANGED slots
  BY <1>8 DEF CreateMessageInitiation, ConsumeMessageInitiation, CreateMessageResponse,
              ConsumeMessageResponse, BeginSymmetricSession, SendStagedPackets,
              StartInitiation, ZeroHandshakeState, ExpireNonces
<1>9. ASSUME NEW e \in Device, NEW q \in Device, RekeyTimeout(e, q) \/ Reject(e, q)
      PROVE  UNCHANGED slots
  BY <1>9 DEF RekeyTimeout, Reject
<1>10. UNCHANGED vars => UNCHANGED slots
  BY DEF vars
<1> HIDE DEF Goal
<1>11. Goal
  BY <1>2, <1>3, <1>4, <1>5, <1>6, <1>7, <1>8, <1>9, <1>10 DEF Next
<1>12. QED
  BY <1>11 DEF Goal

\* Every slot keeps holding a session of its device with its peer.
LEMMA SlotStep ==
    ASSUME TypeInv, SlotInv, HoldsInv, [Next]_vars
    PROVE  SlotInv'
<1>1. ASSUME NEW d \in Device, NEW p \in Device, NEW s \in Slot, slots'[d][p][s] # NoKeypair
      PROVE  SessionOf(d, p, slots[d][p][s])'
  <2>1. PICK k : k = slots'[d][p][s]
    OBVIOUS
  <2>2. SessionOf(d, p, k)
    <3>1. CASE \E x \in Slot : k = slots[d][p][x]
      BY <1>1, <2>1, <3>1 DEF SlotInv
    <3>2. CASE \E t \in Thread : /\ pc[t] = "rotate" /\ DeviceOf[t] = d /\ job[t].peer = p
                                 /\ k = job[t].keypair
      BY <3>2 DEF HoldsInv, HoldsOf
    <3>3. QED
      BY <1>1, <2>1, <3>1, <3>2, SlotSources
  <2>3. SessionOf(d, p, k)'
    BY <2>2, Persists
  <2>4. QED
    BY <2>1, <2>3
<1>2. QED
  BY <1>1 DEF SlotInv

\* A keypair becomes current because it was, because its owner is the initiator, or
\* because a packet sealed with it has arrived.
LEMMA CurrentSources ==
    ASSUME TypeInv, [Next]_vars, NEW d \in Device, NEW p \in Device
    PROVE  LET k == slots'[d][p]["current"] IN
           \/ k = NoKeypair \/ k = slots[d][p]["current"] \/ k.isInitiator
           \/ \E t \in Thread : /\ pc[t] = "received" /\ DeviceOf[t] = d /\ job[t].peer = p
                                /\ k = slots[d][p]["next"] /\ k = job[t].keypair
<1> DEFINE Goal ==
           LET k == slots'[d][p]["current"] IN
           \/ k = NoKeypair \/ k = slots[d][p]["current"] \/ k.isInitiator
           \/ \E t \in Thread : /\ pc[t] = "received" /\ DeviceOf[t] = d /\ job[t].peer = p
                                /\ k = slots[d][p]["next"] /\ k = job[t].keypair
<1>1. slots \in [Device -> [Device -> [Slot -> Keypair \cup {NoKeypair}]]]
  BY DEF TypeInv, TypeOK
<1>2. ASSUME UNCHANGED slots PROVE Goal
  BY <1>2
<1>3. ASSUME NEW t \in Thread, RotateKeypairs(t) PROVE Goal
  <2>1. PICK e, q, k : e = DeviceOf[t] /\ q = job[t].peer /\ k = job[t].keypair
    OBVIOUS
  <2>2. /\ e \in Device /\ q \in Device
        /\ slots' = [slots EXCEPT ![e][q] = IF k.isInitiator
                                               THEN RotateInitiator(slots[e][q], k)
                                               ELSE RotateResponder(slots[e][q], k)]
    BY <1>3, <2>1, ThreadTypes DEF RotateKeypairs
  <2>3. \/ slots'[d][p] = slots[d][p]
        \/ k.isInitiator /\ slots'[d][p] = RotateInitiator(slots[d][p], k)
        \/ slots'[d][p] = RotateResponder(slots[d][p], k)
    BY <1>1, <2>2
  <2>4. /\ RotateInitiator(slots[d][p], k)["current"] = k
        /\ RotateResponder(slots[d][p], k)["current"] = slots[d][p]["current"]
    BY DEF RotateInitiator, RotateResponder
  <2>5. QED
    BY <2>3, <2>4
<1>4. ASSUME NEW t \in Thread, ReceivedWithKeypair(t) PROVE Goal
  <2>1. PICK e, q : e = DeviceOf[t] /\ q = job[t].peer
    OBVIOUS
  <2>2. /\ e \in Device /\ q \in Device /\ pc[t] = "received"
        /\ \/ UNCHANGED slots
           \/ /\ slots[e][q]["next"] = job[t].keypair
              /\ slots' = [slots EXCEPT ![e][q] = [previous |-> slots[e][q]["current"],
                                                   current |-> slots[e][q]["next"],
                                                   next |-> NoKeypair]]
    BY <1>4, <2>1, ThreadTypes DEF ReceivedWithKeypair
  <2>3. \/ slots'[d][p] = slots[d][p]
        \/ /\ e = d /\ q = p /\ slots[d][p]["next"] = job[t].keypair
           /\ slots'[d][p] = [previous |-> slots[d][p]["current"],
                              current |-> slots[d][p]["next"], next |-> NoKeypair]
    <3>1. CASE UNCHANGED slots
      BY <3>1
    <3>2. CASE ~UNCHANGED slots /\ ~(e = d /\ q = p)
      <4>1. PICK new : slots' = [slots EXCEPT ![e][q] = new]
        BY <2>2, <3>2
      <4>2. slots'[d][p] = slots[d][p]
        BY <1>1, <2>2, <3>2, <4>1
      <4>3. QED
        BY <4>2
    <3>3. CASE ~UNCHANGED slots /\ e = d /\ q = p
      <4>1. slots[d][p]["next"] = job[t].keypair
        BY <2>2, <3>3
      <4>2. slots'[d][p] = [previous |-> slots[d][p]["current"],
                            current |-> slots[d][p]["next"], next |-> NoKeypair]
        BY <1>1, <2>2, <3>3
      <4>3. QED
        BY <3>3, <4>1, <4>2
    <3>4. QED
      BY <3>1, <3>2, <3>3
  <2>4. \/ slots'[d][p]["current"] = slots[d][p]["current"]
        \/ /\ e = d /\ q = p /\ slots[d][p]["next"] = job[t].keypair
           /\ slots'[d][p]["current"] = slots[d][p]["next"]
    BY <2>3
  <2>5. QED
    BY <2>1, <2>2, <2>4
<1>5. ASSUME NEW t \in Thread, NEW q \in Device, ZeroAndFlushAll(t, q) PROVE Goal
  <2>1. PICK e : /\ e \in Device
                 /\ slots' = [slots EXCEPT ![e][q] = [x \in Slot |-> NoKeypair]]
    BY <1>5, ThreadAssumption DEF ZeroAndFlushAll
  <2>2. slots'[d][p] = slots[d][p] \/ slots'[d][p] = [x \in Slot |-> NoKeypair]
    BY <1>1, <2>1
  <2>3. QED
    BY <2>2 DEF Slot
<1>6. ASSUME NEW t \in Thread, NEW q \in Device,
             \/ SendHandshakeInitiation(t, q) \/ StagePacket(t, q)
             \/ ExpireCurrentKeypairs(t, q)
      PROVE  UNCHANGED slots
  BY <1>6 DEF SendHandshakeInitiation, StartInitiation, StagePacket, ExpireCurrentKeypairs
<1>7. ASSUME NEW t \in Thread, NEW m \in net,
             CheckInitiation(t, m) \/ CheckResponse(t, m) \/ ReceiveTransport(t, m)
      PROVE  UNCHANGED slots
  BY <1>7 DEF CheckInitiation, CheckResponse, ReceiveTransport
<1>8. ASSUME NEW t \in Thread,
             \/ CreateMessageInitiation(t) \/ ConsumeMessageInitiation(t)
             \/ CreateMessageResponse(t) \/ ConsumeMessageResponse(t)
             \/ BeginSymmetricSession(t) \/ SendStagedPackets(t) \/ ZeroHandshakeState(t)
             \/ ExpireNonces(t)
      PROVE  UNCHANGED slots
  BY <1>8 DEF CreateMessageInitiation, ConsumeMessageInitiation, CreateMessageResponse,
              ConsumeMessageResponse, BeginSymmetricSession, SendStagedPackets,
              StartInitiation, ZeroHandshakeState, ExpireNonces
<1>9. ASSUME NEW e \in Device, NEW q \in Device, RekeyTimeout(e, q) \/ Reject(e, q)
      PROVE  UNCHANGED slots
  BY <1>9 DEF RekeyTimeout, Reject
<1>10. UNCHANGED vars => UNCHANGED slots
  BY DEF vars
<1> HIDE DEF Goal
<1>11. Goal
  BY <1>2, <1>3, <1>4, <1>5, <1>6, <1>7, <1>8, <1>9, <1>10 DEF Next
<1>12. QED
  BY <1>11 DEF Goal

\* The initiator of a handshake is determined by its ephemeral key.
LEMMA OneInitiator ==
    ASSUME InitiationInv, NEW e,
           NEW d, NEW p, InitiatedBy(d, p, e), NEW f, NEW q, InitiatedBy(f, q, e)
    PROVE  d = f /\ p = q
  BY DEF InitiationInv, InitiatedBy

\* A responder's keypair becomes current only when its initiator has derived the key: the
\* packet that promotes it can only come from there.
LEMMA ConfirmStep ==
    ASSUME TypeInv, SessionInv, [Next]_vars
    PROVE  KeyConfirmation'
<1>1. ASSUME NEW d \in Device, NEW p \in Device, slots'[d][p]["current"] # NoKeypair,
             ~slots'[d][p]["current"].isInitiator
      PROVE  slots'[d][p]["current"].key \in derived'[p]
  <2>1. PICK k : k = slots'[d][p]["current"]
    OBVIOUS
  <2>2. k.key \in derived[p]
    <3>1. CASE k = slots[d][p]["current"]
      BY <1>1, <2>1, <3>1 DEF SessionInv, KeyConfirmation
    <3>2. CASE \E t \in Thread : /\ pc[t] = "received" /\ DeviceOf[t] = d /\ job[t].peer = p
                                 /\ k = slots[d][p]["next"] /\ k = job[t].keypair
      <4>1. PICK t \in Thread : /\ pc[t] = "received" /\ DeviceOf[t] = d
                                /\ k = slots[d][p]["next"] /\ k = job[t].keypair
        BY <3>2
      <4>2. PICK m \in Transports : m.to = d /\ m.key = k.key
        BY <4>1 DEF SessionInv, HoldsInv, HoldsOf
      <4>3. SessionOf(d, p, k)
        BY <1>1, <2>1, <4>1 DEF SessionInv, SlotInv, Slot
      <4>4. k.key \in derived[d] /\ InitiatedBy(p, d, k.key.i)
        BY <1>1, <2>1, <4>3 DEF SessionOf
      <4>5. PICK f : f = m.from
        OBVIOUS
      <4>6. k.key \in derived[f] /\ (InitiatedBy(f, d, k.key.i) \/ InitiatedBy(d, f, k.key.i))
        BY <4>2, <4>5 DEF SessionInv, TransportInv
      <4>7. f = p \/ d = p
        BY <4>4, <4>6, OneInitiator DEF SessionInv
      <4>8. QED
        BY <4>4, <4>6, <4>7
    <3>3. QED
      BY <1>1, <2>1, <3>1, <3>2, CurrentSources
  <2>3. derived[p] \subseteq derived'[p]
    BY NothingForgotten
  <2>4. QED
    BY <2>1, <2>2, <2>3
<1>2. QED
  BY <1>1 DEF KeyConfirmation

-----------------------------------------------------------------------------

\* At the start there is no message, no session and nobody holds anything.
LEMMA InitSessions == Init => SessionInv
<1> SUFFICES ASSUME Init PROVE SessionInv
  OBVIOUS
<1>1. Initiations = {} /\ Transports = {}
  BY DEF Init, Initiations, Transports
<1>2. \A d, p \in Device : hs[d][p].state = "Zeroed"
  BY DEF Init, ZeroHandshake
<1>3. \A d, p \in Device, s \in Slot : slots[d][p][s] = NoKeypair
  BY DEF Init
<1>4. InitiationInv /\ TransportInv
  BY <1>1 DEF InitiationInv, TransportInv
<1>5. StateInv
  BY <1>2 DEF StateInv, StateFits
<1>6. SlotInv /\ KeyConfirmation
  BY <1>3 DEF SlotInv, KeyConfirmation, Slot
<1>7. HoldsInv
  BY DEF Init, HoldsInv, HoldsOf
<1>8. QED
  BY <1>4, <1>5, <1>6, <1>7 DEF SessionInv

\* Every step keeps the invariant of the sessions.
LEMMA NextSessions == TypeInv /\ SessionInv /\ [Next]_vars => SessionInv'
<1> SUFFICES ASSUME TypeInv, SessionInv, [Next]_vars PROVE SessionInv'
  OBVIOUS
<1>1. InitiationInv /\ StateInv /\ SlotInv /\ HoldsInv /\ TransportInv
  BY DEF SessionInv
<1>2. InitiationInv' /\ TransportInv'
  BY <1>1, NetStep
<1>3. StateInv'
  BY <1>1, StateStep
<1>4. HoldsInv'
  BY <1>1, HoldsStep
<1>5. SlotInv'
  BY <1>1, SlotStep
<1>6. KeyConfirmation'
  BY ConfirmStep
<1>7. QED
  BY <1>2, <1>3, <1>4, <1>5, <1>6 DEF SessionInv

\* The two ends of a session hold it in opposite roles: both roles trace the key back to
\* the one initiation that carried its ephemeral.
LEMMA RolesFollow == TypeInv /\ SessionInv => RolesDiffer
<1> SUFFICES ASSUME TypeInv, SessionInv,
                    NEW d \in Device, NEW p \in Device,
                    NEW k \in Held(d, p), NEW l \in Held(p, d), d # p, k.key = l.key
             PROVE  k.isInitiator # l.isInitiator
  BY DEF RolesDiffer
<1>1. ASSUME NEW e \in Device, NEW q \in Device, NEW h \in Held(e, q)
      PROVE  SessionOf(e, q, h) /\ h \in Keypair
  <2>1. CASE h \in {slots[e][q][s] : s \in Slot} \ {NoKeypair}
    BY <2>1 DEF SessionInv, SlotInv, TypeInv, TypeOK
  <2>2. CASE h \in Pending(e, q)
    <3>1. PICK t \in Thread : /\ pc[t] = "rotate" /\ DeviceOf[t] = e /\ job[t].peer = q
                              /\ h = job[t].keypair
      BY <2>2 DEF Pending
    <3>2. QED
      BY <3>1 DEF SessionInv, HoldsInv, HoldsOf, TypeInv, JobOK
  <2>3. QED
    BY <2>1, <2>2 DEF Held
<1>2. /\ SessionOf(d, p, k) /\ SessionOf(p, d, l)
      /\ k.isInitiator \in BOOLEAN /\ l.isInitiator \in BOOLEAN
  BY <1>1 DEF Keypair
<1>3. InitiationInv
  BY DEF SessionInv
<1>4. PICK e : e = k.key.i /\ e = l.key.i
  OBVIOUS
<1>5. /\ k.isInitiator => InitiatedBy(d, p, e)
      /\ ~k.isInitiator => InitiatedBy(p, d, e)
      /\ l.isInitiator => InitiatedBy(p, d, e)
      /\ ~l.isInitiator => InitiatedBy(d, p, e)
  BY <1>2, <1>4 DEF SessionOf
<1>6. ~(InitiatedBy(d, p, e) /\ InitiatedBy(p, d, e))
  BY <1>3, OneInitiator
<1>7. QED
  BY <1>2, <1>5, <1>6

\* The two ends of a session agree, for any number of devices, threads and handshakes and
\* whatever is lost, repeated or reordered: they have opposite roles, and a responder uses
\* a session only when the initiator has it too.
THEOREM SessionsStayAgreed == Spec => []SessionsAgree
<1>1. Init => TypeInv /\ SessionInv
  BY InitTypes, InitSessions
<1>2. TypeInv /\ SessionInv /\ [Next]_vars => (TypeInv /\ SessionInv)'
  BY NextTypes, NextSessions
<1>3. TypeInv /\ SessionInv => SessionsAgree
  BY RolesFollow DEF SessionInv, SessionsAgree
<1>4. QED
  BY <1>1, <1>2, <1>3, PTL DEF Spec

-----------------------------------------------------------------------------
(* The index table of a device agrees with its handshakes and keypairs,    *)
(* whatever order the critical sections of its threads run in.             *)


\* the keypairs in the slots, and the keypair of a thread between its two critical sections
InSlot(d, p, s) == slots[d][p][s]
InJob(t) == job[t].keypair

HandshakesIndexed ==
    \A d, p \in Device :
        hs[d][p].localIndex # Zero => table[d][hs[d][p].localIndex] = HandshakeEntry(p)

SlotsIndexed ==
    \A d, p \in Device, s \in Slot :
        InSlot(d, p, s) # NoKeypair /\ InSlot(d, p, s).localIndex # Zero =>
            table[d][InSlot(d, p, s).localIndex] = KeypairEntry(p, InSlot(d, p, s))

RotationsIndexed ==
    \A t \in Thread :
        pc[t] = "rotate" /\ InJob(t).localIndex # Zero =>
            table[DeviceOf[t]][InJob(t).localIndex] = KeypairEntry(job[t].peer, InJob(t))

\* no two slots share an index, and no slot has the index of a keypair about to be rotated in
SlotsDistinct ==
    \A d, p \in Device, r, s \in Slot :
        r # s /\ InSlot(d, p, r) # NoKeypair /\ InSlot(d, p, s) # NoKeypair
              /\ InSlot(d, p, r).localIndex = InSlot(d, p, s).localIndex
            => InSlot(d, p, s).localIndex = Zero

RotationsDistinct ==
    \A t \in Thread, s \in Slot :
        pc[t] = "rotate" /\ InSlot(DeviceOf[t], job[t].peer, s) # NoKeypair
              /\ InSlot(DeviceOf[t], job[t].peer, s).localIndex = InJob(t).localIndex
            => InJob(t).localIndex = Zero

\* handshake.mutex is held by at most one thread
OneRotation ==
    \A t, u \in Thread :
        pc[t] = "rotate" /\ pc[u] = "rotate" /\ DeviceOf[t] = DeviceOf[u] /\ job[t].peer = job[u].peer
            => t = u

OwnedByHandshake(d, i) ==
    \E p \in Device : table[d][i] = HandshakeEntry(p) /\ hs[d][p].localIndex = i

OwnedBySlot(d, i) ==
    \E p \in Device, s \in Slot :
        /\ InSlot(d, p, s) # NoKeypair /\ InSlot(d, p, s).localIndex = i
        /\ table[d][i] = KeypairEntry(p, InSlot(d, p, s))

OwnedByRotation(d, i) ==
    \E t \in Thread :
        /\ pc[t] = "rotate" /\ DeviceOf[t] = d /\ InJob(t).localIndex = i
        /\ table[d][i] = KeypairEntry(job[t].peer, InJob(t))

EntriesOwned ==
    \A d \in Device, i \in Idx \ {Zero} :
        \/ table[d][i] = NoEntry
        \/ OwnedByHandshake(d, i)
        \/ OwnedBySlot(d, i)
        \/ OwnedByRotation(d, i)

IndexInv ==
    /\ HandshakesIndexed
    /\ SlotsIndexed
    /\ RotationsIndexed
    /\ SlotsDistinct
    /\ RotationsDistinct
    /\ OneRotation
    /\ EntriesOwned

-----------------------------------------------------------------------------
(* Lemmas.                                                                 *)

\* Entries of the index table are equal only if they name the same owner.
LEMMA EntriesDiffer ==
    /\ \A p, q : HandshakeEntry(p) = HandshakeEntry(q) => p = q
    /\ \A p, q, k, l : KeypairEntry(p, k) = KeypairEntry(q, l) => p = q /\ k = l
    /\ \A p, q, k : HandshakeEntry(p) # KeypairEntry(q, k)
    /\ \A p : HandshakeEntry(p) # NoEntry
    /\ \A p, k : KeypairEntry(p, k) # NoEntry
<1>1. \A p, q : HandshakeEntry(p) = HandshakeEntry(q) => p = q
  BY DEF HandshakeEntry
<1>2. \A p, q, k, l : KeypairEntry(p, k) = KeypairEntry(q, l) => p = q /\ k = l
  BY DEF KeypairEntry
<1>3. \A p, q, k : HandshakeEntry(p).kind = "handshake" /\ KeypairEntry(q, k).kind = "keypair"
  BY DEF HandshakeEntry, KeypairEntry
<1>4. NoEntry.kind = "none"
  BY DEF NoEntry
<1>5. QED
  BY <1>1, <1>2, <1>3, <1>4

\* the types that are needed below, for a thread and the keypairs of its peer
LEMMA IndexTypes ==
    ASSUME TypeInv
    PROVE  /\ \A t \in Thread : DeviceOf[t] \in Device /\ job[t].peer \in Device
           /\ \A t \in Thread : pc[t] = "rotate" => InJob(t) \in Keypair /\ InJob(t).localIndex \in Idx
           /\ \A d, p \in Device : hs[d][p].localIndex \in Idx
           /\ \A d, p \in Device, s \in Slot :
                InSlot(d, p, s) # NoKeypair => InSlot(d, p, s) \in Keypair /\ InSlot(d, p, s).localIndex \in Idx
           /\ \A d \in Device : table[d] \in [Idx -> IndexTableEntry]
<1>1. \A t \in Thread : DeviceOf[t] \in Device /\ job[t].peer \in Device
  BY ThreadAssumption DEF TypeInv, TypeOK, Job
<1>2. \A t \in Thread : pc[t] = "rotate" => InJob(t) \in Keypair /\ InJob(t).localIndex \in Idx
  BY DEF TypeInv, JobOK, InJob, Keypair
<1>3. \A d, p \in Device : hs[d][p].localIndex \in Idx
  BY DEF TypeInv, TypeOK, HandshakeRec
<1>4. \A d, p \in Device, s \in Slot : InSlot(d, p, s) \in Keypair \cup {NoKeypair}
  BY DEF TypeInv, TypeOK, InSlot
<1>5. \A k \in Keypair : k.localIndex \in Idx
  BY DEF Keypair
<1>6. \A d \in Device : table[d] \in [Idx -> IndexTableEntry]
  BY DEF TypeInv, TypeOK
<1>7. QED
  BY <1>1, <1>2, <1>3, <1>4, <1>5, <1>6

\* the entry of an index after the operations on the table
LEMMA Lookups ==
    ASSUME NEW tab \in [Idx -> IndexTableEntry]
    PROVE  /\ \A i, j \in Idx : Delete(tab, i)[j] = IF i = j THEN NoEntry ELSE tab[j]
           /\ \A K : \A j \in Idx :
                DeleteKeypairs(tab, K)[j] =
                    IF \E k \in K : k # NoKeypair /\ k.localIndex = j THEN NoEntry ELSE tab[j]
           /\ \A i \in FreeIndex(tab) : i \in Idx /\ tab[i] = NoEntry
  BY DEF Delete, DeleteKeypairs, FreeIndex, Idx

\* A step that changes no table, no slot, no index and no rotation.
LEMMA QuietStep ==
    ASSUME IndexInv, UNCHANGED <<table, slots>>, KeepsIndices, KeepsRotations
    PROVE  IndexInv'
<1> USE DEF InSlot, InJob, KeepsIndices, KeepsRotations, IndexInv
<1>1. HandshakesIndexed'
  BY DEF HandshakesIndexed
<1>2. SlotsIndexed'
  BY DEF SlotsIndexed
<1>3. RotationsIndexed'
  BY DEF RotationsIndexed
<1>4. SlotsDistinct'
  BY DEF SlotsDistinct
<1>5. RotationsDistinct'
  BY DEF RotationsDistinct
<1>6. OneRotation'
  BY DEF OneRotation
<1>7. EntriesOwned'
  BY DEF EntriesOwned, OwnedByHandshake, OwnedBySlot, OwnedByRotation
<1>8. QED
  BY <1>1, <1>2, <1>3, <1>4, <1>5, <1>6, <1>7

\* A new index is drawn for a handshake.
LEMMA ReindexStep ==
    ASSUME TypeInv, IndexInv, NEW d \in Device, NEW p \in Device, Reindexes(d, p),
           UNCHANGED slots, KeepsRotations
    PROVE  IndexInv'
<1> DEFINE old == hs[d][p].localIndex
<1>1. PICK i \in FreeIndex(Delete(table[d], old)) :
        /\ table' = [table EXCEPT ![d] = [Delete(table[d], old) EXCEPT ![i] = HandshakeEntry(p)]]
        /\ SetsIndex(d, p, i)
  BY DEF Reindexes
<1>2. table \in [Device -> [Idx -> IndexTableEntry]] /\ old \in Idx
  BY IndexTypes DEF TypeInv, TypeOK
<1>3. Delete(table[d], old) \in [Idx -> IndexTableEntry]
  BY <1>2, TableTypes
<1>4. i \in Idx /\ (i = old \/ table[d][i] = NoEntry)
  BY <1>2, <1>3, Lookups
<1>5. \A e \in Device, j \in Idx :
        table'[e][j] = IF e = d /\ j = i THEN HandshakeEntry(p)
                       ELSE IF e = d /\ j = old THEN NoEntry ELSE table[e][j]
  BY <1>1, <1>2, <1>3, <1>4, Lookups
<1>6. old # Zero => table[d][old] = HandshakeEntry(p)
  BY DEF IndexInv, HandshakesIndexed
<1>7. HandshakesIndexed'
  BY <1>1, <1>4, <1>5, <1>6, IndexTypes, EntriesDiffer DEF SetsIndex, IndexInv, HandshakesIndexed
<1>8. SlotsIndexed'
  BY <1>4, <1>5, <1>6, IndexTypes, EntriesDiffer DEF IndexInv, SlotsIndexed, InSlot
<1>9. RotationsIndexed'
  BY <1>4, <1>5, <1>6, IndexTypes, EntriesDiffer DEF IndexInv, RotationsIndexed, InJob, KeepsRotations
<1>10. SlotsDistinct' /\ RotationsDistinct' /\ OneRotation'
  BY DEF IndexInv, SlotsDistinct, RotationsDistinct, OneRotation, InSlot, InJob, KeepsRotations
<1>11. EntriesOwned'
  <2> SUFFICES ASSUME NEW e \in Device, NEW j \in Idx \ {Zero}, table'[e][j] # NoEntry
               PROVE  OwnedByHandshake(e, j)' \/ OwnedBySlot(e, j)' \/ OwnedByRotation(e, j)'
    BY DEF EntriesOwned
  <2>1. CASE e = d /\ j = i
    BY <1>1, <1>5, <2>1 DEF OwnedByHandshake, SetsIndex
  <2>2. CASE ~(e = d /\ j = i)
    <3>1. table'[e][j] = table[e][j] /\ ~(e = d /\ j = old) /\ table[e][j] # NoEntry
      BY <1>5, <2>2
    <3>2. CASE OwnedByHandshake(e, j)
      BY <1>1, <3>1, <3>2 DEF OwnedByHandshake, SetsIndex
    <3>3. CASE OwnedBySlot(e, j)
      BY <3>1, <3>3 DEF OwnedBySlot, InSlot
    <3>4. CASE OwnedByRotation(e, j)
      BY <3>1, <3>4 DEF OwnedByRotation, InJob, KeepsRotations
    <3>5. QED
      BY <3>1, <3>2, <3>3, <3>4 DEF IndexInv, EntriesOwned
  <2>3. QED
    BY <2>1, <2>2
<1>12. QED
  BY <1>7, <1>8, <1>9, <1>10, <1>11 DEF IndexInv

\* The index of a handshake is given back.
LEMMA UnindexStep ==
    ASSUME TypeInv, IndexInv, NEW d \in Device, NEW p \in Device, Unindexes(d, p),
           UNCHANGED slots, KeepsRotations
    PROVE  IndexInv'
<1> DEFINE old == hs[d][p].localIndex
<1>1. table \in [Device -> [Idx -> IndexTableEntry]] /\ old \in Idx
  BY IndexTypes DEF TypeInv, TypeOK
<1>2. \A e \in Device, j \in Idx :
        table'[e][j] = IF e = d /\ j = old THEN NoEntry ELSE table[e][j]
  BY <1>1, Lookups DEF Unindexes
<1>3. old # Zero => table[d][old] = HandshakeEntry(p)
  BY DEF IndexInv, HandshakesIndexed
<1>4. SetsIndex(d, p, Zero)
  BY DEF Unindexes
<1>5. HandshakesIndexed'
  BY <1>2, <1>3, <1>4, IndexTypes, EntriesDiffer DEF SetsIndex, IndexInv, HandshakesIndexed
<1>6. SlotsIndexed'
  BY <1>2, <1>3, IndexTypes, EntriesDiffer DEF IndexInv, SlotsIndexed, InSlot
<1>7. RotationsIndexed'
  BY <1>2, <1>3, IndexTypes, EntriesDiffer DEF IndexInv, RotationsIndexed, InJob, KeepsRotations
<1>8. SlotsDistinct' /\ RotationsDistinct' /\ OneRotation'
  BY DEF IndexInv, SlotsDistinct, RotationsDistinct, OneRotation, InSlot, InJob, KeepsRotations
<1>9. EntriesOwned'
  <2> SUFFICES ASSUME NEW e \in Device, NEW j \in Idx \ {Zero}, table'[e][j] # NoEntry
               PROVE  OwnedByHandshake(e, j)' \/ OwnedBySlot(e, j)' \/ OwnedByRotation(e, j)'
    BY DEF EntriesOwned
  <2>1. table'[e][j] = table[e][j] /\ ~(e = d /\ j = old) /\ table[e][j] # NoEntry
    BY <1>2
  <2>2. CASE OwnedByHandshake(e, j)
    BY <1>4, <2>1, <2>2 DEF OwnedByHandshake, SetsIndex
  <2>3. CASE OwnedBySlot(e, j)
    BY <2>1, <2>3 DEF OwnedBySlot, InSlot
  <2>4. CASE OwnedByRotation(e, j)
    BY <2>1, <2>4 DEF OwnedByRotation, InJob, KeepsRotations
  <2>5. QED
    BY <2>1, <2>2, <2>3, <2>4 DEF IndexInv, EntriesOwned
<1>10. QED
  BY <1>5, <1>6, <1>7, <1>8, <1>9 DEF IndexInv

\* BeginSymmetricSession remaps the index of the handshake to its keypair.
LEMMA BeginStep ==
    ASSUME TypeInv, TypeInv', IndexInv, NEW t \in Thread, BeginSymmetricSession(t)
    PROVE  IndexInv'
<1> DEFINE d == DeviceOf[t]
           p == job[t].peer
           h == hs[d][p]
           k == NewKeypair(h)
<1>1. d \in Device /\ p \in Device /\ pc[t] = "begin" /\ UNCHANGED slots
  BY IndexTypes DEF BeginSymmetricSession
<1>2. CASE h.state \notin {"ResponseConsumed", "ResponseCreated"}
  <2>1. Done(t) /\ UNCHANGED <<hs, table>>
    BY <1>2 DEF BeginSymmetricSession
  <2>2. KeepsRotations
    BY <1>1, <2>1, GotoRotations DEF Done
  <2>3. QED
    BY <1>1, <2>1, <2>2, QuietStep DEF KeepsIndices
<1>3. CASE h.state \in {"ResponseConsumed", "ResponseCreated"}
  <2>1. /\ hs' = [hs EXCEPT ![d][p] = Clear(@)]
        /\ table' = [table EXCEPT ![d] = SwapIndexForKeypair(table[d], h.localIndex, k)]
        /\ Goto(t, "rotate", [job[t] EXCEPT !.keypair = k])
        /\ HandshakeFree(d, p)
    BY <1>3 DEF BeginSymmetricSession
  <2>2. SetsIndex(d, p, Zero)
    BY <1>1, <2>1, ClearStep
  <2>3. k.localIndex = h.localIndex /\ h.localIndex \in Idx /\ k \in Keypair
    BY <1>1, IndexTypes, HandshakeTypes, SMTT(30) DEF NewKeypair, TypeInv, TypeOK
  <2>4. /\ pc'[t] = "rotate" /\ job'[t].keypair = k /\ job'[t].peer = p
        /\ \A u \in Thread \ {t} : pc'[u] = pc[u] /\ job'[u] = job[u]
    BY <2>1, SMTT(30) DEF Goto, TypeInv, TypeOK, Job
  <2>5. h.localIndex # Zero => table[d][h.localIndex] = HandshakeEntry(p)
    BY <1>1 DEF IndexInv, HandshakesIndexed
  <2>6. \A e \in Device, j \in Idx \ {Zero} :
          table'[e][j] = IF e = d /\ j = h.localIndex THEN KeypairEntry(p, k) ELSE table[e][j]
    <3>1. table[d] \in [Idx -> IndexTableEntry] /\ HandshakeEntry(p).peer = p
      BY <1>1, IndexTypes DEF HandshakeEntry
    <3>2. \A j \in Idx \ {Zero} :
            SwapIndexForKeypair(table[d], h.localIndex, k)[j] =
                IF j = h.localIndex THEN KeypairEntry(p, k) ELSE table[d][j]
      BY <2>3, <2>5, <3>1, EntriesDiffer DEF SwapIndexForKeypair
    <3>3. table \in [Device -> [Idx -> IndexTableEntry]]
      BY <1>1 DEF TypeInv, TypeOK
    <3>4. QED
      BY <1>1, <2>1, <3>2, <3>3
  <2>7. HandshakesIndexed'
    BY <2>2, <2>5, <2>6, IndexTypes, EntriesDiffer DEF SetsIndex, IndexInv, HandshakesIndexed
  <2>8. SlotsIndexed'
    BY <1>1, <2>5, <2>6, IndexTypes, EntriesDiffer, SMTT(30) DEF IndexInv, SlotsIndexed, InSlot
  <2>9. RotationsIndexed'
    <3> SUFFICES ASSUME NEW u \in Thread, pc'[u] = "rotate", InJob(u)'.localIndex # Zero
                 PROVE  table'[DeviceOf[u]][InJob(u)'.localIndex] = KeypairEntry(job'[u].peer, InJob(u)')
      BY DEF RotationsIndexed
    <3>1. CASE u = t
      BY <1>1, <2>3, <2>4, <2>6, <3>1 DEF InJob
    <3>2. CASE u # t
      <4>1. pc[u] = "rotate" /\ job'[u] = job[u] /\ InJob(u)' = InJob(u)
        BY <2>4, <3>2 DEF InJob
      <4>2. /\ InJob(u).localIndex \in Idx \ {Zero} /\ DeviceOf[u] \in Device
            /\ table[DeviceOf[u]][InJob(u).localIndex] = KeypairEntry(job[u].peer, InJob(u))
        BY <4>1, IndexTypes DEF IndexInv, RotationsIndexed
      <4>3. ~(DeviceOf[u] = d /\ InJob(u).localIndex = h.localIndex)
        BY <2>5, <4>2, EntriesDiffer
      <4>4. QED
        BY <2>6, <4>1, <4>2, <4>3
    <3>3. QED
      BY <3>1, <3>2
  <2>10. SlotsDistinct'
    BY <1>1 DEF IndexInv, SlotsDistinct, InSlot
  <2>11. RotationsDistinct'
    <3> SUFFICES ASSUME NEW u \in Thread, NEW s \in Slot, pc'[u] = "rotate",
                        slots'[DeviceOf[u]][job'[u].peer][s] # NoKeypair,
                        slots'[DeviceOf[u]][job'[u].peer][s].localIndex = job'[u].keypair.localIndex
                 PROVE  job'[u].keypair.localIndex = Zero
      BY DEF RotationsDistinct, InSlot, InJob
    <3>1. CASE u = t
      <4>1. job'[u].keypair.localIndex = h.localIndex /\ slots'[DeviceOf[u]][job'[u].peer][s] = InSlot(d, p, s)
        BY <1>1, <2>3, <2>4, <3>1 DEF InSlot
      <4>2. h.localIndex # Zero => table[d][h.localIndex] = KeypairEntry(p, InSlot(d, p, s))
        BY <1>1, <4>1 DEF IndexInv, SlotsIndexed
      <4>3. QED
        BY <2>5, <4>1, <4>2, EntriesDiffer
    <3>2. CASE u # t
      BY <1>1, <2>4, <3>2 DEF InJob, InSlot, IndexInv, RotationsDistinct
    <3>3. QED
      BY <3>1, <3>2
  <2>12. OneRotation'
    BY <2>1, <2>4 DEF IndexInv, OneRotation, HandshakeFree
  <2>13. EntriesOwned'
    <3> SUFFICES ASSUME NEW e \in Device, NEW j \in Idx \ {Zero}, table'[e][j] # NoEntry
                 PROVE  OwnedByHandshake(e, j)' \/ OwnedBySlot(e, j)' \/ OwnedByRotation(e, j)'
      BY DEF EntriesOwned
    <3>1. CASE e = d /\ j = h.localIndex
      BY <2>3, <2>4, <2>6, <3>1, ZenonT(40) DEF OwnedByRotation, InJob
    <3>2. CASE ~(e = d /\ j = h.localIndex)
      <4>1. table'[e][j] = table[e][j] /\ table[e][j] # NoEntry
        BY <2>6, <3>2
      <4>2. CASE OwnedByHandshake(e, j)
        BY <2>2, <3>2, <4>1, <4>2 DEF OwnedByHandshake, SetsIndex
      <4>3. CASE OwnedBySlot(e, j)
        BY <1>1, <4>1, <4>3 DEF OwnedBySlot, InSlot
      <4>4. CASE OwnedByRotation(e, j)
        BY <1>1, <2>4, <4>1, <4>4 DEF OwnedByRotation, InJob
      <4>5. QED
        BY <4>1, <4>2, <4>3, <4>4 DEF IndexInv, EntriesOwned
    <3>3. QED
      BY <3>1, <3>2
  <2>14. QED
    BY <2>7, <2>8, <2>9, <2>10, <2>11, <2>12, <2>13 DEF IndexInv
<1>4. QED
  BY <1>2, <1>3

\* The slots of peer p change to ks.  R are the slots whose keypairs are deleted
\* from the table; the keypair of slot s comes from slot from[s], or from the job of
\* t, which leaves "rotate".
Deletes(d, p, R) ==
    table' = [table EXCEPT ![d] = DeleteKeypairs(table[d], {InSlot(d, p, r) : r \in R})]

Leaves(d, p, t) == pc[t] = "rotate" /\ pc'[t] # "rotate" /\ DeviceOf[t] = d /\ job[t].peer = p

Origin(d, p, t, ks, R, from) ==
    \A s \in Slot : \/ ks[s] = NoKeypair
                    \/ from[s] \in Slot \ R /\ ks[s] = InSlot(d, p, from[s])
                    \/ from[s] = "job" /\ ks[s] = InJob(t) /\ Leaves(d, p, t)

Injective(ks, from) ==
    \A r, s \in Slot : ks[r] # NoKeypair /\ ks[s] # NoKeypair /\ r # s => from[r] # from[s]

Survives(d, p, ks, R) ==
    \A s \in Slot \ R : InSlot(d, p, s) = NoKeypair \/ \E r \in Slot : ks[r] = InSlot(d, p, s)

MovesRotation(d, p, t, ks) ==
    /\ \A u \in Thread : pc'[u] = "rotate" => pc[u] = "rotate" /\ job'[u] = job[u]
    /\ \A u \in Thread : pc[u] = "rotate" /\ pc'[u] # "rotate" =>
           u = t /\ Leaves(d, p, t) /\ \E s \in Slot : ks[s] = InJob(t)

\* The slots of one peer are rearranged, and the indices of the keypairs that drop out are deleted.
LEMMA SlotsStep ==
    ASSUME TypeInv, IndexInv, NEW d \in Device, NEW p \in Device, NEW t \in Thread,
           NEW ks \in [Slot -> Keypair \cup {NoKeypair}], NEW R \in SUBSET Slot, NEW from,
           slots' = [slots EXCEPT ![d][p] = ks], UNCHANGED hs, Deletes(d, p, R),
           Origin(d, p, t, ks, R, from), Injective(ks, from), Survives(d, p, ks, R),
           MovesRotation(d, p, t, ks)
    PROVE  IndexInv'
<1> DEFINE Gone(j) == \E r \in R : InSlot(d, p, r) # NoKeypair /\ InSlot(d, p, r).localIndex = j
           K == {InSlot(d, p, r) : r \in R}
<1>1. \A e \in Device, j \in Idx :
        table'[e][j] = IF e = d /\ Gone(j) THEN NoEntry ELSE table[e][j]
  <2>1. \A j \in Idx : DeleteKeypairs(table[d], K)[j] = IF Gone(j) THEN NoEntry ELSE table[d][j]
    BY IndexTypes, Lookups
  <2>2. QED
    BY <2>1 DEF Deletes, TypeInv, TypeOK
<1>2. \A e, q \in Device, s \in Slot :
        InSlot(e, q, s)' = IF e = d /\ q = p THEN ks[s] ELSE InSlot(e, q, s)
  BY DEF InSlot, TypeInv, TypeOK
<1>3. \A j \in Idx \ {Zero} : Gone(j) =>
        \E r \in R : /\ InSlot(d, p, r) # NoKeypair
                     /\ InSlot(d, p, r).localIndex = j
                     /\ table[d][j] = KeypairEntry(p, InSlot(d, p, r))
  BY DEF IndexInv, SlotsIndexed
<1> HIDE DEF Gone
<1>4. HandshakesIndexed'
  BY <1>1, <1>3, IndexTypes, EntriesDiffer DEF IndexInv, HandshakesIndexed
<1>5. ASSUME NEW u \in Thread, pc[u] = "rotate", InJob(u).localIndex # Zero
      PROVE  /\ InJob(u).localIndex \in Idx /\ ~(DeviceOf[u] = d /\ Gone(InJob(u).localIndex))
             /\ table'[DeviceOf[u]][InJob(u).localIndex] = KeypairEntry(job[u].peer, InJob(u))
  <2>1. table[DeviceOf[u]][InJob(u).localIndex] = KeypairEntry(job[u].peer, InJob(u))
    BY <1>5 DEF IndexInv, RotationsIndexed
  <2>2. ~(DeviceOf[u] = d /\ Gone(InJob(u).localIndex))
    BY <1>3, <1>5, <2>1, IndexTypes, EntriesDiffer DEF IndexInv, RotationsDistinct
  <2>3. QED
    BY <1>1, <1>5, <2>1, <2>2, IndexTypes
<1>6. SlotsIndexed'
  <2> SUFFICES ASSUME NEW e \in Device, NEW q \in Device, NEW s \in Slot,
                      InSlot(e, q, s)' # NoKeypair, InSlot(e, q, s)'.localIndex # Zero
               PROVE  table'[e][InSlot(e, q, s)'.localIndex] = KeypairEntry(q, InSlot(e, q, s)')
    BY DEF SlotsIndexed
  <2>1. CASE ~(e = d /\ q = p)
    BY <1>1, <1>2, <1>3, <2>1, IndexTypes, EntriesDiffer DEF IndexInv, SlotsIndexed
  <2>2. CASE e = d /\ q = p /\ from[s] = "job"
    <3>1. InSlot(e, q, s)' = InJob(t) /\ Leaves(d, p, t)
      BY <1>2, <2>2 DEF Origin, Slot
    <3>2. QED
      BY <1>5, <2>2, <3>1 DEF Leaves
  <2>3. CASE e = d /\ q = p /\ from[s] # "job"
    <3> DEFINE r == from[s]
    <3>1. r \in Slot \ R /\ InSlot(e, q, s)' = InSlot(d, p, r)
      BY <1>2, <2>3 DEF Origin
    <3>2. InSlot(d, p, r).localIndex \in Idx \ {Zero}
      BY <2>3, <3>1, IndexTypes
    <3>3. ~Gone(InSlot(d, p, r).localIndex)
      BY <1>3, <2>3, <3>1, <3>2 DEF IndexInv, SlotsDistinct
    <3>4. QED
      BY <1>1, <2>3, <3>1, <3>2, <3>3 DEF IndexInv, SlotsIndexed
  <2>4. QED
    BY <2>1, <2>2, <2>3
<1>7. RotationsIndexed'
  BY <1>5 DEF RotationsIndexed, InJob, MovesRotation
<1>8. SlotsDistinct'
  <2> SUFFICES ASSUME NEW e \in Device, NEW q \in Device, NEW r \in Slot, NEW s \in Slot, r # s,
                      InSlot(e, q, r)' # NoKeypair, InSlot(e, q, s)' # NoKeypair,
                      InSlot(e, q, r)'.localIndex = InSlot(e, q, s)'.localIndex
               PROVE  InSlot(e, q, s)'.localIndex = Zero
    BY DEF SlotsDistinct
  <2>1. CASE ~(e = d /\ q = p)
    BY <1>2, <2>1 DEF IndexInv, SlotsDistinct
  <2>2. CASE e = d /\ q = p /\ from[r] # "job" /\ from[s] # "job"
    BY <1>2, <2>2 DEF Origin, Injective, IndexInv, SlotsDistinct
  <2>3. CASE e = d /\ q = p /\ (from[r] = "job" \/ from[s] = "job")
    BY <1>2, <2>3 DEF Origin, Injective, Leaves, IndexInv, RotationsDistinct, Slot
  <2>4. QED
    BY <2>1, <2>2, <2>3
<1>9. RotationsDistinct'
  <2> SUFFICES ASSUME NEW u \in Thread, NEW s \in Slot, pc'[u] = "rotate", pc[u] = "rotate",
                      slots'[DeviceOf[u]][job[u].peer][s] # NoKeypair,
                      slots'[DeviceOf[u]][job[u].peer][s].localIndex = InJob(u).localIndex
               PROVE  InJob(u).localIndex = Zero
    BY ZenonT(40) DEF RotationsDistinct, InJob, InSlot, MovesRotation
  <2>1. \E r \in Slot : slots'[DeviceOf[u]][job[u].peer][s] = InSlot(DeviceOf[u], job[u].peer, r)
    <3>1. CASE ~(DeviceOf[u] = d /\ job[u].peer = p)
      <4>1. DeviceOf[u] \in Device /\ job[u].peer \in Device
        BY IndexTypes
      <4>2. \A e, q \in Device : ~(e = d /\ q = p) => slots'[e][q][s] = slots[e][q][s]
        BY DEF TypeInv, TypeOK
      <4>3. slots'[DeviceOf[u]][job[u].peer][s] = slots[DeviceOf[u]][job[u].peer][s]
        BY <3>1, <4>1, <4>2, Zenon
      <4>4. QED
        BY <4>3, Zenon DEF InSlot
    <3>2. CASE DeviceOf[u] = d /\ job[u].peer = p
      <4>1. slots'[DeviceOf[u]][job[u].peer][s] = ks[s]
        BY <1>2, <3>2 DEF InSlot
      <4>2. from[s] # "job"
        BY <3>2, <4>1 DEF Origin, Leaves, IndexInv, OneRotation, Slot
      <4>3. QED
        BY <3>2, <4>1, <4>2 DEF Origin
    <3>3. QED
      BY <3>1, <3>2, Zenon
  <2>2. QED
    BY <2>1 DEF IndexInv, RotationsDistinct
<1>10. OneRotation'
  BY DEF IndexInv, OneRotation, MovesRotation
<1>11. EntriesOwned'
  <2> SUFFICES ASSUME NEW e \in Device, NEW j \in Idx \ {Zero}, table'[e][j] # NoEntry
               PROVE  OwnedByHandshake(e, j)' \/ OwnedBySlot(e, j)' \/ OwnedByRotation(e, j)'
    BY DEF EntriesOwned
  <2>1. table'[e][j] = table[e][j] /\ ~(e = d /\ Gone(j)) /\ table[e][j] # NoEntry
    BY <1>1
  <2>2. CASE OwnedByHandshake(e, j)
    BY <2>1, <2>2 DEF OwnedByHandshake
  <2>3. CASE OwnedBySlot(e, j)
    <3>1. PICK q \in Device, s \in Slot :
            /\ InSlot(e, q, s) # NoKeypair /\ InSlot(e, q, s).localIndex = j
            /\ table[e][j] = KeypairEntry(q, InSlot(e, q, s))
      BY <2>3 DEF OwnedBySlot
    <3>2. CASE ~(e = d /\ q = p)
      <4>1. InSlot(e, q, s)' = InSlot(e, q, s)
        BY <1>2, <3>2
      <4>2. QED
        BY <2>1, <3>1, <4>1 DEF OwnedBySlot
    <3>3. CASE e = d /\ q = p
      <4>1. PICK r \in Slot : ks[r] = InSlot(d, p, s)
        BY <2>1, <3>1, <3>3 DEF Gone, Survives
      <4>2. InSlot(d, p, r)' = InSlot(d, p, s)
        BY <1>2, <4>1
      <4>3. QED
        BY <2>1, <3>1, <3>3, <4>2 DEF OwnedBySlot
    <3>4. QED
      BY <3>2, <3>3
  <2>4. CASE OwnedByRotation(e, j)
    <3>1. PICK u \in Thread : /\ pc[u] = "rotate" /\ DeviceOf[u] = e /\ InJob(u).localIndex = j
                              /\ table[e][j] = KeypairEntry(job[u].peer, InJob(u))
      BY <2>4 DEF OwnedByRotation
    <3>2. CASE pc'[u] = "rotate"
      BY <2>1, <3>1, <3>2 DEF OwnedByRotation, InJob, MovesRotation
    <3>3. CASE pc'[u] # "rotate"
      <4>1. u = t /\ e = d /\ job[t].peer = p /\ InJob(t) # NoKeypair
        BY <3>1, <3>3, IndexTypes, NilAssumption DEF MovesRotation, Leaves
      <4>2. PICK s \in Slot : ks[s] = InJob(t)
        BY <3>1, <3>3 DEF MovesRotation
      <4>3. InSlot(d, p, s)' = InJob(t)
        BY <1>2, <4>2
      <4>4. QED
        BY <2>1, <3>1, <4>1, <4>3 DEF OwnedBySlot
    <3>4. QED
      BY <3>2, <3>3
  <2>5. QED
    BY <2>1, <2>2, <2>3, <2>4 DEF IndexInv, EntriesOwned
<1>12. QED
  BY <1>4, <1>6, <1>7, <1>8, <1>9, <1>10, <1>11 DEF IndexInv

\* ZeroAndFlushAll deletes all keypairs of a peer.
LEMMA FlushStep ==
    ASSUME TypeInv, IndexInv, NEW t \in Thread, NEW p \in Device, ZeroAndFlushAll(t, p)
    PROVE  IndexInv'
<1> DEFINE d == DeviceOf[t]
           ks == [s \in Slot |-> NoKeypair]
           from == [s \in Slot |-> s]
<1>1. d \in Device /\ ks \in [Slot -> Keypair \cup {NoKeypair}]
  BY IndexTypes
<1>2. slots' = [slots EXCEPT ![d][p] = ks] /\ UNCHANGED hs /\ KeepsRotations
  BY GotoRotations DEF ZeroAndFlushAll
<1>3. Deletes(d, p, Slot)
  BY DEF ZeroAndFlushAll, Deletes, InSlot
<1>4. Origin(d, p, t, ks, Slot, from) /\ Injective(ks, from) /\ Survives(d, p, ks, Slot)
  BY DEF Origin, Injective, Survives
<1>5. MovesRotation(d, p, t, ks)
  BY <1>2 DEF MovesRotation, KeepsRotations
<1>6. QED
  BY <1>1, <1>2, <1>3, <1>4, <1>5, SlotsStep

\* ReceivedWithKeypair makes the next keypair the current one.
LEMMA PromoteStep ==
    ASSUME TypeInv, IndexInv, NEW t \in Thread, ReceivedWithKeypair(t)
    PROVE  IndexInv'
<1> DEFINE d == DeviceOf[t]
           p == job[t].peer
           old == slots[d][p]
           ks == [previous |-> old["current"], current |-> old["next"], next |-> NoKeypair]
           from == [previous |-> "current", current |-> "next", next |-> "previous"]
<1>1. d \in Device /\ p \in Device /\ old \in [Slot -> Keypair \cup {NoKeypair}]
  BY IndexTypes DEF TypeInv, TypeOK
<1>2. ks \in [Slot -> Keypair \cup {NoKeypair}]
  BY <1>1 DEF Slot
<1>3. CASE old["next"] # job[t].keypair
  <2>1. KeepsRotations /\ UNCHANGED <<hs, slots, table>>
    BY <1>3, GotoRotations DEF ReceivedWithKeypair, Done
  <2>2. QED
    BY <2>1, QuietStep DEF KeepsIndices
<1>4. CASE old["next"] = job[t].keypair
  <2>1. slots' = [slots EXCEPT ![d][p] = ks] /\ UNCHANGED hs /\ KeepsRotations
    BY <1>4, GotoRotations DEF ReceivedWithKeypair
  <2>2. Deletes(d, p, {"previous"})
    <3>1. {InSlot(d, p, r) : r \in {"previous"}} = {old["previous"]}
      BY DEF InSlot
    <3>2. QED
      BY <1>4, <3>1 DEF ReceivedWithKeypair, Deletes
  <2>3. Origin(d, p, t, ks, {"previous"}, from)
    BY DEF Origin, InSlot, Slot
  <2>4. Injective(ks, from)
    BY DEF Injective, Slot
  <2>5. Survives(d, p, ks, {"previous"})
    BY DEF Survives, InSlot, Slot
  <2>6. MovesRotation(d, p, t, ks) /\ {"previous"} \in SUBSET Slot
    BY <2>1 DEF MovesRotation, KeepsRotations, Slot
  <2>7. QED
    BY <1>1, <1>2, <2>1, <2>2, <2>3, <2>4, <2>5, <2>6, SlotsStep
<1>5. QED
  BY <1>3, <1>4

\* RotateKeypairs puts the new keypair into the slots.
LEMMA RotateStep ==
    ASSUME TypeInv, IndexInv, NEW t \in Thread, RotateKeypairs(t)
    PROVE  IndexInv'
<1> DEFINE d == DeviceOf[t]
           p == job[t].peer
           k == job[t].keypair
           old == slots[d][p]
<1>1. /\ d \in Device /\ p \in Device /\ old \in [Slot -> Keypair \cup {NoKeypair}]
      /\ k \in Keypair /\ k = InJob(t) /\ k # NoKeypair
  BY IndexTypes, NilAssumption DEF TypeInv, TypeOK, JobOK, RotateKeypairs, InJob
<1>2. /\ RotateInitiator(old, k) \in [Slot -> Keypair \cup {NoKeypair}]
      /\ RotateResponder(old, k) \in [Slot -> Keypair \cup {NoKeypair}]
  BY <1>1, RotateTypes
<1>3. /\ pc[t] = "rotate" /\ pc'[t] # "rotate"
      /\ \A u \in Thread \ {t} : pc'[u] = pc[u] /\ job'[u] = job[u]
  BY DEF RotateKeypairs, Goto, Done, TypeInv, TypeOK
<1>4. Leaves(d, p, t)
  BY <1>3 DEF Leaves
<1>5. UNCHANGED hs /\ table' = [table EXCEPT ![d] = DeleteKeypairs(table[d], Dropped(old, k))]
  BY DEF RotateKeypairs
<1>6. CASE k.isInitiator
  <2> DEFINE ks == RotateInitiator(old, k)
             last == IF old["next"] # NoKeypair THEN "next" ELSE "current"
             from == [previous |-> last, current |-> "job", next |-> "previous"]
             R == IF old["next"] # NoKeypair THEN {"previous", "current"} ELSE {"previous"}
  <2>1. slots' = [slots EXCEPT ![d][p] = ks]
    BY <1>6 DEF RotateKeypairs
  <2>2. Deletes(d, p, R) /\ R \in SUBSET Slot
    <3>1. {InSlot(d, p, r) : r \in R} = Dropped(old, k)
      BY <1>6 DEF Dropped, InSlot
    <3>2. QED
      BY <1>5, <3>1 DEF Deletes, Slot
  <2>3. Origin(d, p, t, ks, R, from)
    BY <1>1, <1>4, SMTT(30) DEF Origin, InSlot, Slot, RotateInitiator
  <2>4. Injective(ks, from)
    BY DEF Injective, Slot, RotateInitiator
  <2>5. Survives(d, p, ks, R)
    BY DEF Survives, InSlot, Slot, RotateInitiator
  <2>6. MovesRotation(d, p, t, ks)
    BY <1>1, <1>3, <1>4 DEF MovesRotation, Slot, RotateInitiator
  <2>7. QED
    BY <1>1, <1>2, <1>5, <2>1, <2>2, <2>3, <2>4, <2>5, <2>6, SlotsStep
<1>7. CASE ~k.isInitiator
  <2> DEFINE ks == RotateResponder(old, k)
             from == [previous |-> "previous", current |-> "current", next |-> "job"]
             R == {"previous", "next"}
  <2>1. slots' = [slots EXCEPT ![d][p] = ks]
    BY <1>7 DEF RotateKeypairs
  <2>2. Deletes(d, p, R) /\ R \in SUBSET Slot
    <3>1. {InSlot(d, p, r) : r \in R} = Dropped(old, k)
      BY <1>7 DEF Dropped, InSlot
    <3>2. QED
      BY <1>5, <3>1 DEF Deletes, Slot
  <2>3. Origin(d, p, t, ks, R, from)
    BY <1>1, <1>4 DEF Origin, InSlot, Slot, RotateResponder
  <2>4. Injective(ks, from)
    BY DEF Injective, Slot, RotateResponder
  <2>5. Survives(d, p, ks, R)
    BY DEF Survives, InSlot, Slot, RotateResponder
  <2>6. MovesRotation(d, p, t, ks)
    BY <1>1, <1>3, <1>4 DEF MovesRotation, Slot, RotateResponder
  <2>7. QED
    BY <1>1, <1>2, <1>5, <2>1, <2>2, <2>3, <2>4, <2>5, <2>6, SlotsStep
<1>8. QED
  BY <1>6, <1>7

-----------------------------------------------------------------------------
(* The invariant.                                                          *)

\* The initial state has no index in use.
LEMMA InitIndices == Init => IndexInv
<1> SUFFICES ASSUME Init PROVE IndexInv
  OBVIOUS
<1>1. HandshakesIndexed
  BY DEF Init, HandshakesIndexed, ZeroHandshake
<1>2. SlotsIndexed /\ SlotsDistinct
  BY DEF Init, SlotsIndexed, SlotsDistinct, InSlot
<1>3. RotationsIndexed /\ RotationsDistinct /\ OneRotation
  BY DEF Init, RotationsIndexed, RotationsDistinct, OneRotation
<1>4. EntriesOwned
  BY DEF Init, EntriesOwned
<1>5. QED
  BY <1>1, <1>2, <1>3, <1>4 DEF IndexInv

\* A step that only moves a thread outside "rotate" disturbs nothing.
LEMMA GotoStep ==
    ASSUME TypeInv, IndexInv, UNCHANGED <<hs, slots, table>>,
           \/ UNCHANGED <<pc, job>>
           \/ \E t \in Thread : \E l, j : pc[t] # "rotate" /\ l # "rotate" /\ Goto(t, l, j)
    PROVE  IndexInv'
<1>1. KeepsRotations
  <2>1. CASE UNCHANGED <<pc, job>>
    BY <2>1 DEF KeepsRotations
  <2>2. CASE \E t \in Thread : \E l, j : pc[t] # "rotate" /\ l # "rotate" /\ Goto(t, l, j)
    BY <2>2, GotoRotations
  <2>3. QED
    BY <2>1, <2>2
<1>2. QED
  BY <1>1, QuietStep DEF KeepsIndices

\* Every action keeps the index table in step with its owners.
LEMMA NextIndices == TypeInv /\ IndexInv /\ [Next]_vars => IndexInv'
<1> SUFFICES ASSUME TypeInv, IndexInv, [Next]_vars PROVE IndexInv'
  OBVIOUS
<1>0. TypeInv'
  BY NextTypes
<1>1. ASSUME NEW t \in Thread, NEW p \in Device, SendHandshakeInitiation(t, p) PROVE IndexInv'
  BY <1>1, GotoStep DEF SendHandshakeInitiation, StartInitiation, Done
<1>2. ASSUME NEW t \in Thread, NEW p \in Device, StagePacket(t, p) PROVE IndexInv'
  BY <1>2, GotoStep DEF StagePacket
<1>3. ASSUME NEW t \in Thread, NEW p \in Device, ZeroAndFlushAll(t, p) PROVE IndexInv'
  BY <1>3, FlushStep
<1>4. ASSUME NEW t \in Thread, NEW p \in Device, ExpireCurrentKeypairs(t, p) PROVE IndexInv'
  <2>1. DeviceOf[t] \in Device /\ UNCHANGED slots /\ KeepsRotations
    BY <1>4, IndexTypes, GotoRotations DEF ExpireCurrentKeypairs
  <2>2. Unindexes(DeviceOf[t], p)
    BY <1>4, <2>1, ClearStep DEF ExpireCurrentKeypairs, Unindexes
  <2>3. QED
    BY <2>1, <2>2, UnindexStep
<1>5. ASSUME NEW t \in Thread, NEW m \in net, CheckInitiation(t, m) PROVE IndexInv'
  BY <1>5, GotoStep DEF CheckInitiation
<1>6. ASSUME NEW t \in Thread, NEW m \in net, CheckResponse(t, m) PROVE IndexInv'
  BY <1>6, GotoStep DEF CheckResponse
<1>7. ASSUME NEW t \in Thread, NEW m \in net, ReceiveTransport(t, m) PROVE IndexInv'
  BY <1>7, GotoStep DEF ReceiveTransport
<1>8. ASSUME NEW t \in Thread, CreateMessageInitiation(t) PROVE IndexInv'
  <2>1. DeviceOf[t] \in Device /\ job[t].peer \in Device /\ UNCHANGED slots /\ KeepsRotations
    BY <1>8, IndexTypes, GotoRotations DEF CreateMessageInitiation, Done
  <2>2. QED
    BY <1>8, <2>1, CreateInitiationStep, ReindexStep
<1>9. ASSUME NEW t \in Thread, ConsumeMessageInitiation(t) PROVE IndexInv'
  <2>1. KeepsRotations /\ UNCHANGED <<table, slots>>
    BY <1>9, GotoRotations DEF ConsumeMessageInitiation
  <2>2. QED
    BY <1>9, <2>1, ConsumeInitiationStep, QuietStep
<1>10. ASSUME NEW t \in Thread, CreateMessageResponse(t) PROVE IndexInv'
  <2>1. DeviceOf[t] \in Device /\ job[t].peer \in Device /\ UNCHANGED slots
    BY <1>10, IndexTypes DEF CreateMessageResponse
  <2>2. KeepsRotations
    BY <1>10, GotoRotations DEF CreateMessageResponse, Done
  <2>3. CASE UNCHANGED <<hs, table>>
    BY <2>1, <2>2, <2>3, QuietStep DEF KeepsIndices
  <2>4. CASE Reindexes(DeviceOf[t], job[t].peer)
    BY <2>1, <2>2, <2>4, ReindexStep
  <2>5. QED
    BY <1>10, <2>3, <2>4, CreateResponseStep
<1>11. ASSUME NEW t \in Thread, ConsumeMessageResponse(t) PROVE IndexInv'
  <2>1. KeepsRotations /\ UNCHANGED <<table, slots>>
    BY <1>11, GotoRotations DEF ConsumeMessageResponse
  <2>2. QED
    BY <1>11, <2>1, ConsumeResponseStep, QuietStep
<1>12. ASSUME NEW t \in Thread, BeginSymmetricSession(t) PROVE IndexInv'
  BY <1>0, <1>12, BeginStep
<1>13. ASSUME NEW t \in Thread, RotateKeypairs(t) PROVE IndexInv'
  BY <1>13, RotateStep
<1>14. ASSUME NEW t \in Thread, SendStagedPackets(t) PROVE IndexInv'
  BY <1>14, GotoStep DEF SendStagedPackets, StartInitiation, Done
<1>15. ASSUME NEW t \in Thread, ReceivedWithKeypair(t) PROVE IndexInv'
  BY <1>15, PromoteStep
<1>16. ASSUME NEW t \in Thread, ZeroHandshakeState(t) PROVE IndexInv'
  <2>1. DeviceOf[t] \in Device /\ job[t].peer \in Device /\ UNCHANGED slots /\ KeepsRotations
    BY <1>16, IndexTypes, GotoRotations DEF ZeroHandshakeState, Done
  <2>2. Unindexes(DeviceOf[t], job[t].peer)
    BY <1>16, <2>1, ClearStep DEF ZeroHandshakeState, Unindexes
  <2>3. QED
    BY <2>1, <2>2, UnindexStep
<1>17. ASSUME NEW t \in Thread, ExpireNonces(t) PROVE IndexInv'
  BY <1>17, GotoStep DEF ExpireNonces, Done
<1>18. ASSUME NEW d \in Device, NEW p \in Device, RekeyTimeout(d, p) PROVE IndexInv'
  BY <1>18, GotoStep DEF RekeyTimeout
<1>19. ASSUME NEW d \in Device, NEW p \in Device, Reject(d, p) PROVE IndexInv'
  BY <1>19, GotoStep DEF Reject
<1>20. CASE UNCHANGED vars
  BY <1>20, GotoStep DEF vars
<1>21. QED
  BY <1>1, <1>2, <1>3, <1>4, <1>5, <1>6, <1>7, <1>8, <1>9, <1>10, <1>11, <1>12, <1>13, <1>14,
     <1>15, <1>16, <1>17, <1>18, <1>19, <1>20 DEF Next

\* The two invariants together hold in every reachable state.
LEMMA Indices == Spec => [](TypeInv /\ IndexInv)
<1>1. Init => TypeInv /\ IndexInv
  BY InitTypes, InitIndices
<1>2. TypeInv /\ IndexInv /\ [Next]_vars => (TypeInv /\ IndexInv)'
  BY NextTypes, NextIndices
<1>3. QED
  BY <1>1, <1>2, PTL DEF Spec

\* indexTable.Lookup finds the right owner: for any number of devices, workers and
\* indices, no interleaving of handshakes, rotations and erasures makes a nonzero
\* index in use point to another peer or to another session.
THEOREM LookupCorrect == Spec => []LookupFindsOwner
<1>1. TypeInv /\ IndexInv => LookupFindsOwner
  <2> SUFFICES ASSUME TypeInv, IndexInv, NEW d \in Device, NEW p \in Device
               PROVE  /\ hs[d][p].localIndex # Zero =>
                            table[d][hs[d][p].localIndex] = HandshakeEntry(p)
                      /\ \A k \in Held(d, p) :
                            k.localIndex # Zero => table[d][k.localIndex] = KeypairEntry(p, k)
    BY DEF LookupFindsOwner
  <2>1. hs[d][p].localIndex # Zero => table[d][hs[d][p].localIndex] = HandshakeEntry(p)
    BY DEF IndexInv, HandshakesIndexed
  <2>2. ASSUME NEW k \in Held(d, p), k.localIndex # Zero
        PROVE  table[d][k.localIndex] = KeypairEntry(p, k)
    <3>1. CASE k # NoKeypair /\ \E s \in Slot : k = InSlot(d, p, s)
      BY <2>2, <3>1 DEF IndexInv, SlotsIndexed
    <3>2. CASE \E t \in Thread : pc[t] = "rotate" /\ DeviceOf[t] = d /\ job[t].peer = p /\ k = InJob(t)
      BY <2>2, <3>2 DEF IndexInv, RotationsIndexed
    <3>3. QED
      BY <2>2, <3>1, <3>2 DEF Held, Pending, InSlot, InJob
  <2>3. QED
    BY <2>1, <2>2
<1>2. QED
  BY <1>1, Indices, PTL

\* No index leaks: for any number of devices, workers and indices, every nonzero
\* entry of the table is a handshake in progress or a keypair that is still held.
THEOREM NoLeak == Spec => []NoIndexLeak
<1>1. TypeInv /\ IndexInv => NoIndexLeak
  <2> SUFFICES ASSUME TypeInv, IndexInv, NEW d \in Device, NEW i \in Idx \ {Zero}, table[d][i] # NoEntry
               PROVE  \/ \E p \in Device : table[d][i] = HandshakeEntry(p) /\ hs[d][p].localIndex = i
                      \/ \E p \in Device : \E k \in Held(d, p) :
                            table[d][i] = KeypairEntry(p, k) /\ k.localIndex = i
    BY DEF NoIndexLeak
  <2>1. CASE OwnedByHandshake(d, i)
    BY <2>1 DEF OwnedByHandshake
  <2>2. CASE OwnedBySlot(d, i)
    <3>1. PICK p \in Device, s \in Slot :
            /\ InSlot(d, p, s) # NoKeypair /\ InSlot(d, p, s).localIndex = i
            /\ table[d][i] = KeypairEntry(p, InSlot(d, p, s))
      BY <2>2 DEF OwnedBySlot
    <3>2. InSlot(d, p, s) \in Held(d, p)
      BY <3>1 DEF Held, InSlot
    <3>3. QED
      BY <3>1, <3>2
  <2>3. CASE OwnedByRotation(d, i)
    <3>1. PICK t \in Thread : /\ pc[t] = "rotate" /\ DeviceOf[t] = d /\ InJob(t).localIndex = i
                              /\ table[d][i] = KeypairEntry(job[t].peer, InJob(t))
      BY <2>3 DEF OwnedByRotation
    <3>2. job[t].peer \in Device /\ InJob(t) \in Held(d, job[t].peer)
      BY <3>1, IndexTypes DEF Held, Pending, InJob
    <3>3. QED
      BY <3>1, <3>2
  <2>4. QED
    BY <2>1, <2>2, <2>3 DEF IndexInv, EntriesOwned
<1>2. QED
  BY <1>1, Indices, PTL
=============================================================================

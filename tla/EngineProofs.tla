---------------------------- MODULE EngineProofs ----------------------------
(***************************************************************************)
(* Proofs about the VPN engine, for every number of callers, sessions and  *)
(* addresses and whatever the bounds on events and failures.               *)
(***************************************************************************)
EXTENDS Engine, TLAPS

Starting == {"create", "install", "up", "spawn"}

(* A call of StartEngine works on a session of its own, which has no device before
   CreateDevice and no goroutines before SpawnLoops. *)
CallerInv ==
  /\ \A c \in Caller : caller[c].pc \in Starting =>
       /\ caller[c].s \in 1..opened /\ ~ ses[caller[c].s].onStun
       /\ caller[c].pc = "create" <=> ses[caller[c].s].dev = "none"
  /\ \A c, d \in Caller : caller[c].pc \in Starting /\ caller[d].pc \in Starting
                            /\ caller[c].s = caller[d].s => c = d
  /\ \A c \in Caller : caller[c].pc = "close" => caller[c].s \in Session

(* The receiver runs only with a device that was brought up, the goroutines start
   together, and the address that the applier reports is the one it has applied. *)
SesOK(r) ==
  /\ r.rpc # "none" => r.dev \in {"up", "closed"}
  /\ r.onStun <=> r.lpc # "none"
  /\ r.apc = "none" <=> r.lpc = "none"
  /\ r.apc = "report" => r.aaddr = r.applied

SessionInv ==
  /\ \A s \in Session : SesOK(ses[s])
  /\ \A s \in Session : s > opened => ses[s].dev = "none" /\ ~ ses[s].onStun
  /\ wgDevice \in Session => ses[wgDevice].dev # "none"

\* Only a listener stores the key of the peer.
KeyInv == status.peerKey => \E s \in Session : ses[s].lpc # "none"

EngineInv == TypeOK /\ CallerInv /\ SessionInv /\ KeyInv /\ NoCallbackAfterClose /\ NoLostWakeup

LEMMA EngineInit == Init => EngineInv
<1> SUFFICES ASSUME Init PROVE EngineInv
  OBVIOUS
<1>1. NoSession \in SessionRec /\ SesOK(NoSession) /\ NoSession.dev = "none" /\ ~ NoSession.onStun
      /\ NoSession.lpc = "none" /\ NoSession.rpc = "none"
  BY DEF NoSession, SessionRec, SesOK, MaybeAddr
<1>2. \A s \in Session : ses[s] = NoSession
  BY DEF Init
<1>3. \A c \in Caller : caller[c].pc = "idle"
  BY DEF Init
<1>4. TypeOK
  <2>1. ses \in [Session -> SessionRec]
    BY <1>1 DEF Init
  <2>2. status \in Status
    BY DEF Init, Disconnected, Status, MaybeAddr
  <2>3. caller \in [Caller -> [pc : {"idle", "create", "install", "up", "spawn", "close"},
                              s : 0..MaxSession]]
    BY SessionAssumption DEF Init
  <2>4. /\ muHolder \in Caller \cup {NoOne} /\ tunReady \in BOOLEAN /\ stunAddr \in BOOLEAN
        /\ mapped \in Addr /\ published \in MaybeAddr /\ remote \in MaybeAddr
    BY DEF Init, MaybeAddr
  <2>5. /\ cancelFn \in 0..MaxSession /\ wgDevice \in 0..MaxSession /\ stunBind \in 0..MaxSession
        /\ peerUpdateCh \in 0..1 /\ forceStunCh \in 0..1 /\ opened \in 0..MaxSession
        /\ events \in 0..MaxEvent /\ fails \in 0..MaxFail
    BY SessionAssumption DEF Init
  <2>6. QED
    BY <2>1, <2>2, <2>3, <2>4, <2>5 DEF TypeOK
<1>5. CallerInv
  BY <1>3 DEF CallerInv, Starting
<1>6. SessionInv
  BY <1>1, <1>2 DEF Init, SessionInv, Session
<1>7. KeyInv /\ NoLostWakeup
  BY DEF Init, KeyInv, NoLostWakeup, Disconnected
<1>8. NoCallbackAfterClose
  BY <1>1, <1>2 DEF NoCallbackAfterClose
<1>9. QED
  BY <1>4, <1>5, <1>6, <1>7, <1>8 DEF EngineInv

\* One session changes.
LEMMA OneSession ==
    ASSUME TypeOK, NEW s \in Session, NEW r \in SessionRec, ses' = [ses EXCEPT ![s] = r]
    PROVE  /\ ses' \in [Session -> SessionRec] /\ ses'[s] = r
           /\ \A u \in Session \ {s} : ses'[u] = ses[u]
  BY DEF TypeOK

\* What a step of a goroutine leaves alone in the record q of a session, which becomes r.
Kept(q, r) ==
  /\ r.ctx = q.ctx /\ r.dev = q.dev /\ r.onStun = q.onStun
  /\ r.lpc = "none" <=> q.lpc = "none"
  /\ q.rpc \in {"none", "exit"} => r.rpc \in {"none", "exit"}

(* A step of a goroutine or of the environment: the callers, the devices and whether the
   goroutines have been started stay, and a receiver that has ended does not come back. *)
LEMMA GoroutineStep ==
    ASSUME EngineInv, UNCHANGED <<caller, opened, wgDevice>>,
           \A u \in Session : Kept(ses[u], ses'[u]) /\ SesOK(ses'[u])
    PROVE  CallerInv' /\ SessionInv' /\ NoCallbackAfterClose'
<1>1. CallerInv'
  BY DEF EngineInv, CallerInv, Kept, TypeOK, Session
<1>2. SessionInv'
  BY DEF EngineInv, SessionInv, Kept
<1>3. NoCallbackAfterClose'
  BY DEF EngineInv, NoCallbackAfterClose, Kept
<1>4. QED
  BY <1>1, <1>2, <1>3

(* The types, after a step that changes the sessions, the status and the channels only. *)
Rest == <<globals, caller, opened, environment, published, fails>>

LEMMA RestTypes ==
    ASSUME TypeOK, UNCHANGED Rest, ses' \in [Session -> SessionRec], status' \in Status,
           peerUpdateCh' \in 0..1, forceStunCh' \in 0..1
    PROVE  TypeOK'
  BY DEF TypeOK, Rest, globals, environment

(* The listener.  It stores what it has read and then signals; the status is as before or
   the signal is still to come. *)
LEMMA ListenerInv ==
    ASSUME EngineInv, NEW s \in Session, Listener(s)
    PROVE  EngineInv'
<1>0. ses[s] \in SessionRec /\ status \in Status /\ SesOK(ses[s])
      /\ peerUpdateCh \in 0..1 /\ forceStunCh \in 0..1 /\ remote \in MaybeAddr /\ NoAddr \in MaybeAddr
  BY DEF EngineInv, TypeOK, SessionInv, MaybeAddr
<1>1. PICK r \in SessionRec :
        /\ ses' = [ses EXCEPT ![s] = r] /\ Kept(ses[s], r) /\ SesOK(r)
        /\ r.apc = ses[s].apc /\ r.applied = ses[s].applied
        /\ \/ /\ status' = status /\ peerUpdateCh' = peerUpdateCh /\ ses[s].lpc # "signal"
           \/ /\ status' = status /\ peerUpdateCh' = 1
           \/ /\ status' # status /\ r.lpc = "signal" /\ peerUpdateCh' = peerUpdateCh
              /\ status' \in Status
  <2>1. CASE ListenerRead(s)
    <3>1. CASE ses' = [ses EXCEPT ![s].lpc = "exit"] /\ ses[s].lpc = "stream"
      <4> DEFINE r == [ses[s] EXCEPT !.lpc = "exit"]
      <4>1. r \in SessionRec /\ Kept(ses[s], r) /\ SesOK(r) /\ r.apc = ses[s].apc
            /\ r.applied = ses[s].applied
        BY <1>0, <3>1 DEF SessionRec, Kept, SesOK
      <4>2. ses' = [ses EXCEPT ![s] = r] /\ status' = status /\ peerUpdateCh' = peerUpdateCh
        BY <2>1, <3>1 DEF ListenerRead, channels
      <4> HIDE DEF r
      <4>3. QED
        BY <3>1, <4>1, <4>2
    <3>2. CASE ses' = [ses EXCEPT ![s].fresh = FALSE, ![s].laddr = remote,
                            ![s].lpc = IF remote = NoAddr THEN "stream" ELSE "store"]
               /\ ses[s].lpc = "stream"
      <4> DEFINE r == [ses[s] EXCEPT !.fresh = FALSE, !.laddr = remote,
                            !.lpc = IF remote = NoAddr THEN "stream" ELSE "store"]
      <4>1. r \in SessionRec /\ Kept(ses[s], r) /\ SesOK(r) /\ r.apc = ses[s].apc
            /\ r.applied = ses[s].applied
        BY <1>0, <3>2 DEF SessionRec, Kept, SesOK
      <4>2. ses' = [ses EXCEPT ![s] = r] /\ status' = status /\ peerUpdateCh' = peerUpdateCh
        BY <2>1, <3>2 DEF ListenerRead, channels
      <4> HIDE DEF r
      <4>3. QED
        BY <3>2, <4>1, <4>2
    <3>3. QED
      BY <2>1, <3>1, <3>2 DEF ListenerRead
  <2>2. CASE ListenerStore(s)
    <3> DEFINE new == [status EXCEPT !.peerAddr = ses[s].laddr, !.peerKey = TRUE]
    <3>1. new \in Status
      BY <1>0 DEF SessionRec, Status
    <3>0. PICK l \in {"stream", "signal"} : l = IF new = status THEN "stream" ELSE "signal"
      OBVIOUS
    <3> DEFINE r == [ses[s] EXCEPT !.lpc = l, !.laddr = NoAddr]
    <3>2. /\ ses' = [ses EXCEPT ![s] = r] /\ status' = new /\ peerUpdateCh' = peerUpdateCh
          /\ ses[s].lpc = "store"
      BY <2>2, <3>0 DEF ListenerStore, channels
    <3>3. r \in SessionRec /\ Kept(ses[s], r) /\ SesOK(r) /\ r.apc = ses[s].apc
          /\ r.applied = ses[s].applied /\ r.lpc = l
      BY <1>0, <3>2 DEF SessionRec, Kept, SesOK
    <3> HIDE DEF r, new
    <3>4. QED
      BY <3>0, <3>1, <3>2, <3>3
  <2>3. CASE ListenerSignal(s)
    <3> DEFINE r == [ses[s] EXCEPT !.lpc = "stream"]
    <3>1. ses' = [ses EXCEPT ![s] = r] /\ status' = status /\ peerUpdateCh' = 1
          /\ ses[s].lpc = "signal"
      BY <2>3 DEF ListenerSignal
    <3>2. r \in SessionRec /\ Kept(ses[s], r) /\ SesOK(r) /\ r.apc = ses[s].apc
          /\ r.applied = ses[s].applied
      BY <1>0, <3>1 DEF SessionRec, Kept, SesOK
    <3> HIDE DEF r
    <3>3. QED
      BY <3>1, <3>2
  <2>4. QED
    BY <2>1, <2>2, <2>3 DEF Listener
<1>2. UNCHANGED Rest /\ forceStunCh' = forceStunCh /\ ses[s].lpc # "none"
  BY DEF Listener, ListenerRead, ListenerStore, ListenerSignal, Rest, channels
<1>3. /\ ses' \in [Session -> SessionRec] /\ ses'[s] = r
      /\ \A u \in Session \ {s} : ses'[u] = ses[u]
  BY <1>1, OneSession DEF EngineInv
<1>4. TypeOK'
  <2>1. status' \in Status /\ peerUpdateCh' \in 0..1 /\ forceStunCh' \in 0..1
    BY <1>0, <1>1, <1>2
  <2>2. QED
    BY <1>2, <1>3, <2>1, RestTypes DEF EngineInv
<1>5. \A u \in Session : Kept(ses[u], ses'[u]) /\ SesOK(ses'[u])
  BY <1>1, <1>3 DEF EngineInv, SessionInv, Kept
<1>6. CallerInv' /\ SessionInv' /\ NoCallbackAfterClose'
  BY <1>2, <1>5, GoroutineStep DEF Rest, globals
<1>7. KeyInv'
  BY <1>1, <1>2, <1>3 DEF KeyInv, Kept
<1>8. NoLostWakeup'
  <2> SUFFICES ASSUME NEW u \in Session, Running(u)', Alone(u)', status'.peerKey,
                      status'.peerAddr \notin {NoAddr, ses'[u].applied}
               PROVE  \/ peerUpdateCh' = 1
                      \/ ses'[u].lpc = "signal"
                      \/ ses'[u].apc \in {"read", "ipc", "report"}
    BY DEF NoLostWakeup
  <2>1. u = s
    BY <1>1, <1>2, <1>3 DEF Alone, Kept
  <2>2. Running(s) /\ Alone(s)
    BY <1>1, <1>2, <1>3, <2>1 DEF Running, Alone, Kept, Rest, globals
  <2>3. QED
    BY <1>1, <1>3, <2>1, <2>2 DEF EngineInv, NoLostWakeup
<1>9. QED
  BY <1>4, <1>6, <1>7, <1>8 DEF EngineInv

\* The applier reads the endpoint after it has taken the token, and reports what it applied.
LEMMA ApplierInv ==
    ASSUME EngineInv, NEW s \in Session, Applier(s)
    PROVE  EngineInv'
<1>0. ses[s] \in SessionRec /\ status \in Status /\ SesOK(ses[s])
      /\ peerUpdateCh \in 0..1 /\ forceStunCh \in 0..1 /\ NoAddr \in MaybeAddr
  BY DEF EngineInv, TypeOK, SessionInv, MaybeAddr
<1>1. PICK r \in SessionRec :
        /\ ses' = [ses EXCEPT ![s] = r] /\ Kept(ses[s], r) /\ SesOK(r)
        /\ r.lpc = ses[s].lpc
        /\ status' \in Status /\ status'.peerKey = status.peerKey /\ peerUpdateCh' \in 0..1
        /\ \/ r.apc \in {"read", "ipc", "report"}
           \/ /\ ses[s].apc = "select" /\ r.applied = ses[s].applied
              /\ status' = status /\ peerUpdateCh' = peerUpdateCh
           \/ status' = status /\ ~ (status.peerKey /\ status.peerAddr # NoAddr)
           \/ ses[s].dev = "closed"
           \/ status'.peerAddr = r.applied
  <2>1. CASE ApplierDone(s)
    <3> DEFINE r == [ses[s] EXCEPT !.apc = "exit"]
    <3>1. ses' = [ses EXCEPT ![s] = r] /\ status' = status /\ peerUpdateCh' = peerUpdateCh
          /\ ses[s].apc = "select"
      BY <2>1 DEF ApplierDone, channels
    <3>2. r \in SessionRec /\ Kept(ses[s], r) /\ SesOK(r) /\ r.lpc = ses[s].lpc
          /\ r.applied = ses[s].applied
      BY <1>0, <3>1 DEF SessionRec, Kept, SesOK
    <3> HIDE DEF r
    <3>3. QED
      BY <1>0, <3>1, <3>2
  <2>2. CASE ApplierWake(s)
    <3> DEFINE r == [ses[s] EXCEPT !.apc = "read"]
    <3>1. ses' = [ses EXCEPT ![s] = r] /\ status' = status /\ peerUpdateCh' \in 0..1
          /\ ses[s].apc = "select"
      BY <2>2 DEF ApplierWake
    <3>2. r \in SessionRec /\ Kept(ses[s], r) /\ SesOK(r) /\ r.lpc = ses[s].lpc
          /\ r.apc = "read"
      BY <1>0, <3>1 DEF SessionRec, Kept, SesOK
    <3> HIDE DEF r
    <3>3. QED
      BY <1>0, <3>1, <3>2
  <2>3. CASE ApplierRead(s)
    <3>1. CASE status.peerAddr # NoAddr /\ status.peerKey
      <4> DEFINE r == [ses[s] EXCEPT !.apc = "ipc", !.aaddr = status.peerAddr]
      <4>1. ses' = [ses EXCEPT ![s] = r] /\ status' = status /\ peerUpdateCh' = peerUpdateCh
            /\ ses[s].apc = "read"
        BY <2>3, <3>1 DEF ApplierRead, channels
      <4>2. status.peerAddr \in MaybeAddr
        BY <1>0 DEF Status
      <4>3. r \in SessionRec /\ Kept(ses[s], r) /\ SesOK(r) /\ r.lpc = ses[s].lpc
            /\ r.apc = "ipc"
        BY <1>0, <4>1, <4>2 DEF SessionRec, Kept, SesOK
      <4> HIDE DEF r
      <4>4. QED
        BY <1>0, <4>1, <4>3
    <3>2. CASE ~ (status.peerAddr # NoAddr /\ status.peerKey)
      <4> DEFINE r == [ses[s] EXCEPT !.apc = "select"]
      <4>1. ses' = [ses EXCEPT ![s] = r] /\ status' = status /\ peerUpdateCh' = peerUpdateCh
            /\ ses[s].apc = "read"
        BY <2>3, <3>2 DEF ApplierRead, channels
      <4>2. r \in SessionRec /\ Kept(ses[s], r) /\ SesOK(r) /\ r.lpc = ses[s].lpc
        BY <1>0, <4>1 DEF SessionRec, Kept, SesOK
      <4> HIDE DEF r
      <4>3. QED
        BY <1>0, <3>2, <4>1, <4>2
    <3>3. QED
      BY <3>1, <3>2
  <2>4. CASE ApplierIpcSet(s)
    <3>0. ses[s].apc = "ipc" /\ status' = status /\ peerUpdateCh' = peerUpdateCh
      BY <2>4 DEF ApplierIpcSet, channels
    <3>1. CASE ses[s].dev = "closed"
               /\ ses' = [ses EXCEPT ![s].apc = "select", ![s].aaddr = NoAddr]
      <4> DEFINE r == [ses[s] EXCEPT !.apc = "select", !.aaddr = NoAddr]
      <4>1. ses' = [ses EXCEPT ![s] = r]
        BY <3>1
      <4>2. r \in SessionRec /\ Kept(ses[s], r) /\ SesOK(r) /\ r.lpc = ses[s].lpc
        BY <1>0, <3>0 DEF SessionRec, Kept, SesOK
      <4> HIDE DEF r
      <4>3. QED
        BY <1>0, <3>0, <3>1, <4>1, <4>2
    <3>2. CASE ses' = [ses EXCEPT ![s].applied = ses[s].aaddr, ![s].apc = "report"]
      <4> DEFINE r == [ses[s] EXCEPT !.applied = ses[s].aaddr, !.apc = "report"]
      <4>1. ses' = [ses EXCEPT ![s] = r]
        BY <3>2
      <4>2. r \in SessionRec /\ Kept(ses[s], r) /\ SesOK(r) /\ r.lpc = ses[s].lpc
            /\ r.apc = "report"
        BY <1>0, <3>0 DEF SessionRec, Kept, SesOK
      <4> HIDE DEF r
      <4>3. QED
        BY <1>0, <3>0, <4>1, <4>2
    <3>3. QED
      BY <2>4, <3>1, <3>2 DEF ApplierIpcSet
  <2>5. CASE ApplierReport(s)
    <3> DEFINE r == [ses[s] EXCEPT !.apc = "select", !.aaddr = NoAddr]
    <3>1. /\ ses' = [ses EXCEPT ![s] = r] /\ peerUpdateCh' = peerUpdateCh
          /\ status' = [status EXCEPT !.state = "CONNECTED", !.peerAddr = ses[s].aaddr]
          /\ ses[s].apc = "report"
      BY <2>5 DEF ApplierReport, channels
    <3>2. r \in SessionRec /\ Kept(ses[s], r) /\ SesOK(r) /\ r.lpc = ses[s].lpc
          /\ r.applied = ses[s].applied
      BY <1>0, <3>1 DEF SessionRec, Kept, SesOK
    <3>3. ses[s].aaddr \in MaybeAddr /\ ses[s].aaddr = ses[s].applied
      BY <1>0, <3>1 DEF SessionRec, SesOK
    <3>4. status' \in Status /\ status'.peerKey = status.peerKey
          /\ status'.peerAddr = ses[s].applied
      BY <1>0, <3>1, <3>3 DEF Status
    <3> HIDE DEF r
    <3>5. QED
      BY <1>0, <3>1, <3>2, <3>4
  <2>6. QED
    BY <2>1, <2>2, <2>3, <2>4, <2>5 DEF Applier
<1>2. UNCHANGED Rest /\ forceStunCh' = forceStunCh /\ ses[s].apc # "none"
  BY DEF Applier, ApplierDone, ApplierWake, ApplierRead, ApplierIpcSet, ApplierReport, Rest, channels
<1>3. /\ ses' \in [Session -> SessionRec] /\ ses'[s] = r
      /\ \A u \in Session \ {s} : ses'[u] = ses[u]
  BY <1>1, OneSession DEF EngineInv
<1>4. TypeOK'
  <2>1. status' \in Status /\ peerUpdateCh' \in 0..1 /\ forceStunCh' \in 0..1
    BY <1>0, <1>1, <1>2
  <2>2. QED
    BY <1>2, <1>3, <2>1, RestTypes DEF EngineInv
<1>5. \A u \in Session : Kept(ses[u], ses'[u]) /\ SesOK(ses'[u])
  BY <1>1, <1>3 DEF EngineInv, SessionInv, Kept
<1>6. CallerInv' /\ SessionInv' /\ NoCallbackAfterClose'
  BY <1>2, <1>5, GoroutineStep DEF Rest, globals
<1>7. KeyInv' /\ ses[s].lpc # "none"
  BY <1>0, <1>1, <1>2, <1>3 DEF KeyInv, SesOK
<1>8. NoLostWakeup'
  <2> SUFFICES ASSUME NEW u \in Session, Running(u)', Alone(u)', status'.peerKey,
                      status'.peerAddr \notin {NoAddr, ses'[u].applied}
               PROVE  \/ peerUpdateCh' = 1
                      \/ ses'[u].lpc = "signal"
                      \/ ses'[u].apc \in {"read", "ipc", "report"}
    BY DEF NoLostWakeup
  <2>1. u = s
    BY <1>1, <1>3, <1>7 DEF Alone, Kept
  <2>2. Running(s) /\ Alone(s) /\ ses[s].dev = "up"
    BY <1>1, <1>2, <1>3, <2>1 DEF Running, Alone, Kept, Rest, globals
  <2>3. QED
    BY <1>1, <1>3, <2>1, <2>2 DEF EngineInv, NoLostWakeup
<1>9. QED
  BY <1>4, <1>6, <1>7, <1>8 DEF EngineInv

(* A step that leaves the endpoint, the token and the steps of the listeners and appliers
   alone loses no wake-up. *)
LEMMA WakeupKept ==
    ASSUME EngineInv, UNCHANGED <<wgDevice, stunBind, peerUpdateCh>>,
           status'.peerKey = status.peerKey, status'.peerAddr = status.peerAddr,
           \A u \in Session :
              /\ Kept(ses[u], ses'[u]) /\ ses'[u].applied = ses[u].applied
              /\ ses[u].lpc = "signal" => ses'[u].lpc = "signal"
              /\ ses'[u].apc = ses[u].apc
    PROVE  NoLostWakeup' /\ KeyInv'
<1>1. KeyInv'
  BY DEF EngineInv, KeyInv, Kept
<1>2. NoLostWakeup'
  BY DEF EngineInv, NoLostWakeup, Running, Alone, Kept
<1>3. QED
  BY <1>1, <1>2

\* The heartbeat asks for the address on the bind of whatever session has it.
LEMMA HeartbeatInv ==
    ASSUME EngineInv, NEW s \in Session, Heartbeat(s)
    PROVE  EngineInv'
<1>0. /\ ses \in [Session -> SessionRec] /\ mapped \in MaybeAddr /\ status \in Status
      /\ peerUpdateCh \in 0..1 /\ forceStunCh \in 0..1 /\ \A u \in Session : SesOK(ses[u])
  BY DEF EngineInv, TypeOK, SessionInv, MaybeAddr
<1>1. UNCHANGED Rest /\ status' = status /\ peerUpdateCh' = peerUpdateCh /\ forceStunCh' \in 0..1
  <2>1. UNCHANGED Rest /\ status' = status /\ peerUpdateCh' = peerUpdateCh
    BY DEF Heartbeat, HeartbeatRequest, HeartbeatDone, HeartbeatWake, Rest, channels
  <2>2. forceStunCh' \in {0, forceStunCh}
    BY DEF Heartbeat, HeartbeatRequest, HeartbeatDone, HeartbeatWake, channels
  <2>3. QED
    BY <1>0, <2>1, <2>2
<1> DEFINE Beat(q, r) == /\ r \in SessionRec /\ Kept(q, r) /\ SesOK(r)
                         /\ r.applied = q.applied /\ r.lpc = q.lpc /\ r.apc = q.apc
<1>2. ASSUME NEW q \in SessionRec, SesOK(q), NEW h \in {"none", "select", "exit", "request"},
             NEW a \in MaybeAddr, NEW r,
             r = q \/ r = [q EXCEPT !.hpc = h] \/ r = [q EXCEPT !.hpc = h, !.reply = a]
      PROVE  Beat(q, r)
  <2>1. r \in SessionRec
    BY <1>2, ZenonT(40) DEF SessionRec
  <2>2. /\ r.ctx = q.ctx /\ r.dev = q.dev /\ r.onStun = q.onStun /\ r.applied = q.applied
        /\ r.lpc = q.lpc /\ r.apc = q.apc /\ r.rpc = q.rpc /\ r.aaddr = q.aaddr
    BY <1>2 DEF SessionRec
  <2>3. QED
    BY <1>2, <2>1, <2>2 DEF Kept, SesOK
<1>3. ses' \in [Session -> SessionRec] /\ \A u \in Session : Beat(ses[u], ses'[u])
  <2>1. CASE HeartbeatRequest(s)
    <3>1. ASSUME NEW u \in Session
          PROVE  Beat(ses[u], [ses[u] EXCEPT !.hpc = IF u = s THEN "select" ELSE @,
                               !.reply = IF u = stunBind /\ stunAddr /\ ses[u].dev = "up"
                                           THEN mapped ELSE @])
      <4>1. PICK h : h = IF u = s THEN "select" ELSE ses[u].hpc
        OBVIOUS
      <4>2. PICK a \in MaybeAddr : a = IF u = stunBind /\ stunAddr /\ ses[u].dev = "up"
                                           THEN mapped ELSE ses[u].reply
        BY <1>0 DEF SessionRec
      <4>3. h \in {"none", "select", "exit", "request"} /\ ses[u] \in SessionRec /\ SesOK(ses[u])
        BY <1>0, <4>1 DEF SessionRec
      <4> DEFINE r == [ses[u] EXCEPT !.hpc = h, !.reply = a]
      <4> HIDE DEF Beat
      <4>4. Beat(ses[u], r)
        BY <1>2, <4>3
      <4>5. r = [ses[u] EXCEPT !.hpc = IF u = s THEN "select" ELSE @,
                               !.reply = IF u = stunBind /\ stunAddr /\ ses[u].dev = "up"
                                           THEN mapped ELSE @]
        BY <4>1, <4>2
      <4> HIDE DEF r
      <4>6. QED
        BY <4>4, <4>5
    <3> DEFINE g(u) == [ses[u] EXCEPT !.hpc = IF u = s THEN "select" ELSE @,
                               !.reply = IF u = stunBind /\ stunAddr /\ ses[u].dev = "up"
                                           THEN mapped ELSE @]
    <3>2. ses' = [u \in Session |-> g(u)]
      BY <2>1 DEF HeartbeatRequest
    <3>3. \A u \in Session : Beat(ses[u], g(u)) /\ g(u) \in SessionRec
      BY <3>1
    <3> HIDE DEF g
    <3>4. QED
      BY <3>2, <3>3
  <2>2. CASE HeartbeatDone(s)
    <3>1. ses' = [ses EXCEPT ![s] = [ses[s] EXCEPT !.hpc = "exit"]]
      BY <2>2 DEF HeartbeatDone
    <3>2. PICK r \in SessionRec : r = [ses[s] EXCEPT !.hpc = "exit"] /\ Beat(ses[s], r)
      BY <1>0, <1>2
    <3>3. QED
      BY <1>0, <1>2, <3>1, <3>2
  <2>3. CASE HeartbeatWake(s)
    <3>1. ses' = [ses EXCEPT ![s] = [ses[s] EXCEPT !.hpc = "request"]]
      BY <2>3 DEF HeartbeatWake
    <3>2. PICK r \in SessionRec : r = [ses[s] EXCEPT !.hpc = "request"] /\ Beat(ses[s], r)
      BY <1>0, <1>2
    <3>3. QED
      BY <1>0, <1>2, <3>1, <3>2
  <2>4. QED
    BY <2>1, <2>2, <2>3 DEF Heartbeat
<1>4. TypeOK'
  BY <1>0, <1>1, <1>3, RestTypes DEF EngineInv
<1>5. CallerInv' /\ SessionInv' /\ NoCallbackAfterClose'
  BY <1>1, <1>3, GoroutineStep DEF Rest, globals
<1>6. NoLostWakeup' /\ KeyInv'
  BY <1>1, <1>3, WakeupKept DEF Rest, globals
<1>7. QED
  BY <1>4, <1>5, <1>6 DEF EngineInv

(* The receiver and its callbacks.  None of them starts again once it has ended, and none
   touches the endpoint of the peer. *)
LEMMA ReceiverInv ==
    ASSUME EngineInv, NEW s \in Session, Receiver(s) \/ UnknownPacket(s)
    PROVE  EngineInv'
<1>0. /\ ses[s] \in SessionRec /\ status \in Status /\ SesOK(ses[s]) /\ NoAddr \in MaybeAddr
      /\ ses[s].raddr \in MaybeAddr /\ ses[s].reply \in MaybeAddr
      /\ events \in 0..MaxEvent /\ fails \in 0..MaxFail /\ published \in MaybeAddr
  BY DEF EngineInv, TypeOK, SessionInv, MaybeAddr, SessionRec
<1>1. /\ UNCHANGED <<globals, channels, caller, opened, mapped, remote>>
      /\ ses[s].rpc \notin {"none", "exit"}
  BY DEF Receiver, ReceiverRecv, ReceiverUnknown, ReceiverStun, ReceiverPut, UnknownPacket, environment
<1>2. /\ events' \in 0..MaxEvent /\ fails' \in 0..MaxFail /\ published' \in MaybeAddr
  BY <1>0, SessionAssumption DEF Receiver, ReceiverRecv, ReceiverUnknown, ReceiverStun, ReceiverPut,
     UnknownPacket, environment, Event
<1>3. status' \in Status /\ status'.peerKey = status.peerKey /\ status'.peerAddr = status.peerAddr
  BY <1>0 DEF Receiver, ReceiverRecv, ReceiverUnknown, ReceiverStun, ReceiverPut, UnknownPacket, Status
<1> DEFINE Fits(r) == /\ r \in SessionRec /\ Kept(ses[s], r) /\ SesOK(r)
                      /\ r.applied = ses[s].applied /\ r.lpc = ses[s].lpc /\ r.apc = ses[s].apc
<1>4. ASSUME NEW p \in {"recv", "stun", "put", "unknown", "exit"}, NEW a \in MaybeAddr,
             NEW b \in MaybeAddr, NEW r,
             \/ r = [ses[s] EXCEPT !.rpc = p]
             \/ r = [ses[s] EXCEPT !.reply = a]
             \/ r = [ses[s] EXCEPT !.rpc = p, !.raddr = a]
             \/ r = [ses[s] EXCEPT !.once = TRUE, !.rpc = p]
             \/ r = [ses[s] EXCEPT !.reply = a, !.raddr = b, !.rpc = p]
      PROVE  Fits(r)
  <2>1. r \in SessionRec
    <3>1. CASE r = [ses[s] EXCEPT !.rpc = p] \/ r = [ses[s] EXCEPT !.reply = a]
      BY <1>0, <3>1 DEF SessionRec
    <3>2. CASE r = [ses[s] EXCEPT !.rpc = p, !.raddr = a]
      BY <1>0, <3>2 DEF SessionRec
    <3>3. CASE r = [ses[s] EXCEPT !.once = TRUE, !.rpc = p]
      BY <1>0, <3>3 DEF SessionRec
    <3>4. CASE r = [ses[s] EXCEPT !.reply = a, !.raddr = b, !.rpc = p]
      BY <1>0, <3>4 DEF SessionRec
    <3>5. QED
      BY <1>4, <3>1, <3>2, <3>3, <3>4
  <2>2. /\ r.ctx = ses[s].ctx /\ r.dev = ses[s].dev /\ r.onStun = ses[s].onStun
        /\ r.applied = ses[s].applied /\ r.lpc = ses[s].lpc /\ r.apc = ses[s].apc
        /\ r.aaddr = ses[s].aaddr
    BY <1>0, <1>4 DEF SessionRec
  <2>3. QED
    BY <1>0, <1>1, <2>1, <2>2 DEF Kept, SesOK
<1>5. PICK r : ses' = [ses EXCEPT ![s] = r] /\ Fits(r)
  <2> HIDE DEF Fits
  <2>1. CASE ReceiverRecv(s)
    <3>1. CASE ses' = [ses EXCEPT ![s].rpc = "exit"]
      BY <1>0, <1>4, <3>1
    <3>2. CASE ses' = [ses EXCEPT ![s].reply = NoAddr, ![s].raddr = ses[s].reply,
                                  ![s].rpc = "stun"]
      <4> DEFINE r == [ses[s] EXCEPT !.reply = NoAddr, !.raddr = ses[s].reply, !.rpc = "stun"]
      <4>1. Fits(r) /\ ses' = [ses EXCEPT ![s] = r]
        BY <1>0, <1>4, <3>2
      <4> HIDE DEF r
      <4>2. QED
        BY <4>1
    <3>3. CASE ses' = [ses EXCEPT ![s].reply = NoAddr]
      BY <1>0, <1>4, <3>3
    <3>4. QED
      BY <2>1, <3>1, <3>2, <3>3 DEF ReceiverRecv
  <2>2. CASE ses' = [ses EXCEPT ![s].rpc = "recv"]
    BY <1>0, <1>4, <2>2
  <2>3. CASE ses' = [ses EXCEPT ![s].rpc = "recv", ![s].raddr = NoAddr]
    <3> DEFINE r == [ses[s] EXCEPT !.rpc = "recv", !.raddr = NoAddr]
    <3>1. Fits(r) /\ ses' = [ses EXCEPT ![s] = r]
      BY <1>0, <1>4, <2>3
    <3> HIDE DEF r
    <3>2. QED
      BY <3>1
  <2>4. CASE ses' = [ses EXCEPT ![s].rpc = "put"]
    BY <1>0, <1>4, <2>4
  <2>5. CASE ses' = [ses EXCEPT ![s].once = TRUE, ![s].rpc = "unknown"]
    <3> DEFINE r == [ses[s] EXCEPT !.once = TRUE, !.rpc = "unknown"]
    <3>1. Fits(r) /\ ses' = [ses EXCEPT ![s] = r]
      BY <1>0, <1>4, <2>5
    <3> HIDE DEF r
    <3>2. QED
      BY <3>1
  <2>6. QED
    BY <2>1, <2>2, <2>3, <2>4, <2>5 DEF Receiver, ReceiverUnknown, ReceiverStun, ReceiverPut, UnknownPacket
<1>6. /\ ses' \in [Session -> SessionRec] /\ ses'[s] = r
      /\ \A u \in Session \ {s} : ses'[u] = ses[u]
  BY <1>5, OneSession DEF EngineInv, Fits
<1>7. \A u \in Session : /\ Kept(ses[u], ses'[u]) /\ SesOK(ses'[u])
                         /\ ses'[u].applied = ses[u].applied
                         /\ ses'[u].lpc = ses[u].lpc /\ ses'[u].apc = ses[u].apc
  BY <1>5, <1>6 DEF EngineInv, SessionInv, Kept, Fits
<1>8. TypeOK'
  BY <1>1, <1>2, <1>3, <1>6 DEF EngineInv, TypeOK, globals, channels
<1>9. CallerInv' /\ SessionInv' /\ NoCallbackAfterClose'
  BY <1>1, <1>7, GoroutineStep DEF globals
<1>10. NoLostWakeup' /\ KeyInv'
  BY <1>1, <1>3, <1>7, WakeupKept DEF globals, channels
<1>11. QED
  BY <1>8, <1>9, <1>10 DEF EngineInv

\* The environment.
LEMMA EnvironmentInv ==
    ASSUME EngineInv,
           OwnAddressChanges \/ PeerPublishes \/ (\E s \in Session : StreamReconnects(s))
             \/ UNCHANGED vars
    PROVE  EngineInv'
<1>0. /\ ses \in [Session -> SessionRec] /\ events \in 0..MaxEvent
      /\ mapped \in Addr /\ remote \in MaybeAddr /\ \A u \in Session : SesOK(ses[u])
  BY DEF EngineInv, TypeOK, SessionInv
<1>1. UNCHANGED <<globals, channels, caller, opened, status, published, fails>>
  BY DEF OwnAddressChanges, PeerPublishes, StreamReconnects, vars, globals, channels
<1>2. events' \in 0..MaxEvent /\ mapped' \in Addr /\ remote' \in MaybeAddr
  BY <1>0, SessionAssumption
  DEF OwnAddressChanges, PeerPublishes, StreamReconnects, vars, Event, MaybeAddr
<1> DEFINE Fits(q, r) == /\ r \in SessionRec /\ Kept(q, r) /\ SesOK(r)
                         /\ r.applied = q.applied /\ r.lpc = q.lpc /\ r.apc = q.apc
<1>3. ASSUME NEW q \in SessionRec, SesOK(q), NEW b \in BOOLEAN, NEW r,
             r = q \/ r = [q EXCEPT !.fresh = b]
      PROVE  Fits(q, r)
  <2>1. r \in SessionRec
    BY <1>3 DEF SessionRec
  <2>2. /\ r.ctx = q.ctx /\ r.dev = q.dev /\ r.onStun = q.onStun /\ r.applied = q.applied
        /\ r.lpc = q.lpc /\ r.apc = q.apc /\ r.rpc = q.rpc /\ r.aaddr = q.aaddr
    BY <1>3 DEF SessionRec
  <2>3. QED
    BY <1>3, <2>1, <2>2 DEF Kept, SesOK
<1>4. ses' \in [Session -> SessionRec] /\ \A u \in Session : Fits(ses[u], ses'[u])
  <2>1. CASE ses' = ses
    BY <1>0, <1>3, <2>1
  <2>2. CASE PeerPublishes
    <3>1. ses' = [s \in Session |->
                    [ses[s] EXCEPT !.fresh = @ \/ ses[s].lpc \notin {"none", "exit"}]]
      BY <2>2 DEF PeerPublishes
    <3>2. ASSUME NEW u \in Session PROVE Fits(ses[u], ses'[u])
      <4>1. ses'[u] = [ses[u] EXCEPT !.fresh = ses[u].fresh \/ ses[u].lpc \notin {"none", "exit"}]
        BY <3>1
      <4> HIDE DEF Fits
      <4>2. QED
        BY <1>0, <1>3, <4>1
    <3>3. QED
      BY <3>1, <3>2
  <2>3. CASE \E s \in Session : StreamReconnects(s)
    <3>1. PICK s \in Session : ses' = [ses EXCEPT ![s].fresh = TRUE]
      BY <2>3 DEF StreamReconnects
    <3>2. ASSUME NEW u \in Session PROVE Fits(ses[u], ses'[u])
      <4>1. ses'[u] = ses[u] \/ ses'[u] = [ses[u] EXCEPT !.fresh = TRUE]
        BY <1>0, <3>1
      <4> HIDE DEF Fits
      <4>2. QED
        BY <1>0, <1>3, <4>1
    <3>3. ses' = [u \in Session |-> ses'[u]]
      BY <1>0, <3>1
    <3>4. QED
      BY <3>2, <3>3
  <2>4. QED
    BY <2>1, <2>2, <2>3 DEF OwnAddressChanges, vars
<1>5. TypeOK'
  BY <1>1, <1>2, <1>4 DEF EngineInv, TypeOK, globals, channels
<1>6. CallerInv' /\ SessionInv' /\ NoCallbackAfterClose'
  BY <1>1, <1>4, GoroutineStep DEF globals
<1>7. NoLostWakeup' /\ KeyInv'
  BY <1>1, <1>4, WakeupKept DEF globals, channels
<1>8. QED
  BY <1>5, <1>6, <1>7 DEF EngineInv

-----------------------------------------------------------------------------
(* The exported functions                                                  *)

\* The records of the callers.
Calls == [pc : {"idle", "create", "install", "up", "spawn", "close"}, s : 0..MaxSession]

LEMMA CallerMoves ==
    ASSUME TypeOK, NEW c \in Caller, NEW k \in Calls, caller' = [caller EXCEPT ![c] = k]
    PROVE  /\ caller' \in [Caller -> Calls] /\ caller'[c] = k
           /\ \A d \in Caller \ {c} : caller'[d] = caller[d]
  BY DEF TypeOK, Calls

LEMMA Returned ==
    ASSUME TypeOK, NEW c \in Caller, Return(c)
    PROVE  /\ caller' \in [Caller -> Calls] /\ caller'[c].pc = "idle"
           /\ caller'[c] = [pc |-> "idle", s |-> 0]
           /\ \A d \in Caller \ {c} : caller'[d] = caller[d]
<1>1. [pc |-> "idle", s |-> 0] \in Calls
  BY SessionAssumption DEF Calls
<1>2. QED
  BY <1>1, CallerMoves DEF Return

LEMMA Advanced ==
    ASSUME TypeOK, NEW c \in Caller, NEW p \in {"install", "up", "spawn"},
           caller' = [caller EXCEPT ![c].pc = p]
    PROVE  /\ caller' \in [Caller -> Calls] /\ caller'[c].pc = p /\ caller'[c].s = caller[c].s
           /\ \A d \in Caller \ {c} : caller'[d] = caller[d]
<1> DEFINE k == [caller[c] EXCEPT !.pc = p]
<1>1. k \in Calls /\ k.pc = p /\ k.s = caller[c].s
  BY DEF TypeOK, Calls
<1>2. caller' = [caller EXCEPT ![c] = k]
  OBVIOUS
<1> HIDE DEF k
<1>3. QED
  BY <1>1, <1>2, CallerMoves

\* SubmitTunFd and NotifyNetworkChanged.
LEMMA NotifyInv ==
    ASSUME EngineInv, NEW c \in Caller, SubmitTunFd(c) \/ NotifyNetworkChanged(c)
    PROVE  EngineInv'
<1>1. UNCHANGED <<muHolder, cancelFn, wgDevice, stunBind, stunAddr, peerUpdateCh, caller, opened,
                  ses, mapped, remote, published, fails>>
  BY DEF SubmitTunFd, NotifyNetworkChanged, globals, channels, environment
<1>2. /\ status' \in Status /\ status'.peerKey = status.peerKey
      /\ status'.peerAddr = status.peerAddr
  BY DEF SubmitTunFd, NotifyNetworkChanged, EngineInv, TypeOK, Status
<1>3. /\ tunReady' \in BOOLEAN /\ forceStunCh' \in 0..1 /\ events' \in 0..MaxEvent
  <2>1. tunReady \in BOOLEAN /\ forceStunCh \in 0..1 /\ events \in 0..MaxEvent
    BY DEF EngineInv, TypeOK
  <2>2. tunReady' \in {TRUE, tunReady}
    BY DEF SubmitTunFd, NotifyNetworkChanged, globals
  <2>3. forceStunCh' \in 0..1
    BY <2>1 DEF SubmitTunFd, NotifyNetworkChanged, channels
  <2>4. events' \in 0..MaxEvent
    BY <2>1, SessionAssumption DEF SubmitTunFd, NotifyNetworkChanged, environment, Event
  <2>5. QED
    BY <2>1, <2>2, <2>3, <2>4
<1>4. TypeOK'
  BY <1>1, <1>2, <1>3 DEF EngineInv, TypeOK
<1>5. \A u \in Session : Kept(ses[u], ses'[u]) /\ SesOK(ses'[u])
  BY <1>1 DEF EngineInv, SessionInv, Kept
<1>6. CallerInv' /\ SessionInv' /\ NoCallbackAfterClose'
  BY <1>1, <1>5, GoroutineStep
<1>7. NoLostWakeup' /\ KeyInv'
  BY <1>1, <1>2, <1>5, WakeupKept
<1>8. QED
  BY <1>4, <1>6, <1>7 DEF EngineInv

\* Only the context of a session differs.
SameBut(q, r) == /\ r \in SessionRec /\ r.dev = q.dev /\ r.onStun = q.onStun /\ r.lpc = q.lpc
                 /\ r.apc = q.apc /\ r.rpc = q.rpc /\ r.aaddr = q.aaddr /\ r.applied = q.applied

LEMMA CancelledFacts ==
    ASSUME TypeOK, NEW x, NEW f, f = Cancelled(ses, x)
    PROVE  /\ f \in [Session -> SessionRec]
           /\ \A u \in Session : SameBut(ses[u], f[u]) /\ (f[u].ctx = "live" => ses[u].ctx = "live")
<1>1. ASSUME NEW q \in SessionRec, NEW r, r = [q EXCEPT !.ctx = "cancelled"]
      PROVE  SameBut(q, r) /\ r.ctx = "cancelled"
  BY <1>1 DEF SameBut, SessionRec
<1>2. \A u \in Session : ses[u] \in SessionRec /\ SameBut(ses[u], ses[u])
  BY DEF TypeOK, SameBut
<1>3. ASSUME NEW u \in Session
      PROVE  SameBut(ses[u], f[u]) /\ f[u] \in SessionRec /\ (f[u].ctx = "live" => ses[u].ctx = "live")
  <2>1. f[u] = IF u = x THEN [ses[u] EXCEPT !.ctx = "cancelled"] ELSE ses[u]
    BY DEF Cancelled
  <2>2. CASE u = x
    <3>1. SameBut(ses[u], f[u]) /\ f[u].ctx = "cancelled"
      BY <1>1, <1>2, <2>1, <2>2
    <3>2. QED
      BY <3>1 DEF SameBut
  <2>3. CASE u # x
    BY <1>2, <2>1, <2>3
  <2>4. QED
    BY <2>2, <2>3
<1>4. f = [u \in Session |-> f[u]]
  BY DEF Cancelled
<1>5. QED
  BY <1>3, <1>4

\* StartEngine cancels the session before and takes a number that no session has had.
LEMMA StartEngineInv ==
    ASSUME EngineInv, NEW c \in Caller, StartEngine(c)
    PROVE  EngineInv'
<1>0. PICK s \in Session : s = opened + 1 /\ opened \in Nat /\ s \in 0..MaxSession
  BY SessionAssumption DEF EngineInv, TypeOK, StartEngine, Session
<1>1. /\ caller[c].pc = "idle" /\ opened' = s /\ cancelFn' = s
      /\ ses' = [Cancelled(ses, cancelFn) EXCEPT ![s].ctx = "live"]
      /\ caller' = [caller EXCEPT ![c] = [pc |-> "create", s |-> s]]
      /\ UNCHANGED <<muHolder, tunReady, status, wgDevice, stunBind, stunAddr, channels,
                     environment, published, fails>>
  BY <1>0 DEF StartEngine
<1>2. PICK f \in [Session -> SessionRec] :
        /\ f = Cancelled(ses, cancelFn)
        /\ \A u \in Session : SameBut(ses[u], f[u]) /\ (f[u].ctx = "live" => ses[u].ctx = "live")
  <2>0. PICK x : x = cancelFn
    OBVIOUS
  <2>1. PICK f : f = Cancelled(ses, x)
    OBVIOUS
  <2>2. /\ f \in [Session -> SessionRec]
        /\ \A u \in Session : SameBut(ses[u], f[u]) /\ (f[u].ctx = "live" => ses[u].ctx = "live")
    BY <2>1, CancelledFacts DEF EngineInv
  <2>3. QED
    BY <2>0, <2>1, <2>2
<1>3. PICK r \in SessionRec : r = [f[s] EXCEPT !.ctx = "live"] /\ SameBut(ses[s], r)
  <2>1. PICK r : r = [f[s] EXCEPT !.ctx = "live"]
    OBVIOUS
  <2>2. r \in SessionRec /\ SameBut(f[s], r)
    BY <1>2, <2>1 DEF SameBut, SessionRec
  <2>3. SameBut(ses[s], r)
    BY <1>2, <2>2 DEF SameBut
  <2>4. QED
    BY <2>1, <2>2, <2>3
<1>4. /\ ses' \in [Session -> SessionRec] /\ \A u \in Session : SameBut(ses[u], ses'[u])
      /\ \A u \in Session \ {s} : ses'[u].ctx = "live" => ses[u].ctx = "live"
  <2>1. ses' = [f EXCEPT ![s] = r]
    BY <1>1, <1>2, <1>3
  <2>2. QED
    BY <1>2, <1>3, <2>1
<1>5. [pc |-> "create", s |-> s] \in Calls /\ [pc |-> "create", s |-> s].pc = "create"
      /\ [pc |-> "create", s |-> s].s = s
  BY <1>0 DEF Calls
<1>6. /\ caller' \in [Caller -> Calls] /\ caller'[c].pc = "create" /\ caller'[c].s = s
      /\ \A d \in Caller \ {c} : caller'[d] = caller[d]
  BY <1>1, <1>5, CallerMoves DEF EngineInv
<1>7. TypeOK'
  BY <1>0, <1>1, <1>4, <1>6 DEF EngineInv, TypeOK, Calls, channels, environment
<1>8. ses[s].dev = "none" /\ ~ ses[s].onStun
  BY <1>0 DEF EngineInv, SessionInv
<1>9. CallerInv'
  <2>1. \A d \in Caller : caller[d].pc \in Starting => caller[d].s \in Session /\ caller[d].s # s
    BY <1>0 DEF EngineInv, CallerInv, TypeOK, Session
  <2>2. ASSUME NEW d \in Caller, caller'[d].pc \in Starting
        PROVE  /\ caller'[d].s \in 1..opened' /\ ~ ses'[caller'[d].s].onStun
               /\ caller'[d].pc = "create" <=> ses'[caller'[d].s].dev = "none"
    <3>1. CASE d = c
      BY <1>0, <1>1, <1>4, <1>6, <1>8, <3>1 DEF SameBut
    <3>2. CASE d # c
      BY <1>0, <1>1, <1>4, <1>6, <2>1, <2>2, <3>2 DEF EngineInv, CallerInv, SameBut
    <3>3. QED
      BY <3>1, <3>2
  <2>3. \A d, e \in Caller : caller'[d].pc \in Starting /\ caller'[e].pc \in Starting
                              /\ caller'[d].s = caller'[e].s => d = e
    BY <1>6, <2>1 DEF EngineInv, CallerInv
  <2>4. \A d \in Caller : caller'[d].pc = "close" => caller'[d].s \in Session
    BY <1>6 DEF EngineInv, CallerInv
  <2>5. QED
    BY <2>2, <2>3, <2>4 DEF CallerInv
<1>10. SessionInv'
  <2>1. \A u \in Session : SesOK(ses'[u])
    BY <1>4 DEF EngineInv, SessionInv, SameBut, SesOK
  <2>2. ASSUME NEW u \in Session, u > opened' PROVE ses'[u].dev = "none" /\ ~ ses'[u].onStun
    <3>1. u > opened
      BY <1>0, <1>1, <2>2 DEF Session
    <3>2. QED
      BY <1>4, <3>1 DEF EngineInv, SessionInv, SameBut
  <2>3. wgDevice' \in Session => ses'[wgDevice'].dev # "none"
    BY <1>1, <1>4 DEF EngineInv, SessionInv, SameBut
  <2>4. QED
    BY <2>1, <2>2, <2>3 DEF SessionInv
<1>11. KeyInv'
  BY <1>1, <1>4 DEF EngineInv, KeyInv, SameBut
<1>12. NoCallbackAfterClose'
  <2>1. \A u \in Session : (\A d \in Caller : caller'[d] # [pc |-> "close", s |-> u])
                            => (\A d \in Caller : caller[d] # [pc |-> "close", s |-> u])
    BY <1>1, <1>6
  <2>2. QED
    BY <1>4, <2>1 DEF EngineInv, NoCallbackAfterClose, SameBut
<1>13. NoLostWakeup'
  <2>1. \A u \in Session : Running(u)' => Running(u)
    BY <1>1, <1>4, <1>8 DEF Running, SameBut
  <2>2. QED
    BY <1>1, <1>4, <2>1 DEF EngineInv, NoLostWakeup, Alone, SameBut, channels
<1>14. QED
  BY <1>7, <1>9, <1>10, <1>11, <1>12, <1>13 DEF EngineInv

(* A step of StartEngine on its own session s, whose goroutines have not been started.
   The other sessions stay as they are, and this one is not running yet. *)
LEMMA StartStep ==
    ASSUME EngineInv, NEW c \in Caller, caller[c].pc \in Starting,
           NEW s \in Session, s = caller[c].s, NEW r \in SessionRec,
           ses' = [ses EXCEPT ![s] = r], SesOK(r), ~ r.onStun,
           \/ r.dev # "none"
           \/ r = ses[s] /\ caller'[c].pc = "idle" /\ wgDevice' = wgDevice,
           r.dev = "closed" => r.rpc \in {"none", "exit"} \/ r = ses[s],
           caller' \in [Caller -> Calls],
           \/ caller'[c].pc \in Starting \ {"create"} /\ caller'[c].s = s
           \/ caller'[c].pc = "idle",
           \A d \in Caller \ {c} : caller'[d] = caller[d],
           opened' = opened, peerUpdateCh' = peerUpdateCh, status'.peerKey = status.peerKey,
           status'.peerAddr = status.peerAddr,
           \/ wgDevice' = wgDevice /\ stunBind' = stunBind
           \/ wgDevice' = s
    PROVE  /\ ses' \in [Session -> SessionRec]
           /\ CallerInv' /\ SessionInv' /\ KeyInv' /\ NoCallbackAfterClose' /\ NoLostWakeup'
<1>1. /\ ses' \in [Session -> SessionRec] /\ ses'[s] = r
      /\ \A u \in Session \ {s} : ses'[u] = ses[u]
  BY OneSession DEF EngineInv
<1>2. /\ s \in 1..opened /\ ~ ses[s].onStun
      /\ \A d \in Caller \ {c} : caller[d].pc \in Starting => caller[d].s \in Session \ {s}
  BY DEF EngineInv, CallerInv, TypeOK, Session
<1>3. CallerInv'
  <2>1. ASSUME NEW d \in Caller, caller'[d].pc \in Starting
        PROVE  /\ caller'[d].s \in 1..opened' /\ ~ ses'[caller'[d].s].onStun
               /\ caller'[d].pc = "create" <=> ses'[caller'[d].s].dev = "none"
    <3>1. CASE d = c
      BY <1>1, <1>2, <2>1, <3>1 DEF Starting
    <3>2. CASE d # c
      BY <1>1, <1>2, <2>1, <3>2 DEF EngineInv, CallerInv
    <3>3. QED
      BY <3>1, <3>2
  <2>2. \A d, e \in Caller : caller'[d].pc \in Starting /\ caller'[e].pc \in Starting
                              /\ caller'[d].s = caller'[e].s => d = e
    BY <1>2 DEF EngineInv, CallerInv, Starting
  <2>3. \A d \in Caller : caller'[d].pc = "close" => caller'[d].s \in Session
    BY DEF EngineInv, CallerInv, Starting
  <2>4. QED
    BY <2>1, <2>2, <2>3 DEF CallerInv
<1>4. SessionInv'
  <2>1. \A u \in Session : SesOK(ses'[u])
    BY <1>1 DEF EngineInv, SessionInv
  <2>2. \A u \in Session : u > opened' => ses'[u].dev = "none" /\ ~ ses'[u].onStun
    BY <1>1, <1>2 DEF EngineInv, SessionInv, TypeOK, Session
  <2>3. wgDevice' \in Session => ses'[wgDevice'].dev # "none"
    BY <1>1 DEF EngineInv, SessionInv
  <2>4. QED
    BY <2>1, <2>2, <2>3 DEF SessionInv
<1>5. r.lpc = "none" /\ ses[s].lpc = "none"
  BY <1>2 DEF EngineInv, SessionInv, SesOK
<1>6. KeyInv'
  BY <1>1, <1>5 DEF EngineInv, KeyInv
<1>7. NoCallbackAfterClose'
  <2>1. \A u \in Session : (\A d \in Caller : caller'[d] # [pc |-> "close", s |-> u])
                            => (\A d \in Caller : caller[d] # [pc |-> "close", s |-> u])
    BY DEF Starting
  <2>2. QED
    BY <1>1, <2>1 DEF EngineInv, NoCallbackAfterClose
<1>8. NoLostWakeup'
  <2>1. ~ Running(s)'
    BY <1>1 DEF Running
  <2>2. \A u \in Session \ {s} : Running(u)' => Running(u)
    BY <1>1 DEF Running
  <2>3. \A u \in Session \ {s} : Alone(u)' => Alone(u)
    BY <1>1, <1>5 DEF Alone
  <2>4. QED
    BY <1>1, <2>1, <2>2, <2>3 DEF EngineInv, NoLostWakeup
<1>9. QED
  BY <1>1, <1>3, <1>4, <1>6, <1>7, <1>8

LEMMA CreateDeviceInv ==
    ASSUME EngineInv, NEW c \in Caller, CreateDevice(c)
    PROVE  EngineInv'
<1>0. /\ caller[c].pc = "create" /\ "create" \in Starting
      /\ UNCHANGED <<globals, status, channels, opened, environment, published, fails>>
  BY DEF CreateDevice, Starting
<1>1. PICK s \in Session : s = caller[c].s /\ ses[s].dev = "none" /\ ~ ses[s].onStun
  BY <1>0 DEF EngineInv, CallerInv, TypeOK, Session
<1>2. ses[s] \in SessionRec /\ SesOK(ses[s]) /\ ses \in [Session -> SessionRec]
  BY DEF EngineInv, TypeOK, SessionInv
<1>3. CASE Return(c) /\ UNCHANGED ses
  <2>1. ses' = [ses EXCEPT ![s] = ses[s]]
    BY <1>2, <1>3
  <2>2. /\ caller' \in [Caller -> Calls] /\ caller'[c].pc = "idle"
        /\ \A d \in Caller \ {c} : caller'[d] = caller[d]
    BY <1>3, Returned DEF EngineInv
  <2>3. PICK r \in SessionRec : r = ses[s]
    BY <1>2
  <2>4. /\ ses' \in [Session -> SessionRec]
        /\ CallerInv' /\ SessionInv' /\ KeyInv' /\ NoCallbackAfterClose' /\ NoLostWakeup'
    BY <1>0, <1>1, <1>2, <2>1, <2>2, <2>3, StartStep DEF globals, channels
  <2>5. QED
    BY <1>0, <2>2, <2>4 DEF EngineInv, TypeOK, Calls, globals, channels, environment
<1>4. CASE ses' = [ses EXCEPT ![s].dev = "new"] /\ caller' = [caller EXCEPT ![c].pc = "install"]
  <2>1. PICK r : r = [ses[s] EXCEPT !.dev = "new"]
    OBVIOUS
  <2>2. r \in SessionRec /\ SesOK(r) /\ r.dev = "new" /\ ~ r.onStun
    BY <1>1, <1>2, <2>1 DEF SessionRec, SesOK
  <2>3. ses' = [ses EXCEPT ![s] = r]
    BY <1>4, <2>1
  <2>4. /\ caller' \in [Caller -> Calls] /\ caller'[c].pc = "install" /\ caller'[c].s = s
        /\ \A d \in Caller \ {c} : caller'[d] = caller[d]
    BY <1>1, <1>4, Advanced DEF EngineInv
  <2>5. /\ ses' \in [Session -> SessionRec]
        /\ CallerInv' /\ SessionInv' /\ KeyInv' /\ NoCallbackAfterClose' /\ NoLostWakeup'
    BY <1>0, <1>1, <2>2, <2>3, <2>4, StartStep DEF globals, channels, Starting
  <2>6. QED
    BY <1>0, <2>4, <2>5 DEF EngineInv, TypeOK, Calls, globals, channels, environment
<1>5. QED
  BY <1>1, <1>3, <1>4 DEF CreateDevice

LEMMA InstallDeviceInv ==
    ASSUME EngineInv, NEW c \in Caller, InstallDevice(c)
    PROVE  EngineInv'
<1>0. /\ caller[c].pc = "install" /\ "install" \in Starting
      /\ UNCHANGED <<muHolder, tunReady, cancelFn, stunAddr, channels, opened, ses, environment,
                     published, fails>>
  BY DEF InstallDevice, Starting
<1>1. PICK s \in Session : s = caller[c].s /\ ses[s].dev # "none" /\ ~ ses[s].onStun
  BY <1>0 DEF EngineInv, CallerInv, TypeOK, Session
<1>2. ses[s] \in SessionRec /\ SesOK(ses[s]) /\ ses \in [Session -> SessionRec]
      /\ status \in Status /\ s \in 0..MaxSession
  BY DEF EngineInv, TypeOK, SessionInv, Session
<1>3. /\ wgDevice' = s /\ stunBind' = s
      /\ status' = [status EXCEPT !.state = "CONNECTING", !.restart = FALSE]
      /\ caller' = [caller EXCEPT ![c].pc = "up"]
  BY <1>1 DEF InstallDevice
<1>4. status' \in Status /\ status'.peerKey = status.peerKey /\ status'.peerAddr = status.peerAddr
  BY <1>2, <1>3 DEF Status
<1>5. PICK r \in SessionRec : r = ses[s] /\ ses' = [ses EXCEPT ![s] = r]
  BY <1>0, <1>2
<1>6. /\ caller' \in [Caller -> Calls] /\ caller'[c].pc = "up" /\ caller'[c].s = s
      /\ \A d \in Caller \ {c} : caller'[d] = caller[d]
  BY <1>1, <1>3, Advanced DEF EngineInv
<1>7. /\ ses' \in [Session -> SessionRec]
      /\ CallerInv' /\ SessionInv' /\ KeyInv' /\ NoCallbackAfterClose' /\ NoLostWakeup'
  BY <1>0, <1>1, <1>2, <1>3, <1>4, <1>5, <1>6, StartStep DEF channels, Starting
<1>8. TypeOK'
  BY <1>0, <1>2, <1>3, <1>4, <1>6, <1>7 DEF EngineInv, TypeOK, Calls, channels, environment
<1>9. QED
  BY <1>7, <1>8 DEF EngineInv

LEMMA BringUpInv ==
    ASSUME EngineInv, NEW c \in Caller, BringUp(c)
    PROVE  EngineInv'
<1>0. /\ caller[c].pc = "up" /\ "up" \in Starting
      /\ UNCHANGED <<globals, status, channels, opened, environment, published, fails>>
  BY DEF BringUp, Starting
<1>1. PICK s \in Session : s = caller[c].s /\ ses[s].dev # "none" /\ ~ ses[s].onStun
  BY <1>0 DEF EngineInv, CallerInv, TypeOK, Session
<1>2. ses[s] \in SessionRec /\ SesOK(ses[s]) /\ ses \in [Session -> SessionRec]
  BY DEF EngineInv, TypeOK, SessionInv
<1>3. PICK r \in SessionRec :
        /\ ses' = [ses EXCEPT ![s] = r] /\ SesOK(r) /\ r.dev # "none" /\ ~ r.onStun
        /\ r.dev = "closed" => r.rpc \in {"none", "exit"} \/ r = ses[s]
  <2>1. CASE ses[s].dev = "closed" /\ UNCHANGED ses
    <3>1. ses' = [ses EXCEPT ![s] = ses[s]]
      BY <1>2, <2>1
    <3>2. QED
      BY <1>1, <1>2, <3>1
  <2>2. CASE ses[s].dev = "new" /\ ses' = [ses EXCEPT ![s].dev = "up", ![s].rpc = "recv"]
    <3>1. PICK r : r = [ses[s] EXCEPT !.dev = "up", !.rpc = "recv"]
      OBVIOUS
    <3>2. r \in SessionRec /\ SesOK(r) /\ r.dev = "up" /\ ~ r.onStun
      BY <1>1, <1>2, <3>1, ZenonT(40) DEF SessionRec, SesOK
    <3>3. ses' = [ses EXCEPT ![s] = r]
      BY <2>2, <3>1
    <3>4. QED
      BY <3>2, <3>3
  <2>3. CASE ses[s].dev = "new" /\ ses' = [ses EXCEPT ![s].dev = "closed"]
    <3>1. PICK r : r = [ses[s] EXCEPT !.dev = "closed"]
      OBVIOUS
    <3>2. r \in SessionRec /\ SesOK(r) /\ r.dev = "closed" /\ ~ r.onStun /\ r.rpc = "none"
      BY <1>1, <1>2, <2>3, <3>1 DEF SessionRec, SesOK
    <3>3. ses' = [ses EXCEPT ![s] = r]
      BY <2>3, <3>1
    <3>4. QED
      BY <3>2, <3>3
  <2>4. QED
    BY <1>1, <2>1, <2>2, <2>3 DEF BringUp
<1>4. /\ caller' \in [Caller -> Calls]
      /\ (caller'[c].pc = "spawn" /\ caller'[c].s = s) \/ caller'[c].pc = "idle"
      /\ \A d \in Caller \ {c} : caller'[d] = caller[d]
  <2>1. CASE caller' = [caller EXCEPT ![c].pc = "spawn"]
    BY <1>1, <2>1, Advanced DEF EngineInv
  <2>2. CASE Return(c)
    BY <2>2, Returned DEF EngineInv
  <2>3. QED
    BY <2>1, <2>2 DEF BringUp
<1>5. /\ ses' \in [Session -> SessionRec]
      /\ CallerInv' /\ SessionInv' /\ KeyInv' /\ NoCallbackAfterClose' /\ NoLostWakeup'
  BY <1>0, <1>1, <1>3, <1>4, StartStep DEF globals, channels, Starting
<1>6. QED
  BY <1>0, <1>4, <1>5 DEF EngineInv, TypeOK, Calls, globals, channels, environment

\* The goroutines of the session start; no other has any when it is alone.
LEMMA SpawnLoopsInv ==
    ASSUME EngineInv, NEW c \in Caller, SpawnLoops(c)
    PROVE  EngineInv'
<1>0. /\ caller[c].pc = "spawn" /\ "spawn" \in Starting /\ Return(c)
      /\ UNCHANGED <<muHolder, tunReady, status, cancelFn, wgDevice, stunBind, channels, opened,
                     environment, published>>
  BY DEF SpawnLoops, Starting
<1>1. PICK s \in Session : s = caller[c].s /\ ses[s].dev # "none" /\ ~ ses[s].onStun
                           /\ s \in 1..opened
  BY <1>0 DEF EngineInv, CallerInv, TypeOK, Session
<1>2. ses[s] \in SessionRec /\ SesOK(ses[s]) /\ ses \in [Session -> SessionRec]
  BY DEF EngineInv, TypeOK, SessionInv
<1>3. PICK r : r = [ses[s] EXCEPT !.onStun = TRUE, !.lpc = "stream", !.fresh = TRUE,
                                  !.apc = "select", !.hpc = "request"]
  OBVIOUS
<1>4. r \in SessionRec
  BY <1>2, <1>3 DEF SessionRec
<1>5. /\ r.onStun = TRUE /\ r.lpc = "stream" /\ r.apc = "select" /\ r.dev = ses[s].dev
      /\ r.rpc = ses[s].rpc
  BY <1>2, <1>3 DEF SessionRec
<1>6. /\ ses' \in [Session -> SessionRec] /\ ses'[s] = r
      /\ \A u \in Session \ {s} : ses'[u] = ses[u]
  <2>1. ses' = [ses EXCEPT ![s] = r]
    BY <1>1, <1>3 DEF SpawnLoops
  <2>2. QED
    BY <1>4, <2>1, OneSession DEF EngineInv
<1>7. /\ caller' \in [Caller -> Calls] /\ caller'[c].pc = "idle"
      /\ \A d \in Caller \ {c} : caller'[d] = caller[d]
  BY <1>0, Returned DEF EngineInv
<1>8. TypeOK'
  <2>1. stunAddr' \in BOOLEAN
    BY DEF SpawnLoops, EngineInv, TypeOK
  <2>2. fails' \in 0..MaxFail
    BY SessionAssumption DEF SpawnLoops, EngineInv, TypeOK
  <2>3. QED
    BY <1>0, <1>6, <1>7, <2>1, <2>2 DEF EngineInv, TypeOK, Calls, channels, environment
<1>9. CallerInv'
  <2>1. \A d \in Caller \ {c} : caller[d].pc \in Starting => caller[d].s \in Session \ {s}
    BY <1>0, <1>1 DEF EngineInv, CallerInv, TypeOK, Session
  <2>2. QED
    BY <1>0, <1>6, <1>7, <2>1 DEF EngineInv, CallerInv, Starting
<1>10. SessionInv'
  <2>1. SesOK(r)
    BY <1>2, <1>5 DEF SesOK
  <2>2. \A u \in Session : SesOK(ses'[u])
    BY <1>6, <2>1 DEF EngineInv, SessionInv
  <2>3. \A u \in Session : u > opened' => ses'[u].dev = "none" /\ ~ ses'[u].onStun
    BY <1>0, <1>1, <1>6 DEF EngineInv, SessionInv, TypeOK, Session
  <2>4. wgDevice' \in Session => ses'[wgDevice'].dev # "none"
    BY <1>0, <1>1, <1>5, <1>6 DEF EngineInv, SessionInv
  <2>5. QED
    BY <2>2, <2>3, <2>4 DEF SessionInv
<1>11. KeyInv'
  BY <1>5, <1>6 DEF KeyInv
<1>12. NoCallbackAfterClose'
  <2>1. \A u \in Session : (\A d \in Caller : caller'[d] # [pc |-> "close", s |-> u])
                            => (\A d \in Caller : caller[d] # [pc |-> "close", s |-> u])
    BY <1>0, <1>7
  <2>2. QED
    BY <1>5, <1>6, <2>1 DEF EngineInv, NoCallbackAfterClose
<1>13. NoLostWakeup'
  <2>1. ses[s].lpc = "none"
    BY <1>1, <1>2 DEF SesOK
  <2>2. Alone(s)' => ~ status'.peerKey
    BY <1>0, <1>6, <2>1 DEF EngineInv, KeyInv, Alone
  <2>3. \A u \in Session \ {s} : ~ Alone(u)'
    BY <1>5, <1>6 DEF Alone
  <2>4. QED
    BY <2>2, <2>3 DEF NoLostWakeup
<1>14. QED
  BY <1>8, <1>9, <1>10, <1>11, <1>12, <1>13 DEF EngineInv

\* StopEngine cancels the session and closes the device, or finds none to close.
LEMMA StopEngineInv ==
    ASSUME EngineInv, NEW c \in Caller, StopEngine(c)
    PROVE  EngineInv'
<1>0. /\ caller[c].pc = "idle"
      /\ UNCHANGED <<tunReady, cancelFn, channels, opened, environment, published, fails>>
  BY DEF StopEngine
<1>2. PICK f \in [Session -> SessionRec] :
        /\ f = Cancelled(ses, cancelFn)
        /\ \A u \in Session : SameBut(ses[u], f[u])
  <2>0. PICK x : x = cancelFn
    OBVIOUS
  <2>1. PICK f : f = Cancelled(ses, x)
    OBVIOUS
  <2>2. f \in [Session -> SessionRec] /\ \A u \in Session : SameBut(ses[u], f[u])
    BY <2>1, CancelledFacts DEF EngineInv
  <2>3. QED
    BY <2>0, <2>1, <2>2
<1>3. CASE DeviceOpen
  <2>1. PICK w \in Session : w = wgDevice /\ ses[w].dev \notin {"closed", "none"}
    BY <1>3 DEF DeviceOpen, EngineInv, SessionInv
  <2>2. /\ ses' = [f EXCEPT ![w].dev = "closed"] /\ muHolder' = c
        /\ caller' = [caller EXCEPT ![c] = [pc |-> "close", s |-> w]]
        /\ UNCHANGED <<status, wgDevice, stunBind, stunAddr>>
    BY <1>2, <1>3, <2>1 DEF StopEngine
  <2>3. PICK r : r = [f[w] EXCEPT !.dev = "closed"]
    OBVIOUS
  <2>4. /\ r \in SessionRec /\ r.dev = "closed" /\ r.onStun = ses[w].onStun
        /\ r.lpc = ses[w].lpc /\ r.apc = ses[w].apc /\ r.aaddr = ses[w].aaddr
        /\ r.applied = ses[w].applied
    BY <1>2, <2>3 DEF SessionRec, SameBut
  <2>5. /\ ses' \in [Session -> SessionRec] /\ ses'[w] = r
        /\ \A u \in Session \ {w} : SameBut(ses[u], ses'[u])
    <3>1. ses' = [f EXCEPT ![w] = r]
      BY <2>2, <2>3
    <3>2. QED
      BY <1>2, <2>4, <3>1
  <2>6. [pc |-> "close", s |-> w] \in Calls
    BY SessionAssumption DEF Calls, Session
  <2>7. /\ caller' \in [Caller -> Calls] /\ caller'[c] = [pc |-> "close", s |-> w]
        /\ \A d \in Caller \ {c} : caller'[d] = caller[d]
    BY <2>2, <2>6, CallerMoves DEF EngineInv
  <2>8. TypeOK'
    BY <1>0, <2>2, <2>5, <2>7 DEF EngineInv, TypeOK, Calls, channels, environment
  <2>9. CallerInv'
    <3>1. \A u \in Session : /\ ses'[u].onStun = ses[u].onStun
                             /\ ses'[u].dev = "none" <=> ses[u].dev = "none"
      BY <2>1, <2>4, <2>5 DEF SameBut
    <3>2. \A d \in Caller : caller[d].pc \in Starting => caller[d].s \in Session
      BY DEF EngineInv, CallerInv, TypeOK, Session
    <3>3. caller'[c].pc = "close" /\ caller'[c].s = w /\ "close" \notin Starting
      BY <2>7 DEF Starting
    <3>4. QED
      BY <1>0, <2>7, <3>1, <3>2, <3>3 DEF EngineInv, CallerInv
  <2>10. SessionInv'
    <3>1. SesOK(r)
      BY <2>4 DEF EngineInv, SessionInv, SesOK
    <3>2. \A u \in Session \ {w} : SesOK(ses'[u])
      BY <2>5 DEF EngineInv, SessionInv, SesOK, SameBut
    <3>3. \A u \in Session : u > opened' => ses'[u].dev = "none" /\ ~ ses'[u].onStun
      BY <1>0, <2>1, <2>5 DEF EngineInv, SessionInv, SameBut
    <3>4. wgDevice' \in Session => ses'[wgDevice'].dev # "none"
      BY <2>1, <2>2, <2>4, <2>5
    <3>5. QED
      BY <2>5, <3>1, <3>2, <3>3, <3>4 DEF SessionInv
  <2>11. KeyInv'
    <3>1. \A u \in Session : ses'[u].lpc = ses[u].lpc
      BY <2>4, <2>5 DEF SameBut
    <3>2. QED
      BY <2>2, <3>1 DEF EngineInv, KeyInv
  <2>12. NoCallbackAfterClose'
    <3>1. \A u \in Session : (\A d \in Caller : caller'[d] # [pc |-> "close", s |-> u])
                              => u # w /\ (\A d \in Caller : caller[d] # [pc |-> "close", s |-> u])
      BY <1>0, <2>7
    <3>2. QED
      BY <2>5, <3>1 DEF EngineInv, NoCallbackAfterClose, SameBut
  <2>13. NoLostWakeup'
    <3>1. \A u \in Session : ~ Running(u)'
      BY <2>1, <2>2, <2>4, <2>5 DEF Running
    <3>2. QED
      BY <3>1 DEF NoLostWakeup
  <2>14. QED
    BY <2>8, <2>9, <2>10, <2>11, <2>12, <2>13 DEF EngineInv
<1>4. CASE ~ DeviceOpen
  <2>1. ses' = f /\ ClearEngine /\ caller' = caller
    BY <1>2, <1>4 DEF StopEngine
  <2>2. /\ wgDevice' = 0 /\ stunBind' = 0 /\ stunAddr' = FALSE /\ status' = Disconnected
        /\ muHolder' = NoOne
    BY <2>1 DEF ClearEngine
  <2>3. Disconnected \in Status /\ Disconnected.peerKey = FALSE
    BY DEF Disconnected, Status, MaybeAddr
  <2>4. TypeOK'
    <3>1. wgDevice' \in 0..MaxSession /\ stunBind' \in 0..MaxSession
      BY <2>2, SessionAssumption
    <3>2. QED
      BY <1>0, <1>2, <2>1, <2>2, <2>3, <3>1 DEF EngineInv, TypeOK, channels, environment
  <2>5. CallerInv'
    <3>1. \A d \in Caller : caller[d].pc \in Starting => caller[d].s \in Session
      BY DEF EngineInv, CallerInv, TypeOK, Session
    <3>2. QED
      BY <1>0, <1>2, <2>1, <3>1 DEF EngineInv, CallerInv, SameBut
  <2>6. SessionInv'
    <3>1. \A u \in Session : SesOK(ses'[u])
      BY <1>2, <2>1 DEF EngineInv, SessionInv, SesOK, SameBut
    <3>2. wgDevice' \notin Session
      BY <2>2 DEF Session
    <3>3. QED
      BY <1>0, <1>2, <2>1, <3>1, <3>2 DEF EngineInv, SessionInv, SameBut
  <2>7. KeyInv' /\ NoLostWakeup'
    BY <2>2, <2>3 DEF KeyInv, NoLostWakeup
  <2>8. NoCallbackAfterClose'
    BY <1>2, <2>1 DEF EngineInv, NoCallbackAfterClose, SameBut
  <2>9. QED
    BY <2>4, <2>5, <2>6, <2>7, <2>8 DEF EngineInv
<1>5. QED
  BY <1>3, <1>4

\* Device.Close has returned: the receiver of the device it closed has ended.
LEMMA FinishStopInv ==
    ASSUME EngineInv, NEW c \in Caller, FinishStop(c)
    PROVE  EngineInv'
<1>0. /\ caller[c].pc = "close" /\ ses[caller[c].s].rpc \in {"none", "exit"}
      /\ ClearEngine /\ Return(c)
      /\ UNCHANGED <<tunReady, cancelFn, channels, opened, ses, environment, published, fails>>
  BY DEF FinishStop
<1>1. /\ wgDevice' = 0 /\ stunBind' = 0 /\ stunAddr' = FALSE /\ status' = Disconnected
      /\ muHolder' = NoOne
  BY <1>0 DEF ClearEngine
<1>2. Disconnected \in Status /\ Disconnected.peerKey = FALSE
  BY DEF Disconnected, Status, MaybeAddr
<1>3. /\ caller' \in [Caller -> Calls] /\ caller'[c].pc = "idle"
      /\ \A d \in Caller \ {c} : caller'[d] = caller[d]
  BY <1>0, Returned DEF EngineInv
<1>4. TypeOK'
  <2>1. wgDevice' \in 0..MaxSession /\ stunBind' \in 0..MaxSession
    BY <1>1, SessionAssumption
  <2>2. QED
    BY <1>0, <1>1, <1>2, <1>3, <2>1 DEF EngineInv, TypeOK, Calls, channels, environment
<1>5. CallerInv'
  BY <1>0, <1>3 DEF EngineInv, CallerInv, Starting
<1>6. SessionInv'
  <2>1. wgDevice' \notin Session
    BY <1>1 DEF Session
  <2>2. QED
    BY <1>0, <2>1 DEF EngineInv, SessionInv
<1>7. KeyInv' /\ NoLostWakeup'
  BY <1>1, <1>2 DEF KeyInv, NoLostWakeup
<1>8. NoCallbackAfterClose'
  <2> SUFFICES ASSUME NEW u \in Session, ses'[u].dev = "closed",
                      \A d \in Caller : caller'[d] # [pc |-> "close", s |-> u]
               PROVE  ses'[u].rpc \in {"none", "exit"}
    BY DEF NoCallbackAfterClose
  <2>1. CASE u = caller[c].s
    BY <1>0, <2>1
  <2>2. CASE u # caller[c].s
    <3>1. \A d \in Caller : caller[d] # [pc |-> "close", s |-> u]
      BY <1>3, <2>2
    <3>2. QED
      BY <1>0, <3>1 DEF EngineInv, NoCallbackAfterClose
  <2>3. QED
    BY <2>1, <2>2
<1>9. QED
  BY <1>4, <1>5, <1>6, <1>7, <1>8 DEF EngineInv

LEMMA EngineInvariant == Spec => []EngineInv
<1>1. EngineInv /\ [Next]_vars => EngineInv'
  <2> SUFFICES ASSUME EngineInv, [Next]_vars PROVE EngineInv'
    OBVIOUS
  <2>1. ASSUME NEW c \in Caller, Call(c) \/ CallerStep(c) PROVE EngineInv'
    BY <2>1, NotifyInv, StartEngineInv, StopEngineInv, CreateDeviceInv, InstallDeviceInv,
       BringUpInv, SpawnLoopsInv, FinishStopInv DEF Call, CallerStep
  <2>2. ASSUME NEW s \in Session, Listener(s) \/ Applier(s) \/ Heartbeat(s) \/ Receiver(s)
                                    \/ UnknownPacket(s) \/ StreamReconnects(s)
        PROVE  EngineInv'
    BY <2>2, ListenerInv, ApplierInv, HeartbeatInv, ReceiverInv, EnvironmentInv
  <2>3. QED
    BY <2>1, <2>2, EnvironmentInv DEF Next
<1>2. QED
  BY <1>1, EngineInit, PTL DEF Spec

(* Once Device.Close has returned no callback of the closed device runs: StopEngine waits
   with mu locked until the receiver has ended (closeBindLocked, RoutineReceiveIncoming),
   a device that could not be brought up never had one, and a receiver that has ended is
   not started again, in whatever order callers start and stop sessions. *)
THEOREM CallbacksEnd == Spec => []NoCallbackAfterClose
<1>1. EngineInv => NoCallbackAfterClose
  BY DEF EngineInv
<1>2. QED
  BY <1>1, EngineInvariant, PTL

(* Between listenPeerEndpoint and applyWireGuardConfig of the first session no wake-up is
   lost, however often the record of the peer changes and whatever other callers do. *)
THEOREM WakeupsArrive == Spec => []NoLostWakeup
<1>1. EngineInv => NoLostWakeup
  BY DEF EngineInv
<1>2. QED
  BY <1>1, EngineInvariant, PTL

\* Types of the engine: the two wake-up channels hold at most one token.
THEOREM EngineTypes == Spec => []TypeOK
<1>1. EngineInv => TypeOK
  BY DEF EngineInv
<1>2. QED
  BY <1>1, EngineInvariant, PTL
=============================================================================

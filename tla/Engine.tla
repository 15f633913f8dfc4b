------------------------------- MODULE Engine -------------------------------
(***************************************************************************)
(* The Android VPN engine, wireguard-go/vpnengine.go.                      *)
(*                                                                         *)
(* The exported functions work on package variables guarded by one mutex,  *)
(* mu.  A successful StartEngine opens a session: a context, a WireGuard   *)
(* device and four goroutines, the heartbeat, the listener of the peer's   *)
(* record, the applier of the peer's endpoint and the receiver of the      *)
(* device.  The goroutines of a session outlive the call that cancels it,  *)
(* and all sessions share the status map and the two wake-up channels.     *)
(*                                                                         *)
(* A step between two lock operations is one action; every critical        *)
(* section is one action, except that of StopEngine, which keeps mu while  *)
(* it waits for the receiver of the device.                                *)
(***************************************************************************)
EXTENDS Naturals

CONSTANTS Caller,       \* threads of the app that call the exported functions
          Stopper,      \* the callers that may call StopEngine
          Addr,         \* public ip:port pairs
          NoAddr,       \* the empty string of a missing status entry
          NoOne,        \* mu is not held across steps
          MaxSession,   \* bound: calls of StartEngine that open a session
          MaxEvent,     \* bound: events of the environment (see the end of the module)
          MaxFail       \* bound: failing PUTs to Firebase and name lookups

ASSUME AddrAssumption == NoAddr \notin Addr
ASSUME CallerAssumption == NoOne \notin Caller /\ Stopper \subseteq Caller
ASSUME SessionAssumption == MaxSession \in Nat /\ MaxEvent \in Nat /\ MaxFail \in Nat

Session == 1..MaxSession

VARIABLES muHolder,     \* the caller that waits in StopEngine with mu locked
          tunReady,     \* tunFd > 0
          status,       \* the status map
          cancelFn,     \* the session whose context cancelFn cancels, 0 for nil
          wgDevice,     \* the session of the global device, 0 for nil
          stunBind,     \* the session of the global bind, 0 for nil
          stunAddr,     \* the address of the STUN server was resolved
          peerUpdateCh, \* tokens in the channel of capacity 1
          forceStunCh,  \* tokens in the channel of capacity 1
          caller,       \* caller[c]: its next step and session
          opened,       \* sessions opened so far
          ses,          \* ses[s]: context, device and goroutines of a session
          mapped,       \* this device's address as the STUN server sees it
          published,    \* this device's record in Firebase
          remote,       \* the peer's record in Firebase
          events, fails  \* counters for the bounds

vars == <<muHolder, tunReady, status, cancelFn, wgDevice, stunBind, stunAddr, peerUpdateCh,
          forceStunCh, caller, opened, ses, mapped, published, remote, events, fails>>

environment == <<mapped, remote, events>>

\* an address changes, a packet or a callback arrives, a stream breaks
Event == events < MaxEvent /\ events' = events + 1
globals == <<muHolder, tunReady, cancelFn, wgDevice, stunBind, stunAddr>>
channels == <<peerUpdateCh, forceStunCh>>

MaybeAddr == Addr \cup {NoAddr}

Status == [state : {"DISCONNECTED", "TUN_READY", "CONNECTING", "CONNECTED"},
           restart : BOOLEAN, peerAddr : MaybeAddr, peerKey : BOOLEAN, ownAddr : MaybeAddr]

\* lpc, apc, hpc, rpc: the next step of the listener, applier, heartbeat and
\* receiver; laddr, aaddr, raddr: the address each of them holds in a local variable
SessionRec ==
    [ctx : {"none", "live", "cancelled"}, dev : {"none", "new", "up", "closed"},
     onStun : BOOLEAN, once : BOOLEAN, applied : MaybeAddr,
     fresh : BOOLEAN, reply : MaybeAddr,
     lpc : {"none", "stream", "store", "signal", "exit"}, laddr : MaybeAddr,
     apc : {"none", "select", "read", "ipc", "report", "exit"}, aaddr : MaybeAddr,
     hpc : {"none", "request", "select", "exit"},
     rpc : {"none", "recv", "stun", "put", "unknown", "exit"}, raddr : MaybeAddr]

TypeOK ==
    /\ muHolder \in Caller \cup {NoOne}
    /\ tunReady \in BOOLEAN /\ stunAddr \in BOOLEAN
    /\ status \in Status
    /\ cancelFn \in 0..MaxSession /\ wgDevice \in 0..MaxSession /\ stunBind \in 0..MaxSession
    /\ peerUpdateCh \in 0..1 /\ forceStunCh \in 0..1
    /\ caller \in [Caller -> [pc : {"idle", "create", "install", "up", "spawn", "close"},
                              s : 0..MaxSession]]
    /\ opened \in 0..MaxSession
    /\ ses \in [Session -> SessionRec]
    /\ mapped \in Addr /\ published \in MaybeAddr /\ remote \in MaybeAddr
    /\ events \in 0..MaxEvent /\ fails \in 0..MaxFail

Disconnected == [state |-> "DISCONNECTED", restart |-> FALSE, peerAddr |-> NoAddr,
                 peerKey |-> FALSE, ownAddr |-> NoAddr]

NoSession == [ctx |-> "none", dev |-> "none", onStun |-> FALSE, once |-> FALSE,
              applied |-> NoAddr, fresh |-> FALSE, reply |-> NoAddr,
              lpc |-> "none", laddr |-> NoAddr, apc |-> "none", aaddr |-> NoAddr,
              hpc |-> "none", rpc |-> "none", raddr |-> NoAddr]

Init ==
    /\ muHolder = NoOne /\ tunReady = FALSE /\ stunAddr = FALSE
    /\ status = Disconnected
    /\ cancelFn = 0 /\ wgDevice = 0 /\ stunBind = 0
    /\ peerUpdateCh = 0 /\ forceStunCh = 0
    /\ caller = [c \in Caller |-> [pc |-> "idle", s |-> 0]]
    /\ opened = 0
    /\ ses = [s \in Session |-> NoSession]
    /\ mapped \in Addr /\ published = NoAddr /\ remote \in MaybeAddr
    /\ events = 0 /\ fails = 0

MuFree == muHolder = NoOne

Return(c) == caller' = [caller EXCEPT ![c] = [pc |-> "idle", s |-> 0]]

\* cancelFn(): the context of session s is done
Cancelled(f, s) == [u \in Session |-> IF u = s THEN [f[u] EXCEPT !.ctx = "cancelled"] ELSE f[u]]

(* Names with a suffix (FinishStop_...) are faulty variants: they show which *)
(* property notices the fault and are not used by the specification.       *)

-----------------------------------------------------------------------------
(* The exported functions.                                                 *)

SubmitTunFd(c) ==
    /\ caller[c].pc = "idle" /\ MuFree
    /\ tunReady' = TRUE
    /\ status' = [status EXCEPT !.state = "TUN_READY"]
    /\ UNCHANGED <<muHolder, cancelFn, wgDevice, stunBind, stunAddr, channels, caller, opened,
                   ses, environment, published, fails>>

\* StartEngine up to the first unlock; without a TUN descriptor it returns -2
StartEngine(c) ==
    LET s == opened + 1 IN
    /\ caller[c].pc = "idle" /\ MuFree /\ tunReady /\ opened < MaxSession
    /\ opened' = s
    /\ ses' = [Cancelled(ses, cancelFn) EXCEPT ![s].ctx = "live"]
    /\ cancelFn' = s
    /\ caller' = [caller EXCEPT ![c] = [pc |-> "create", s |-> s]]
    /\ UNCHANGED <<muHolder, tunReady, status, wgDevice, stunBind, stunAddr, channels,
                   environment, published, fails>>

\* CreateUnmonitoredTUNFromFD fails (-3), or NewDevice makes the device
CreateDevice(c) ==
    LET s == caller[c].s IN
    /\ caller[c].pc = "create"
    /\ \/ Return(c) /\ UNCHANGED ses
       \/ /\ ses' = [ses EXCEPT ![s].dev = "new"]
          /\ caller' = [caller EXCEPT ![c].pc = "install"]
    /\ UNCHANGED <<globals, status, channels, opened, environment, published, fails>>

\* the second critical section of StartEngine
InstallDevice(c) ==
    LET s == caller[c].s IN
    /\ caller[c].pc = "install" /\ MuFree
    /\ wgDevice' = s /\ stunBind' = s
    /\ status' = [status EXCEPT !.state = "CONNECTING", !.restart = FALSE]
    /\ caller' = [caller EXCEPT ![c].pc = "up"]
    /\ UNCHANGED <<muHolder, tunReady, cancelFn, stunAddr, channels, opened, ses, environment,
                   published, fails>>

\* IpcSet and Up: a device that StopEngine closed in the meantime ignores both;
\* one that cannot be brought up is closed (-5, -6)
BringUp(c) ==
    LET s == caller[c].s IN
    /\ caller[c].pc = "up"
    /\ \/ /\ ses[s].dev = "closed" /\ UNCHANGED ses
          /\ caller' = [caller EXCEPT ![c].pc = "spawn"]
       \/ /\ ses[s].dev = "new"
          /\ ses' = [ses EXCEPT ![s].dev = "up", ![s].rpc = "recv"]
          /\ caller' = [caller EXCEPT ![c].pc = "spawn"]
       \/ /\ ses[s].dev = "new"
          /\ ses' = [ses EXCEPT ![s].dev = "closed"]
          /\ Return(c)
    /\ UNCHANGED <<globals, status, channels, opened, environment, published, fails>>

\* StartEngine installs the STUN callback, resolves the server and starts the goroutines
SpawnLoops(c) ==
    LET s == caller[c].s IN
    /\ caller[c].pc = "spawn"
    /\ ses' = [ses EXCEPT ![s].onStun = TRUE, ![s].lpc = "stream", ![s].fresh = TRUE,
                          ![s].apc = "select", ![s].hpc = "request"]
    /\ \/ stunAddr' = TRUE /\ UNCHANGED fails
       \/ fails < MaxFail /\ fails' = fails + 1 /\ UNCHANGED stunAddr
    /\ Return(c)
    /\ UNCHANGED <<muHolder, tunReady, status, cancelFn, wgDevice, stunBind, channels, opened,
                   environment, published>>

\* what StopEngine assigns after the device is closed, and the unlock
ClearEngine ==
    /\ wgDevice' = 0 /\ stunBind' = 0 /\ stunAddr' = FALSE
    /\ status' = Disconnected
    /\ muHolder' = NoOne

DeviceOpen == \E s \in Session : s = wgDevice /\ ses[s].dev # "closed"

\* StopEngine: Device.Close closes the sockets and waits for the receivers with mu locked
StopEngine(c) ==
    /\ c \in Stopper /\ caller[c].pc = "idle" /\ MuFree
    /\ \/ /\ DeviceOpen
          /\ ses' = [Cancelled(ses, cancelFn) EXCEPT ![wgDevice].dev = "closed"]
          /\ muHolder' = c
          /\ caller' = [caller EXCEPT ![c] = [pc |-> "close", s |-> wgDevice]]
          /\ UNCHANGED <<status, wgDevice, stunBind, stunAddr>>
       \/ /\ ~DeviceOpen
          /\ ses' = Cancelled(ses, cancelFn)
          /\ ClearEngine
          /\ UNCHANGED caller
    /\ UNCHANGED <<tunReady, cancelFn, channels, opened, environment, published, fails>>

FinishStop_NoWait(c) ==
    /\ caller[c].pc = "close"
    /\ ClearEngine
    /\ Return(c)
    /\ UNCHANGED <<tunReady, cancelFn, channels, opened, ses, environment, published, fails>>

\* closeBindLocked: stopping.Wait returns when RoutineReceiveIncoming has returned
FinishStop(c) ==
    /\ caller[c].pc = "close"
    /\ ses[caller[c].s].rpc \in {"none", "exit"}
    /\ ClearEngine
    /\ Return(c)
    /\ UNCHANGED <<tunReady, cancelFn, channels, opened, ses, environment, published, fails>>

NotifyNetworkChanged(c) ==
    /\ caller[c].pc = "idle"
    /\ Event
    /\ forceStunCh' = 1
    /\ UNCHANGED <<globals, status, peerUpdateCh, caller, opened, ses, mapped, remote, published, fails>>

-----------------------------------------------------------------------------
(* listenPeerEndpoint: reads an event, stores it, signals the applier.     *)

ListenerRead_Forever(s) ==
    /\ ses[s].lpc = "stream" /\ ses[s].fresh
    /\ ses' = [ses EXCEPT ![s].fresh = FALSE, ![s].laddr = remote,
                          ![s].lpc = IF remote = NoAddr THEN "stream" ELSE "store"]
    /\ UNCHANGED <<globals, status, channels, caller, opened, environment, published, fails>>

\* an event of the stream, or the end of the loop once the context is done
ListenerRead(s) ==
    /\ ses[s].lpc = "stream"
    /\ \/ /\ ses[s].ctx = "cancelled"
          /\ ses' = [ses EXCEPT ![s].lpc = "exit"]
       \/ /\ ses[s].fresh
          /\ ses' = [ses EXCEPT ![s].fresh = FALSE, ![s].laddr = remote,
                                ![s].lpc = IF remote = NoAddr THEN "stream" ELSE "store"]
    /\ UNCHANGED <<globals, status, channels, caller, opened, environment, published, fails>>

ListenerStore_Silent(s) ==
    /\ ses[s].lpc = "store" /\ MuFree
    /\ status' = [status EXCEPT !.peerAddr = ses[s].laddr, !.peerKey = TRUE]
    /\ ses' = [ses EXCEPT ![s].lpc = "stream", ![s].laddr = NoAddr]
    /\ UNCHANGED <<globals, channels, caller, opened, environment, published, fails>>

ListenerStore(s) ==
    LET new == [status EXCEPT !.peerAddr = ses[s].laddr, !.peerKey = TRUE] IN
    /\ ses[s].lpc = "store" /\ MuFree
    /\ status' = new
    /\ ses' = [ses EXCEPT ![s].lpc = IF new = status THEN "stream" ELSE "signal",
                          ![s].laddr = NoAddr]
    /\ UNCHANGED <<globals, channels, caller, opened, environment, published, fails>>

ListenerSignal_Unbounded(s) ==
    /\ ses[s].lpc = "signal"
    /\ peerUpdateCh' = peerUpdateCh + 1
    /\ ses' = [ses EXCEPT ![s].lpc = "stream"]
    /\ UNCHANGED <<globals, status, forceStunCh, caller, opened, environment, published, fails>>

\* the send never blocks: a full channel keeps its token
ListenerSignal(s) ==
    /\ ses[s].lpc = "signal"
    /\ peerUpdateCh' = 1
    /\ ses' = [ses EXCEPT ![s].lpc = "stream"]
    /\ UNCHANGED <<globals, status, forceStunCh, caller, opened, environment, published, fails>>

-----------------------------------------------------------------------------
(* The applier goroutine of StartEngine and applyWireGuardConfig.          *)

\* select: with both channels ready either case may be taken
ApplierDone(s) ==
    /\ ses[s].apc = "select" /\ ses[s].ctx = "cancelled"
    /\ ses' = [ses EXCEPT ![s].apc = "exit"]
    /\ UNCHANGED <<globals, status, channels, caller, opened, environment, published, fails>>

ApplierWake(s) ==
    /\ ses[s].apc = "select"
    /\ peerUpdateCh = 1 /\ peerUpdateCh' = 0
    /\ ses' = [ses EXCEPT ![s].apc = "read"]
    /\ UNCHANGED <<globals, status, forceStunCh, caller, opened, environment, published, fails>>

ApplierRead(s) ==
    /\ ses[s].apc = "read" /\ MuFree
    /\ ses' = IF status.peerAddr # NoAddr /\ status.peerKey
                 THEN [ses EXCEPT ![s].apc = "ipc", ![s].aaddr = status.peerAddr]
                 ELSE [ses EXCEPT ![s].apc = "select"]
    /\ UNCHANGED <<globals, status, channels, caller, opened, environment, published, fails>>

\* IpcSet fails on a closed device
ApplierIpcSet(s) ==
    /\ ses[s].apc = "ipc"
    /\ \/ /\ ses[s].dev = "closed"
          /\ ses' = [ses EXCEPT ![s].apc = "select", ![s].aaddr = NoAddr]
       \/ /\ ses[s].dev = "up"
          /\ ses' = [ses EXCEPT ![s].applied = ses[s].aaddr, ![s].apc = "report"]
    /\ UNCHANGED <<globals, status, channels, caller, opened, environment, published, fails>>

\* updateStatus writes the address that was applied back into the status map
ApplierReport(s) ==
    /\ ses[s].apc = "report" /\ MuFree
    /\ status' = [status EXCEPT !.state = "CONNECTED", !.peerAddr = ses[s].aaddr]
    /\ ses' = [ses EXCEPT ![s].apc = "select", ![s].aaddr = NoAddr]
    /\ UNCHANGED <<globals, channels, caller, opened, environment, published, fails>>

-----------------------------------------------------------------------------
(* heartbeatLoop.                                                          *)

\* requestStunBinding sends on the global bind, whatever session the loop belongs to
HeartbeatRequest(s) ==
    /\ ses[s].hpc = "request" /\ MuFree
    /\ ses' = [u \in Session |->
                [ses[u] EXCEPT !.hpc = IF u = s THEN "select" ELSE @,
                               !.reply = IF u = stunBind /\ stunAddr /\ ses[u].dev = "up"
                                           THEN mapped ELSE @]]
    /\ UNCHANGED <<globals, status, channels, caller, opened, environment, published, fails>>

HeartbeatDone(s) ==
    /\ ses[s].hpc = "select" /\ ses[s].ctx = "cancelled"
    /\ ses' = [ses EXCEPT ![s].hpc = "exit"]
    /\ UNCHANGED <<globals, status, channels, caller, opened, environment, published, fails>>

\* the ticker fires, or there is a token of NotifyNetworkChanged
HeartbeatWake(s) ==
    /\ ses[s].hpc = "select"
    /\ forceStunCh' \in {0, forceStunCh}
    /\ ses' = [ses EXCEPT ![s].hpc = "request"]
    /\ UNCHANGED <<globals, status, peerUpdateCh, caller, opened, environment, published, fails>>

-----------------------------------------------------------------------------
(* RoutineReceiveIncoming with the callbacks of the engine.                *)

\* recv returns net.ErrClosed or a STUN response
ReceiverRecv(s) ==
    /\ ses[s].rpc = "recv"
    /\ \/ /\ ses[s].dev = "closed"
          /\ ses' = [ses EXCEPT ![s].rpc = "exit"]
       \/ /\ ses[s].dev = "up" /\ ses[s].reply # NoAddr
          /\ ses' = IF ses[s].onStun
                       THEN [ses EXCEPT ![s].reply = NoAddr, ![s].raddr = ses[s].reply,
                                        ![s].rpc = "stun"]
                       ELSE [ses EXCEPT ![s].reply = NoAddr]
    /\ UNCHANGED <<globals, status, channels, caller, opened, environment, published, fails>>

\* recv returns a packet of unknown type: restartOnce lets the first one through
UnknownPacket(s) ==
    /\ ses[s].rpc = "recv" /\ ses[s].dev = "up" /\ ~ses[s].once
    /\ Event
    /\ ses' = [ses EXCEPT ![s].once = TRUE, ![s].rpc = "unknown"]
    /\ UNCHANGED <<globals, status, channels, caller, opened, mapped, remote, published, fails>>

\* UnknownPacketHandler: updateStatus, once per session
ReceiverUnknown(s) ==
    /\ ses[s].rpc = "unknown" /\ MuFree
    /\ status' = [status EXCEPT !.restart = TRUE]
    /\ ses' = [ses EXCEPT ![s].rpc = "recv"]
    /\ UNCHANGED <<globals, channels, caller, opened, environment, published, fails>>

\* updateLocalEndpoint remembers the address before it is written to Firebase
ReceiverStun(s) ==
    /\ ses[s].rpc = "stun" /\ MuFree
    /\ status' = [status EXCEPT !.ownAddr = ses[s].raddr]
    /\ ses' = IF status.ownAddr = ses[s].raddr
                 THEN [ses EXCEPT ![s].rpc = "recv", ![s].raddr = NoAddr]
                 ELSE [ses EXCEPT ![s].rpc = "put"]
    /\ UNCHANGED <<globals, channels, caller, opened, environment, published, fails>>

\* writeEndpointToFirebase: the error of a PUT is logged and forgotten
ReceiverPut(s) ==
    /\ ses[s].rpc = "put"
    /\ \/ published' = ses[s].raddr /\ UNCHANGED fails
       \/ fails < MaxFail /\ fails' = fails + 1 /\ UNCHANGED published
    /\ ses' = [ses EXCEPT ![s].rpc = "recv", ![s].raddr = NoAddr]
    /\ UNCHANGED <<globals, status, channels, caller, opened, environment>>

-----------------------------------------------------------------------------
(* The environment.                                                        *)

\* the NAT gives this device another public address
OwnAddressChanges ==
    /\ Event
    /\ \E x \in Addr \ {mapped} : mapped' = x
    /\ UNCHANGED <<globals, status, channels, caller, opened, ses, published, remote, fails>>

\* the peer writes its record; every open stream will deliver the event
PeerPublishes ==
    /\ Event
    /\ \E x \in Addr \ {remote} : remote' = x
    /\ ses' = [s \in Session |-> [ses[s] EXCEPT !.fresh = @ \/ ses[s].lpc \notin {"none", "exit"}]]
    /\ UNCHANGED <<globals, status, channels, caller, opened, mapped, published, fails>>

\* the stream breaks and the listener connects again: it is sent the record anew
StreamReconnects(s) ==
    /\ ses[s].lpc = "stream" /\ ses[s].ctx = "live" /\ ~ses[s].fresh
    /\ Event
    /\ ses' = [ses EXCEPT ![s].fresh = TRUE]
    /\ UNCHANGED <<globals, status, channels, caller, opened, mapped, remote, published, fails>>

-----------------------------------------------------------------------------

CallerStep(c) == CreateDevice(c) \/ InstallDevice(c) \/ BringUp(c) \/ SpawnLoops(c) \/ FinishStop(c)
Call(c) == SubmitTunFd(c) \/ StartEngine(c) \/ StopEngine(c) \/ NotifyNetworkChanged(c)
Listener(s) == ListenerRead(s) \/ ListenerStore(s) \/ ListenerSignal(s)
Applier(s) == ApplierDone(s) \/ ApplierWake(s) \/ ApplierRead(s) \/ ApplierIpcSet(s) \/ ApplierReport(s)
Heartbeat(s) == HeartbeatRequest(s) \/ HeartbeatDone(s) \/ HeartbeatWake(s)
Receiver(s) == ReceiverRecv(s) \/ ReceiverUnknown(s) \/ ReceiverStun(s) \/ ReceiverPut(s)

Next ==
    \/ \E c \in Caller : Call(c) \/ CallerStep(c)
    \/ \E s \in Session : Listener(s) \/ Applier(s) \/ Heartbeat(s) \/ Receiver(s)
                          \/ UnknownPacket(s) \/ StreamReconnects(s)
    \/ OwnAddressChanges
    \/ PeerPublishes

Spec == Init /\ [][Next]_vars

\* Go and Android schedule every runnable thread, HTTP requests end by their
\* timeout, the ticker ticks, streams and the STUN server deliver, and a select that
\* is often ready takes each of its cases in the end.  Nobody is bound to call, and
\* nothing in the environment is bound to change.
Fairness ==
    /\ \A c \in Caller : WF_vars(CallerStep(c))
    /\ \A s \in Session : /\ WF_vars(Listener(s)) /\ WF_vars(Applier(s))
                          /\ WF_vars(Heartbeat(s)) /\ WF_vars(Receiver(s))
                          /\ SF_vars(HeartbeatDone(s)) /\ SF_vars(ApplierDone(s))

FairSpec == Spec /\ Fairness

-----------------------------------------------------------------------------
(* Properties.                                                             *)

\* the session is established and nobody has stopped or replaced it
Running(s) ==
    /\ ses[s].ctx = "live" /\ ses[s].dev = "up" /\ ses[s].onStun
    /\ wgDevice = s /\ stunBind = s

\* no other session has started its goroutines
Alone(s) == \A u \in Session \ {s} : ses[u].lpc = "none"

\* No lost wake-up between the listener and the applier of the first session: while the
\* endpoint in the status map is not the one the device uses, a token or a step that
\* will see it is on its way.  Later sessions share the channel with the appliers of
\* stopped ones, which may take the token.
NoLostWakeup ==
    \A s \in Session :
        Running(s) /\ Alone(s) /\ status.peerKey
          /\ status.peerAddr \notin {NoAddr, ses[s].applied} =>
            \/ peerUpdateCh = 1
            \/ ses[s].lpc = "signal"
            \/ ses[s].apc \in {"read", "ipc", "report"}

\* Once Device.Close has returned no callback of the closed device runs, so a late
\* STUN response or unknown packet cannot change the status of the next session.
NoCallbackAfterClose ==
    \A s \in Session :
        ses[s].dev = "closed" /\ (\A c \in Caller : caller[c] # [pc |-> "close", s |-> s])
            => ses[s].rpc \in {"none", "exit"}

\* The loops of a session that StartEngine has replaced or StopEngine has cancelled come
\* to an end, or a call of StopEngine has mu: it takes mu once for a session, so this is
\* one that never returns (StopReturns).
LoopsEnd ==
    \A s \in Session :
        (ses[s].ctx = "cancelled" /\ ses[s].lpc # "none") ~>
            \/ ses[s].lpc = "exit" /\ ses[s].apc = "exit" /\ ses[s].hpc = "exit"
            \/ ~MuFree

\* The address the STUN server sees is in the end the one Firebase has, if the server was
\* found and the address and the session last: an address that differs from the last
\* published one is published.
PublishConverges ==
    \A s \in Session, x \in Addr :
        <>[](Running(s) /\ stunAddr /\ mapped = x) => <>[](published = x)

\* The endpoint the peer published last is in the end the one the device sends to,
\* if it and the session last.
PeerConverges ==
    \A s \in Session, x \in Addr :
        <>[](Running(s) /\ remote = x) => <>[](ses[s].applied = x)

\* A call of StopEngine returns.
StopReturns == \A c \in Caller : caller[c].pc = "close" ~> caller[c].pc = "idle"

=============================================================================

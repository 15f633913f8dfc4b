------------------------------- MODULE Config -------------------------------
(***************************************************************************)
(* Configuration and state of a device: the set operation of               *)
(* device/uapi.go, line by line, while the device goes up and down and is  *)
(* closed (changeState, Close, BindUpdate, SetPrivateKey of                *)
(* device/device.go; NewPeer, Start and Stop of device/peer.go).           *)
(*                                                                         *)
(* A peer is named by its public key: one that was removed has been        *)
(* stopped and has no routes.  The routes are the abstract table that      *)
(* AllowedIPs implements.  The source of events of the TUN device is one   *)
(* goroutine; ipcMutex and the lock of the state are explicit, the other   *)
(* locks are held within one step.                                         *)
(***************************************************************************)
EXTENDS Naturals, FiniteSets, Functions

CONSTANTS Key,        \* public keys
          Cidr,       \* prefixes
          NoKey,
          MaxPeers

ASSUME ConfigBounds ==
  /\ MaxPeers \in Nat /\ NoKey \notin Key
  /\ "dummy" \notin Key /\ "nil" \notin Key

VARIABLES dstate,     \* device.state.state
          stateMu,    \* who holds the lock of the state: "change", "close" or "free"
          ipcMutex,   \* "set" or "free"
          ownKey,     \* staticIdentity.publicKey
          keyMap,     \* the peers: [running, endpoint, clearSrc]
          allowed,    \* the allowed IPs
          sock,       \* the UDP sockets: closed, open, or open and read by receivers
          fwmark,     \* whether a mark is set
          setter,     \* the set operation: [at, sel, created, next, sawUp]
          changer,    \* where changeState is
          closer,     \* where Close is
          unfinished, \* history: peers whose set failed before handlePostConfig
          late        \* history: peers that handlePostConfig started after Down

configVars == <<dstate, stateMu, ipcMutex, ownKey, keyMap, allowed, sock, fwmark, setter,
                changer, closer, unfinished, late>>

Dummy == "dummy"
NoPeer == "nil"
NoSet == [at |-> "idle", sel |-> NoPeer, created |-> FALSE, next |-> NoPeer, sawUp |-> FALSE]

isUp == dstate = "up"
isClosed == dstate = "closed"

-----------------------------------------------------------------------------
(* Peers *)
markEndpointSrcForClearing(peer) ==
  IF peer.endpoint THEN [peer EXCEPT !.clearSrc = TRUE] ELSE peer

MarkAll(peers) == [k \in DOMAIN peers |-> markEndpointSrcForClearing(peers[k])]

Start(peers, K) == [k \in DOMAIN peers |->
                      [peers[k] EXCEPT !.running = @ \/ (k \in K /\ ~ isClosed)]]
StopAll(peers) == [k \in DOMAIN peers |-> [peers[k] EXCEPT !.running = FALSE]]

NewPeerFails == isClosed \/ Cardinality(DOMAIN keyMap) >= MaxPeers
WithPeer(k) ==
  [q \in DOMAIN keyMap \cup {k} |->
     IF q = k THEN [running |-> FALSE, endpoint |-> FALSE, clearSrc |-> FALSE] ELSE keyMap[q]]

(* removePeerLocked: routes first, then the peer. *)
RoutesWithout(K) == Restrict(allowed, {p \in DOMAIN allowed : allowed[p] \notin K})
removePeerLocked(K) ==
  /\ keyMap' = Restrict(keyMap, DOMAIN keyMap \ K)
  /\ allowed' = RoutesWithout(K)

RemovePeer(k) == removePeerLocked({k})
RemoveAllPeers == removePeerLocked(DOMAIN keyMap)

-----------------------------------------------------------------------------
(* Sockets.  BindUpdate closes them, and opens new ones when the device is up. *)
BindUpdate(ok) ==
  \/ ok /\ ~ isUp /\ sock' = "closed" /\ UNCHANGED keyMap
  \/ ok /\ isUp /\ sock' = "read" /\ keyMap' = MarkAll(keyMap)
  \* closing, opening or the route listener fails
  \/ ~ ok /\ sock' = "closed" /\ UNCHANGED keyMap
  \* the mark cannot be set: the sockets stay open and nobody reads them
  \/ ~ ok /\ isUp /\ fwmark /\ sock' = "open" /\ UNCHANGED keyMap

BindClose == sock' = "closed"

(* BindSetMark *)
BindSetMark(mark, ok) ==
  /\ fwmark' = mark
  /\ ok \/ (mark # fwmark /\ isUp)
  /\ keyMap' = IF ok /\ mark # fwmark THEN MarkAll(keyMap) ELSE keyMap
  /\ UNCHANGED sock

-----------------------------------------------------------------------------
(* The set operation *)
SetUnchanged == UNCHANGED <<dstate, stateMu, changer, closer>>

IpcSet ==
  /\ setter.at = "idle" /\ ipcMutex = "free"
  /\ ipcMutex' = "set" /\ setter' = [NoSet EXCEPT !.at = "device"]
  /\ SetUnchanged /\ UNCHANGED <<ownKey, keyMap, allowed, sock, fwmark, unfinished, late>>

(* An error ends the operation: handlePostConfig is not called. *)
Fails ==
  /\ setter' = NoSet /\ ipcMutex' = "free"
  /\ unfinished' = IF setter.sel \in Key THEN unfinished \cup {setter.sel} ELSE unfinished
  /\ UNCHANGED late

Continues == UNCHANGED <<setter, ipcMutex, unfinished, late>>

InvalidLine ==
  /\ setter.at \in {"device", "peer"}
  /\ Fails
  /\ SetUnchanged /\ UNCHANGED <<ownKey, keyMap, allowed, sock, fwmark>>

(* handleDeviceLine, private_key: SetPrivateKey removes the peer with this key. *)
SetPrivateKey_KeepPeer(k) == ownKey' = k /\ UNCHANGED <<keyMap, allowed>>
SetPrivateKey(k) ==
  /\ ownKey' = k
  /\ IF k \in DOMAIN keyMap THEN RemovePeer(k) ELSE UNCHANGED <<keyMap, allowed>>

PrivateKeyLine(k) ==
  /\ setter.at = "device"
  /\ SetPrivateKey(k) /\ Continues
  /\ SetUnchanged /\ UNCHANGED <<sock, fwmark>>

(* handleDeviceLine, listen_port *)
ListenPortLine(ok) ==
  /\ setter.at = "device"
  /\ BindUpdate(ok)
  /\ IF ok THEN Continues ELSE Fails
  /\ SetUnchanged /\ UNCHANGED <<ownKey, allowed, fwmark>>

(* handleDeviceLine, fwmark *)
FwmarkLine(mark, ok) ==
  /\ setter.at = "device"
  /\ BindSetMark(mark, ok)
  /\ IF ok THEN Continues ELSE Fails
  /\ SetUnchanged /\ UNCHANGED <<ownKey, allowed>>

(* handleDeviceLine, replace_peers *)
ReplacePeersLine ==
  /\ setter.at = "device"
  /\ RemoveAllPeers /\ Continues
  /\ SetUnchanged /\ UNCHANGED <<ownKey, sock, fwmark>>

(* The next public_key line, or the end of the input: first handlePostConfig for the
   peer so far.  It asks whether the device is up and then starts the peer; Down
   does not wait for it. *)
PostConfig(next) ==
  /\ setter.at \in {"device", "peer"}
  /\ setter' = [setter EXCEPT !.at = "post", !.next = next, !.sawUp = isUp]
  /\ SetUnchanged
  /\ UNCHANGED <<ipcMutex, ownKey, keyMap, allowed, sock, fwmark, unfinished, late>>

(* The peer that handlePostConfig starts *)
Starts_Created == IF setter.sawUp /\ setter.created /\ setter.sel \in DOMAIN keyMap
                  THEN {setter.sel} ELSE {}
Starts == IF setter.sawUp /\ setter.sel \in DOMAIN keyMap THEN {setter.sel} ELSE {}

(* handlePostConfig ends, and handlePublicKeyLine takes the next peer: a dummy for the
   device's own key, the peer with this key, or a new one. *)
handlePublicKeyLine ==
  LET k == setter.next
      started == Start(keyMap, Starts)
  IN  /\ setter.at = "post"
      /\ late' = IF isUp THEN late ELSE late \cup Starts
      /\ IF k = NoPeer \/ (k # ownKey /\ k \notin DOMAIN keyMap /\ NewPeerFails)
         THEN /\ keyMap' = started
              /\ setter' = NoSet /\ ipcMutex' = "free"
         ELSE /\ keyMap' = IF k \in {ownKey} \cup DOMAIN keyMap THEN started
                           ELSE [q \in DOMAIN WithPeer(k) |->
                                   IF q = k THEN WithPeer(k)[k] ELSE started[q]]
              /\ setter' = [NoSet EXCEPT !.at = "peer",
                                         !.sel = IF k = ownKey THEN Dummy ELSE k,
                                         !.created = k # ownKey /\ k \notin DOMAIN keyMap]
              /\ UNCHANGED ipcMutex
      /\ unfinished' = unfinished \ {setter.sel}
      /\ SetUnchanged /\ UNCHANGED <<ownKey, allowed, sock, fwmark>>

(* handlePeerLine, update_only and remove: the peer becomes a dummy. *)
RemoveLine(updateOnly) ==
  /\ setter.at = "peer"
  /\ setter' = IF updateOnly /\ ~ setter.created THEN setter
               ELSE [setter EXCEPT !.sel = Dummy]
  /\ IF setter.sel \in Key /\ (setter.created \/ ~ updateOnly)
     THEN RemovePeer(setter.sel)
     ELSE UNCHANGED <<keyMap, allowed>>
  /\ SetUnchanged
  /\ UNCHANGED <<ipcMutex, ownKey, sock, fwmark, unfinished, late>>

(* handlePeerLine, endpoint *)
EndpointLine ==
  /\ setter.at = "peer"
  /\ keyMap' = IF setter.sel \in Key THEN [keyMap EXCEPT ![setter.sel].endpoint = TRUE]
               ELSE keyMap
  /\ Continues
  /\ SetUnchanged /\ UNCHANGED <<ownKey, allowed, sock, fwmark>>

(* handlePeerLine, replace_allowed_ips *)
ReplaceAllowedLine ==
  /\ setter.at = "peer"
  /\ allowed' = IF setter.sel \in Key THEN RoutesWithout({setter.sel}) ELSE allowed
  /\ Continues
  /\ SetUnchanged /\ UNCHANGED <<ownKey, keyMap, sock, fwmark>>

(* handlePeerLine, allowed_ip *)
AllowedLine(p, add) ==
  /\ setter.at = "peer"
  /\ allowed' =
       CASE setter.sel = Dummy -> allowed
         [] setter.sel # Dummy /\ add ->
              [q \in DOMAIN allowed \cup {p} |-> IF q = p THEN setter.sel ELSE allowed[q]]
         [] setter.sel # Dummy /\ ~ add ->
              Restrict(allowed, {q \in DOMAIN allowed : q # p \/ allowed[q] # setter.sel})
  /\ Continues
  /\ SetUnchanged /\ UNCHANGED <<ownKey, keyMap, sock, fwmark>>

-----------------------------------------------------------------------------
(* changeState *)
ChangeUnchanged == UNCHANGED <<ipcMutex, ownKey, allowed, fwmark, setter, closer>>

Up ==
  /\ stateMu = "free" /\ dstate = "down"
  /\ stateMu' = "change" /\ dstate' = "up" /\ changer' = "bind"
  /\ ChangeUnchanged /\ UNCHANGED <<keyMap, sock, unfinished, late>>

(* upLocked binds; on failure the device goes down again. *)
UpBinds(ok) ==
  /\ changer = "bind"
  /\ BindUpdate(ok)
  /\ changer' = IF ok THEN "peers" ELSE "unbind"
  /\ dstate' = IF ok THEN "up" ELSE "down"
  /\ ChangeUnchanged /\ UNCHANGED <<stateMu, unfinished, late>>

(* upLocked waits for a set operation and starts the peers. *)
UpMayStart == ipcMutex = "free"

UpStartsPeers ==
  /\ changer = "peers" /\ UpMayStart
  /\ keyMap' = Start(keyMap, DOMAIN keyMap)
  /\ changer' = "idle" /\ stateMu' = "free"
  /\ unfinished' = {} /\ UNCHANGED <<dstate, sock, late>>
  /\ ChangeUnchanged

Down ==
  /\ stateMu = "free" /\ dstate = "up"
  /\ stateMu' = "change" /\ dstate' = "down" /\ changer' = "unbind"
  /\ ChangeUnchanged /\ UNCHANGED <<keyMap, sock, unfinished, late>>

(* downLocked *)
DownUnbinds ==
  /\ changer = "unbind"
  /\ BindClose /\ changer' = "stop"
  /\ ChangeUnchanged /\ UNCHANGED <<dstate, stateMu, keyMap, unfinished, late>>

DownStopsPeers ==
  /\ changer = "stop"
  /\ keyMap' = StopAll(keyMap) /\ late' = {}
  /\ changer' = "idle" /\ stateMu' = "free"
  /\ ChangeUnchanged /\ UNCHANGED <<dstate, sock, unfinished>>

(* Close takes the two locks, in the order of upLocked; nothing else runs then. *)
CloseLocks ==
  /\ closer = "idle" /\ stateMu = "free"
  /\ closer' = "locked" /\ stateMu' = "close"
  /\ UNCHANGED <<dstate, ipcMutex, ownKey, keyMap, allowed, sock, fwmark, setter, changer,
                 unfinished, late>>

Close ==
  /\ closer = "locked" /\ ipcMutex = "free"
  /\ dstate' = "closed" /\ BindClose /\ RemoveAllPeers
  /\ closer' = "done" /\ stateMu' = "free"
  /\ late' = {} /\ unfinished' = {}
  /\ UNCHANGED <<ipcMutex, ownKey, fwmark, setter, changer>>

(* SetEndpointFromPacket, for an authenticated packet, which may have been queued
   before the sockets were closed, and SendBuffers *)
SetEndpointFromPacket(k) ==
  /\ keyMap' = [keyMap EXCEPT ![k].endpoint = TRUE, ![k].clearSrc = FALSE]
  /\ UNCHANGED <<dstate, stateMu, ipcMutex, ownKey, allowed, sock, fwmark, setter, changer,
                 closer, unfinished, late>>

SendBuffers(k) ==
  /\ ~ isClosed /\ keyMap[k].endpoint
  /\ keyMap' = [keyMap EXCEPT ![k].clearSrc = FALSE]
  /\ UNCHANGED <<dstate, stateMu, ipcMutex, ownKey, allowed, sock, fwmark, setter, changer,
                 closer, unfinished, late>>

-----------------------------------------------------------------------------
ConfigInit ==
  /\ dstate = "down" /\ stateMu = "free" /\ ipcMutex = "free"
  /\ ownKey = NoKey /\ keyMap = <<>> /\ allowed = <<>>
  /\ sock = "closed" /\ fwmark = FALSE
  /\ setter = NoSet /\ changer = "idle" /\ closer = "idle"
  /\ unfinished = {} /\ late = {}

ConfigNext ==
  \/ IpcSet \/ InvalidLine \/ ReplacePeersLine
  \/ \E k \in Key \cup {NoKey} : PrivateKeyLine(k)
  \/ \E ok, mark \in BOOLEAN : ListenPortLine(ok) \/ FwmarkLine(mark, ok) \/ UpBinds(ok)
  \/ \E k \in Key \cup {NoPeer} : PostConfig(k)
  \/ handlePublicKeyLine \/ EndpointLine \/ ReplaceAllowedLine
  \/ \E b \in BOOLEAN : RemoveLine(b) \/ \E p \in Cidr : AllowedLine(p, b)
  \/ Up \/ UpStartsPeers \/ Down \/ DownUnbinds \/ DownStopsPeers
  \/ CloseLocks \/ Close
  \/ \E k \in DOMAIN keyMap : SetEndpointFromPacket(k) \/ SendBuffers(k)

ConfigSpec == ConfigInit /\ [][ConfigNext]_configVars

-----------------------------------------------------------------------------
(* The get operation: the peers with their allowed IPs *)
IpcGetOperation ==
  [k \in DOMAIN keyMap |-> {p \in DOMAIN allowed : allowed[p] = k}]

(* Types; a source address is to be cleared only for a known endpoint. *)
ConfigTypeOK ==
  /\ dstate \in {"down", "up", "closed"} /\ sock \in {"closed", "open", "read"}
  /\ DOMAIN keyMap \subseteq Key /\ Cardinality(DOMAIN keyMap) <= MaxPeers
  /\ \A k \in DOMAIN keyMap : keyMap[k].clearSrc => keyMap[k].endpoint
  /\ unfinished \subseteq Key /\ late \subseteq Key

(* The device is never its own peer, whatever order its key and its peers are
   configured in. *)
NotItsOwnPeer == ownKey \notin DOMAIN keyMap

(* Every route belongs to a peer of the device, and a get shows it: no line of a set
   leaves a route to a peer that the same set has removed. *)
RoutesHavePeers == UNION {IpcGetOperation[k] : k \in DOMAIN keyMap} = DOMAIN allowed

(* When nothing is in progress and the device is up, every peer runs, however Up and
   the set operations interleave, except those whose set has failed. *)
UpRunsPeers ==
  isUp /\ changer = "idle" /\ setter.at = "idle" =>
    \A k \in DOMAIN keyMap : keyMap[k].running \/ k \in unfinished

(* Up does not start a peer in the middle of the set operation that creates it. *)
StartedConfigured ==
  setter.at = "peer" /\ setter.created /\ setter.sel \in Key => ~ keyMap[setter.sel].running

(* A device that is not up has closed its sockets once Down is through, and no peer
   runs but one whose handlePostConfig had seen the device up. *)
DownIsQuiet ==
  ~ isUp /\ changer = "idle" =>
    /\ sock = "closed"
    /\ \A k \in DOMAIN keyMap : keyMap[k].running => k \in late

(* Closed is final: no set operation brings back a peer, a route or a socket. *)
ClosedIsFinal == isClosed => keyMap = <<>> /\ allowed = <<>> /\ sock = "closed"

(* What a set operation leaves: no peer with the device's own key, no route without a
   peer, and no peer that runs before it is configured (handlePublicKeyLine,
   handlePeerLine, SetPrivateKey, removePeerLocked). *)
PeersConsistent == NotItsOwnPeer /\ RoutesHavePeers /\ StartedConfigured

(* The peers and the sockets follow the state of the device, in whatever order set
   operations, Up, Down and Close interleave (handlePostConfig, changeState, Close). *)
PeersFollowDevice == UpRunsPeers /\ DownIsQuiet /\ ClosedIsFinal
=============================================================================

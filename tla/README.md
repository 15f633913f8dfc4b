# OrbitX: TLA+ specifications

OrbitX joins two devices, a *master* and a *slave*, by a WireGuard tunnel. The
devices find each other with STUN (each learns its own public address) and a
Firebase record per device (each publishes its address and reads the other's).
The tunnel is a fork of `wireguard-go`, linked into an Android app as
`libvpnengine.so`.

This directory holds specifications of the parts of that system in which
goroutines, messages and failures interleave, and of the algorithms whose corner
cases tests hardly reach; TLC configurations for them; and TLAPS proofs of their safety
properties.

## 1. Inventory

| Component | Source | State | Operations | Interacts with |
|---|---|---|---|---|
| Noise handshake | `device/noise-protocol.go` | per peer: `handshake` (state, hash and chain key, indices, last timestamp) under `handshake.mutex` | Create/ConsumeMessageInitiation, Create/ConsumeMessageResponse, BeginSymmetricSession, ReceivedWithKeypair | index table, key pairs, network |
| Index table | `device/indextable.go` | map from a 32-bit index to a handshake or a keypair | NewIndexForHandshake, SwapIndexForKeypair, Delete, Lookup | handshake, receive path |
| Session keys | `device/keypair.go` | per peer: `previous`, `current`, `next` under `keypairs.Lock` | rotation, DeleteKeypair | send and receive path |
| Peer | `device/peer.go` | running flag, endpoint, queues, timers | Start, Stop, ZeroAndFlushAll, ExpireCurrentKeypairs | everything in `device` |
| Send path | `device/send.go` | staged queue, nonces, outbound queues | SendStagedPackets, SendKeepalive, RoutineEncryption, RoutineSequentialSender | keys, bind |
| Receive path | `device/receive.go`, `pools.go` | message buffers, handshake and inbound queues | RoutineReceiveIncoming, RoutineDecryption, RoutineHandshake, RoutineSequentialReceiver | bind, handshake, TUN |
| UDP bind | `conn/bind_std.go`, `gso_linux.go` | two sockets, offload flags, pooled messages, `OnStunPacket` | Open, Close, Send, receiveIP, SendStunPacket | receive path, engine callback |
| Timers | `device/timers.go` | five timers per peer, attempt counter | Mod, Del, DelSync, the expiry functions | handshake, send path, key erasure |
| Device | `device/device.go`, `channels.go` | down, up or closed; locks; reference-counted queues | Up, Down, Close, BindUpdate, SetPrivateKey, RemovePeer | all of `device`, engine |
| VPN engine | `vpnengine.go` | package variables under `mu`: TUN descriptor, device, status map, `cancelFn`; two wake-up channels | SubmitTunFd, StartEngine, StopEngine, notifyNetworkChanged, GetStatusJSON; listener, applier, heartbeat | device, bind callbacks, Firebase, STUN, Android |
| Android side | `HomeVpnService.kt`, `VpnBridge.kt`, `NetworkChangeReceiver.kt` | TUN descriptor, service threads | start and stop of the tunnel, restart | engine |
| Allowed IPs | `device/allowedips.go` | trie of prefixes | Insert, Remove, RemoveByPeer, Lookup | send and receive path |
| Cookies, rate limiter | `device/cookie.go`, `ratelimiter/` | secret and its age, cookie of a peer; token buckets, cleanup goroutine | CheckMAC1/2, CreateReply, ConsumeReply, AddMacs; Allow, cleanup, Close | RoutineHandshake |
| Replay filter | `replay/replay.go` | ring of words, last counter | ValidateCounter | RoutineSequentialReceiver |
| Timestamps | `tai64n/` | none | Now, After | handshake |
| Configuration | `device/uapi.go`, `ipc/` | `ipcMutex`, the peer selected by the lines so far | IpcSet (by lines), IpcGet | device, peers, allowed IPs |
| TUN device | `tun/tun_linux.go`, `offload_linux.go`, `rwcancel/` | descriptor, two listeners, channel of events; tables of flows and items | CreateTUN, Close, Read, Write, handleGRO, gsoSplit | kernel, device, send and receive path |
| Command-line node | `z/`, `cmd/orbitx`, `shared` | STUN client, polled peer record | Start, Stop, ProcessPacket, Rerun | device, Firebase |
| FRP wrapper | `frp/frpwrapper.go` | cancel functions and running flags | start, stop of server and client | Android |
| Power Present, Flutter app | `power_present/`, `lib/` | user interface, automation rules | - | engine through FFI |

What is hard here:

* A handshake message is checked under a read lock and applied under a write
  lock that is taken later. Any number of workers (one per CPU) handle messages.
* Indices move from a handshake to a keypair and are deleted at nine places.
* The network loses, repeats and reorders. A responder derives its key before it
  knows whether the response arrives.
* The engine's goroutines outlive the call that cancels them, share one status
  map and two channels, and call back into code that takes the mutex the caller
  of `Close` may hold.
* OrbitX changed `receiveIP` to take STUN packets out of a batch; the caller keeps
  two views of each buffer, an array and a slice.
* Packets are copied into one another's buffers before they are written, and cut
  up when they are read, in two places (TUN device, UDP socket), with a retry after
  a part has been sent.
* Up, Down, Close and a set operation hold different locks, and each asks for the
  state that another one is changing.
* What runs beside the data path (timers, the cleanup of the rate limiter, the
  listeners of the TUN device, the STUN and FRP clients) is stopped by flags and
  channels that others may be replacing.

What makes the parts correct: a lookup finds the owner of an index and no index
leaks; a peer's timestamp never goes back; both ends of a session hold it in
opposite roles; nobody sends on an unconfirmed session; one handshake gives one
session; no wake-up is lost; the published address and the configured peer
converge to the real ones; StopEngine returns; every buffer has one owner, and a
queued one is not overwritten; offload is invisible; the routing table is a
longest-prefix match and the replay filter a sliding window; only the owner of an
address is admitted under load, and no debt is forgotten; the peers follow the state
of the device; what is stopped ends.

## 2. Modules

| Module | Models | Used by |
|---|---|---|
| `Handshake` | handshake, index table, key rotation and erasure of any number of devices over an unreliable network | `MCHandshake` |
| `HandshakeProofs` | types, monotone timestamps and the agreement of the two ends of a session; the index table agrees with handshakes and keypairs | |
| `Engine` | the Android engine with its environment | `MCEngine`, `MCSessions` |
| `SendPath` | the queues, nonces and pooled elements of the way to one peer, with Start, Stop, Up, Down and Close | `MCSendPath` |
| `ReceivePath` | `receiveIP` and `RoutineReceiveIncoming` with their buffers | `MCReceivePath`, `MCBatches` |
| `TunOffload` | Write and Read of the Linux TUN device: coalescing and segmentation | `MCBatches` |
| `BindOffload` | the UDP sockets: Open, Close, Send and the splitting of a read | `MCBatches` |
| `Routes`, `AllowedIPs` | the routing table, abstract, and the trie that implements it | `MCDevice` |
| `ReplayWindow`, `ReplayFilter` | the sliding window, abstract, and the ring that implements it | `MCDevice` |
| `Cookie` | cookies: a device under load, its workers, a peer and the network | `MCDevice` |
| `Ratelimiter` | token buckets, workers, and the goroutine that removes buckets | `MCDevice` |
| `Config` | set operations against Up, Down, Close and packets | `MCDevice` |
| `PeerTimers` | the timers of a peer against Start and Stop | `MCLifecycles` |
| `TunDevice` | creation and Close of the TUN device, its listeners, the reader of its events | `MCLifecycles` |
| `FrpWrapper` | start and stop of the embedded FRP client | `MCLifecycles` |
| `StunClient` | start and stop of the STUN client of the command-line node | `MCLifecycles` |
| `Positions` | the positions a loop keeps, in order | `ReceivePath`, `TunOffload` |
| `SendPathProofs`, `EngineProofs` | proofs about the module of that name | |
| `SequenceProofs` | lemmas: least and greatest members, `InOrder`, flattened sequences, even cuts | `OffloadProofs`, `BatchesProofs`, `LifecycleProofs` |
| `OffloadProofs` | proofs about `TunOffload`: what Write coalesces, the kernel and Read cut up again | `BatchesProofs` |
| `BatchesProofs` | proofs about `ReceivePath` and `BindOffload`: what is received is evaluated, what is sent arrives; the types of `MCBatches` | |
| `DeviceProofs` | proofs about `Cookie`, `Ratelimiter` and `ReplayFilter` (what a message must pass before it counts), `Config`, and `AllowedIPs`, among them that it implements `Routes`; the types of `MCDevice` | |
| `LifecycleProofs` | proofs about `PeerTimers`, `FrpWrapper`, `TunDevice` and `StunClient`; the types of `MCLifecycles` | |

`MCBatches`, `MCDevice` and `MCLifecycles` check several components that share no
variables: an initial state, or the variable `subject`, says which one a behaviour
exercises, and the others stand still. The components meet through abstractions
instead: `Config` uses the table of `Routes`, `PeerTimers` sends what `Handshake` and
`SendPath` model, `Cookie` decides which messages reach `Handshake` (there, a message
that is refused is a lost one).

Names with a suffix after an underscore, such as `FreeIndex_Unchecked`, are
faulty variants of the definition that follows them. The specifications do not use
them; each shows a fault that a property notices.

### Handshake

The unit of interleaving is the critical section. A goroutine is a member of
`Thread` with a program counter `pc[t]` and what it holds, `job[t]`; between two
critical sections any other thread may run. `hs[d][p]` is `peer.handshake` of peer
`p` at device `d`, `slots[d][p]` is `peer.keypairs`, `table[d]` the index table.
`BeginSymmetricSession` holds `handshake.mutex` while it waits for
`keypairs.Lock`; it is two actions (`BeginSymmetricSession`, `RotateKeypairs`), and
`HandshakeFree` keeps other users of the mutex out between them.

Cryptography is symbolic: an ephemeral key is a number drawn once, the hash and
the chain key of a handshake are the ephemerals mixed into them, and a session
key is that pair. `net` holds every datagram ever sent. A datagram that is never
taken is lost; one that is taken twice was repeated. A message that the MAC, the
flood check or the rate limiter drops is a lost one.

`recent` stands for "less than `RekeyTimeout` since `lastSentHandshake`" and
`spent` for keypairs whose age or nonce forbids sending; the actions `RekeyTimeout`
and `Reject` are the passage of time. `clock[d]` may repeat a stamp: the code
whitens the nanoseconds of TAI64N, so two initiations may carry the same one.

| Code | Action |
|---|---|
| `SendHandshakeInitiation` | `SendHandshakeInitiation`, `StartInitiation`, then `CreateMessageInitiation` |
| `ConsumeMessageInitiation` | `CheckInitiation` (read lock), `ConsumeMessageInitiation` (write lock) |
| `SendHandshakeResponse` | `CreateMessageResponse`, `BeginSymmetricSession`, `RotateKeypairs` (sends) |
| `ConsumeMessageResponse` | `CheckResponse` (read lock), `ConsumeMessageResponse` (write lock) |
| `RoutineHandshake` after a response | `BeginSymmetricSession`, `RotateKeypairs`, `SendStagedPackets` (the keepalive) |
| `SendStagedPackets`, `SendKeepalive` | `StagePacket`, `SendStagedPackets` |
| receive of a transport message | `ReceiveTransport`, `ReceivedWithKeypair` |
| `ZeroAndFlushAll` | `ZeroAndFlushAll`, `ZeroHandshakeState` |
| `ExpireCurrentKeypairs` | `ExpireCurrentKeypairs`, `ExpireNonces` |

### Engine

`mu` is held across steps only by StopEngine, which waits in `Device.Close`; every
other critical section is one action with the guard `MuFree`. A successful
StartEngine is `StartEngine`, `CreateDevice`, `InstallDevice`, `BringUp`,
`SpawnLoops`, with anything in between. `ses[s]` holds the context, the device and
the four goroutines of session `s` (`lpc` listener, `apc` applier, `hpc` heartbeat,
`rpc` receiver) and their local variables. The status map keeps what the
goroutines tell apart: state, restart flag, peer address and key, own address. The
environment gives this device another address, lets the peer publish, breaks the
stream, delivers an unknown packet; the app may call any exported function at any
time. Return codes -1 and -2 of StartEngine change nothing and are left out.

`NoLostWakeup` is about a session that is `Alone`: none but the first. The channel
belongs to the package, and an applier of a stopped session that has not yet seen its
context cancelled may take the token meant for the next one. Nothing in the code
prevents it, and without `Alone` the property fails with two sessions.

`MCSessions` chooses between two scenes, so that one run covers a session that is stopped
and one that is replaced. `Within` leaves out calls of the app and events of the
environment, never a step that the code must take: it constrains no action for which
fairness is assumed.

### ReceivePath

One receive goroutine. `bufsArrs` are the arrays it owns and `bufs` the slices it
hands to `receiveIP`; `content[b]` is what buffer `b` holds. `receiveIP(batch)` reads
a batch, filters it and compacts the slices as the code does; `HandlePacket` is one
turn of the loop over the batch; `FlushBatch` gives the containers to the queues of
a running peer or returns their buffers; `Stop` is the return on a closed socket.
`InOrder(S)` lists positions in increasing order, as the loop with `writeIdx` visits
them: `Kept(batch)` are those the filter leaves. `moved` are the positions of the present
batch whose slice the filter has moved, and `astray` remembers that it did so in an earlier
batch. The filter moves a slice exactly when a STUN response or an empty datagram stands
before another packet; from there on the arrays hold something else than the slices, and
`ReceivedIntact` says that nothing before that point is affected. Of the two consumers of the
queues only the return of the buffer is modelled here; what they do with a packet is in
`Cookie`, `Handshake`, `SendPath` and `ReplayFilter`.
Elements of several peers are kept in one set, since the properties do not tell
peers apart.

### SendPath

One peer. The goroutines that send are `tun` (RoutineReadFromTUN), `Worker`
(RoutineHandshake, after a response), `Timer` (an expiry function), `Receiver`
(RoutineSequentialReceiver, after the first message of a session) and `ctl`, the
caller of Up, Down and Close. They all go through SendKeepalive or SendStagedPackets;
`pc[t]` is the step, `todo[t]`, `kept[t]` and `late[t]` are the elements without a
nonce yet, `elemsContainer` and `elemsContainerOOO`. Each channel operation, atomic
load, `Add` and `Store` is a step of its own.

A container is the sequence of its elements. Its mutex is locked by the goroutine
that numbered the elements and unlocked by an encryption worker, so `Unlocked(c)`
can be read off the encryption queue. `encryption` holds the containers in the
channel and those with a worker, since workers finish in any order. `writers` is the
wait group of the encryption queue; the channel is closed when it is 0.

`staged`, `outbound` and the pool are bounded as in the code, and a write to a full
channel and a read from an empty pool wait. `old` are keypairs of the age
RejectAfterTime. A timer may expire at any time except while DelSync waits for it:
a goroutine that saw the peer running may arm a timer after `timersStop`.

`Intervals` are the values `persistentKeepaliveInterval` may have at a start: only with one
above 0 does `upLocked` send a keepalive. The engine always configures 15 seconds, as the
run does. With 0 among them `NothingStranded` fails: a packet staged while Stop is under way
stays, a handshake that finishes while the peer is down leaves a usable keypair, and the next
Start sends nothing; the packet waits for the next one. The property excepts that
configuration, and the other four are proved for every set of intervals.

| Code | Actions |
|---|---|
| `SendKeepalive`, `StagePackets` | `SendKeepalive`, `OfferKeepalive`; `StagePackets`, `DropTooOld` |
| `SendStagedPackets` | `Top`, `PickKeypair`, `TakeStaged`, `Number`, `CapNonce`, `CheckRunning`, `SendOutbound`, `SendEncryption` |
| `RoutineEncryption`, `RoutineSequentialSender` | `RoutineEncryption`; `SenderTake`, `SenderFinish` |
| `Peer.Start` | `Start`, `FlushOutbound`, `FinishStart` (then the keepalive of `upLocked`) |
| `Peer.Stop` | `Stop`, `StopTimers`, `StopSender`, `StopWait`, `ZeroKeypairs`, `FlushStagedPackets` |
| `Device.Close` | `Close`, the steps of Stop, `CloseQueues`, `CloseReturn`; `Exit` of the goroutines |

### TunOffload

One goroutine that writes a batch and reads it back. A packet is a record with a
flow, a sequence number, a payload of tokens that occur in no other packet, and a
flag for its checksum. `handleGRO(p)` is a turn of the loop over the batch:
`tcpGRO` compares the packet with the items of its flow from the last to the first,
`udpGRO` with the last one only. `applyCoalesceAccounting` writes the virtio headers,
`WriteOne` hands one buffer to the kernel, which may refuse it, `Read` splits
what the kernel has. The kernel hands over what was written: it does so when it
forwards to another tunnel, and this is what makes both directions comparable.
`SeqSpace` is 2^32 in the code.

Deliberately not claimed: a packet prepended to an item whose packet has PSH loses
that flag (`pshSet` is kept, but the header kept is the new one's without PSH); a UDP
packet without payload is not a candidate and may be overtaken; with fewer buffers
than segments `gsoSplit` reports one packet fewer than it has written, so that the
last one is lost with the rest.

### BindOffload

`Open` with its retries over pairs of ports is `Open`, `ListenV4`, `ListenV6` or
`ListenV6Fails`; the host may lack a family. Only an address in use leads to a retry, any
other error of the second family ends the call. `Send` holds a set of pooled messages,
`msgs`, which keep their controls from call to call as in the code; `coalesceMessages`
joins messages, `WriteBatch` lets the kernel take some of them, `Refuse` is EIO for a
segmented message, `DisableOffload` the retry. Close and a second Open may come
between any two steps. `Receive` reads trains that the kernel has put together, or a
datagram without payload, which it does not put together with others, and
`splitCoalescedMessages` spreads them over the array.

An empty datagram costs what is read behind it: `splitCoalescedMessages` takes a length of 0
for the end of the messages (`bind_std.go:545`) and returns. `SplitIntact` says precisely this:
the datagrams come out whole and in order up to the first empty one, and nothing else is lost.

Seen while modelling, and outside the properties: on a host without IPv4, an IPv6
failure calls `v4conn.Close()` on a nil pointer (`bind_std.go:168`, `:173`); the model
goes to `panic` there. On a host without IPv6, `Open` returns port 0. `setSrcControl`
is empty on Android, so there a control of the first attempt survives into the retry;
`RetryIsPlain` is therefore stated for `sticky`, the Linux build.

### Routes and AllowedIPs

`Routes` is a partial function from prefixes to peers with longest-prefix lookup.
`AllowedIPs` is the trie: a node is named by its prefix, `trie.child`, `trie.parent`
and `trie.peer` are the pointers, and `insertNew` and `remove` follow the code down to
the fork that is dissolved with its last entry. `Table == INSTANCE Routes` maps the
nodes that have a peer to the abstract table; `TrieImplementsRoutes` is the abstract
specification. IPv4 and IPv6 have a trie each, with the same code; the model has one,
of `Width` bits.

### ReplayWindow and ReplayFilter

`ReplayWindow` keeps the set of counters accepted and the greatest one; `ReplayFilter`
is the ring of words. `Window == INSTANCE ReplayWindow` maps the bits of the ring back to
the counters they stand for, and `FilterImplementsWindow` says that the two accept the
same counters in every sequence of calls.

### Cookie

A MAC is the key and text it was made from; a cookie is the secret and the source
address. Times are distances to now. The network keeps every request and every reply: what is
never taken is lost, what is taken twice was repeated. A worker takes a message
(`RoutineHandshake`, with the check of mac1), asks for the load (`IsUnderLoad`), checks mac2
(`VerifyMAC2`) and answers (`CreateReply`, `RefreshSecret`, `DeriveCookie`): one step for each
time the lock is taken, and any other worker or a new private key (`CheckerInit`) in between.
The generator of one peer sends from several addresses.

Two workers that handle two copies of one request may both find the secret stale and both
draw one. The peer then gets two replies with the same mac1 and different cookies, and
whichever comes last counts: it may go back from the newer cookie to the older. What the code
does guarantee is `CookieFresh`: a reply opens only with the mac1 of the peer's last message,
so its cookie is of a secret no older than that message.

### Ratelimiter

Entries live in `heap`, because a worker may hold a pointer to one that has left the
table. `ideal` is a bucket per address that is never removed, the reference for
`CleanupForgetsNothing`; `raced` counts calls for an address that overlapped an
insertion or a removal, each of which may give one packet away.

Two workers that insert the same address into an empty table both send on the
unbuffered `stopReset` with the lock held. By the second send the goroutine may be in
`cleanup`, waiting for that lock: the limiter is stuck. `OnlyReplacingBlocks` says that
this is the only way. `Close` does not wait for the handshake workers, and a worker
that inserts afterwards sends on a closed channel (`panic` in the model).

### Config

The set operation is one action per line, with `handlePostConfig` as two steps: it
reads `isUp`, then starts the peer. `ipcMutex` and the lock of the state are explicit.
`unfinished` are peers whose set failed before they were started (the code leaves
them so until the next Up), `late` are peers that `handlePostConfig` started after a
Down it did not see. Both are exceptions of `PeersFollowDevice`, named so that nothing
else can hide behind them. When setting the mark fails, `BindUpdate` leaves sockets open
that nobody reads. Lines for the preshared key, the keepalive interval and the
protocol version change nothing that the properties tell apart.

### PeerTimers

A timer is the runtime timer (`armed`), `isPending`, and the goroutines that wait for
or hold `runningLock`. What an expiry function does to timers is a sequence of calls: those
of a handshake it sends (`HandshakeCalls`; a keepalive may lead to one too), then its own
(`Afterwards`: giving up deletes `sendKeepalive` and starts `zeroKeyMaterial`, a keepalive may
set itself again). Each call checks `timersActive` in one step and changes the timer in the
next, as do the events of the goroutines that send and receive. `Stop` deletes the timers in the code's order with `DelFirst`,
`LockRunning`, `DelSyncEnds`. `strayed` are timers set after Stop had deleted them by
goroutines that had asked before. `SetPrivateKey` calls Stop with the static identity
locked, and an expiry function that sends a handshake needs that lock: neither
goes on. `StopQuiesces` excludes that caller by name.

### TunDevice

The two listeners, `hack` (asks once a second) and `netlink` (waits for messages), the
bounded channel `events`, Close with its pipe, and the reader. Close shuts the listeners
down, writes to the pipe and closes the file, in three steps, with or without a reader; a
device that nobody reads and whose channel is full keeps a listener, and `TunListenersEnd`
excepts it. `device.Up()` may fail (`UpFailed`), and the reader does not try again. When
`setMTU` fails the
netlink socket is closed twice and the hack listener stays; `TunEventsOpen` allows
that case only. `wasEverUp` begins as false in each read of the socket, although the
comment at `tun_linux.go:186` speaks of ever, so a late EventUp of one listener may
follow the EventDown of the other: an interface that is down may find its device
up. `TunConverges` is therefore about interfaces that are up. `NewDevice` does not cap
the MTU at `MaxContentSize`, as the reader does for later changes.

### FrpWrapper and StunClient

`FrpWrapper`: a run is one call of `startFrpc`. `overlapped` are runs that began between
a `stopFrpc` and the end of the run it stopped: the deferred function of the old run
clears the variables of the new one, after which `isFrpcRunning` is false and
`stopFrpc` waits without having cancelled anything. Without such an overlap
`FrpReachable` holds.

`StunClient`: `Start` and `StartShared` make a new `stopChan` and leave the goroutines of
the previous start running; these find the new channel in the next round. A `Start`
that fails to send leaves its listener running. `Stop` does not wait.

## 3. Runs

| Run | Properties | Result |
|---|---|---|
| `handshake_sessions` | `TypeOK`, `SessionsAgree` | hold |
| `handshake_indices` | `LookupFindsOwner`, `NoIndexLeak`, `TimestampMonotone` | hold |
| `handshake_duplicate` | `OneSessionPerHandshake` | violated |
| `engine_sessions` | `TypeOK`, `NoLostWakeup`, `NoCallbackAfterClose`, `LoopsEnd` | hold |
| `engine_publish` | `PublishConverges` | violated |
| `engine_deadlock` | `StopReturns` | violated |
| `engine_peer` | `PeerConverges` | violated |
| `send_path` | `TypeOK`, `NoNonceReuse`, `OneHolder`, `NothingStranded`, `QueueStaysOpen` | hold |
| `receive_stun` | `EvaluatesReceived` with STUN packets | violated |
| `batches` | `BatchesTypeOK`; `ReceivedIntact`, `OneOwner`; `OffloadTransparent`, `OffloadHonest`; `SendTransparent`, `SplitIntact` | hold |
| `device` | `DeviceTypeOK`; `TrieCorrect`, `TrieImplementsRoutes`; `FilterImplementsWindow`; `AdmittedOwnsAddress`, `CookieFresh`; `CleanupForgetsNothing`, `OnlyReplacingBlocks`; `PeersConsistent`, `PeersFollowDevice` | hold |
| `lifecycles` | `LifecyclesTypeOK`; `StopDeletesTimers`, `StopQuiesces`; `TunEventsOpen`, `TunListenersEnd`, `TunConverges`; `FrpReachable`; `StunStops` | hold |

Handshake bounds. Two devices, since a handshake concerns two. Four ephemerals
allow a complete handshake and a second one that overtakes it, or two crossing
initiations with one response each; three allow a handshake and a competing
initiation. Three indices are enough for a handshake and two keypairs at an end; in
`handshake_indices` one of them is 0, which the code also uses for "none". Two
timestamps let an old and a new initiation race in two workers. Nonzero indices are
interchangeable, hence the symmetry. Deadlock is not checked: when the ephemerals
are used up nothing more happens.

Engine bounds. One session, one event of the network or one failing request, and two
threads of the app, one of which may stop the engine, reach every step of the four
goroutines; two sessions are needed for a replacement, the second scene of
`engine_sessions`. Deadlock is not checked: the app may stop calling.

ReceivePath bounds. Batches of up to two packets show every relation of an element
to one before it; four buffers are two held and two queued, the smallest pool with
which the routine never waits for ever; a queue of one is full at once. A packet of
each kind may be at either place, STUN responses and empty datagrams included. Deadlock is
checked.

SendPath bounds. One goroutine of each kind. Batches of two let the last nonce fall
inside a container; one nonce per keypair is the boundary at once; queues of one
element are full at once. Two calls of Up let containers that missed the sender meet
the next Start. One event (a timer, ageing or expiry of a keypair) on top of the
sessions; with more events, two keypairs or three elements, but fewer goroutines, the
invariants hold as well. `NonceSpace` is the smallest that `NonceAssumption` allows.
The interval is the engine's. Elements are interchangeable, hence the symmetry. Deadlock is
not checked: a closed device stops.

Offload bounds. Batches of three packets: one to merge with, one to merge, and one
that meets the result; segments around the wrap of the sequence numbers, of two
lengths, one with PSH, one with a wrong checksum, one each with other TOS, options and
flags, and a UDP flow. The pool has three slices, one for each flow a batch can hold.
Two or three buffers for Read are fewer than and as many as the segments. Four messages
in a call of Send with three datagrams per segmented message and five tokens of payload
reach each of the three limits of coalescing; six messages in the array are two
trains of three. Two ports and one retry of Open; two calls of Open, since a send that
began on the first socket may end on the second. Deadlock is checked.

Device bounds. Addresses of three bits with three entries reach every shape of
insertion and removal (fork above, below and between, at the root and under a parent)
and forks that dissolve. A ring of four words of two bits and counters up to 13 go
around it once and jump past it. Two keys, two secrets, two requests (each may be handled
any number of times), two sources and two workers for the cookies. Buckets of three packets with a collection time just long
enough to refill (the assumption `CostAssumption`; in the code it is four times as
long). Two keys and one prefix for the configuration: with two keys a peer may be
the device itself, and a prefix may move from one peer to the other. Keys, workers and
addresses are interchangeable. Deadlock is checked.

Lifecycle bounds. Two timers, whose expiry functions both send handshakes and change
their own timer and the other one; one retry, one user and one start; one goroutine of a
timer may wait while another runs. That what a stopped peer leaves behind is harmless after
another start is proved (`StopDeletes`, any number of starts and timers), not checked. Three
runs of the FRP client, since an overlap needs two and its effect on a third shows.
Two starts of the STUN client. A channel of one event, so that senders wait, and two
changes of the interface, with an MTU below and one above the cap. Deadlock is not
checked: what has been stopped stops.

### Fairness

`Engine!Fairness` has weak fairness for each goroutine and for a caller that is
inside an exported function: Go and Android schedule every runnable thread,
requests end by their timeout (10 s in `writeEndpointToFirebase`), the ticker ticks,
and a cancelled request returns. Strong fairness is assumed only for the `Done`
cases of two `select` statements: Go chooses among ready cases at random, so a case
that is ready again and again is taken. A call from the app and an event of the
environment are never assumed to happen. `MCLifecycles!LifecyclesFairness` is of the
same kind: weak fairness for the goroutines and armed timers of a peer, taken together (that
something goes on as long as something can is all that `StopQuiesces` needs), for each
goroutine of the STUN client, for Close and for the reader of the events; strong fairness for
the listeners of the TUN device, which wait to send on a full channel (Go serves
waiting senders in order) or in a `select`, and for the `stopChan` case of the STUN
client's ticker. Nobody is obliged to start or stop anything, and a failing netlink
socket is never required. `engine_deadlock` needs no more than weak
fairness: it ends in a state in which neither thread can move.

### What the violated runs show

* `handshake_duplicate`. A response delivered twice to two workers of the
  initiator: both pass the check under the read lock, the first derives a keypair
  and zeroes the handshake, the second puts the handshake back into the state
  *response consumed* and derives a second keypair with the same keys, local index 0
  and nonces that start at 0 again.
* `engine_publish`. A STUN response brings a new address; `updateLocalEndpoint` stores it in
  the status map and then publishes it. The PUT fails, which is only logged. Later responses
  bring the same address, which is the stored one, so nothing is written again, and the peer
  never learns it. `SKILL.md:113` compares with the last *published* values.
* `engine_deadlock`. StopEngine holds `mu` in `Device.Close`, which waits for the
  receiver; the receiver waits for `mu` in `updateLocalEndpoint`.
* `engine_peer`. The applier reads address x and configures it; the listener stores
  y and wakes the applier; the applier writes x back into the status map, then
  wakes, reads x and configures it again. The peer's address y is lost until it
  changes again.
* `receive_stun`. A STUN packet in front of another packet: the filter moves a
  slice, the device reads the array, so it evaluates the STUN packet, calls the
  unknown-packet handler, and the other packet is lost.

`batches` shows what is left of `EvaluatesReceived`: `ReceivedIntact`, up to the first slice
that is moved. With `MaxFail = 0` the run `engine_publish` finds no violation: the
failing PUT is the cause.

Another disagreement with `SKILL.md` needs no search: a StartEngine that replaces a session
overwrites `wgDevice` without closing it (`vpnengine.go:227`), so that StopEngine closes only
the last device (`SKILL.md:85`).

### Failures that a passing property names

Where the code does fail and no line of the repository says that it should not, the property
states the rest: it holds except in the case it names, so that a second way to the same
failure would be noticed.

| Property | What it excepts, and what happens then |
|---|---|
| `OnlyReplacingBlocks` | a worker that replaces the only entry while the goroutine is in `cleanup`: the limiter is stuck |
| `PeersFollowDevice` | peers that `handlePostConfig` starts after a Down it did not see run on a device that is down; peers of a failed set stay stopped |
| `FrpReachable` | a start between `stopFrpc` and the end of the run it stopped: the new run cannot be stopped |
| `StopQuiesces` | Stop called with the static identity locked (`SetPrivateKey`): it may wait for ever |
| `TunConverges` | an interface that is down: its device may stay up; a failed Up |
| `TunEventsOpen` | a device whose `setMTU` failed: the socket is closed twice |
| `NothingStranded` | a peer without persistent keepalives |
| `SplitIntact`, `ReceivedIntact` | what is read behind an empty datagram, or after a slice was moved |

## 4. Proofs

Proved with TLAPS, for every value of the constants that the assumptions allow: any
number of devices, goroutines, keys, packets and so on, not the few of a run.

| Theorem | Statement |
|---|---|
| `HandshakeProofs!TypeCorrect` | `Spec => []TypeOK` |
| `HandshakeProofs!Monotone` | `Spec => TimestampMonotone` |
| `HandshakeProofs!SessionsStayAgreed` | `Spec => []SessionsAgree` |
| `HandshakeProofs!LookupCorrect`, `NoLeak` | `Spec => []LookupFindsOwner`, `Spec => []NoIndexLeak` |
| `SendPathProofs!NoncesOnce` | `Spec => []NoNonceReuse` |
| `SendPathProofs!ElementsHeldOnce` | `Spec => []OneHolder` |
| `SendPathProofs!NothingLeftStaged` | `Spec => []NothingStranded` |
| `SendPathProofs!EncryptionStaysOpen` | `Spec => []QueueStaysOpen` |
| `SendPathProofs!SendTypes` | `Spec => []TypeOK` |
| `BatchesProofs!BuffersHaveOneOwner`, `ReceiveTypes` | `Spec => []OneOwner`, `Spec => []TypeOK` |
| `BatchesProofs!ReceivedStaysIntact` | `Spec => []ReceivedIntact` |
| `BatchesProofs!ReadsAreSplit` | `BindSpec => []SplitIntact` |
| `BatchesProofs!SendsAreTransparent` | `BindSpec => []SendTransparent` |
| `BatchesProofs!SocketsAreKnown` | `BindSpec => [](BindTypeOK /\ OnePort)` |
| `BatchesProofs!BatchesTypes` | `BatchesSpec => []BatchesTypeOK` |
| `OffloadProofs!OffloadIsTransparent` | `OffloadSpec => []OffloadTransparent` |
| `OffloadProofs!OffloadIsHonest`, `OffloadTypes` | `OffloadSpec => []OffloadHonest`, `OffloadSpec => []OffloadTypeOK` |
| `DeviceProofs!TrieIsCorrect` | `TableSpec => []TrieCorrect` |
| `DeviceProofs!TrieRefinesRoutes` | `TableSpec => TrieImplementsRoutes` (refinement) |
| `EngineProofs!CallbacksEnd` | `Spec => []NoCallbackAfterClose` |
| `EngineProofs!WakeupsArrive`, `EngineTypes` | `Spec => []NoLostWakeup`, `Spec => []TypeOK` |
| `DeviceProofs!AdmissionOwnsAddress` | `CookieSpec => []AdmittedOwnsAddress` |
| `DeviceProofs!CookiesAreFresh` | `CookieSpec => CookieFresh` |
| `DeviceProofs!ForgetsNothing` | `LimiterSpec => []CleanupForgetsNothing` |
| `DeviceProofs!ReplacingBlocks` | `LimiterSpec => []OnlyReplacingBlocks` |
| `DeviceProofs!RingImplementsWindow` | `ReplaySpec => FilterImplementsWindow` (refinement) |
| `DeviceProofs!PeersStayConsistent` | `ConfigSpec => []PeersConsistent` |
| `DeviceProofs!PeersFollowState` | `ConfigSpec => []PeersFollowDevice` |
| `DeviceProofs!DeviceTypes` | `DeviceSpec => []DeviceTypeOK` |
| `LifecycleProofs!StopDeletes` | `TimersSpec => []StopDeletesTimers` |
| `LifecycleProofs!FrpStaysReachable` | `FrpSpec => []FrpReachable` |
| `LifecycleProofs!EventsStayOpen` | `TunSpec => []TunEventsOpen` |
| `LifecycleProofs!LifecycleTypes` | `LifecyclesSpec => []LifecyclesTypeOK` |

The type invariants of `Config`, `Cookie`, `Ratelimiter`, `ReplayFilter`, `PeerTimers`,
`FrpWrapper`, `TunDevice` and `StunClient` are theorems of their own (`ConfigTypes`,
`CookieTypesHold`, `LimiterTypesHold`, `ReplayTypesHold`, `TimerTypesHold`, `FrpTypesHold`,
`TunTypesHold`, `StunTypesHold`), each about the component's specification. `DeviceTypes` and
`LifecycleTypes` put them together: a behaviour of the composed specification is, for each
component, a behaviour of that component or one in which it stands still. `BatchesTypes` does
the same where the initial state says which component runs: the others are switched off and
stay as they are.

### Assumptions

All are named ASSUMEs that TLC evaluates in every run.

* `Handshake`: every thread belongs to a device and has a set of roles
  (`ThreadAssumption`), nil is no keypair and no message (`NilAssumption`), the bounds are
  natural numbers (`BoundAssumption`). Nothing is assumed about `Index`: it may contain
  `Zero`.
* `SendPath`: the goroutines are finitely many and of one kind each; the queues are not
  empty (`SizeAssumption`); a counter has room for one increment of every goroutine beyond
  the limit (`NonceAssumption`; in the code there are 2^13 such nonces, and a goroutine
  that has passed the limit sets the counter back before it adds again). This one carries
  `NoncesOnce`: with more goroutines the counter could wrap.
* `ReceivePath`: a batch has at least one place, the pool at least two batches. Nothing is
  assumed about what arrives.
* `Ratelimiter`: a bucket that is not used for the time of collection is full again, which
  the constants of the code satisfy; the addresses and workers of a behaviour are finite sets,
  so that unused entries exist.
* `Config`, `Engine`, `FrpWrapper`: the values that stand for nil are no members of the sets
  they are used beside. `PeerTimers`: a peer has at least one timer, all among the five.
* `ReplayFilter`: a word has a bit and the ring a word.
* `AllowedIPs`: addresses have at least one bit (`WidthAssumption`), nil is neither a peer nor
  a node (`NilAssumption`). `BindOffload`: a packet to send, and a datagram that
  the kernel puts together with others, has at least one byte (a datagram on its own may be
  empty), a call of Send has at most as many packets as there are messages, and the array of a read is a
  whole number of trains (`BindBounds`).
* `TunOffload`: `OffloadBounds`, among them that half the sequence numbers are more than a
  buffer; a datagram has no sequence number, PSH flag or options (`TunPacketAssumption`).
* `MCBatches`: the buffer that the receive path holds while it is switched off is a buffer
  (`OffAssumption`).
* `TunDevice`, `StunClient`: the bounds are natural numbers, no endpoint is no endpoint.

### Inductive invariants

None of these properties is proved from the types alone. The largest strengthenings,
`SessionInv` and `SendInv`, were first checked by TLC on the instances of the runs
`handshake_sessions` (1.1 million states) and `send_path` (2.1 million).

*Types of the handshake.* A thread in *consume* holds an initiation, one in *rotate* a
keypair, and so on; `JobOK` ties what a thread holds to its program counter, and
`TypeInv` is `TypeOK` with `JobOK`.

*Sessions.* An ephemeral is in one initiation only (`InitiationInv`), so it names the two
ends of a handshake and who began it. `SessionInv` traces every use of a key back to that
initiation: the state of a handshake (`StateInv`), the keypairs in slots (`SlotInv`),
whatever a thread took at an earlier step and has not stored yet (`HoldsInv`), and the
transport messages in the network (`TransportInv`). A role is then decided by the key.
That a responder only uses a confirmed session is `KeyConfirmation`: the key in its
current slot came there by a transport message, which the initiator can only have sealed
after deriving the key. The network and the derived keys only grow, so every fact
about them survives the steps of the others (`NothingForgotten`).

*Index table.* Deleting the index of one handshake could remove the entry of another
owner unless owners of nonzero indices are distinct. `IndexInv` says, of nonzero
indices: a handshake's entry points to it (`HandshakesIndexed`), the entry of a keypair in
a slot or in the rotation of a thread points to it (`SlotsIndexed`, `RotationsIndexed`), no
keypair is in two slots (`SlotsDistinct`) or both in a slot and in a rotation
(`RotationsDistinct`), at most one thread rotates the keypairs of a peer (`OneRotation`,
which is what `handshake.mutex` is for), and every entry has an owner (`EntriesOwned`).
Each action either leaves all of this alone (`QuietStep`), gives a handshake a new index
(`ReindexStep`), takes one away (`UnindexStep`), turns a handshake's index into a keypair's
(`BeginStep`) or rearranges the slots of one peer (`SlotsStep`).

*Send path.* `SendInv`. Nonces: a counter exceeds the limit by at most the number of
goroutines that are about to set it back, and every nonce given out is below both the
limit and the counter (`NonceInv`). Elements: `PlaceInv` asserts a function that gives
every element the one place where it is, and a goroutine if it is with one; a step that
moves a container changes the function for its elements, so that one lemma per kind of
move serves all paths. `OneHolder`, which counts places, follows from it and from
`OnceInv` (no container holds an element twice). The encryption queue: `WriterInv` adds up
who holds a reference (the device, the TUN reader, the workers, the running peer), and
`ControlInv` says where Stop and Start can be while a goroutine writes. `StagedInv` needs no
more than that somebody is under way: each goroutine looks at the staged queue last, and
with a keepalive interval so does every start.

*Receive path.* `OneOwner` alone would let one element wait in two queues with the same
buffer; `OnePlace` excludes it. That the slices and the arrays agree (`bufs = bufsArrs` in
`IntactInv`) holds until the filter moves a slice, and without it `ReceivedIntact` is not
preserved: this is why the property ends there. What `InOrder` returns is an induction over a finite set, for which the
proof uses the least member of a nonempty set of numbers (`LeastMember`, `GreatestMember`).

*Engine.* A receiver exists only for a device that was brought up, and starts once
(`SessionInv`); no two callers start one session (`CallerInv`). The address that the applier
is about to report is the one it has applied, and only a listener stores the key of the
peer (`KeyInv`): before the first listener there is no wake-up to lose.

*Cookies.* The recorded time of the secret is its true age or marks it as stale, never
something in between, although two workers may draw secrets after each other
(`SecretInv`). No peer and no message has a cookie that the device has not sent (`GivenInv`).
For `CookieFresh`, every reply to the peer's last message is of a secret at least as new as
the one the device had when that message was made (`AskedInv`): secrets are only ever
replaced by newer ones, and a mac1 is not in use before its message is made (`TextInv`).

*Rate limiter.* `CreditInv` compares a bucket with one that is never removed, with an
allowance for an insertion under way; `InsertInv` does so for the bucket that a worker is
about to insert; `OwnInv` says that a bucket belongs to one address and a new one to one
worker; `SenderInv` ties the ticker and the lock to the table being nonempty.

*Replay filter.* Within the window, counters and bits correspond one to one: two counters
with the same bit differ by a multiple of the ring, which is longer than the window. The
lemmas are about `\div` and `%`; each answer of `ValidateCounter` is then a step of the
window with the same answer, and the bits after a jump are those of the window moved.

*Configuration.* `LockInv` says who holds which lock and what state has been set by then,
`SetterInv` that the selected peer exists until the set lets go of it, `UpInv` and `DownInv`
what each of changeState and handlePostConfig has still to do.

*Routing table.* `TableInv`. Of the trie, `Shape`: the root covers every node (`RootCovers`), a
child is on the side its address says (`ChildLeads`) and properly below its parent
(`ChildBelow`), and a node that is not the root has a parent of which it is the child
(`ParentAbove`); and a node without a peer has two children (`ForksFull`). `ListsAgree`: the
entries of a peer are, once each, the nodes with that peer. Where the walk of `insertNew` or
`Lookup` ends follows from `Shape` by the longest node on the way, not by an induction over the
depth; then each kind of change (a new leaf, a node put between two others, a new fork, a node
taken out, a fork dissolved) is one lemma.

*UDP bind.* For Send, `SendCallInv`: while the messages are made, `BatchInv` says which
packets are in each finished message and that the last one is a group with one size of
segments; then what is on the wire is a prefix of the packets, and what is on the wire with
what is in the messages still to be written is all of them. For a read, the datagrams are
written from the end of the array; `StoredBound` says that the place written is never one that
holds a train not yet split, and `PlaceOf` where each datagram goes. The trains before the
first empty datagram (`Whole`) are split one after the other (`SplitRound`, `SplitAll`), and
what is written then is the beginning of what arrived (`WholeBegins`). For the sockets, `OpenInv`
says what the operating system holds at each step of Open.

*TUN offload.* `OffloadInv` speaks of *chains*: chain `j` lists the packets of the batch that
buffer `j` stands for, in the order in which they leave it when it is cut up. During handleGRO
(`GroInv`) an item of a flow tells what its buffer stands for: `Stands` says that the payload
cut at `gsoSize` gives the payloads of the chain, that the sequence numbers are those the
cutting computes, that only the last piece may be short, that merged packets have right
checksums, and that a PSH flag of the buffer is one of its last packet. Every other buffer
holds one packet as it came, with an empty header. Each packet is in one chain (`Once`,
`Placed`), and the datagrams of a flow follow each other within and between chains
(`UdpOrdered`). A merge is one lemma for the end of a chain and one for its front; deleting an
item leaves its buffer to the others. The accounting turns items into headers, after which
nothing but the header says how to cut; `toWrite` and the kernel name buffers in increasing
order (`Lined`). While the kernel and Read work, `Sources` gives every packet delivered the packet it
came from: no two the same, and all of them when nothing was refused. From that function follow
the counts in `OffloadTransparent`. For the pool, a table has no more flows than packets were
handled, so `newItems` always finds a slice.

*Timers, FRP client, TUN device.* `DeletedInv` is `StopDeletesTimers` for the timers that
Stop is through with; `Goroutine` says that a goroutine with a change to make has it before it
(`GoroutineCalls`), and that all of them are calls (`CallsAreCalls`). `OneRun` is the claim about runs without an overlap, and `GroupInv`
makes the wait group the number of runs. `HackLockInv` is the mutex by which the
netlink listener waits for the other one before it closes the events.

### Only model-checked

Liveness and everything under fairness, which is out of the prover's reach:
`LoopsEnd`, `StopQuiesces`, `TunListenersEnd`, `TunConverges`,
`StunStops`. Every other property of a passing run is a theorem.

The prover has no induction over data. Where a proof needs one (sequences of any length, the
members of a finite set, the depth of a trie) it takes the least counterexample instead:
`LeastMember` gives a nonempty set of numbers its least member, and the step before it
contradicts.

## 5. Not modelled

* Packet formats, MACs, AEAD, key derivation and checksum arithmetic: symbolic.
* The text of the configuration protocol and the sockets and pipes that carry it.
* TUN devices of FreeBSD, macOS, OpenBSD and Windows, the Windows bind with its rings,
  the listener for route changes (`device/sticky_linux.go`): not part of the Android
  build or of the Linux node; mostly system calls.
* The user-space stack `tun/netstack`: a layer over gvisor that nothing here uses.
* The main program of the command-line node: flags, files and polling.
* The earlier engine in `vpnengine/`: unused.
* HomeVpnService's own threads and the ownership of the TUN descriptor; the user
  interface in Dart and Kotlin.

## 6. Plan

Models: `Service`, HomeVpnService on top of `Engine`; the status map after StopEngine;
the composition of `Config` with `SendPath` for several peers.

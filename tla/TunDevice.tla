------------------------------ MODULE TunDevice ------------------------------
(***************************************************************************)
(* The life of a Linux TUN device (tun/tun_linux.go): its creation, the    *)
(* two goroutines that report whether the interface is up, Close, and      *)
(* RoutineTUNEventReader of device/tun.go, which reads the reports.        *)
(*                                                                         *)
(* The netlink listener waits for messages of the kernel and can be        *)
(* cancelled through a pipe (rwcancel/rwcancel.go); the hack listener asks *)
(* the device once a second.  Reading and writing packets is in TunOffload.*)
(***************************************************************************)
EXTENDS Naturals, Sequences, SequencesExt

CONSTANTS EventsCap,       \* 5 in the code
          Mtu,             \* MTUs of the interface
          MaxContentSize,
          MaxLinkChanges   \* bound on the changes of the interface

ASSUME TunAssumption ==
  EventsCap \in Nat \ {0} /\ Mtu \subseteq Nat /\ MaxContentSize \in Nat /\ MaxLinkChanges \in Nat

VARIABLES running, kmtu, changes, \* the interface
          nlQueue,      \* messages of the kernel: whether the interface is running
          nlSock,       \* "none", "open" or "closed"
          sockCloses,   \* how often unix.Close was called on it
          create,       \* "none", "listening", "open" or "failed"
          monitored, tunFile,
          closing,      \* Close: "none", then what it does next: "cancel", "file" or "done"
          shutdown,     \* statusListenersShutdown is closed
          cancelPipe,   \* a byte is in the pipe of netlinkCancel
          events, eventsClosed,
          hackHolds,    \* hackListenerClosed is locked
          hack,         \* [at, send, last]
          netlink,      \* [at, send]
          reader,       \* RoutineTUNEventReader: "none", "reads" or "done"
          told, mtu     \* what the reader last made of the device, device.tun.mtu

linkVars == <<running, kmtu, changes>>
lifeVars == <<create, monitored, tunFile, closing, shutdown, cancelPipe>>
tunVars == <<running, kmtu, changes, nlQueue, nlSock, sockCloses, create, monitored, tunFile,
             closing, shutdown, cancelPipe, events, eventsClosed, hackHolds, hack, netlink, reader, told, mtu>>

Up_ == "up"
Down_ == "down"
MTUUpdate == "mtu"
UpFailed == "failed"

Capped(m) == IF m > MaxContentSize THEN MaxContentSize ELSE m

-----------------------------------------------------------------------------
(* The kernel: a change of the interface is announced on the netlink socket. *)
LinkChanges ==
  /\ changes < MaxLinkChanges /\ changes' = changes + 1
  /\ \E r \in BOOLEAN, m \in Mtu :
       /\ <<r, m>> # <<running, kmtu>> /\ running' = r /\ kmtu' = m
       /\ nlQueue' = IF nlSock = "open" THEN Append(nlQueue, r) ELSE nlQueue
  /\ UNCHANGED <<nlSock, sockCloses, events, eventsClosed, hackHolds, hack, netlink, reader,
                 told, mtu>>
  /\ UNCHANGED lifeVars

-----------------------------------------------------------------------------
(* CreateTUNFromFile: the listeners run before the MTU is set.  An earlier error
   leaves nothing behind but the file. *)
CreateFails ==
  /\ create = "none" /\ create' = "failed"
  /\ UNCHANGED <<monitored, tunFile, closing, shutdown, cancelPipe, nlQueue, nlSock, sockCloses, events,
                 eventsClosed, hackHolds, hack, netlink, reader, told, mtu>>
  /\ UNCHANGED linkVars

CreateTUNFromFile ==
  /\ create = "none" /\ create' = "listening" /\ monitored' = TRUE
  /\ nlSock' = "open" /\ hackHolds' = TRUE
  /\ hack' = [hack EXCEPT !.at = "poll"] /\ netlink' = [netlink EXCEPT !.at = "recv"]
  /\ UNCHANGED <<tunFile, closing, shutdown, cancelPipe, nlQueue, sockCloses, events, eventsClosed,
                 reader, told, mtu>>
  /\ UNCHANGED linkVars

(* setMTU: on an error the socket is closed, and the listeners go on. *)
SetMTU(ok) ==
  /\ create = "listening" /\ create' = IF ok THEN "open" ELSE "failed"
  /\ nlSock' = IF ok THEN nlSock ELSE "closed"
  /\ sockCloses' = IF ok THEN sockCloses ELSE sockCloses + 1
  /\ UNCHANGED <<monitored, tunFile, closing, shutdown, cancelPipe, nlQueue, events, eventsClosed,
                 hackHolds, hack, netlink, reader, told, mtu>>
  /\ UNCHANGED linkVars

CreateUnmonitoredTUNFromFD ==
  /\ create = "none" /\ create' = "open"
  /\ UNCHANGED <<monitored, tunFile, closing, shutdown, cancelPipe, nlQueue, nlSock, sockCloses, events,
                 eventsClosed, hackHolds, hack, netlink, reader, told, mtu>>
  /\ UNCHANGED linkVars

(* NewDevice reads the MTU, without the cap, and starts the reader of the events. *)
NewDevice ==
  /\ create = "open" /\ reader = "none" /\ closing = "none"
  /\ reader' = "reads" /\ mtu' = kmtu
  /\ UNCHANGED <<nlQueue, nlSock, sockCloses, events, eventsClosed, hackHolds, hack, netlink, told>>
  /\ UNCHANGED linkVars /\ UNCHANGED lifeVars

(* Close: closeOnce lets the function run once.  It tells the listeners, one after the
   other, or closes the events of a device without listeners; then it closes the file. *)
CancelNetlink_Not == UNCHANGED cancelPipe
CancelNetlink == cancelPipe' = TRUE

CloseUnchanged ==
  /\ UNCHANGED <<create, monitored, nlQueue, nlSock, sockCloses, events, hackHolds, hack,
                 netlink, reader, told, mtu>>
  /\ UNCHANGED linkVars

CloseTun ==
  /\ create = "open" /\ closing = "none"
  /\ IF monitored
     THEN closing' = "cancel" /\ shutdown' = TRUE /\ UNCHANGED eventsClosed
     ELSE closing' = "file" /\ eventsClosed' = TRUE /\ UNCHANGED shutdown
  /\ UNCHANGED <<tunFile, cancelPipe>> /\ CloseUnchanged

CloseCancels ==
  /\ closing = "cancel" /\ closing' = "file"
  /\ CancelNetlink
  /\ UNCHANGED <<tunFile, shutdown, eventsClosed>> /\ CloseUnchanged

CloseFile ==
  /\ closing = "file" /\ closing' = "done"
  /\ tunFile' = "closed"
  /\ UNCHANGED <<shutdown, cancelPipe, eventsClosed>> /\ CloseUnchanged

-----------------------------------------------------------------------------
CanSend == Len(events) < EventsCap

(* routineHackListener writes nothing to the device and looks at the error. *)
HackUnchanged ==
  /\ UNCHANGED <<nlQueue, nlSock, sockCloses, eventsClosed, netlink, reader, told, mtu>>
  /\ UNCHANGED linkVars /\ UNCHANGED lifeVars

HackReturns ==
  hack' = [hack EXCEPT !.at = "done"] /\ hackHolds' = FALSE

HackPolls ==
  LET now == IF running THEN Up_ ELSE Down_
  IN  /\ hack.at = "poll"
      /\ IF tunFile = "closed" THEN HackReturns
         ELSE /\ hack' = [hack EXCEPT !.at = IF now # hack.last THEN "send"
                                             ELSE "wait",
                                      !.send = now]
              /\ UNCHANGED hackHolds
      /\ UNCHANGED events /\ HackUnchanged

LastSent_Up(e) == IF e = Up_ THEN Up_ ELSE hack.last
LastSent(e) == e

HackSends ==
  /\ hack.at = "send" /\ CanSend
  /\ events' = Append(events, hack.send)
  /\ hack' = [hack EXCEPT !.at = "wait", !.last = LastSent(hack.send)]
  /\ UNCHANGED hackHolds /\ HackUnchanged

(* A second passes, or the device is closed. *)
HackWaits ==
  /\ hack.at = "wait"
  /\ \/ hack' = [hack EXCEPT !.at = "poll"] /\ UNCHANGED hackHolds
     \/ shutdown /\ HackReturns
  /\ UNCHANGED events /\ HackUnchanged

-----------------------------------------------------------------------------
(* routineNetlinkListener.  The events for the messages of one read: wasEverUp begins
   as false in every read. *)
EventsFor(msgs) ==
  FlattenSeq([n \in DOMAIN msgs |->
    (IF msgs[n] THEN <<Up_>> ELSE IF \E p \in 1..n - 1 : msgs[p] THEN <<Down_>> ELSE <<>>)
      \o <<MTUUpdate>>])

NetlinkUnchanged ==
  /\ UNCHANGED <<hack, reader, told, mtu>>
  /\ UNCHANGED linkVars /\ UNCHANGED lifeVars

(* Recvmsg returns one or more messages; then the shutdown is looked at. *)
NetlinkReceives(n) ==
  /\ netlink.at = "recv" /\ nlSock = "open" /\ n \in 1..Len(nlQueue)
  /\ nlQueue' = SubSeq(nlQueue, n + 1, Len(nlQueue))
  /\ netlink' = IF shutdown THEN [at |-> "exit", send |-> <<>>]
                ELSE [at |-> "send", send |-> EventsFor(SubSeq(nlQueue, 1, n))]
  /\ UNCHANGED <<nlSock, sockCloses, events, eventsClosed, hackHolds>>
  /\ NetlinkUnchanged

(* ReadyRead of rwcancel: nothing to read, and the pipe is readable. *)
NetlinkCancelled ==
  /\ netlink.at = "recv" /\ nlSock = "open" /\ nlQueue = <<>> /\ cancelPipe
  /\ netlink' = [at |-> "exit", send |-> <<>>]
  /\ UNCHANGED <<nlQueue, nlSock, sockCloses, events, eventsClosed, hackHolds>>
  /\ NetlinkUnchanged

(* Recvmsg fails: the buffer overran, or CreateTUNFromFile has closed the socket. *)
NetlinkFails ==
  /\ netlink.at = "recv"
  /\ netlink' = [at |-> "exit", send |-> <<>>]
  /\ UNCHANGED <<nlQueue, nlSock, sockCloses, events, eventsClosed, hackHolds>>
  /\ NetlinkUnchanged

NetlinkSends ==
  /\ netlink.at = "send"
  /\ IF netlink.send = <<>>
     THEN netlink' = [netlink EXCEPT !.at = "recv"] /\ UNCHANGED events
     ELSE /\ CanSend
          /\ events' = Append(events, Head(netlink.send))
          /\ netlink' = [netlink EXCEPT !.send = Tail(@)]
  /\ UNCHANGED <<nlQueue, nlSock, sockCloses, eventsClosed, hackHolds>>
  /\ NetlinkUnchanged

(* The deferred function closes the socket, waits for the other listener, and only then
   closes the channel to which both send. *)
NetlinkClosesSocket ==
  /\ netlink.at = "exit"
  /\ netlink' = [netlink EXCEPT !.at = "close"]
  /\ nlSock' = "closed" /\ sockCloses' = sockCloses + 1 /\ nlQueue' = <<>>
  /\ UNCHANGED <<events, eventsClosed, hackHolds>>
  /\ NetlinkUnchanged

HackReleased_Now == TRUE
HackReleased == ~ hackHolds

NetlinkReturns ==
  /\ netlink.at = "close" /\ HackReleased
  /\ netlink' = [netlink EXCEPT !.at = "done"]
  /\ hackHolds' = TRUE /\ eventsClosed' = TRUE
  /\ UNCHANGED <<nlQueue, nlSock, sockCloses, events>>
  /\ NetlinkUnchanged

-----------------------------------------------------------------------------
(* RoutineTUNEventReader.  When device.Up() fails the device stays down, and nobody
   tries again. *)
Brought(event) ==
  CASE event = Up_ -> {Up_, UpFailed}
    [] event = Down_ -> {Down_}
    [] OTHER -> {told}

RoutineTUNEventReader ==
  /\ reader = "reads"
  /\ \/ /\ events # <<>>
        /\ events' = Tail(events)
        /\ told' \in Brought(Head(events))
        /\ mtu' = IF Head(events) = MTUUpdate /\ tunFile = "open" THEN Capped(kmtu) ELSE mtu
        /\ UNCHANGED reader
     \/ events = <<>> /\ eventsClosed /\ reader' = "done" /\ UNCHANGED <<events, told, mtu>>
  /\ UNCHANGED <<nlQueue, nlSock, sockCloses, eventsClosed, hackHolds, hack, netlink>>
  /\ UNCHANGED linkVars /\ UNCHANGED lifeVars

-----------------------------------------------------------------------------
TunInit ==
  /\ running \in BOOLEAN /\ kmtu \in Mtu /\ changes = 0
  /\ nlQueue = <<>> /\ nlSock = "none" /\ sockCloses = 0
  /\ create = "none" /\ monitored = FALSE /\ tunFile = "open"
  /\ closing = "none" /\ shutdown = FALSE /\ cancelPipe = FALSE
  /\ events = <<>> /\ eventsClosed = FALSE /\ hackHolds = FALSE
  /\ hack = [at |-> "none", send |-> "none", last |-> "none"]
  /\ netlink = [at |-> "none", send |-> <<>>]
  /\ reader = "none" /\ told = "none" /\ mtu = 0

Closes == CloseCancels \/ CloseFile
Hack == HackPolls \/ HackSends \/ HackWaits
Netlink == \/ (\E n \in 1..MaxLinkChanges : NetlinkReceives(n)) \/ NetlinkCancelled
           \/ NetlinkSends \/ NetlinkClosesSocket \/ NetlinkReturns

TunNext ==
  \/ LinkChanges \/ CreateFails \/ CreateTUNFromFile \/ CreateUnmonitoredTUNFromFD
  \/ (\E ok \in BOOLEAN : SetMTU(ok)) \/ NewDevice \/ CloseTun \/ Closes
  \/ Hack \/ Netlink \/ NetlinkFails \/ RoutineTUNEventReader

TunSpec == TunInit /\ [][TunNext]_tunVars

-----------------------------------------------------------------------------
TunTypeOK ==
  /\ events \in Seq({Up_, Down_, MTUUpdate}) /\ Len(events) <= EventsCap
  /\ nlSock \in {"none", "open", "closed"} /\ nlQueue \in Seq(BOOLEAN)
  /\ mtu \in Mtu \cup {0, MaxContentSize} /\ told \in {"none", Up_, Down_, UpFailed}

(* The events are closed once, when neither listener can send any more, and the netlink
   socket is closed once, except when setMTU has failed and its number may be another
   descriptor's by the second time. *)
TunEventsOpen ==
  /\ eventsClosed => hack.at \in {"none", "done"} /\ netlink.at \in {"none", "done"}
  /\ sockCloses > 1 => create = "failed"

(* After Close both listeners return, the events are closed and their reader ends, although
   the listeners may be waiting for the kernel, for room among the events or for each
   other.  The exception is a device that was closed before anybody read its events, while
   a listener waits for room. *)
TunListenersEnd ==
  closing # "none" ~>
    \/ /\ hack.at \in {"none", "done"} /\ netlink.at \in {"none", "done"}
       /\ reader \in {"none", "done"}
    \/ reader = "none" /\ ~ CanSend

(* When the interface settles, is up and stays open, the device ends up up, unless its last
   attempt failed, and has the interface's MTU, in whatever order the two listeners report,
   unless the netlink listener has failed.  A reported MTU is capped; the one NewDevice
   read is not. *)
TunConverges ==
  \/ []<>(~ running \/ ~ monitored \/ reader # "reads" \/ closing # "none" \/ nlSock = "closed"
            \/ netlink.at = "exit")
  \/ <>[](told \in {Up_, UpFailed} /\ mtu \in {kmtu, Capped(kmtu)})
=============================================================================

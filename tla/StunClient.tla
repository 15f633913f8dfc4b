----------------------------- MODULE StunClient -----------------------------
(***************************************************************************)
(* The STUN client of the command-line node (z/stun/client.go): goroutines *)
(* that send a binding request at every tick, and a goroutine that reads   *)
(* the replies, until Stop closes the channel stopChan.  Start and         *)
(* StartShared make a new channel and do not wait for the goroutines of    *)
(* the previous start, which go on with the fields of the new one.  An     *)
(* endpoint stands for what parse finds in a reply.                        *)
(***************************************************************************)
EXTENDS Naturals

CONSTANTS Endpoint,       \* public endpoints
          NoEndpoint,
          MaxStunStarts   \* bound on the calls of Start and StartShared

ASSUME StunAssumption == MaxStunStarts \in Nat \ {0} /\ NoEndpoint \notin Endpoint

StunStart == 1..MaxStunStarts

VARIABLES stunStarts,
          stopChan,         \* the channel in use, numbered by the start that made it
          closedChans,
          stunConn,         \* "nil", "open" or "closed"
          sendRequestFunc,  \* whether it is set
          publicEndpoint,
          onEndpointChanged, \* the start whose callback it is, 0 for nil
          listeners,        \* the listenLoop of each start: [at, cb]
          tickers           \* the goroutine of each start that sends: [at, shared, chan]

stunVars == <<stunStarts, stopChan, closedChans, stunConn, sendRequestFunc, publicEndpoint,
              onEndpointChanged, listeners, tickers>>

NoListener == [at |-> "none", cb |-> 0]
NoTicker == [at |-> "none", shared |-> FALSE, chan |-> 0]

(* The channel that the goroutine of start n finds in the client *)
StopChanSeen_Own(n) == n
StopChanSeen(n) == stopChan

-----------------------------------------------------------------------------
(* Start: the fields are set and listenLoop runs before the first request is sent. *)
Start ==
  LET n == stunStarts + 1
  IN  /\ stunStarts < MaxStunStarts
      /\ stunStarts' = n /\ stopChan' = n /\ onEndpointChanged' = n
      /\ stunConn' = "open"
      /\ listeners' = [listeners EXCEPT ![n].at = "select"]
      /\ tickers' = [tickers EXCEPT ![n].at = "first"]
      /\ UNCHANGED <<closedChans, sendRequestFunc, publicEndpoint>>

StartShared ==
  LET n == stunStarts + 1
  IN  /\ stunStarts < MaxStunStarts
      /\ stunStarts' = n /\ stopChan' = n /\ onEndpointChanged' = n
      /\ sendRequestFunc' = TRUE
      /\ tickers' = [tickers EXCEPT ![n] = [at |-> "first", shared |-> TRUE, chan |-> 0]]
      /\ UNCHANGED <<closedChans, stunConn, publicEndpoint, listeners>>

(* sendBindingRequest and sendBindingRequestShared: what can be sent may still fail. *)
MaySend(shared) == IF shared THEN sendRequestFunc ELSE stunConn = "open"

(* The first request; on an error the start returns it, and listenLoop stays. *)
FirstRequest(n) ==
  /\ tickers[n].at = "first"
  /\ \/ /\ MaySend(tickers[n].shared)
        /\ tickers' = [tickers EXCEPT ![n].at = "select"]
     \/ tickers' = [tickers EXCEPT ![n] = NoTicker]
  /\ UNCHANGED <<stunStarts, stopChan, closedChans, stunConn, sendRequestFunc, publicEndpoint,
                 onEndpointChanged, listeners>>

TickersChange ==
  UNCHANGED <<stunStarts, stopChan, closedChans, stunConn, sendRequestFunc, publicEndpoint,
              onEndpointChanged, listeners>>

(* select evaluates c.stopChan when it begins. *)
TickerSelects(n) ==
  /\ tickers[n].at = "select"
  /\ tickers' = [tickers EXCEPT ![n].at = "waiting", ![n].chan = StopChanSeen(n)]
  /\ TickersChange

Tick(n) ==
  /\ tickers[n].at = "waiting"
  /\ tickers' = [tickers EXCEPT ![n].at = "select", ![n].chan = 0]
  /\ TickersChange

TickerEnds(n) ==
  /\ tickers[n].at = "waiting" /\ tickers[n].chan \in closedChans
  /\ tickers' = [tickers EXCEPT ![n] = NoTicker]
  /\ TickersChange

-----------------------------------------------------------------------------
(* listenLoop *)
ListenSelects(n) ==
  /\ listeners[n].at = "select"
  /\ listeners' = [listeners EXCEPT ![n].at = IF StopChanSeen(n) \in closedChans THEN "none"
                                              ELSE "reading"]
  /\ UNCHANGED <<stunStarts, stopChan, closedChans, stunConn, sendRequestFunc, publicEndpoint,
                 onEndpointChanged, tickers>>

(* The deadline passes, the connection is closed, or no address is found. *)
ReadFails(n) ==
  /\ listeners[n].at = "reading"
  /\ listeners' = [listeners EXCEPT ![n].at = "select"]
  /\ UNCHANGED <<stunStarts, stopChan, closedChans, stunConn, sendRequestFunc, publicEndpoint,
                 onEndpointChanged, tickers>>

ReadReply(n, e) ==
  /\ listeners[n].at = "reading" /\ stunConn = "open"
  /\ publicEndpoint' = e
  /\ listeners' = [listeners EXCEPT ![n] = [at |-> "callback", cb |-> onEndpointChanged]]
  /\ UNCHANGED <<stunStarts, stopChan, closedChans, stunConn, sendRequestFunc,
                 onEndpointChanged, tickers>>

CallbackReturns(n) ==
  /\ listeners[n].at = "callback"
  /\ listeners' = [listeners EXCEPT ![n] = [at |-> "select", cb |-> 0]]
  /\ UNCHANGED <<stunStarts, stopChan, closedChans, stunConn, sendRequestFunc, publicEndpoint,
                 onEndpointChanged, tickers>>

(* ProcessPacket, called with what the device's socket has received *)
ProcessPacket(e) ==
  /\ publicEndpoint' = e
  /\ UNCHANGED <<stunStarts, stopChan, closedChans, stunConn, sendRequestFunc,
                 onEndpointChanged, listeners, tickers>>

(* Stop: closing the channel twice is avoided; nobody is waited for. *)
Stop ==
  /\ closedChans' = closedChans \cup {stopChan}
  /\ sendRequestFunc' = FALSE
  /\ stunConn' = IF stunConn = "nil" THEN "nil" ELSE "closed"
  /\ UNCHANGED <<stunStarts, stopChan, publicEndpoint, onEndpointChanged, listeners, tickers>>

-----------------------------------------------------------------------------
\* NewStunClient
StunInit ==
  /\ stunStarts = 0 /\ stopChan = 0 /\ closedChans = {}
  /\ stunConn = "nil" /\ sendRequestFunc = FALSE
  /\ publicEndpoint = NoEndpoint /\ onEndpointChanged = 0
  /\ listeners = [n \in StunStart |-> NoListener]
  /\ tickers = [n \in StunStart |-> NoTicker]

StunNext ==
  \/ Start \/ StartShared \/ Stop
  \/ \E n \in StunStart : \/ FirstRequest(n) \/ TickerSelects(n) \/ Tick(n) \/ TickerEnds(n)
                          \/ ListenSelects(n) \/ ReadFails(n) \/ CallbackReturns(n)
  \/ \E e \in Endpoint : ProcessPacket(e) \/ \E n \in StunStart : ReadReply(n, e)

StunSpec == StunInit /\ [][StunNext]_stunVars

TickerProgress(n) == FirstRequest(n) \/ TickerSelects(n) \/ Tick(n)
ListenProgress(n) == ListenSelects(n) \/ ReadFails(n) \/ CallbackReturns(n)

-----------------------------------------------------------------------------
StunTypeOK ==
  /\ stopChan \in 0..stunStarts /\ closedChans \subseteq 0..stunStarts
  /\ stunConn \in {"nil", "open", "closed"} /\ publicEndpoint \in Endpoint \cup {NoEndpoint}
  /\ \A n \in StunStart : tickers[n].chan \in 0..stunStarts /\ listeners[n].cb \in 0..stunStarts

(* After Stop, and until the next start, all goroutines of the client come to an end:
   those of earlier starts too, whose channel nobody closes, because they read
   c.stopChan anew in every round. *)
StunStops ==
  stopChan \in closedChans ~>
    \/ stopChan \notin closedChans
    \/ \A n \in StunStart : listeners[n].at = "none" /\ tickers[n].at = "none"
=============================================================================

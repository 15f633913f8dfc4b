--------------------------- MODULE SendPathProofs ---------------------------
(***************************************************************************)
(* Proofs about the send path, for every number of goroutines, elements,   *)
(* keypairs and every capacity of the queues: the types, that no nonce is  *)
(* used twice, that every element has one holder, that no packet is left   *)
(* in the staged queue, and that the encryption queue is open as long as   *)
(* it is written to.                                                       *)
(***************************************************************************)
EXTENDS SendPath, FiniteSetTheorems, TLAPS

-----------------------------------------------------------------------------
(* The inductive invariant                                                 *)

\* what a thread holds where it is in SendStagedPackets
LocalOK(t) ==
  /\ pc[t] = "number" => todo[t] # <<>>
  /\ pc[t] \notin {"number", "cap"} => todo[t] = <<>>
  /\ pc[t] \in {"cap", "stage", "drop"} => late[t] # <<>>
  /\ pc[t] \notin {"number", "cap", "stage", "drop"} => late[t] = <<>>
  /\ pc[t] \in {"queue", "out", "enc"} => kept[t] # <<>>
  /\ pc[t] \notin {"number", "cap", "stage", "drop", "queue", "out", "enc"} => kept[t] = <<>>
  /\ pc[t] \in {"take", "number", "cap", "queue", "out", "enc"} => key[t] # NoKey
  /\ pc[t] \in {"stage", "drop"} /\ kept[t] # <<>> => key[t] # NoKey
  /\ Len(todo[t]) + Len(kept[t]) + Len(late[t]) <= BatchSize

LocalInv == \A t \in Thread : LocalOK(t)

\* where the caller of Up, Down and Close is while the peer is being stopped
Down0 == {"start", "drain", "run", "timers", "nil", "wait", "zero", "flush", "closing",
          "joining", "closed"}

\* what runs while the peer does: its sender and its receivers
ControlInv ==
  /\ pc[ctl] \in Down0 => ~running
  /\ device = "down" => ~running \/ pc[ctl] = "stop"
  /\ pc[ctl] = "stop" => device # "up"
  /\ pc[ctl] \in {"start", "drain", "run"} => device = "up"
  /\ \A t \in Receiver : pc[t] # "off" => running \/ pc[ctl] \in {"run", "timers", "nil", "wait"}
  /\ sender # "off" => running \/ pc[ctl] \in {"run", "timers", "nil", "wait"}
  /\ running \/ pc[ctl] \in {"run", "timers", "nil"} => sender # "off"
  /\ \A t \in Timer : pc[t] \in {"out", "enc"} => running \/ pc[ctl] = "timers"

\* the sentinel is in the queue only while Stop waits for the sender to take it
NilInv ==
  /\ box = <<>> <=> sender \in {"off", "loop"}
  /\ \A m \in DOMAIN outbound : outbound[m] = Nil => pc[ctl] = "wait" /\ sender # "off"
  /\ \A m, n \in DOMAIN outbound : outbound[m] = Nil /\ outbound[n] = Nil => m = n

\* the references to the encryption queue, by holder
OwnRef == IF pc[ctl] \in {"joining", "closed"} THEN 0 ELSE 1
TunRef == IF pc[tun] = "off" THEN 0 ELSE 1
WorkersOn == {t \in Worker : pc[t] # "off"}
PeerRef == IF running \/ pc[ctl] \in {"drain", "run", "timers", "nil", "wait"} THEN 1 ELSE 0

WriterInv == writers = OwnRef + TunRef + Cardinality(WorkersOn) + PeerRef

\* a staged packet that could be sent is seen by a thread that is under way, when every
\* start sends a keepalive
StagedInv ==
  0 \notin Intervals /\ device = "up" /\ Usable(current) /\ staged # <<>> => \E t \in Thread : pc[t] \notin {"idle", "off"}

\* threads that have read a nonce beyond the limit and not yet reset the counter
Capping(k) == {t \in Thread : pc[t] = "cap" /\ key[t] = k}

NonceInv ==
  /\ \A k \in Key : sendNonce[k] <= RejectAfterMessages + Cardinality(Capping(k))
  /\ \A e \in Elem : keypair[e] # NoKey =>
       nonce[e] < RejectAfterMessages /\ nonce[e] < sendNonce[keypair[e]]
  /\ \A k \in Key, n \in 0..(NonceSpace - 1) : <<k, n>> \in wire =>
       n < RejectAfterMessages /\ n < sendNonce[k]

\* a container holds an element once, a queue holds it in one container
Once(c) == \A i, j \in DOMAIN c : c[i] = c[j] => i = j
Loads(q) == UNION {Members(q[i]) : i \in {j \in DOMAIN q : q[j] # Nil}}
Apart(q) ==
  \A i, j \in DOMAIN q : q[i] # Nil /\ q[j] # Nil =>
    /\ Once(q[i])
    /\ i # j => Members(q[i]) \cap Members(q[j]) = {}

OnceInv ==
  /\ Apart(staged) /\ Apart(outbound) /\ Once(box)
  /\ \A t \in Thread : Once(todo[t]) /\ Once(kept[t]) /\ Once(late[t])

Kinds == {"free", "staged", "outbound", "box", "todo", "kept", "late"}

\* kind and who give every element the one place where it is
Holds(kind, who) ==
  \A e \in Elem :
    /\ e \in free <=> kind[e] = "free"
    /\ e \in Loads(staged) <=> kind[e] = "staged"
    /\ e \in Loads(outbound) <=> kind[e] = "outbound"
    /\ e \in Members(box) <=> kind[e] = "box"
    /\ \A t \in Thread :
         /\ e \in Members(todo[t]) <=> kind[e] = "todo" /\ who[e] = t
         /\ e \in Members(late[t]) <=> kind[e] = "late" /\ who[e] = t
         /\ e \in Members(kept[t]) /\ pc[t] # "enc" <=> kind[e] = "kept" /\ who[e] = t
    /\ keypair[e] # NoKey <=> kind[e] \in {"outbound", "box", "kept"}

PlaceInv == \E kind \in [Elem -> Kinds], who \in [Elem -> Thread] : Holds(kind, who)

SendInv ==
  /\ TypeOK /\ LocalInv /\ ControlInv /\ NilInv /\ WriterInv /\ StagedInv
  /\ NonceInv /\ OnceInv /\ PlaceInv /\ NoNonceReuse

-----------------------------------------------------------------------------
(* Containers and queues of containers                                     *)

\* A container is a sequence of one to BatchSize elements.
LEMMA ContainerIs ==
  /\ Container = {c \in Seq(Elem) : Len(c) \in 1..BatchSize}
  /\ Partial = {c \in Seq(Elem) : Len(c) <= BatchSize}
  /\ Nil \notin Partial
<1>1. BatchSize \in Nat \ {0}
  BY SizeAssumption
<1>2. ASSUME NEW c \in Container PROVE c \in Seq(Elem) /\ Len(c) \in 1..BatchSize
  <2>1. PICK n \in 1..BatchSize : c \in [1..n -> Elem]
    BY DEF Container
  <2> QED
    BY <2>1, <1>1
<1>3. ASSUME NEW c \in Seq(Elem), Len(c) \in 1..BatchSize PROVE c \in Container
  <2>1. c \in [1..Len(c) -> Elem]
    OBVIOUS
  <2> QED
    BY <2>1, <1>3 DEF Container
<1>4. Container = {c \in Seq(Elem) : Len(c) \in 1..BatchSize}
  BY <1>2, <1>3
<1>5. ASSUME NEW c \in Seq(Elem), Len(c) <= BatchSize PROVE c \in Partial
  <2>1. CASE Len(c) = 0
    BY <2>1 DEF Partial
  <2>2. CASE Len(c) # 0
    BY <2>2, <1>5, <1>3, <1>1 DEF Partial
  <2> QED
    BY <2>1, <2>2
<1>6. ASSUME NEW c \in Partial PROVE c \in Seq(Elem) /\ Len(c) <= BatchSize
  <2>1. CASE c = <<>>
    BY <2>1, <1>1
  <2>2. CASE c # <<>>
    BY <2>2, <1>1, <1>4 DEF Partial
  <2> QED
    BY <2>1, <2>2
<1>7. Nil \notin Partial
  BY <1>6, SizeAssumption
<1> QED
  BY <1>4, <1>5, <1>6, <1>7

\* The elements of a queue whose first container was taken.
LEMMA QueueTail ==
  ASSUME NEW q \in Seq(Container \cup {Nil}), q # <<>>, Apart(q)
  PROVE  /\ Apart(Tail(q))
         /\ Head(q) = Nil => Loads(Tail(q)) = Loads(q)
         /\ Head(q) # Nil => /\ Loads(Tail(q)) = Loads(q) \ Members(Head(q))
                             /\ Members(Head(q)) \subseteq Loads(q)
                             /\ Once(Head(q))
<1>1. /\ Tail(q) \in Seq(Container \cup {Nil}) /\ Len(Tail(q)) = Len(q) - 1 /\ Len(q) \in Nat \ {0}
      /\ \A j \in DOMAIN Tail(q) : Tail(q)[j] = q[j + 1] /\ j + 1 \in DOMAIN q
      /\ Head(q) = q[1] /\ 1 \in DOMAIN q
      /\ DOMAIN q = 1..Len(q) /\ DOMAIN Tail(q) = 1..(Len(q) - 1)
  OBVIOUS
<1>2. \A j \in DOMAIN q : j # 1 => j - 1 \in DOMAIN Tail(q) /\ Tail(q)[j - 1] = q[j]
  BY <1>1
<1>3. Apart(Tail(q))
  BY <1>1 DEF Apart
<1>4. \A e : e \in Loads(Tail(q)) <=> \E j \in DOMAIN q : j # 1 /\ q[j] # Nil /\ e \in Members(q[j])
  <2>1. ASSUME NEW e, NEW j \in DOMAIN Tail(q), Tail(q)[j] # Nil, e \in Members(Tail(q)[j])
        PROVE  \E m \in DOMAIN q : m # 1 /\ q[m] # Nil /\ e \in Members(q[m])
    <3>1. j + 1 \in DOMAIN q /\ j + 1 # 1 /\ Tail(q)[j] = q[j + 1]
      BY <1>1
    <3> QED
      BY <2>1, <3>1
  <2>2. ASSUME NEW e, NEW j \in DOMAIN q, j # 1, q[j] # Nil, e \in Members(q[j])
        PROVE  \E m \in DOMAIN Tail(q) : Tail(q)[m] # Nil /\ e \in Members(Tail(q)[m])
    BY <2>2, <1>2
  <2>3. \A e : e \in Loads(Tail(q)) <=>
              \E m \in DOMAIN Tail(q) : Tail(q)[m] # Nil /\ e \in Members(Tail(q)[m])
    BY DEF Loads
  <2> QED
    BY <2>1, <2>2, <2>3
<1>5. \A e : e \in Loads(q) <=> \E j \in DOMAIN q : q[j] # Nil /\ e \in Members(q[j])
  BY DEF Loads
<1>6. CASE Head(q) = Nil
  BY <1>1, <1>3, <1>4, <1>5, <1>6
<1>7. CASE Head(q) # Nil
  <2>1. Once(Head(q)) /\ Members(Head(q)) \subseteq Loads(q)
    BY <1>1, <1>5, <1>7 DEF Apart
  <2>2. \A j \in DOMAIN q : j # 1 /\ q[j] # Nil => Members(q[1]) \cap Members(q[j]) = {}
    BY <1>1, <1>7 DEF Apart
  <2> QED
    BY <1>1, <1>3, <1>4, <1>5, <1>7, <2>1, <2>2
<1> QED
  BY <1>6, <1>7

\* The elements of a queue to which a container or the sentinel was added.
LEMMA QueueAppend ==
  ASSUME NEW q \in Seq(Container \cup {Nil}), NEW c \in Container \cup {Nil}, Apart(q),
         c # Nil => Once(c) /\ Members(c) \cap Loads(q) = {}
  PROVE  /\ Apart(Append(q, c))
         /\ Loads(Append(q, c)) = IF c = Nil THEN Loads(q) ELSE Loads(q) \cup Members(c)
<1> DEFINE a == Append(q, c)
           l == Len(q) + 1
<1>1. /\ DOMAIN q = 1..Len(q) /\ DOMAIN a = 1..l /\ Len(q) \in Nat
      /\ \A j \in DOMAIN q : a[j] = q[j]
      /\ a[l] = c
  OBVIOUS
<1>2. /\ DOMAIN a = DOMAIN q \cup {l} /\ l \notin DOMAIN q
      /\ \A j \in DOMAIN q : a[j] = q[j]
      /\ a[l] = c
  BY <1>1
<1> HIDE DEF a, l
<1>3. \A e : e \in Loads(q) <=> \E j \in DOMAIN q : q[j] # Nil /\ e \in Members(q[j])
  BY DEF Loads
<1>4. \A e : e \in Loads(a) <=> \E j \in DOMAIN a : a[j] # Nil /\ e \in Members(a[j])
  BY DEF Loads
<1>5. Loads(a) = IF c = Nil THEN Loads(q) ELSE Loads(q) \cup Members(c)
  <2>1. \A e : e \in Loads(a) <=> e \in Loads(q) \/ (c # Nil /\ e \in Members(c))
    BY <1>2, <1>3, <1>4
  <2> QED
    BY <2>1
<1>6. Apart(a)
  <2> SUFFICES ASSUME NEW i \in DOMAIN a, NEW j \in DOMAIN a, a[i] # Nil, a[j] # Nil
               PROVE  Once(a[i]) /\ (i # j => Members(a[i]) \cap Members(a[j]) = {})
    BY DEF Apart
  <2>1. CASE i = l /\ j = l
    BY <2>1, <1>2
  <2>2. CASE i # l /\ j # l
    BY <2>2, <1>2 DEF Apart
  <2>3. CASE i = l /\ j # l
    BY <2>3, <1>2, <1>3
  <2>4. CASE i # l /\ j = l
    <3>1. Once(a[i])
      BY <2>4, <1>2 DEF Apart
    <3> QED
      BY <3>1, <2>4, <1>2, <1>3
  <2> QED
    BY <2>1, <2>2, <2>3, <2>4
<1> QED
  BY <1>5, <1>6 DEF a

\* The elements of a container from which the first one was taken, or to which
\* one was added.
LEMMA ContainerSteps ==
  ASSUME NEW c \in Seq(Elem), Once(c)
  PROVE  /\ Members(<<>>) = {} /\ Once(<<>>)
         /\ c # <<>> => /\ Once(Tail(c)) /\ Head(c) \in Members(c)
                        /\ Members(Tail(c)) = Members(c) \ {Head(c)}
         /\ \A e \in Elem : /\ Members(Append(c, e)) = Members(c) \cup {e}
                            /\ e \notin Members(c) => Once(Append(c, e))
         /\ c # <<>> => \E e \in Elem : e \in Members(c)
         /\ Members(c) \subseteq Elem
<1>1. Members(<<>>) = {} /\ Once(<<>>)
  BY DEF Members, Once
<1>2. ASSUME c # <<>>
      PROVE  Once(Tail(c)) /\ Head(c) \in Members(c) /\ Members(Tail(c)) = Members(c) \ {Head(c)}
  <2>1. /\ DOMAIN c = 1..Len(c) /\ DOMAIN Tail(c) = 1..(Len(c) - 1) /\ Len(c) \in Nat \ {0}
        /\ \A j \in DOMAIN Tail(c) : Tail(c)[j] = c[j + 1]
        /\ Head(c) = c[1]
    BY <1>2
  <2>2. \A j \in DOMAIN c : j # 1 => j - 1 \in DOMAIN Tail(c) /\ Tail(c)[j - 1] = c[j]
    BY <2>1
  <2>3. \A j \in DOMAIN Tail(c) : j + 1 \in DOMAIN c /\ j + 1 # 1 /\ Tail(c)[j] = c[j + 1]
    BY <2>1
  <2>4. Once(Tail(c)) /\ Head(c) \in Members(c)
    BY <2>1, <2>3 DEF Once, Members
  <2>5. \A e : e \in Members(Tail(c)) <=> e \in Members(c) /\ e # Head(c)
    <3>1. ASSUME NEW e, e \in Members(Tail(c)) PROVE e \in Members(c) /\ e # Head(c)
      BY <3>1, <2>1, <2>3 DEF Once, Members
    <3>2. ASSUME NEW e, e \in Members(c), e # Head(c) PROVE e \in Members(Tail(c))
      <4>1. PICK j \in DOMAIN c : e = c[j]
        BY <3>2 DEF Members
      <4>2. j # 1
        BY <4>1, <3>2, <2>1
      <4> QED
        BY <4>1, <4>2, <2>2 DEF Members
    <3> QED
      BY <3>1, <3>2
  <2> QED
    BY <2>4, <2>5
<1>3. ASSUME NEW e \in Elem
      PROVE  /\ Members(Append(c, e)) = Members(c) \cup {e}
             /\ e \notin Members(c) => Once(Append(c, e))
  <2>1. /\ DOMAIN c = 1..Len(c) /\ DOMAIN Append(c, e) = 1..(Len(c) + 1) /\ Len(c) \in Nat
        /\ \A j \in DOMAIN c : Append(c, e)[j] = c[j]
        /\ Append(c, e)[Len(c) + 1] = e
    OBVIOUS
  <2>2. DOMAIN Append(c, e) = DOMAIN c \cup {Len(c) + 1} /\ Len(c) + 1 \notin DOMAIN c
    BY <2>1
  <2> QED
    BY <2>1, <2>2 DEF Members, Once
<1>4. c # <<>> => \E e \in Elem : e \in Members(c)
  BY DEF Members
<1>5. Members(c) \subseteq Elem
  BY DEF Members
<1> QED
  BY <1>1, <1>2, <1>3, <1>4, <1>5

-----------------------------------------------------------------------------
(* Frames: which steps change which variables                              *)

\* The steps that change a group of variables; the others leave it alone.
LEMMA Frames ==
  ASSUME [Next]_vars
  PROVE  /\ \/ UNCHANGED life
            \/ Start \/ FinishStart \/ Stop \/ StopWait \/ CloseQueues \/ Up \/ Down \/ Close
            \/ \E t \in Thread : Exit(t)
         /\ \/ UNCHANGED events
            \/ KeypairAges \/ ExpireCurrentKeypairs \/ \E t \in Timer : TimerExpires(t)
         /\ \/ UNCHANGED queues
            \/ RoutineEncryption \/ SenderTake \/ FlushOutbound \/ StopSender
            \/ \E t \in Thread : \/ OfferKeepalive(t) \/ StagePackets(t) \/ DropTooOld(t)
                                 \/ TakeStaged(t) \/ SendOutbound(t) \/ SendEncryption(t)
                                 \/ FlushStagedPackets(t)
         /\ \/ UNCHANGED elems
            \/ RoutineReadFromTUN \/ SenderFinish \/ FlushOutbound
            \/ \E t \in Thread : \/ OfferKeepalive(t) \/ DropTooOld(t) \/ Number(t)
                                 \/ CheckRunning(t) \/ FlushStagedPackets(t)
         /\ \/ UNCHANGED keys
            \/ KeypairAges \/ ExpireCurrentKeypairs
            \/ \E t \in Thread : Number(t) \/ CapNonce(t) \/ ZeroKeypairs(t)
            \/ \E t \in Worker : BeginSymmetricSession(t)
            \/ \E t \in Receiver : ReceivedWithKeypair(t)
         /\ \/ UNCHANGED locals
            \/ RoutineReadFromTUN
            \/ \E t \in Thread : \/ StagePackets(t) \/ Top(t) \/ PickKeypair(t) \/ TakeStaged(t)
                                 \/ Number(t) \/ CheckRunning(t) \/ SendEncryption(t)
         /\ UNCHANGED sequential \/ SenderTake \/ SenderFinish \/ FlushOutbound
<1> USE DEF Next, Step, SendStagedPackets, Lifecycle, Sender, vars,
       life, queues, elems, keys, locals, sequential,
       SendKeepalive, OfferKeepalive, StagePackets, DropTooOld, Top, PickKeypair, TakeStaged, Number,
       CapNonce, CheckRunning, SendOutbound, SendEncryption, ZeroKeypairs, FlushStagedPackets, Exit,
       Start, FlushOutbound, FinishStart, AfterStart, Stop, StopTimers, StopSender, StopWait, CloseQueues,
       CloseReturn, SenderTake, SenderFinish, RoutineEncryption, RoutineReadFromTUN, KeypairAges,
       ExpireCurrentKeypairs, Up, Down, Close, BeginSymmetricSession, TimerExpires,
       ReceivedWithKeypair, ReceiverExit
<1>1. \/ UNCHANGED life
      \/ Start \/ FinishStart \/ Stop \/ StopWait \/ CloseQueues \/ Up \/ Down \/ Close
      \/ \E t \in Thread : Exit(t)
  BY SMTT(20)
<1>2. \/ UNCHANGED events
      \/ KeypairAges \/ ExpireCurrentKeypairs \/ \E t \in Timer : TimerExpires(t)
  BY SMTT(20)
<1>3. \/ UNCHANGED queues
      \/ RoutineEncryption \/ SenderTake \/ FlushOutbound \/ StopSender
      \/ \E t \in Thread : \/ OfferKeepalive(t) \/ StagePackets(t) \/ DropTooOld(t)
                           \/ TakeStaged(t) \/ SendOutbound(t) \/ SendEncryption(t)
                           \/ FlushStagedPackets(t)
  BY SMTT(20)
<1>4. \/ UNCHANGED elems
      \/ RoutineReadFromTUN \/ SenderFinish \/ FlushOutbound
      \/ \E t \in Thread : \/ OfferKeepalive(t) \/ DropTooOld(t) \/ Number(t)
                           \/ CheckRunning(t) \/ FlushStagedPackets(t)
  BY SMTT(20)
<1>5. \/ UNCHANGED keys
      \/ KeypairAges \/ ExpireCurrentKeypairs
      \/ \E t \in Thread : Number(t) \/ CapNonce(t) \/ ZeroKeypairs(t)
      \/ \E t \in Worker : BeginSymmetricSession(t)
      \/ \E t \in Receiver : ReceivedWithKeypair(t)
  BY SMTT(20)
<1>6. \/ UNCHANGED locals
      \/ RoutineReadFromTUN
      \/ \E t \in Thread : \/ StagePackets(t) \/ Top(t) \/ PickKeypair(t) \/ TakeStaged(t)
                           \/ Number(t) \/ CheckRunning(t) \/ SendEncryption(t)
  BY SMTT(20)
<1>7. UNCHANGED sequential \/ SenderTake \/ SenderFinish \/ FlushOutbound
  BY SMTT(20)
<1> QED
  BY <1>1, <1>2, <1>3, <1>4, <1>5, <1>6, <1>7, Zenon

\* A step moves one goroutine, or starts those of the peer.
LEMMA OneMoves ==
  ASSUME pc \in [Thread -> PC], device \in {"down", "up", "closed"}, [Next]_vars
  PROVE  FlushOutbound \/ \E t \in Thread, l \in PC : pc' = [pc EXCEPT ![t] = l]
<1>1. {tun, ctl} \cup Worker \cup Timer \cup Receiver \subseteq Thread
  BY DEF Thread
<1>2. \A t \in Thread : pc[t] \in PC /\ pc = [pc EXCEPT ![t] = pc[t]]
  OBVIOUS
<1>3. CASE \E t \in Thread : Step(t)
  <2>1. PICK t \in Thread : Step(t)
    BY <1>3
  <2>2. \E l \in PC : pc' = [pc EXCEPT ![t] = l]
    BY <2>1, <1>2 DEF Step, SendStagedPackets, Goto, From, PC, Continue, AfterElement, AfterStop,
       SendKeepalive, OfferKeepalive, StagePackets, DropTooOld, Top, PickKeypair, TakeStaged, Number,
       CapNonce, CheckRunning, SendOutbound, SendEncryption, ZeroKeypairs, FlushStagedPackets, Exit
  <2> QED
    BY <2>2
<1>4. CASE Lifecycle \/ Up \/ Down \/ Close
  <2>1. FlushOutbound \/ \E l \in PC : pc' = [pc EXCEPT ![ctl] = l]
    BY <1>4 DEF Lifecycle, Start, FinishStart, AfterStart, Stop, StopTimers, StopSender, StopWait,
       CloseQueues, CloseReturn, Up, Down, Close, Goto, From, PC, AfterStop
  <2> QED
    BY <2>1, <1>1
<1>5. CASE Sender \/ RoutineEncryption \/ KeypairAges \/ ExpireCurrentKeypairs \/ UNCHANGED vars
  <2>1. pc' = pc
    BY <1>5 DEF Sender, SenderTake, SenderFinish, RoutineEncryption, KeypairAges,
       ExpireCurrentKeypairs, vars
  <2>2. ctl \in Thread
    BY <1>1
  <2> QED
    BY <2>1, <2>2, <1>2
<1>6. CASE RoutineReadFromTUN
  BY <1>6, <1>1 DEF RoutineReadFromTUN, Goto, From, PC
<1>7. ASSUME NEW t \in Worker, BeginSymmetricSession(t)
      PROVE  \E l \in PC : pc' = [pc EXCEPT ![t] = l]
  BY <1>7 DEF BeginSymmetricSession, Goto, From, PC
<1>8. ASSUME NEW t \in Timer, TimerExpires(t)
      PROVE  \E l \in PC : pc' = [pc EXCEPT ![t] = l]
  BY <1>8 DEF TimerExpires, Goto, From, PC
<1>9. ASSUME NEW t \in Receiver, ReceivedWithKeypair(t) \/ ReceiverExit(t)
      PROVE  \E l \in PC : pc' = [pc EXCEPT ![t] = l]
  BY <1>9 DEF ReceivedWithKeypair, ReceiverExit, Goto, From, PC
<1> QED
  BY <1>1, <1>3, <1>4, <1>5, <1>6, <1>7, <1>8, <1>9 DEF Next

-----------------------------------------------------------------------------
(* Types                                                                   *)

LifeTypes ==
  /\ device \in {"down", "up", "closed"} /\ running \in BOOLEAN
  /\ ups \in 0..MaxUp /\ events \in 0..MaxEvent
  /\ writers \in Nat
QueueTypes ==
  /\ staged \in Seq(Container) /\ Len(staged) <= QueueStagedSize
  /\ outbound \in Seq(Container \cup {Nil}) /\ Len(outbound) <= QueueOutboundSize
  /\ encryption \subseteq Container
ElemTypes ==
  /\ free \subseteq Elem
  /\ keypair \in [Elem -> 0..MaxKey] /\ nonce \in [Elem -> 0..(NonceSpace - 1)]
KeyTypes ==
  /\ current \in 0..MaxKey /\ derived \in 0..MaxKey
  /\ sendNonce \in [Key -> 0..(NonceSpace - 1)] /\ old \subseteq Key
LocalTypes ==
  /\ pc \in [Thread -> PC]
  /\ key \in [Thread -> 0..MaxKey]
  /\ todo \in [Thread -> Partial] /\ kept \in [Thread -> Partial] /\ late \in [Thread -> Partial]
  /\ again \in [Thread -> BOOLEAN]
SenderTypes ==
  /\ sender \in {"off", "loop", "send", "discard"} /\ box \in Partial
  /\ wire \subseteq Key \X (0..(NonceSpace - 1))

\* The type invariant, by group of variables.
LEMMA TypeParts ==
  TypeOK <=> LifeTypes /\ QueueTypes /\ ElemTypes /\ KeyTypes /\ LocalTypes /\ SenderTypes
BY DEF TypeOK, LifeTypes, QueueTypes, ElemTypes, KeyTypes, LocalTypes, SenderTypes

\* The constants are numbers.
LEMMA Numbers ==
  /\ BatchSize \in Nat \ {0} /\ QueueStagedSize \in Nat \ {0} /\ QueueOutboundSize \in Nat \ {0}
  /\ MaxKey \in Nat /\ MaxUp \in Nat /\ MaxEvent \in Nat
  /\ RejectAfterMessages \in Nat \ {0} /\ NonceSpace \in Nat \ {0}
  /\ IsFiniteSet(Thread) /\ Cardinality(Thread) \in Nat
  /\ RejectAfterMessages + Cardinality(Thread) < NonceSpace
  /\ IsFiniteSet(Worker) /\ Cardinality(Worker) \in Nat
  /\ {tun, ctl} \subseteq Thread /\ Worker \subseteq Thread /\ Timer \subseteq Thread
  /\ Receiver \subseteq Thread
<1>1. {tun, ctl} \subseteq Thread /\ Worker \subseteq Thread /\ Timer \subseteq Thread
      /\ Receiver \subseteq Thread
  BY DEF Thread
<1>2. IsFiniteSet(Thread) /\ IsFiniteSet(Worker)
  BY <1>1, ThreadAssumption, FS_Subset
<1>3. Cardinality(Thread) \in Nat /\ Cardinality(Worker) \in Nat
  BY <1>2, FS_CardinalityType
<1> QED
  BY <1>1, <1>2, <1>3, SizeAssumption, NonceAssumption

\* Members of a container are elements.
LEMMA MembersAre ==
  ASSUME NEW c \in Partial
  PROVE  Members(c) \subseteq Elem /\ (c = <<>> => Members(c) = {})
BY ContainerIs DEF Members

\* Elements that are put back keep their types.
LEMMA PutTypes ==
  ASSUME NEW c \in Partial, ElemTypes, Put(c)
  PROVE  ElemTypes'
<1>1. Members(c) \subseteq Elem
  BY MembersAre
<1>2. 0 \in 0..MaxKey /\ 0 \in 0..(NonceSpace - 1)
  BY Numbers
<1> QED
  BY <1>1, <1>2 DEF Put, ElemTypes, NoKey

\* A queue with room takes another entry.
LEMMA AppendTypes ==
  ASSUME NEW S, NEW q \in Seq(S), NEW c \in S, NEW m \in Nat, Len(q) < m
  PROVE  Append(q, c) \in Seq(S) /\ Len(Append(q, c)) <= m
OBVIOUS

\* The first container of a queue.
LEMMA HeadTypes ==
  ASSUME QueueTypes
  PROVE  /\ staged # <<>> => Head(staged) \in Container /\ Tail(staged) \in Seq(Container)
                             /\ Len(Tail(staged)) <= QueueStagedSize
         /\ outbound # <<>> => /\ Head(outbound) \in Container \cup {Nil}
                               /\ Tail(outbound) \in Seq(Container \cup {Nil})
                               /\ Len(Tail(outbound)) <= QueueOutboundSize
BY Numbers DEF QueueTypes

\* The number of references is at least one where a reference is given back.
LEMMA WritersLeft ==
  ASSUME SendInv
  PROVE  /\ writers \in Nat
         /\ running \/ pc[ctl] \in {"drain", "run", "timers", "nil", "wait"} => writers > 0
         /\ pc[ctl] \notin {"joining", "closed"} => writers > 0
         /\ pc[tun] # "off" => writers > 0
         /\ \A t \in Worker : pc[t] # "off" => writers > 0
<1>1. IsFiniteSet(WorkersOn) /\ Cardinality(WorkersOn) \in Nat
  BY Numbers, FS_Subset, FS_CardinalityType DEF WorkersOn
<1>2. \A t \in Worker : pc[t] # "off" => Cardinality(WorkersOn) # 0
  BY <1>1, FS_EmptySet DEF WorkersOn
<1>3. OwnRef \in {0, 1} /\ TunRef \in {0, 1} /\ PeerRef \in {0, 1}
  BY DEF OwnRef, TunRef, PeerRef
<1>4. writers = OwnRef + TunRef + Cardinality(WorkersOn) + PeerRef
  BY DEF SendInv, WriterInv
<1>5. writers \in Nat
  BY <1>1, <1>3, <1>4
<1>6. running \/ pc[ctl] \in {"drain", "run", "timers", "nil", "wait"} => PeerRef = 1
  BY DEF PeerRef
<1>7. pc[ctl] \notin {"joining", "closed"} => OwnRef = 1
  BY DEF OwnRef
<1>8. pc[tun] # "off" => TunRef = 1
  BY DEF TunRef
<1>9. \A c \in Nat : writers = OwnRef + TunRef + c + PeerRef =>
        (OwnRef = 1 \/ TunRef = 1 \/ PeerRef = 1 \/ c # 0 => writers > 0)
  BY <1>3
<1>10. OwnRef = 1 \/ TunRef = 1 \/ PeerRef = 1 \/ Cardinality(WorkersOn) # 0 => writers > 0
  BY <1>1, <1>4, <1>9
<1> HIDE DEF OwnRef, TunRef, PeerRef
<1> QED
  BY <1>2, <1>5, <1>6, <1>7, <1>8, <1>10

\* Types of the lifecycle.
LEMMA LifeTypesStep == SendInv /\ [Next]_vars => LifeTypes'
<1> SUFFICES ASSUME SendInv, [Next]_vars PROVE LifeTypes'
  OBVIOUS
<1>1. LifeTypes /\ LocalTypes
  BY TypeParts DEF SendInv
<1>2. events' \in 0..MaxEvent
  BY <1>1, Frames, Numbers DEF LifeTypes, KeypairAges, ExpireCurrentKeypairs, TimerExpires, Event
<1>3. CASE UNCHANGED life
  BY <1>1, <1>2, <1>3 DEF LifeTypes, life
<1>4. CASE Start \/ FinishStart \/ Stop \/ Up \/ Down \/ Close
  <2>1. writers' \in Nat
    BY <1>1, <1>4 DEF LifeTypes, Start, FinishStart, AfterStart, Stop, Up, Down, Close
  <2>2. ups' \in 0..MaxUp
    BY <1>1, <1>4, Numbers DEF LifeTypes, Start, FinishStart, AfterStart, Stop, Up, Down, Close
  <2>3. device' \in {"down", "up", "closed"} /\ running' \in BOOLEAN
    BY <1>1, <1>4 DEF LifeTypes, Start, FinishStart, AfterStart, Stop, Up, Down, Close
  <2> QED
    BY <1>2, <2>1, <2>2, <2>3 DEF LifeTypes
<1>5. CASE StopWait \/ CloseQueues \/ \E t \in Thread : Exit(t)
  <2>1. writers' = writers - 1 /\ UNCHANGED <<device, ups, running>>
    BY <1>5 DEF StopWait, CloseQueues, Exit
  <2>2. writers > 0
    BY <1>5, WritersLeft DEF StopWait, CloseQueues, Exit, From
  <2> QED
    BY <1>1, <1>2, <2>1, <2>2 DEF LifeTypes
<1> QED
  BY <1>3, <1>4, <1>5, Frames

\* Types of the queues: no channel exceeds its capacity.
LEMMA QueueTypesStep == SendInv /\ [Next]_vars => QueueTypes'
<1> SUFFICES ASSUME SendInv, [Next]_vars PROVE QueueTypes'
  OBVIOUS
<1>1. QueueTypes /\ ElemTypes /\ LocalTypes
  BY TypeParts DEF SendInv
<1>2. CASE UNCHANGED queues
  BY <1>1, <1>2 DEF QueueTypes, queues
<1>3. CASE RoutineEncryption
  BY <1>1, <1>3 DEF QueueTypes, RoutineEncryption
<1>4. CASE SenderTake
  BY <1>1, <1>4, HeadTypes DEF QueueTypes, SenderTake
<1>5. CASE FlushOutbound
  BY <1>1, <1>5, HeadTypes DEF QueueTypes, FlushOutbound
<1>6. CASE StopSender
  BY <1>1, <1>6, Numbers DEF QueueTypes, StopSender
<1>7. ASSUME NEW t \in Thread, OfferKeepalive(t) PROVE QueueTypes'
  <2>1. \A e \in free : <<e>> \in Container
    BY <1>1, ContainerIs, Numbers DEF ElemTypes
  <2>2. PICK e \in free :
          IF Len(staged) < QueueStagedSize THEN staged' = Append(staged, <<e>>) ELSE UNCHANGED staged
    BY <1>7 DEF OfferKeepalive
  <2>3. PICK c \in Container : c = <<e>>
    BY <2>1
  <2>4. staged' \in Seq(Container) /\ Len(staged') <= QueueStagedSize
    <3>1. staged \in Seq(Container) /\ Len(staged) <= QueueStagedSize
      BY <1>1 DEF QueueTypes
    <3>2. Len(staged) < QueueStagedSize => Append(staged, c) \in Seq(Container)
            /\ Len(Append(staged, c)) <= QueueStagedSize
      BY <3>1, Numbers, AppendTypes
    <3> QED
      BY <2>2, <2>3, <3>1, <3>2
  <2> QED
    BY <1>1, <1>7, <2>4 DEF QueueTypes, OfferKeepalive
<1>8. ASSUME NEW t \in Thread, StagePackets(t) PROVE QueueTypes'
  <2>1. late[t] \in Container
    BY <1>1, <1>8 DEF SendInv, LocalInv, LocalOK, LocalTypes, StagePackets, Partial
  <2>2. staged' \in Seq(Container) /\ Len(staged') <= QueueStagedSize
    <3>1. staged \in Seq(Container) /\ Len(staged) <= QueueStagedSize
      BY <1>1 DEF QueueTypes
    <3>2. Len(staged) < QueueStagedSize => Append(staged, late[t]) \in Seq(Container)
            /\ Len(Append(staged, late[t])) <= QueueStagedSize
      BY <2>1, <3>1, Numbers, AppendTypes
    <3> QED
      BY <1>8, <3>1, <3>2 DEF StagePackets
  <2> QED
    BY <1>1, <1>8, <2>2 DEF QueueTypes, StagePackets
<1>9. ASSUME NEW t \in Thread, DropTooOld(t) \/ TakeStaged(t) \/ FlushStagedPackets(t)
      PROVE  QueueTypes'
  BY <1>1, <1>9, HeadTypes DEF QueueTypes, DropTooOld, TakeStaged, FlushStagedPackets
<1>10. ASSUME NEW t \in Thread, SendOutbound(t) \/ SendEncryption(t) PROVE QueueTypes'
  <2>1. kept[t] \in Container
    BY <1>1, <1>10 DEF SendInv, LocalInv, LocalOK, LocalTypes, SendOutbound, SendEncryption, From, Partial
  <2>2. CASE SendOutbound(t)
    BY <1>1, <2>1, <2>2, Numbers DEF QueueTypes, SendOutbound
  <2>3. CASE SendEncryption(t)
    BY <1>1, <2>1, <2>3 DEF QueueTypes, SendEncryption
  <2> QED
    BY <1>10, <2>2, <2>3
<1> QED
  BY <1>2, <1>3, <1>4, <1>5, <1>6, <1>7, <1>8, <1>9, <1>10, Frames

\* What a thread has at "number" and "cap".
LEMMA NumberHas ==
  ASSUME SendInv, NEW t \in Thread
  PROVE  /\ pc[t] \in {"number", "cap"} => key[t] \in Key
         /\ pc[t] = "number" =>
              /\ todo[t] # <<>> /\ Head(todo[t]) \in Elem /\ Tail(todo[t]) \in Seq(Elem)
              /\ Len(Tail(todo[t])) = Len(todo[t]) - 1
              /\ key[t] # NoKey
              /\ sendNonce[key[t]] \in 0..(NonceSpace - 1)
              /\ Increment(sendNonce[key[t]]) \in 0..(NonceSpace - 1)
         /\ todo[t] \in Seq(Elem) /\ kept[t] \in Seq(Elem) /\ late[t] \in Seq(Elem)
<1>1. LocalTypes /\ KeyTypes /\ LocalInv
  BY TypeParts DEF SendInv
<1>2. todo[t] \in Seq(Elem) /\ kept[t] \in Seq(Elem) /\ late[t] \in Seq(Elem)
  BY <1>1, ContainerIs DEF LocalTypes
<1>3. pc[t] \in {"number", "cap"} => key[t] \in Key
  BY <1>1 DEF LocalTypes, LocalInv, LocalOK, Key, NoKey
<1>4. ASSUME pc[t] = "number"
      PROVE  /\ sendNonce[key[t]] \in 0..(NonceSpace - 1)
             /\ Increment(sendNonce[key[t]]) \in 0..(NonceSpace - 1)
  BY <1>1, <1>3, <1>4, Numbers DEF KeyTypes, Increment
<1>5. pc[t] = "number" => todo[t] # <<>> /\ key[t] # NoKey
  BY <1>1 DEF LocalInv, LocalOK
<1> QED
  BY <1>2, <1>3, <1>4, <1>5

\* Types of the elements.
LEMMA ElemTypesStep == SendInv /\ [Next]_vars => ElemTypes'
<1> SUFFICES ASSUME SendInv, [Next]_vars PROVE ElemTypes'
  OBVIOUS
<1>1. QueueTypes /\ ElemTypes /\ LocalTypes /\ SenderTypes /\ KeyTypes
  BY TypeParts DEF SendInv
<1>2. CASE UNCHANGED elems
  BY <1>1, <1>2 DEF ElemTypes, elems
<1>3. CASE RoutineReadFromTUN
  BY <1>1, <1>3 DEF ElemTypes, RoutineReadFromTUN
<1>4. CASE SenderFinish
  BY <1>1, <1>4, PutTypes DEF SenderTypes, SenderFinish
<1>5. CASE FlushOutbound
  <2>1. outbound # <<>> => Head(outbound) \in Partial
    BY <1>1, <1>5, HeadTypes DEF SendInv, ControlInv, NilInv, QueueTypes, FlushOutbound, Partial
  <2> QED
    BY <1>1, <1>5, <2>1, PutTypes DEF ElemTypes, FlushOutbound, elems
<1>6. ASSUME NEW t \in Thread, OfferKeepalive(t) PROVE ElemTypes'
  BY <1>1, <1>6 DEF ElemTypes, OfferKeepalive
<1>7. ASSUME NEW t \in Thread, DropTooOld(t) \/ FlushStagedPackets(t) PROVE ElemTypes'
  <2>1. staged # <<>> => Head(staged) \in Partial
    BY <1>1, HeadTypes DEF Partial
  <2> QED
    BY <1>1, <1>7, <2>1, PutTypes DEF ElemTypes, DropTooOld, FlushStagedPackets, elems
<1>8. ASSUME NEW t \in Thread, Number(t) PROVE ElemTypes'
  <2>1. pc[t] = "number"
    BY <1>8 DEF Number
  <2> QED
    BY <1>1, <1>8, <2>1, NumberHas DEF ElemTypes, LocalTypes, Number
<1>9. ASSUME NEW t \in Thread, CheckRunning(t) PROVE ElemTypes'
  BY <1>1, <1>9, PutTypes DEF ElemTypes, LocalTypes, CheckRunning, elems
<1> QED
  BY <1>2, <1>3, <1>4, <1>5, <1>6, <1>7, <1>8, <1>9, Frames

\* Types of the keypairs.
LEMMA KeyTypesStep == SendInv /\ [Next]_vars => KeyTypes'
<1> SUFFICES ASSUME SendInv, [Next]_vars PROVE KeyTypes'
  OBVIOUS
<1>1. KeyTypes
  BY TypeParts DEF SendInv
<1>2. RejectAfterMessages \in 0..(NonceSpace - 1)
  BY Numbers
<1>3. CASE UNCHANGED keys
  BY <1>1, <1>3 DEF KeyTypes, keys
<1>4. CASE KeypairAges
  BY <1>1, <1>4 DEF KeyTypes, KeypairAges, Key, NoKey
<1>5. CASE ExpireCurrentKeypairs
  BY <1>1, <1>2, <1>5 DEF KeyTypes, ExpireCurrentKeypairs
<1>6. ASSUME NEW t \in Thread, Number(t) PROVE KeyTypes'
  <2>1. pc[t] = "number"
    BY <1>6 DEF Number
  <2> QED
    BY <1>1, <1>6, <2>1, NumberHas DEF KeyTypes, Number
<1>7. ASSUME NEW t \in Thread, CapNonce(t) PROVE KeyTypes'
  BY <1>1, <1>2, <1>7 DEF KeyTypes, CapNonce
<1>8. ASSUME NEW t \in Thread, ZeroKeypairs(t) PROVE KeyTypes'
  BY <1>1, <1>8, Numbers DEF KeyTypes, ZeroKeypairs, NoKey
<1>9. CASE (\E t \in Worker : BeginSymmetricSession(t)) \/ (\E t \in Receiver : ReceivedWithKeypair(t))
  BY <1>1, <1>9, Numbers DEF KeyTypes, BeginSymmetricSession, ReceivedWithKeypair, NewKeypair
<1> QED
  BY <1>3, <1>4, <1>5, <1>6, <1>7, <1>8, <1>9, Frames

\* Types of what the threads hold.
LEMMA LocalTypesStep == SendInv /\ [Next]_vars => LocalTypes'
<1> SUFFICES ASSUME SendInv, [Next]_vars PROVE LocalTypes'
  OBVIOUS
<1>1. QueueTypes /\ ElemTypes /\ LocalTypes /\ KeyTypes /\ LifeTypes /\ LocalInv
  BY TypeParts DEF SendInv
<1>2. pc' \in [Thread -> PC]
  <2>1. CASE FlushOutbound
    BY <1>1, <2>1 DEF LocalTypes, FlushOutbound, PC
  <2>2. CASE \E t \in Thread, l \in PC : pc' = [pc EXCEPT ![t] = l]
    BY <1>1, <2>2 DEF LocalTypes
  <2> QED
    BY <1>1, <2>1, <2>2, OneMoves DEF LocalTypes, LifeTypes
<1>3. <<>> \in Partial /\ 0 \in 0..MaxKey
  BY Numbers DEF Partial
<1>4. CASE UNCHANGED locals
  BY <1>1, <1>2, <1>4 DEF LocalTypes, locals
<1>5. CASE RoutineReadFromTUN
  <2>1. PICK n \in 1..BatchSize : \E c \in [1..n -> free] : late' = [late EXCEPT ![tun] = c]
    BY <1>5 DEF RoutineReadFromTUN
  <2>2. PICK c \in [1..n -> free] : late' = [late EXCEPT ![tun] = c]
    BY <2>1
  <2>3. c \in [1..n -> Elem]
    BY <1>1 DEF ElemTypes
  <2>4. c \in Partial
    BY <2>3 DEF Partial, Container
  <2> QED
    BY <1>1, <1>2, <1>5, <2>2, <2>4 DEF LocalTypes, RoutineReadFromTUN
<1>6. ASSUME NEW t \in Thread, StagePackets(t) PROVE LocalTypes'
  BY <1>1, <1>2, <1>3, <1>6 DEF LocalTypes, StagePackets
<1>7. ASSUME NEW t \in Thread, Top(t) \/ PickKeypair(t) PROVE LocalTypes'
  BY <1>1, <1>2, <1>3, <1>7 DEF LocalTypes, KeyTypes, Top, PickKeypair, NoKey
<1>8. ASSUME NEW t \in Thread, TakeStaged(t) PROVE LocalTypes'
  <2>1. staged # <<>> => Head(staged) \in Partial
    BY <1>1, HeadTypes DEF Partial
  <2> QED
    BY <1>1, <1>2, <1>3, <1>8, <2>1 DEF LocalTypes, TakeStaged, NoKey
<1>9. ASSUME NEW t \in Thread, Number(t) PROVE LocalTypes'
  <2>1. pc[t] = "number"
    BY <1>9 DEF Number
  <2>2. PICK e \in Elem : e = Head(todo[t])
    BY <2>1, NumberHas
  <2>3. Len(todo[t]) + Len(kept[t]) + Len(late[t]) <= BatchSize
    BY <1>1 DEF LocalInv, LocalOK
  <2>4. /\ todo[t] \in Seq(Elem) /\ kept[t] \in Seq(Elem) /\ late[t] \in Seq(Elem)
        /\ todo[t] # <<>> /\ Tail(todo[t]) \in Seq(Elem)
        /\ Len(Tail(todo[t])) = Len(todo[t]) - 1
    BY <2>1, NumberHas
  <2>5. Len(todo[t]) \in Nat \ {0} /\ Len(kept[t]) \in Nat /\ Len(late[t]) \in Nat
    BY <2>4
  <2>6. \A x \in Nat \ {0}, y, z \in Nat :
          x + y + z <= BatchSize => x - 1 <= BatchSize /\ y + 1 <= BatchSize /\ z + 1 <= BatchSize
    BY Numbers
  <2>7. /\ Len(todo[t]) - 1 <= BatchSize /\ Len(kept[t]) + 1 <= BatchSize
        /\ Len(late[t]) + 1 <= BatchSize
    BY <2>3, <2>5, <2>6
  <2>8. Append(late[t], e) \in Seq(Elem) /\ Append(kept[t], e) \in Seq(Elem)
        /\ Len(Append(late[t], e)) = Len(late[t]) + 1
        /\ Len(Append(kept[t], e)) = Len(kept[t]) + 1
    BY <2>4
  <2>9. Tail(todo[t]) \in Partial /\ Append(late[t], e) \in Partial /\ Append(kept[t], e) \in Partial
    BY <2>4, <2>7, <2>8, ContainerIs
  <2> QED
    BY <1>1, <1>2, <1>9, <2>2, <2>9 DEF LocalTypes, Number
<1>10. ASSUME NEW t \in Thread, CheckRunning(t) \/ SendEncryption(t) PROVE LocalTypes'
  BY <1>1, <1>2, <1>3, <1>10 DEF LocalTypes, CheckRunning, SendEncryption, Continue
<1> QED
  BY <1>4, <1>5, <1>6, <1>7, <1>8, <1>9, <1>10, Frames

\* The elements of a container that was numbered have a keypair.
LEMMA BoxNumbered ==
  ASSUME SendInv
  PROVE  \A e \in Members(box) : e \in Elem /\ keypair[e] \in Key
<1>1. PICK kind \in [Elem -> Kinds], who \in [Elem -> Thread] : Holds(kind, who)
  BY DEF SendInv, PlaceInv
<1>2. Members(box) \subseteq Elem
  BY TypeParts, MembersAre DEF SendInv, SenderTypes
<1>3. \A e \in Members(box) : keypair[e] # NoKey
  BY <1>1, <1>2 DEF Holds
<1> QED
  BY <1>2, <1>3, TypeParts DEF SendInv, ElemTypes, Key, NoKey

\* Types of the sequential sender.
LEMMA SenderTypesStep == SendInv /\ [Next]_vars => SenderTypes'
<1> SUFFICES ASSUME SendInv, [Next]_vars PROVE SenderTypes'
  OBVIOUS
<1>1. QueueTypes /\ ElemTypes /\ SenderTypes
  BY TypeParts DEF SendInv
<1>2. CASE UNCHANGED sequential
  BY <1>1, <1>2 DEF SenderTypes, sequential
<1>3. CASE SenderTake
  BY <1>1, <1>3, HeadTypes DEF SenderTypes, SenderTake, Partial
<1>4. CASE SenderFinish
  <2>1. wire' \subseteq Key \X (0..(NonceSpace - 1))
    BY <1>1, <1>4, BoxNumbered DEF SenderTypes, ElemTypes, SenderFinish
  <2>2. sender' = "loop" /\ box' = <<>>
    BY <1>4 DEF SenderFinish
  <2> QED
    BY <2>1, <2>2 DEF SenderTypes, Partial
<1>5. CASE FlushOutbound
  BY <1>1, <1>5 DEF SenderTypes, FlushOutbound
<1> QED
  BY <1>2, <1>3, <1>4, <1>5, Frames

\* Every step keeps the types.
LEMMA TypeStep == SendInv /\ [Next]_vars => TypeOK'
<1> SUFFICES ASSUME SendInv, [Next]_vars PROVE TypeOK'
  OBVIOUS
<1>1. /\ LifeTypes' /\ QueueTypes' /\ ElemTypes' /\ KeyTypes' /\ LocalTypes' /\ SenderTypes'
  BY LifeTypesStep, QueueTypesStep, ElemTypesStep, KeyTypesStep, LocalTypesStep, SenderTypesStep
<1> QED
  BY <1>1 DEF TypeOK, LifeTypes, QueueTypes, ElemTypes, KeyTypes, LocalTypes, SenderTypes

-----------------------------------------------------------------------------
(* What the threads hold                                                   *)

\* What a thread holds follows where it is.
LEMMA LocalStep == SendInv /\ [Next]_vars => LocalInv'
<1> SUFFICES ASSUME SendInv, [Next]_vars PROVE LocalInv'
  OBVIOUS
<1>a. LocalInv /\ LocalTypes
  BY TypeParts DEF SendInv
<1>b. Len(<<>>) = 0 /\ \A u \in Thread : Len(todo[u]) \in Nat /\ Len(kept[u]) \in Nat /\ Len(late[u]) \in Nat
  <2>1. \A u \in Thread : todo[u] \in Seq(Elem) /\ kept[u] \in Seq(Elem) /\ late[u] \in Seq(Elem)
    BY <1>a, ContainerIs DEF LocalTypes
  <2> QED
    BY <2>1
<1>c. \A x, y, z \in Nat : x + y + z <= BatchSize => x + y + 0 <= BatchSize /\ x + 0 + z <= BatchSize
  BY Numbers
<1>1. ASSUME NEW t \in Thread, SendKeepalive(t) PROVE LocalInv'
  BY <1>a, <1>1 DEF LocalInv, LocalOK, LocalTypes, SendKeepalive, locals, Goto, From
<1>2. ASSUME NEW t \in Thread, OfferKeepalive(t) PROVE LocalInv'
  BY <1>a, <1>2 DEF LocalInv, LocalOK, LocalTypes, OfferKeepalive, locals, Goto, From
<1>3. ASSUME NEW t \in Thread, StagePackets(t) PROVE LocalInv'
  <2>1. \A u \in Thread \ {t} : LocalOK(u)'
    BY <1>a, <1>3 DEF LocalInv, LocalOK, LocalTypes, StagePackets, Goto, From
  <2>2. LocalOK(t)'
    <3>1. LocalOK(t) /\ pc[t] = "stage" /\ todo' = todo /\ kept' = kept /\ key' = key
      BY <1>a, <1>3 DEF LocalInv, StagePackets
    <3>2. CASE Len(staged) < QueueStagedSize
      <4>1. late'[t] = <<>> /\ pc'[t] = (IF kept[t] = <<>> THEN "top" ELSE "queue")
        BY <1>a, <1>3, <3>2 DEF LocalTypes, StagePackets, Goto
      <4>2. Len(todo'[t]) + Len(kept'[t]) + Len(late'[t]) <= BatchSize
        BY <3>1, <4>1, <1>b, <1>c DEF LocalOK
      <4> QED
        BY <3>1, <4>1, <4>2 DEF LocalOK
    <3>3. CASE ~(Len(staged) < QueueStagedSize)
      <4>1. late' = late /\ pc'[t] = "drop"
        BY <1>a, <1>3, <3>3 DEF LocalTypes, StagePackets, Goto
      <4> QED
        BY <3>1, <4>1 DEF LocalOK
    <3> QED
      BY <3>2, <3>3
  <2> QED
    BY <2>1, <2>2 DEF LocalInv
<1>4. ASSUME NEW t \in Thread, DropTooOld(t) PROVE LocalInv'
  BY <1>a, <1>4 DEF LocalInv, LocalOK, LocalTypes, DropTooOld, locals, Goto, From
<1>5. ASSUME NEW t \in Thread, Top(t) PROVE LocalInv'
  BY <1>a, <1>5 DEF LocalInv, LocalOK, LocalTypes, Top, Goto, From
<1>6. ASSUME NEW t \in Thread, PickKeypair(t) PROVE LocalInv'
  <2>1. \A u \in Thread \ {t} : LocalOK(u)'
    BY <1>a, <1>6 DEF LocalInv, LocalOK, LocalTypes, PickKeypair, Goto, From
  <2>2. LocalOK(t)'
    <3>1. LocalOK(t) /\ pc[t] = "key" /\ todo' = todo /\ kept' = kept /\ late' = late
      BY <1>a, <1>6 DEF LocalInv, PickKeypair
    <3>2. \/ pc'[t] = "take" /\ key'[t] # NoKey
          \/ pc'[t] = "idle" /\ key' = key
      BY <1>a, <1>6 DEF LocalTypes, PickKeypair, Goto, Usable
    <3> QED
      BY <3>1, <3>2 DEF LocalOK
  <2> QED
    BY <2>1, <2>2 DEF LocalInv
<1>7. ASSUME NEW t \in Thread, TakeStaged(t) PROVE LocalInv'
  <2>1. \A u \in Thread \ {t} : LocalOK(u)'
    BY <1>a, <1>7 DEF LocalInv, LocalOK, LocalTypes, TakeStaged, Goto, From
  <2>2. LocalOK(t)'
    <3>1. LocalOK(t) /\ pc[t] = "take" /\ kept' = kept /\ late' = late
      BY <1>a, <1>7 DEF LocalInv, TakeStaged
    <3>2. CASE staged = <<>>
      <4>1. pc'[t] = "idle" /\ todo' = todo
        BY <1>a, <1>7, <3>2 DEF LocalTypes, TakeStaged, Goto
      <4> QED
        BY <3>1, <4>1 DEF LocalOK
    <3>3. CASE staged # <<>>
      <4>1. pc'[t] = "number" /\ todo'[t] = Head(staged) /\ key' = key
        BY <1>a, <1>7, <3>3 DEF LocalTypes, TakeStaged, Goto
      <4>2. Head(staged) \in Container
        BY <3>3, TypeParts, HeadTypes DEF SendInv
      <4>3. Head(staged) # <<>> /\ Len(Head(staged)) \in Nat /\ Len(Head(staged)) <= BatchSize
        BY <4>2, ContainerIs, Numbers
      <4>4. todo'[t] # <<>> /\ Len(todo'[t]) + 0 + 0 <= BatchSize
        BY <4>1, <4>3
      <4>5. kept[t] = <<>> /\ late[t] = <<>> /\ key[t] # NoKey
        BY <3>1 DEF LocalOK
      <4>6. Len(todo'[t]) + Len(kept'[t]) + Len(late'[t]) <= BatchSize
        BY <3>1, <4>4, <4>5, <1>b
      <4> QED
        BY <3>1, <4>1, <4>4, <4>5, <4>6 DEF LocalOK
    <3> QED
      BY <3>2, <3>3
  <2> QED
    BY <2>1, <2>2 DEF LocalInv
<1>8. ASSUME NEW t \in Thread, Number(t) PROVE LocalInv'
  <2>1. \A u \in Thread \ {t} : LocalOK(u)'
    BY <1>a, <1>8 DEF LocalInv, LocalOK, LocalTypes, Number, Goto, From, AfterElement
  <2>2. LocalOK(t)'
    <3>1. LocalOK(t) /\ pc[t] = "number" /\ key' = key /\ key[t] # NoKey
      BY <1>a, <1>8 DEF LocalInv, LocalOK, Number
    <3>2. PICK e \in Elem : e = Head(todo[t])
      BY <3>1, NumberHas
    <3>3. /\ todo[t] \in Seq(Elem) /\ kept[t] \in Seq(Elem) /\ late[t] \in Seq(Elem)
          /\ todo[t] # <<>>
      BY <3>1, NumberHas
    <3>4. todo'[t] = Tail(todo[t])
      BY <1>a, <1>8 DEF LocalTypes, Number
    <3>5. \/ /\ late'[t] = Append(late[t], e) /\ kept' = kept
             /\ pc'[t] = "cap"
          \/ /\ late' = late /\ kept'[t] = Append(kept[t], e)
             /\ pc'[t] = AfterElement(Tail(todo[t]), late[t])
      BY <1>a, <1>8, <3>2 DEF LocalTypes, Number, Goto
    <3>6. /\ Len(todo'[t]) = Len(todo[t]) - 1
          /\ \/ Len(late'[t]) = Len(late[t]) + 1 /\ Len(kept'[t]) = Len(kept[t])
             \/ Len(late'[t]) = Len(late[t]) /\ Len(kept'[t]) = Len(kept[t]) + 1
          /\ Len(todo[t]) \in Nat /\ Len(kept[t]) \in Nat /\ Len(late[t]) \in Nat
      BY <3>3, <3>4, <3>5
    <3>7. Len(todo[t]) + Len(kept[t]) + Len(late[t]) <= BatchSize
      BY <3>1 DEF LocalOK
    <3>8. Len(todo'[t]) + Len(kept'[t]) + Len(late'[t]) <= BatchSize
      <4>1. \A x, y, z \in Nat : x + y + z <= BatchSize =>
              x - 1 + y + (z + 1) <= BatchSize /\ x - 1 + (y + 1) + z <= BatchSize
        BY Numbers
      <4> QED
        BY <3>6, <3>7, <4>1
    <3>9. \A c \in Seq(Elem) : Append(c, e) # <<>>
      <4>1. \A c \in Seq(Elem) : Len(Append(c, e)) = Len(c) + 1 /\ Len(c) \in Nat
        OBVIOUS
      <4> QED
        BY <4>1, <1>b
    <3>10. CASE late'[t] = Append(late[t], e) /\ kept' = kept /\ pc'[t] = "cap"
      <4>1. late'[t] # <<>>
        BY <3>3, <3>9, <3>10
      <4> QED
        BY <3>1, <3>8, <3>10, <4>1 DEF LocalOK
    <3>11. CASE /\ late' = late /\ kept'[t] = Append(kept[t], e)
                /\ pc'[t] = AfterElement(Tail(todo[t]), late[t])
      <4>1. kept'[t] # <<>>
        BY <3>3, <3>9, <3>11
      <4> QED
        BY <3>1, <3>4, <3>8, <3>11, <4>1 DEF LocalOK, AfterElement
    <3> QED
      BY <3>5, <3>10, <3>11
  <2> QED
    BY <2>1, <2>2 DEF LocalInv
<1>9. ASSUME NEW t \in Thread, CapNonce(t) PROVE LocalInv'
  BY <1>a, <1>9 DEF LocalInv, LocalOK, LocalTypes, CapNonce, locals, Goto, From, AfterElement
<1>10. ASSUME NEW t \in Thread, CheckRunning(t) PROVE LocalInv'
  <2>1. \A u \in Thread \ {t} : LocalOK(u)'
    BY <1>a, <1>10 DEF LocalInv, LocalOK, LocalTypes, CheckRunning, Goto, From, Continue
  <2>2. LocalOK(t)'
    <3>1. LocalOK(t) /\ pc[t] = "queue" /\ todo' = todo /\ late' = late /\ key' = key
      BY <1>a, <1>10 DEF LocalInv, CheckRunning
    <3>2. \/ pc'[t] = "out" /\ kept' = kept
          \/ pc'[t] \in {"top", "take"} /\ kept'[t] = <<>>
      BY <1>a, <1>10 DEF LocalTypes, CheckRunning, Goto, Continue
    <3>3. Len(todo'[t]) + Len(kept'[t]) + Len(late'[t]) <= BatchSize
      BY <3>1, <3>2, <1>b, <1>c DEF LocalOK
    <3> QED
      BY <3>1, <3>2, <3>3 DEF LocalOK
  <2> QED
    BY <2>1, <2>2 DEF LocalInv
<1>11. ASSUME NEW t \in Thread, SendOutbound(t) PROVE LocalInv'
  BY <1>a, <1>11 DEF LocalInv, LocalOK, LocalTypes, SendOutbound, locals, Goto, From
<1>12. ASSUME NEW t \in Thread, SendEncryption(t) PROVE LocalInv'
  <2>1. \A u \in Thread \ {t} : LocalOK(u)'
    BY <1>a, <1>12 DEF LocalInv, LocalOK, LocalTypes, SendEncryption, Goto, From, Continue
  <2>2. LocalOK(t)'
    <3>1. LocalOK(t) /\ pc[t] = "enc" /\ todo' = todo /\ late' = late /\ key' = key
      BY <1>a, <1>12 DEF LocalInv, SendEncryption
    <3>2. pc'[t] \in {"top", "take"} /\ kept'[t] = <<>>
      BY <1>a, <1>12 DEF LocalTypes, SendEncryption, Goto, Continue
    <3>3. Len(todo'[t]) + Len(kept'[t]) + Len(late'[t]) <= BatchSize
      BY <3>1, <3>2, <1>b, <1>c DEF LocalOK
    <3> QED
      BY <3>1, <3>2, <3>3 DEF LocalOK
  <2> QED
    BY <2>1, <2>2 DEF LocalInv
<1>13. ASSUME NEW t \in Thread, ZeroKeypairs(t) PROVE LocalInv'
  BY <1>a, <1>13 DEF LocalInv, LocalOK, LocalTypes, ZeroKeypairs, locals, Goto, From
<1>14. ASSUME NEW t \in Thread, FlushStagedPackets(t) PROVE LocalInv'
  BY <1>a, <1>14 DEF LocalInv, LocalOK, LocalTypes, FlushStagedPackets, locals, Goto, From, AfterStop
<1>15. ASSUME NEW t \in Thread, Exit(t) PROVE LocalInv'
  BY <1>a, <1>15 DEF LocalInv, LocalOK, LocalTypes, Exit, locals, Goto, From
<1>16. CASE Start
  BY <1>a, <1>16 DEF LocalInv, LocalOK, LocalTypes, Start, locals, Goto, From
<1>17. CASE FlushOutbound
  <2>1. UNCHANGED locals
    BY <1>17 DEF FlushOutbound
  <2>2. CASE outbound # <<>>
    BY <1>a, <1>17, <2>1, <2>2 DEF LocalInv, LocalOK, FlushOutbound, locals
  <2>3. CASE outbound = <<>>
    <3>1. \A u \in Thread : pc'[u] = CASE u = ctl -> "run" [] u \in Receiver -> "idle" [] OTHER -> pc[u]
      BY <1>17, <2>3 DEF FlushOutbound
    <3>2. pc[ctl] = "drain" /\ ctl \notin Receiver
      BY <1>17, ThreadAssumption DEF FlushOutbound
    <3>3. \A u \in Receiver : pc[u] = "off"
      BY <3>2 DEF SendInv, ControlInv, Down0
    <3> QED
      BY <1>a, <2>1, <3>1, <3>2, <3>3 DEF LocalInv, LocalOK, locals
  <2> QED
    BY <2>2, <2>3
<1>18. CASE FinishStart
  BY <1>a, <1>18 DEF LocalInv, LocalOK, LocalTypes, FinishStart, AfterStart, locals, Goto, From
<1>19. CASE Stop
  BY <1>a, <1>19 DEF LocalInv, LocalOK, LocalTypes, Stop, locals, Goto, From, AfterStop
<1>20. CASE StopTimers
  BY <1>a, <1>20 DEF LocalInv, LocalOK, LocalTypes, StopTimers, locals, Goto, From
<1>21. CASE StopSender
  BY <1>a, <1>21 DEF LocalInv, LocalOK, LocalTypes, StopSender, locals, Goto, From
<1>22. CASE StopWait
  BY <1>a, <1>22 DEF LocalInv, LocalOK, LocalTypes, StopWait, locals, Goto, From
<1>23. CASE CloseQueues
  BY <1>a, <1>23 DEF LocalInv, LocalOK, LocalTypes, CloseQueues, locals, Goto, From
<1>24. CASE CloseReturn
  BY <1>a, <1>24 DEF LocalInv, LocalOK, LocalTypes, CloseReturn, locals, Goto, From
<1>25. CASE SenderTake
  BY <1>a, <1>25 DEF LocalInv, LocalOK, SenderTake, locals
<1>26. CASE SenderFinish
  BY <1>a, <1>26 DEF LocalInv, LocalOK, SenderFinish, locals
<1>27. CASE RoutineEncryption
  BY <1>a, <1>27 DEF LocalInv, LocalOK, RoutineEncryption, locals
<1>28. CASE RoutineReadFromTUN
  <2>1. \A u \in Thread \ {tun} : LocalOK(u)'
    BY <1>a, <1>28 DEF LocalInv, LocalOK, LocalTypes, RoutineReadFromTUN, Goto, From
  <2>2. LocalOK(tun)'
    <3>1. LocalOK(tun) /\ pc[tun] = "idle" /\ todo' = todo /\ kept' = kept /\ key' = key
      BY <1>a, <1>28, Numbers DEF LocalInv, RoutineReadFromTUN, From
    <3>2. PICK n \in 1..BatchSize : \E c \in [1..n -> free] : late' = [late EXCEPT ![tun] = c]
      BY <1>28 DEF RoutineReadFromTUN
    <3>3. PICK c \in [1..n -> free] : late' = [late EXCEPT ![tun] = c]
      BY <3>2
    <3>4. late'[tun] = c /\ pc'[tun] = "stage"
      BY <1>a, <1>28, <3>3, Numbers DEF LocalTypes, RoutineReadFromTUN, From, Goto
    <3>5. c # <<>> /\ Len(c) = n
      OBVIOUS
    <3>6. todo[tun] = <<>> /\ kept[tun] = <<>>
      BY <3>1 DEF LocalOK
    <3>7. Len(todo'[tun]) + Len(kept'[tun]) + Len(late'[tun]) <= BatchSize
      BY <3>1, <3>4, <3>5, <3>6, <1>b, Numbers
    <3> QED
      BY <3>1, <3>4, <3>5, <3>6, <3>7 DEF LocalOK
  <2> QED
    BY <2>1, <2>2 DEF LocalInv
<1>29. CASE KeypairAges
  BY <1>a, <1>29 DEF LocalInv, LocalOK, KeypairAges, locals
<1>30. CASE ExpireCurrentKeypairs
  BY <1>a, <1>30 DEF LocalInv, LocalOK, ExpireCurrentKeypairs, locals
<1>31. CASE Up
  BY <1>a, <1>31 DEF LocalInv, LocalOK, LocalTypes, Up, locals, Goto, From
<1>32. CASE Down
  BY <1>a, <1>32 DEF LocalInv, LocalOK, LocalTypes, Down, locals, Goto, From
<1>33. CASE Close
  BY <1>a, <1>33 DEF LocalInv, LocalOK, LocalTypes, Close, locals, Goto, From
<1>34. ASSUME NEW t \in Worker, BeginSymmetricSession(t) PROVE LocalInv'
  BY <1>a, <1>34 DEF LocalInv, LocalOK, LocalTypes, BeginSymmetricSession, locals, Goto, From
<1>35. ASSUME NEW t \in Timer, TimerExpires(t) PROVE LocalInv'
  BY <1>a, <1>35 DEF LocalInv, LocalOK, LocalTypes, TimerExpires, locals, Goto, From
<1>36. ASSUME NEW t \in Receiver, ReceivedWithKeypair(t) PROVE LocalInv'
  BY <1>a, <1>36 DEF LocalInv, LocalOK, LocalTypes, ReceivedWithKeypair, locals, Goto, From
<1>37. ASSUME NEW t \in Receiver, ReceiverExit(t) PROVE LocalInv'
  BY <1>a, <1>37 DEF LocalInv, LocalOK, LocalTypes, ReceiverExit, locals, Goto, From
<1>38. CASE UNCHANGED vars
  BY <1>a, <1>38 DEF LocalInv, LocalOK, vars, locals
<1> QED
  BY <1>1, <1>2, <1>3, <1>4, <1>5, <1>6, <1>7, <1>8, <1>9, <1>10, <1>11, <1>12, <1>13,
     <1>14, <1>15, <1>16, <1>17, <1>18, <1>19, <1>20, <1>21, <1>22, <1>23, <1>24,
     <1>25, <1>26, <1>27, <1>28, <1>29, <1>30, <1>31, <1>32, <1>33, <1>34, <1>35,
     <1>36, <1>37, <1>38
  DEF Next, Step, SendStagedPackets, Lifecycle, Sender


-----------------------------------------------------------------------------
(* The lifecycle of the peer                                               *)

\* The goroutines of the peer run between Start and the end of Stop.
LEMMA ControlStep == SendInv /\ [Next]_vars => ControlInv'
<1> SUFFICES ASSUME SendInv, [Next]_vars PROVE ControlInv'
  OBVIOUS
<1>a. ControlInv /\ LocalTypes /\ SenderTypes
  BY TypeParts DEF SendInv
<1>b. {tun, ctl} \subseteq Thread /\ Worker \subseteq Thread /\ Timer \subseteq Thread
      /\ Receiver \subseteq Thread /\ tun # ctl /\ Timer \cap Receiver = {}
      /\ ctl \notin Worker \cup Timer \cup Receiver
  BY Numbers, ThreadAssumption
<1>1. ASSUME NEW t \in Thread, SendKeepalive(t) PROVE ControlInv'
  BY <1>a, <1>b, <1>1 DEF ControlInv, Down0, LocalTypes, SenderTypes, SendKeepalive, life, sequential, Goto, From
<1>2. ASSUME NEW t \in Thread, OfferKeepalive(t) PROVE ControlInv'
  BY <1>a, <1>b, <1>2 DEF ControlInv, Down0, LocalTypes, SenderTypes, OfferKeepalive, life, sequential, Goto, From
<1>3. ASSUME NEW t \in Thread, StagePackets(t) PROVE ControlInv'
  BY <1>a, <1>b, <1>3 DEF ControlInv, Down0, LocalTypes, SenderTypes, StagePackets, life, sequential, Goto, From
<1>4. ASSUME NEW t \in Thread, DropTooOld(t) PROVE ControlInv'
  BY <1>a, <1>b, <1>4 DEF ControlInv, Down0, LocalTypes, SenderTypes, DropTooOld, life, sequential, Goto, From
<1>5. ASSUME NEW t \in Thread, Top(t) PROVE ControlInv'
  BY <1>a, <1>b, <1>5 DEF ControlInv, Down0, LocalTypes, SenderTypes, Top, life, sequential, Goto, From
<1>6. ASSUME NEW t \in Thread, PickKeypair(t) PROVE ControlInv'
  BY <1>a, <1>b, <1>6 DEF ControlInv, Down0, LocalTypes, SenderTypes, PickKeypair, life, sequential, Goto, From
<1>7. ASSUME NEW t \in Thread, TakeStaged(t) PROVE ControlInv'
  BY <1>a, <1>b, <1>7 DEF ControlInv, Down0, LocalTypes, SenderTypes, TakeStaged, life, sequential, Goto, From
<1>8. ASSUME NEW t \in Thread, Number(t) PROVE ControlInv'
  BY <1>a, <1>b, <1>8 DEF ControlInv, Down0, LocalTypes, SenderTypes, Number, life, sequential, Goto, From, AfterElement
<1>9. ASSUME NEW t \in Thread, CapNonce(t) PROVE ControlInv'
  BY <1>a, <1>b, <1>9 DEF ControlInv, Down0, LocalTypes, SenderTypes, CapNonce, life, sequential, Goto, From, AfterElement
<1>10. ASSUME NEW t \in Thread, CheckRunning(t) PROVE ControlInv'
  BY <1>a, <1>b, <1>10 DEF ControlInv, Down0, LocalTypes, SenderTypes, CheckRunning, life, sequential, Goto, From, Continue
<1>11. ASSUME NEW t \in Thread, SendOutbound(t) PROVE ControlInv'
  BY <1>a, <1>b, <1>11 DEF ControlInv, Down0, LocalTypes, SenderTypes, SendOutbound, life, sequential, Goto, From
<1>12. ASSUME NEW t \in Thread, SendEncryption(t) PROVE ControlInv'
  BY <1>a, <1>b, <1>12 DEF ControlInv, Down0, LocalTypes, SenderTypes, SendEncryption, life, sequential, Goto, From, Continue
<1>13. ASSUME NEW t \in Thread, ZeroKeypairs(t) PROVE ControlInv'
  BY <1>a, <1>b, <1>13 DEF ControlInv, Down0, LocalTypes, SenderTypes, ZeroKeypairs, life, sequential, Goto, From
<1>14. ASSUME NEW t \in Thread, FlushStagedPackets(t) PROVE ControlInv'
  BY <1>a, <1>b, <1>14 DEF ControlInv, Down0, LocalTypes, SenderTypes, FlushStagedPackets, life, sequential, Goto, From, AfterStop
<1>15. ASSUME NEW t \in Thread, Exit(t) PROVE ControlInv'
  BY <1>a, <1>b, <1>15 DEF ControlInv, Down0, LocalTypes, SenderTypes, Exit, life, sequential, Goto, From
<1>16. CASE Start
  BY <1>a, <1>b, <1>16 DEF ControlInv, Down0, LocalTypes, SenderTypes, Start, life, sequential, Goto, From
<1>17. CASE FlushOutbound
  BY <1>a, <1>b, <1>17 DEF ControlInv, Down0, LocalTypes, SenderTypes, FlushOutbound, life, sequential, Goto, From
<1>18. CASE FinishStart
  BY <1>a, <1>b, <1>18 DEF ControlInv, Down0, LocalTypes, SenderTypes, FinishStart, AfterStart, life, sequential, Goto, From
<1>19. CASE Stop
  BY <1>a, <1>b, <1>19 DEF ControlInv, Down0, LocalTypes, SenderTypes, Stop, life, sequential, Goto, From, AfterStop
<1>20. CASE StopTimers
  BY <1>a, <1>b, <1>20 DEF ControlInv, Down0, LocalTypes, SenderTypes, StopTimers, life, sequential, Goto, From
<1>21. CASE StopSender
  BY <1>a, <1>b, <1>21 DEF ControlInv, Down0, LocalTypes, SenderTypes, StopSender, life, sequential, Goto, From
<1>22. CASE StopWait
  BY <1>a, <1>b, <1>22 DEF ControlInv, Down0, LocalTypes, SenderTypes, StopWait, life, sequential, Goto, From
<1>23. CASE CloseQueues
  BY <1>a, <1>b, <1>23 DEF ControlInv, Down0, LocalTypes, SenderTypes, CloseQueues, life, sequential, Goto, From
<1>24. CASE CloseReturn
  BY <1>a, <1>b, <1>24 DEF ControlInv, Down0, LocalTypes, SenderTypes, CloseReturn, life, sequential, Goto, From
<1>25. CASE SenderTake
  <2>1. UNCHANGED <<device, running, pc>>
    BY <1>25 DEF SenderTake, life
  <2>2. CASE Head(outbound) # Nil
    BY <1>a, <1>25, <2>1, <2>2 DEF ControlInv, SenderTake
  <2>3. CASE Head(outbound) = Nil
    <3>1. outbound \in Seq(Container \cup {Nil}) /\ outbound # <<>>
      BY <1>25, TypeParts DEF SendInv, QueueTypes, SenderTake
    <3>2. 1 \in DOMAIN outbound /\ outbound[1] = Nil
      BY <2>3, <3>1
    <3>3. pc[ctl] = "wait"
      BY <3>2 DEF SendInv, NilInv
    <3> QED
      BY <1>a, <1>25, <2>1, <3>3 DEF ControlInv, Down0, SenderTake
  <2> QED
    BY <2>2, <2>3
<1>26. CASE SenderFinish
  BY <1>a, <1>b, <1>26 DEF ControlInv, Down0, LocalTypes, SenderTypes, SenderFinish, life, sequential, Goto, From
<1>27. CASE RoutineEncryption
  BY <1>a, <1>b, <1>27 DEF ControlInv, Down0, LocalTypes, SenderTypes, RoutineEncryption, life, sequential, Goto, From
<1>28. CASE RoutineReadFromTUN
  BY <1>a, <1>b, <1>28 DEF ControlInv, Down0, LocalTypes, SenderTypes, RoutineReadFromTUN, life, sequential, Goto, From
<1>29. CASE KeypairAges
  BY <1>a, <1>b, <1>29 DEF ControlInv, Down0, LocalTypes, SenderTypes, KeypairAges, life, sequential, Goto, From
<1>30. CASE ExpireCurrentKeypairs
  BY <1>a, <1>b, <1>30 DEF ControlInv, Down0, LocalTypes, SenderTypes, ExpireCurrentKeypairs, life, sequential, Goto, From
<1>31. CASE Up
  BY <1>a, <1>b, <1>31 DEF ControlInv, Down0, LocalTypes, SenderTypes, Up, life, sequential, Goto, From
<1>32. CASE Down
  BY <1>a, <1>b, <1>32 DEF ControlInv, Down0, LocalTypes, SenderTypes, Down, life, sequential, Goto, From
<1>33. CASE Close
  BY <1>a, <1>b, <1>33 DEF ControlInv, Down0, LocalTypes, SenderTypes, Close, life, sequential, Goto, From
<1>34. ASSUME NEW t \in Worker, BeginSymmetricSession(t) PROVE ControlInv'
  BY <1>a, <1>b, <1>34 DEF ControlInv, Down0, LocalTypes, SenderTypes, BeginSymmetricSession, life, sequential, Goto, From
<1>35. ASSUME NEW t \in Timer, TimerExpires(t) PROVE ControlInv'
  BY <1>a, <1>b, <1>35 DEF ControlInv, Down0, LocalTypes, SenderTypes, TimerExpires, life, sequential, Goto, From
<1>36. ASSUME NEW t \in Receiver, ReceivedWithKeypair(t) PROVE ControlInv'
  BY <1>a, <1>b, <1>36 DEF ControlInv, Down0, LocalTypes, SenderTypes, ReceivedWithKeypair, life, sequential, Goto, From
<1>37. ASSUME NEW t \in Receiver, ReceiverExit(t) PROVE ControlInv'
  BY <1>a, <1>b, <1>37 DEF ControlInv, Down0, LocalTypes, SenderTypes, ReceiverExit, life, sequential, Goto, From
<1>38. CASE UNCHANGED vars
  BY <1>a, <1>38 DEF ControlInv, vars, life, sequential
<1> QED
  BY <1>1, <1>2, <1>3, <1>4, <1>5, <1>6, <1>7, <1>8, <1>9, <1>10, <1>11, <1>12, <1>13,
     <1>14, <1>15, <1>16, <1>17, <1>18, <1>19, <1>20, <1>21, <1>22, <1>23, <1>24,
     <1>25, <1>26, <1>27, <1>28, <1>29, <1>30, <1>31, <1>32, <1>33, <1>34, <1>35,
     <1>36, <1>37, <1>38
  DEF Next, Step, SendStagedPackets, Lifecycle, Sender


\* The sentinel is in the queue only while Stop waits for the sender to take it.
LEMMA NilStep == SendInv /\ [Next]_vars => NilInv'
<1> SUFFICES ASSUME SendInv, [Next]_vars PROVE NilInv'
  OBVIOUS
<1>1. NilInv /\ ControlInv /\ LocalTypes /\ QueueTypes /\ SenderTypes
  BY TypeParts DEF SendInv
<1>2. {tun, ctl} \subseteq Thread /\ Worker \subseteq Thread /\ Timer \subseteq Thread
      /\ Receiver \subseteq Thread /\ tun # ctl /\ ctl \notin Worker \cup Timer \cup Receiver
  BY Numbers, ThreadAssumption
<1>3. /\ outbound # <<>> => /\ DOMAIN Tail(outbound) = 1..(Len(outbound) - 1)
                            /\ Head(outbound) = outbound[1] /\ Len(outbound) \in Nat \ {0}
                            /\ \A m \in DOMAIN Tail(outbound) : Tail(outbound)[m] = outbound[m + 1]
      /\ DOMAIN outbound = 1..Len(outbound) /\ Len(outbound) \in Nat
  BY <1>1 DEF QueueTypes
<1>4. CASE SenderTake
  <2>1. outbound # <<>> /\ outbound' = Tail(outbound) /\ sender = "loop" /\ pc' = pc
    BY <1>4 DEF SenderTake
  <2>2. \A m \in DOMAIN outbound' : m + 1 \in DOMAIN outbound /\ outbound'[m] = outbound[m + 1]
                                     /\ m \in Nat \ {0}
    BY <1>3, <2>1
  <2>3. CASE Head(outbound) = Nil
    <3>1. sender' = "off" /\ box' = box
      BY <1>4, <2>3 DEF SenderTake
    <3>2. \A m \in DOMAIN outbound' : outbound'[m] # Nil
      BY <1>1, <1>3, <2>1, <2>2, <2>3 DEF NilInv
    <3> QED
      BY <1>1, <2>1, <3>1, <3>2 DEF NilInv
  <2>4. CASE Head(outbound) # Nil
    <3>1. sender' \in {"send", "discard"} /\ box' = Head(outbound)
      BY <1>4, <2>4 DEF SenderTake
    <3>2. box' # <<>>
      BY <1>1, <2>1, <2>4, <3>1, HeadTypes, ContainerIs, Numbers
    <3>3. /\ \A m \in DOMAIN outbound' : outbound'[m] = Nil => pc[ctl] = "wait"
          /\ \A m, n \in DOMAIN outbound' : outbound'[m] = Nil /\ outbound'[n] = Nil => m = n
      BY <1>1, <2>2 DEF NilInv
    <3> QED
      BY <2>1, <3>1, <3>2, <3>3 DEF NilInv
  <2> QED
    BY <2>3, <2>4
<1>5. CASE SenderFinish
  BY <1>1, <1>5 DEF NilInv, SenderFinish, queues
<1>6. CASE FlushOutbound
  <2>1. pc[ctl] = "drain" /\ UNCHANGED box
    BY <1>6 DEF FlushOutbound
  <2>2. \A m \in DOMAIN outbound : outbound[m] # Nil
    BY <1>1, <2>1 DEF NilInv
  <2>3. sender = "off" /\ box = <<>>
    BY <1>1, <2>1 DEF NilInv, ControlInv, Down0
  <2>4. \A m \in DOMAIN outbound' : outbound'[m] # Nil
    <3>1. CASE outbound = <<>>
      BY <1>6, <2>2, <3>1 DEF FlushOutbound
    <3>2. CASE outbound # <<>>
      <4>1. \A m \in DOMAIN Tail(outbound) : m + 1 \in DOMAIN outbound
                                             /\ Tail(outbound)[m] = outbound[m + 1]
        BY <1>3, <3>2
      <4> QED
        BY <1>6, <2>2, <3>2, <4>1 DEF FlushOutbound
    <3> QED
      BY <3>1, <3>2
  <2>5. sender' \in {"off", "loop"}
    BY <1>6, <2>3 DEF FlushOutbound
  <2> QED
    BY <2>1, <2>3, <2>4, <2>5 DEF NilInv
<1>7. CASE StopSender
  <2>1. /\ pc[ctl] = "nil" /\ pc'[ctl] = "wait" /\ outbound' = Append(outbound, Nil)
        /\ UNCHANGED <<sender, box>>
    BY <1>1, <1>2, <1>7 DEF LocalTypes, StopSender, From, Goto, sequential
  <2>2. \A m \in DOMAIN outbound : outbound[m] # Nil
    BY <1>1, <2>1 DEF NilInv
  <2>3. sender # "off"
    BY <1>1, <2>1 DEF ControlInv
  <2>4. \A m \in DOMAIN outbound' : outbound'[m] = Nil => m = Len(outbound) + 1
    BY <1>1, <1>3, <2>1, <2>2 DEF QueueTypes
  <2> QED
    BY <1>1, <2>1, <2>3, <2>4 DEF NilInv
<1>8. ASSUME NEW t \in Thread, SendOutbound(t) PROVE NilInv'
  <2>1. pc[t] = "out" /\ pc' = [pc EXCEPT ![t] = "enc"] /\ outbound' = Append(outbound, kept[t])
        /\ UNCHANGED <<sender, box>>
    BY <1>8 DEF SendOutbound, From, Goto, sequential
  <2>2. kept[t] # Nil
    BY <1>1, ContainerIs DEF LocalTypes
  <2>3. /\ DOMAIN outbound' = 1..(Len(outbound) + 1)
        /\ \A m \in DOMAIN outbound : outbound'[m] = outbound[m]
        /\ outbound'[Len(outbound) + 1] = kept[t]
    BY <1>1, <1>3, <2>1 DEF QueueTypes
  <2>4. \A m \in DOMAIN outbound' : outbound'[m] = Nil => m \in DOMAIN outbound /\ outbound[m] = Nil
    BY <1>3, <2>2, <2>3
  <2>5. \A m \in DOMAIN outbound : outbound[m] = Nil => pc'[ctl] = "wait" /\ sender' # "off"
    BY <1>1, <1>2, <2>1 DEF NilInv, LocalTypes
  <2> QED
    BY <1>1, <2>1, <2>4, <2>5 DEF NilInv
<1>9. CASE UNCHANGED <<outbound, sender, box>> /\ (pc[ctl] = "wait" => pc'[ctl] = "wait" \/ sender = "off")
  BY <1>1, <1>9 DEF NilInv
<1>10. \/ SenderTake \/ SenderFinish \/ FlushOutbound \/ StopSender
       \/ \E t \in Thread : SendOutbound(t)
       \/ UNCHANGED <<outbound, sender, box>>
  BY Frames DEF queues, sequential, RoutineEncryption, OfferKeepalive, StagePackets, DropTooOld,
     TakeStaged, SendEncryption, FlushStagedPackets
<1>11. pc[ctl] = "wait" => pc'[ctl] = "wait" \/ sender = "off" \/ FlushOutbound
  <2> SUFFICES ASSUME pc[ctl] = "wait", sender # "off" PROVE pc'[ctl] = "wait" \/ FlushOutbound
    OBVIOUS
  <2>1. CASE \E t \in Thread : Step(t)
    <3>1. PICK t \in Thread : Step(t)
      BY <2>1
    <3>2. t # ctl
      BY <3>1 DEF Step, SendStagedPackets, From,
         SendKeepalive, OfferKeepalive, StagePackets, DropTooOld, Top, PickKeypair, TakeStaged,
         Number, CapNonce, CheckRunning, SendOutbound, SendEncryption, ZeroKeypairs,
         FlushStagedPackets, Exit
    <3>3. \E l : pc' = [pc EXCEPT ![t] = l]
      BY <1>1, <3>1 DEF LocalTypes, Step, SendStagedPackets, Goto, From, Continue,
         SendKeepalive, OfferKeepalive, StagePackets, DropTooOld, Top, PickKeypair, TakeStaged,
         Number, CapNonce, CheckRunning, SendOutbound, SendEncryption, ZeroKeypairs,
         FlushStagedPackets, Exit
    <3> QED
      BY <1>1, <1>2, <3>2, <3>3 DEF LocalTypes
  <2>2. CASE Lifecycle \/ Up \/ Down \/ Close
    BY <2>2 DEF Lifecycle, Start, FinishStart, AfterStart, Stop, StopTimers, StopSender, StopWait,
       CloseQueues, CloseReturn, Up, Down, Close, From
  <2>3. CASE Sender \/ RoutineEncryption \/ KeypairAges \/ ExpireCurrentKeypairs \/ UNCHANGED vars
    BY <2>3 DEF Sender, SenderTake, SenderFinish, RoutineEncryption, KeypairAges,
       ExpireCurrentKeypairs, vars
  <2>4. CASE RoutineReadFromTUN
    BY <1>1, <1>2, <2>4 DEF LocalTypes, RoutineReadFromTUN, From, Goto
  <2>5. ASSUME NEW t \in Worker, BeginSymmetricSession(t) PROVE pc'[ctl] = pc[ctl]
    BY <1>1, <1>2, <2>5 DEF LocalTypes, BeginSymmetricSession, From, Goto
  <2>6. ASSUME NEW t \in Timer, TimerExpires(t) PROVE pc'[ctl] = pc[ctl]
    BY <1>1, <1>2, <2>6 DEF LocalTypes, TimerExpires, From, Goto
  <2>7. ASSUME NEW t \in Receiver, ReceivedWithKeypair(t) \/ ReceiverExit(t)
        PROVE  pc'[ctl] = pc[ctl]
    BY <1>1, <1>2, <2>7 DEF LocalTypes, ReceivedWithKeypair, ReceiverExit, From, Goto
  <2> QED
    BY <2>1, <2>2, <2>3, <2>4, <2>5, <2>6, <2>7 DEF Next
<1> QED
  BY <1>4, <1>5, <1>6, <1>7, <1>8, <1>9, <1>10, <1>11

-----------------------------------------------------------------------------
(* The references to the encryption queue                                  *)

\* nobody takes or gives back a reference
SameRefs ==
  /\ writers' = writers /\ OwnRef' = OwnRef /\ TunRef' = TunRef /\ WorkersOn' = WorkersOn
  /\ PeerRef' = PeerRef

RefsStep == SameRefs \/ Start \/ StopWait \/ CloseQueues \/ \E t \in Thread : Exit(t)

\* Only four steps take or give back a reference.
LEMMA RefsCases == SendInv /\ [Next]_vars => RefsStep
<1> SUFFICES ASSUME SendInv, [Next]_vars PROVE RefsStep
  OBVIOUS
<1>a. ControlInv /\ LocalTypes
  BY TypeParts DEF SendInv
<1>b. {tun, ctl} \subseteq Thread /\ Worker \subseteq Thread /\ Timer \subseteq Thread
      /\ Receiver \subseteq Thread /\ tun # ctl /\ {tun, ctl} \cap Worker = {}
      /\ {tun, ctl} \cap (Timer \cup Receiver) = {} /\ Worker \cap (Timer \cup Receiver) = {}
  BY Numbers, ThreadAssumption
<1>1. ASSUME NEW t \in Thread, SendKeepalive(t) PROVE RefsStep
  BY <1>a, <1>b, <1>1
  DEF RefsStep, SameRefs, OwnRef, TunRef, WorkersOn, PeerRef, ControlInv, Down0, LocalTypes,
      SendKeepalive, life, Goto, From
<1>2. ASSUME NEW t \in Thread, OfferKeepalive(t) PROVE RefsStep
  BY <1>a, <1>b, <1>2
  DEF RefsStep, SameRefs, OwnRef, TunRef, WorkersOn, PeerRef, ControlInv, Down0, LocalTypes,
      OfferKeepalive, life, Goto, From
<1>3. ASSUME NEW t \in Thread, StagePackets(t) PROVE RefsStep
  BY <1>a, <1>b, <1>3
  DEF RefsStep, SameRefs, OwnRef, TunRef, WorkersOn, PeerRef, ControlInv, Down0, LocalTypes,
      StagePackets, life, Goto, From
<1>4. ASSUME NEW t \in Thread, DropTooOld(t) PROVE RefsStep
  BY <1>a, <1>b, <1>4
  DEF RefsStep, SameRefs, OwnRef, TunRef, WorkersOn, PeerRef, ControlInv, Down0, LocalTypes,
      DropTooOld, life, Goto, From
<1>5. ASSUME NEW t \in Thread, Top(t) PROVE RefsStep
  BY <1>a, <1>b, <1>5
  DEF RefsStep, SameRefs, OwnRef, TunRef, WorkersOn, PeerRef, ControlInv, Down0, LocalTypes,
      Top, life, Goto, From
<1>6. ASSUME NEW t \in Thread, PickKeypair(t) PROVE RefsStep
  BY <1>a, <1>b, <1>6
  DEF RefsStep, SameRefs, OwnRef, TunRef, WorkersOn, PeerRef, ControlInv, Down0, LocalTypes,
      PickKeypair, life, Goto, From
<1>7. ASSUME NEW t \in Thread, TakeStaged(t) PROVE RefsStep
  BY <1>a, <1>b, <1>7
  DEF RefsStep, SameRefs, OwnRef, TunRef, WorkersOn, PeerRef, ControlInv, Down0, LocalTypes,
      TakeStaged, life, Goto, From
<1>8. ASSUME NEW t \in Thread, Number(t) PROVE RefsStep
  BY <1>a, <1>b, <1>8
  DEF RefsStep, SameRefs, OwnRef, TunRef, WorkersOn, PeerRef, ControlInv, Down0, LocalTypes,
      Number, life, Goto, From, AfterElement
<1>9. ASSUME NEW t \in Thread, CapNonce(t) PROVE RefsStep
  BY <1>a, <1>b, <1>9
  DEF RefsStep, SameRefs, OwnRef, TunRef, WorkersOn, PeerRef, ControlInv, Down0, LocalTypes,
      CapNonce, life, Goto, From, AfterElement
<1>10. ASSUME NEW t \in Thread, CheckRunning(t) PROVE RefsStep
  BY <1>a, <1>b, <1>10
  DEF RefsStep, SameRefs, OwnRef, TunRef, WorkersOn, PeerRef, ControlInv, Down0, LocalTypes,
      CheckRunning, life, Goto, From, Continue
<1>11. ASSUME NEW t \in Thread, SendOutbound(t) PROVE RefsStep
  BY <1>a, <1>b, <1>11
  DEF RefsStep, SameRefs, OwnRef, TunRef, WorkersOn, PeerRef, ControlInv, Down0, LocalTypes,
      SendOutbound, life, Goto, From
<1>12. ASSUME NEW t \in Thread, SendEncryption(t) PROVE RefsStep
  BY <1>a, <1>b, <1>12
  DEF RefsStep, SameRefs, OwnRef, TunRef, WorkersOn, PeerRef, ControlInv, Down0, LocalTypes,
      SendEncryption, life, Goto, From, Continue
<1>13. ASSUME NEW t \in Thread, ZeroKeypairs(t) PROVE RefsStep
  BY <1>a, <1>b, <1>13
  DEF RefsStep, SameRefs, OwnRef, TunRef, WorkersOn, PeerRef, ControlInv, Down0, LocalTypes,
      ZeroKeypairs, life, Goto, From
<1>14. ASSUME NEW t \in Thread, FlushStagedPackets(t) PROVE RefsStep
  BY <1>a, <1>b, <1>14
  DEF RefsStep, SameRefs, OwnRef, TunRef, WorkersOn, PeerRef, ControlInv, Down0, LocalTypes,
      FlushStagedPackets, life, Goto, From, AfterStop
<1>15. ASSUME NEW t \in Thread, Exit(t) PROVE RefsStep
  BY <1>15 DEF RefsStep
<1>16. CASE Start
  BY <1>16 DEF RefsStep
<1>17. CASE FlushOutbound
  BY <1>a, <1>b, <1>17
  DEF RefsStep, SameRefs, OwnRef, TunRef, WorkersOn, PeerRef, ControlInv, Down0, LocalTypes,
      FlushOutbound, life, Goto, From
<1>18. CASE FinishStart
  BY <1>a, <1>b, <1>18
  DEF RefsStep, SameRefs, OwnRef, TunRef, WorkersOn, PeerRef, ControlInv, Down0, LocalTypes,
      FinishStart, AfterStart, life, Goto, From
<1>19. CASE Stop
  BY <1>a, <1>b, <1>19
  DEF RefsStep, SameRefs, OwnRef, TunRef, WorkersOn, PeerRef, ControlInv, Down0, LocalTypes,
      Stop, life, Goto, From, AfterStop
<1>20. CASE StopTimers
  BY <1>a, <1>b, <1>20
  DEF RefsStep, SameRefs, OwnRef, TunRef, WorkersOn, PeerRef, ControlInv, Down0, LocalTypes,
      StopTimers, life, Goto, From
<1>21. CASE StopSender
  BY <1>a, <1>b, <1>21
  DEF RefsStep, SameRefs, OwnRef, TunRef, WorkersOn, PeerRef, ControlInv, Down0, LocalTypes,
      StopSender, life, Goto, From
<1>22. CASE StopWait
  BY <1>22 DEF RefsStep
<1>23. CASE CloseQueues
  BY <1>23 DEF RefsStep
<1>24. CASE CloseReturn
  BY <1>a, <1>b, <1>24
  DEF RefsStep, SameRefs, OwnRef, TunRef, WorkersOn, PeerRef, ControlInv, Down0, LocalTypes,
      CloseReturn, life, Goto, From
<1>25. CASE SenderTake
  BY <1>25 DEF RefsStep, SameRefs, OwnRef, TunRef, WorkersOn, PeerRef, SenderTake, life
<1>26. CASE SenderFinish
  BY <1>26 DEF RefsStep, SameRefs, OwnRef, TunRef, WorkersOn, PeerRef, SenderFinish, life
<1>27. CASE RoutineEncryption
  BY <1>27 DEF RefsStep, SameRefs, OwnRef, TunRef, WorkersOn, PeerRef, RoutineEncryption, life
<1>28. CASE RoutineReadFromTUN
  BY <1>a, <1>b, <1>28
  DEF RefsStep, SameRefs, OwnRef, TunRef, WorkersOn, PeerRef, ControlInv, Down0, LocalTypes,
      RoutineReadFromTUN, life, Goto, From
<1>29. CASE KeypairAges
  BY <1>29 DEF RefsStep, SameRefs, OwnRef, TunRef, WorkersOn, PeerRef, KeypairAges, life
<1>30. CASE ExpireCurrentKeypairs
  BY <1>30 DEF RefsStep, SameRefs, OwnRef, TunRef, WorkersOn, PeerRef, ExpireCurrentKeypairs, life
<1>31. CASE Up
  BY <1>a, <1>b, <1>31
  DEF RefsStep, SameRefs, OwnRef, TunRef, WorkersOn, PeerRef, ControlInv, Down0, LocalTypes,
      Up, life, Goto, From
<1>32. CASE Down
  BY <1>a, <1>b, <1>32
  DEF RefsStep, SameRefs, OwnRef, TunRef, WorkersOn, PeerRef, ControlInv, Down0, LocalTypes,
      Down, life, Goto, From
<1>33. CASE Close
  BY <1>a, <1>b, <1>33
  DEF RefsStep, SameRefs, OwnRef, TunRef, WorkersOn, PeerRef, ControlInv, Down0, LocalTypes,
      Close, life, Goto, From
<1>34. ASSUME NEW t \in Worker, BeginSymmetricSession(t) PROVE RefsStep
  BY <1>a, <1>b, <1>34
  DEF RefsStep, SameRefs, OwnRef, TunRef, WorkersOn, PeerRef, ControlInv, Down0, LocalTypes,
      BeginSymmetricSession, life, Goto, From
<1>35. ASSUME NEW t \in Timer, TimerExpires(t) PROVE RefsStep
  BY <1>a, <1>b, <1>35
  DEF RefsStep, SameRefs, OwnRef, TunRef, WorkersOn, PeerRef, ControlInv, Down0, LocalTypes,
      TimerExpires, life, Goto, From
<1>36. ASSUME NEW t \in Receiver, ReceivedWithKeypair(t) PROVE RefsStep
  BY <1>a, <1>b, <1>36
  DEF RefsStep, SameRefs, OwnRef, TunRef, WorkersOn, PeerRef, ControlInv, Down0, LocalTypes,
      ReceivedWithKeypair, life, Goto, From
<1>37. ASSUME NEW t \in Receiver, ReceiverExit(t) PROVE RefsStep
  BY <1>a, <1>b, <1>37
  DEF RefsStep, SameRefs, OwnRef, TunRef, WorkersOn, PeerRef, ControlInv, Down0, LocalTypes,
      ReceiverExit, life, Goto, From
<1>38. CASE UNCHANGED vars
  BY <1>38 DEF RefsStep, SameRefs, OwnRef, TunRef, WorkersOn, PeerRef, vars, life
<1> QED
  BY <1>1, <1>2, <1>3, <1>4, <1>5, <1>6, <1>7, <1>8, <1>9, <1>10, <1>11, <1>12, <1>13,
     <1>14, <1>15, <1>16, <1>17, <1>18, <1>19, <1>20, <1>21, <1>22, <1>23, <1>24,
     <1>25, <1>26, <1>27, <1>28, <1>29, <1>30, <1>31, <1>32, <1>33, <1>34, <1>35,
     <1>36, <1>37, <1>38
  DEF Next, Step, SendStagedPackets, Lifecycle, Sender

\* The number of references is the number of those who hold one.
LEMMA WriterStep == SendInv /\ [Next]_vars => WriterInv'
<1> SUFFICES ASSUME SendInv, [Next]_vars PROVE WriterInv'
  OBVIOUS
<1>1. WriterInv /\ ControlInv /\ LocalTypes /\ LifeTypes
  BY TypeParts DEF SendInv
<1>2. {tun, ctl} \subseteq Thread /\ Worker \subseteq Thread /\ tun # ctl /\ {tun, ctl} \cap Worker = {}
  BY Numbers, ThreadAssumption
<1>3. OwnRef \in {0, 1} /\ TunRef \in {0, 1} /\ PeerRef \in {0, 1}
  BY DEF OwnRef, TunRef, PeerRef
<1>4. IsFiniteSet(WorkersOn) /\ Cardinality(WorkersOn) \in Nat
  BY Numbers, FS_Subset, FS_CardinalityType DEF WorkersOn
<1>5. writers = OwnRef + TunRef + Cardinality(WorkersOn) + PeerRef
  BY <1>1 DEF WriterInv
<1>6. CASE SameRefs
  BY <1>5, <1>6 DEF SameRefs, WriterInv
<1>7. CASE Start
  <2>1. writers' = writers + 1 /\ pc[ctl] = "start" /\ pc' = [pc EXCEPT ![ctl] = "drain"]
        /\ running' = running
    BY <1>7 DEF Start, From, Goto
  <2>2. OwnRef' = OwnRef /\ TunRef' = TunRef /\ WorkersOn' = WorkersOn
    BY <1>1, <1>2, <2>1 DEF OwnRef, TunRef, WorkersOn, LocalTypes
  <2>3. PeerRef' = PeerRef + 1
    BY <1>1, <1>2, <2>1 DEF PeerRef, ControlInv, Down0, LocalTypes
  <2> QED
    BY <1>3, <1>4, <1>5, <2>1, <2>2, <2>3 DEF WriterInv
<1>8. CASE StopWait
  <2>1. writers' = writers - 1 /\ pc[ctl] = "wait" /\ pc' = [pc EXCEPT ![ctl] = "zero"]
        /\ running' = running
    BY <1>8 DEF StopWait, From, Goto
  <2>2. OwnRef' = OwnRef /\ TunRef' = TunRef /\ WorkersOn' = WorkersOn
    BY <1>1, <1>2, <2>1 DEF OwnRef, TunRef, WorkersOn, LocalTypes
  <2>3. PeerRef' = PeerRef - 1
    BY <1>1, <1>2, <2>1 DEF PeerRef, ControlInv, Down0, LocalTypes
  <2> QED
    BY <1>3, <1>4, <1>5, <2>1, <2>2, <2>3 DEF WriterInv
<1>9. CASE CloseQueues
  <2>1. writers' = writers - 1 /\ pc[ctl] = "closing" /\ pc' = [pc EXCEPT ![ctl] = "joining"]
        /\ running' = running
    BY <1>9 DEF CloseQueues, From, Goto
  <2>2. OwnRef' = OwnRef - 1 /\ TunRef' = TunRef /\ WorkersOn' = WorkersOn
    BY <1>1, <1>2, <2>1 DEF OwnRef, TunRef, WorkersOn, LocalTypes
  <2>3. PeerRef' = PeerRef
    BY <1>1, <1>2, <2>1 DEF PeerRef, LocalTypes
  <2> QED
    BY <1>3, <1>4, <1>5, <2>1, <2>2, <2>3 DEF WriterInv
<1>10. ASSUME NEW t \in Thread, Exit(t) PROVE WriterInv'
  <2>1. /\ writers' = writers - 1 /\ pc[t] = "idle" /\ pc' = [pc EXCEPT ![t] = "off"]
        /\ running' = running /\ t \in {tun} \cup Worker
    BY <1>10 DEF Exit, From, Goto
  <2>2. pc'[ctl] = pc[ctl]
    BY <1>1, <1>2, <2>1 DEF LocalTypes
  <2>3. OwnRef' = OwnRef /\ PeerRef' = PeerRef
    BY <2>1, <2>2 DEF OwnRef, PeerRef
  <2>4. CASE t = tun
    <3>1. TunRef' = TunRef - 1 /\ WorkersOn' = WorkersOn
      BY <1>1, <1>2, <2>1, <2>4 DEF TunRef, WorkersOn, LocalTypes
    <3> QED
      BY <1>3, <1>4, <1>5, <2>1, <2>3, <3>1 DEF WriterInv
  <2>5. CASE t \in Worker
    <3>1. TunRef' = TunRef /\ WorkersOn' = WorkersOn \ {t} /\ t \in WorkersOn
      BY <1>1, <1>2, <2>1, <2>5 DEF TunRef, WorkersOn, LocalTypes
    <3>2. Cardinality(WorkersOn') = Cardinality(WorkersOn) - 1
      BY <1>4, <3>1, FS_RemoveElement
    <3>3. TunRef' = TunRef
      BY <3>1
    <3> HIDE DEF OwnRef, TunRef, PeerRef
    <3> QED
      BY <1>3, <1>4, <1>5, <2>1, <2>3, <3>2, <3>3 DEF WriterInv
  <2> QED
    BY <2>1, <2>4, <2>5
<1> QED
  BY <1>6, <1>7, <1>8, <1>9, <1>10, RefsCases DEF RefsStep


-----------------------------------------------------------------------------
(* Staged packets                                                          *)

\* A packet is staged, and a keypair or the device becomes usable, only by a thread that is
\* under way, and a thread rests only when nothing is left that could be sent.
LEMMA StagedStep == SendInv /\ [Next]_vars => StagedInv'
<1> SUFFICES ASSUME SendInv, [Next]_vars PROVE StagedInv'
  OBVIOUS
<1>a. StagedInv /\ LocalTypes /\ KeyTypes /\ ControlInv
  BY TypeParts DEF SendInv
<1>b. {tun, ctl} \subseteq Thread /\ Worker \subseteq Thread /\ Timer \subseteq Thread
      /\ Receiver \subseteq Thread /\ RejectAfterMessages \in Nat
  BY Numbers
<1>1. ASSUME NEW t \in Thread, SendKeepalive(t) PROVE StagedInv'
  BY <1>a, <1>b, <1>1
  DEF StagedInv, LocalTypes, SendKeepalive, life, queues, keys, Goto, From
<1>2. ASSUME NEW t \in Thread, OfferKeepalive(t) PROVE StagedInv'
  BY <1>a, <1>b, <1>2
  DEF StagedInv, LocalTypes, OfferKeepalive, life, queues, keys, Goto, From
<1>3. ASSUME NEW t \in Thread, StagePackets(t) PROVE StagedInv'
  BY <1>a, <1>b, <1>3
  DEF StagedInv, LocalTypes, StagePackets, life, queues, keys, Goto, From
<1>4. ASSUME NEW t \in Thread, DropTooOld(t) PROVE StagedInv'
  BY <1>a, <1>b, <1>4
  DEF StagedInv, LocalTypes, DropTooOld, life, queues, keys, Goto, From
<1>5. ASSUME NEW t \in Thread, Top(t) PROVE StagedInv'
  BY <1>a, <1>b, <1>5
  DEF StagedInv, LocalTypes, Top, life, queues, keys, Goto, From
<1>6. ASSUME NEW t \in Thread, PickKeypair(t) PROVE StagedInv'
  BY <1>a, <1>b, <1>6
  DEF StagedInv, LocalTypes, PickKeypair, life, queues, keys, Goto, From, Usable
<1>7. ASSUME NEW t \in Thread, TakeStaged(t) PROVE StagedInv'
  BY <1>a, <1>b, <1>7
  DEF StagedInv, LocalTypes, TakeStaged, life, queues, keys, Goto, From
<1>8. ASSUME NEW t \in Thread, Number(t) PROVE StagedInv'
  BY <1>a, <1>b, <1>8
  DEF StagedInv, LocalTypes, Number, life, queues, keys, Goto, From, AfterElement
<1>9. ASSUME NEW t \in Thread, CapNonce(t) PROVE StagedInv'
  BY <1>a, <1>b, <1>9
  DEF StagedInv, LocalTypes, CapNonce, life, queues, keys, Goto, From, AfterElement
<1>10. ASSUME NEW t \in Thread, CheckRunning(t) PROVE StagedInv'
  BY <1>a, <1>b, <1>10
  DEF StagedInv, LocalTypes, CheckRunning, life, queues, keys, Goto, From, Continue
<1>11. ASSUME NEW t \in Thread, SendOutbound(t) PROVE StagedInv'
  BY <1>a, <1>b, <1>11
  DEF StagedInv, LocalTypes, SendOutbound, life, queues, keys, Goto, From
<1>12. ASSUME NEW t \in Thread, SendEncryption(t) PROVE StagedInv'
  BY <1>a, <1>b, <1>12
  DEF StagedInv, LocalTypes, SendEncryption, life, queues, keys, Goto, From, Continue
<1>13. ASSUME NEW t \in Thread, ZeroKeypairs(t) PROVE StagedInv'
  BY <1>a, <1>b, <1>13
  DEF StagedInv, LocalTypes, ZeroKeypairs, life, queues, keys, Goto, From
<1>14. ASSUME NEW t \in Thread, FlushStagedPackets(t) PROVE StagedInv'
  BY <1>a, <1>b, <1>14
  DEF StagedInv, LocalTypes, FlushStagedPackets, life, queues, keys, Goto, From, AfterStop
<1>15. ASSUME NEW t \in Thread, Exit(t) PROVE StagedInv'
  BY <1>a, <1>b, <1>15
  DEF StagedInv, LocalTypes, Exit, life, queues, keys, Goto, From, Usable
<1>16. CASE Start
  BY <1>a, <1>b, <1>16
  DEF StagedInv, LocalTypes, Start, life, queues, keys, Goto, From
<1>17. CASE FlushOutbound
  <2>1. pc'[ctl] \in {"drain", "run"}
    BY <1>b, <1>17, ThreadAssumption DEF FlushOutbound
  <2> QED
    BY <1>b, <2>1 DEF StagedInv
<1>18. CASE FinishStart
  <2>1. 0 \notin Intervals => pc'[ctl] = "keepalive"
    BY <1>a, <1>b, <1>18, SizeAssumption DEF LocalTypes, FinishStart, AfterStart, Goto, From
  <2> QED
    BY <1>b, <2>1 DEF StagedInv
<1>19. CASE Stop
  BY <1>a, <1>b, <1>19
  DEF StagedInv, LocalTypes, Stop, life, queues, keys, Goto, From, AfterStop, ControlInv
<1>20. CASE StopTimers
  BY <1>a, <1>b, <1>20
  DEF StagedInv, LocalTypes, StopTimers, life, queues, keys, Goto, From
<1>21. CASE StopSender
  BY <1>a, <1>b, <1>21
  DEF StagedInv, LocalTypes, StopSender, life, queues, keys, Goto, From
<1>22. CASE StopWait
  BY <1>a, <1>b, <1>22
  DEF StagedInv, LocalTypes, StopWait, life, queues, keys, Goto, From
<1>23. CASE CloseQueues
  BY <1>a, <1>b, <1>23
  DEF StagedInv, LocalTypes, CloseQueues, life, queues, keys, Goto, From
<1>24. CASE CloseReturn
  BY <1>a, <1>b, <1>24
  DEF StagedInv, LocalTypes, CloseReturn, life, queues, keys, Goto, From
<1>25. CASE SenderTake
  BY <1>a, <1>b, <1>25
  DEF StagedInv, LocalTypes, SenderTake, life, queues, keys, Goto, From, Usable
<1>26. CASE SenderFinish
  BY <1>a, <1>b, <1>26
  DEF StagedInv, LocalTypes, SenderFinish, life, queues, keys, Goto, From, Usable
<1>27. CASE RoutineEncryption
  BY <1>a, <1>b, <1>27
  DEF StagedInv, LocalTypes, RoutineEncryption, life, queues, keys, Goto, From, Usable
<1>28. CASE RoutineReadFromTUN
  BY <1>a, <1>b, <1>28
  DEF StagedInv, LocalTypes, RoutineReadFromTUN, life, queues, keys, Goto, From
<1>29. CASE KeypairAges
  BY <1>a, <1>b, <1>29
  DEF StagedInv, LocalTypes, KeypairAges, life, queues, keys, Goto, From, Usable
<1>30. CASE ExpireCurrentKeypairs
  BY <1>a, <1>b, <1>30
  DEF StagedInv, LocalTypes, ExpireCurrentKeypairs, life, queues, keys, Goto, From, Usable, KeyTypes, Key, NoKey
<1>31. CASE Up
  BY <1>a, <1>b, <1>31
  DEF StagedInv, LocalTypes, Up, life, queues, keys, Goto, From
<1>32. CASE Down
  BY <1>a, <1>b, <1>32
  DEF StagedInv, LocalTypes, Down, life, queues, keys, Goto, From
<1>33. CASE Close
  BY <1>a, <1>b, <1>33
  DEF StagedInv, LocalTypes, Close, life, queues, keys, Goto, From
<1>34. ASSUME NEW t \in Worker, BeginSymmetricSession(t) PROVE StagedInv'
  BY <1>a, <1>b, <1>34
  DEF StagedInv, LocalTypes, BeginSymmetricSession, life, queues, keys, Goto, From
<1>35. ASSUME NEW t \in Timer, TimerExpires(t) PROVE StagedInv'
  BY <1>a, <1>b, <1>35
  DEF StagedInv, LocalTypes, TimerExpires, life, queues, keys, Goto, From
<1>36. ASSUME NEW t \in Receiver, ReceivedWithKeypair(t) PROVE StagedInv'
  BY <1>a, <1>b, <1>36
  DEF StagedInv, LocalTypes, ReceivedWithKeypair, life, queues, keys, Goto, From
<1>37. ASSUME NEW t \in Receiver, ReceiverExit(t) PROVE StagedInv'
  BY <1>a, <1>b, <1>37
  DEF StagedInv, LocalTypes, ReceiverExit, life, queues, keys, Goto, From, Usable
<1>38. CASE UNCHANGED vars
  BY <1>a, <1>38 DEF StagedInv, Usable, vars, life, queues, keys
<1> QED
  BY <1>1, <1>2, <1>3, <1>4, <1>5, <1>6, <1>7, <1>8, <1>9, <1>10, <1>11, <1>12, <1>13,
     <1>14, <1>15, <1>16, <1>17, <1>18, <1>19, <1>20, <1>21, <1>22, <1>23, <1>24,
     <1>25, <1>26, <1>27, <1>28, <1>29, <1>30, <1>31, <1>32, <1>33, <1>34, <1>35,
     <1>36, <1>37, <1>38
  DEF Next, Step, SendStagedPackets, Lifecycle, Sender


-----------------------------------------------------------------------------
(* Nonces                                                                  *)

\* a thread that has to reset a counter still has to
CapStays ==
  \A u \in Thread : pc[u] = "cap" => (pc'[u] = "cap" /\ key'[u] = key[u]) \/ CapNonce(u)

\* A thread that has to reset a counter leaves "cap" by resetting it.
LEMMA CapStep == SendInv /\ [Next]_vars => CapStays
<1> SUFFICES ASSUME SendInv, [Next]_vars PROVE CapStays
  OBVIOUS
<1>a. LocalTypes /\ ControlInv
  BY TypeParts DEF SendInv
<1>b. {tun, ctl} \subseteq Thread /\ Worker \subseteq Thread /\ Timer \subseteq Thread
      /\ Receiver \subseteq Thread
  BY Numbers
<1>1. ASSUME NEW t \in Thread, SendKeepalive(t) PROVE CapStays
  BY <1>a, <1>b, <1>1 DEF CapStays, LocalTypes, SendKeepalive, locals, Goto, From
<1>2. ASSUME NEW t \in Thread, OfferKeepalive(t) PROVE CapStays
  BY <1>a, <1>b, <1>2 DEF CapStays, LocalTypes, OfferKeepalive, locals, Goto, From
<1>3. ASSUME NEW t \in Thread, StagePackets(t) PROVE CapStays
  BY <1>a, <1>b, <1>3 DEF CapStays, LocalTypes, StagePackets, locals, Goto, From
<1>4. ASSUME NEW t \in Thread, DropTooOld(t) PROVE CapStays
  BY <1>a, <1>b, <1>4 DEF CapStays, LocalTypes, DropTooOld, locals, Goto, From
<1>5. ASSUME NEW t \in Thread, Top(t) PROVE CapStays
  BY <1>a, <1>b, <1>5 DEF CapStays, LocalTypes, Top, locals, Goto, From
<1>6. ASSUME NEW t \in Thread, PickKeypair(t) PROVE CapStays
  BY <1>a, <1>b, <1>6 DEF CapStays, LocalTypes, PickKeypair, locals, Goto, From
<1>7. ASSUME NEW t \in Thread, TakeStaged(t) PROVE CapStays
  BY <1>a, <1>b, <1>7 DEF CapStays, LocalTypes, TakeStaged, locals, Goto, From
<1>8. ASSUME NEW t \in Thread, Number(t) PROVE CapStays
  BY <1>a, <1>b, <1>8 DEF CapStays, LocalTypes, Number, locals, Goto, From, AfterElement
<1>9. ASSUME NEW t \in Thread, CapNonce(t) PROVE CapStays
  BY <1>a, <1>9 DEF CapStays, LocalTypes, CapNonce, From, Goto, locals
<1>10. ASSUME NEW t \in Thread, CheckRunning(t) PROVE CapStays
  BY <1>a, <1>b, <1>10 DEF CapStays, LocalTypes, CheckRunning, locals, Goto, From, Continue
<1>11. ASSUME NEW t \in Thread, SendOutbound(t) PROVE CapStays
  BY <1>a, <1>b, <1>11 DEF CapStays, LocalTypes, SendOutbound, locals, Goto, From
<1>12. ASSUME NEW t \in Thread, SendEncryption(t) PROVE CapStays
  BY <1>a, <1>b, <1>12 DEF CapStays, LocalTypes, SendEncryption, locals, Goto, From, Continue
<1>13. ASSUME NEW t \in Thread, ZeroKeypairs(t) PROVE CapStays
  BY <1>a, <1>b, <1>13 DEF CapStays, LocalTypes, ZeroKeypairs, locals, Goto, From
<1>14. ASSUME NEW t \in Thread, FlushStagedPackets(t) PROVE CapStays
  BY <1>a, <1>b, <1>14 DEF CapStays, LocalTypes, FlushStagedPackets, locals, Goto, From, AfterStop
<1>15. ASSUME NEW t \in Thread, Exit(t) PROVE CapStays
  BY <1>a, <1>b, <1>15 DEF CapStays, LocalTypes, Exit, locals, Goto, From
<1>16. CASE Start
  BY <1>a, <1>b, <1>16 DEF CapStays, LocalTypes, Start, locals, Goto, From
<1>17. CASE FlushOutbound
  <2>1. pc[ctl] = "drain" /\ key' = key
    BY <1>17 DEF FlushOutbound, locals
  <2>2. \A u \in Receiver : pc[u] = "off"
    BY <1>a, <2>1 DEF ControlInv, Down0
  <2>3. \A u \in Thread : pc[u] = "cap" => pc'[u] = "cap"
    BY <1>a, <1>17, <2>1, <2>2 DEF FlushOutbound
  <2> QED
    BY <2>1, <2>3 DEF CapStays
<1>18. CASE FinishStart
  BY <1>a, <1>b, <1>18 DEF CapStays, LocalTypes, FinishStart, AfterStart, locals, Goto, From
<1>19. CASE Stop
  BY <1>a, <1>b, <1>19 DEF CapStays, LocalTypes, Stop, locals, Goto, From, AfterStop
<1>20. CASE StopTimers
  BY <1>a, <1>b, <1>20 DEF CapStays, LocalTypes, StopTimers, locals, Goto, From
<1>21. CASE StopSender
  BY <1>a, <1>b, <1>21 DEF CapStays, LocalTypes, StopSender, locals, Goto, From
<1>22. CASE StopWait
  BY <1>a, <1>b, <1>22 DEF CapStays, LocalTypes, StopWait, locals, Goto, From
<1>23. CASE CloseQueues
  BY <1>a, <1>b, <1>23 DEF CapStays, LocalTypes, CloseQueues, locals, Goto, From
<1>24. CASE CloseReturn
  BY <1>a, <1>b, <1>24 DEF CapStays, LocalTypes, CloseReturn, locals, Goto, From
<1>25. CASE SenderTake
  BY <1>25 DEF CapStays, SenderTake, locals
<1>26. CASE SenderFinish
  BY <1>26 DEF CapStays, SenderFinish, locals
<1>27. CASE RoutineEncryption
  BY <1>27 DEF CapStays, RoutineEncryption, locals
<1>28. CASE RoutineReadFromTUN
  BY <1>a, <1>b, <1>28 DEF CapStays, LocalTypes, RoutineReadFromTUN, locals, Goto, From
<1>29. CASE KeypairAges
  BY <1>29 DEF CapStays, KeypairAges, locals
<1>30. CASE ExpireCurrentKeypairs
  BY <1>30 DEF CapStays, ExpireCurrentKeypairs, locals
<1>31. CASE Up
  BY <1>a, <1>b, <1>31 DEF CapStays, LocalTypes, Up, locals, Goto, From
<1>32. CASE Down
  BY <1>a, <1>b, <1>32 DEF CapStays, LocalTypes, Down, locals, Goto, From
<1>33. CASE Close
  BY <1>a, <1>b, <1>33 DEF CapStays, LocalTypes, Close, locals, Goto, From
<1>34. ASSUME NEW t \in Worker, BeginSymmetricSession(t) PROVE CapStays
  BY <1>a, <1>b, <1>34 DEF CapStays, LocalTypes, BeginSymmetricSession, locals, Goto, From
<1>35. ASSUME NEW t \in Timer, TimerExpires(t) PROVE CapStays
  BY <1>a, <1>b, <1>35 DEF CapStays, LocalTypes, TimerExpires, locals, Goto, From
<1>36. ASSUME NEW t \in Receiver, ReceivedWithKeypair(t) PROVE CapStays
  BY <1>a, <1>b, <1>36 DEF CapStays, LocalTypes, ReceivedWithKeypair, locals, Goto, From
<1>37. ASSUME NEW t \in Receiver, ReceiverExit(t) PROVE CapStays
  BY <1>a, <1>b, <1>37 DEF CapStays, LocalTypes, ReceiverExit, locals, Goto, From
<1>38. CASE UNCHANGED vars
  BY <1>38 DEF CapStays, vars, locals
<1> QED
  BY <1>1, <1>2, <1>3, <1>4, <1>5, <1>6, <1>7, <1>8, <1>9, <1>10, <1>11, <1>12, <1>13,
     <1>14, <1>15, <1>16, <1>17, <1>18, <1>19, <1>20, <1>21, <1>22, <1>23, <1>24,
     <1>25, <1>26, <1>27, <1>28, <1>29, <1>30, <1>31, <1>32, <1>33, <1>34, <1>35,
     <1>36, <1>37, <1>38
  DEF Next, Step, SendStagedPackets, Lifecycle, Sender

\* The counter does not wrap: a goroutine that has read a nonce beyond the limit resets
\* the counter before it takes another one.
LEMMA NoWrap ==
  ASSUME SendInv, NEW t \in Thread, pc[t] = "number"
  PROVE  /\ key[t] \in Key /\ sendNonce[key[t]] \in Nat
         /\ Increment(sendNonce[key[t]]) = sendNonce[key[t]] + 1
<1>1. key[t] \in Key /\ sendNonce[key[t]] \in 0..(NonceSpace - 1)
  BY NumberHas
<1>2. PICK k \in Key : k = key[t]
  BY <1>1
<1>3. Capping(k) \subseteq Thread \ {t}
  BY DEF Capping
<1>4. IsFiniteSet(Thread \ {t}) /\ Cardinality(Thread \ {t}) = Cardinality(Thread) - 1
  BY Numbers, FS_RemoveElement
<1>5. Cardinality(Capping(k)) <= Cardinality(Thread) - 1 /\ Cardinality(Capping(k)) \in Nat
  BY <1>3, <1>4, FS_Subset, FS_CardinalityType
<1>6. sendNonce[k] <= RejectAfterMessages + Cardinality(Capping(k))
  BY DEF SendInv, NonceInv
<1>7. sendNonce[k] + 1 < NonceSpace
  BY <1>1, <1>2, <1>5, <1>6, Numbers
<1> QED
  BY <1>1, <1>2, <1>7, Numbers DEF Increment

\* The element that is numbered has no keypair yet.
LEMMA Unnumbered ==
  ASSUME SendInv, NEW t \in Thread, pc[t] = "number"
  PROVE  Head(todo[t]) \in Elem /\ keypair[Head(todo[t])] = NoKey
<1>1. todo[t] \in Seq(Elem) /\ todo[t] # <<>> /\ Head(todo[t]) \in Elem
  BY NumberHas
<1>2. Head(todo[t]) \in Members(todo[t])
  BY <1>1 DEF Members
<1>3. PICK kind \in [Elem -> Kinds], who \in [Elem -> Thread] : Holds(kind, who)
  BY DEF SendInv, PlaceInv
<1> QED
  BY <1>1, <1>2, <1>3 DEF Holds

\* Only Number gives a keypair and a nonce to an element; the others take them away.
LEMMA NumbersStay ==
  ASSUME SendInv, [Next]_vars
  PROVE  \/ \E t \in Thread : Number(t)
         \/ \A e \in Elem : keypair'[e] # NoKey => keypair'[e] = keypair[e] /\ nonce'[e] = nonce[e]
<1> DEFINE Stay == \A e \in Elem : keypair'[e] # NoKey => keypair'[e] = keypair[e] /\ nonce'[e] = nonce[e]
<1>1. ASSUME NEW c, Put(c) PROVE Stay
  BY <1>1 DEF Put
<1>2. CASE UNCHANGED <<keypair, nonce>>
  BY <1>2
<1>3. \/ UNCHANGED <<keypair, nonce>>
      \/ \E t \in Thread : Number(t)
      \/ \E c : Put(c)
  BY Frames DEF elems, RoutineReadFromTUN, SenderFinish, FlushOutbound, OfferKeepalive, DropTooOld,
     CheckRunning, FlushStagedPackets
<1> QED
  BY <1>1, <1>2, <1>3

\* Only Number counts a counter up; otherwise it is set to the limit.
LEMMA CountersStay ==
  ASSUME SendInv, [Next]_vars
  PROVE  \/ \E t \in Thread : Number(t)
         \/ \A k \in Key : sendNonce'[k] = sendNonce[k] \/ sendNonce'[k] = RejectAfterMessages
<1>1. KeyTypes
  BY TypeParts DEF SendInv
<1> QED
  BY <1>1, Frames DEF KeyTypes, keys, KeypairAges, ExpireCurrentKeypairs, CapNonce, ZeroKeypairs,
     BeginSymmetricSession, ReceivedWithKeypair, NewKeypair

\* A counter exceeds the limit by at most the threads that are about to reset it.
LEMMA CounterStep ==
  SendInv /\ [Next]_vars =>
    \A k \in Key : sendNonce'[k] <= RejectAfterMessages + Cardinality(Capping(k)')
<1> SUFFICES ASSUME SendInv, [Next]_vars, NEW k \in Key
             PROVE  sendNonce'[k] <= RejectAfterMessages + Cardinality(Capping(k)')
  OBVIOUS
<1>1. KeyTypes /\ LocalTypes /\ KeyTypes'
  BY TypeParts, KeyTypesStep DEF SendInv
<1>2. IsFiniteSet(Capping(k)') /\ Cardinality(Capping(k)') \in Nat
      /\ IsFiniteSet(Capping(k)) /\ Cardinality(Capping(k)) \in Nat
  BY Numbers, FS_Subset, FS_CardinalityType DEF Capping
<1>3. sendNonce[k] <= RejectAfterMessages + Cardinality(Capping(k))
      /\ sendNonce[k] \in Nat /\ sendNonce'[k] \in Nat
  BY <1>1 DEF SendInv, NonceInv, KeyTypes
<1>4. CASE sendNonce'[k] = RejectAfterMessages
  BY <1>2, <1>4, Numbers
<1>5. CASE sendNonce'[k] = sendNonce[k] /\ ~ \E t \in Thread : CapNonce(t) /\ key[t] = k
  <2>1. Capping(k) \subseteq Capping(k)'
    BY <1>5, CapStep DEF CapStays, Capping
  <2>2. Cardinality(Capping(k)) <= Cardinality(Capping(k)')
    BY <1>2, <2>1, FS_Subset
  <2> QED
    BY <1>2, <1>3, <1>5, <2>2, Numbers
<1>6. ASSUME NEW t \in Thread, CapNonce(t), key[t] = k PROVE sendNonce'[k] = RejectAfterMessages
  BY <1>1, <1>6 DEF KeyTypes, CapNonce
<1>7. ASSUME NEW t \in Thread, Number(t)
      PROVE  sendNonce'[k] <= RejectAfterMessages + Cardinality(Capping(k)')
  <2>1. pc[t] = "number"
    BY <1>7 DEF Number
  <2>2. key[t] \in Key /\ Increment(sendNonce[key[t]]) = sendNonce[key[t]] + 1
    BY <2>1, NoWrap
  <2>3. Capping(k) \subseteq Capping(k)'
    <3>1. \A u \in Thread : ~CapNonce(u)
      <4>1. \A u \in Thread : CapNonce(u) => nonce' = nonce /\ todo' = todo
        BY DEF CapNonce, elems, locals
      <4>2. todo'[t] = Tail(todo[t]) /\ todo[t] # <<>> /\ todo[t] \in Seq(Elem)
        BY <1>1, <1>7, <2>1, NumberHas DEF LocalTypes, Number
      <4>3. Len(todo'[t]) = Len(todo[t]) - 1 /\ Len(todo[t]) \in Nat
        BY <4>2
      <4>4. todo' # todo
        BY <4>3
      <4> QED
        BY <4>1, <4>4
    <3> QED
      BY <3>1, CapStep DEF CapStays, Capping
  <2>4. Cardinality(Capping(k)) <= Cardinality(Capping(k)')
    BY <1>2, <2>3, FS_Subset
  <2>5. CASE key[t] # k
    <3>1. sendNonce'[k] = sendNonce[k]
      BY <1>1, <1>7, <2>5 DEF KeyTypes, Number
    <3> QED
      BY <1>2, <1>3, <2>4, <3>1, Numbers
  <2>6. CASE key[t] = k
    <3>1. sendNonce'[k] = sendNonce[k] + 1
      BY <1>1, <1>7, <2>2, <2>6 DEF KeyTypes, Number
    <3>2. CASE sendNonce[k] < RejectAfterMessages
      BY <1>2, <1>3, <3>1, <3>2, Numbers
    <3>3. CASE sendNonce[k] >= RejectAfterMessages
      <4>1. pc'[t] = "cap" /\ key'[t] = k
        BY <1>1, <1>7, <2>6, <3>3 DEF LocalTypes, Number, Goto
      <4>2. t \in Capping(k)' /\ t \notin Capping(k)
        BY <2>1, <4>1 DEF Capping
      <4>3. Cardinality(Capping(k) \cup {t}) = Cardinality(Capping(k)) + 1
        BY <1>2, <4>2, FS_AddElement
      <4>4. Capping(k) \cup {t} \subseteq Capping(k)'
        BY <2>3, <4>2
      <4>5. Cardinality(Capping(k)) + 1 <= Cardinality(Capping(k)')
        BY <1>2, <4>3, <4>4, FS_Subset
      <4> QED
        BY <1>2, <1>3, <3>1, <4>5, Numbers
    <3> QED
      BY <1>3, <3>2, <3>3, Numbers
  <2> QED
    BY <2>5, <2>6
<1> QED
  BY <1>4, <1>5, <1>6, <1>7, CountersStay

\* What a step of Number does to the numbers of elements and packets.
LEMMA NumberStep ==
  ASSUME SendInv, NEW t \in Thread, Number(t)
  PROVE  \E k \in Key, n \in Nat, e \in Elem :
           /\ n = sendNonce[k] /\ sendNonce' = [sendNonce EXCEPT ![k] = n + 1]
           /\ wire' = wire /\ keypair[e] = NoKey
           /\ nonce' = [nonce EXCEPT ![e] = n]
           /\ \/ keypair' = keypair
              \/ keypair' = [keypair EXCEPT ![e] = k] /\ n < RejectAfterMessages
<1>1. pc[t] = "number"
  BY DEF Number
<1>2. PICK k \in Key : k = key[t] /\ sendNonce[k] \in Nat /\ Increment(sendNonce[k]) = sendNonce[k] + 1
  BY <1>1, NoWrap
<1>3. PICK e \in Elem : e = Head(todo[t]) /\ keypair[e] = NoKey
  BY <1>1, Unnumbered
<1>4. PICK n \in Nat : n = sendNonce[k]
  BY <1>2
<1>5. /\ sendNonce' = [sendNonce EXCEPT ![k] = n + 1] /\ nonce' = [nonce EXCEPT ![e] = n]
      /\ wire' = wire
  BY <1>2, <1>3, <1>4 DEF Number, sequential
<1>6. keypair' = keypair \/ (keypair' = [keypair EXCEPT ![e] = k] /\ ~(n >= RejectAfterMessages))
  BY <1>2, <1>3, <1>4 DEF Number
<1>7. ~(n >= RejectAfterMessages) => n < RejectAfterMessages
  BY Numbers
<1> QED
  BY <1>3, <1>4, <1>5, <1>6, <1>7

\* The nonces in use are below the limit and below the counter.
LEMMA NonceStep == SendInv /\ [Next]_vars => NonceInv'
<1> SUFFICES ASSUME SendInv, [Next]_vars PROVE NonceInv'
  OBVIOUS
<1>1. NonceInv /\ ElemTypes /\ KeyTypes /\ SenderTypes /\ SenderTypes'
  BY TypeParts, SenderTypesStep DEF SendInv
<1>2. \A k \in Key : sendNonce[k] \in Nat
  BY <1>1 DEF KeyTypes
<1>3. \A e \in Elem : /\ keypair[e] # NoKey => keypair[e] \in Key
                      /\ nonce[e] \in Nat
  BY <1>1 DEF ElemTypes, Key, NoKey
<1>4. CASE \E t \in Thread : Number(t)
  <2>1. PICK k \in Key, n \in Nat, e \in Elem :
           /\ n = sendNonce[k] /\ sendNonce' = [sendNonce EXCEPT ![k] = n + 1]
           /\ wire' = wire /\ keypair[e] = NoKey
           /\ nonce' = [nonce EXCEPT ![e] = n]
           /\ \/ keypair' = keypair
              \/ keypair' = [keypair EXCEPT ![e] = k] /\ n < RejectAfterMessages
    BY <1>4, NumberStep
  <2>2. \A j \in Key : sendNonce'[j] >= sendNonce[j] /\ sendNonce'[j] \in Nat
    BY <1>1, <1>2, <2>1 DEF KeyTypes
  <2>3. ASSUME NEW f \in Elem, keypair'[f] # NoKey
        PROVE  nonce'[f] < RejectAfterMessages /\ nonce'[f] < sendNonce'[keypair'[f]]
    <3>1. CASE f = e
      <4>1. keypair'[f] = k /\ n < RejectAfterMessages /\ nonce'[f] = n /\ sendNonce'[k] = n + 1
        BY <1>1, <2>1, <2>3, <3>1 DEF ElemTypes, KeyTypes
      <4> QED
        BY <4>1
    <3>2. CASE f # e
      <4>1. keypair'[f] = keypair[f] /\ nonce'[f] = nonce[f]
        BY <1>1, <2>1, <3>2 DEF ElemTypes
      <4>2. nonce[f] < RejectAfterMessages /\ nonce[f] < sendNonce[keypair[f]] /\ keypair[f] \in Key
        BY <1>1, <1>3, <2>3, <4>1 DEF NonceInv
      <4> QED
        BY <1>2, <1>3, <2>2, <4>1, <4>2
    <3> QED
      BY <3>1, <3>2
  <2>4. ASSUME NEW j \in Key, NEW m \in 0..(NonceSpace - 1), <<j, m>> \in wire'
        PROVE  m < RejectAfterMessages /\ m < sendNonce'[j]
    <3>1. m < RejectAfterMessages /\ m < sendNonce[j]
      BY <1>1, <2>1, <2>4 DEF NonceInv
    <3> QED
      BY <1>2, <2>2, <3>1, Numbers
  <2> QED
    BY <2>3, <2>4, CounterStep DEF NonceInv
<1>5. CASE ~ \E t \in Thread : Number(t)
  <2>1. \A k \in Key : sendNonce'[k] = sendNonce[k] \/ sendNonce'[k] = RejectAfterMessages
    BY <1>5, CountersStay
  <2>2. \A e \in Elem : keypair'[e] # NoKey => keypair'[e] = keypair[e] /\ nonce'[e] = nonce[e]
    BY <1>5, NumbersStay
  <2>3. ASSUME NEW f \in Elem, keypair'[f] # NoKey
        PROVE  nonce'[f] < RejectAfterMessages /\ nonce'[f] < sendNonce'[keypair'[f]]
    <3>1. /\ keypair'[f] = keypair[f] /\ nonce'[f] = nonce[f] /\ keypair[f] \in Key
          /\ nonce[f] < RejectAfterMessages /\ nonce[f] < sendNonce[keypair[f]]
      BY <1>1, <1>3, <2>2, <2>3 DEF NonceInv
    <3> QED
      BY <2>1, <3>1
  <2>4. ASSUME NEW j \in Key, NEW m \in 0..(NonceSpace - 1), <<j, m>> \in wire'
        PROVE  m < RejectAfterMessages /\ m < sendNonce'[j]
    <3>1. CASE <<j, m>> \in wire
      <4>1. m < RejectAfterMessages /\ m < sendNonce[j]
        BY <1>1, <3>1 DEF NonceInv
      <4> QED
        BY <2>1, <4>1
    <3>2. CASE <<j, m>> \notin wire
      <4>1. \E e \in Members(box) : <<j, m>> = <<keypair[e], nonce[e]>>
        BY <2>4, <3>2, Frames DEF sequential, SenderTake, SenderFinish, FlushOutbound
      <4>2. PICK e \in Members(box) : <<j, m>> = <<keypair[e], nonce[e]>>
        BY <4>1
      <4>3. e \in Elem /\ keypair[e] = j /\ nonce[e] = m /\ keypair[e] # NoKey
        BY <4>2, BoxNumbered DEF Key, NoKey
      <4>4. m < RejectAfterMessages /\ m < sendNonce[j]
        BY <1>1, <4>3 DEF NonceInv
      <4> QED
        BY <2>1, <4>4
    <3> QED
      BY <3>1, <3>2
  <2> QED
    BY <2>3, <2>4, CounterStep DEF NonceInv
<1> QED
  BY <1>4, <1>5

\* Two packets never have the same keypair and nonce.
LEMMA ReuseStep == SendInv /\ [Next]_vars => NoNonceReuse'
<1> SUFFICES ASSUME SendInv, [Next]_vars PROVE NoNonceReuse'
  OBVIOUS
<1>1. NonceInv /\ ElemTypes /\ KeyTypes /\ SenderTypes /\ NoNonceReuse
  BY TypeParts DEF SendInv
<1>2. \A e \in Elem : /\ keypair[e] # NoKey => keypair[e] \in Key
                      /\ nonce[e] \in Nat /\ nonce[e] \in 0..(NonceSpace - 1)
  BY <1>1 DEF ElemTypes, Key, NoKey
<1>3. CASE \E t \in Thread : Number(t)
  <2>1. PICK k \in Key, n \in Nat, e \in Elem :
           /\ n = sendNonce[k] /\ sendNonce' = [sendNonce EXCEPT ![k] = n + 1]
           /\ wire' = wire /\ keypair[e] = NoKey
           /\ nonce' = [nonce EXCEPT ![e] = n]
           /\ \/ keypair' = keypair
              \/ keypair' = [keypair EXCEPT ![e] = k] /\ n < RejectAfterMessages
    BY <1>3, NumberStep
  <2>2. \A f \in Elem \ {e} : keypair'[f] = keypair[f] /\ nonce'[f] = nonce[f]
    BY <1>1, <2>1 DEF ElemTypes
  <2>3. CASE keypair' = keypair
    BY <1>1, <2>1, <2>2, <2>3 DEF NoNonceReuse
  <2>4. CASE keypair' = [keypair EXCEPT ![e] = k]
    <3>1. keypair'[e] = k /\ nonce'[e] = n
      BY <1>1, <2>1, <2>4 DEF ElemTypes
    <3>2. \A f \in Elem \ {e} : keypair[f] = k => nonce[f] # n
      <4> SUFFICES ASSUME NEW f \in Elem \ {e}, keypair[f] = k PROVE nonce[f] # n
        OBVIOUS
      <4>1. nonce[f] < n
        BY <1>1, <2>1 DEF NonceInv, Key, NoKey
      <4> QED
        BY <1>2, <4>1
    <3>3. <<k, n>> \notin wire
      BY <1>1, <2>1 DEF NonceInv, SenderTypes
    <3>4. ASSUME NEW f \in Elem, keypair'[f] # NoKey PROVE <<keypair'[f], nonce'[f]>> \notin wire'
      BY <1>1, <2>1, <2>2, <3>1, <3>3, <3>4 DEF NoNonceReuse
    <3>5. ASSUME NEW f \in Elem, NEW g \in Elem \ {f}, keypair'[f] # NoKey,
                 keypair'[g] = keypair'[f], nonce'[g] = nonce'[f]
          PROVE  FALSE
      BY <1>1, <2>2, <3>1, <3>2, <3>5 DEF NoNonceReuse
    <3> QED
      BY <3>4, <3>5 DEF NoNonceReuse
  <2> QED
    BY <2>1, <2>3, <2>4
<1>4. CASE ~ \E t \in Thread : Number(t)
  <2>1. \A e \in Elem : keypair'[e] # NoKey => keypair'[e] = keypair[e] /\ nonce'[e] = nonce[e]
    BY <1>4, NumbersStay
  <2>2. \A f, g \in Elem : keypair'[f] # NoKey /\ f # g =>
          <<keypair'[g], nonce'[g]>> # <<keypair'[f], nonce'[f]>>
    <3> SUFFICES ASSUME NEW f \in Elem, NEW g \in Elem, keypair'[f] # NoKey, f # g,
                        keypair'[g] = keypair'[f], nonce'[g] = nonce'[f]
                 PROVE  FALSE
      OBVIOUS
    <3>1. keypair[g] = keypair[f] /\ nonce[g] = nonce[f] /\ keypair[f] # NoKey
      BY <2>1
    <3> QED
      BY <1>1, <3>1 DEF NoNonceReuse
  <2>3. ASSUME NEW f \in Elem, keypair'[f] # NoKey PROVE <<keypair'[f], nonce'[f]>> \notin wire'
    <3>1. keypair[f] # NoKey /\ keypair'[f] = keypair[f] /\ nonce'[f] = nonce[f]
      BY <2>1, <2>3
    <3>2. <<keypair[f], nonce[f]>> \notin wire
      BY <1>1, <3>1 DEF NoNonceReuse
    <3>3. CASE wire' = wire
      BY <3>1, <3>2, <3>3
    <3>4. CASE SenderFinish
      <4>1. f \notin Members(box)
        BY <2>3, <3>4 DEF SenderFinish, Put
      <4>2. \A e \in Members(box) : e \in Elem /\ <<keypair[e], nonce[e]>> # <<keypair[f], nonce[f]>>
        BY <1>1, <3>1, <4>1, BoxNumbered DEF NoNonceReuse
      <4> QED
        BY <3>1, <3>2, <3>4, <4>2 DEF SenderFinish
    <3> QED
      BY <3>3, <3>4, Frames DEF sequential, SenderTake, FlushOutbound
  <2> QED
    BY <2>2, <2>3 DEF NoNonceReuse
<1> QED
  BY <1>3, <1>4


-----------------------------------------------------------------------------
(* The places of the elements                                              *)

\* no thread locks a container or passes it to an encryption worker
LocksStay == \A u \in Thread : pc'[u] = "enc" <=> pc[u] = "enc"
LocksStep == LocksStay \/ \E t \in Thread : SendOutbound(t) \/ SendEncryption(t)

\* Only SendOutbound locks a container and only SendEncryption passes it on.
LEMMA LocksCases == SendInv /\ [Next]_vars => LocksStep
<1> SUFFICES ASSUME SendInv, [Next]_vars PROVE LocksStep
  OBVIOUS
<1>a. LocalTypes /\ ControlInv
  BY TypeParts DEF SendInv
<1>b. {tun, ctl} \subseteq Thread /\ Worker \subseteq Thread /\ Timer \subseteq Thread
      /\ Receiver \subseteq Thread
  BY Numbers
<1>1. ASSUME NEW t \in Thread, SendKeepalive(t) PROVE LocksStep
  BY <1>a, <1>b, <1>1 DEF LocksStep, LocksStay, LocalTypes, SendKeepalive, Goto, From
<1>2. ASSUME NEW t \in Thread, OfferKeepalive(t) PROVE LocksStep
  BY <1>a, <1>b, <1>2 DEF LocksStep, LocksStay, LocalTypes, OfferKeepalive, Goto, From
<1>3. ASSUME NEW t \in Thread, StagePackets(t) PROVE LocksStep
  BY <1>a, <1>b, <1>3 DEF LocksStep, LocksStay, LocalTypes, StagePackets, Goto, From
<1>4. ASSUME NEW t \in Thread, DropTooOld(t) PROVE LocksStep
  BY <1>a, <1>b, <1>4 DEF LocksStep, LocksStay, LocalTypes, DropTooOld, Goto, From
<1>5. ASSUME NEW t \in Thread, Top(t) PROVE LocksStep
  BY <1>a, <1>b, <1>5 DEF LocksStep, LocksStay, LocalTypes, Top, Goto, From
<1>6. ASSUME NEW t \in Thread, PickKeypair(t) PROVE LocksStep
  BY <1>a, <1>b, <1>6 DEF LocksStep, LocksStay, LocalTypes, PickKeypair, Goto, From
<1>7. ASSUME NEW t \in Thread, TakeStaged(t) PROVE LocksStep
  BY <1>a, <1>b, <1>7 DEF LocksStep, LocksStay, LocalTypes, TakeStaged, Goto, From
<1>8. ASSUME NEW t \in Thread, Number(t) PROVE LocksStep
  BY <1>a, <1>b, <1>8 DEF LocksStep, LocksStay, LocalTypes, Number, Goto, From, AfterElement
<1>9. ASSUME NEW t \in Thread, CapNonce(t) PROVE LocksStep
  BY <1>a, <1>b, <1>9 DEF LocksStep, LocksStay, LocalTypes, CapNonce, Goto, From, AfterElement
<1>10. ASSUME NEW t \in Thread, CheckRunning(t) PROVE LocksStep
  BY <1>a, <1>b, <1>10 DEF LocksStep, LocksStay, LocalTypes, CheckRunning, Goto, From, Continue
<1>11. ASSUME NEW t \in Thread, SendOutbound(t) PROVE LocksStep
  BY <1>11 DEF LocksStep
<1>12. ASSUME NEW t \in Thread, SendEncryption(t) PROVE LocksStep
  BY <1>12 DEF LocksStep
<1>13. ASSUME NEW t \in Thread, ZeroKeypairs(t) PROVE LocksStep
  BY <1>a, <1>b, <1>13 DEF LocksStep, LocksStay, LocalTypes, ZeroKeypairs, Goto, From
<1>14. ASSUME NEW t \in Thread, FlushStagedPackets(t) PROVE LocksStep
  BY <1>a, <1>b, <1>14 DEF LocksStep, LocksStay, LocalTypes, FlushStagedPackets, Goto, From, AfterStop
<1>15. ASSUME NEW t \in Thread, Exit(t) PROVE LocksStep
  BY <1>a, <1>b, <1>15 DEF LocksStep, LocksStay, LocalTypes, Exit, Goto, From
<1>16. CASE Start
  BY <1>a, <1>b, <1>16 DEF LocksStep, LocksStay, LocalTypes, Start, Goto, From
<1>17. CASE FlushOutbound
  <2>1. pc[ctl] = "drain"
    BY <1>17 DEF FlushOutbound
  <2>2. \A u \in Receiver : pc[u] = "off"
    BY <1>a, <2>1 DEF ControlInv, Down0
  <2>3. LocksStay
    BY <1>a, <1>17, <2>1, <2>2 DEF FlushOutbound, LocksStay
  <2> QED
    BY <2>3 DEF LocksStep
<1>18. CASE FinishStart
  BY <1>a, <1>b, <1>18 DEF LocksStep, LocksStay, LocalTypes, FinishStart, AfterStart, Goto, From
<1>19. CASE Stop
  BY <1>a, <1>b, <1>19 DEF LocksStep, LocksStay, LocalTypes, Stop, Goto, From, AfterStop
<1>20. CASE StopTimers
  BY <1>a, <1>b, <1>20 DEF LocksStep, LocksStay, LocalTypes, StopTimers, Goto, From
<1>21. CASE StopSender
  BY <1>a, <1>b, <1>21 DEF LocksStep, LocksStay, LocalTypes, StopSender, Goto, From
<1>22. CASE StopWait
  BY <1>a, <1>b, <1>22 DEF LocksStep, LocksStay, LocalTypes, StopWait, Goto, From
<1>23. CASE CloseQueues
  BY <1>a, <1>b, <1>23 DEF LocksStep, LocksStay, LocalTypes, CloseQueues, Goto, From
<1>24. CASE CloseReturn
  BY <1>a, <1>b, <1>24 DEF LocksStep, LocksStay, LocalTypes, CloseReturn, Goto, From
<1>25. CASE SenderTake
  BY <1>25 DEF LocksStep, LocksStay, SenderTake
<1>26. CASE SenderFinish
  BY <1>26 DEF LocksStep, LocksStay, SenderFinish
<1>27. CASE RoutineEncryption
  BY <1>27 DEF LocksStep, LocksStay, RoutineEncryption
<1>28. CASE RoutineReadFromTUN
  BY <1>a, <1>b, <1>28 DEF LocksStep, LocksStay, LocalTypes, RoutineReadFromTUN, Goto, From
<1>29. CASE KeypairAges
  BY <1>29 DEF LocksStep, LocksStay, KeypairAges
<1>30. CASE ExpireCurrentKeypairs
  BY <1>30 DEF LocksStep, LocksStay, ExpireCurrentKeypairs
<1>31. CASE Up
  BY <1>a, <1>b, <1>31 DEF LocksStep, LocksStay, LocalTypes, Up, Goto, From
<1>32. CASE Down
  BY <1>a, <1>b, <1>32 DEF LocksStep, LocksStay, LocalTypes, Down, Goto, From
<1>33. CASE Close
  BY <1>a, <1>b, <1>33 DEF LocksStep, LocksStay, LocalTypes, Close, Goto, From
<1>34. ASSUME NEW t \in Worker, BeginSymmetricSession(t) PROVE LocksStep
  BY <1>a, <1>b, <1>34 DEF LocksStep, LocksStay, LocalTypes, BeginSymmetricSession, Goto, From
<1>35. ASSUME NEW t \in Timer, TimerExpires(t) PROVE LocksStep
  BY <1>a, <1>b, <1>35 DEF LocksStep, LocksStay, LocalTypes, TimerExpires, Goto, From
<1>36. ASSUME NEW t \in Receiver, ReceivedWithKeypair(t) PROVE LocksStep
  BY <1>a, <1>b, <1>36 DEF LocksStep, LocksStay, LocalTypes, ReceivedWithKeypair, Goto, From
<1>37. ASSUME NEW t \in Receiver, ReceiverExit(t) PROVE LocksStep
  BY <1>a, <1>b, <1>37 DEF LocksStep, LocksStay, LocalTypes, ReceiverExit, Goto, From
<1>38. CASE UNCHANGED vars
  BY <1>38 DEF LocksStep, LocksStay, vars
<1> QED
  BY <1>1, <1>2, <1>3, <1>4, <1>5, <1>6, <1>7, <1>8, <1>9, <1>10, <1>11, <1>12, <1>13,
     <1>14, <1>15, <1>16, <1>17, <1>18, <1>19, <1>20, <1>21, <1>22, <1>23, <1>24,
     <1>25, <1>26, <1>27, <1>28, <1>29, <1>30, <1>31, <1>32, <1>33, <1>34, <1>35,
     <1>36, <1>37, <1>38
  DEF Next, Step, SendStagedPackets, Lifecycle, Sender

\* What the invariants say about the containers.
LEMMA Placed ==
  ASSUME SendInv
  PROVE  /\ staged \in Seq(Container \cup {Nil}) /\ outbound \in Seq(Container \cup {Nil})
         /\ Apart(staged) /\ Apart(outbound) /\ Once(box) /\ box \in Seq(Elem)
         /\ \A t \in Thread : /\ Once(todo[t]) /\ Once(kept[t]) /\ Once(late[t])
                              /\ todo[t] \in Seq(Elem) /\ kept[t] \in Seq(Elem) /\ late[t] \in Seq(Elem)
                              /\ todo[t] \in Partial /\ kept[t] \in Partial /\ late[t] \in Partial
         /\ keypair \in [Elem -> 0..MaxKey] /\ free \subseteq Elem
         /\ DOMAIN todo = Thread /\ DOMAIN kept = Thread /\ DOMAIN late = Thread
         /\ DOMAIN pc = Thread
<1>1. QueueTypes /\ SenderTypes /\ LocalTypes /\ ElemTypes /\ OnceInv
  BY TypeParts DEF SendInv
<1>2. staged \in Seq(Container \cup {Nil}) /\ outbound \in Seq(Container \cup {Nil})
  BY <1>1 DEF QueueTypes
<1>3. box \in Seq(Elem)
      /\ \A t \in Thread : todo[t] \in Seq(Elem) /\ kept[t] \in Seq(Elem) /\ late[t] \in Seq(Elem)
  BY <1>1, ContainerIs DEF SenderTypes, LocalTypes
<1> QED
  BY <1>1, <1>2, <1>3 DEF OnceInv, LocalTypes, ElemTypes

\* The kinds of places.
LEMMA KindsAre ==
  /\ "free" \in Kinds /\ "staged" \in Kinds /\ "outbound" \in Kinds /\ "box" \in Kinds
  /\ "todo" \in Kinds /\ "kept" \in Kinds /\ "late" \in Kinds
BY DEF Kinds

\* f with v as the value of the elements of a set
Moved(f, X, v) == [e \in Elem |-> IF e \in X THEN v ELSE f[e]]

\* A container of the staged queue goes back to the pool.
LEMMA StagedToPool ==
  ASSUME SendInv, LocksStay, staged # <<>>, Put(Head(staged)), staged' = Tail(staged),
         UNCHANGED <<outbound, box, todo, late, kept>>
  PROVE  OnceInv' /\ PlaceInv'
<1>1. PICK kind \in [Elem -> Kinds], who \in [Elem -> Thread] : Holds(kind, who)
  BY DEF SendInv, PlaceInv
<1>2. Head(staged) \in Container /\ Head(staged) # Nil
  BY HeadTypes, TypeParts, ContainerIs DEF SendInv, Partial
<1>3. PICK c \in Container : c = Head(staged)
  BY <1>2
<1>4. /\ Apart(staged') /\ Loads(staged') = Loads(staged) \ Members(c)
      /\ Members(c) \subseteq Loads(staged)
  BY <1>2, <1>3, Placed, QueueTail
<1>5. OnceInv'
  BY <1>4, Placed DEF OnceInv
<1>6. PICK k2 \in [Elem -> Kinds], w2 \in [Elem -> Thread] :
        \A e \in Elem : /\ e \in Members(c) => k2[e] = "free" /\ w2[e] = ctl
                        /\ e \notin Members(c) => k2[e] = kind[e] /\ w2[e] = who[e]
  <2> DEFINE k == Moved(kind, Members(c), "free")
             w == Moved(who, Members(c), ctl)
  <2>1. k \in [Elem -> Kinds] /\ w \in [Elem -> Thread]
    BY KindsAre, Numbers DEF Moved
  <2>2. \A e \in Elem : /\ e \in Members(c) => k[e] = "free" /\ w[e] = ctl
                        /\ e \notin Members(c) => k[e] = kind[e] /\ w[e] = who[e]
    BY DEF Moved
  <2> HIDE DEF k, w
  <2> QED
    BY <2>1, <2>2
<1>7. /\ free' = free \cup Members(c)
      /\ \A e \in Elem : keypair'[e] = IF e \in Members(c) THEN NoKey ELSE keypair[e]
  BY <1>3 DEF Put
<1>8. Holds(k2, w2)'
  BY <1>1, <1>4, <1>6, <1>7 DEF Holds, LocksStay
<1> QED
  BY <1>5, <1>8 DEF PlaceInv

\* A batch from the TUN device takes elements from the pool.
LEMMA PlaceRead == ASSUME SendInv, LocksStay, RoutineReadFromTUN PROVE OnceInv' /\ PlaceInv'
<1>1. PICK kind \in [Elem -> Kinds], who \in [Elem -> Thread] : Holds(kind, who)
  BY DEF SendInv, PlaceInv
<1>2. PICK n \in 1..BatchSize : \E c \in [1..n -> free] :
        /\ \A i, j \in 1..n : c[i] = c[j] => i = j
        /\ late' = [late EXCEPT ![tun] = c] /\ free' = free \ Members(c)
  BY DEF RoutineReadFromTUN
<1>3. PICK c \in [1..n -> free] :
        /\ \A i, j \in 1..n : c[i] = c[j] => i = j
        /\ late' = [late EXCEPT ![tun] = c] /\ free' = free \ Members(c)
  BY <1>2
<1>4. Once(c) /\ Members(c) \subseteq free
  BY <1>3 DEF Once, Members
<1>5. UNCHANGED <<staged, outbound, box, todo, kept, keypair>> /\ tun \in Thread
  BY Numbers DEF RoutineReadFromTUN, queues, sequential
<1>6. late[tun] = <<>>
  BY <1>5 DEF SendInv, LocalInv, LocalOK, RoutineReadFromTUN, From
<1>7. late'[tun] = c /\ \A t \in Thread \ {tun} : late'[t] = late[t]
  BY <1>3, <1>5, Placed
<1>8. OnceInv'
  BY <1>4, <1>5, <1>7, Placed DEF OnceInv
<1>9. PICK k2 \in [Elem -> Kinds], w2 \in [Elem -> Thread] :
        \A e \in Elem : /\ e \in Members(c) => k2[e] = "late" /\ w2[e] = tun
                        /\ e \notin Members(c) => k2[e] = kind[e] /\ w2[e] = who[e]
  <2> DEFINE k == Moved(kind, Members(c), "late")
             w == Moved(who, Members(c), tun)
  <2>1. k \in [Elem -> Kinds] /\ w \in [Elem -> Thread]
    BY KindsAre, <1>5 DEF Moved
  <2>2. \A e \in Elem : /\ e \in Members(c) => k[e] = "late" /\ w[e] = tun
                        /\ e \notin Members(c) => k[e] = kind[e] /\ w[e] = who[e]
    BY DEF Moved
  <2> HIDE DEF k, w
  <2> QED
    BY <2>1, <2>2
<1>10. Members(late[tun]) = {}
  BY <1>6 DEF Members
<1>11. free' = free \ Members(c)
  BY <1>3
<1>12. \A e \in Elem : e \in Members(c) => kind[e] = "free"
  BY <1>1, <1>4 DEF Holds
<1>13. \A e \in Elem, t \in Thread : e \in Members(late'[t]) <=> k2[e] = "late" /\ w2[e] = t
  BY <1>1, <1>5, <1>7, <1>9, <1>10, <1>12 DEF Holds
<1>14. Holds(k2, w2)'
  BY <1>1, <1>5, <1>9, <1>11, <1>12, <1>13 DEF Holds, LocksStay
<1> QED
  BY <1>8, <1>14 DEF PlaceInv

\* A keepalive takes an element from the pool to the staged queue.
LEMMA PlaceOffer ==
  ASSUME SendInv, LocksStay, NEW t \in Thread, OfferKeepalive(t) PROVE OnceInv' /\ PlaceInv'
<1>1. PICK kind \in [Elem -> Kinds], who \in [Elem -> Thread] : Holds(kind, who)
  BY DEF SendInv, PlaceInv
<1>2. UNCHANGED <<outbound, box, todo, kept, late, keypair>>
  BY DEF OfferKeepalive, locals, sequential
<1>3. CASE UNCHANGED <<staged, free>>
  <2>1. Holds(kind, who)'
    BY <1>1, <1>2, <1>3 DEF Holds, LocksStay
  <2> QED
    BY <1>2, <1>3, <2>1, Placed DEF PlaceInv, OnceInv
<1>4. ASSUME NEW x \in free, staged' = Append(staged, <<x>>), free' = free \ {x}
      PROVE  OnceInv' /\ PlaceInv'
  <2>1. x \in Elem /\ <<x>> \in Seq(Elem) /\ Len(<<x>>) = 1
    BY <1>4, Placed
  <2>2. PICK c \in Container : c = <<x>>
    <3>1. PICK d \in Seq(Elem) : d = <<x>>
      BY <2>1
    <3>2. d \in Container
      BY <2>1, <3>1, ContainerIs, Numbers
    <3> QED
      BY <3>1, <3>2
  <2>3. c \in Partial
    BY DEF Partial
  <2>4. Members(c) = {x} /\ Once(c) /\ c # Nil
    <3>1. DOMAIN c = {1} /\ c[1] = x
      BY <2>2
    <3>2. c # Nil
      BY <2>3, ContainerIs
    <3> QED
      BY <3>1, <3>2 DEF Members, Once
  <2>5. Members(c) \cap Loads(staged) = {}
    BY <1>1, <1>4, <2>1, <2>4 DEF Holds
  <2>6. Apart(staged') /\ Loads(staged') = Loads(staged) \cup {x}
    BY <1>4, <2>2, <2>4, <2>5, Placed, QueueAppend
  <2>7. PICK k2 \in [Elem -> Kinds], w2 \in [Elem -> Thread] :
          \A e \in Elem : /\ e \in {x} => k2[e] = "staged" /\ w2[e] = t
                          /\ e \notin {x} => k2[e] = kind[e] /\ w2[e] = who[e]
    <3> DEFINE k == Moved(kind, {x}, "staged")
               w == Moved(who, {x}, t)
    <3>1. k \in [Elem -> Kinds] /\ w \in [Elem -> Thread]
      BY KindsAre DEF Moved
    <3>2. \A e \in Elem : /\ e \in {x} => k[e] = "staged" /\ w[e] = t
                          /\ e \notin {x} => k[e] = kind[e] /\ w[e] = who[e]
      BY DEF Moved
    <3> HIDE DEF k, w
    <3> QED
      BY <3>1, <3>2
  <2>8. Holds(k2, w2)'
    BY <1>1, <1>2, <1>4, <2>1, <2>4, <2>6, <2>7 DEF Holds, LocksStay
  <2> QED
    BY <1>2, <2>6, <2>8, Placed DEF PlaceInv, OnceInv
<1> QED
  BY <1>3, <1>4 DEF OfferKeepalive

\* What got no nonce, or came from the TUN device, is staged.
LEMMA PlaceStage ==
  ASSUME SendInv, LocksStay, NEW t \in Thread, StagePackets(t) PROVE OnceInv' /\ PlaceInv'
<1>1. PICK kind \in [Elem -> Kinds], who \in [Elem -> Thread] : Holds(kind, who)
  BY DEF SendInv, PlaceInv
<1>2. UNCHANGED <<outbound, box, todo, kept, keypair, free>>
  BY DEF StagePackets, elems, sequential
<1>3. CASE UNCHANGED <<staged, late>>
  <2>1. Holds(kind, who)'
    BY <1>1, <1>2, <1>3 DEF Holds, LocksStay
  <2> QED
    BY <1>2, <1>3, <2>1, Placed DEF PlaceInv, OnceInv
<1>4. CASE staged' = Append(staged, late[t]) /\ late' = [late EXCEPT ![t] = <<>>]
  <2>1. late[t] # <<>>
    BY DEF SendInv, LocalInv, LocalOK, StagePackets
  <2>2. PICK c \in Container : c = late[t]
    BY <2>1, Placed DEF Partial
  <2>3. Once(c) /\ c # Nil /\ Members(c) \subseteq Elem
    BY <2>2, Placed, ContainerIs, MembersAre DEF Partial
  <2>4. Members(c) \cap Loads(staged) = {}
    BY <1>1, <2>2, <2>3 DEF Holds
  <2>5. Apart(staged') /\ Loads(staged') = Loads(staged) \cup Members(c)
    BY <1>4, <2>2, <2>3, <2>4, Placed, QueueAppend
  <2>6. late'[t] = <<>> /\ \A u \in Thread \ {t} : late'[u] = late[u]
    BY <1>4, Placed
  <2>7. Members(<<>>) = {} /\ Once(<<>>)
    BY DEF Members, Once
  <2>8. PICK k2 \in [Elem -> Kinds], w2 \in [Elem -> Thread] :
          \A e \in Elem : /\ e \in Members(c) => k2[e] = "staged" /\ w2[e] = t
                          /\ e \notin Members(c) => k2[e] = kind[e] /\ w2[e] = who[e]
    <3> DEFINE k == Moved(kind, Members(c), "staged")
               w == Moved(who, Members(c), t)
    <3>1. k \in [Elem -> Kinds] /\ w \in [Elem -> Thread]
      BY KindsAre DEF Moved
    <3>2. \A e \in Elem : /\ e \in Members(c) => k[e] = "staged" /\ w[e] = t
                          /\ e \notin Members(c) => k[e] = kind[e] /\ w[e] = who[e]
      BY DEF Moved
    <3> HIDE DEF k, w
    <3> QED
      BY <3>1, <3>2
  <2>9. Holds(k2, w2)'
    BY <1>1, <1>2, <2>2, <2>5, <2>6, <2>7, <2>8 DEF Holds, LocksStay
  <2> QED
    BY <1>2, <2>5, <2>6, <2>7, <2>9, Placed DEF PlaceInv, OnceInv
<1> QED
  BY <1>3, <1>4 DEF StagePackets

\* A container is taken from the staged queue to be numbered.
LEMMA PlaceTake ==
  ASSUME SendInv, LocksStay, NEW t \in Thread, TakeStaged(t) PROVE OnceInv' /\ PlaceInv'
<1>1. PICK kind \in [Elem -> Kinds], who \in [Elem -> Thread] : Holds(kind, who)
  BY DEF SendInv, PlaceInv
<1>2. UNCHANGED <<outbound, box, late, kept, keypair, free>>
  BY DEF TakeStaged, elems, sequential
<1>3. CASE UNCHANGED <<staged, todo>>
  <2>1. Holds(kind, who)'
    BY <1>1, <1>2, <1>3 DEF Holds, LocksStay
  <2> QED
    BY <1>2, <1>3, <2>1, Placed DEF PlaceInv, OnceInv
<1>4. CASE staged # <<>> /\ todo' = [todo EXCEPT ![t] = Head(staged)] /\ staged' = Tail(staged)
  <2>1. Head(staged) \in Container /\ Head(staged) # Nil
    BY <1>4, HeadTypes, TypeParts, ContainerIs DEF SendInv, Partial
  <2>2. PICK c \in Container : c = Head(staged)
    BY <2>1
  <2>3. /\ Apart(staged') /\ Loads(staged') = Loads(staged) \ Members(c)
        /\ Members(c) \subseteq Loads(staged) /\ Once(c)
    BY <1>4, <2>1, <2>2, Placed, QueueTail
  <2>4. todo'[t] = c /\ \A u \in Thread \ {t} : todo'[u] = todo[u]
    BY <1>4, <2>2, Placed
  <2>5. todo[t] = <<>>
    BY DEF SendInv, LocalInv, LocalOK, TakeStaged
  <2>6. Members(todo[t]) = {}
    BY <2>5 DEF Members
  <2>7. PICK k2 \in [Elem -> Kinds], w2 \in [Elem -> Thread] :
          \A e \in Elem : /\ e \in Members(c) => k2[e] = "todo" /\ w2[e] = t
                          /\ e \notin Members(c) => k2[e] = kind[e] /\ w2[e] = who[e]
    <3> DEFINE k == Moved(kind, Members(c), "todo")
               w == Moved(who, Members(c), t)
    <3>1. k \in [Elem -> Kinds] /\ w \in [Elem -> Thread]
      BY KindsAre DEF Moved
    <3>2. \A e \in Elem : /\ e \in Members(c) => k[e] = "todo" /\ w[e] = t
                          /\ e \notin Members(c) => k[e] = kind[e] /\ w[e] = who[e]
      BY DEF Moved
    <3> HIDE DEF k, w
    <3> QED
      BY <3>1, <3>2
  <2>8. Holds(k2, w2)'
    BY <1>1, <1>2, <2>3, <2>4, <2>6, <2>7 DEF Holds, LocksStay
  <2> QED
    BY <1>2, <2>3, <2>4, <2>8, Placed DEF PlaceInv, OnceInv
<1> QED
  BY <1>3, <1>4 DEF TakeStaged

\* An element gets a nonce and joins those that have one, or those that have to wait.
LEMMA PlaceNumber ==
  ASSUME SendInv, LocksStay, NEW t \in Thread, Number(t) PROVE OnceInv' /\ PlaceInv'
<1>1. PICK kind \in [Elem -> Kinds], who \in [Elem -> Thread] : Holds(kind, who)
  BY DEF SendInv, PlaceInv
<1>2. UNCHANGED <<staged, outbound, box, free>> /\ pc[t] = "number"
  BY DEF Number, queues, sequential
<1>3. PICK x \in Elem : x = Head(todo[t])
  BY <1>2, NumberHas
<1>4. todo[t] # <<>> /\ key[t] # NoKey
  BY <1>2, NumberHas
<1>5. PICK c \in Seq(Elem) : c = todo[t]
  BY Placed
<1>6. x \in Members(c) /\ Members(Tail(c)) = Members(c) \ {x} /\ Once(Tail(c))
  BY <1>3, <1>4, <1>5, Placed, ContainerSteps
<1>7. todo'[t] = Tail(c) /\ \A u \in Thread \ {t} : todo'[u] = todo[u]
  BY <1>5, Placed DEF Number
<1>8. kind[x] = "todo" /\ who[x] = t
  BY <1>1, <1>5, <1>6 DEF Holds
<1>9. CASE /\ late' = [late EXCEPT ![t] = Append(late[t], x)] /\ UNCHANGED <<kept, keypair>>
  <2>1. PICK d \in Seq(Elem) : d = late[t]
    BY Placed
  <2>2. x \notin Members(d)
    BY <1>1, <1>8, <2>1 DEF Holds
  <2>3. Members(Append(d, x)) = Members(d) \cup {x} /\ Once(Append(d, x))
    BY <2>1, <2>2, Placed, ContainerSteps
  <2>4. late'[t] = Append(d, x) /\ \A u \in Thread \ {t} : late'[u] = late[u]
    BY <1>9, <2>1, Placed
  <2>5. PICK k2 \in [Elem -> Kinds], w2 \in [Elem -> Thread] :
          \A e \in Elem : /\ e \in {x} => k2[e] = "late" /\ w2[e] = t
                          /\ e \notin {x} => k2[e] = kind[e] /\ w2[e] = who[e]
    <3> DEFINE k == Moved(kind, {x}, "late")
               w == Moved(who, {x}, t)
    <3>1. k \in [Elem -> Kinds] /\ w \in [Elem -> Thread]
      BY KindsAre DEF Moved
    <3>2. \A e \in Elem : /\ e \in {x} => k[e] = "late" /\ w[e] = t
                          /\ e \notin {x} => k[e] = kind[e] /\ w[e] = who[e]
      BY DEF Moved
    <3> HIDE DEF k, w
    <3> QED
      BY <3>1, <3>2
  <2>6. Holds(k2, w2)'
    BY <1>1, <1>2, <1>5, <1>6, <1>7, <1>8, <1>9, <2>1, <2>3, <2>4, <2>5 DEF Holds, LocksStay
  <2> QED
    BY <1>2, <1>6, <1>7, <1>9, <2>3, <2>4, <2>6, Placed DEF PlaceInv, OnceInv
<1>10. CASE /\ kept' = [kept EXCEPT ![t] = Append(kept[t], x)]
            /\ keypair' = [keypair EXCEPT ![x] = key[t]] /\ UNCHANGED late
  <2>1. PICK d \in Seq(Elem) : d = kept[t]
    BY Placed
  <2>2. x \notin Members(d)
    BY <1>1, <1>2, <1>8, <2>1 DEF Holds
  <2>3. Members(Append(d, x)) = Members(d) \cup {x} /\ Once(Append(d, x))
    BY <2>1, <2>2, Placed, ContainerSteps
  <2>4. kept'[t] = Append(d, x) /\ \A u \in Thread \ {t} : kept'[u] = kept[u]
    BY <1>10, <2>1, Placed
  <2>5. PICK k2 \in [Elem -> Kinds], w2 \in [Elem -> Thread] :
          \A e \in Elem : /\ e \in {x} => k2[e] = "kept" /\ w2[e] = t
                          /\ e \notin {x} => k2[e] = kind[e] /\ w2[e] = who[e]
    <3> DEFINE k == Moved(kind, {x}, "kept")
               w == Moved(who, {x}, t)
    <3>1. k \in [Elem -> Kinds] /\ w \in [Elem -> Thread]
      BY KindsAre DEF Moved
    <3>2. \A e \in Elem : /\ e \in {x} => k[e] = "kept" /\ w[e] = t
                          /\ e \notin {x} => k[e] = kind[e] /\ w[e] = who[e]
      BY DEF Moved
    <3> HIDE DEF k, w
    <3> QED
      BY <3>1, <3>2
  <2>6. keypair'[x] # NoKey /\ \A e \in Elem \ {x} : keypair'[e] = keypair[e]
    BY <1>4, <1>10, Placed
  <2>7. Holds(k2, w2)'
    BY <1>1, <1>2, <1>5, <1>6, <1>7, <1>8, <1>10, <2>1, <2>3, <2>4, <2>5, <2>6
    DEF Holds, LocksStay
  <2> QED
    BY <1>2, <1>6, <1>7, <1>10, <2>3, <2>4, <2>7, Placed DEF PlaceInv, OnceInv
<1> QED
  BY <1>3, <1>9, <1>10 DEF Number

\* A container of a peer that does not run any more goes back to the pool.
LEMMA PlaceCheck ==
  ASSUME SendInv, LocksStay, NEW t \in Thread, CheckRunning(t) PROVE OnceInv' /\ PlaceInv'
<1>1. PICK kind \in [Elem -> Kinds], who \in [Elem -> Thread] : Holds(kind, who)
  BY DEF SendInv, PlaceInv
<1>2. UNCHANGED <<staged, outbound, box, todo, late>> /\ pc[t] = "queue"
  BY DEF CheckRunning, queues, sequential
<1>3. CASE UNCHANGED <<free, keypair, kept>>
  <2>1. Holds(kind, who)'
    BY <1>1, <1>2, <1>3 DEF Holds, LocksStay
  <2> QED
    BY <1>2, <1>3, <2>1, Placed DEF PlaceInv, OnceInv
<1>4. CASE Put(kept[t]) /\ kept' = [kept EXCEPT ![t] = <<>>]
  <2>1. PICK c \in Seq(Elem) : c = kept[t]
    BY Placed
  <2>2. /\ free' = free \cup Members(c)
        /\ \A e \in Elem : keypair'[e] = IF e \in Members(c) THEN NoKey ELSE keypair[e]
    BY <1>4, <2>1 DEF Put
  <2>3. kept'[t] = <<>> /\ \A u \in Thread \ {t} : kept'[u] = kept[u]
    BY <1>4, Placed
  <2>4. Members(<<>>) = {} /\ Once(<<>>)
    BY DEF Members, Once
  <2>5. PICK k2 \in [Elem -> Kinds], w2 \in [Elem -> Thread] :
          \A e \in Elem : /\ e \in Members(c) => k2[e] = "free" /\ w2[e] = t
                          /\ e \notin Members(c) => k2[e] = kind[e] /\ w2[e] = who[e]
    <3> DEFINE k == Moved(kind, Members(c), "free")
               w == Moved(who, Members(c), t)
    <3>1. k \in [Elem -> Kinds] /\ w \in [Elem -> Thread]
      BY KindsAre DEF Moved
    <3>2. \A e \in Elem : /\ e \in Members(c) => k[e] = "free" /\ w[e] = t
                          /\ e \notin Members(c) => k[e] = kind[e] /\ w[e] = who[e]
      BY DEF Moved
    <3> HIDE DEF k, w
    <3> QED
      BY <3>1, <3>2
  <2>6. Holds(k2, w2)'
    BY <1>1, <1>2, <2>1, <2>2, <2>3, <2>4, <2>5 DEF Holds, LocksStay
  <2> QED
    BY <1>2, <2>3, <2>4, <2>6, Placed DEF PlaceInv, OnceInv
<1> QED
  BY <1>3, <1>4 DEF CheckRunning, elems, Continue

\* A numbered container enters the outbound queue, locked.
LEMMA PlaceOutbound ==
  ASSUME SendInv, NEW t \in Thread, SendOutbound(t) PROVE OnceInv' /\ PlaceInv'
<1>1. PICK kind \in [Elem -> Kinds], who \in [Elem -> Thread] : Holds(kind, who)
  BY DEF SendInv, PlaceInv
<1>2. /\ UNCHANGED <<staged, box, todo, late, kept, free, keypair>> /\ pc[t] = "out"
      /\ outbound' = Append(outbound, kept[t])
      /\ pc' = [pc EXCEPT ![t] = "enc"]
  BY DEF SendOutbound, elems, locals, sequential, From, Goto
<1>3. pc'[t] = "enc" /\ \A u \in Thread \ {t} : pc'[u] = pc[u]
  BY <1>2, Placed
<1>4. kept[t] # <<>>
  BY <1>2 DEF SendInv, LocalInv, LocalOK
<1>5. PICK c \in Container : c = kept[t]
  BY <1>4, Placed DEF Partial
<1>6. Once(c) /\ c # Nil /\ Members(c) \subseteq Elem
  BY <1>5, Placed, ContainerIs, MembersAre DEF Partial
<1>7. Members(c) \cap Loads(outbound) = {}
  BY <1>1, <1>2, <1>5, <1>6 DEF Holds
<1>8. Apart(outbound') /\ Loads(outbound') = Loads(outbound) \cup Members(c)
  BY <1>2, <1>5, <1>6, <1>7, Placed, QueueAppend
<1>9. PICK k2 \in [Elem -> Kinds], w2 \in [Elem -> Thread] :
        \A e \in Elem : /\ e \in Members(c) => k2[e] = "outbound" /\ w2[e] = t
                        /\ e \notin Members(c) => k2[e] = kind[e] /\ w2[e] = who[e]
  <2> DEFINE k == Moved(kind, Members(c), "outbound")
             w == Moved(who, Members(c), t)
  <2>1. k \in [Elem -> Kinds] /\ w \in [Elem -> Thread]
    BY KindsAre DEF Moved
  <2>2. \A e \in Elem : /\ e \in Members(c) => k[e] = "outbound" /\ w[e] = t
                        /\ e \notin Members(c) => k[e] = kind[e] /\ w[e] = who[e]
    BY DEF Moved
  <2> HIDE DEF k, w
  <2> QED
    BY <2>1, <2>2
<1>10. Holds(k2, w2)'
  BY <1>1, <1>2, <1>3, <1>5, <1>8, <1>9 DEF Holds
<1> QED
  BY <1>2, <1>8, <1>10, Placed DEF PlaceInv, OnceInv

\* The thread forgets the container that it has passed on.
LEMMA PlaceEncryption ==
  ASSUME SendInv, NEW t \in Thread, SendEncryption(t) PROVE OnceInv' /\ PlaceInv'
<1>1. PICK kind \in [Elem -> Kinds], who \in [Elem -> Thread] : Holds(kind, who)
  BY DEF SendInv, PlaceInv
<1>2. /\ UNCHANGED <<staged, outbound, box, todo, late, free, keypair>> /\ pc[t] = "enc"
      /\ kept'[t] = <<>> /\ pc'[t] # "enc"
      /\ \A u \in Thread \ {t} : pc'[u] = pc[u] /\ kept'[u] = kept[u]
  BY Placed DEF SendEncryption, elems, sequential, Goto, Continue
<1>3. Members(<<>>) = {} /\ Once(<<>>)
  BY DEF Members, Once
<1>4. Holds(kind, who)'
  BY <1>1, <1>2, <1>3 DEF Holds
<1> QED
  BY <1>2, <1>3, <1>4, Placed DEF PlaceInv, OnceInv

\* The sender takes a container from the outbound queue.
LEMMA PlaceSender ==
  ASSUME SendInv, LocksStay, SenderTake PROVE OnceInv' /\ PlaceInv'
<1>1. PICK kind \in [Elem -> Kinds], who \in [Elem -> Thread] : Holds(kind, who)
  BY DEF SendInv, PlaceInv
<1>2. /\ UNCHANGED <<staged, todo, late, kept, free, keypair>> /\ sender = "loop"
      /\ outbound # <<>> /\ outbound' = Tail(outbound)
  BY DEF SenderTake, elems, locals
<1>3. box = <<>>
  BY <1>2 DEF SendInv, NilInv
<1>4. Members(<<>>) = {} /\ Once(<<>>)
  BY DEF Members, Once
<1>5. CASE Head(outbound) = Nil
  <2>1. box' = box /\ Apart(outbound') /\ Loads(outbound') = Loads(outbound)
    BY <1>2, <1>5, Placed, QueueTail DEF SenderTake
  <2>2. Holds(kind, who)'
    BY <1>1, <1>2, <2>1 DEF Holds, LocksStay
  <2> QED
    BY <1>2, <2>1, <2>2, Placed DEF PlaceInv, OnceInv
<1>6. CASE Head(outbound) # Nil
  <2>1. PICK c : c = Head(outbound)
    OBVIOUS
  <2>2. /\ box' = c /\ Apart(outbound') /\ Loads(outbound') = Loads(outbound) \ Members(c)
        /\ Members(c) \subseteq Loads(outbound) /\ Once(c)
    BY <1>2, <1>6, <2>1, Placed, QueueTail DEF SenderTake
  <2>3. PICK k2 \in [Elem -> Kinds], w2 \in [Elem -> Thread] :
          \A e \in Elem : /\ e \in Members(c) => k2[e] = "box" /\ w2[e] = ctl
                          /\ e \notin Members(c) => k2[e] = kind[e] /\ w2[e] = who[e]
    <3> DEFINE k == Moved(kind, Members(c), "box")
               w == Moved(who, Members(c), ctl)
    <3>1. k \in [Elem -> Kinds] /\ w \in [Elem -> Thread]
      BY KindsAre, Numbers DEF Moved
    <3>2. \A e \in Elem : /\ e \in Members(c) => k[e] = "box" /\ w[e] = ctl
                          /\ e \notin Members(c) => k[e] = kind[e] /\ w[e] = who[e]
      BY DEF Moved
    <3> HIDE DEF k, w
    <3> QED
      BY <3>1, <3>2
  <2>4. Holds(k2, w2)'
    BY <1>1, <1>2, <1>3, <1>4, <2>2, <2>3 DEF Holds, LocksStay
  <2> QED
    BY <1>2, <2>2, <2>4, Placed DEF PlaceInv, OnceInv
<1> QED
  BY <1>5, <1>6

\* The sender puts the elements of its container back.
LEMMA PlaceFinish ==
  ASSUME SendInv, LocksStay, SenderFinish PROVE OnceInv' /\ PlaceInv'
<1>1. PICK kind \in [Elem -> Kinds], who \in [Elem -> Thread] : Holds(kind, who)
  BY DEF SendInv, PlaceInv
<1>2. UNCHANGED <<staged, outbound, todo, late, kept>> /\ box' = <<>>
  BY DEF SenderFinish, queues, locals
<1>3. Members(<<>>) = {} /\ Once(<<>>)
  BY DEF Members, Once
<1>4. PICK c : c = box
  OBVIOUS
<1>5. /\ free' = free \cup Members(c)
      /\ \A e \in Elem : keypair'[e] = IF e \in Members(c) THEN NoKey ELSE keypair[e]
  BY <1>4 DEF SenderFinish, Put
<1>6. PICK k2 \in [Elem -> Kinds], w2 \in [Elem -> Thread] :
        \A e \in Elem : /\ e \in Members(c) => k2[e] = "free" /\ w2[e] = ctl
                        /\ e \notin Members(c) => k2[e] = kind[e] /\ w2[e] = who[e]
  <2> DEFINE k == Moved(kind, Members(c), "free")
             w == Moved(who, Members(c), ctl)
  <2>1. k \in [Elem -> Kinds] /\ w \in [Elem -> Thread]
    BY KindsAre, Numbers DEF Moved
  <2>2. \A e \in Elem : /\ e \in Members(c) => k[e] = "free" /\ w[e] = ctl
                        /\ e \notin Members(c) => k[e] = kind[e] /\ w[e] = who[e]
    BY DEF Moved
  <2> HIDE DEF k, w
  <2> QED
    BY <2>1, <2>2
<1>7. Holds(k2, w2)'
  BY <1>1, <1>2, <1>3, <1>4, <1>5, <1>6 DEF Holds, LocksStay
<1> QED
  BY <1>2, <1>3, <1>7, Placed DEF PlaceInv, OnceInv

\* Start puts the elements of what was left in the outbound queue back.
LEMMA PlaceFlush ==
  ASSUME SendInv, LocksStay, FlushOutbound PROVE OnceInv' /\ PlaceInv'
<1>1. PICK kind \in [Elem -> Kinds], who \in [Elem -> Thread] : Holds(kind, who)
  BY DEF SendInv, PlaceInv
<1>2. UNCHANGED <<staged, todo, late, kept, box>> /\ pc[ctl] = "drain"
  BY DEF FlushOutbound, locals
<1>3. CASE outbound = <<>>
  <2>1. UNCHANGED <<outbound, free, keypair>>
    BY <1>3 DEF FlushOutbound, elems
  <2>2. Holds(kind, who)'
    BY <1>1, <1>2, <2>1 DEF Holds, LocksStay
  <2> QED
    BY <1>2, <2>1, <2>2, Placed DEF PlaceInv, OnceInv
<1>4. CASE outbound # <<>>
  <2>1. PICK c : c = Head(outbound)
    OBVIOUS
  <2>2. c # Nil
    <3>1. 1 \in DOMAIN outbound /\ c = outbound[1]
      BY <1>4, <2>1, Placed
    <3> QED
      BY <1>2, <3>1 DEF SendInv, NilInv
  <2>3. /\ Apart(outbound') /\ Loads(outbound') = Loads(outbound) \ Members(c)
        /\ Members(c) \subseteq Loads(outbound)
    BY <1>4, <2>1, <2>2, Placed, QueueTail DEF FlushOutbound
  <2>4. /\ free' = free \cup Members(c)
        /\ \A e \in Elem : keypair'[e] = IF e \in Members(c) THEN NoKey ELSE keypair[e]
    BY <1>4, <2>1 DEF FlushOutbound, Put
  <2>5. PICK k2 \in [Elem -> Kinds], w2 \in [Elem -> Thread] :
          \A e \in Elem : /\ e \in Members(c) => k2[e] = "free" /\ w2[e] = ctl
                          /\ e \notin Members(c) => k2[e] = kind[e] /\ w2[e] = who[e]
    <3> DEFINE k == Moved(kind, Members(c), "free")
               w == Moved(who, Members(c), ctl)
    <3>1. k \in [Elem -> Kinds] /\ w \in [Elem -> Thread]
      BY KindsAre, Numbers DEF Moved
    <3>2. \A e \in Elem : /\ e \in Members(c) => k[e] = "free" /\ w[e] = ctl
                          /\ e \notin Members(c) => k[e] = kind[e] /\ w[e] = who[e]
      BY DEF Moved
    <3> HIDE DEF k, w
    <3> QED
      BY <3>1, <3>2
  <2>6. Holds(k2, w2)'
    BY <1>1, <1>2, <2>3, <2>4, <2>5 DEF Holds, LocksStay
  <2> QED
    BY <1>2, <2>3, <2>6, Placed DEF PlaceInv, OnceInv
<1> QED
  BY <1>3, <1>4

\* The sentinel holds no element.
LEMMA PlaceNil ==
  ASSUME SendInv, LocksStay, StopSender PROVE OnceInv' /\ PlaceInv'
<1>1. PICK kind \in [Elem -> Kinds], who \in [Elem -> Thread] : Holds(kind, who)
  BY DEF SendInv, PlaceInv
<1>2. UNCHANGED <<staged, todo, late, kept, box, free, keypair>> /\ outbound' = Append(outbound, Nil)
  BY DEF StopSender, elems, locals, sequential
<1>3. Apart(outbound') /\ Loads(outbound') = Loads(outbound)
  BY <1>2, Placed, QueueAppend
<1>4. Holds(kind, who)'
  BY <1>1, <1>2, <1>3 DEF Holds, LocksStay
<1> QED
  BY <1>2, <1>3, <1>4, Placed DEF PlaceInv, OnceInv

\* The other steps move no element.
LEMMA PlaceStill ==
  ASSUME SendInv, LocksStay,
         UNCHANGED <<staged, outbound, todo, late, kept, box, free, keypair>>
  PROVE  OnceInv' /\ PlaceInv'
<1>1. PICK kind \in [Elem -> Kinds], who \in [Elem -> Thread] : Holds(kind, who)
  BY DEF SendInv, PlaceInv
<1>2. Holds(kind, who)'
  BY <1>1 DEF Holds, LocksStay
<1> QED
  BY <1>2, Placed DEF PlaceInv, OnceInv

\* Every step leaves every element in one place.
LEMMA PlaceStep == SendInv /\ [Next]_vars => OnceInv' /\ PlaceInv'
<1> SUFFICES ASSUME SendInv, [Next]_vars PROVE OnceInv' /\ PlaceInv'
  OBVIOUS
<1>1. CASE \E t \in Thread : SendOutbound(t) \/ SendEncryption(t)
  BY <1>1, PlaceOutbound, PlaceEncryption
<1>2. CASE LocksStay
  <2>1. ASSUME NEW t \in Thread, DropTooOld(t) \/ FlushStagedPackets(t) PROVE OnceInv' /\ PlaceInv'
    <3>1. UNCHANGED <<outbound, todo, late, kept, box>>
      BY <2>1 DEF DropTooOld, FlushStagedPackets, locals, sequential
    <3>2. \/ staged # <<>> /\ Put(Head(staged)) /\ staged' = Tail(staged)
          \/ UNCHANGED <<staged, free, keypair>>
      BY <2>1 DEF DropTooOld, FlushStagedPackets, elems
    <3> QED
      BY <1>2, <3>1, <3>2, StagedToPool, PlaceStill
  <2>2. CASE UNCHANGED <<staged, outbound, todo, late, kept, box, free, keypair>>
    BY <1>2, <2>2, PlaceStill
  <2>3. \/ UNCHANGED <<staged, outbound, todo, late, kept, box, free, keypair>>
        \/ RoutineReadFromTUN \/ SenderTake \/ SenderFinish \/ FlushOutbound \/ StopSender
        \/ \E t \in Thread : \/ OfferKeepalive(t) \/ StagePackets(t) \/ DropTooOld(t)
                             \/ TakeStaged(t) \/ Number(t) \/ CheckRunning(t)
                             \/ SendOutbound(t) \/ SendEncryption(t) \/ FlushStagedPackets(t)
    BY Frames DEF queues, elems, locals, sequential, RoutineEncryption, Top, PickKeypair
  <2> QED
    BY <1>1, <1>2, <2>1, <2>2, <2>3, PlaceRead, PlaceSender, PlaceFinish, PlaceFlush, PlaceNil,
       PlaceOffer, PlaceStage, PlaceTake, PlaceNumber, PlaceCheck
<1> QED
  BY <1>1, <1>2, LocksCases DEF LocksStep


-----------------------------------------------------------------------------
(* The invariant and the theorems                                          *)

\* A new device satisfies the invariant.
LEMMA SendInit == Init => SendInv
<1> SUFFICES ASSUME Init PROVE SendInv
  OBVIOUS
<1>1. /\ tun # ctl /\ ctl \notin Receiver /\ tun \notin Receiver /\ Worker \cap Receiver = {}
      /\ {tun, ctl} \subseteq Thread /\ Worker \subseteq Thread
  BY ThreadAssumption, Numbers
<1>2. 0 \in 0..MaxKey /\ 0 \in 0..(NonceSpace - 1) /\ 0 \in 0..MaxUp /\ 0 \in 0..MaxEvent
  BY Numbers
<1>3. \A t \in Thread : pc[t] = IF t \in Receiver THEN "off" ELSE "idle"
  BY DEF Init
<1>4. WorkersOn = Worker /\ OwnRef = 1 /\ TunRef = 1 /\ PeerRef = 0
  BY <1>1, <1>3 DEF Init, WorkersOn, OwnRef, TunRef, PeerRef
<1>5. writers = 2 + Cardinality(Worker) /\ Cardinality(Worker) \in Nat
  BY Numbers DEF Init
<1>6. WriterInv
  BY <1>4, <1>5 DEF WriterInv
<1>7. LifeTypes
  <2>1. writers \in Nat
    BY <1>5
  <2> QED
    BY <1>2, <2>1 DEF Init, LifeTypes
<1>8. QueueTypes
  BY Numbers DEF Init, QueueTypes
<1>9. ElemTypes /\ KeyTypes
  BY <1>2 DEF Init, ElemTypes, KeyTypes, NoKey
<1>10. LocalTypes /\ SenderTypes
  BY <1>2 DEF Init, LocalTypes, SenderTypes, PC, Partial, NoKey
<1>11. LocalInv
  <2>1. \A t \in Thread : todo[t] = <<>> /\ kept[t] = <<>> /\ late[t] = <<>> /\ pc[t] \in {"idle", "off"}
    BY <1>3 DEF Init
  <2>2. Len(<<>>) + Len(<<>>) + Len(<<>>) <= BatchSize
    BY Numbers
  <2> QED
    BY <2>1, <2>2 DEF LocalInv, LocalOK
<1>12. ControlInv
  BY <1>1, <1>3 DEF Init, ControlInv, Down0, Thread
<1>13. NilInv
  BY DEF Init, NilInv
<1>14. StagedInv
  BY DEF Init, StagedInv
<1>15. NonceInv
  <2>1. \A k \in Key : Cardinality(Capping(k)) \in Nat
    BY Numbers, FS_Subset, FS_CardinalityType DEF Capping
  <2> QED
    BY <2>1, Numbers DEF Init, NonceInv, NoKey
<1>16. OnceInv
  BY DEF Init, OnceInv, Apart, Once
<1>17. PlaceInv
  <2> DEFINE k == [e \in Elem |-> "free"]
             w == [e \in Elem |-> ctl]
  <2>1. k \in [Elem -> Kinds] /\ w \in [Elem -> Thread]
    BY <1>1 DEF Kinds
  <2>2. Members(<<>>) = {} /\ Loads(<<>>) = {}
    BY DEF Members, Loads
  <2>3. Holds(k, w)
    BY <2>2 DEF Init, Holds, NoKey
  <2> HIDE DEF k, w
  <2> QED
    BY <2>1, <2>3 DEF PlaceInv
<1>18. NoNonceReuse
  BY DEF Init, NoNonceReuse
<1> QED
  BY <1>6, <1>7, <1>8, <1>9, <1>10, <1>11, <1>12, <1>13, <1>14, <1>15, <1>16, <1>17, <1>18, TypeParts
  DEF SendInv

\* Every step preserves the invariant.
LEMMA SendStep == SendInv /\ [Next]_vars => SendInv'
BY TypeStep, LocalStep, ControlStep, NilStep, WriterStep, StagedStep, NonceStep, PlaceStep, ReuseStep
DEF SendInv

\* The invariant holds in every reachable state.
LEMMA SendAlways == Spec => []SendInv
<1>1. Init => SendInv
  BY SendInit
<1>2. SendInv /\ [Next]_vars => SendInv'
  BY SendStep
<1> QED
  BY <1>1, <1>2, PTL DEF Spec

\* The places of elements, and the elements in one of them.
LEMMA PlacesAre ==
  ASSUME SendInv, NEW kind, NEW who, Holds(kind, who), NEW e \in Elem, NEW p \in Places,
         e \in Members(p[3])
  PROVE  /\ Once(p[3]) /\ kind[e] # "free"
         /\ \/ /\ kind[e] = "staged"
               /\ \E i \in DOMAIN staged : p = <<"staged", i, staged[i]>> /\ e \in Members(staged[i])
            \/ /\ kind[e] = "outbound"
               /\ \E i \in DOMAIN outbound : /\ p = <<"outbound", i, outbound[i]>> /\ outbound[i] # Nil
                                             /\ e \in Members(outbound[i])
            \/ kind[e] = "todo" /\ p = <<"todo", who[e], todo[who[e]]>>
            \/ kind[e] = "kept" /\ p = <<"kept", who[e], kept[who[e]]>>
            \/ kind[e] = "late" /\ p = <<"late", who[e], late[who[e]]>>
            \/ kind[e] = "box" /\ p = <<"sender", 0, box>>
<1>1. OnceInv /\ QueueTypes /\ \A i \in DOMAIN staged : staged[i] # Nil
  <2>1. OnceInv /\ QueueTypes
    BY TypeParts DEF SendInv
  <2>2. \A i \in DOMAIN staged : staged[i] \in Partial
    BY <2>1 DEF QueueTypes, Partial
  <2> QED
    BY <2>1, <2>2, ContainerIs
<1>2. ASSUME NEW i \in DOMAIN staged, p = <<"staged", i, staged[i]>>
      PROVE  Once(p[3]) /\ kind[e] = "staged" /\ e \in Members(staged[i])
  <2>1. p[3] = staged[i] /\ e \in Loads(staged)
    BY <1>1, <1>2 DEF Loads
  <2> QED
    BY <1>1, <2>1 DEF OnceInv, Apart, Holds
<1>3. ASSUME NEW i \in DOMAIN outbound, outbound[i] # Nil, p = <<"outbound", i, outbound[i]>>
      PROVE  Once(p[3]) /\ kind[e] = "outbound" /\ e \in Members(outbound[i])
  <2>1. p[3] = outbound[i] /\ e \in Loads(outbound)
    BY <1>3 DEF Loads
  <2> QED
    BY <1>1, <1>3, <2>1 DEF OnceInv, Apart, Holds
<1>4. ASSUME NEW t \in Thread, p = <<"todo", t, todo[t]>>
      PROVE  Once(p[3]) /\ kind[e] = "todo" /\ who[e] = t
  BY <1>1, <1>4 DEF OnceInv, Holds
<1>5. ASSUME NEW t \in Thread, pc[t] # "enc", p = <<"kept", t, kept[t]>>
      PROVE  Once(p[3]) /\ kind[e] = "kept" /\ who[e] = t
  BY <1>1, <1>5 DEF OnceInv, Holds
<1>6. ASSUME NEW t \in Thread, p = <<"late", t, late[t]>>
      PROVE  Once(p[3]) /\ kind[e] = "late" /\ who[e] = t
  BY <1>1, <1>6 DEF OnceInv, Holds
<1>7. ASSUME p = <<"sender", 0, box>> PROVE Once(p[3]) /\ kind[e] = "box"
  BY <1>1, <1>7 DEF OnceInv, Holds
<1>8. \/ \E i \in DOMAIN staged : p = <<"staged", i, staged[i]>>
      \/ \E i \in DOMAIN outbound : outbound[i] # Nil /\ p = <<"outbound", i, outbound[i]>>
      \/ \E t \in Thread : p = <<"todo", t, todo[t]>>
      \/ \E t \in Thread : pc[t] # "enc" /\ p = <<"kept", t, kept[t]>>
      \/ \E t \in Thread : p = <<"late", t, late[t]>>
      \/ p = <<"sender", 0, box>>
  BY DEF Places
<1> QED
  BY <1>2, <1>3, <1>4, <1>5, <1>6, <1>7, <1>8

\* An element that is not in the pool is in a place.
LEMMA PlaceExists ==
  ASSUME SendInv, NEW kind \in [Elem -> Kinds], NEW who \in [Elem -> Thread], Holds(kind, who),
         NEW e \in Elem, e \notin free
  PROVE  \E p \in Places : e \in Members(p[3])
<1>1. kind[e] \in {"staged", "outbound", "box", "todo", "kept", "late"} /\ who[e] \in Thread
  BY DEF Holds, Kinds
<1>2. CASE kind[e] = "staged"
  <2>1. PICK i \in DOMAIN staged : e \in Members(staged[i])
    BY <1>2 DEF Holds, Loads
  <2>2. <<"staged", i, staged[i]>> \in Places
    BY DEF Places
  <2> QED
    BY <2>1, <2>2
<1>3. CASE kind[e] = "outbound"
  <2>1. PICK i \in DOMAIN outbound : e \in Members(outbound[i]) /\ outbound[i] # Nil
    BY <1>3 DEF Holds, Loads
  <2>2. <<"outbound", i, outbound[i]>> \in Places
    BY <2>1 DEF Places
  <2> QED
    BY <2>1, <2>2
<1>4. CASE kind[e] = "todo"
  <2>1. e \in Members(todo[who[e]]) /\ <<"todo", who[e], todo[who[e]]>> \in Places
    BY <1>1, <1>4 DEF Holds, Places
  <2> QED
    BY <2>1
<1>5. CASE kind[e] = "kept"
  <2>1. e \in Members(kept[who[e]]) /\ <<"kept", who[e], kept[who[e]]>> \in Places
    BY <1>1, <1>5 DEF Holds, Places
  <2> QED
    BY <2>1
<1>6. CASE kind[e] = "late"
  <2>1. e \in Members(late[who[e]]) /\ <<"late", who[e], late[who[e]]>> \in Places
    BY <1>1, <1>6 DEF Holds, Places
  <2> QED
    BY <2>1
<1>7. CASE kind[e] = "box"
  <2>1. e \in Members(box) /\ <<"sender", 0, box>> \in Places
    BY <1>7 DEF Holds, Places
  <2> QED
    BY <2>1
<1> QED
  BY <1>1, <1>2, <1>3, <1>4, <1>5, <1>6, <1>7

\* Two places do not share an element.
LEMMA PlacesApart ==
  ASSUME SendInv, NEW kind, NEW who, Holds(kind, who), NEW e \in Elem,
         NEW p \in Places, e \in Members(p[3]), NEW q \in Places, e \in Members(q[3])
  PROVE  p = q
<1>1. /\ \/ /\ kind[e] = "staged"
            /\ \E i \in DOMAIN staged : p = <<"staged", i, staged[i]>> /\ e \in Members(staged[i])
         \/ /\ kind[e] = "outbound"
            /\ \E i \in DOMAIN outbound : /\ p = <<"outbound", i, outbound[i]>> /\ outbound[i] # Nil
                                          /\ e \in Members(outbound[i])
         \/ kind[e] = "todo" /\ p = <<"todo", who[e], todo[who[e]]>>
         \/ kind[e] = "kept" /\ p = <<"kept", who[e], kept[who[e]]>>
         \/ kind[e] = "late" /\ p = <<"late", who[e], late[who[e]]>>
         \/ kind[e] = "box" /\ p = <<"sender", 0, box>>
  BY PlacesAre
<1>2. /\ \/ /\ kind[e] = "staged"
            /\ \E i \in DOMAIN staged : q = <<"staged", i, staged[i]>> /\ e \in Members(staged[i])
         \/ /\ kind[e] = "outbound"
            /\ \E i \in DOMAIN outbound : /\ q = <<"outbound", i, outbound[i]>> /\ outbound[i] # Nil
                                          /\ e \in Members(outbound[i])
         \/ kind[e] = "todo" /\ q = <<"todo", who[e], todo[who[e]]>>
         \/ kind[e] = "kept" /\ q = <<"kept", who[e], kept[who[e]]>>
         \/ kind[e] = "late" /\ q = <<"late", who[e], late[who[e]]>>
         \/ kind[e] = "box" /\ q = <<"sender", 0, box>>
  BY PlacesAre
<1>3. CASE kind[e] = "staged"
  <2>1. PICK i \in DOMAIN staged : p = <<"staged", i, staged[i]>> /\ e \in Members(staged[i])
    BY <1>1, <1>3
  <2>2. PICK j \in DOMAIN staged : q = <<"staged", j, staged[j]>> /\ e \in Members(staged[j])
    BY <1>2, <1>3
  <2>3. staged[i] # Nil /\ staged[j] # Nil
    <3>1. staged[i] \in Partial /\ staged[j] \in Partial
      BY TypeParts DEF SendInv, QueueTypes, Partial
    <3> QED
      BY <3>1, ContainerIs
  <2>4. i = j
    BY <2>1, <2>2, <2>3 DEF SendInv, OnceInv, Apart
  <2> QED
    BY <2>1, <2>2, <2>4
<1>4. CASE kind[e] = "outbound"
  <2>1. PICK i \in DOMAIN outbound : /\ p = <<"outbound", i, outbound[i]>> /\ outbound[i] # Nil
                                     /\ e \in Members(outbound[i])
    BY <1>1, <1>4
  <2>2. PICK j \in DOMAIN outbound : /\ q = <<"outbound", j, outbound[j]>> /\ outbound[j] # Nil
                                     /\ e \in Members(outbound[j])
    BY <1>2, <1>4
  <2>3. i = j
    BY <2>1, <2>2 DEF SendInv, OnceInv, Apart
  <2> QED
    BY <2>1, <2>2, <2>3
<1>5. CASE kind[e] \notin {"staged", "outbound"}
  BY <1>1, <1>2, <1>5
<1> QED
  BY <1>3, <1>4, <1>5

\* The places give every element one slot, or none when it is in the pool.
LEMMA OneSlot == SendInv => OneHolder
<1> SUFFICES ASSUME SendInv, NEW e \in Elem
             PROVE  Cardinality(UNION {{<<p, i>> : i \in {j \in DOMAIN p[3] : p[3][j] = e}} : p \in Places})
                      = IF e \in free THEN 0 ELSE 1
  BY DEF OneHolder
<1> DEFINE slots == UNION {{<<p, i>> : i \in {j \in DOMAIN p[3] : p[3][j] = e}} : p \in Places}
<1>1. PICK kind \in [Elem -> Kinds], who \in [Elem -> Thread] : Holds(kind, who)
  BY DEF SendInv, PlaceInv
<1>2. \A s : s \in slots <=> \E p \in Places : \E i \in DOMAIN p[3] : p[3][i] = e /\ s = <<p, i>>
  OBVIOUS
<1>3. \A p \in Places : e \in Members(p[3]) <=> \E i \in DOMAIN p[3] : p[3][i] = e
  BY DEF Members
<1> HIDE DEF slots
<1>4. CASE e \in free
  <2>1. kind[e] = "free"
    BY <1>1, <1>4 DEF Holds
  <2>2. \A p \in Places : e \notin Members(p[3])
    BY <1>1, <2>1, PlacesAre
  <2>3. slots = {}
    BY <1>2, <1>3, <2>2
  <2> QED
    BY <1>4, <2>3, FS_EmptySet DEF slots
<1>5. CASE e \notin free
  <2>1. PICK p \in Places : e \in Members(p[3])
    BY <1>1, <1>5, PlaceExists
  <2>2. PICK i \in DOMAIN p[3] : p[3][i] = e
    BY <1>3, <2>1
  <2>3. \A q \in Places : e \in Members(q[3]) => q = p
    BY <1>1, <2>1, PlacesApart
  <2>4. \A j \in DOMAIN p[3] : p[3][j] = e => j = i
    BY <1>1, <2>1, <2>2, PlacesAre DEF Once
  <2>5. slots = {<<p, i>>}
    BY <1>2, <1>3, <2>1, <2>2, <2>3, <2>4
  <2> QED
    BY <1>5, <2>5, FS_Singleton DEF slots
<1> QED
  BY <1>4, <1>5

\* NoNonceReuse (send.go:356-363) holds for every number of goroutines that number
\* packets of one keypair, provided the counter has room for one increment of each beyond
\* RejectAfterMessages.
THEOREM NoncesOnce == Spec => []NoNonceReuse
<1>1. SendInv => NoNonceReuse
  BY DEF SendInv
<1> QED
  BY <1>1, SendAlways, PTL

\* OneHolder: no path of SendStagedPackets, StagePackets, Stop or Start (send.go, peer.go)
\* leaks an element of the pool or puts it back twice.
THEOREM ElementsHeldOnce == Spec => []OneHolder
BY OneSlot, SendAlways, PTL

\* NothingStranded: whatever the order of staging, key changes and restarts, no packet is
\* left in the staged queue of a peer that could send it (SendStagedPackets), when the peer
\* has persistent keepalives.
THEOREM NothingLeftStaged == Spec => []NothingStranded
<1>1. SendInv => NothingStranded
  BY DEF SendInv, StagedInv, NothingStranded
<1> QED
  BY <1>1, SendAlways, PTL

\* QueueStaysOpen: the wait group of the encryption queue (channels.go) outlasts every
\* goroutine that writes to it (send.go:386).
THEOREM EncryptionStaysOpen == Spec => []QueueStaysOpen
<1>1. SendInv => QueueStaysOpen
  <2> SUFFICES ASSUME SendInv, NEW t \in Thread, pc[t] \in {"out", "enc"} PROVE writers > 0
    BY DEF QueueStaysOpen
  <2>1. CASE t \in {tun, ctl} \cup Worker
    <3>1. t = ctl => pc[ctl] \notin {"joining", "closed"}
      OBVIOUS
    <3> QED
      BY <2>1, <3>1, WritersLeft
  <2>2. CASE t \in Timer \cup Receiver
    <3>1. running \/ pc[ctl] \in {"drain", "run", "timers", "nil", "wait"}
      BY <2>2 DEF SendInv, ControlInv
    <3> QED
      BY <3>1, WritersLeft
  <2> QED
    BY <2>1, <2>2 DEF Thread
<1> QED
  BY <1>1, SendAlways, PTL

\* TypeOK: the types, and that no channel holds more than its capacity.
THEOREM SendTypes == Spec => []TypeOK
<1>1. SendInv => TypeOK
  BY DEF SendInv
<1> QED
  BY <1>1, SendAlways, PTL
=============================================================================

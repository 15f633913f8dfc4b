---------------------------- MODULE DeviceProofs ----------------------------
(***************************************************************************)
(* Proofs about what a device checks before it trusts a packet: cookies    *)
(* (Cookie), the rate limiter (Ratelimiter) and the replay filter          *)
(* (ReplayFilter), for any number of workers and addresses, any size of    *)
(* the ring and any bound on keys, secrets and messages.  And about what it*)
(* is told: its configuration and state (Config), for any set of keys and  *)
(* prefixes and any limit on the peers.                                    *)
(* And the trie of allowed IPs (AllowedIPs), for addresses of any width    *)
(* and any number of peers and entries: it stays well formed and implements*)
(* the abstract table of module Routes.  That argument treats the order of *)
(* prefixes and the bit after a prefix (IsPrefix and choose) through a few *)
(* lemmas only.                                                            *)
(***************************************************************************)
EXTENDS MCDevice, FiniteSetTheorems, SequenceTheorems, WellFoundedInduction, TLAPS

-----------------------------------------------------------------------------
(* Cookies                                                                 *)

CookieRec == [secret : [id : 0..MaxSecrets, drawn : 0..MaxKeys], src : Source]
MAC1 == [pk : 1..MaxKeys, text : 1..MaxRequests]
Message == [mac1 : MAC1, mac2 : CookieRec \cup {None}, src : Source]
ReplyRec == [pk : 1..MaxKeys, cookie : CookieRec, mac1 : MAC1]
Generator == [pk : 1..MaxKeys, cookie : CookieRec \cup {None}, cookieSet : 0..Zero,
              lastMAC1 : MAC1 \cup {None}, asked : 0..MaxSecrets]
WorkerLabel == {"load", "mac2", "create", "refresh", "derive"}

CookieTypes ==
  /\ pk \in 1..MaxKeys /\ secret \in [id : 0..MaxSecrets, drawn : 0..MaxKeys]
  /\ secretAge \in 0..Zero /\ secretSet \in 0..Zero
  /\ underLoad \in 0..1 /\ sent \in 0..MaxRequests
  /\ cpc \in [HsWorker -> [at : WorkerLabel, m : Message] \cup {None}]
  /\ gen \in Generator
  /\ request \subseteq Message
  /\ answer \subseteq ReplyRec

(* A secret that is not stale was drawn, under the present key, at the recorded time. *)
SecretInv ==
  secretSet # Zero => secretSet = secretAge /\ secret.id > 0 /\ secret.drawn = pk

(* Workers have messages that were sent, and no mac1 is of a message still to be made. *)
TextInv ==
  /\ \A w \in HsWorker : cpc[w] # None => cpc[w].m \in request
  /\ \A m \in request : m.mac1.text <= sent
  /\ \A a \in answer : a.mac1.text <= sent

(* The peer and its messages have no cookie that the device has not sent. *)
GivenInv ==
  /\ gen.cookie # None => \E a \in answer : a.cookie = gen.cookie
  /\ \A m \in request : m.mac2 # None => \E a \in answer : a.cookie = m.mac2

(* Every answer to the peer's last message is of a secret no older than that message. *)
AskedInv ==
  /\ gen.asked <= secret.id
  /\ \A a \in answer : a.mac1 = gen.lastMAC1 => gen.asked <= a.cookie.secret.id

CookieInv == CookieTypes /\ SecretInv /\ TextInv /\ GivenInv /\ AskedInv

LEMMA CookieInitInv == CookieInit => CookieInv
<1> SUFFICES ASSUME CookieInit PROVE CookieInv
  OBVIOUS
<1>1. 1 \in 1..MaxKeys /\ Zero \in 0..Zero /\ 0 \in 0..MaxSecrets /\ 0 \in 0..MaxKeys
      /\ 0 \in 0..MaxRequests
  BY CookieBounds DEF Zero
<1>2. /\ gen \in Generator
      /\ secret \in [id : 0..MaxSecrets, drawn : 0..MaxKeys]
  BY <1>1 DEF CookieInit, Generator
<1>3. CookieTypes
  BY <1>1, <1>2 DEF CookieInit, CookieTypes
<1>4. SecretInv /\ TextInv /\ GivenInv /\ AskedInv
  BY DEF CookieInit, SecretInv, TextInv, GivenInv, AskedInv
<1>5. QED
  BY <1>3, <1>4 DEF CookieInv

\* A worker that goes on with its message, or is through with it.
LEMMA WorkerGoes ==
    ASSUME CookieInv, NEW w \in HsWorker, cpc[w] # None, UNCHANGED request,
           Finish(w) \/ \E label \in WorkerLabel : Proceed(w, label)
    PROVE  /\ cpc' \in [HsWorker -> [at : WorkerLabel, m : Message] \cup {None}]
           /\ \A v \in HsWorker : cpc'[v] # None => cpc'[v].m \in request'
<1>0. /\ cpc \in [HsWorker -> [at : WorkerLabel, m : Message] \cup {None}]
      /\ cpc[w] \in [at : WorkerLabel, m : Message]
      /\ \A v \in HsWorker : cpc[v] # None => cpc[v].m \in request
  BY DEF CookieInv, CookieTypes, TextInv
<1>1. CASE Finish(w)
  BY <1>0, <1>1 DEF Finish
<1>2. ASSUME NEW label \in WorkerLabel, Proceed(w, label)
      PROVE  /\ cpc' \in [HsWorker -> [at : WorkerLabel, m : Message] \cup {None}]
             /\ \A v \in HsWorker : cpc'[v] # None => cpc'[v].m \in request'
  <2>1. /\ cpc' = [cpc EXCEPT ![w] = [cpc[w] EXCEPT !.at = label]]
        /\ [cpc[w] EXCEPT !.at = label] \in [at : WorkerLabel, m : Message]
        /\ [cpc[w] EXCEPT !.at = label].m = cpc[w].m
    BY <1>0, <1>2 DEF Proceed
  <2>2. QED
    BY <1>0, <2>1
<1>3. QED
  BY <1>1, <1>2

\* The answer that CreateReply sends for a message is typed and of the present secret,
\* which is no older than the peer's last message.
LEMMA ReplyInv ==
    ASSUME CookieInv, NEW m \in request, Reply(m), UNCHANGED <<secret, gen, request, sent>>
    PROVE  /\ answer' \subseteq ReplyRec
           /\ \A a \in answer' : a.mac1.text <= sent'
           /\ GivenInv' /\ AskedInv'
<1> DEFINE new == [pk |-> pk, cookie |-> CookieFor(m.src), mac1 |-> m.mac1]
<1>1. /\ answer' = answer \cup {new}
      /\ new.cookie.secret.id = secret.id /\ new.mac1 = m.mac1
  BY DEF Reply, CookieFor
<1>2. new \in ReplyRec
  BY DEF ReplyRec, CookieInv, CookieTypes, Message, CookieRec, CookieFor
<1> HIDE DEF new
<1>3. answer' \subseteq ReplyRec /\ \A a \in answer' : a.mac1.text <= sent'
  BY <1>1, <1>2 DEF CookieInv, CookieTypes, TextInv
<1>4. GivenInv'
  BY <1>1 DEF CookieInv, GivenInv
<1>5. AskedInv'
  BY <1>1 DEF CookieInv, AskedInv
<1>6. QED
  BY <1>3, <1>4, <1>5

\* The worker's steps that leave the secret as it is and send nothing.
LEMMA CheckInv ==
    ASSUME CookieInv, NEW w \in HsWorker,
           \/ \E m \in request : RoutineHandshake(w, m)
           \/ \E long \in BOOLEAN : IsUnderLoad(w, long)
           \/ VerifyMAC2(w)
           \/ CreateReply(w) /\ UNCHANGED answer
           \/ RefreshSecret(w) /\ UNCHANGED <<secret, secretSet, secretAge>> /\ Finish(w)
    PROVE  CookieInv'
<1>1. /\ UNCHANGED <<pk, secret, secretSet, secretAge, gen, request, answer, sent>>
      /\ underLoad' \in 0..1
  <2>1. underLoad \in 0..1
    BY DEF CookieInv, CookieTypes
  <2>2. CASE \E long \in BOOLEAN : IsUnderLoad(w, long)
    BY <2>1, <2>2 DEF IsUnderLoad
  <2>3. CASE ~ \E long \in BOOLEAN : IsUnderLoad(w, long)
    BY <2>1, <2>3 DEF RoutineHandshake, VerifyMAC2, CreateReply, RefreshSecret
  <2>4. QED
    BY <2>2, <2>3
<1>2. /\ cpc' \in [HsWorker -> [at : WorkerLabel, m : Message] \cup {None}]
      /\ \A v \in HsWorker : cpc'[v] # None => cpc'[v].m \in request'
  <2>1. ASSUME NEW m \in request, RoutineHandshake(w, m)
        PROVE  /\ cpc' \in [HsWorker -> [at : WorkerLabel, m : Message] \cup {None}]
               /\ \A v \in HsWorker : cpc'[v] # None => cpc'[v].m \in request'
    <3>1. /\ cpc' = [cpc EXCEPT ![w] = [at |-> "load", m |-> m]] /\ m \in Message
          /\ [at |-> "load", m |-> m] \in [at : WorkerLabel, m : Message]
      BY <2>1 DEF RoutineHandshake, CookieInv, CookieTypes, WorkerLabel
    <3>2. QED
      BY <1>1, <3>1 DEF CookieInv, CookieTypes, TextInv
  <2>2. CASE ~ \E m \in request : RoutineHandshake(w, m)
    <3>1. cpc[w] # None /\ (Finish(w) \/ Proceed(w, "mac2") \/ Proceed(w, "create") \/ Proceed(w, "refresh")
                              \/ UNCHANGED cpc)
      BY <2>2 DEF IsUnderLoad, VerifyMAC2, CreateReply, RefreshSecret, Doing
    <3>2. CASE UNCHANGED cpc
      BY <1>1, <3>2 DEF CookieInv, CookieTypes, TextInv
    <3>3. CASE ~ UNCHANGED cpc
      BY <1>1, <3>1, <3>3, WorkerGoes DEF WorkerLabel
    <3>4. QED
      BY <3>2, <3>3
  <2>3. QED
    BY <2>1, <2>2
<1>3. CookieTypes' /\ SecretInv'
  BY <1>1, <1>2 DEF CookieInv, CookieTypes, SecretInv
<1>4. TextInv' /\ GivenInv' /\ AskedInv'
  BY <1>1, <1>2 DEF CookieInv, TextInv, GivenInv, AskedInv
<1>5. QED
  BY <1>3, <1>4 DEF CookieInv

\* A worker sends a cookie of the present secret.
LEMMA AnswerInv ==
    ASSUME CookieInv, NEW w \in HsWorker, cpc[w] # None, Finish(w), Reply(cpc[w].m),
           UNCHANGED <<pk, secret, secretSet, secretAge, underLoad, gen, request, sent>>
    PROVE  CookieInv'
<1>1. /\ cpc' \in [HsWorker -> [at : WorkerLabel, m : Message] \cup {None}]
      /\ \A v \in HsWorker : cpc'[v] # None => cpc'[v].m \in request'
  BY WorkerGoes
<1>2. cpc[w].m \in request
  BY DEF CookieInv, TextInv
<1>3. /\ answer' \subseteq ReplyRec
      /\ \A a \in answer' : a.mac1.text <= sent'
      /\ GivenInv' /\ AskedInv'
  BY <1>2, ReplyInv
<1>4. CookieTypes' /\ SecretInv' /\ TextInv'
  BY <1>1, <1>3 DEF CookieInv, CookieTypes, SecretInv, TextInv
<1>5. QED
  BY <1>3, <1>4 DEF CookieInv

\* A worker draws a secret.
LEMMA DrawInv ==
    ASSUME CookieInv, NEW w \in HsWorker, cpc[w] # None, secret.id < MaxSecrets,
           secret' = [id |-> secret.id + 1, drawn |-> pk], secretSet' = 0, secretAge' = 0,
           Proceed(w, "derive"), UNCHANGED <<pk, underLoad, gen, request, answer, sent>>
    PROVE  CookieInv'
<1>1. /\ cpc' \in [HsWorker -> [at : WorkerLabel, m : Message] \cup {None}]
      /\ \A v \in HsWorker : cpc'[v] # None => cpc'[v].m \in request'
  BY WorkerGoes DEF WorkerLabel
<1>2. /\ secret'.id = secret.id + 1 /\ secret'.drawn = pk
      /\ secret' \in [id : 0..MaxSecrets, drawn : 0..MaxKeys]
  BY CookieBounds DEF CookieInv, CookieTypes
<1>3. 0 \in 0..Zero
  BY CookieBounds DEF Zero
<1>4. CookieTypes'
  BY <1>1, <1>2, <1>3 DEF CookieInv, CookieTypes
<1>5. SecretInv' /\ TextInv' /\ GivenInv'
  BY <1>1, <1>2 DEF CookieInv, CookieTypes, SecretInv, TextInv, GivenInv
<1>6. AskedInv'
  <2>1. gen.asked \in Nat /\ secret.id \in Nat
    BY DEF CookieInv, CookieTypes, Generator
  <2>2. QED
    BY <1>2, <2>1 DEF CookieInv, AskedInv
<1>7. QED
  BY <1>4, <1>5, <1>6 DEF CookieInv

\* Every step of a handshake worker.
LEMMA WorkerInv ==
    ASSUME CookieInv, NEW w \in HsWorker,
           \/ \E m \in request : RoutineHandshake(w, m)
           \/ \E long \in BOOLEAN : IsUnderLoad(w, long)
           \/ VerifyMAC2(w) \/ CreateReply(w) \/ RefreshSecret(w) \/ DeriveCookie(w)
    PROVE  CookieInv'
<1>1. CASE CreateReply(w)
  <2>1. CASE Stale(secretSet)
    BY <1>1, <2>1, CheckInv DEF CreateReply
  <2>2. CASE ~ Stale(secretSet)
    <3>1. /\ cpc[w] # None /\ Finish(w) /\ Reply(cpc[w].m)
          /\ UNCHANGED <<pk, secret, secretSet, secretAge, underLoad, gen, request, sent>>
      BY <1>1, <2>2 DEF CreateReply, Doing
    <3>2. QED
      BY <3>1, AnswerInv
  <2>3. QED
    BY <2>1, <2>2
<1>2. CASE RefreshSecret(w)
  <2>1. CASE Finish(w) /\ UNCHANGED <<secret, secretSet, secretAge>>
    BY <1>2, <2>1, CheckInv
  <2>2. CASE ~ (Finish(w) /\ UNCHANGED <<secret, secretSet, secretAge>>)
    <3>1. /\ cpc[w] # None /\ secret.id < MaxSecrets
          /\ secret' = [id |-> secret.id + 1, drawn |-> pk] /\ secretSet' = 0 /\ secretAge' = 0
          /\ Proceed(w, "derive") /\ UNCHANGED <<pk, underLoad, gen, request, answer, sent>>
      BY <1>2, <2>2 DEF RefreshSecret, Doing
    <3>2. QED
      BY <3>1, DrawInv
  <2>3. QED
    BY <2>1, <2>2
<1>3. CASE DeriveCookie(w)
  <2>1. /\ cpc[w] # None /\ Finish(w) /\ Reply(cpc[w].m)
        /\ UNCHANGED <<pk, secret, secretSet, secretAge, underLoad, gen, request, sent>>
    BY <1>3 DEF DeriveCookie, Doing
  <2>2. QED
    BY <2>1, AnswerInv
<1>4. QED
  BY <1>1, <1>2, <1>3, CheckInv

\* The peer: a new generator, a message, a reply.
LEMMA GeneratorInv ==
    ASSUME CookieInv,
           \/ GeneratorInit(pk) \/ \E src \in Source : AddMacs(src)
           \/ \E a \in answer : ConsumeReply(a)
    PROVE  CookieInv'
<1>0. gen \in Generator /\ secret.id \in 0..MaxSecrets /\ 0 \in 0..MaxSecrets /\ 0 \in 0..Zero
      /\ \A a \in answer : a.cookie \in CookieRec /\ a.cookie.secret.id \in Nat
  BY CookieBounds DEF CookieInv, CookieTypes, ReplyRec, CookieRec, Zero
<1>1. CASE GeneratorInit(pk)
  <2>1. /\ gen' = [pk |-> pk, cookie |-> None, cookieSet |-> Zero, lastMAC1 |-> None, asked |-> 0]
        /\ UNCHANGED <<pk, secret, secretSet, secretAge, underLoad, cpc, request, answer, sent>>
    BY <1>1 DEF GeneratorInit
  <2>2. gen' \in Generator
    BY <1>0, <2>1, CookieBounds DEF CookieInv, CookieTypes, Zero, Generator
  <2>3. CookieTypes' /\ SecretInv' /\ TextInv' /\ GivenInv'
    BY <2>1, <2>2 DEF CookieInv, CookieTypes, SecretInv, TextInv, GivenInv
  <2>4. AskedInv'
    BY <1>0, <2>1 DEF AskedInv
  <2>5. QED
    BY <2>3, <2>4 DEF CookieInv
<1>2. ASSUME NEW src \in Source, AddMacs(src) PROVE CookieInv'
  <2> DEFINE mac1 == [pk |-> gen.pk, text |-> sent + 1]
             new == [mac1 |-> mac1, mac2 |-> IF Stale(gen.cookieSet) THEN None ELSE gen.cookie,
                     src |-> src]
  <2>1. /\ sent < MaxRequests /\ sent' = sent + 1
        /\ gen' = [gen EXCEPT !.lastMAC1 = mac1, !.asked = secret.id]
        /\ request' = request \cup {new}
        /\ UNCHANGED <<pk, secret, secretSet, secretAge, underLoad, cpc, answer>>
    BY <1>2 DEF AddMacs
  <2>2. sent \in 0..MaxRequests /\ sent' \in 0..MaxRequests /\ mac1 \in MAC1
    BY <1>0, <2>1, CookieBounds DEF CookieInv, CookieTypes, MAC1, Generator
  <2>3. /\ new \in Message /\ new.mac1.text = sent + 1
        /\ new.mac2 # None => new.mac2 = gen.cookie
    BY <1>0, <2>2 DEF Message, Generator
  <2>4. gen'.cookie = gen.cookie /\ gen'.lastMAC1 = mac1 /\ gen'.asked = secret.id
        /\ gen' \in Generator
    BY <1>0, <2>1, <2>2 DEF Generator
  <2>5. mac1.text = sent + 1
    OBVIOUS
  <2> HIDE DEF new, mac1
  <2>6. CookieTypes' /\ SecretInv'
    BY <2>1, <2>2, <2>3, <2>4 DEF CookieInv, CookieTypes, SecretInv
  <2>7. /\ \A n \in request : n.mac1.text \in Nat /\ n.mac1.text <= sent
        /\ \A a \in answer : a.mac1.text \in Nat /\ a.mac1.text <= sent
    BY DEF CookieInv, CookieTypes, TextInv, Message, ReplyRec, MAC1
  <2>8. \A n \in Nat : n <= sent => n <= sent + 1 /\ n # sent + 1
    BY <2>2
  <2>9. TextInv'
    BY <2>1, <2>2, <2>3, <2>7, <2>8 DEF CookieInv, TextInv
  <2>10. GivenInv'
    BY <2>1, <2>3, <2>4 DEF CookieInv, GivenInv
  \* the new message has not been answered yet
  <2>11. \A a \in answer : a.mac1 # mac1
    BY <2>5, <2>7, <2>8
  <2>12. AskedInv'
    BY <1>0, <2>1, <2>4, <2>11 DEF AskedInv
  <2>13. QED
    BY <2>6, <2>9, <2>10, <2>12 DEF CookieInv
<1>3. ASSUME NEW a \in answer, ConsumeReply(a) PROVE CookieInv'
  <2>1. /\ gen' = [gen EXCEPT !.cookie = a.cookie, !.cookieSet = 0]
        /\ UNCHANGED <<pk, secret, secretSet, secretAge, underLoad, cpc, request, answer, sent>>
    BY <1>3 DEF ConsumeReply
  <2>2. /\ gen' \in Generator /\ gen'.cookie = a.cookie
        /\ gen'.lastMAC1 = gen.lastMAC1 /\ gen'.asked = gen.asked
    BY <1>0, <2>1 DEF Generator
  <2>3. CookieTypes' /\ SecretInv' /\ TextInv'
    BY <2>1, <2>2 DEF CookieInv, CookieTypes, SecretInv, TextInv
  <2>4. GivenInv' /\ AskedInv'
    BY <2>1, <2>2 DEF CookieInv, GivenInv, AskedInv
  <2>5. QED
    BY <2>3, <2>4 DEF CookieInv
<1>4. QED
  BY <1>1, <1>2, <1>3

\* A new key, and time.
LEMMA TimeInv ==
    ASSUME CookieInv, Pass \/ (pk < MaxKeys /\ CheckerInit(pk + 1))
    PROVE  CookieInv'
<1>0. Zero \in Nat /\ \A t \in 0..Zero : Aged(t) \in 0..Zero
  BY CookieBounds DEF Zero, Aged
<1>1. CASE Pass
  <2>1. gen'.cookie = gen.cookie /\ gen'.lastMAC1 = gen.lastMAC1 /\ gen'.asked = gen.asked
        /\ gen' \in Generator
    BY <1>0, <1>1 DEF Pass, CookieInv, CookieTypes, Generator
  <2>2. CookieTypes'
    BY <1>0, <1>1, <2>1 DEF Pass, CookieInv, CookieTypes
  <2>3. SecretInv'
    BY <1>0, <1>1 DEF Pass, CookieInv, CookieTypes, SecretInv, Aged
  <2>4. TextInv' /\ GivenInv' /\ AskedInv'
    BY <1>1, <2>1 DEF Pass, CookieInv, TextInv, GivenInv, AskedInv
  <2>5. QED
    BY <2>2, <2>3, <2>4 DEF CookieInv
<1>2. CASE pk < MaxKeys /\ CheckerInit(pk + 1)
  <2>1. CookieTypes'
    BY <1>0, <1>2, CookieBounds DEF CheckerInit, InitSecretSet, CookieInv, CookieTypes
  <2>2. SecretInv' /\ TextInv' /\ GivenInv' /\ AskedInv'
    BY <1>2 DEF CheckerInit, InitSecretSet, CookieInv, SecretInv, TextInv, GivenInv, AskedInv
  <2>3. QED
    BY <2>1, <2>2 DEF CookieInv
<1>3. QED
  BY <1>1, <1>2

LEMMA CookieInvariant == CookieSpec => []CookieInv
<1>1. CookieInit => CookieInv
  BY CookieInitInv
<1>2. CookieInv /\ [CookieNext]_cookieVars => CookieInv'
  <2> SUFFICES ASSUME CookieInv, [CookieNext]_cookieVars PROVE CookieInv'
    OBVIOUS
  <2>1. CASE CookieNext
    BY <2>1, WorkerInv, GeneratorInv, TimeInv DEF CookieNext
  <2>2. CASE UNCHANGED cookieVars
    BY <2>2 DEF cookieVars, CookieInv, CookieTypes, SecretInv, TextInv, GivenInv, AskedInv
  <2>3. QED
    BY <2>1, <2>2
<1>3. QED
  BY <1>1, <1>2, PTL DEF CookieSpec

\* A message that CheckMAC2 of device/cookie.go accepts carries a cookie that this device
\* has sent to the message's source, of a secret that was drawn under the present key and
\* not longer ago than CookieRefreshTime: for any number of workers that refresh the
\* secret at once, and whatever the network repeats.
THEOREM AdmissionOwnsAddress == CookieSpec => []AdmittedOwnsAddress
<1>1. CookieInv => AdmittedOwnsAddress
  <2> SUFFICES ASSUME CookieInv, NEW m \in request, CheckMAC2(m)
               PROVE  /\ \E a \in answer : a.cookie = m.mac2 /\ a.cookie.src = m.src
                      /\ secret.id > 0 /\ secret.drawn = pk /\ secretAge <= CookieRefreshTime
    BY DEF AdmittedOwnsAddress
  <2>1. m.mac2 = [secret |-> secret, src |-> m.src] /\ m.mac2.src = m.src
    BY DEF CheckMAC2, CookieFor
  <2>2. m.mac2 # None
    <3>1. m.mac2 \in [secret : [id : Nat, drawn : Nat], src : Source]
      BY <2>1 DEF CookieInv, CookieTypes, Message
    <3>2. QED
      BY <3>1, CookieBounds
  <2>3. \E a \in answer : a.cookie = m.mac2 /\ a.cookie.src = m.src
    BY <2>1, <2>2 DEF CookieInv, GivenInv
  <2>4. secretSet # Zero /\ secretSet <= CookieRefreshTime
    BY CookieBounds DEF CheckMAC2, Stale, Zero, CookieInv, CookieTypes
  <2>5. QED
    BY <2>3, <2>4 DEF CookieInv, SecretInv
<1>2. QED
  BY <1>1, CookieInvariant, PTL

\* A cookie that ConsumeReply of device/cookie.go stores is of a secret that the device had
\* when the peer made its last message, or of a later one, however late, how often and in
\* whatever order messages and replies arrive.
THEOREM CookiesAreFresh == CookieSpec => CookieFresh
<1> DEFINE Fresh == gen'.cookie # gen.cookie /\ gen'.cookie # None =>
                      gen'.cookie.secret.id >= gen.asked
<1>1. CookieInv /\ [CookieNext]_cookieVars => [Fresh]_gen
  <2> SUFFICES ASSUME CookieInv, CookieNext, gen' # gen, gen'.cookie # gen.cookie,
                      gen'.cookie # None
               PROVE  gen'.cookie.secret.id >= gen.asked
    BY DEF cookieVars
  <2>0. gen \in Generator /\ gen.asked \in Nat
    BY DEF CookieInv, CookieTypes, Generator
  <2>1. ASSUME NEW a \in answer, ConsumeReply(a) PROVE gen'.cookie.secret.id >= gen.asked
    <3>1. Opens(a) /\ gen'.cookie = a.cookie
      BY <2>0, <2>1 DEF ConsumeReply, Generator
    <3>2. a.cookie.secret.id \in Nat /\ a.mac1 = gen.lastMAC1
      BY <3>1 DEF Opens, CookieInv, CookieTypes, ReplyRec, CookieRec
    <3>3. QED
      BY <2>0, <3>1, <3>2 DEF CookieInv, AskedInv
  <2>2. CASE \E src \in Source : AddMacs(src)
    BY <2>0, <2>2 DEF AddMacs, Generator
  <2>3. CASE Pass
    BY <2>0, <2>3 DEF Pass, Generator
  <2>4. CASE GeneratorInit(pk)
    BY <2>4 DEF GeneratorInit
  <2>5. CASE \E a \in answer : ConsumeReply(a)
    BY <2>1, <2>5
  <2>6. QED
    BY <2>2, <2>3, <2>4, <2>5
       DEF CookieNext, CheckerInit, RoutineHandshake, IsUnderLoad, VerifyMAC2, CreateReply,
           RefreshSecret, DeriveCookie
<1>2. QED
  BY <1>1, CookieInvariant, PTL DEF CookieSpec, CookieFresh

\* Types: the time recorded for the secret is the time it was drawn, or zero.
THEOREM CookieTypesHold == CookieSpec => []CookieTypeOK
<1>1. CookieInv => CookieTypeOK
  BY DEF CookieInv, CookieTypes, SecretInv, CookieTypeOK, WorkerLabel, Generator
<1>2. QED
  BY <1>1, CookieInvariant, PTL

-----------------------------------------------------------------------------
(* The rate limiter                                                        *)

Busy(w) == rpc[w].at # "idle"
Holding == {"send", "sendAgain", "panic"}
Worth(e) == Refill(heap[e], heap[e].age)

LimiterTypes ==
  /\ rpc \in [Worker -> {Idle} \cup [at : {"charge", "insert"} \cup Holding, ip : Addr, e : Entry]]
  /\ limiterMu \in Worker \cup {NoEntry}
  /\ DOMAIN table \subseteq Addr /\ table \in [DOMAIN table -> Entry]
  /\ heap \in [Entry -> [tokens : 0..maxTokens, age : 0..MaxAge]]
  /\ ticker \in BOOLEAN /\ gcpc \in {"select", "cleanup", "end"} /\ stopClosed \in BOOLEAN
  /\ ideal \in [Addr -> Int] /\ raced \in [Addr -> Nat]

(* A worker that sends holds the lock, so that the entry it has inserted stays, and the
   ticker runs only while the table has entries. *)
SenderInv ==
  /\ \A w \in Worker : rpc[w].at \in Holding <=> limiterMu = w
  /\ limiterMu # NoEntry \/ ticker \/ gcpc = "cleanup" => DOMAIN table # {}
  /\ \A w \in Worker : rpc[w].at = "send" => ~ ticker /\ gcpc # "cleanup"

(* An entry is of one address, and the one that a worker is about to insert is known to
   nobody else. *)
OwnInv ==
  /\ \A ip, jp \in DOMAIN table : table[ip] = table[jp] => ip = jp
  /\ \A w \in Worker, ip \in DOMAIN table : Busy(w) /\ rpc[w].e = table[ip] => rpc[w].ip = ip
  /\ \A v, w \in Worker : rpc[w].at = "insert" /\ Busy(v) /\ rpc[v].e = rpc[w].e => v = w
  /\ \A w \in Worker, ip \in DOMAIN table : rpc[w].at = "insert" => rpc[w].e # table[ip]

(* What the table and the entries about to be inserted are worth, compared with the
   bucket that is never removed.  A call that has missed the table has paid from the
   entry it will insert, and not from the one that another call has inserted. *)
Owed(ip) == raced[ip] * packetCost

CreditInv ==
  \A ip \in Addr :
    /\ ideal[ip] <= Credit(ip)
    /\ Credit(ip) <= ideal[ip] + Owed(ip) + (IF Inserting(ip) THEN packetCost ELSE 0)

Inserts(w, ip, e) == rpc[w].at = "insert" /\ rpc[w].ip = ip /\ rpc[w].e = e

InsertInv ==
  \A w \in Worker, ip \in Addr, e \in Entry :
    Inserts(w, ip, e) => ideal[ip] <= Worth(e) /\ Worth(e) <= ideal[ip] + Owed(ip)

LimiterInv == LimiterTypes /\ SenderInv /\ OwnInv /\ CreditInv /\ InsertInv

\* The three costs, for the provers.
LEMMA Costs ==
    /\ packetCost \in Nat /\ packetCost > 0 /\ maxTokens \in Nat /\ maxTokens > packetCost
    /\ MaxAge \in Nat /\ MaxAge > maxTokens
  BY CostAssumption DEF MaxAge

\* What an entry is worth after a charge, and after a unit of time.
LEMMA EntryWorth ==
    ASSUME NEW h \in [tokens : 0..maxTokens, age : 0..MaxAge]
    PROVE  /\ Refill(h, h.age) \in 0..maxTokens
           /\ h.age > garbageCollectTime => Refill(h, h.age) = maxTokens
           /\ \A t \in 0..maxTokens :
                /\ [tokens |-> t, age |-> 0] \in [tokens : 0..maxTokens, age : 0..MaxAge]
                /\ Refill([tokens |-> t, age |-> 0], [tokens |-> t, age |-> 0].age) = t
           /\ LET older == [h EXCEPT !.age = Lesser(MaxAge, @ + 1)] IN
                /\ older \in [tokens : 0..maxTokens, age : 0..MaxAge]
                /\ Refill(older, older.age) = Lesser(maxTokens, Refill(h, h.age) + 1)
<1>0. h.tokens \in 0..maxTokens /\ h.age \in 0..MaxAge
  OBVIOUS
<1>1. Refill(h, h.age) \in 0..maxTokens
  BY <1>0, Costs DEF Refill, Lesser
<1>2. h.age > garbageCollectTime => Refill(h, h.age) = maxTokens
  BY <1>0, CostAssumption DEF Refill, Lesser, MaxAge
<1>3. ASSUME NEW t \in 0..maxTokens
      PROVE  /\ [tokens |-> t, age |-> 0] \in [tokens : 0..maxTokens, age : 0..MaxAge]
             /\ Refill([tokens |-> t, age |-> 0], [tokens |-> t, age |-> 0].age) = t
  BY <1>3, Costs DEF Refill, Lesser
<1>4. LET older == [h EXCEPT !.age = Lesser(MaxAge, @ + 1)] IN
        /\ older \in [tokens : 0..maxTokens, age : 0..MaxAge]
        /\ Refill(older, older.age) = Lesser(maxTokens, Refill(h, h.age) + 1)
  <2> DEFINE older == [h EXCEPT !.age = Lesser(MaxAge, @ + 1)]
  <2>1. /\ older.tokens = h.tokens /\ older.age = Lesser(MaxAge, h.age + 1)
        /\ Lesser(MaxAge, h.age + 1) \in 0..MaxAge
    BY <1>0, Costs DEF Lesser
  <2>2. older \in [tokens : 0..maxTokens, age : 0..MaxAge]
    BY <1>0, <2>1
  <2> HIDE DEF older
  <2>3. Refill(older, older.age) = Lesser(maxTokens, Refill(h, h.age) + 1)
    BY <1>0, <2>1, Costs DEF Refill, Lesser
  <2>4. QED
    BY <2>2, <2>3 DEF older
<1>5. QED
  BY <1>1, <1>2, <1>3, <1>4

LEMMA WorthType ==
    ASSUME LimiterTypes
    PROVE  /\ \A e \in Entry : Worth(e) \in 0..maxTokens
           /\ \A ip \in Addr : Credit(ip) \in 0..maxTokens
           /\ \A ip \in Addr : Credit(ip) = IF ip \in DOMAIN table THEN Worth(table[ip])
                                            ELSE maxTokens
<1>1. \A e \in Entry : Worth(e) \in 0..maxTokens
  BY EntryWorth DEF LimiterTypes, Worth
<1>2. \A ip \in Addr : Credit(ip) = IF ip \in DOMAIN table THEN Worth(table[ip]) ELSE maxTokens
  BY DEF Credit, Worth
<1>3. QED
  BY <1>1, <1>2, Costs DEF LimiterTypes

\* What has been given away, when one more call has raced.
LEMMA OwedFacts ==
    ASSUME LimiterTypes, NEW ip \in Addr
    PROVE  /\ Owed(ip) \in Nat
           /\ raced'[ip] = raced[ip] => Owed(ip)' = Owed(ip)
           /\ raced'[ip] = raced[ip] + 1 => Owed(ip)' = Owed(ip) + packetCost
           /\ raced'[ip] = 0 => Owed(ip)' = 0
<1>1. raced[ip] \in Nat /\ packetCost \in Nat
  BY Costs DEF LimiterTypes
<1>2. \A n \in Nat : n * packetCost \in Nat /\ (n + 1) * packetCost = n * packetCost + packetCost
                     /\ 0 * packetCost = 0
  BY <1>1
<1>3. QED
  BY <1>1, <1>2 DEF Owed

\* There are enough entries: the addresses and the other workers do not use them all.
LEMMA UnusedEntry ==
    ASSUME LimiterTypes, NEW w \in Worker, rpc[w] = Idle
    PROVE  Unused \in Entry /\ Unused \notin Used
<1> DEFINE V == {v \in Worker : rpc[v].at # "idle"}
           T == {table[ip] : ip \in DOMAIN table}
           E == {rpc[v].e : v \in V}
<1>1. IsFiniteSet(DOMAIN table) /\ Cardinality(DOMAIN table) <= Cardinality(Addr)
  BY CostAssumption, FS_Subset DEF LimiterTypes
<1>2. IsFiniteSet(V) /\ Cardinality(V) <= Cardinality(Worker) - 1
  <2>1. V \subseteq Worker \ {w}
    BY DEF Idle
  <2>2. IsFiniteSet(Worker \ {w}) /\ Cardinality(Worker \ {w}) = Cardinality(Worker) - 1
    BY CostAssumption, FS_RemoveElement
  <2>3. QED
    BY <2>1, <2>2, FS_Subset
<1>3. IsFiniteSet(T) /\ Cardinality(T) <= Cardinality(DOMAIN table)
  <2>1. table \in Surjection(DOMAIN table, T)
    BY DEF Surjection, LimiterTypes
  <2>2. QED
    BY <1>1, <2>1, FS_Surjection
<1>4. IsFiniteSet(E) /\ Cardinality(E) <= Cardinality(V)
  <2> DEFINE f == [v \in V |-> rpc[v].e]
  <2>1. f \in Surjection(V, E)
    BY DEF Surjection
  <2> HIDE DEF f, V, E
  <2>2. QED
    BY <1>2, <2>1, FS_Surjection
<1>5. IsFiniteSet(T \cup E)
      /\ Cardinality(T \cup E) = Cardinality(T) + Cardinality(E) - Cardinality(T \cap E)
  <2> HIDE DEF T, E
  <2>1. QED
    BY <1>3, <1>4, FS_Union
<1>6. /\ Cardinality(T) \in Nat /\ Cardinality(E) \in Nat /\ Cardinality(DOMAIN table) \in Nat
      /\ Cardinality(V) \in Nat /\ Cardinality(Addr) \in Nat /\ Cardinality(Worker) \in Nat
      /\ Cardinality(T \cap E) \in Nat
  <2>1. IsFiniteSet(T \cap E)
    <3> HIDE DEF T, E
    <3>1. T \cap E \subseteq T
      OBVIOUS
    <3>2. QED
      BY <1>3, <3>1, FS_Subset
  <2> HIDE DEF T, E, V
  <2>2. QED
    BY <1>1, <1>2, <1>3, <1>4, <2>1, CostAssumption, FS_CardinalityType
<1>7. Cardinality(T \cup E) < Cardinality(Addr) + Cardinality(Worker)
  <2> HIDE DEF T, E, V
  <2>1. QED
    BY <1>1, <1>2, <1>3, <1>4, <1>5, <1>6
<1>8. Cardinality(Entry) = Cardinality(Addr) + Cardinality(Worker)
  <2> DEFINE n == Cardinality(Addr) + Cardinality(Worker)
  <2>1. n \in Int /\ n >= 0 /\ 1 \in Int
    BY <1>6
  <2> HIDE DEF n
  <2>2. Cardinality(1..n) = n
    BY <2>1, FS_Interval
  <2>3. QED
    BY <2>2 DEF Entry, n
<1>9. \E e \in Entry : e \notin Used
  <2> SUFFICES ASSUME Entry \subseteq Used PROVE FALSE
    OBVIOUS
  <2>1. Used = T \cup E
    BY DEF Used
  <2> HIDE DEF T, E, V
  <2>2. Cardinality(Entry) <= Cardinality(T \cup E)
    BY <1>5, <2>1, FS_Subset
  <2>3. Cardinality(T \cup E) \in Nat
    BY <1>5, FS_CardinalityType
  <2>4. QED
    BY <1>6, <1>7, <1>8, <2>2, <2>3
<1>10. QED
  BY <1>9 DEF Unused

LEMMA LimiterInitInv == LimiterInit => LimiterInv
<1> SUFFICES ASSUME LimiterInit PROVE LimiterInv
  OBVIOUS
<1>1. DOMAIN table = {} /\ \A w \in Worker : rpc[w].at = "idle"
  BY DEF LimiterInit, Idle
<1>2. LimiterTypes
  <2>1. Blank \in [tokens : 0..maxTokens, age : 0..MaxAge]
    BY Costs DEF Blank
  <2>2. ideal \in [Addr -> Int] /\ raced \in [Addr -> Nat]
    BY Costs DEF LimiterInit
  <2>3. table \in [DOMAIN table -> Entry]
    BY <1>1 DEF LimiterInit
  <2>4. QED
    BY <1>1, <2>1, <2>2, <2>3 DEF LimiterInit, LimiterTypes
<1>3. SenderInv /\ OwnInv
  BY <1>1, CostAssumption DEF LimiterInit, SenderInv, OwnInv, Holding
<1>4. CreditInv
  BY <1>1, Costs DEF LimiterInit, CreditInv, Credit, Owed, Inserting
<1>5. InsertInv
  BY <1>1 DEF InsertInv, Inserts
<1>6. QED
  BY <1>2, <1>3, <1>4, <1>5 DEF LimiterInv

\* The step of one worker: what becomes of its call, and of the calls of the others.
LEMMA WorkerMoves ==
    ASSUME LimiterTypes, NEW w \in Worker,
           NEW call \in {Idle} \cup [at : {"charge", "insert"} \cup Holding, ip : Addr, e : Entry],
           rpc' = [rpc EXCEPT ![w] = call]
    PROVE  /\ rpc' \in [Worker -> {Idle} \cup
                          [at : {"charge", "insert"} \cup Holding, ip : Addr, e : Entry]]
           /\ rpc'[w] = call /\ \A v \in Worker \ {w} : rpc'[v] = rpc[v]
           /\ \A ip \in Addr : call.at # "insert" /\ rpc[w].at # "insert" =>
                                 (Inserting(ip)' <=> Inserting(ip))
<1>1. /\ rpc' \in [Worker -> {Idle} \cup
                     [at : {"charge", "insert"} \cup Holding, ip : Addr, e : Entry]]
      /\ rpc'[w] = call /\ \A v \in Worker \ {w} : rpc'[v] = rpc[v]
  BY DEF LimiterTypes
<1>2. ASSUME NEW ip \in Addr, call.at # "insert", rpc[w].at # "insert"
      PROVE  Inserting(ip)' <=> Inserting(ip)
  BY <1>1, <1>2 DEF Inserting
<1>3. QED
  BY <1>1, <1>2

\* The fields of a call.
LEMMA CallFields ==
    ASSUME LimiterTypes, NEW w \in Worker, Busy(w)
    PROVE  /\ rpc[w] \in [at : {"charge", "insert"} \cup Holding, ip : Addr, e : Entry]
           /\ rpc[w].ip \in Addr /\ rpc[w].e \in Entry
  BY DEF LimiterTypes, Busy, Idle

\* Worth and credit depend on the entry, and on the table.
LEMMA SameWorth ==
    ASSUME LimiterTypes
    PROVE  /\ \A e \in Entry : heap'[e] = heap[e] => Worth(e)' = Worth(e)
           /\ \A ip \in Addr : UNCHANGED <<heap, table>> => Credit(ip)' = Credit(ip)
  BY DEF Worth, Credit, Refill

\* Allow finds an entry.
LEMMA AllowHit ==
    ASSUME LimiterInv, NEW w \in Worker, NEW ip \in Addr, Allow(w, ip), ip \in DOMAIN table
    PROVE  LimiterInv'
<1> DEFINE call == [at |-> "charge", ip |-> ip, e |-> table[ip]]
<1>1. /\ rpc[w] = Idle /\ limiterMu = NoEntry /\ rpc' = [rpc EXCEPT ![w] = call]
      /\ UNCHANGED <<heap, ideal, raced, limiterMu, table, ticker, gcpc, stopClosed>>
  BY DEF Allow
<1>2. /\ call \in [at : {"charge", "insert"} \cup Holding, ip : Addr, e : Entry]
      /\ call.at = "charge" /\ call.ip = ip /\ call.e = table[ip] /\ rpc[w].at = "idle"
  BY <1>1 DEF LimiterInv, LimiterTypes, Idle
<1> HIDE DEF call
<1>3. /\ rpc' \in [Worker -> {Idle} \cup
                     [at : {"charge", "insert"} \cup Holding, ip : Addr, e : Entry]]
      /\ rpc'[w] = call /\ \A v \in Worker \ {w} : rpc'[v] = rpc[v]
      /\ \A q \in Addr : Inserting(q)' <=> Inserting(q)
  BY <1>1, <1>2, WorkerMoves DEF LimiterInv
<1>4. LimiterTypes'
  BY <1>1, <1>3 DEF LimiterInv, LimiterTypes
<1>5. SenderInv'
  BY <1>1, <1>2, <1>3 DEF LimiterInv, SenderInv, Holding
<1>6. OwnInv'
  BY <1>1, <1>2, <1>3 DEF LimiterInv, OwnInv, Busy
<1>7. CreditInv'
  BY <1>1, <1>3, SameWorth, OwedFacts DEF LimiterInv, CreditInv
<1>8. InsertInv'
  BY <1>1, <1>2, <1>3 DEF LimiterInv, InsertInv, Inserts, Worth, Refill, Owed
<1>9. QED
  BY <1>4, <1>5, <1>6, <1>7, <1>8 DEF LimiterInv

\* Allow finds no entry and makes one, which it has already charged.
LEMMA AllowMiss ==
    ASSUME LimiterInv, NEW w \in Worker, NEW ip \in Addr, Allow(w, ip), ip \notin DOMAIN table
    PROVE  LimiterInv'
<1>2. Unused \in Entry /\ Unused \notin Used
  BY UnusedEntry DEF LimiterInv, Allow
<1>0. PICK u \in Entry : u = Unused /\ u \notin Used
  BY <1>2
<1> DEFINE call == [at |-> "insert", ip |-> ip, e |-> u]
           paid == [tokens |-> maxTokens - packetCost, age |-> 0]
<1>1. /\ rpc[w] = Idle /\ limiterMu = NoEntry /\ rpc' = [rpc EXCEPT ![w] = call]
      /\ heap' = [heap EXCEPT ![u] = paid]
      /\ ideal' = [ideal EXCEPT ![ip] = @ - packetCost]
      /\ raced' = IF Inserting(ip) THEN [raced EXCEPT ![ip] = @ + 1] ELSE raced
      /\ UNCHANGED <<limiterMu, table, ticker, gcpc, stopClosed>>
  BY <1>0 DEF Allow, Charge
<1>3. /\ call \in [at : {"charge", "insert"} \cup Holding, ip : Addr, e : Entry]
      /\ call.at = "insert" /\ call.ip = ip /\ call.e = u /\ rpc[w].at = "idle"
  BY <1>1 DEF Idle
<1>u. /\ \A q \in DOMAIN table : table[q] # u
      /\ \A v \in Worker : Busy(v) => rpc[v].e # u
  BY <1>0 DEF Used, Busy
<1>p. /\ paid \in [tokens : 0..maxTokens, age : 0..MaxAge]
      /\ Refill(paid, paid.age) = maxTokens - packetCost
  <2>1. maxTokens - packetCost \in 0..maxTokens /\ 0 \in 0..maxTokens /\ 0 \in 0..MaxAge
    BY Costs
  <2>2. [tokens |-> 0, age |-> 0] \in [tokens : 0..maxTokens, age : 0..MaxAge]
    BY <2>1
  <2>3. QED
    BY <2>1, <2>2, EntryWorth
<1> HIDE DEF call, paid
<1>4. /\ rpc' \in [Worker -> {Idle} \cup
                     [at : {"charge", "insert"} \cup Holding, ip : Addr, e : Entry]]
      /\ rpc'[w] = call /\ \A v \in Worker \ {w} : rpc'[v] = rpc[v]
  BY <1>1, <1>3, WorkerMoves DEF LimiterInv
<1>5. Inserting(ip)' /\ \A q \in Addr \ {ip} : Inserting(q)' <=> Inserting(q)
  BY <1>3, <1>4 DEF Inserting
<1>6. /\ heap' \in [Entry -> [tokens : 0..maxTokens, age : 0..MaxAge]] /\ heap'[u] = paid
      /\ \A e \in Entry \ {u} : heap'[e] = heap[e]
  BY <1>1, <1>p DEF LimiterInv, LimiterTypes
<1>7. /\ ideal' \in [Addr -> Int] /\ ideal'[ip] = ideal[ip] - packetCost
      /\ \A q \in Addr \ {ip} : ideal'[q] = ideal[q]
  BY <1>1, Costs DEF LimiterInv, LimiterTypes
<1>8. /\ raced' \in [Addr -> Nat] /\ \A q \in Addr \ {ip} : raced'[q] = raced[q]
      /\ raced'[ip] = IF Inserting(ip) THEN raced[ip] + 1 ELSE raced[ip]
  BY <1>1 DEF LimiterInv, LimiterTypes
<1>9. LimiterTypes'
  BY <1>1, <1>4, <1>6, <1>7, <1>8 DEF LimiterInv, LimiterTypes
<1>10. SenderInv'
  BY <1>1, <1>3, <1>4 DEF LimiterInv, SenderInv, Holding
<1>11. OwnInv'
  BY <1>1, <1>3, <1>4, <1>u DEF LimiterInv, OwnInv, Busy
<1>12. /\ Worth(u)' = maxTokens - packetCost
       /\ \A e \in Entry \ {u} : Worth(e)' = Worth(e)
       /\ \A q \in Addr : Credit(q)' = Credit(q)
  <2>1. Worth(u)' = Refill(paid, paid.age)
    BY <1>6 DEF Worth, Refill
  <2>2. \A e \in Entry \ {u} : Worth(e)' = Worth(e)
    BY <1>6, SameWorth DEF LimiterInv
  <2>3. \A q \in DOMAIN table : table[q] \in Entry \ {u}
    BY <1>u DEF LimiterInv, LimiterTypes
  <2>4. \A q \in Addr : Credit(q)' = Credit(q)
    BY <1>1, <1>6, <2>3 DEF Credit, Refill
  <2>5. QED
    BY <1>p, <2>1, <2>2, <2>4
<1>13. /\ Owed(ip)' = IF Inserting(ip) THEN Owed(ip) + packetCost ELSE Owed(ip)
       /\ \A q \in Addr \ {ip} : Owed(q)' = Owed(q)
       /\ \A q \in Addr : Owed(q) \in Nat
  BY <1>8, OwedFacts DEF LimiterInv
<1>14. /\ Credit(ip) = maxTokens /\ ideal[ip] \in Int /\ Owed(ip) \in Nat
       /\ ideal[ip] <= maxTokens
       /\ maxTokens <= ideal[ip] + Owed(ip) + (IF Inserting(ip) THEN packetCost ELSE 0)
  BY <1>13, WorthType DEF LimiterInv, LimiterTypes, CreditInv
<1>15. CreditInv'
  <2>1. ASSUME NEW q \in Addr, q # ip
        PROVE  /\ ideal'[q] <= Credit(q)'
               /\ Credit(q)' <= ideal'[q] + Owed(q)' + (IF Inserting(q)' THEN packetCost ELSE 0)
    BY <2>1, <1>5, <1>7, <1>12, <1>13 DEF LimiterInv, CreditInv
  <2>2. /\ ideal'[ip] <= maxTokens
        /\ maxTokens <= ideal'[ip] + Owed(ip)' + packetCost
    BY <1>7, <1>13, <1>14, Costs
  <2>3. QED
    BY <1>5, <1>12, <1>14, <2>1, <2>2 DEF CreditInv
<1>16. InsertInv'
  <2> SUFFICES ASSUME NEW v \in Worker, NEW q \in Addr, NEW e \in Entry, Inserts(v, q, e)'
               PROVE  ideal'[q] <= Worth(e)' /\ Worth(e)' <= ideal'[q] + Owed(q)'
    BY DEF InsertInv
  <2>1. CASE v = w
    <3>1. /\ ideal'[ip] <= maxTokens - packetCost
          /\ maxTokens - packetCost <= ideal'[ip] + Owed(ip)'
      BY <1>7, <1>13, <1>14, Costs
    <3>2. q = ip /\ e = u
      BY <2>1, <1>3, <1>4 DEF Inserts
    <3>3. QED
      BY <3>2, <1>12, <3>1
  <2>2. CASE v # w
    <3>1. Inserts(v, q, e) /\ Busy(v) /\ e # u
      BY <2>2, <1>4, <1>u DEF Inserts, Busy
    <3>2. Worth(e)' = Worth(e) /\ ideal[q] <= Worth(e) /\ Worth(e) <= ideal[q] + Owed(q)
          /\ Worth(e) \in Int /\ ideal[q] \in Int /\ Owed(q) \in Nat
      BY <3>1, <1>12, <1>13, WorthType DEF LimiterInv, LimiterTypes, InsertInv
    <3>3. q = ip => Inserting(ip)
      BY <3>1 DEF Inserting, Inserts
    <3>4. CASE q = ip
      BY <3>2, <3>3, <3>4, <1>7, <1>13, Costs
    <3>5. CASE q # ip
      BY <3>2, <3>5, <1>7, <1>13
    <3>6. QED
      BY <3>4, <3>5
  <2>3. QED
    BY <2>1, <2>2
<1>17. QED
  BY <1>9, <1>10, <1>11, <1>15, <1>16 DEF LimiterInv

(* Allow publishes its entry.  The table was empty when it has one entry now and did not
   hold the address, so that neither the ticker nor the cleanup was running. *)
LEMMA InsertEntryInv ==
    ASSUME LimiterInv, NEW w \in Worker, InsertEntry(w)
    PROVE  LimiterInv'
<1>1. rpc[w].at = "insert" /\ Busy(w) /\ limiterMu = NoEntry
  BY DEF InsertEntry, Busy
<1>2. rpc[w].ip \in Addr /\ rpc[w].e \in Entry
      /\ rpc[w] \in [at : {"charge", "insert"} \cup Holding, ip : Addr, e : Entry]
  BY <1>1, CallFields DEF LimiterInv
<1>3. PICK ip \in Addr, e \in Entry : Inserts(w, ip, e) /\ rpc[w].ip = ip /\ rpc[w].e = e
  BY <1>1, <1>2 DEF Inserts
<1>4. /\ table' = [k \in DOMAIN table \cup {ip} |-> IF k = ip THEN e ELSE table[k]]
      /\ UNCHANGED <<heap, ticker, gcpc, stopClosed, ideal, raced>>
  BY <1>3 DEF InsertEntry
<1>5. /\ DOMAIN table' = DOMAIN table \cup {ip} /\ table'[ip] = e
      /\ \A q \in DOMAIN table \ {ip} : table'[q] = table[q]
  BY <1>4
<1>6. /\ DOMAIN table' \subseteq Addr /\ table' \in [DOMAIN table' -> Entry]
  BY <1>4, <1>5 DEF LimiterInv, LimiterTypes
<1>7. PICK call \in {Idle} \cup [at : Holding, ip : Addr, e : Entry] :
        /\ rpc' = [rpc EXCEPT ![w] = call]
        /\ call = Idle => limiterMu' = NoEntry
        /\ call # Idle => limiterMu' = w /\ call.ip = ip /\ call.e = e
        /\ call.at = "send" => DOMAIN table = {}
  <2>1. CASE Cardinality(DOMAIN table') # 1
    <3>1. rpc' = [rpc EXCEPT ![w] = Idle] /\ limiterMu' = limiterMu
      BY <2>1 DEF InsertEntry
    <3>2. Idle.at # "send" /\ Idle \in {Idle} \cup [at : Holding, ip : Addr, e : Entry]
      BY DEF Idle
    <3>3. QED
      BY <1>1, <3>1, <3>2
  <2>2. CASE Cardinality(DOMAIN table') = 1
    <3> DEFINE s == IF ip \in DOMAIN table THEN "sendAgain" ELSE "send"
               c == [rpc[w] EXCEPT !.at = s]
    <3>1. rpc' = [rpc EXCEPT ![w].at = s] /\ limiterMu' = w
      BY <1>3, <2>2 DEF InsertEntry
    <3>2. rpc' = [rpc EXCEPT ![w] = c]
      BY <3>1
    <3>3. c \in [at : Holding, ip : Addr, e : Entry] /\ c.ip = ip /\ c.e = e /\ c.at = s
      BY <1>2, <1>3 DEF Holding
    <3>4. s = "send" => DOMAIN table = {}
      <4> SUFFICES ASSUME ip \notin DOMAIN table PROVE DOMAIN table = {}
        OBVIOUS
      <4>1. IsFiniteSet(DOMAIN table)
        BY CostAssumption, FS_Subset DEF LimiterInv, LimiterTypes
      <4>2. Cardinality(DOMAIN table \cup {ip}) = Cardinality(DOMAIN table) + 1
        BY <4>1, FS_AddElement
      <4>3. Cardinality(DOMAIN table) \in Nat
        BY <4>1, FS_CardinalityType
      <4>4. Cardinality(DOMAIN table) = 0
        BY <1>5, <2>2, <4>2, <4>3
      <4>5. QED
        BY <4>1, <4>4, FS_EmptySet
    <3>5. c # Idle
      BY <3>3 DEF Idle, Holding
    <3> HIDE DEF c
    <3>6. QED
      BY <3>1, <3>2, <3>3, <3>4, <3>5
  <2>3. QED
    BY <2>1, <2>2
<1>8. call.at \in {"idle"} \cup Holding /\ (call.at = "idle" <=> call = Idle)
      /\ call.at # "insert"
  BY <1>7 DEF Idle, Holding
<1>9. /\ rpc' \in [Worker -> {Idle} \cup
                     [at : {"charge", "insert"} \cup Holding, ip : Addr, e : Entry]]
      /\ rpc'[w] = call /\ \A v \in Worker \ {w} : rpc'[v] = rpc[v]
  BY <1>7, WorkerMoves DEF LimiterInv
<1>10. LimiterTypes'
  BY <1>1, <1>4, <1>6, <1>7, <1>9 DEF LimiterInv, LimiterTypes
<1>11. SenderInv'
  <2>1. ASSUME NEW v \in Worker PROVE rpc'[v].at \in Holding <=> limiterMu' = v
    <3>1. CASE v = w
      BY <3>1, <1>7, <1>8, <1>9, CostAssumption DEF Holding
    <3>2. CASE v # w
      BY <3>2, <1>1, <1>7, <1>9, CostAssumption DEF LimiterInv, SenderInv
    <3>3. QED
      BY <3>1, <3>2
  <2>2. DOMAIN table' # {}
    BY <1>5
  <2>3. ASSUME NEW v \in Worker, rpc'[v].at = "send" PROVE ~ ticker' /\ gcpc' # "cleanup"
    <3>1. v = w
      BY <2>3, <1>1, <1>9, CostAssumption DEF LimiterInv, SenderInv, Holding
    <3>2. QED
      BY <2>3, <3>1, <1>4, <1>7, <1>9 DEF LimiterInv, SenderInv
  <2>4. QED
    BY <2>1, <2>2, <2>3 DEF SenderInv
<1>12. OwnInv'
  <2>1. /\ \A q \in DOMAIN table : table[q] # e
        /\ \A v \in Worker \ {w} : Busy(v) => rpc[v].e # e
    BY <1>1, <1>3 DEF LimiterInv, OwnInv
  <2>2. /\ Busy(w)' => rpc'[w].ip = ip /\ rpc'[w].e = e
        /\ rpc'[w].at # "insert"
        /\ \A v \in Worker \ {w} : Busy(v)' => Busy(v)
    BY <1>7, <1>8, <1>9 DEF Busy
  <2>3. \A q, r \in DOMAIN table' : table'[q] = table'[r] => q = r
    BY <1>5, <2>1 DEF LimiterInv, OwnInv
  <2>4. ASSUME NEW v \in Worker, NEW q \in DOMAIN table', Busy(v)', rpc'[v].e = table'[q]
        PROVE  rpc'[v].ip = q
    BY <2>4, <1>5, <1>9, <2>1, <2>2 DEF LimiterInv, OwnInv
  <2>5. ASSUME NEW v \in Worker, NEW x \in Worker,
               rpc'[x].at = "insert", Busy(v)', rpc'[v].e = rpc'[x].e
        PROVE  v = x
    <3>1. x # w /\ rpc[x].at = "insert" /\ Busy(x) /\ rpc'[x].e = rpc[x].e /\ rpc[x].e # e
      BY <2>5, <1>9, <2>1, <2>2 DEF Busy
    <3>2. QED
      BY <2>5, <3>1, <1>9, <2>2 DEF LimiterInv, OwnInv
  <2>6. ASSUME NEW x \in Worker, NEW q \in DOMAIN table', rpc'[x].at = "insert"
        PROVE  rpc'[x].e # table'[q]
    <3>1. x # w /\ rpc[x].at = "insert" /\ Busy(x) /\ rpc'[x].e = rpc[x].e /\ rpc[x].e # e
      BY <2>6, <1>9, <2>1, <2>2 DEF Busy
    <3>2. QED
      BY <3>1, <1>5 DEF LimiterInv, OwnInv
  <2>7. QED
    BY <2>3, <2>4, <2>5, <2>6 DEF OwnInv
<1>13. /\ \A f \in Entry : Worth(f)' = Worth(f)
       /\ \A q \in Addr : Owed(q)' = Owed(q) /\ Owed(q) \in Nat
  BY <1>4, SameWorth, OwedFacts DEF LimiterInv
<1>14. \A q \in Addr \ {ip} : (Inserting(q)' <=> Inserting(q)) /\ Credit(q)' = Credit(q)
  BY <1>3, <1>4, <1>5, <1>8, <1>9 DEF Inserting, Credit, Refill
<1>15. Credit(ip)' = Worth(e)
  BY <1>4, <1>5 DEF Credit, Worth, Refill
<1>16. CreditInv'
  <2>1. ASSUME NEW q \in Addr, q # ip
        PROVE  /\ ideal'[q] <= Credit(q)'
               /\ Credit(q)' <= ideal'[q] + Owed(q)' + (IF Inserting(q)' THEN packetCost ELSE 0)
    BY <2>1, <1>4, <1>13, <1>14 DEF LimiterInv, CreditInv
  <2>2. ideal[ip] <= Worth(e) /\ Worth(e) <= ideal[ip] + Owed(ip) /\ Worth(e) \in Int
        /\ ideal[ip] \in Int
    BY <1>3, WorthType DEF LimiterInv, LimiterTypes, InsertInv
  <2>3. Worth(e) <= ideal[ip] + Owed(ip) + packetCost /\ Worth(e) <= ideal[ip] + Owed(ip) + 0
    BY <1>13, <2>2, Costs
  <2>4. QED
    BY <1>4, <1>13, <1>15, <2>1, <2>2, <2>3 DEF CreditInv
<1>17. InsertInv'
  <2> SUFFICES ASSUME NEW v \in Worker, NEW q \in Addr, NEW f \in Entry, Inserts(v, q, f)'
               PROVE  ideal'[q] <= Worth(f)' /\ Worth(f)' <= ideal'[q] + Owed(q)'
    BY DEF InsertInv
  <2>1. Inserts(v, q, f)
    BY <1>8, <1>9 DEF Inserts
  <2>2. QED
    BY <2>1, <1>4, <1>13 DEF LimiterInv, InsertInv
<1>18. QED
  BY <1>10, <1>11, <1>12, <1>16, <1>17 DEF LimiterInv

\* The goroutine receives, or the send panics: the lock is released, or kept for good.
LEMMA SendResetInv ==
    ASSUME LimiterInv, NEW w \in Worker, SendReset(w)
    PROVE  LimiterInv'
<1>1. /\ rpc[w].at \in {"send", "sendAgain"} /\ Busy(w) /\ limiterMu = w
      /\ UNCHANGED <<table, heap, gcpc, stopClosed, ideal, raced>>
  BY DEF SendReset, Busy, LimiterInv, SenderInv, Holding
<1>2. rpc[w].ip \in Addr /\ rpc[w].e \in Entry
      /\ rpc[w] \in [at : {"charge", "insert"} \cup Holding, ip : Addr, e : Entry]
  BY <1>1, CallFields DEF LimiterInv
<1>3. PICK call \in {Idle} \cup [at : Holding, ip : Addr, e : Entry] :
        /\ rpc' = [rpc EXCEPT ![w] = call]
        /\ call = Idle => limiterMu' = NoEntry /\ ticker' = TRUE /\ gcpc = "select"
        /\ call # Idle => /\ limiterMu' = w /\ ticker' = ticker
                          /\ call.at = "panic" /\ call.ip = rpc[w].ip /\ call.e = rpc[w].e
  <2>1. CASE ~ stopClosed
    BY <2>1 DEF SendReset
  <2>2. CASE stopClosed
    <3> DEFINE c == [rpc[w] EXCEPT !.at = "panic"]
    <3>1. c \in [at : Holding, ip : Addr, e : Entry] /\ c.at = "panic" /\ c # Idle
          /\ c.ip = rpc[w].ip /\ c.e = rpc[w].e
      BY <1>2 DEF Holding, Idle
    <3>2. rpc' = [rpc EXCEPT ![w] = c] /\ UNCHANGED <<limiterMu, ticker>>
      BY <2>2 DEF SendReset
    <3> HIDE DEF c
    <3>3. QED
      BY <1>1, <3>1, <3>2
  <2>3. QED
    BY <2>1, <2>2
<1>4. /\ call.at \in {"idle", "panic"} /\ (call.at = "idle" <=> call = Idle)
      /\ call \in {Idle} \cup [at : {"charge", "insert"} \cup Holding, ip : Addr, e : Entry]
  BY <1>3 DEF Idle
<1>5. /\ rpc' \in [Worker -> {Idle} \cup
                     [at : {"charge", "insert"} \cup Holding, ip : Addr, e : Entry]]
      /\ rpc'[w] = call /\ \A v \in Worker \ {w} : rpc'[v] = rpc[v]
      /\ \A q \in Addr : Inserting(q)' <=> Inserting(q)
  BY <1>1, <1>3, <1>4, WorkerMoves DEF LimiterInv
<1>6. LimiterTypes'
  <2>1. limiterMu' \in Worker \cup {NoEntry} /\ ticker' \in BOOLEAN
    BY <1>3 DEF LimiterInv, LimiterTypes
  <2>2. QED
    BY <1>1, <1>5, <2>1 DEF LimiterInv, LimiterTypes
<1>7. SenderInv'
  <2>1. ASSUME NEW v \in Worker PROVE rpc'[v].at \in Holding <=> limiterMu' = v
    BY <1>1, <1>3, <1>4, <1>5, CostAssumption DEF LimiterInv, SenderInv, Holding
  <2>2. DOMAIN table' # {}
    BY <1>1, CostAssumption DEF LimiterInv, SenderInv
  <2>3. ASSUME NEW v \in Worker PROVE rpc'[v].at # "send"
    BY <1>1, <1>4, <1>5 DEF LimiterInv, SenderInv, Holding
  <2>4. QED
    BY <2>1, <2>2, <2>3 DEF SenderInv
<1>8. OwnInv'
  <2>1. /\ Busy(w)' => rpc'[w].ip = rpc[w].ip /\ rpc'[w].e = rpc[w].e
        /\ rpc'[w].at # "insert"
    BY <1>3, <1>4, <1>5 DEF Busy
  <2>2. QED
    BY <1>1, <1>5, <2>1 DEF LimiterInv, OwnInv, Busy
<1>9. CreditInv'
  BY <1>1, <1>5, SameWorth, OwedFacts DEF LimiterInv, CreditInv
<1>10. InsertInv'
  BY <1>1, <1>4, <1>5 DEF LimiterInv, InsertInv, Inserts, Worth, Refill, Owed
<1>11. QED
  BY <1>6, <1>7, <1>8, <1>9, <1>10 DEF LimiterInv

(* Allow charges the entry it has found.  Of the addresses only its own can have that
   entry in the table, and no worker is about to insert it. *)
LEMMA ChargeEntryInv ==
    ASSUME LimiterInv, NEW w \in Worker, ChargeEntry(w)
    PROVE  LimiterInv'
<1>1. rpc[w].at = "charge" /\ Busy(w) /\ rpc' = [rpc EXCEPT ![w] = Idle]
      /\ UNCHANGED <<limiterMu, table, ticker, gcpc, stopClosed>>
  BY DEF ChargeEntry, Busy
<1>2. rpc[w].ip \in Addr /\ rpc[w].e \in Entry
  BY <1>1, CallFields DEF LimiterInv
<1>3. PICK ip \in Addr, e \in Entry : rpc[w].ip = ip /\ rpc[w].e = e
  BY <1>2
<1> DEFINE attached == ip \in DOMAIN table /\ table[ip] = e
<1>4. PICK n \in 0..maxTokens :
        /\ heap' = [heap EXCEPT ![e] = [tokens |-> n, age |-> 0]]
        /\ \/ /\ n = Worth(e) /\ ideal' = ideal /\ raced' = raced
           \/ /\ n = Worth(e) - packetCost
              /\ ideal' = [ideal EXCEPT ![ip] = @ - packetCost]
              /\ raced' = IF ~ attached \/ Inserting(ip) THEN [raced EXCEPT ![ip] = @ + 1]
                                                        ELSE raced
  <2>1. Worth(e) \in 0..maxTokens
    BY WorthType DEF LimiterInv
  <2>2. CASE Worth(e) > packetCost
    <3>1. Worth(e) - packetCost \in 0..maxTokens
      BY <2>1, <2>2, Costs
    <3>2. /\ heap' = [heap EXCEPT ![e] = [tokens |-> Worth(e) - packetCost, age |-> 0]]
          /\ ideal' = [ideal EXCEPT ![ip] = @ - packetCost]
          /\ raced' = IF ~ attached \/ Inserting(ip) THEN [raced EXCEPT ![ip] = @ + 1] ELSE raced
      BY <1>3, <2>2 DEF ChargeEntry, Charge, Worth
    <3>3. QED
      BY <3>1, <3>2
  <2>3. CASE ~ (Worth(e) > packetCost)
    <3>1. heap' = [heap EXCEPT ![e] = [tokens |-> Worth(e), age |-> 0]] /\ ideal' = ideal
          /\ raced' = raced
      BY <1>3, <2>3 DEF ChargeEntry, Worth
    <3>2. QED
      BY <2>1, <3>1
  <2>4. QED
    BY <2>2, <2>3
<1>5. /\ rpc' \in [Worker -> {Idle} \cup
                     [at : {"charge", "insert"} \cup Holding, ip : Addr, e : Entry]]
      /\ rpc'[w] = Idle /\ \A v \in Worker \ {w} : rpc'[v] = rpc[v]
      /\ \A q \in Addr : Inserting(q)' <=> Inserting(q)
      /\ Idle.at = "idle"
  <2>1. Idle.at = "idle"
    BY DEF Idle
  <2>2. QED
    BY <1>1, <2>1, WorkerMoves DEF LimiterInv
<1> DEFINE left == [tokens |-> n, age |-> 0]
<1>6. /\ left \in [tokens : 0..maxTokens, age : 0..MaxAge] /\ Refill(left, left.age) = n
  <2>1. 0 \in 0..maxTokens /\ 0 \in 0..MaxAge
    BY Costs
  <2>2. [tokens |-> 0, age |-> 0] \in [tokens : 0..maxTokens, age : 0..MaxAge]
    BY <2>1
  <2>3. QED
    BY <2>2, EntryWorth
<1>7. heap' = [heap EXCEPT ![e] = left]
  BY <1>4
<1> HIDE DEF left
<1>8. /\ heap' \in [Entry -> [tokens : 0..maxTokens, age : 0..MaxAge]] /\ heap'[e] = left
      /\ \A f \in Entry \ {e} : heap'[f] = heap[f]
  BY <1>6, <1>7 DEF LimiterInv, LimiterTypes
<1>9. /\ ideal' \in [Addr -> Int] /\ raced' \in [Addr -> Nat]
      /\ \A q \in Addr \ {ip} : ideal'[q] = ideal[q] /\ raced'[q] = raced[q]
      /\ \/ n = Worth(e) /\ ideal'[ip] = ideal[ip] /\ raced'[ip] = raced[ip]
         \/ /\ n = Worth(e) - packetCost /\ ideal'[ip] = ideal[ip] - packetCost
            /\ raced'[ip] = IF ~ attached \/ Inserting(ip) THEN raced[ip] + 1 ELSE raced[ip]
  <2>1. CASE ideal' = ideal /\ raced' = raced /\ n = Worth(e)
    BY <2>1 DEF LimiterInv, LimiterTypes
  <2>2. CASE /\ n = Worth(e) - packetCost
             /\ ideal' = [ideal EXCEPT ![ip] = @ - packetCost]
             /\ raced' = IF ~ attached \/ Inserting(ip) THEN [raced EXCEPT ![ip] = @ + 1]
                                                       ELSE raced
    <3>1. ideal' \in [Addr -> Int] /\ raced' \in [Addr -> Nat]
      BY <2>2, Costs DEF LimiterInv, LimiterTypes
    <3>2. QED
      BY <2>2, <3>1 DEF LimiterInv, LimiterTypes
  <2>3. QED
    BY <1>4, <2>1, <2>2
<1>10. LimiterTypes'
  BY <1>1, <1>5, <1>8, <1>9 DEF LimiterInv, LimiterTypes
<1>11. SenderInv'
  BY <1>1, <1>5 DEF LimiterInv, SenderInv, Holding
<1>12. OwnInv'
  BY <1>1, <1>5 DEF LimiterInv, OwnInv, Busy
<1>13. /\ Worth(e)' = n /\ \A f \in Entry \ {e} : Worth(f)' = Worth(f)
       /\ \A q \in Addr \ {ip} : Credit(q)' = Credit(q)
       /\ Credit(ip)' = IF attached THEN n ELSE Credit(ip)
       /\ attached => Credit(ip) = Worth(e)
  <2>1. Worth(e)' = n
    BY <1>6, <1>8 DEF Worth, Refill
  <2>2. \A f \in Entry \ {e} : Worth(f)' = Worth(f)
    BY <1>8, SameWorth DEF LimiterInv
  <2>3. \A q \in DOMAIN table : q # ip => table[q] \in Entry \ {e}
    BY <1>1, <1>3 DEF LimiterInv, LimiterTypes, OwnInv
  <2>4. \A q \in Addr \ {ip} : Credit(q)' = Credit(q)
    BY <1>1, <1>8, <2>3 DEF Credit, Refill
  <2>5. CASE attached
    BY <1>1, <1>6, <1>8, <2>1, <2>2, <2>4, <2>5 DEF Credit, Worth, Refill
  <2>6. CASE ~ attached
    <3>1. ip \in DOMAIN table => table[ip] \in Entry \ {e}
      BY <2>6 DEF LimiterInv, LimiterTypes
    <3>2. Credit(ip)' = Credit(ip)
      BY <1>1, <1>8, <3>1 DEF Credit, Refill
    <3>3. QED
      BY <2>1, <2>2, <2>4, <2>6, <3>2
  <2>7. QED
    BY <2>5, <2>6
<1>14. /\ \A q \in Addr \ {ip} : Owed(q)' = Owed(q)
       /\ \A q \in Addr : Owed(q) \in Nat /\ Credit(q) \in Int /\ ideal[q] \in Int
       /\ raced'[ip] = raced[ip] => Owed(ip)' = Owed(ip)
       /\ raced'[ip] = raced[ip] + 1 => Owed(ip)' = Owed(ip) + packetCost
  BY <1>9, OwedFacts, WorthType DEF LimiterInv, LimiterTypes
<1>15. /\ ideal[ip] <= Credit(ip)
       /\ Credit(ip) <= ideal[ip] + Owed(ip) + (IF Inserting(ip) THEN packetCost ELSE 0)
  BY DEF LimiterInv, CreditInv
<1> HIDE DEF attached
<1>16. CreditInv'
  <2>1. ASSUME NEW q \in Addr, q # ip
        PROVE  /\ ideal'[q] <= Credit(q)'
               /\ Credit(q)' <= ideal'[q] + Owed(q)' + (IF Inserting(q)' THEN packetCost ELSE 0)
    BY <2>1, <1>5, <1>9, <1>13, <1>14 DEF LimiterInv, CreditInv
  <2>2. /\ ideal'[ip] <= Credit(ip)'
        /\ Credit(ip)' <= ideal'[ip] + Owed(ip)' + (IF Inserting(ip) THEN packetCost ELSE 0)
    <3>1. CASE n = Worth(e) /\ ideal'[ip] = ideal[ip] /\ raced'[ip] = raced[ip]
      BY <3>1, <1>13, <1>14, <1>15
    <3>2. CASE /\ n = Worth(e) - packetCost /\ ideal'[ip] = ideal[ip] - packetCost
               /\ raced'[ip] = IF ~ attached \/ Inserting(ip) THEN raced[ip] + 1 ELSE raced[ip]
      <4>1. CASE attached /\ ~ Inserting(ip)
        BY <3>2, <4>1, <1>13, <1>14, <1>15, Costs
      <4>2. CASE attached /\ Inserting(ip)
        BY <3>2, <4>2, <1>13, <1>14, <1>15, Costs
      <4>3. CASE ~ attached
        BY <3>2, <4>3, <1>13, <1>14, <1>15, Costs
      <4>4. QED
        BY <4>1, <4>2, <4>3
    <3>3. QED
      BY <1>9, <3>1, <3>2
  <2>3. QED
    BY <1>5, <2>1, <2>2 DEF CreditInv
<1>17. InsertInv'
  <2> SUFFICES ASSUME NEW v \in Worker, NEW q \in Addr, NEW f \in Entry, Inserts(v, q, f)'
               PROVE  ideal'[q] <= Worth(f)' /\ Worth(f)' <= ideal'[q] + Owed(q)'
    BY DEF InsertInv
  <2>1. v # w /\ Inserts(v, q, f) /\ rpc[v].at = "insert"
    BY <1>5 DEF Inserts
  <2>2. f # e
    BY <2>1, <1>1, <1>3 DEF LimiterInv, OwnInv, Inserts
  <2>3. Worth(f)' = Worth(f) /\ ideal[q] <= Worth(f) /\ Worth(f) <= ideal[q] + Owed(q)
        /\ Worth(f) \in Int
    BY <2>1, <2>2, <1>13, WorthType DEF LimiterInv, InsertInv
  <2>4. q = ip => Inserting(ip)
    BY <2>1 DEF Inserting, Inserts
  <2>5. CASE q = ip
    BY <2>3, <2>4, <2>5, <1>9, <1>14, Costs
  <2>6. CASE q # ip
    BY <2>3, <2>6, <1>9, <1>14
  <2>7. QED
    BY <2>5, <2>6
<1>18. QED
  BY <1>10, <1>11, <1>12, <1>16, <1>17 DEF LimiterInv

(* The cleanup.  An entry that it removes has been full for longer than it takes to fill
   it, so that the address is worth as much without it. *)
LEMMA CleanupInv ==
    ASSUME LimiterInv, cleanup
    PROVE  LimiterInv'
<1> DEFINE kept == {ip \in DOMAIN table : ~ Expired(table[ip])}
<1>1. /\ gcpc = "cleanup" /\ limiterMu = NoEntry /\ gcpc' = "select"
      /\ UNCHANGED <<rpc, limiterMu, heap, stopClosed, ideal, raced>>
      /\ table' = [ip \in kept |-> table[ip]]
  BY DEF cleanup, Restrict
<1>2. DOMAIN table' = kept /\ \A ip \in kept : table'[ip] = table[ip]
  BY <1>1
<1>3. ticker' = (DOMAIN table' # {})
  BY DEF cleanup, StopsTicker
<1>4. LimiterTypes'
  <2>1. DOMAIN table' \subseteq Addr /\ table' \in [DOMAIN table' -> Entry]
    BY <1>1, <1>2 DEF LimiterInv, LimiterTypes
  <2>2. QED
    BY <1>1, <1>3, <2>1 DEF LimiterInv, LimiterTypes
<1>5. SenderInv'
  BY <1>1, <1>3, CostAssumption DEF LimiterInv, SenderInv, Holding
<1>6. OwnInv'
  BY <1>1, <1>2 DEF LimiterInv, OwnInv, Busy
<1>7. ASSUME NEW ip \in Addr PROVE Credit(ip)' = Credit(ip) /\ (Inserting(ip)' <=> Inserting(ip))
  <2>1. ip \in DOMAIN table => heap[table[ip]] \in [tokens : 0..maxTokens, age : 0..MaxAge]
    BY DEF LimiterInv, LimiterTypes
  <2>2. ip \in DOMAIN table \ kept => Refill(heap[table[ip]], heap[table[ip]].age) = maxTokens
    BY <2>1, EntryWorth DEF Expired
  <2>3. Credit(ip)' = Credit(ip)
    BY <1>1, <1>2, <2>2 DEF Credit, Refill
  <2>4. QED
    BY <1>1, <2>3 DEF Inserting
<1>8. CreditInv'
  BY <1>1, <1>7, OwedFacts DEF LimiterInv, CreditInv
<1>9. InsertInv'
  BY <1>1 DEF LimiterInv, InsertInv, Inserts, Worth, Refill, Owed
<1>10. QED
  BY <1>4, <1>5, <1>6, <1>8, <1>9 DEF LimiterInv

\* Time passes: every bucket in use gains a token, as the ideal ones do.
LEMMA TickInv ==
    ASSUME LimiterInv, Tick
    PROVE  LimiterInv'
<1>1. /\ heap' = [e \in Entry |-> IF e \in Used THEN [heap[e] EXCEPT !.age = Lesser(MaxAge, @ + 1)]
                                 ELSE Blank]
      /\ ideal' = [ip \in Addr |-> Lesser(maxTokens, ideal[ip] + 1)]
      /\ raced' = [ip \in Addr |-> IF ideal'[ip] = maxTokens THEN 0 ELSE raced[ip]]
      /\ UNCHANGED <<rpc, limiterMu, table, ticker, gcpc, stopClosed>>
  BY DEF Tick
<1>2. ASSUME NEW e \in Entry
      PROVE  /\ heap'[e] \in [tokens : 0..maxTokens, age : 0..MaxAge]
             /\ e \in Used => Worth(e)' = Lesser(maxTokens, Worth(e) + 1)
  <2>1. heap[e] \in [tokens : 0..maxTokens, age : 0..MaxAge]
    BY DEF LimiterInv, LimiterTypes
  <2>2. Blank \in [tokens : 0..maxTokens, age : 0..MaxAge]
    BY Costs DEF Blank
  <2> DEFINE older == [heap[e] EXCEPT !.age = Lesser(MaxAge, @ + 1)]
  <2>3. /\ older \in [tokens : 0..maxTokens, age : 0..MaxAge]
        /\ Refill(older, older.age) = Lesser(maxTokens, Refill(heap[e], heap[e].age) + 1)
    BY <2>1, EntryWorth
  <2>4. heap'[e] = IF e \in Used THEN older ELSE Blank
    BY <1>1
  <2> HIDE DEF older
  <2>5. e \in Used => Worth(e)' = Lesser(maxTokens, Worth(e) + 1)
    BY <2>3, <2>4 DEF Worth, Refill
  <2>6. QED
    BY <2>2, <2>3, <2>4, <2>5
<1>3. heap' \in [Entry -> [tokens : 0..maxTokens, age : 0..MaxAge]]
  BY <1>1, <1>2
<1>4. ideal' \in [Addr -> Int] /\ raced' \in [Addr -> Nat]
  <2>1. \A ip \in Addr : ideal[ip] \in Int /\ raced[ip] \in Nat
    BY DEF LimiterInv, LimiterTypes
  <2>2. QED
    BY <1>1, <2>1, Costs DEF Lesser
<1>5. LimiterTypes'
  BY <1>1, <1>3, <1>4 DEF LimiterInv, LimiterTypes
<1>6. SenderInv' /\ OwnInv'
  BY <1>1 DEF LimiterInv, SenderInv, OwnInv, Busy
<1>7. \A ip \in Addr : Inserting(ip)' <=> Inserting(ip)
  BY <1>1 DEF Inserting
<1>8. ASSUME NEW ip \in Addr
      PROVE  /\ ideal[ip] \in Int /\ Owed(ip) \in Nat
             /\ ideal'[ip] = Lesser(maxTokens, ideal[ip] + 1)
             /\ Owed(ip)' = IF ideal'[ip] = maxTokens THEN 0 ELSE Owed(ip)
  BY <1>1, OwedFacts DEF LimiterInv, LimiterTypes
<1>9. ASSUME NEW ip \in Addr
      PROVE  Credit(ip)' = Lesser(maxTokens, Credit(ip) + 1) /\ Credit(ip) \in 0..maxTokens
  <2>1. Credit(ip) = (IF ip \in DOMAIN table THEN Worth(table[ip]) ELSE maxTokens)
        /\ Credit(ip) \in 0..maxTokens
    BY WorthType DEF LimiterInv
  <2>2. CASE ip \notin DOMAIN table
    BY <1>1, <2>1, <2>2, Costs DEF Credit, Lesser
  <2>3. CASE ip \in DOMAIN table
    <3>1. PICK e \in Entry : e = table[ip]
      BY <2>3 DEF LimiterInv, LimiterTypes
    <3>2. e \in Used
      BY <2>3, <3>1 DEF Used
    <3>3. Credit(ip)' = Worth(e)'
      BY <1>1, <2>3, <3>1 DEF Credit, Worth
    <3>4. QED
      BY <1>2, <2>1, <2>3, <3>1, <3>2, <3>3
  <2>4. QED
    BY <2>2, <2>3
<1>10. CreditInv'
  <2> SUFFICES ASSUME NEW ip \in Addr
               PROVE  /\ ideal'[ip] <= Credit(ip)'
                      /\ Credit(ip)' <= ideal'[ip] + Owed(ip)'
                                           + (IF Inserting(ip)' THEN packetCost ELSE 0)
    BY DEF CreditInv
  <2>1. /\ ideal[ip] <= Credit(ip)
        /\ Credit(ip) <= ideal[ip] + Owed(ip) + (IF Inserting(ip) THEN packetCost ELSE 0)
    BY DEF LimiterInv, CreditInv
  <2>2. QED
    BY <1>7, <1>8, <1>9, <2>1, Costs DEF Lesser
<1>11. InsertInv'
  <2> SUFFICES ASSUME NEW w \in Worker, NEW ip \in Addr, NEW e \in Entry, Inserts(w, ip, e)'
               PROVE  ideal'[ip] <= Worth(e)' /\ Worth(e)' <= ideal'[ip] + Owed(ip)'
    BY DEF InsertInv
  <2>1. Inserts(w, ip, e) /\ e \in Used
    BY <1>1 DEF Inserts, Used
  <2>2. ideal[ip] <= Worth(e) /\ Worth(e) <= ideal[ip] + Owed(ip) /\ Worth(e) \in 0..maxTokens
    BY <2>1, WorthType DEF LimiterInv, InsertInv
  <2>3. QED
    BY <1>2, <1>8, <2>1, <2>2, Costs DEF Lesser
<1>12. QED
  BY <1>5, <1>6, <1>10, <1>11 DEF LimiterInv

\* The goroutine and Close: they leave the entries alone.
LEMMA GoroutineInv ==
    ASSUME LimiterInv, TickerFires \/ CloseLimiter \/ CleanupEnds \/ UNCHANGED limiterVars
    PROVE  LimiterInv'
<1>1. UNCHANGED <<rpc, limiterMu, table, heap, ideal, raced>>
  BY DEF TickerFires, CloseLimiter, CleanupEnds, limiterVars
<1>2. LimiterTypes'
  <2>1. ticker' \in BOOLEAN /\ gcpc' \in {"select", "cleanup", "end"} /\ stopClosed' \in BOOLEAN
    BY DEF TickerFires, CloseLimiter, CleanupEnds, limiterVars, LimiterInv, LimiterTypes
  <2>2. QED
    BY <1>1, <2>1 DEF LimiterInv, LimiterTypes
<1>3. SenderInv'
  BY <1>1 DEF LimiterInv, SenderInv, TickerFires, CloseLimiter, CleanupEnds, limiterVars
<1>4. OwnInv'
  BY <1>1 DEF LimiterInv, OwnInv, Busy
<1>5. CreditInv'
  BY <1>1 DEF LimiterInv, CreditInv, Credit, Refill, Owed, Inserting
<1>6. InsertInv'
  BY <1>1 DEF LimiterInv, InsertInv, Inserts, Worth, Refill, Owed
<1>7. QED
  BY <1>2, <1>3, <1>4, <1>5, <1>6 DEF LimiterInv

LEMMA LimiterInvariant == LimiterSpec => []LimiterInv
<1>1. LimiterInv /\ [LimiterNext]_limiterVars => LimiterInv'
  <2> SUFFICES ASSUME LimiterInv, [LimiterNext]_limiterVars PROVE LimiterInv'
    OBVIOUS
  <2>1. ASSUME NEW w \in Worker, NEW ip \in Addr, Allow(w, ip) PROVE LimiterInv'
    BY <2>1, AllowHit, AllowMiss
  <2>2. ASSUME NEW w \in Worker, InsertEntry(w) \/ SendReset(w) \/ ChargeEntry(w)
        PROVE  LimiterInv'
    BY <2>2, InsertEntryInv, SendResetInv, ChargeEntryInv
  <2>3. QED
    BY <2>1, <2>2, CleanupInv, TickInv, GoroutineInv DEF LimiterNext
<1>2. QED
  BY <1>1, LimiterInitInv, PTL DEF LimiterSpec

(* Removing an entry forgets no debt (Ratelimiter.Allow, ratelimiter.cleanup).  For every
   number of workers and addresses, and whatever the costs: as long as no insertion for
   an address is under way, its bucket holds what one that was never removed would hold,
   and calls that raced have given away at most one packet each. *)
THEOREM ForgetsNothing == LimiterSpec => []CleanupForgetsNothing
<1>1. LimiterInv => CleanupForgetsNothing
  <2> SUFFICES ASSUME LimiterInv, NEW ip \in Addr, ~ Inserting(ip)
               PROVE  Credit(ip) >= ideal[ip] /\ Credit(ip) <= ideal[ip] + raced[ip] * packetCost
    BY DEF CleanupForgetsNothing
  <2>1. Credit(ip) \in Int /\ ideal[ip] \in Int /\ Owed(ip) \in Nat
    BY WorthType, OwedFacts DEF LimiterInv, LimiterTypes
  <2>2. ideal[ip] <= Credit(ip) /\ Credit(ip) <= ideal[ip] + Owed(ip) + 0
    BY DEF LimiterInv, CreditInv
  <2>3. Credit(ip) >= ideal[ip] /\ Credit(ip) <= ideal[ip] + Owed(ip)
    BY <2>1, <2>2
  <2>4. QED
    BY <2>3 DEF Owed
<1>2. QED
  BY <1>1, LimiterInvariant, PTL

(* A worker that wakes the goroutine because the table was empty never meets it waiting
   for the lock: with an empty table the ticker does not run.  Only the worker that
   replaces the only entry can block the limiter. *)
THEOREM ReplacingBlocks == LimiterSpec => []OnlyReplacingBlocks
<1>1. LimiterInv => OnlyReplacingBlocks
  BY DEF LimiterInv, SenderInv, OnlyReplacingBlocks
<1>2. QED
  BY <1>1, LimiterInvariant, PTL

\* Types: no bucket exceeds maxTokens, and only a worker that sends holds the lock.
THEOREM LimiterTypesHold == LimiterSpec => []LimiterTypeOK
<1>1. LimiterInv => LimiterTypeOK
  BY DEF LimiterInv, LimiterTypes, SenderInv, LimiterTypeOK, Holding
<1>2. QED
  BY <1>1, LimiterInvariant, PTL

-----------------------------------------------------------------------------
(* The replay filter implements the window                                 *)

\* Quotient and remainder.
LEMMA DivMod ==
    ASSUME NEW n \in Nat \ {0}, NEW c \in Nat
    PROVE  c \div n \in Nat /\ c % n \in 0..n - 1 /\ c = n * (c \div n) + (c % n)
  OBVIOUS

LEMMA Multiples ==
    ASSUME NEW n \in Nat, NEW p \in Nat, NEW q \in Nat, p < q
    PROVE  n * p \in Nat /\ n * q \in Nat /\ n * p + n <= n * q
  OBVIOUS

LEMMA ModUnique ==
    ASSUME NEW n \in Nat \ {0}, NEW m \in Nat, NEW r \in 0..n - 1
    PROVE  (n * m + r) % n = r
<1>1. n * m \in Nat /\ n * m + r \in Nat
  OBVIOUS
<1>2. PICK c \in Nat : c = n * m + r
  BY <1>1
<1>3. PICK q \in Nat, t \in 0..n - 1 : q = c \div n /\ t = c % n /\ c = n * q + t
  BY DivMod
<1>4. ~ (q < m) /\ ~ (m < q)
  BY <1>2, <1>3, Multiples
<1>5. q = m
  BY <1>4
<1>6. t = r
  BY <1>1, <1>2, <1>3, <1>5
<1>7. QED
  BY <1>2, <1>3, <1>6

\* Fewer than n numbers in a row have different remainders, and n of them have all.
LEMMA DistinctResidues ==
    ASSUME NEW n \in Nat \ {0}, NEW a \in Nat, NEW b \in Nat, a < b, b - a < n
    PROVE  a % n # b % n
<1>1. PICK p \in Nat, s \in 0..n - 1 : p = a \div n /\ s = a % n /\ a = n * p + s
  BY DivMod
<1>2. PICK q \in Nat, t \in 0..n - 1 : q = b \div n /\ t = b % n /\ b = n * q + t
  BY DivMod
<1>3. n * p \in Nat /\ n * q \in Nat
  OBVIOUS
<1>4. ASSUME s = t PROVE FALSE
  <2>1. CASE p < q
    BY <1>1, <1>2, <1>3, <1>4, <2>1, Multiples
  <2>2. CASE p = q
    BY <1>1, <1>2, <1>3, <1>4, <2>2
  <2>3. CASE q < p
    BY <1>1, <1>2, <1>3, <1>4, <2>3, Multiples
  <2>4. QED
    BY <2>1, <2>2, <2>3
<1>5. QED
  BY <1>1, <1>2, <1>4

LEMMA AllResidues ==
    ASSUME NEW n \in Nat \ {0}, NEW a \in Nat, NEW r \in 0..n - 1
    PROVE  \E b \in a + 1 .. a + n : b % n = r
<1>1. PICK p \in Nat, s \in 0..n - 1 : a + 1 = n * p + s
  BY DivMod, a + 1 \in Nat
<1>2. n * p \in Nat /\ n * (p + 1) = n * p + n
  OBVIOUS
<1>3. CASE s <= r
  <2>1. n * p + r \in a + 1 .. a + n
    BY <1>1, <1>2, <1>3
  <2>2. QED
    BY <2>1, ModUnique
<1>4. CASE r < s
  <2>1. n * (p + 1) + r \in a + 1 .. a + n
    BY <1>1, <1>2, <1>4
  <2>2. (n * (p + 1) + r) % n = r
    BY ModUnique, p + 1 \in Nat
  <2>3. QED
    BY <2>1, <2>2
<1>5. QED
  BY <1>3, <1>4

\* Where a counter is: its word and its bit.
LEMMA Place ==
    ASSUME NEW c \in Nat
    PROVE  /\ Block(c) \in Nat /\ c % BlockBits \in 0..BlockBits - 1
           /\ Block(c) % RingBlocks \in 0..RingBlocks - 1
           /\ c = BlockBits * Block(c) + (c % BlockBits)
<1>1. /\ Block(c) \in Nat /\ c % BlockBits \in 0..BlockBits - 1
      /\ c = BlockBits * Block(c) + (c % BlockBits)
  BY DivMod, RingAssumption DEF Block
<1>2. QED
  BY <1>1, DivMod, RingAssumption

\* Two counters: the order of their words and bits is their order.
LEMMA Places ==
    ASSUME NEW c \in Nat, NEW d \in Nat
    PROVE  /\ Block(c) < Block(d) => c < d
           /\ d <= c => Block(d) <= Block(c)
           /\ Block(c) = Block(d) => (d <= c <=> d % BlockBits <= c % BlockBits)
           /\ Block(c) = Block(d) /\ d % BlockBits = c % BlockBits => c = d
           /\ d <= c /\ c - d <= windowSize => Block(c) - Block(d) < RingBlocks
<1>1. PICK p \in Nat, s \in 0..BlockBits - 1 :
        p = Block(c) /\ s = c % BlockBits /\ c = BlockBits * p + s
  BY Place
<1>2. PICK q \in Nat, t \in 0..BlockBits - 1 :
        q = Block(d) /\ t = d % BlockBits /\ d = BlockBits * q + t
  BY Place
<1>3. BlockBits * p \in Nat /\ BlockBits * q \in Nat /\ BlockBits \in Nat \ {0}
      /\ RingBlocks \in Nat \ {0}
  BY RingAssumption
<1>a. PICK x \in Nat, y \in Nat :
        /\ c = x + s /\ d = y + t /\ (p = q => x = y)
        /\ (p < q => x + BlockBits <= y)
  <2>1. p < q => BlockBits * p + BlockBits <= BlockBits * q
    BY <1>3, Multiples
  <2>2. QED
    BY <1>1, <1>2, <1>3, <2>1
<1>4. p < q => c < d
  BY <1>3, <1>a
<1>5. d <= c => q <= p
  BY <1>4
<1>6. p = q => (d <= c <=> t <= s)
  BY <1>3, <1>a
<1>7. p = q /\ s = t => c = d
  BY <1>1, <1>2
<1>8. ASSUME d <= c, c - d <= windowSize PROVE p - q < RingBlocks
  <2> SUFFICES ASSUME p - q >= RingBlocks PROVE FALSE
    BY <1>3
  <2>1. q + (RingBlocks - 1) \in Nat /\ q + (RingBlocks - 1) < p
    BY <1>3
  <2>2. BlockBits * (q + (RingBlocks - 1)) + BlockBits <= BlockBits * p
    BY <1>3, <2>1, Multiples
  <2>3. BlockBits * (q + (RingBlocks - 1)) = BlockBits * q + windowSize /\ windowSize \in Nat
    BY <1>3 DEF windowSize
  <2>4. QED
    BY <1>1, <1>2, <1>3, <1>8, <2>2, <2>3
<1>9. QED
  BY <1>1, <1>2, <1>4, <1>5, <1>6, <1>7, <1>8

\* Counters of one window have places of their own in the ring.
LEMMA OwnPlace ==
    ASSUME NEW top \in Nat, NEW c \in 0..top, NEW d \in 0..top,
           top - c <= windowSize, top - d <= windowSize,
           Block(c) % RingBlocks = Block(d) % RingBlocks
    PROVE  Block(c) = Block(d)
<1>1. /\ Block(top) \in Nat /\ Block(c) \in Nat /\ Block(d) \in Nat
      /\ Block(c) <= Block(top) /\ Block(top) - Block(c) < RingBlocks
      /\ Block(d) <= Block(top) /\ Block(top) - Block(d) < RingBlocks
  <2>1. c \in Nat /\ d \in Nat /\ c <= top /\ d <= top
    OBVIOUS
  <2>2. Block(c) <= Block(top) /\ Block(top) - Block(c) < RingBlocks
    BY <2>1, Places
  <2>3. Block(d) <= Block(top) /\ Block(top) - Block(d) < RingBlocks
    BY <2>1, Places
  <2>4. QED
    BY <2>1, <2>2, <2>3, Place
<1>2. RingBlocks \in Nat \ {0}
  BY RingAssumption
<1>3. ~ (Block(c) < Block(d)) /\ ~ (Block(d) < Block(c))
  BY <1>1, <1>2, DistinctResidues
<1>4. QED
  BY <1>1, <1>3

(* The words that are cleared on the way to c are those of the new part of its window:
   none of them is left out and none is of the old part. *)
LEMMA ClearedWords ==
    ASSUME NEW from \in Nat, last = from, NEW c \in Nat, c > from,
           NEW d \in 0..c, c - d <= windowSize
    PROVE  Block(d) % RingBlocks \in Cleared(c) <=> Block(d) > Block(from)
<1>0. d \in Nat /\ d <= c /\ from <= c /\ RingBlocks \in Nat \ {0}
  BY RingAssumption
<1>1. PICK l \in Nat, m \in Nat, n \in Nat :
        l = Block(from) /\ m = Block(c) /\ n = Block(d) /\ n % RingBlocks \in 0..RingBlocks - 1
  BY <1>0, Place
<1>2. l <= m
  BY <1>0, <1>1, Places
<1>3. n <= m /\ m - n < RingBlocks
  BY <1>0, <1>1, Places
<1>4. Cleared(c) = LET diff == IF m - l > RingBlocks THEN RingBlocks ELSE m - l
                   IN  {b % RingBlocks : b \in l + 1 .. l + diff}
  BY <1>1 DEF Cleared
<1>5. CASE m - l > RingBlocks
  <2>1. Cleared(c) = {b % RingBlocks : b \in l + 1 .. l + RingBlocks}
    BY <1>4, <1>5
  <2>2. \E b \in l + 1 .. l + RingBlocks : b % RingBlocks = n % RingBlocks
    BY <1>0, <1>1, AllResidues
  <2>3. n % RingBlocks \in Cleared(c)
    BY <2>1, <2>2
  <2>4. n > l
    BY <1>0, <1>3, <1>5
  <2>5. QED
    BY <1>1, <2>3, <2>4
<1>6. CASE ~ (m - l > RingBlocks)
  <2>1. l + (m - l) = m
    OBVIOUS
  <2>2. Cleared(c) = {b % RingBlocks : b \in l + 1 .. m}
    BY <1>4, <1>6, <2>1
  <2>3. ASSUME n > l PROVE n % RingBlocks \in Cleared(c)
    <3>1. n \in l + 1 .. m
      BY <1>3, <2>3
    <3>2. QED
      BY <2>2, <3>1
  <2>4. ASSUME NEW b \in l + 1 .. m, n <= l
        PROVE  n % RingBlocks # b % RingBlocks
    <3>1. b \in Nat /\ n < b /\ b - n < RingBlocks
      BY <1>0, <1>3, <2>4
    <3>2. QED
      BY <1>0, <3>1, DistinctResidues
  <2>5. n > l \/ n <= l
    OBVIOUS
  <2>6. ~ (n > l) \/ ~ (n <= l)
    OBVIOUS
  <2>7. n % RingBlocks \in Cleared(c) <=> n > l
    BY <2>2, <2>3, <2>4, <2>5, <2>6
  <2>8. QED
    BY <1>1, <2>7
<1>7. QED
  BY <1>5, <1>6

Words == [0..RingBlocks - 1 -> SUBSET (0..BlockBits - 1)]
Near(c, top) == c <= top /\ top - c <= windowSize

\* Setting the bit of a counter of the window adds this counter and no other.
LEMMA Marked ==
    ASSUME NEW top \in Nat, NEW moved \in Words, NEW known \in SUBSET (0..top),
           NEW c \in 0..top, Near(c, top),
           \A d \in 0..top : Near(d, top) =>
              (d % BlockBits \in moved[Block(d) % RingBlocks] <=> d \in known),
           last' = top,
           ring' = [moved EXCEPT ![Block(c) % RingBlocks] = @ \cup {c % BlockBits}]
    PROVE  /\ ring' \in Words
           /\ Remembered' = {d \in known \cup {c} : Near(d, top)}
<1>1. /\ c \in Nat /\ Block(c) % RingBlocks \in 0..RingBlocks - 1
      /\ c % BlockBits \in 0..BlockBits - 1
  BY Place
<1>2. /\ ring' \in Words
      /\ ring'[Block(c) % RingBlocks] = moved[Block(c) % RingBlocks] \cup {c % BlockBits}
      /\ \A n \in 0..RingBlocks - 1 : n # Block(c) % RingBlocks => ring'[n] = moved[n]
  BY <1>1 DEF Words
<1>3. ASSUME NEW d \in 0..top, Near(d, top)
      PROVE  d % BlockBits \in ring'[Block(d) % RingBlocks] <=> d \in known \cup {c}
  <2>1. d \in Nat /\ Block(d) % RingBlocks \in 0..RingBlocks - 1
    BY Place
  <2>2. CASE Block(d) % RingBlocks = Block(c) % RingBlocks
    <3>1. Block(d) = Block(c)
      BY <1>3, <2>2, OwnPlace DEF Near
    <3>2. d % BlockBits = c % BlockBits <=> d = c
      BY <1>1, <2>1, <3>1, Places
    <3>3. QED
      BY <1>2, <1>3, <2>2, <3>2
  <2>3. CASE Block(d) % RingBlocks # Block(c) % RingBlocks
    BY <1>2, <1>3, <2>1, <2>3
  <2>4. QED
    BY <2>2, <2>3
<1>4. Remembered' = {d \in 0..top : Near(d, top) /\ d % BlockBits \in ring'[Block(d) % RingBlocks]}
  BY DEF Remembered, Near, Block, windowSize
<1>5. QED
  BY <1>2, <1>3, <1>4

\* A counter ahead of the last one: what the ring holds after the words are cleared.
LEMMA MovedForward ==
    ASSUME ReplayTypeOK, NEW c \in Nat, c > last,
           NEW moved, moved = [b \in DOMAIN ring |-> IF b \in Cleared(c) THEN {} ELSE ring[b]]
    PROVE  /\ moved \in Words
           /\ \A d \in 0..c : Near(d, c) =>
                (d % BlockBits \in moved[Block(d) % RingBlocks] <=> d \in Remembered)
           /\ \A bit \in moved[Block(c) % RingBlocks] : bit <= c % BlockBits
<1>1. PICK from \in Nat : last = from
  BY DEF ReplayTypeOK, Counters
<1>2. moved \in Words /\ \A b \in 0..RingBlocks - 1 :
                            moved[b] = IF b \in Cleared(c) THEN {} ELSE ring[b]
  BY DEF ReplayTypeOK, Words
<1>3. /\ from % BlockBits \in Nat /\ c % BlockBits \in Nat /\ windowSize \in Nat
      /\ Block(from) \in Nat /\ Block(c) \in Nat
  <2>1. from % BlockBits \in 0..BlockBits - 1 /\ c % BlockBits \in 0..BlockBits - 1
        /\ Block(from) \in Nat /\ Block(c) \in Nat
    BY Place
  <2>2. windowSize \in Nat
    BY RingAssumption DEF windowSize
  <2>3. QED
    BY <2>1, <2>2
<1>4. ASSUME NEW d \in 0..c, Near(d, c)
      PROVE  d % BlockBits \in moved[Block(d) % RingBlocks] <=> d \in Remembered
  <2>1. /\ d \in Nat /\ Block(d) \in Nat /\ Block(d) % RingBlocks \in 0..RingBlocks - 1
        /\ d % BlockBits \in 0..BlockBits - 1
    BY Place
  <2>2. d \in Remembered <=> d <= from /\ d % BlockBits \in ring[Block(d) % RingBlocks]
    BY <1>1, <1>3, <1>4, <2>1 DEF Remembered, Near
  <2>3. Block(d) % RingBlocks \in Cleared(c) <=> Block(d) > Block(from)
    BY <1>1, <1>4, ClearedWords DEF Near
  <2>4. CASE Block(d) > Block(from)
    <3>1. ~ (d <= from)
      BY <2>1, <2>4, Places, <1>3
    <3>2. QED
      BY <1>2, <2>1, <2>2, <2>3, <2>4, <3>1
  <2>5. CASE Block(d) = Block(from)
    <3>1. moved[Block(d) % RingBlocks] = ring[Block(d) % RingBlocks]
      BY <1>2, <1>3, <2>1, <2>3, <2>5
    <3>2. d % BlockBits \in ring[Block(d) % RingBlocks] => d % BlockBits <= from % BlockBits
      BY <1>1, <2>5 DEF ReplayTypeOK
    <3>3. d <= from <=> d % BlockBits <= from % BlockBits
      BY <2>1, <2>5, Places
    <3>4. QED
      BY <2>2, <3>1, <3>2, <3>3
  <2>6. CASE Block(d) < Block(from)
    <3>1. d <= from
      <4>1. d < from
        BY <2>1, <2>6, Places
      <4>2. QED
        BY <2>1, <4>1
    <3>2. moved[Block(d) % RingBlocks] = ring[Block(d) % RingBlocks]
      BY <1>2, <1>3, <2>1, <2>3, <2>6
    <3>3. QED
      BY <2>2, <3>1, <3>2
  <2>7. QED
    BY <1>3, <2>1, <2>4, <2>5, <2>6
<1>5. ASSUME NEW bit \in moved[Block(c) % RingBlocks] PROVE bit <= c % BlockBits
  <2>1. Block(c) % RingBlocks \in 0..RingBlocks - 1 /\ c \in 0..c /\ c - c <= windowSize
    BY <1>3, Place
  <2>2. Block(c) % RingBlocks \in Cleared(c) <=> Block(c) > Block(from)
    BY <1>1, <2>1, ClearedWords
  <2>3. Block(c) % RingBlocks \notin Cleared(c) /\ bit \in ring[Block(c) % RingBlocks]
    BY <1>2, <1>5, <2>1
  <2>4. from <= c
    BY <1>1
  <2>5. Block(from) <= Block(c)
    BY <2>4, Places
  <2>6. Block(c) = Block(from)
    BY <1>3, <2>2, <2>3, <2>5
  <2>7. bit <= from % BlockBits /\ bit \in Nat
    BY <1>1, <2>1, <2>3, <2>6 DEF ReplayTypeOK
  <2>8. from % BlockBits <= c % BlockBits
    BY <2>4, <2>6, Places
  <2>9. QED
    BY <1>3, <2>7, <2>8
<1>6. QED
  BY <1>2, <1>4, <1>5

LEMMA ReplayInitial == ReplayInit => ReplayTypeOK /\ Window!WInit
<1> SUFFICES ASSUME ReplayInit PROVE ReplayTypeOK /\ Window!WInit
  OBVIOUS
<1>1. last = 0 /\ ring = [b \in 0..RingBlocks - 1 |-> {}] /\ accepted = FALSE
  BY DEF ReplayInit
<1>2. Block(0) % RingBlocks \in 0..RingBlocks - 1
  BY Place, 0 \in Nat
<1>3. ReplayTypeOK
  <2>1. last \in Counters /\ ring \in [0..RingBlocks - 1 -> SUBSET (0..BlockBits - 1)]
    BY <1>1, RingAssumption DEF Counters
  <2>2. ring[Block(last) % RingBlocks] = {}
    BY <1>1, <1>2
  <2>3. QED
    BY <1>1, <2>1, <2>2 DEF ReplayTypeOK
<1>4. Remembered = {}
  BY <1>1, Place DEF Remembered
<1>5. QED
  BY <1>1, <1>3, <1>4 DEF Window!WInit

\* A call that is accepted or finds the bit set, for both directions of the counter.
LEMMA Judged ==
    ASSUME NEW c \in Counters, c < CounterLimit, last \in Nat, NEW top \in Nat,
           top = (IF c > last THEN c ELSE last), Near(c, top), last' = top,
           accepted' = (c \notin Remembered),
           Remembered' = {d \in Remembered \cup {c} : Near(d, top)}
    PROVE  Window!Judge(c)
<1>1. c \in Nat /\ CounterLimit \in Nat
  BY RingAssumption DEF Counters
<1>2. \A d \in Remembered : d \in Nat /\ Near(d, last)
  BY DEF Remembered, Near
<1>3. c > last => c \notin Remembered
  BY <1>1, <1>2 DEF Near
<1>4. ~ (c > last) => Near(c, last)
  OBVIOUS
<1>5. accepted' = (c < CounterLimit /\ Window!Fresh(c))
  BY <1>3, <1>4 DEF Window!Fresh, Window!InWindow, Near
<1>6. last' = IF accepted' /\ c > last THEN c ELSE last
  BY <1>3
<1>7. Remembered' = IF accepted' THEN {d \in Remembered \cup {c} : Window!InWindow(d, last')}
                    ELSE Remembered
  <2>1. CASE accepted'
    BY <2>1 DEF Window!InWindow, Near
  <2>2. CASE ~ accepted'
    BY <1>2, <1>3, <2>2
  <2>3. QED
    BY <2>1, <2>2
<1>8. QED
  BY <1>5, <1>6, <1>7 DEF Window!Judge

LEMMA ValidateStep ==
    ASSUME ReplayTypeOK, NEW c \in Counters, ValidateCounter(c)
    PROVE  ReplayTypeOK' /\ Window!Judge(c)
<1>1. c \in Nat /\ CounterLimit \in Nat /\ last \in Nat /\ last <= CounterLimit
      /\ ring \in Words /\ windowSize \in Nat
  BY RingAssumption DEF Counters, ReplayTypeOK, Words, windowSize
<1>2. CASE c >= CounterLimit \/ (~ (c > last) /\ last - c > windowSize)
  <2>1. accepted' = FALSE /\ UNCHANGED <<last, ring>>
    BY <1>2 DEF ValidateCounter
  <2>2. ReplayTypeOK'
    BY <2>1 DEF ReplayTypeOK, Block
  <2>3. Remembered' = Remembered
    BY <2>1 DEF Remembered, Block, windowSize
  <2>4. ~ (c < CounterLimit /\ Window!Fresh(c))
    BY <1>1, <1>2 DEF Window!Fresh, Window!InWindow
  <2>5. QED
    BY <2>1, <2>2, <2>3, <2>4 DEF Window!Judge
<1>3. CASE c < CounterLimit /\ c > last
  <2> DEFINE moved == [b \in DOMAIN ring |-> IF b \in Cleared(c) THEN {} ELSE ring[b]]
  <2>1. /\ last' = c
        /\ ring' = [moved EXCEPT ![Block(c) % RingBlocks] = @ \cup {c % BlockBits}]
        /\ accepted' = (c % BlockBits \notin moved[Block(c) % RingBlocks])
    BY <1>1, <1>3 DEF ValidateCounter
  <2>2. /\ moved \in Words
        /\ \A d \in 0..c : Near(d, c) =>
              (d % BlockBits \in moved[Block(d) % RingBlocks] <=> d \in Remembered)
        /\ \A bit \in moved[Block(c) % RingBlocks] : bit <= c % BlockBits
    BY <1>1, <1>3, MovedForward
  <2>3. PICK m \in Words : m = moved
    BY <2>2
  <2> HIDE DEF moved
  <2>4. c \in 0..c /\ Near(c, c) /\ Remembered \in SUBSET (0..c)
    BY <1>1, <1>3 DEF Near, Remembered
  <2>5. ring' \in Words /\ Remembered' = {d \in Remembered \cup {c} : Near(d, c)}
    <3>1. PICK known \in SUBSET (0..c) : known = Remembered
      BY <2>4
    <3>2. ring' \in Words /\ Remembered' = {d \in known \cup {c} : Near(d, c)}
      <4>1. ring' = [m EXCEPT ![Block(c) % RingBlocks] = @ \cup {c % BlockBits}] /\ last' = c
        BY <2>1, <2>3
      <4>2. \A d \in 0..c : Near(d, c) =>
               (d % BlockBits \in m[Block(d) % RingBlocks] <=> d \in known)
        BY <2>2, <2>3, <3>1
      <4>3. QED
        BY <1>1, <2>4, <4>1, <4>2, Marked
    <3>3. QED
      BY <3>1, <3>2
  <2>6. ReplayTypeOK'
    <3>1. Block(c) % RingBlocks \in 0..RingBlocks - 1 /\ c % BlockBits \in 0..BlockBits - 1
      BY <1>1, Place
    <3>2. ring'[Block(c) % RingBlocks] = m[Block(c) % RingBlocks] \cup {c % BlockBits}
      BY <2>1, <2>3, <3>1 DEF Words
    <3>3. \A bit \in ring'[Block(c) % RingBlocks] : bit <= c % BlockBits
      BY <2>2, <2>3, <3>1, <3>2
    <3>4. \A bit \in ring'[Block(last') % RingBlocks] : bit <= last' % BlockBits
      BY <2>1, <3>3
    <3>5. accepted' \in BOOLEAN
      BY <2>1
    <3>6. QED
      BY <2>1, <2>5, <3>4, <3>5 DEF ReplayTypeOK, Block, Words, Counters
  <2>7. accepted' = (c \notin Remembered)
    BY <2>1, <2>2, <2>4
  <2>8. QED
    BY <1>1, <1>3, <2>1, <2>4, <2>5, <2>6, <2>7, Judged
<1>4. CASE c < CounterLimit /\ ~ (c > last) /\ ~ (last - c > windowSize)
  <2>1. /\ last' = last
        /\ ring' = [ring EXCEPT ![Block(c) % RingBlocks] = @ \cup {c % BlockBits}]
        /\ accepted' = (c % BlockBits \notin ring[Block(c) % RingBlocks])
    BY <1>1, <1>4 DEF ValidateCounter
  <2>2. PICK top \in Nat : top = last
    BY <1>1
  <2>3. c \in 0..top /\ Near(c, top) /\ top \in 0..top /\ Near(top, top)
    BY <1>1, <1>4, <2>2 DEF Near
  <2>4. \A d \in 0..top : Near(d, top) =>
           (d % BlockBits \in ring[Block(d) % RingBlocks] <=> d \in Remembered)
    BY <2>2 DEF Near, Remembered
  <2>5. ring' \in Words /\ Remembered' = {d \in Remembered \cup {c} : Near(d, top)}
    <3>1. PICK m \in Words, known \in SUBSET (0..top) : m = ring /\ known = Remembered
      BY <1>1, <2>2 DEF Remembered
    <3>2. ring' = [m EXCEPT ![Block(c) % RingBlocks] = @ \cup {c % BlockBits}] /\ last' = top
      BY <2>1, <2>2, <3>1
    <3>3. \A d \in 0..top : Near(d, top) =>
             (d % BlockBits \in m[Block(d) % RingBlocks] <=> d \in known)
      BY <2>4, <3>1
    <3>4. ring' \in Words /\ Remembered' = {d \in known \cup {c} : Near(d, top)}
      BY <2>3, <3>2, <3>3, Marked
    <3>5. QED
      BY <3>1, <3>4
  <2>6. ReplayTypeOK'
    <3>1. /\ Block(top) % RingBlocks \in 0..RingBlocks - 1 /\ top % BlockBits \in 0..BlockBits - 1
          /\ Block(c) % RingBlocks \in 0..RingBlocks - 1 /\ c % BlockBits \in 0..BlockBits - 1
      BY <1>1, Place
    <3>2. Block(c) % RingBlocks = Block(top) % RingBlocks => c % BlockBits <= top % BlockBits
      <4> SUFFICES ASSUME Block(c) % RingBlocks = Block(top) % RingBlocks
                   PROVE  c % BlockBits <= top % BlockBits
        OBVIOUS
      <4>1. Block(c) = Block(top)
        BY <2>3, OwnPlace DEF Near
      <4>2. c <= top
        BY <2>3 DEF Near
      <4>3. QED
        BY <1>1, <4>1, <4>2, Places
    <3>3. \A bit \in ring[Block(top) % RingBlocks] : bit <= top % BlockBits
      BY <2>2 DEF ReplayTypeOK
    <3>4. ring'[Block(top) % RingBlocks] \subseteq ring[Block(top) % RingBlocks] \cup
            (IF Block(c) % RingBlocks = Block(top) % RingBlocks THEN {c % BlockBits} ELSE {})
      BY <1>1, <2>1, <3>1 DEF Words
    <3>5. \A bit \in ring'[Block(top) % RingBlocks] : bit <= top % BlockBits
      BY <3>2, <3>3, <3>4
    <3>6. \A bit \in ring'[Block(last') % RingBlocks] : bit <= last' % BlockBits
      BY <2>1, <2>2, <3>5
    <3>7. accepted' \in BOOLEAN
      BY <2>1
    <3>8. QED
      BY <2>1, <2>5, <3>6, <3>7 DEF ReplayTypeOK, Block, Words
  <2>7. accepted' = (c \notin Remembered)
    BY <2>1, <2>3, <2>4
  <2>8. QED
    BY <1>1, <1>4, <2>1, <2>2, <2>3, <2>5, <2>6, <2>7, Judged
<1>5. QED
  BY <1>1, <1>2, <1>3, <1>4

LEMMA ResetStep ==
    ASSUME ReplayTypeOK, Reset
    PROVE  ReplayTypeOK' /\ Window!Forget
<1>1. last' = 0 /\ ring' = [ring EXCEPT ![0] = {}] /\ accepted' = accepted
  BY DEF Reset
<1>2. Block(0) = 0 /\ 0 % RingBlocks = 0 /\ 0 \in 0..RingBlocks - 1 /\ 0 % BlockBits = 0
  BY RingAssumption DEF Block
<1>3. ring' \in Words /\ ring'[0] = {}
  BY <1>1, <1>2 DEF ReplayTypeOK, Words
<1>4. ReplayTypeOK'
  <2>1. last' \in Counters
    BY <1>1, RingAssumption DEF Counters
  <2>2. ring'[Block(last') % RingBlocks] = {}
    BY <1>1, <1>2, <1>3
  <2>3. QED
    BY <1>1, <1>3, <2>1, <2>2 DEF ReplayTypeOK, Words, Block, Counters
<1>5. Remembered' = {}
  <2>1. Remembered' \subseteq {0}
    BY <1>1 DEF Remembered
  <2>2. 0 \notin Remembered'
    BY <1>2, <1>3 DEF Remembered, Block
  <2>3. QED
    BY <2>1, <2>2
<1>6. QED
  BY <1>1, <1>4, <1>5 DEF Window!Forget

LEMMA ReplayStep == ReplayTypeOK /\ [ReplayNext]_replayVars =>
                      ReplayTypeOK' /\ [Window!WNext]_(Window!wVars)
<1> SUFFICES ASSUME ReplayTypeOK, [ReplayNext]_replayVars
             PROVE  ReplayTypeOK' /\ [Window!WNext]_(Window!wVars)
  OBVIOUS
<1>1. ASSUME NEW c \in Counters, ValidateCounter(c)
      PROVE  ReplayTypeOK' /\ [Window!WNext]_(Window!wVars)
  BY <1>1, ValidateStep DEF Window!WNext
<1>2. CASE Reset
  BY <1>2, ResetStep DEF Window!WNext
<1>3. CASE UNCHANGED replayVars
  <2>1. UNCHANGED <<last, ring, accepted>>
    BY <1>3 DEF replayVars
  <2>2. ReplayTypeOK'
    BY <2>1 DEF ReplayTypeOK, Block
  <2>3. Remembered' = Remembered
    BY <2>1 DEF Remembered, Block, windowSize
  <2>4. QED
    BY <2>1, <2>2, <2>3 DEF Window!wVars
<1>4. QED
  BY <1>1, <1>2, <1>3 DEF ReplayNext

\* Types, and no bit beyond the last counter is set in its word.
THEOREM ReplayTypesHold == ReplaySpec => []ReplayTypeOK
  BY ReplayInitial, ReplayStep, PTL DEF ReplaySpec

(* The ring of Filter.ValidateCounter implements the window that a replay filter promises,
   for every number of words and bits of a word and every limit: no counter of the window
   is accepted twice, none is refused without cause, a jump of any length leaves no old
   bit behind, and Reset forgets everything although it clears one word only. *)
THEOREM RingImplementsWindow == ReplaySpec => FilterImplementsWindow
  BY ReplayInitial, ReplayStep, PTL DEF ReplaySpec, FilterImplementsWindow, Window!WSpec
-----------------------------------------------------------------------------
(* The configuration and the state of a device                             *)

PeerRec == [running : BOOLEAN, endpoint : BOOLEAN, clearSrc : BOOLEAN]

Setter == [at : {"idle", "device", "peer", "post"}, sel : Key \cup {NoPeer, Dummy},
           created : BOOLEAN, next : Key \cup {NoPeer}, sawUp : BOOLEAN]

Selected == setter.sel \in Key

-----------------------------------------------------------------------------
(* The inductive invariant, in parts.                                      *)

(* Types, and whose peers the routes are. *)
TypeInv ==
  /\ dstate \in {"down", "up", "closed"} /\ stateMu \in {"free", "change", "close"}
  /\ ipcMutex \in {"free", "set"} /\ ownKey \in Key \cup {NoKey}
  /\ DOMAIN keyMap \subseteq Key /\ keyMap \in [DOMAIN keyMap -> PeerRec]
  /\ allowed \in [DOMAIN allowed -> DOMAIN keyMap]
  /\ sock \in {"closed", "open", "read"} /\ fwmark \in BOOLEAN
  /\ setter \in Setter
  /\ changer \in {"idle", "bind", "peers", "unbind", "stop"}
  /\ closer \in {"idle", "locked", "done"}
  /\ unfinished \subseteq Key /\ late \subseteq Key

(* Who holds which lock, and the state that changeState and Close have set by then. *)
LockInv ==
  /\ (setter.at = "idle") <=> (ipcMutex = "free")
  /\ (changer # "idle") <=> (stateMu = "change")
  /\ (closer = "locked") <=> (stateMu = "close")
  /\ (closer = "done") <=> isClosed
  /\ changer \in {"bind", "peers"} => isUp
  /\ changer \in {"unbind", "stop"} => dstate = "down"

(* The peer that a set operation is about exists until the operation lets go of it. *)
SetterInv ==
  /\ setter.at \in {"idle", "device"} => setter.sel = NoPeer
  /\ setter.at = "peer" => setter.sel # NoPeer
  /\ Selected => setter.sel \in DOMAIN keyMap

(* The limit on the peers. *)
LimitInv == IsFiniteSet(DOMAIN keyMap) /\ Cardinality(DOMAIN keyMap) <= MaxPeers

ClearInv == \A k \in DOMAIN keyMap : keyMap[k].clearSrc => keyMap[k].endpoint

(* While the device is up and not changing, the only peer that may have to be started
   yet is the one of the set operation, and handlePostConfig has seen the device up. *)
UpInv ==
  isUp /\ changer = "idle" =>
    /\ \A k \in DOMAIN keyMap :
         keyMap[k].running \/ k \in unfinished \/ (setter.at \in {"peer", "post"} /\ k = setter.sel)
    /\ setter.at = "post" => setter.sawUp

(* downLocked closes the sockets before it stops the peers, and no set opens them. *)
DownInv ==
  /\ ~ isUp /\ changer \in {"stop", "idle"} => sock = "closed"
  /\ ~ isUp /\ changer = "idle" => \A k \in DOMAIN keyMap : keyMap[k].running => k \in late

ClosedInv == isClosed => DOMAIN keyMap = {}

ConfigInv ==
  /\ TypeInv /\ LockInv /\ SetterInv /\ LimitInv /\ ClearInv
  /\ NotItsOwnPeer /\ StartedConfigured
  /\ UpInv /\ DownInv /\ ClosedInv

-----------------------------------------------------------------------------
(* Lemmas about the operators on peers.                                    *)

\* Marking endpoints touches neither who is a peer nor who runs.
LEMMA MarkAllPeers ==
    ASSUME NEW D, NEW peers \in [D -> PeerRec],
           \A k \in D : peers[k].clearSrc => peers[k].endpoint
    PROVE  /\ MarkAll(peers) \in [D -> PeerRec]
           /\ \A k \in D : /\ MarkAll(peers)[k].running = peers[k].running
                           /\ MarkAll(peers)[k].clearSrc => MarkAll(peers)[k].endpoint
  BY DEF MarkAll, markEndpointSrcForClearing, PeerRec

\* Start starts the peers it is given and no other, unless the device is closed.
LEMMA StartPeers ==
    ASSUME NEW D, NEW peers \in [D -> PeerRec], NEW K,
           \A k \in D : peers[k].clearSrc => peers[k].endpoint
    PROVE  /\ Start(peers, K) \in [D -> PeerRec]
           /\ \A k \in D :
                /\ Start(peers, K)[k].running <=> (peers[k].running \/ (k \in K /\ ~ isClosed))
                /\ Start(peers, K)[k].clearSrc => Start(peers, K)[k].endpoint
  BY DEF Start, PeerRec

\* StopAll stops every peer.
LEMMA StopPeers ==
    ASSUME NEW D, NEW peers \in [D -> PeerRec],
           \A k \in D : peers[k].clearSrc => peers[k].endpoint
    PROVE  /\ StopAll(peers) \in [D -> PeerRec]
           /\ \A k \in D : /\ ~ StopAll(peers)[k].running
                           /\ StopAll(peers)[k].clearSrc => StopAll(peers)[k].endpoint
  BY DEF StopAll, PeerRec

\* Removing peers removes their routes with them, and leaves the other peers alone.
LEMMA RemovePeers ==
    ASSUME TypeInv, NEW K, removePeerLocked(K)
    PROVE  /\ DOMAIN keyMap' = DOMAIN keyMap \ K
           /\ keyMap' \in [DOMAIN keyMap' -> PeerRec]
           /\ \A k \in DOMAIN keyMap' : keyMap'[k] = keyMap[k]
           /\ allowed' \in [DOMAIN allowed' -> DOMAIN keyMap']
           /\ LimitInv => LimitInv'
<1>1. /\ DOMAIN keyMap' = DOMAIN keyMap \ K
      /\ keyMap' \in [DOMAIN keyMap' -> PeerRec]
      /\ \A k \in DOMAIN keyMap' : keyMap'[k] = keyMap[k]
  BY DEF removePeerLocked, Restrict, TypeInv
<1>2. allowed' \in [DOMAIN allowed' -> DOMAIN keyMap']
  BY <1>1 DEF removePeerLocked, RoutesWithout, Restrict, TypeInv
<1>3. ASSUME LimitInv PROVE LimitInv'
  <2>1. IsFiniteSet(DOMAIN keyMap') /\ Cardinality(DOMAIN keyMap') <= Cardinality(DOMAIN keyMap)
    BY <1>1, <1>3, FS_Subset DEF LimitInv
  <2>2. Cardinality(DOMAIN keyMap') \in Nat /\ Cardinality(DOMAIN keyMap) \in Nat
    BY <2>1, <1>3, FS_CardinalityType DEF LimitInv
  <2>3. QED
    BY <2>1, <2>2, <1>3, ConfigBounds DEF LimitInv
<1>4. QED
  BY <1>1, <1>2, <1>3

\* A new peer is stopped and has no endpoint.
LEMMA AddPeer ==
    ASSUME TypeInv, LimitInv, NEW k \in Key, k \notin DOMAIN keyMap, ~ NewPeerFails
    PROVE  /\ DOMAIN WithPeer(k) = DOMAIN keyMap \cup {k}
           /\ WithPeer(k)[k] = [running |-> FALSE, endpoint |-> FALSE, clearSrc |-> FALSE]
           /\ IsFiniteSet(DOMAIN keyMap \cup {k})
           /\ Cardinality(DOMAIN keyMap \cup {k}) <= MaxPeers
<1>1. /\ IsFiniteSet(DOMAIN keyMap \cup {k})
      /\ Cardinality(DOMAIN keyMap \cup {k}) = Cardinality(DOMAIN keyMap) + 1
  BY FS_AddElement DEF LimitInv
<1>2. Cardinality(DOMAIN keyMap) \in Nat
  BY FS_CardinalityType DEF LimitInv
<1>3. Cardinality(DOMAIN keyMap \cup {k}) <= MaxPeers
  BY <1>1, <1>2, ConfigBounds DEF NewPeerFails
<1>4. QED
  BY <1>1, <1>3 DEF WithPeer

\* What BindUpdate leaves: the same peers, running as before, and sockets that are open
\* only while the device is up.
LEMMA BindUpdatePeers ==
    ASSUME TypeInv, ClearInv, NEW ok \in BOOLEAN, BindUpdate(ok)
    PROVE  /\ DOMAIN keyMap' = DOMAIN keyMap /\ keyMap' \in [DOMAIN keyMap -> PeerRec]
           /\ \A k \in DOMAIN keyMap : keyMap'[k].running = keyMap[k].running
           /\ ClearInv'
           /\ sock' \in {"closed", "open", "read"} /\ (~ isUp => sock' = "closed")
<1>1. CASE UNCHANGED keyMap
  BY <1>1 DEF BindUpdate, TypeInv, ClearInv
<1>2. CASE keyMap' = MarkAll(keyMap) /\ sock' = "read" /\ isUp
  BY <1>2, MarkAllPeers DEF TypeInv, ClearInv
<1>3. QED
  BY <1>1, <1>2 DEF BindUpdate

-----------------------------------------------------------------------------
(* The invariant holds initially.                                          *)
LEMMA ConfigInitInv == ConfigInit => ConfigInv
<1> SUFFICES ASSUME ConfigInit PROVE ConfigInv
  OBVIOUS
<1> USE DEF ConfigInit
<1>1. DOMAIN keyMap = {} /\ DOMAIN allowed = {} /\ setter.at = "idle" /\ setter.sel = NoPeer
  BY DEF NoSet
<1>2. TypeInv
  <2>1. setter \in Setter
    BY DEF Setter, NoSet, NoPeer, Dummy
  <2>2. keyMap \in [DOMAIN keyMap -> PeerRec] /\ allowed \in [DOMAIN allowed -> DOMAIN keyMap]
    BY <1>1
  <2>3. QED
    BY <1>1, <2>1, <2>2 DEF TypeInv
<1>3. LockInv /\ SetterInv
  BY <1>1, ConfigBounds DEF LockInv, SetterInv, Selected, isUp, isClosed, NoPeer
<1>4. LimitInv
  BY <1>1, FS_EmptySet, ConfigBounds DEF LimitInv
<1>5. ClearInv /\ NotItsOwnPeer /\ StartedConfigured /\ UpInv /\ DownInv /\ ClosedInv
  BY <1>1 DEF ClearInv, NotItsOwnPeer, StartedConfigured, UpInv, DownInv, ClosedInv, isUp, isClosed
<1>6. QED
  BY <1>2, <1>3, <1>4, <1>5 DEF ConfigInv

-----------------------------------------------------------------------------
(* Every step preserves it.                                                *)

\* Steps that leave the peers, the routes and the device alone.
LEMMA SetOnlyInv ==
    ASSUME ConfigInv, IpcSet \/ InvalidLine \/ \E k \in Key \cup {NoPeer} : PostConfig(k)
    PROVE  ConfigInv'
<1> USE DEF SetUnchanged, isUp, isClosed
<1>1. CASE IpcSet
  <2>1. setter' \in Setter /\ setter'.at = "device" /\ setter'.sel = NoPeer
    BY <1>1 DEF IpcSet, NoSet, Setter, NoPeer, Dummy
  <2>2. TypeInv'
    BY <1>1, <2>1 DEF IpcSet, ConfigInv, TypeInv
  <2>3. LockInv' /\ SetterInv'
    BY <1>1, <2>1, ConfigBounds DEF IpcSet, ConfigInv, LockInv, SetterInv, Selected, NoPeer
  <2>4. LimitInv' /\ ClearInv' /\ NotItsOwnPeer' /\ DownInv' /\ ClosedInv'
    BY <1>1 DEF IpcSet, ConfigInv, LimitInv, ClearInv, NotItsOwnPeer, DownInv, ClosedInv
  <2>5. StartedConfigured' /\ UpInv'
    BY <1>1, <2>1 DEF IpcSet, ConfigInv, StartedConfigured, UpInv
  <2>6. QED
    BY <2>2, <2>3, <2>4, <2>5 DEF ConfigInv
<1>2. CASE InvalidLine
  <2>1. setter' \in Setter /\ setter'.at = "idle" /\ setter'.sel = NoPeer
    BY <1>2 DEF InvalidLine, Fails, NoSet, Setter, NoPeer, Dummy
  <2>2. TypeInv'
    BY <1>2, <2>1 DEF InvalidLine, Fails, ConfigInv, TypeInv
  <2>3. LockInv' /\ SetterInv'
    BY <1>2, <2>1, ConfigBounds DEF InvalidLine, Fails, ConfigInv, LockInv, SetterInv, Selected, NoPeer
  <2>4. LimitInv' /\ ClearInv' /\ NotItsOwnPeer' /\ DownInv' /\ ClosedInv'
    BY <1>2 DEF InvalidLine, Fails, ConfigInv, LimitInv, ClearInv, NotItsOwnPeer, DownInv, ClosedInv
  <2>5. StartedConfigured' /\ UpInv'
    BY <1>2, <2>1 DEF InvalidLine, Fails, ConfigInv, TypeInv, StartedConfigured, UpInv
  <2>6. QED
    BY <2>2, <2>3, <2>4, <2>5 DEF ConfigInv
<1>3. ASSUME NEW k \in Key \cup {NoPeer}, PostConfig(k) PROVE ConfigInv'
  <2>1. setter' \in Setter /\ setter'.at = "post" /\ setter'.sel = setter.sel /\ setter'.sawUp = isUp
    BY <1>3 DEF PostConfig, ConfigInv, TypeInv, Setter
  <2>2. TypeInv'
    BY <1>3, <2>1, ZenonT(40) DEF PostConfig, ConfigInv, TypeInv
  <2>3. LockInv' /\ SetterInv'
    BY <1>3, <2>1 DEF PostConfig, ConfigInv, TypeInv, LockInv, SetterInv, Selected
  <2>4. LimitInv' /\ ClearInv' /\ NotItsOwnPeer' /\ DownInv' /\ ClosedInv'
    BY <1>3 DEF PostConfig, ConfigInv, LimitInv, ClearInv, NotItsOwnPeer, DownInv, ClosedInv
  <2>5. StartedConfigured' /\ UpInv'
    BY <1>3, <2>1, ConfigBounds
    DEF PostConfig, ConfigInv, TypeInv, SetterInv, StartedConfigured, UpInv, NoPeer
  <2>6. QED
    BY <2>2, <2>3, <2>4, <2>5 DEF ConfigInv
<1>4. QED
  BY <1>1, <1>2, <1>3

\* The lines about the device: its key, its port, its mark, and the removal of all peers.
LEMMA DeviceLineInv ==
    ASSUME ConfigInv,
           \/ \E k \in Key \cup {NoKey} : PrivateKeyLine(k)
           \/ \E ok, mark \in BOOLEAN : ListenPortLine(ok) \/ FwmarkLine(mark, ok)
           \/ ReplacePeersLine
    PROVE  ConfigInv'
<1> USE DEF SetUnchanged, isUp, isClosed
<1>0. ASSUME setter.at = "device", SetUnchanged,
             UNCHANGED <<setter, ipcMutex>> \/ (setter' = NoSet /\ ipcMutex' = "free")
      PROVE  /\ setter' \in Setter /\ setter'.sel = NoPeer /\ setter'.at \in {"idle", "device"}
             /\ LockInv' /\ SetterInv' /\ StartedConfigured'
  <2>1. setter' \in Setter /\ setter'.sel = NoPeer /\ setter'.at \in {"idle", "device"}
    <3>1. CASE UNCHANGED setter
      BY <1>0, <3>1 DEF ConfigInv, TypeInv, SetterInv
    <3>2. CASE setter' = NoSet
      BY <3>2 DEF Setter, NoSet, NoPeer, Dummy
    <3>3. QED
      BY <1>0, <3>1, <3>2
  <2>2. LockInv'
    BY <1>0 DEF ConfigInv, LockInv, NoSet
  <2>3. SetterInv' /\ StartedConfigured'
    BY <2>1, ConfigBounds DEF SetterInv, StartedConfigured, Selected, NoPeer
  <2>4. QED
    BY <2>1, <2>2, <2>3
\* a step that keeps the peers, and what of them runs
<1>1. ASSUME setter.at = "device", SetUnchanged,
             Continues \/ Fails, UNCHANGED <<ownKey, allowed>>, fwmark' \in BOOLEAN,
             DOMAIN keyMap' = DOMAIN keyMap, keyMap' \in [DOMAIN keyMap -> PeerRec],
             \A k \in DOMAIN keyMap : keyMap'[k].running = keyMap[k].running,
             ClearInv', sock' \in {"closed", "open", "read"},
             (~ isUp => sock' = "closed") \/ UNCHANGED sock
      PROVE  ConfigInv'
  <2>1. /\ setter' \in Setter /\ setter'.sel = NoPeer /\ setter'.at \in {"idle", "device"}
        /\ LockInv' /\ SetterInv' /\ StartedConfigured'
    BY <1>0, <1>1 DEF Continues, Fails
  <2>2. unfinished' = unfinished /\ late' = late
    BY <1>1, ConfigBounds DEF Continues, Fails, ConfigInv, SetterInv, NoPeer
  <2>3. TypeInv'
    BY <1>1, <2>1, <2>2 DEF ConfigInv, TypeInv, Continues, Fails
  <2>4. LimitInv' /\ NotItsOwnPeer' /\ ClosedInv' /\ DownInv'
    BY <1>1, <2>2 DEF ConfigInv, LimitInv, NotItsOwnPeer, ClosedInv, DownInv
  <2>5. UpInv'
    BY <1>1, <2>1, <2>2 DEF ConfigInv, UpInv
  <2>6. QED
    BY <1>1, <2>1, <2>3, <2>4, <2>5 DEF ConfigInv
\* a step that removes peers
<1>2. ASSUME setter.at = "device", SetUnchanged, Continues, UNCHANGED <<sock, fwmark>>,
             ownKey' \in Key \cup {NoKey}, NEW K, removePeerLocked(K), ownKey' \notin DOMAIN keyMap'
      PROVE  ConfigInv'
  <2>1. /\ setter' \in Setter /\ setter'.sel = NoPeer /\ setter'.at \in {"idle", "device"}
        /\ LockInv' /\ SetterInv' /\ StartedConfigured'
    BY <1>0, <1>2 DEF Continues
  <2>2. /\ DOMAIN keyMap' = DOMAIN keyMap \ K
        /\ keyMap' \in [DOMAIN keyMap' -> PeerRec]
        /\ \A k \in DOMAIN keyMap' : keyMap'[k] = keyMap[k]
        /\ allowed' \in [DOMAIN allowed' -> DOMAIN keyMap']
        /\ LimitInv'
    BY <1>2, RemovePeers DEF ConfigInv
  <2>3. TypeInv'
    BY <1>2, <2>1, <2>2 DEF ConfigInv, TypeInv, Continues
  <2>4. ClearInv' /\ NotItsOwnPeer' /\ ClosedInv' /\ DownInv'
    BY <1>2, <2>2 DEF ConfigInv, ClearInv, NotItsOwnPeer, ClosedInv, DownInv, Continues
  <2>5. UpInv'
    BY <1>2, <2>2 DEF ConfigInv, UpInv, Continues
  <2>6. QED
    BY <2>1, <2>2, <2>3, <2>4, <2>5 DEF ConfigInv
<1>3. ASSUME NEW k \in Key \cup {NoKey}, PrivateKeyLine(k) PROVE ConfigInv'
  <2>1. CASE k \in DOMAIN keyMap
    <3>1. removePeerLocked({k})
      BY <1>3, <2>1 DEF PrivateKeyLine, SetPrivateKey, RemovePeer
    <3>2. ownKey' \notin DOMAIN keyMap'
      BY <1>3, <3>1, RemovePeers DEF ConfigInv, PrivateKeyLine, SetPrivateKey
    <3>3. QED
      BY <1>2, <1>3, <3>1, <3>2 DEF PrivateKeyLine, SetPrivateKey
  <2>2. CASE k \notin DOMAIN keyMap
    <3>1. ownKey' = k /\ UNCHANGED <<keyMap, allowed, setter, ipcMutex, unfinished, late, sock, fwmark>>
      BY <1>3, <2>2 DEF PrivateKeyLine, SetPrivateKey, Continues
    <3>2. /\ setter' \in Setter /\ setter'.sel = NoPeer /\ setter'.at \in {"idle", "device"}
          /\ LockInv' /\ SetterInv' /\ StartedConfigured'
      BY <1>0, <1>3 DEF PrivateKeyLine, Continues
    <3>3. TypeInv' /\ LimitInv'
      BY <1>3, <3>1, <3>2 DEF ConfigInv, TypeInv, LimitInv, PrivateKeyLine
    <3>4. ClearInv' /\ NotItsOwnPeer' /\ ClosedInv' /\ DownInv' /\ UpInv'
      BY <1>3, <2>2, <3>1
      DEF ConfigInv, ClearInv, NotItsOwnPeer, ClosedInv, DownInv, UpInv, PrivateKeyLine
    <3>5. QED
      BY <3>2, <3>3, <3>4 DEF ConfigInv
  <2>3. QED
    BY <2>1, <2>2
<1>4. ASSUME NEW ok \in BOOLEAN, ListenPortLine(ok) PROVE ConfigInv'
  <2>1. /\ DOMAIN keyMap' = DOMAIN keyMap /\ keyMap' \in [DOMAIN keyMap -> PeerRec]
        /\ \A k \in DOMAIN keyMap : keyMap'[k].running = keyMap[k].running
        /\ ClearInv'
        /\ sock' \in {"closed", "open", "read"} /\ (~ isUp => sock' = "closed")
    BY <1>4, BindUpdatePeers DEF ListenPortLine, ConfigInv
  <2>2. fwmark' \in BOOLEAN
    BY <1>4 DEF ListenPortLine, ConfigInv, TypeInv
  <2>3. QED
    BY <1>1, <1>4, <2>1, <2>2 DEF ListenPortLine
<1>5. ASSUME NEW ok \in BOOLEAN, NEW mark \in BOOLEAN, FwmarkLine(mark, ok) PROVE ConfigInv'
  <2>1. /\ DOMAIN keyMap' = DOMAIN keyMap /\ keyMap' \in [DOMAIN keyMap -> PeerRec]
        /\ \A k \in DOMAIN keyMap : keyMap'[k].running = keyMap[k].running
        /\ ClearInv'
    <3>1. CASE UNCHANGED keyMap
      BY <3>1 DEF ConfigInv, TypeInv, ClearInv
    <3>2. CASE keyMap' = MarkAll(keyMap)
      BY <3>2, MarkAllPeers DEF ConfigInv, TypeInv, ClearInv
    <3>3. QED
      BY <1>5, <3>1, <3>2 DEF FwmarkLine, BindSetMark
  <2>2. fwmark' \in BOOLEAN /\ UNCHANGED sock /\ sock' \in {"closed", "open", "read"}
    BY <1>5 DEF FwmarkLine, BindSetMark, ConfigInv, TypeInv
  <2>3. QED
    BY <1>1, <1>5, <2>1, <2>2 DEF FwmarkLine
<1>6. CASE ReplacePeersLine
  <2>1. removePeerLocked(DOMAIN keyMap)
    BY <1>6 DEF ReplacePeersLine, RemoveAllPeers
  <2>2. ownKey' \in Key \cup {NoKey} /\ ownKey' \notin DOMAIN keyMap'
    BY <1>6, <2>1, RemovePeers DEF ReplacePeersLine, ConfigInv, TypeInv
  <2>3. QED
    BY <1>2, <1>6, <2>1, <2>2 DEF ReplacePeersLine
<1>7. QED
  BY <1>3, <1>4, <1>5, <1>6

\* The lines about a peer.
LEMMA PeerLineInv ==
    ASSUME ConfigInv,
           \/ EndpointLine \/ ReplaceAllowedLine
           \/ \E b \in BOOLEAN : RemoveLine(b) \/ \E p \in Cidr : AllowedLine(p, b)
    PROVE  ConfigInv'
<1> USE DEF SetUnchanged, isUp, isClosed
<1>0. setter.at = "peer" /\ setter.sel \in Key \cup {Dummy}
  BY DEF ConfigInv, TypeInv, SetterInv, Setter, EndpointLine, ReplaceAllowedLine, RemoveLine,
         AllowedLine
<1>d. Dummy \notin Key /\ NoPeer \notin Key /\ Dummy # NoPeer
  BY ConfigBounds DEF Dummy, NoPeer
<1>1. CASE EndpointLine
  <2>1. /\ DOMAIN keyMap' = DOMAIN keyMap /\ keyMap' \in [DOMAIN keyMap -> PeerRec]
        /\ \A k \in DOMAIN keyMap : keyMap'[k].running = keyMap[k].running
        /\ ClearInv'
    <3>1. CASE UNCHANGED keyMap
      BY <3>1 DEF ConfigInv, TypeInv, ClearInv
    <3>2. CASE setter.sel \in Key
      <4>1. keyMap' = [keyMap EXCEPT ![setter.sel] = [@ EXCEPT !.endpoint = TRUE]]
        BY <1>1, <3>2 DEF EndpointLine
      <4>2. QED
        BY <4>1, <3>2 DEF ConfigInv, TypeInv, ClearInv, PeerRec
    <3>3. QED
      BY <1>1, <3>1, <3>2 DEF EndpointLine
  <2>2. TypeInv'
    BY <1>1, <2>1 DEF ConfigInv, TypeInv, EndpointLine, Continues
  <2>3. LockInv' /\ SetterInv' /\ LimitInv'
    BY <1>1, <2>1 DEF ConfigInv, LockInv, SetterInv, Selected, LimitInv, EndpointLine, Continues
  <2>4. NotItsOwnPeer' /\ ClosedInv' /\ DownInv' /\ UpInv'
    BY <1>1, <2>1
    DEF ConfigInv, NotItsOwnPeer, ClosedInv, DownInv, UpInv, EndpointLine, Continues
  <2>5. StartedConfigured'
    BY <1>1, <2>1 DEF ConfigInv, SetterInv, Selected, StartedConfigured, EndpointLine, Continues
  <2>6. QED
    BY <2>1, <2>2, <2>3, <2>4, <2>5 DEF ConfigInv
\* a step that changes nothing but the routes
<1>2. ASSUME Continues, SetUnchanged, UNCHANGED <<ownKey, keyMap, sock, fwmark>>,
             allowed' \in [DOMAIN allowed' -> DOMAIN keyMap]
      PROVE  ConfigInv'
  <2>1. TypeInv'
    BY <1>2 DEF ConfigInv, TypeInv, Continues
  <2>2. LockInv' /\ SetterInv' /\ LimitInv'
    BY <1>2 DEF ConfigInv, LockInv, SetterInv, Selected, LimitInv, Continues
  <2>3. /\ NotItsOwnPeer' /\ ClosedInv' /\ DownInv' /\ UpInv'
        /\ ClearInv' /\ StartedConfigured'
    BY <1>2 DEF ConfigInv, NotItsOwnPeer, ClosedInv, DownInv, UpInv, ClearInv, StartedConfigured,
                Continues
  <2>4. QED
    BY <2>1, <2>2, <2>3 DEF ConfigInv
<1>3. CASE ReplaceAllowedLine
  <2>1. allowed' \in [DOMAIN allowed' -> DOMAIN keyMap]
    BY <1>3 DEF ReplaceAllowedLine, RoutesWithout, Restrict, ConfigInv, TypeInv
  <2>2. QED
    BY <1>2, <1>3, <2>1 DEF ReplaceAllowedLine
<1>4. ASSUME NEW p \in Cidr, NEW add \in BOOLEAN, AllowedLine(p, add) PROVE ConfigInv'
  <2>1. CASE setter.sel = Dummy
    <3>1. allowed' = allowed
      BY <1>4, <2>1 DEF AllowedLine
    <3>2. QED
      BY <1>2, <1>4, <3>1 DEF AllowedLine, ConfigInv, TypeInv
  <2>2. CASE setter.sel # Dummy /\ add
    <3>1. allowed' = [q \in DOMAIN allowed \cup {p} |-> IF q = p THEN setter.sel ELSE allowed[q]]
      BY <1>4, <2>2 DEF AllowedLine
    <3>2. setter.sel \in DOMAIN keyMap
      BY <1>0, <2>2 DEF ConfigInv, SetterInv, Selected
    <3>3. allowed' \in [DOMAIN allowed' -> DOMAIN keyMap]
      BY <3>1, <3>2 DEF ConfigInv, TypeInv
    <3>4. QED
      BY <1>2, <1>4, <3>3 DEF AllowedLine
  <2>3. CASE setter.sel # Dummy /\ ~ add
    <3>1. allowed' = Restrict(allowed, {q \in DOMAIN allowed : q # p \/ allowed[q] # setter.sel})
      BY <1>4, <2>3 DEF AllowedLine
    <3>2. allowed' \in [DOMAIN allowed' -> DOMAIN keyMap]
      BY <3>1 DEF ConfigInv, TypeInv, Restrict
    <3>3. QED
      BY <1>2, <1>4, <3>2 DEF AllowedLine
  <2>4. QED
    BY <2>1, <2>2, <2>3
<1>5. ASSUME NEW b \in BOOLEAN, RemoveLine(b) PROVE ConfigInv'
  <2>0. UNCHANGED <<dstate, stateMu, changer, closer, ipcMutex, ownKey, sock, fwmark, unfinished, late>>
    BY <1>5 DEF RemoveLine
  <2>1. CASE Selected /\ (setter.created \/ ~ b)
    <3>1. removePeerLocked({setter.sel}) /\ setter' = [setter EXCEPT !.sel = Dummy]
      BY <1>5, <2>1 DEF RemoveLine, RemovePeer, Selected
    <3>2. setter' \in Setter /\ setter'.sel = Dummy /\ setter'.at = "peer"
      BY <1>0, <3>1 DEF ConfigInv, TypeInv, Setter
    <3>3. /\ DOMAIN keyMap' = DOMAIN keyMap \ {setter.sel}
          /\ keyMap' \in [DOMAIN keyMap' -> PeerRec]
          /\ \A k \in DOMAIN keyMap' : keyMap'[k] = keyMap[k]
          /\ allowed' \in [DOMAIN allowed' -> DOMAIN keyMap']
          /\ LimitInv'
      BY <3>1, RemovePeers DEF ConfigInv
    <3>4. TypeInv'
      BY <2>0, <3>2, <3>3 DEF ConfigInv, TypeInv
    <3>5. LockInv' /\ SetterInv' /\ StartedConfigured'
      BY <1>0, <1>d, <2>0, <3>2 DEF ConfigInv, LockInv, SetterInv, Selected, StartedConfigured
    <3>6. NotItsOwnPeer' /\ ClearInv' /\ DownInv' /\ UpInv' /\ ClosedInv'
      BY <1>0, <2>0, <3>2, <3>3
      DEF ConfigInv, NotItsOwnPeer, ClearInv, DownInv, UpInv, ClosedInv
    <3>7. QED
      BY <3>3, <3>4, <3>5, <3>6 DEF ConfigInv
  <2>2. CASE ~ (Selected /\ (setter.created \/ ~ b))
    <3>1. UNCHANGED <<keyMap, allowed>>
      BY <1>5, <2>2 DEF RemoveLine, Selected
    <3>2. setter' = setter \/ (setter.sel = Dummy /\ setter' = [setter EXCEPT !.sel = Dummy])
      BY <1>0, <1>5, <2>2 DEF RemoveLine, Selected
    <3>3. setter' = setter
      BY <3>2 DEF ConfigInv, TypeInv, Setter
    <3>4. TypeInv' /\ LockInv' /\ SetterInv' /\ LimitInv'
      BY <2>0, <3>1, <3>3 DEF ConfigInv, TypeInv, LockInv, SetterInv, Selected, LimitInv
    <3>5. /\ NotItsOwnPeer' /\ ClosedInv' /\ DownInv' /\ UpInv'
          /\ ClearInv' /\ StartedConfigured'
      BY <2>0, <3>1, <3>3
      DEF ConfigInv, NotItsOwnPeer, ClosedInv, DownInv, UpInv, ClearInv, StartedConfigured
    <3>6. QED
      BY <3>4, <3>5 DEF ConfigInv
  <2>3. QED
    BY <2>1, <2>2
<1>6. QED
  BY <1>1, <1>3, <1>4, <1>5

\* The end of handlePostConfig, with the peer of the next public_key line.
LEMMA PublicKeyInv ==
    ASSUME ConfigInv, handlePublicKeyLine
    PROVE  ConfigInv'
<1> USE DEF SetUnchanged, isUp, isClosed
<1> DEFINE k == setter.next
           started == Start(keyMap, Starts)
           ends == k = NoPeer \/ (k # ownKey /\ k \notin DOMAIN keyMap /\ NewPeerFails)
           known == k \in {ownKey} \cup DOMAIN keyMap
<1>0. setter.at = "post" /\ k \in Key \cup {NoPeer} /\ setter.sel \in Key \cup {NoPeer, Dummy}
  BY DEF handlePublicKeyLine, ConfigInv, TypeInv, Setter
<1>d. Dummy \notin Key /\ NoPeer \notin Key /\ Dummy # NoPeer
  BY ConfigBounds DEF Dummy, NoPeer
<1>1. UNCHANGED <<dstate, stateMu, changer, closer, ownKey, allowed, sock, fwmark>>
  BY DEF handlePublicKeyLine
<1>2. /\ unfinished' = unfinished \ {setter.sel}
      /\ late' = IF isUp THEN late ELSE late \cup Starts
  BY DEF handlePublicKeyLine
<1>3. Starts \subseteq DOMAIN keyMap /\ Starts \subseteq {setter.sel}
  BY DEF Starts
<1>4. /\ started \in [DOMAIN keyMap -> PeerRec]
      /\ \A q \in DOMAIN keyMap :
           /\ started[q].running <=> (keyMap[q].running \/ (q \in Starts /\ ~ isClosed))
           /\ started[q].clearSrc => started[q].endpoint
  BY StartPeers DEF ConfigInv, TypeInv, ClearInv
<1>5. unfinished' \subseteq Key /\ late' \subseteq Key
  BY <1>2, <1>3 DEF ConfigInv, TypeInv
\* the peer of the set so far runs when the device is up and not changing
<1>6. ASSUME isUp, changer = "idle", NEW q \in DOMAIN keyMap
      PROVE  started[q].running \/ q \in unfinished'
  <2>1. q = setter.sel => q \in Starts
    BY <1>6, <1>0 DEF ConfigInv, UpInv, Starts
  <2>2. QED
    BY <1>0, <1>2, <1>4, <1>6, <2>1 DEF ConfigInv, UpInv
\* a peer that starts while the device is not up is a late one
<1>7. ASSUME ~ isUp, changer = "idle", NEW q \in DOMAIN keyMap, started[q].running
      PROVE  q \in late'
  BY <1>2, <1>4, <1>7 DEF ConfigInv, DownInv
<1>8. CASE ends
  <2>1. keyMap' = started /\ setter' = NoSet /\ ipcMutex' = "free"
    BY <1>8 DEF handlePublicKeyLine
  <2>2. setter' \in Setter /\ setter'.at = "idle" /\ setter'.sel = NoPeer
    BY <2>1 DEF Setter, NoSet, NoPeer, Dummy
  <2> HIDE DEF started
  <2>3. TypeInv'
    BY <1>1, <1>4, <1>5, <2>1, <2>2 DEF ConfigInv, TypeInv
  <2>4. LockInv' /\ SetterInv' /\ StartedConfigured'
    BY <1>0, <1>1, <1>d, <2>1, <2>2 DEF ConfigInv, LockInv, SetterInv, Selected, StartedConfigured
  <2>5. LimitInv' /\ ClearInv' /\ NotItsOwnPeer' /\ ClosedInv'
    BY <1>1, <1>4, <2>1 DEF ConfigInv, TypeInv, LimitInv, ClearInv, NotItsOwnPeer, ClosedInv
  <2>6. UpInv'
    BY <1>1, <1>4, <1>6, <2>1, <2>2 DEF UpInv
  <2>7. DownInv'
    BY <1>1, <1>4, <1>7, <2>1 DEF ConfigInv, DownInv
  <2>8. QED
    BY <2>3, <2>4, <2>5, <2>6, <2>7 DEF ConfigInv
<1>9. CASE ~ ends
  <2>1. /\ setter' = [NoSet EXCEPT !.at = "peer", !.sel = IF k = ownKey THEN Dummy ELSE k,
                                   !.created = k # ownKey /\ k \notin DOMAIN keyMap]
        /\ ipcMutex' = ipcMutex
        /\ keyMap' = IF known THEN started
                     ELSE [q \in DOMAIN WithPeer(k) |-> IF q = k THEN WithPeer(k)[k] ELSE started[q]]
    BY <1>9 DEF handlePublicKeyLine
  <2>2. /\ setter' \in Setter /\ setter'.at = "peer"
        /\ setter'.sel = IF k = ownKey THEN Dummy ELSE k
        /\ setter'.created = (k # ownKey /\ k \notin DOMAIN keyMap)
    BY <2>1, <1>0 DEF Setter, NoSet
  <2>3. k \in Key
    BY <1>0, <1>9
  <2>4. LockInv'
    BY <1>0, <1>1, <2>1, <2>2 DEF ConfigInv, LockInv
  <2>5. CASE known
    <3>1. keyMap' = started
      BY <2>1, <2>5
    <3> HIDE DEF started
    <3>2. TypeInv'
      BY <1>1, <1>4, <1>5, <2>1, <2>2, <3>1 DEF ConfigInv, TypeInv
    <3>3. SetterInv' /\ StartedConfigured'
      BY <1>4, <1>d, <2>2, <2>3, <2>5, <3>1 DEF SetterInv, Selected, StartedConfigured
    <3>4. LimitInv' /\ ClearInv' /\ NotItsOwnPeer' /\ ClosedInv'
      BY <1>1, <1>4, <3>1 DEF ConfigInv, TypeInv, LimitInv, ClearInv, NotItsOwnPeer, ClosedInv
    <3>5. UpInv'
      BY <1>1, <1>4, <1>6, <3>1, <2>2 DEF UpInv
    <3>6. DownInv'
      BY <1>1, <1>4, <1>7, <3>1 DEF ConfigInv, DownInv
    <3>7. QED
      BY <2>4, <3>2, <3>3, <3>4, <3>5, <3>6 DEF ConfigInv
  <2>6. CASE ~ known
    <3>1. k # ownKey /\ k \notin DOMAIN keyMap /\ ~ NewPeerFails
      BY <1>9, <2>6
    <3>2. /\ DOMAIN WithPeer(k) = DOMAIN keyMap \cup {k}
          /\ WithPeer(k)[k] = [running |-> FALSE, endpoint |-> FALSE, clearSrc |-> FALSE]
          /\ IsFiniteSet(DOMAIN keyMap \cup {k})
          /\ Cardinality(DOMAIN keyMap \cup {k}) <= MaxPeers
      BY <2>3, <3>1, AddPeer DEF ConfigInv
    <3>3. keyMap' = [q \in DOMAIN keyMap \cup {k} |->
                       IF q = k THEN [running |-> FALSE, endpoint |-> FALSE, clearSrc |-> FALSE]
                       ELSE started[q]]
      BY <2>1, <2>6, <3>2
    <3> HIDE DEF started, k
    <3>4. /\ DOMAIN keyMap' = DOMAIN keyMap \cup {k} /\ keyMap' \in [DOMAIN keyMap' -> PeerRec]
          /\ \A q \in DOMAIN keyMap : keyMap'[q] = started[q]
          /\ ~ keyMap'[k].running /\ ~ keyMap'[k].clearSrc
      BY <1>4, <3>1, <3>3 DEF PeerRec
    <3>5. allowed' \in [DOMAIN allowed' -> DOMAIN keyMap']
      BY <1>1, <3>4 DEF ConfigInv, TypeInv
    <3>6. TypeInv'
      BY <1>1, <1>5, <2>1, <2>2, <2>3, <3>4, <3>5 DEF ConfigInv, TypeInv
    <3>7. SetterInv' /\ StartedConfigured'
      BY <1>d, <2>2, <2>3, <3>1, <3>4 DEF SetterInv, Selected, StartedConfigured
    <3>8. LimitInv'
      BY <3>2, <3>4 DEF LimitInv
    <3>9. ClearInv' /\ NotItsOwnPeer'
      BY <1>1, <1>4, <3>1, <3>4 DEF ConfigInv, ClearInv, NotItsOwnPeer
    <3>10. ClosedInv'
      BY <1>1, <3>1 DEF ClosedInv, NewPeerFails
    <3>11. UpInv'
      BY <1>1, <1>6, <2>2, <3>1, <3>4 DEF UpInv
    <3>12. DownInv'
      BY <1>1, <1>7, <3>4 DEF ConfigInv, DownInv
    <3>13. QED
      BY <2>4, <3>6, <3>7, <3>8, <3>9, <3>10, <3>11, <3>12 DEF ConfigInv
  <2>7. QED
    BY <2>5, <2>6
<1>10. QED
  BY <1>8, <1>9

\* changeState: Up and Down, with upLocked and downLocked.
LEMMA ChangeStateInv ==
    ASSUME ConfigInv,
           \/ Up \/ (\E ok \in BOOLEAN : UpBinds(ok)) \/ UpStartsPeers
           \/ Down \/ DownUnbinds \/ DownStopsPeers
    PROVE  ConfigInv'
<1> USE DEF ChangeUnchanged, isUp, isClosed
\* a step that keeps the peers, and what of them runs, and is not the last of changeState
<1>0. ASSUME ChangeUnchanged, UNCHANGED <<unfinished, late>>,
             DOMAIN keyMap' = DOMAIN keyMap, keyMap' \in [DOMAIN keyMap -> PeerRec],
             \A k \in DOMAIN keyMap : keyMap'[k].running = keyMap[k].running,
             ClearInv', sock' \in {"closed", "open", "read"},
             dstate' \in {"down", "up"}, ~ isClosed,
             changer' \in {"bind", "peers", "unbind", "stop"}, stateMu' = "change",
             closer # "locked", changer' \in {"bind", "peers"} <=> isUp',
             changer' = "stop" => sock' = "closed"
      PROVE  ConfigInv'
  <2>1. TypeInv'
    BY <1>0 DEF ConfigInv, TypeInv
  <2>2. LockInv' /\ SetterInv' /\ LimitInv'
    BY <1>0 DEF ConfigInv, LockInv, SetterInv, Selected, LimitInv
  <2>3. NotItsOwnPeer' /\ UpInv' /\ DownInv' /\ ClosedInv'
    BY <1>0 DEF ConfigInv, NotItsOwnPeer, UpInv, DownInv, ClosedInv
  <2>4. StartedConfigured'
    BY <1>0 DEF ConfigInv, SetterInv, Selected, StartedConfigured
  <2>5. QED
    BY <1>0, <2>1, <2>2, <2>3, <2>4 DEF ConfigInv
<1>1. CASE Up
  BY <1>0, <1>1 DEF Up, ConfigInv, TypeInv, LockInv, ClearInv
<1>2. ASSUME NEW ok \in BOOLEAN, UpBinds(ok) PROVE ConfigInv'
  <2>1. /\ DOMAIN keyMap' = DOMAIN keyMap /\ keyMap' \in [DOMAIN keyMap -> PeerRec]
        /\ \A k \in DOMAIN keyMap : keyMap'[k].running = keyMap[k].running
        /\ ClearInv' /\ sock' \in {"closed", "open", "read"}
    BY <1>2, BindUpdatePeers DEF UpBinds, ConfigInv
  <2>2. /\ ~ isClosed /\ closer # "locked" /\ stateMu' = "change"
        /\ changer' \in {"peers", "unbind"} /\ dstate' \in {"down", "up"}
        /\ changer' \in {"bind", "peers"} <=> isUp'
    BY <1>2 DEF UpBinds, ConfigInv, LockInv
  <2>3. QED
    BY <1>0, <1>2, <2>1, <2>2 DEF UpBinds
<1>3. CASE UpStartsPeers
  <2>1. /\ isUp /\ changer' = "idle" /\ stateMu' = "free" /\ unfinished' = {}
        /\ setter.at = "idle" /\ closer = closer' /\ stateMu = "change"
        /\ UNCHANGED <<dstate, sock, late, ipcMutex, ownKey, allowed, fwmark, setter>>
    BY <1>3 DEF UpStartsPeers, UpMayStart, ConfigInv, LockInv
  <2>2. /\ DOMAIN keyMap' = DOMAIN keyMap /\ keyMap' \in [DOMAIN keyMap -> PeerRec] /\ ClearInv'
        /\ \A k \in DOMAIN keyMap : keyMap'[k].running
    BY <1>3, <2>1, StartPeers DEF UpStartsPeers, ConfigInv, TypeInv, ClearInv
  <2>3. TypeInv'
    BY <2>1, <2>2 DEF ConfigInv, TypeInv
  <2>4. LockInv' /\ SetterInv' /\ LimitInv'
    BY <2>1, <2>2 DEF ConfigInv, LockInv, SetterInv, Selected, LimitInv
  <2>5. NotItsOwnPeer' /\ StartedConfigured' /\ UpInv' /\ DownInv' /\ ClosedInv'
    BY <2>1, <2>2 DEF ConfigInv, NotItsOwnPeer, StartedConfigured, UpInv, DownInv, ClosedInv
  <2>6. QED
    BY <2>2, <2>3, <2>4, <2>5 DEF ConfigInv
<1>4. CASE Down
  BY <1>0, <1>4 DEF Down, ConfigInv, TypeInv, LockInv, ClearInv
<1>5. CASE DownUnbinds
  <2>1. dstate = "down" /\ stateMu = "change" /\ sock' = "closed" /\ changer' = "stop"
    BY <1>5 DEF DownUnbinds, BindClose, ConfigInv, LockInv
  <2>2. QED
    BY <1>0, <1>5, <2>1 DEF DownUnbinds, ConfigInv, TypeInv, LockInv, ClearInv
<1>6. CASE DownStopsPeers
  <2>1. /\ dstate = "down" /\ changer = "stop" /\ changer' = "idle" /\ stateMu' = "free"
        /\ late' = {} /\ closer = closer' /\ stateMu = "change"
        /\ UNCHANGED <<dstate, sock, unfinished, ipcMutex, ownKey, allowed, fwmark, setter>>
    BY <1>6 DEF DownStopsPeers, ConfigInv, LockInv
  <2>2. /\ DOMAIN keyMap' = DOMAIN keyMap /\ keyMap' \in [DOMAIN keyMap -> PeerRec] /\ ClearInv'
        /\ \A k \in DOMAIN keyMap : ~ keyMap'[k].running
    BY <1>6, StopPeers DEF DownStopsPeers, ConfigInv, TypeInv, ClearInv
  <2>3. TypeInv'
    BY <2>1, <2>2 DEF ConfigInv, TypeInv
  <2>4. LockInv' /\ SetterInv' /\ LimitInv'
    BY <2>1, <2>2 DEF ConfigInv, LockInv, SetterInv, Selected, LimitInv
  <2>5. NotItsOwnPeer' /\ UpInv' /\ DownInv' /\ ClosedInv'
    BY <2>1, <2>2 DEF ConfigInv, NotItsOwnPeer, UpInv, DownInv, ClosedInv
  <2>6. StartedConfigured'
    BY <2>1, <2>2 DEF ConfigInv, SetterInv, Selected, StartedConfigured
  <2>7. QED
    BY <2>2, <2>3, <2>4, <2>5, <2>6 DEF ConfigInv
<1>7. QED
  BY <1>1, <1>2, <1>3, <1>4, <1>5, <1>6

\* Close, with its two locks.
LEMMA CloseInv ==
    ASSUME ConfigInv, CloseLocks \/ Close
    PROVE  ConfigInv'
<1> USE DEF isUp, isClosed
<1>1. CASE CloseLocks
  <2>1. TypeInv' /\ LockInv' /\ SetterInv' /\ LimitInv'
    BY <1>1 DEF CloseLocks, ConfigInv, TypeInv, LockInv, SetterInv, Selected, LimitInv
  <2>2. /\ NotItsOwnPeer' /\ ClosedInv' /\ DownInv' /\ UpInv'
        /\ ClearInv' /\ StartedConfigured'
    BY <1>1 DEF CloseLocks, ConfigInv, NotItsOwnPeer, ClosedInv, DownInv, UpInv, ClearInv,
                StartedConfigured
  <2>3. QED
    BY <2>1, <2>2 DEF ConfigInv
<1>2. CASE Close
  <2>1. /\ closer = "locked" /\ dstate' = "closed" /\ sock' = "closed" /\ closer' = "done"
        /\ stateMu' = "free" /\ late' = {} /\ unfinished' = {} /\ setter.at = "idle"
        /\ UNCHANGED <<ipcMutex, ownKey, fwmark, setter, changer>>
        /\ removePeerLocked(DOMAIN keyMap)
    BY <1>2 DEF Close, BindClose, RemoveAllPeers, ConfigInv, LockInv
  <2>2. /\ DOMAIN keyMap' = {} /\ keyMap' \in [DOMAIN keyMap' -> PeerRec]
        /\ allowed' \in [DOMAIN allowed' -> DOMAIN keyMap'] /\ LimitInv'
    BY <2>1, RemovePeers DEF ConfigInv
  <2>3. TypeInv'
    BY <2>1, <2>2 DEF ConfigInv, TypeInv
  <2>4. LockInv' /\ SetterInv'
    BY <2>1, ConfigBounds DEF ConfigInv, LockInv, SetterInv, Selected, NoPeer
  <2>5. ClearInv' /\ NotItsOwnPeer' /\ StartedConfigured' /\ UpInv' /\ DownInv' /\ ClosedInv'
    BY <2>1, <2>2 DEF ClearInv, NotItsOwnPeer, StartedConfigured, UpInv, DownInv, ClosedInv
  <2>6. QED
    BY <2>2, <2>3, <2>4, <2>5 DEF ConfigInv
<1>3. QED
  BY <1>1, <1>2

\* Packets: endpoints that are learned, and source addresses that are cleared.
LEMMA PacketInv ==
    ASSUME ConfigInv, NEW k \in DOMAIN keyMap, SetEndpointFromPacket(k) \/ SendBuffers(k)
    PROVE  ConfigInv'
<1> USE DEF isUp, isClosed
<1>1. UNCHANGED <<dstate, stateMu, ipcMutex, ownKey, allowed, sock, fwmark, setter, changer,
                  closer, unfinished, late>>
  BY DEF SetEndpointFromPacket, SendBuffers
<1>2. /\ DOMAIN keyMap' = DOMAIN keyMap /\ keyMap' \in [DOMAIN keyMap -> PeerRec]
      /\ \A q \in DOMAIN keyMap : keyMap'[q].running = keyMap[q].running
      /\ ClearInv'
  <2>1. keyMap \in [DOMAIN keyMap -> PeerRec] /\ ClearInv
    BY DEF ConfigInv, TypeInv
  <2>2. CASE SetEndpointFromPacket(k)
    BY <2>1, <2>2 DEF SetEndpointFromPacket, PeerRec, ClearInv
  <2>3. CASE SendBuffers(k)
    BY <2>1, <2>3 DEF SendBuffers, PeerRec, ClearInv
  <2>4. QED
    BY <2>2, <2>3
<1>3. TypeInv'
  BY <1>1, <1>2 DEF ConfigInv, TypeInv
<1>4. LockInv' /\ SetterInv' /\ LimitInv'
  BY <1>1, <1>2 DEF ConfigInv, LockInv, SetterInv, Selected, LimitInv
<1>5. NotItsOwnPeer' /\ UpInv' /\ DownInv' /\ ClosedInv'
  BY <1>1, <1>2 DEF ConfigInv, NotItsOwnPeer, UpInv, DownInv, ClosedInv
<1>6. StartedConfigured'
  BY <1>1, <1>2 DEF ConfigInv, SetterInv, Selected, StartedConfigured
<1>7. QED
  BY <1>2, <1>3, <1>4, <1>5, <1>6 DEF ConfigInv

LEMMA ConfigStepInv == ConfigInv /\ [ConfigNext]_configVars => ConfigInv'
<1> SUFFICES ASSUME ConfigInv, [ConfigNext]_configVars PROVE ConfigInv'
  OBVIOUS
<1>1. CASE ConfigNext
  BY <1>1, SetOnlyInv, DeviceLineInv, PeerLineInv, PublicKeyInv, ChangeStateInv, CloseInv,
     PacketInv DEF ConfigNext
<1>2. CASE UNCHANGED configVars
  BY <1>2 DEF configVars, ConfigInv, TypeInv, LockInv, SetterInv, Selected, LimitInv, ClearInv,
              NotItsOwnPeer, StartedConfigured, UpInv, DownInv, ClosedInv, isUp, isClosed
<1>3. QED
  BY <1>1, <1>2

\* The inductive invariant holds of every behaviour.
LEMMA ConfigInvariant == ConfigSpec => []ConfigInv
<1>1. ConfigInit => ConfigInv
  BY ConfigInitInv
<1>2. ConfigInv /\ [ConfigNext]_configVars => ConfigInv'
  BY ConfigStepInv
<1>3. QED
  BY <1>1, <1>2, PTL DEF ConfigSpec

-----------------------------------------------------------------------------
(* The theorems                                                            *)

\* A set operation of any lines, at any time, leaves no peer with the device's own key,
\* no route without a peer, and never lets a peer run before it is configured
\* (SetPrivateKey, removePeerLocked, handlePeerLine of device/uapi.go).
THEOREM PeersStayConsistent == ConfigSpec => []PeersConsistent
<1>1. ConfigInv => PeersConsistent
  <2> SUFFICES ASSUME ConfigInv PROVE RoutesHavePeers
    BY DEF ConfigInv, PeersConsistent
  <2>1. allowed \in [DOMAIN allowed -> DOMAIN keyMap]
    BY DEF ConfigInv, TypeInv
  <2>2. ASSUME NEW p \in DOMAIN allowed
        PROVE  p \in UNION {IpcGetOperation[k] : k \in DOMAIN keyMap}
    <3>1. allowed[p] \in DOMAIN keyMap /\ p \in IpcGetOperation[allowed[p]]
      BY <2>1, <2>2 DEF IpcGetOperation
    <3>2. QED
      BY <3>1
  <2>3. \A k \in DOMAIN keyMap : IpcGetOperation[k] \subseteq DOMAIN allowed
    BY DEF IpcGetOperation
  <2>4. QED
    BY <2>2, <2>3 DEF RoutesHavePeers
<1>2. QED
  BY <1>1, ConfigInvariant, PTL

\* However Up, Down, Close and set operations interleave: when nothing is in progress the
\* peers of a device that is up run, a device that is down is quiet, and a closed one has
\* no peer, no route and no socket (handlePostConfig, changeState and Close).
THEOREM PeersFollowState == ConfigSpec => []PeersFollowDevice
<1>1. ConfigInv => PeersFollowDevice
  <2> SUFFICES ASSUME ConfigInv PROVE PeersFollowDevice
    OBVIOUS
  <2>1. UpRunsPeers
    BY DEF ConfigInv, UpInv, UpRunsPeers
  <2>2. DownIsQuiet
    BY DEF ConfigInv, DownInv, DownIsQuiet
  <2>3. ClosedIsFinal
    <3> SUFFICES ASSUME isClosed PROVE keyMap = <<>> /\ allowed = <<>> /\ sock = "closed"
      BY DEF ClosedIsFinal
    <3>1. DOMAIN keyMap = {} /\ DOMAIN allowed = {}
      BY DEF ConfigInv, ClosedInv, TypeInv
    <3>2. keyMap = <<>> /\ allowed = <<>>
      BY <3>1 DEF ConfigInv, TypeInv
    <3>3. sock = "closed"
      BY DEF ConfigInv, LockInv, TypeInv, DownInv, isUp, isClosed
    <3>4. QED
      BY <3>2, <3>3
  <2>4. QED
    BY <2>1, <2>2, <2>3 DEF PeersFollowDevice
<1>2. QED
  BY <1>1, ConfigInvariant, PTL

\* Types: the limit on the peers is kept, and a source address is to be cleared only for
\* a known endpoint (NewPeer, markEndpointSrcForClearing).
THEOREM ConfigTypes == ConfigSpec => []ConfigTypeOK
<1>1. ConfigInv => ConfigTypeOK
  BY DEF ConfigInv, TypeInv, LimitInv, ClearInv, ConfigTypeOK
<1>2. QED
  BY <1>1, ConfigInvariant, PTL

-----------------------------------------------------------------------------
(* The order of numbers.                                                   *)

\* A set of numbers that is not empty has a least member.
LEMMA LeastNumber ==
  ASSUME NEW S \in SUBSET Nat, S # {}
  PROVE  \E x \in S : \A y \in S : x <= y
<1>1. PICK x \in S : \A y \in S : ~(<<y, x>> \in OpToRel(<, Nat))
  BY NatLessThanWellFounded, WFMin
<1>2. ASSUME NEW y \in S PROVE x <= y
  <2>1. ~(y < x)
    BY <1>1 DEF OpToRel
  <2> QED BY <2>1
<1> QED BY <1>2

\* A set of prefixes that is not empty has a longest member.
LEMMA LongestPrefix ==
  ASSUME NEW S \in SUBSET IPPrefixes, S # {}
  PROVE  \E p \in S : \A q \in S : Len(q) <= Len(p)
<1>1. \A q \in S : Len(q) \in 0..Width
  BY WidthAssumption DEF IPPrefixes
<1> DEFINE T == {k \in Nat : \E q \in S : k = Width - Len(q)}
<1>2. PICK s \in S : TRUE
  OBVIOUS
<1>3. Width - Len(s) \in T
  BY <1>1, WidthAssumption
<1>4. PICK k \in T : \A j \in T : k <= j
  <2>1. T \in SUBSET Nat /\ T # {}
    BY <1>3
  <2> HIDE DEF T
  <2> QED BY <2>1, LeastNumber
<1>5. PICK p \in S : k = Width - Len(p)
  BY <1>4
<1>6. ASSUME NEW q \in S PROVE Len(q) <= Len(p)
  <2>1. Width - Len(q) \in T
    BY <1>1, WidthAssumption
  <2>2. Width - Len(p) <= Width - Len(q)
    <3> HIDE DEF T
    <3> QED BY <2>1, <1>4, <1>5
  <2>3. Len(p) \in Int /\ Len(q) \in Int /\ Width \in Int
    BY <1>1, WidthAssumption
  <2> QED BY <2>2, <2>3
<1> QED BY <1>6

-----------------------------------------------------------------------------
(* The order of prefixes.                                                  *)

\* A prefix is a sequence of bits.
LEMMA PrefixType ==
  ASSUME NEW p \in IPPrefixes
  PROVE  /\ p \in Seq(0..1) /\ Len(p) \in 0..Width /\ Len(p) \in Nat
         /\ DOMAIN p = 1..Len(p)
         /\ \A i \in 1..Len(p) : p[i] \in 0..1
         /\ p # Nil
<1>1. PICK k \in 0..Width : p \in [1..k -> 0..1]
  BY DEF IPPrefixes
<1>2. k \in Nat
  BY WidthAssumption
<1>3. Len(p) = k /\ p \in Seq(0..1)
  BY <1>1, <1>2
<1> QED BY <1>1, <1>2, <1>3, NilAssumption, WidthAssumption

\* One prefix covers another when it agrees with it on all its bits.
LEMMA PrefixBits ==
  ASSUME NEW p \in IPPrefixes, NEW q \in IPPrefixes
  PROVE  IsPrefix(p, q) <=> (Len(p) <= Len(q) /\ \A i \in 1..Len(p) : p[i] = q[i])
<1>1. p \in Seq(0..1) /\ q \in Seq(0..1) /\ Len(p) \in Nat /\ Len(q) \in Nat
  BY PrefixType
<1>2. ASSUME Len(p) <= Len(q)
      PROVE  /\ SubSeq(p, 1, Len(p)) = [i \in 1..Len(p) |-> p[i]]
             /\ SubSeq(q, 1, Len(p)) = [i \in 1..Len(p) |-> q[i]]
  BY <1>1, <1>2
<1> QED BY <1>1, <1>2 DEF IsPrefix

\* Two prefixes of one length with the same bits are equal.
LEMMA SamePrefix ==
  ASSUME NEW p \in IPPrefixes, NEW q \in IPPrefixes,
         Len(p) = Len(q), \A i \in 1..Len(p) : p[i] = q[i]
  PROVE  p = q
  BY PrefixType

\* IsPrefix is a partial order.
LEMMA PrefixOrder ==
  ASSUME NEW p \in IPPrefixes, NEW q \in IPPrefixes
  PROVE  /\ IsPrefix(p, p)
         /\ IsPrefix(p, q) /\ IsPrefix(q, p) => p = q
         /\ IsPrefix(p, q) => Len(p) <= Len(q)
         /\ IsPrefix(p, q) /\ p # q => Len(p) < Len(q)
         /\ IsPrefix(p, q) /\ Len(p) = Len(q) => p = q
<1>1. Len(p) \in Nat /\ Len(q) \in Nat
  BY PrefixType
<1>2. IsPrefix(p, p)
  BY PrefixBits, <1>1
<1>3. IsPrefix(p, q) => Len(p) <= Len(q)
  BY PrefixBits
<1>4. IsPrefix(p, q) /\ Len(p) = Len(q) => p = q
  BY PrefixBits, SamePrefix
<1>5. IsPrefix(q, p) => Len(q) <= Len(p)
  BY PrefixBits
<1> QED BY <1>1, <1>2, <1>3, <1>4, <1>5

\* IsPrefix is transitive.
LEMMA PrefixTransitive ==
  ASSUME NEW p \in IPPrefixes, NEW q \in IPPrefixes, NEW r \in IPPrefixes,
         IsPrefix(p, q), IsPrefix(q, r)
  PROVE  IsPrefix(p, r)
<1>1. Len(p) \in Nat /\ Len(q) \in Nat /\ Len(r) \in Nat
  BY PrefixType
<1>2. Len(p) <= Len(q) /\ \A i \in 1..Len(p) : p[i] = q[i]
  BY PrefixBits
<1>3. Len(q) <= Len(r) /\ \A i \in 1..Len(q) : q[i] = r[i]
  BY PrefixBits
<1>4. \A i \in 1..Len(p) : i \in 1..Len(q)
  BY <1>1, <1>2
<1> QED BY <1>1, <1>2, <1>3, <1>4, PrefixBits

\* Of two prefixes of one prefix, the shorter covers the longer.
LEMMA PrefixesComparable ==
  ASSUME NEW p \in IPPrefixes, NEW q \in IPPrefixes, NEW r \in IPPrefixes,
         IsPrefix(p, r), IsPrefix(q, r), Len(p) <= Len(q)
  PROVE  IsPrefix(p, q)
<1>1. Len(p) \in Nat /\ Len(q) \in Nat /\ Len(r) \in Nat
  BY PrefixType
<1>2. \A i \in 1..Len(p) : p[i] = r[i]
  BY PrefixBits
<1>3. \A i \in 1..Len(q) : q[i] = r[i]
  BY PrefixBits
<1>4. \A i \in 1..Len(p) : i \in 1..Len(q)
  BY <1>1
<1> QED BY <1>1, <1>2, <1>3, <1>4, PrefixBits

\* The bit after a prefix is the same in everything that extends a longer one.
LEMMA ChooseBelow ==
  ASSUME NEW n \in IPPrefixes, NEW c \in IPPrefixes, NEW q \in IPPrefixes,
         IsPrefix(n, c), n # c, IsPrefix(c, q)
  PROVE  choose(n, c) = choose(n, q) /\ choose(n, c) \in 0..1
<1>1. Len(n) \in Nat /\ Len(c) \in Nat /\ Len(n) < Len(c)
  BY PrefixType, PrefixOrder
<1>2. \A i \in 1..Len(c) : c[i] = q[i] /\ c[i] \in 0..1
  BY PrefixBits, PrefixType
<1>3. Len(n) + 1 \in 1..Len(c)
  BY <1>1
<1> QED BY <1>2, <1>3 DEF choose

\* The common bits of two prefixes are their longest common prefix.  If it is neither
\* of the two, the next bit tells them apart.
LEMMA CommonPrefix ==
  ASSUME NEW p \in IPPrefixes, NEW q \in IPPrefixes, NEW m,
         m = SubSeq(p, 1, commonBits(q, p))
  PROVE  /\ m \in IPPrefixes /\ IsPrefix(m, p) /\ IsPrefix(m, q)
         /\ m # p /\ m # q => choose(m, p) # choose(m, q)
<1>1. p \in Seq(0..1) /\ q \in Seq(0..1) /\ Len(p) \in 0..Width /\ Len(q) \in 0..Width
  BY PrefixType
<1>2. Len(p) \in Nat /\ Len(q) \in Nat /\ Width \in Nat
  BY <1>1, WidthAssumption
<1> DEFINE Same(k) == /\ k <= Len(q) /\ k <= Len(p) /\ SubSeq(q, 1, k) = SubSeq(p, 1, k)
                      /\ k < Len(q) /\ k < Len(p) => q[k + 1] # p[k + 1]
           K == commonBits(q, p)
<1>3. \E k \in 0..Width : Same(k)
  <2> DEFINE D == {k \in Nat : k < Len(q) /\ k < Len(p) => q[k + 1] # p[k + 1]}
  <2>1. Len(p) \in D
    BY <1>2
  <2>2. PICK k \in D : \A j \in D : k <= j
    <3>1. D \in SUBSET Nat /\ D # {}
      BY <2>1
    <3> HIDE DEF D
    <3> QED BY <3>1, LeastNumber
  <2>3. k <= Len(p) /\ k \in Nat
    BY <2>1, <2>2
  <2>4. k <= Len(q)
    <3>1. Len(q) \in D
      BY <1>2
    <3> QED BY <3>1, <2>2
  <2>5. ASSUME NEW i \in 1..k PROVE q[i] = p[i]
    <3>1. i - 1 \in Nat /\ ~(k <= i - 1)
      BY <2>3
    <3>2. i - 1 \notin D
      BY <3>1, <2>2
    <3> QED BY <3>1, <3>2, <2>3, <2>4, <1>2
  <2>6. SubSeq(q, 1, k) = SubSeq(p, 1, k)
    <3>1. SubSeq(q, 1, k) = [i \in 1..k |-> q[i]] /\ SubSeq(p, 1, k) = [i \in 1..k |-> p[i]]
      BY <1>1, <1>2, <2>3, <2>4
    <3> QED BY <3>1, <2>5
  <2>7. k \in 0..Width
    BY <1>1, <1>2, <2>3
  <2> QED BY <2>2, <2>3, <2>4, <2>6, <2>7
<1>4. K \in 0..Width /\ Same(K)
  <2>1. K = CHOOSE k \in 0..Width : Same(k)
    BY DEF commonBits
  <2> HIDE DEF Same, K
  <2> QED BY <1>3, <2>1
<1> HIDE DEF K
<1>5. K \in Nat
  BY <1>4, <1>2
<1>6. m = SubSeq(p, 1, K)
  BY DEF K
<1>7. m = [i \in 1..K |-> p[i]] /\ Len(m) = K
  <2>1. SubSeq(p, 1, K) = [i \in 1..K |-> p[i]]
    BY <1>1, <1>2, <1>4, <1>5
  <2>2. Len([i \in 1..K |-> p[i]]) = K
    BY <1>5
  <2> QED BY <2>1, <2>2, <1>6
<1>8. \A i \in 1..K : i \in 1..Len(p) /\ p[i] \in 0..1
  BY <1>4, <1>5, <1>2, PrefixType
<1>9. m \in IPPrefixes
  <2>1. m \in [1..K -> 0..1]
    BY <1>7, <1>8
  <2> QED BY <2>1, <1>4 DEF IPPrefixes
<1>10. IsPrefix(m, p)
  BY <1>4, <1>7, <1>9, PrefixBits
<1>11. IsPrefix(m, q)
  <2>1. SubSeq(q, 1, K) = [i \in 1..K |-> q[i]]
    BY <1>1, <1>2, <1>4, <1>5
  <2>2. \A i \in 1..K : m[i] = q[i]
    <3>1. m = [i \in 1..K |-> q[i]]
      BY <2>1, <1>4, <1>6
    <3> QED BY <3>1
  <2> QED BY <2>2, <1>4, <1>7, <1>9, PrefixBits
<1>12. ASSUME m # p, m # q PROVE choose(m, p) # choose(m, q)
  <2>1. Len(m) < Len(p) /\ Len(m) < Len(q)
    BY <1>9, <1>10, <1>11, <1>12, PrefixOrder
  <2> QED BY <2>1, <1>4, <1>7 DEF choose
<1> QED BY <1>9, <1>10, <1>11, <1>12

-----------------------------------------------------------------------------
(* The shape of a trie.                                                    *)

Slots(S) == (S \X (0..1)) \cup {RootSlot}

Tries(S) ==
  [root : S \cup {Nil},
   peer : [S -> RoutePeer \cup {Nil}],
   child : [S -> [0..1 -> S \cup {Nil}]],
   parent : [S -> Slots(S)]]

RootCovers(t) ==
  IF Nodes(t) = {} THEN t.root = Nil
  ELSE t.root \in Nodes(t) /\ \A q \in Nodes(t) : IsPrefix(t.root, q)

\* below a node, the child on the side of a longer prefix covers that prefix
ChildLeads(t) ==
  \A n, q \in Nodes(t) :
    n # q /\ IsPrefix(n, q) =>
      /\ t.child[n][choose(n, q)] \in Nodes(t)
      /\ IsPrefix(t.child[n][choose(n, q)], q)

ChildBelow(t) ==
  \A n \in Nodes(t), b \in 0..1 :
    t.child[n][b] # Nil =>
      /\ n # t.child[n][b] /\ IsPrefix(n, t.child[n][b])
      /\ choose(n, t.child[n][b]) = b
      /\ t.parent[t.child[n][b]] = <<n, b>>

ParentAbove(t) ==
  \A q \in Nodes(t) :
    \/ q = t.root /\ t.parent[q] = RootSlot
    \/ /\ q # t.root
       /\ \E n \in Nodes(t), b \in 0..1 : t.parent[q] = <<n, b>> /\ t.child[n][b] = q

Shape(t) ==
  /\ Nodes(t) \subseteq IPPrefixes
  /\ t \in Tries(Nodes(t))
  /\ RootCovers(t)
  /\ ChildLeads(t)
  /\ ChildBelow(t)
  /\ ParentAbove(t)

\* a node without a peer has two children
ForksFull(t) ==
  \A n \in Nodes(t) : t.peer[n] = Nil => \A b \in 0..1 : t.child[n][b] # Nil

TrieInv(t) == Shape(t) /\ ForksFull(t)

\* The owners of the nodes do not matter for the shape.
LEMMA SameShape ==
  ASSUME NEW t, Shape(t), NEW u, u \in Tries(Nodes(t)), Nodes(u) = Nodes(t),
         u.root = t.root, u.child = t.child, u.parent = t.parent
  PROVE  Shape(u)
<1>1. RootCovers(u)
  BY DEF Shape, RootCovers
<1>2. ChildLeads(u)
  BY DEF Shape, ChildLeads
<1>3. ChildBelow(u)
  BY DEF Shape, ChildBelow
<1>4. ParentAbove(u)
  <2>1. ParentAbove(t)
    BY DEF Shape
  <2> QED BY <2>1 DEF ParentAbove
<1> QED BY <1>1, <1>2, <1>3, <1>4 DEF Shape

-----------------------------------------------------------------------------
(* What the three changes of a trie do to its fields.                      *)

\* the new node p in an empty slot
Leaf(t, slot, p, peer) == Attach(AddNode(t, p, peer), slot, p)

\* the new node p between a slot and the node that was in it
Above(t, slot, p, peer, down) ==
  Attach(Attach(AddNode(t, p, peer), <<p, choose(p, down)>>, down), slot, p)

\* the child of a node with at most one, in the place of the node
Cut(t, node, kid) == Discard(Replace(t, t.parent[node], kid), {node})

\* the fields of u, the trie t with the leaf p
LeafIn(S, t, slot, p, peer, u) ==
  /\ u \in Tries(S \cup {p}) /\ Nodes(u) = S \cup {p}
  /\ u.root = IF slot = RootSlot THEN p ELSE t.root
  /\ u.peer[p] = peer /\ u.parent[p] = slot
  /\ \A b \in 0..1 : u.child[p][b] = Nil
  /\ \A q \in S :
       /\ u.peer[q] = t.peer[q]
       /\ u.parent[q] = t.parent[q]
       /\ \A b \in 0..1 : u.child[q][b] = IF <<q, b>> = slot THEN p ELSE t.child[q][b]

\* the fields of u, the trie t with p above down
AboveOf(S, t, slot, p, peer, down, u) ==
  /\ u \in Tries(S \cup {p}) /\ Nodes(u) = S \cup {p}
  /\ u.root = IF slot = RootSlot THEN p ELSE t.root
  /\ u.peer[p] = peer /\ u.parent[p] = slot
  /\ \A b \in 0..1 : u.child[p][b] = IF b = choose(p, down) THEN down ELSE Nil
  /\ \A q \in S :
       /\ u.peer[q] = t.peer[q]
       /\ u.parent[q] = IF q = down THEN <<p, choose(p, down)>> ELSE t.parent[q]
       /\ \A b \in 0..1 : u.child[q][b] = IF <<q, b>> = slot THEN p ELSE t.child[q][b]

\* the fields of u, the trie t without node
Without(S, t, node, kid, u) ==
  /\ u \in Tries(S \ {node}) /\ Nodes(u) = S \ {node}
  /\ u.root = IF t.parent[node] = RootSlot THEN kid ELSE t.root
  /\ \A q \in S \ {node} :
       /\ u.peer[q] = t.peer[q]
       /\ u.parent[q] = IF q = kid THEN t.parent[node] ELSE t.parent[q]
       /\ \A b \in 0..1 :
            u.child[q][b] = IF <<q, b>> = t.parent[node] THEN kid ELSE t.child[q][b]

\* A slot of a node is not the slot of the root.
LEMMA SlotKinds ==
  ASSUME NEW S, NEW slot \in Slots(S)
  PROVE  \/ slot = RootSlot /\ slot[2] > 1
         \/ \E n \in S, b \in 0..1 : slot = <<n, b>> /\ slot[1] = n /\ slot[2] = b
                                      /\ ~(slot[2] > 1) /\ slot # RootSlot
  BY DEF Slots, RootSlot

\* The fields of u, the trie t with a new node that nothing points to yet.
Added(S, t, p, peer, u) ==
  /\ u \in Tries(S \cup {p}) /\ Nodes(u) = S \cup {p}
  /\ u.root = t.root
  /\ \A q \in S \cup {p} :
       /\ u.peer[q] = IF q = p THEN peer ELSE t.peer[q]
       /\ u.parent[q] = IF q = p THEN RootSlot ELSE t.parent[q]
       /\ \A b \in 0..1 : u.child[q][b] = IF q = p THEN Nil ELSE t.child[q][b]

\* The fields of u, the trie t with a node moved into a slot.
Attached(S, t, slot, node, u) ==
  /\ u \in Tries(S) /\ Nodes(u) = S
  /\ u.root = IF slot = RootSlot THEN node ELSE t.root
  /\ u.peer = t.peer
  /\ \A q \in S :
       /\ u.parent[q] = IF q = node THEN slot ELSE t.parent[q]
       /\ \A b \in 0..1 : u.child[q][b] = IF <<q, b>> = slot THEN node ELSE t.child[q][b]

\* The fields of u, the trie t with an empty slot.
Emptied(S, t, slot, u) ==
  /\ u \in Tries(S) /\ Nodes(u) = S
  /\ u.root = IF slot = RootSlot THEN Nil ELSE t.root
  /\ u.peer = t.peer /\ u.parent = t.parent
  /\ \A q \in S, b \in 0..1 :
       u.child[q][b] = IF <<q, b>> = slot THEN Nil ELSE t.child[q][b]

\* The fields of u, the trie t without the nodes of D.
Discarded(S, t, D, u) ==
  /\ u \in Tries(S \ D) /\ Nodes(u) = S \ D
  /\ u.root = t.root
  /\ \A q \in S \ D : /\ u.peer[q] = t.peer[q]
                     /\ u.parent[q] = t.parent[q]
                     /\ u.child[q] = t.child[q]

\* AddNode adds a node without children.
LEMMA AddNodeParts ==
  ASSUME NEW N, NEW t \in Tries(N), NEW p, NEW peer \in RoutePeer \cup {Nil},
         NEW u, u = AddNode(t, p, peer)
  PROVE  Added(N, t, p, peer, u)
<1>0. Nodes(t) = N
  BY DEF Nodes, Tries
<1> DEFINE S == N \cup {p}
           pe == [q \in S |-> IF q = p THEN peer ELSE t.peer[q]]
           ch == [q \in S |-> IF q = p THEN NoChildren ELSE t.child[q]]
           pa == [q \in S |-> IF q = p THEN RootSlot ELSE t.parent[q]]
<1>1. u = [root |-> t.root, peer |-> pe, child |-> ch, parent |-> pa]
  BY <1>0 DEF AddNode, Tries
<1>2. pe \in [S -> RoutePeer \cup {Nil}]
  BY DEF Tries
<1>3. ch \in [S -> [0..1 -> S \cup {Nil}]]
  BY DEF Tries, NoChildren
<1>4. pa \in [S -> Slots(S)]
  BY DEF Tries, Slots
<1>5. t.root \in S \cup {Nil}
  BY DEF Tries
<1>6. u \in Tries(S) /\ Nodes(u) = S
  <2>1. DOMAIN pe = S
    OBVIOUS
  <2> HIDE DEF S, pe, ch, pa
  <2> QED BY <1>1, <1>2, <1>3, <1>4, <1>5, <2>1 DEF Tries, Nodes
<1>7. u.root = t.root /\ u.peer = pe /\ u.child = ch /\ u.parent = pa
  <2> HIDE DEF S, pe, ch, pa
  <2> QED BY <1>1
<1> QED BY <1>6, <1>7 DEF NoChildren, Added

\* Attach moves a node into a slot and changes nothing else.
LEMMA AttachParts ==
  ASSUME NEW S, NEW t \in Tries(S), NEW slot \in Slots(S), NEW node \in S,
         NEW u, u = Attach(t, slot, node)
  PROVE  Attached(S, t, slot, node, u)
<1> DEFINE v == [t EXCEPT !.parent[node] = slot]
<1>1. v = [root |-> t.root, peer |-> t.peer, child |-> t.child,
           parent |-> [t.parent EXCEPT ![node] = slot]]
  BY DEF Tries
<1>2. [t.parent EXCEPT ![node] = slot] \in [S -> Slots(S)]
  BY DEF Tries
<1>3. u = SetSlot(v, slot, node)
  BY DEF Attach
<1>4. CASE slot = RootSlot
  <2>1. u = [root |-> node, peer |-> t.peer, child |-> t.child,
             parent |-> [t.parent EXCEPT ![node] = slot]]
    <3>1. slot[2] > 1
      BY <1>4 DEF RootSlot
    <3>2. u = [v EXCEPT !.root = node]
      BY <1>3, <3>1 DEF SetSlot
    <3> HIDE DEF v
    <3> QED BY <1>1, <3>2
  <2>2. u \in Tries(S) /\ Nodes(u) = S
    BY <1>2, <2>1 DEF Tries, Nodes
  <2>3. \A q \in S, b \in 0..1 : <<q, b>> # slot
    BY <1>4 DEF RootSlot
  <2> QED BY <2>1, <2>2, <2>3, <1>4 DEF Tries, Attached
<1>5. CASE slot # RootSlot
  <2>1. PICK n \in S, b \in 0..1 : slot = <<n, b>> /\ slot[1] = n /\ slot[2] = b
                                   /\ ~(slot[2] > 1)
    BY <1>5, SlotKinds
  <2> DEFINE ch == [t.child EXCEPT ![n][b] = node]
  <2>2. u = [root |-> t.root, peer |-> t.peer, child |-> ch,
             parent |-> [t.parent EXCEPT ![node] = slot]]
    <3>2. u = [v EXCEPT !.child[n][b] = node]
      BY <1>3, <2>1 DEF SetSlot
    <3> HIDE DEF v
    <3> QED BY <1>1, <3>2
  <2>3. ch \in [S -> [0..1 -> S \cup {Nil}]]
    BY DEF Tries
  <2>4. u \in Tries(S) /\ Nodes(u) = S
    BY <1>2, <2>2, <2>3 DEF Tries, Nodes
  <2>5. \A q \in S, d \in 0..1 : ch[q][d] = IF <<q, d>> = slot THEN node ELSE t.child[q][d]
    BY <2>1 DEF Tries
  <2> QED BY <2>2, <2>4, <2>5, <1>5 DEF Tries, Attached
<1> QED BY <1>4, <1>5

\* SetSlot with Nil empties a slot and changes nothing else.
LEMMA EmptySlotParts ==
  ASSUME NEW S, NEW t \in Tries(S), NEW slot \in Slots(S),
         NEW u, u = SetSlot(t, slot, Nil)
  PROVE  Emptied(S, t, slot, u)
<1>1. CASE slot = RootSlot
  <2>1. u = [root |-> Nil, peer |-> t.peer, child |-> t.child, parent |-> t.parent]
    <3>1. slot[2] > 1
      BY <1>1 DEF RootSlot
    <3> QED BY <3>1 DEF SetSlot, Tries
  <2>2. u \in Tries(S) /\ Nodes(u) = S
    BY <2>1 DEF Tries, Nodes
  <2>3. \A q \in S, b \in 0..1 : <<q, b>> # slot
    BY <1>1 DEF RootSlot
  <2> QED BY <2>1, <2>2, <2>3, <1>1 DEF Tries, Emptied
<1>2. CASE slot # RootSlot
  <2>1. PICK n \in S, b \in 0..1 : slot = <<n, b>> /\ slot[1] = n /\ slot[2] = b
                                   /\ ~(slot[2] > 1)
    BY <1>2, SlotKinds
  <2> DEFINE ch == [t.child EXCEPT ![n][b] = Nil]
  <2>2. u = [root |-> t.root, peer |-> t.peer, child |-> ch, parent |-> t.parent]
    BY <2>1 DEF SetSlot, Tries
  <2>3. ch \in [S -> [0..1 -> S \cup {Nil}]]
    BY DEF Tries
  <2>4. u \in Tries(S) /\ Nodes(u) = S
    BY <2>2, <2>3 DEF Tries, Nodes
  <2>5. \A q \in S, d \in 0..1 : ch[q][d] = IF <<q, d>> = slot THEN Nil ELSE t.child[q][d]
    BY <2>1 DEF Tries
  <2> QED BY <2>2, <2>4, <2>5, <1>2 DEF Tries, Emptied
<1> QED BY <1>1, <1>2

\* Discard restricts the three functions to the nodes it keeps.
LEMMA DiscardFields ==
  ASSUME NEW S, NEW t \in Tries(S), NEW D
  PROVE  Discard(t, D) = [root |-> t.root,
                          peer |-> [q \in Nodes(t) \ D |-> t.peer[q]],
                          child |-> [q \in Nodes(t) \ D |-> t.child[q]],
                          parent |-> [q \in Nodes(t) \ D |-> t.parent[q]]]
<1> DEFINE pe == [q \in Nodes(t) \ D |-> t.peer[q]]
           ch == [q \in Nodes(t) \ D |-> t.child[q]]
           pa == [q \in Nodes(t) \ D |-> t.parent[q]]
<1>1. Discard(t, D) = [t EXCEPT !.peer = pe, !.child = ch, !.parent = pa]
  BY DEF Discard
<1> HIDE DEF pe, ch, pa
<1>2. Discard(t, D) = [root |-> t.root, peer |-> pe, child |-> ch, parent |-> pa]
  BY <1>1 DEF Tries
<1> QED BY <1>2 DEF pe, ch, pa

\* Discard forgets nodes that nothing points to any more.
LEMMA DiscardParts ==
  ASSUME NEW S, NEW t \in Tries(S), NEW D, NEW u, u = Discard(t, D),
         t.root \notin D \ {Nil}, Nil \notin S,
         \A q \in S \ D :
            t.parent[q] \in Slots(S \ D) /\ \A b \in 0..1 : t.child[q][b] \notin D \ {Nil}
  PROVE  Discarded(S, t, D, u)
<1> DEFINE K == S \ D
           pe == [q \in K |-> t.peer[q]]
           ch == [q \in K |-> t.child[q]]
           pa == [q \in K |-> t.parent[q]]
<1>1. Nodes(t) = S
  BY DEF Nodes, Tries
<1>2. u = [root |-> t.root, peer |-> pe, child |-> ch, parent |-> pa]
  BY <1>1 DEF Discard, Tries
<1>3. pe \in [K -> RoutePeer \cup {Nil}] /\ DOMAIN pe = K
  BY DEF Tries
<1>4. ch \in [K -> [0..1 -> K \cup {Nil}]]
  <2>1. ASSUME NEW q \in K PROVE t.child[q] \in [0..1 -> K \cup {Nil}]
    <3>1. t.child[q] \in [0..1 -> S \cup {Nil}]
      BY DEF Tries
    <3>2. \A b \in 0..1 : t.child[q][b] \in K \cup {Nil}
      BY <3>1
    <3> QED BY <3>1, <3>2
  <2> QED BY <2>1
<1>5. pa \in [K -> Slots(K)]
  OBVIOUS
<1>6. t.root \in K \cup {Nil}
  BY DEF Tries
<1>7. u \in Tries(K) /\ Nodes(u) = K
  <2> HIDE DEF K, pe, ch, pa
  <2> QED BY <1>2, <1>3, <1>4, <1>5, <1>6 DEF Tries, Nodes
<1>8. u.root = t.root /\ u.peer = pe /\ u.child = ch /\ u.parent = pa
  <2> HIDE DEF K, pe, ch, pa
  <2> QED BY <1>2
<1> QED BY <1>7, <1>8 DEF Discarded

\* Leaf: one new node without children in the slot.
LEMMA LeafParts ==
  ASSUME NEW S, NEW t \in Tries(S), NEW p, p \notin S,
         NEW peer \in RoutePeer \cup {Nil}, NEW slot \in Slots(S),
         NEW u, u = Leaf(t, slot, p, peer)
  PROVE  LeafIn(S, t, slot, p, peer, u)
<1>1. PICK v : v = AddNode(t, p, peer)
  OBVIOUS
<1>2. Added(S, t, p, peer, v)
  BY <1>1, AddNodeParts
<1>3. slot \in Slots(S \cup {p}) /\ \A b \in 0..1 : <<p, b>> # slot
  BY DEF Slots, RootSlot
<1>4. v \in Tries(S \cup {p}) /\ p \in S \cup {p} /\ u = Attach(v, slot, p)
  BY <1>1, <1>2 DEF Leaf, Added
<1>5. Attached(S \cup {p}, v, slot, p, u)
  BY <1>3, <1>4, AttachParts
<1> QED BY <1>2, <1>3, <1>5 DEF Added, Attached, LeafIn

\* Above: one new node in the slot, with the node that was there below it.
LEMMA AboveParts ==
  ASSUME NEW S, NEW t \in Tries(S), NEW p, p \notin S,
         NEW peer \in RoutePeer \cup {Nil}, NEW slot \in Slots(S),
         NEW down \in S, choose(p, down) \in 0..1,
         NEW u, u = Above(t, slot, p, peer, down)
  PROVE  AboveOf(S, t, slot, p, peer, down, u)
<1>1. PICK v : v = AddNode(t, p, peer)
  OBVIOUS
<1>2. Added(S, t, p, peer, v)
  BY <1>1, AddNodeParts
<1> DEFINE low == <<p, choose(p, down)>>
<1>3. PICK w : w = Attach(v, low, down)
  OBVIOUS
<1>4. /\ slot \in Slots(S \cup {p}) /\ \A b \in 0..1 : <<p, b>> # slot
      /\ low \in Slots(S \cup {p}) /\ \A q \in S, b \in 0..1 : <<q, b>> # low
      /\ low # RootSlot
      /\ \A b \in 0..1 : <<p, b>> = low <=> b = choose(p, down)
  BY DEF Slots, RootSlot
<1>5. v \in Tries(S \cup {p}) /\ p \in S \cup {p} /\ down \in S \cup {p} /\ down # p
  BY <1>2 DEF Added
<1>6. Attached(S \cup {p}, v, low, down, w)
  BY <1>3, <1>4, <1>5, AttachParts
<1>7. w \in Tries(S \cup {p}) /\ u = Attach(w, slot, p)
  BY <1>1, <1>3, <1>6 DEF Above, Attached
<1>8. Attached(S \cup {p}, w, slot, p, u)
  BY <1>4, <1>5, <1>7, AttachParts
<1> HIDE DEF low
<1>9. u \in Tries(S \cup {p}) /\ Nodes(u) = S \cup {p} /\ u.root = IF slot = RootSlot THEN p ELSE t.root
  BY <1>2, <1>4, <1>6, <1>8 DEF Added, Attached
<1>10. /\ u.peer[p] = peer /\ u.parent[p] = slot
       /\ \A b \in 0..1 : u.child[p][b] = IF b = choose(p, down) THEN down ELSE Nil
  BY <1>2, <1>4, <1>5, <1>6, <1>8 DEF Added, Attached
<1>11. ASSUME NEW q \in S
       PROVE  /\ u.peer[q] = t.peer[q]
              /\ u.parent[q] = IF q = down THEN low ELSE t.parent[q]
              /\ \A b \in 0..1 : u.child[q][b] = IF <<q, b>> = slot THEN p ELSE t.child[q][b]
  BY <1>2, <1>4, <1>5, <1>6, <1>8 DEF Added, Attached
<1> QED BY <1>9, <1>10, <1>11 DEF AboveOf, low

\* Cut: the only child of a node takes its place.
LEMMA CutParts ==
  ASSUME NEW t, Shape(t), NEW node \in Nodes(t), NEW kid \in Nodes(t) \cup {Nil},
         \A b \in 0..1 : t.child[node][b] \in {kid, Nil}, kid # node,
         NEW u, u = Cut(t, node, kid)
  PROVE  Without(Nodes(t), t, node, kid, u)
<1> DEFINE S == Nodes(t)
           slot == t.parent[node]
<1>1. t \in Tries(S) /\ S \subseteq IPPrefixes /\ Nil \notin S
  BY NilAssumption DEF Shape
<1>2. slot \in Slots(S)
  BY <1>1 DEF Tries
<1>3. \/ node = t.root /\ slot = RootSlot
      \/ /\ node # t.root
         /\ \E n \in S, b \in 0..1 : slot = <<n, b>> /\ t.child[n][b] = node
  BY DEF Shape, ParentAbove
<1>4. slot \in Slots(S \ {node})
  <2>1. CASE slot = RootSlot
    BY <2>1 DEF Slots
  <2>2. CASE slot # RootSlot
    <3>1. PICK n \in S, b \in 0..1 : slot = <<n, b>> /\ t.child[n][b] = node
      BY <1>3, <2>2
    <3>2. n # node
      BY <3>1, <1>1 DEF Shape, ChildBelow
    <3> QED BY <3>1, <3>2 DEF Slots
  <2> QED BY <2>1, <2>2
<1>5. PICK v : v = Replace(t, slot, kid)
  OBVIOUS
<1> DEFINE Moved ==
      /\ v \in Tries(S)
      /\ v.root = IF slot = RootSlot THEN kid ELSE t.root
      /\ v.peer = t.peer
      /\ \A q \in S :
           /\ v.parent[q] = IF q = kid THEN slot ELSE t.parent[q]
           /\ \A b \in 0..1 : v.child[q][b] = IF <<q, b>> = slot THEN kid ELSE t.child[q][b]
<1>6. Moved
  <2>1. CASE kid = Nil
    <3>1. v = SetSlot(t, slot, Nil)
      BY <1>5, <2>1 DEF Replace
    <3>2. Emptied(S, t, slot, v)
      BY <1>1, <1>2, <3>1, EmptySlotParts
    <3> QED BY <3>2, <2>1, <1>1 DEF Emptied
  <2>2. CASE kid # Nil
    <3>1. v = Attach(t, slot, kid) /\ kid \in S
      BY <1>5, <2>2 DEF Replace
    <3>2. Attached(S, t, slot, kid, v)
      BY <1>1, <1>2, <3>1, AttachParts
    <3> QED BY <3>2 DEF Attached
  <2> QED BY <2>1, <2>2
<1>7. v.root # node
  BY <1>3, <1>6, <1>1
<1>8. ASSUME NEW q \in S \ {node}, NEW b \in 0..1 PROVE v.child[q][b] # node
  <2>1. v.child[q][b] = IF <<q, b>> = slot THEN kid ELSE t.child[q][b]
    BY <1>6
  <2>2. t.child[q][b] = node => slot = <<q, b>>
    <3>1. \A n \in S, d \in 0..1 : t.child[n][d] # Nil => t.parent[t.child[n][d]] = <<n, d>>
      BY Zenon DEF Shape, ChildBelow
    <3>2. q \in S /\ node # Nil
      BY <1>1
    <3>3. t.child[q][b] # Nil => t.parent[t.child[q][b]] = <<q, b>>
      BY <3>1, <3>2, Zenon
    <3> QED BY <3>2, <3>3, Zenon
  <2>3. CASE <<q, b>> = slot
    <3>1. v.child[q][b] = kid
      BY <2>1, <2>3, Zenon
    <3> QED BY <3>1, <1>1
  <2>4. CASE <<q, b>> # slot
    <3>1. v.child[q][b] = t.child[q][b]
      BY <2>1, <2>4, Zenon
    <3> QED BY <3>1, <2>2, <2>4, Zenon
  <2> QED BY <2>3, <2>4
<1>9. ASSUME NEW q \in S \ {node} PROVE v.parent[q] \in Slots(S \ {node})
  <2>1. CASE q = kid
    BY <2>1, <1>4, <1>6
  <2>2. CASE q # kid
    <3>1. v.parent[q] = t.parent[q]
      BY <2>2, <1>6
    <3>2. CASE t.parent[q] = RootSlot
      BY <3>1, <3>2 DEF Slots
    <3>3. CASE t.parent[q] # RootSlot
      <4>1. PICK n \in S, b \in 0..1 : t.parent[q] = <<n, b>> /\ t.child[n][b] = q
        BY <3>3 DEF Shape, ParentAbove
      <4>2. n # node
        BY <4>1, <2>2, <1>1
      <4> QED BY <3>1, <4>1, <4>2 DEF Slots
    <3> QED BY <3>2, <3>3
  <2> QED BY <2>1, <2>2
<1>10. u = Discard(v, {node}) /\ v \in Tries(S) /\ {node} \ {Nil} = {node}
  BY <1>1, <1>5, <1>6 DEF Cut
<1>11. Discarded(S, v, {node}, u)
  <2> HIDE DEF S, slot, Moved
  <2>1. v.root \notin {node} \ {Nil}
    BY <1>7
  <2>2. \A q \in S \ {node} :
           /\ v.parent[q] \in Slots(S \ {node})
           /\ \A b \in 0..1 : v.child[q][b] \notin {node} \ {Nil}
    BY <1>8, <1>9
  <2> QED BY <1>1, <1>10, <2>1, <2>2, DiscardParts
<1> QED BY <1>6, <1>11 DEF Without, Discarded

-----------------------------------------------------------------------------
(* The three changes keep the shape.                                       *)

\* A leaf in the empty slot that leads to p.
LEMMA LeafShape ==
  ASSUME NEW t, Shape(t), NEW p \in IPPrefixes, p \notin Nodes(t), NEW slot, NEW peer, NEW u,
         LeafIn(Nodes(t), t, slot, p, peer, u),
         \/ slot = RootSlot /\ Nodes(t) = {}
         \/ \E n \in Nodes(t) : /\ IsPrefix(n, p) /\ slot = <<n, choose(n, p)>>
                                /\ t.child[n][choose(n, p)] = Nil
  PROVE  Shape(u)
<1> DEFINE S == Nodes(t)
<1>1. t \in Tries(S) /\ S \subseteq IPPrefixes /\ Nil \notin S /\ p # Nil
  BY NilAssumption DEF Shape
<1>2. Nodes(u) = S \cup {p} /\ Nodes(u) \subseteq IPPrefixes /\ u \in Tries(Nodes(u))
  BY <1>1 DEF LeafIn
<1>3. CASE slot = RootSlot /\ S = {}
  <2>1. Nodes(u) = {p} /\ u.root = p /\ u.parent[p] = RootSlot /\ \A b \in 0..1 : u.child[p][b] = Nil
    BY <1>2, <1>3 DEF LeafIn
  <2>2. IsPrefix(p, p)
    BY PrefixOrder
  <2> QED BY <1>2, <2>1, <2>2 DEF Shape, RootCovers, ChildLeads, ChildBelow, ParentAbove
<1>4. ASSUME NEW n \in S, IsPrefix(n, p), slot = <<n, choose(n, p)>>,
             t.child[n][choose(n, p)] = Nil
      PROVE  Shape(u)
  <2> DEFINE bit == choose(n, p)
  <2>1. n \in IPPrefixes /\ n # p /\ bit \in 0..1 /\ slot # RootSlot
    BY <1>1, <1>4, ChooseBelow, PrefixOrder DEF RootSlot
  <2>2. ASSUME NEW q \in S PROVE ~ (n # q /\ IsPrefix(n, q) /\ choose(n, q) = bit)
    BY <1>1, <1>4 DEF Shape, ChildLeads
  <2>3. ASSUME NEW q \in S, IsPrefix(q, p) PROVE IsPrefix(q, n)
    <3>1. q \in IPPrefixes /\ Len(q) \in Nat /\ Len(n) \in Nat
      BY <1>1, <2>1, PrefixType
    <3>2. CASE Len(q) <= Len(n)
      BY <3>1, <3>2, <2>1, <2>3, <1>4, PrefixesComparable
    <3>3. CASE Len(n) < Len(q)
      <4>1. IsPrefix(n, q) /\ n # q
        BY <3>1, <3>3, <2>1, <2>3, <1>4, PrefixesComparable
      <4>2. choose(n, q) = bit
        BY <4>1, <3>1, <2>1, <2>3, ChooseBelow
      <4> QED BY <4>1, <4>2, <2>2
    <3> QED BY <3>1, <3>2, <3>3
  <2>4. ASSUME NEW q \in S PROVE ~ IsPrefix(p, q)
    <3>1. SUFFICES ASSUME IsPrefix(p, q) PROVE FALSE
      OBVIOUS
    <3>2. q \in IPPrefixes
      BY <1>1
    <3>3. IsPrefix(n, q) /\ choose(n, q) = bit
      BY <3>1, <3>2, <2>1, <1>4, PrefixTransitive, ChooseBelow
    <3>4. n # q
      BY <3>1, <3>2, <2>1, <1>4, PrefixOrder
    <3> QED BY <3>3, <3>4, <2>2
  <2>5. /\ u.root = t.root /\ u.parent[p] = slot
        /\ \A b \in 0..1 : u.child[p][b] = Nil
        /\ \A q \in S :
             /\ u.parent[q] = t.parent[q]
             /\ \A b \in 0..1 : u.child[q][b] = IF <<q, b>> = slot THEN p ELSE t.child[q][b]
    BY <2>1 DEF LeafIn
  <2>6. RootCovers(u)
    <3>1. t.root \in S /\ \A q \in S : IsPrefix(t.root, q)
      BY DEF Shape, RootCovers
    <3>2. IsPrefix(t.root, p)
      BY <3>1, <1>1, <2>1, <1>4, PrefixTransitive
    <3> QED BY <3>1, <3>2, <2>5, <1>2 DEF RootCovers
  <2>7. ChildLeads(u)
    <3>1. SUFFICES ASSUME NEW m \in Nodes(u), NEW q \in Nodes(u), m # q, IsPrefix(m, q)
                   PROVE  /\ u.child[m][choose(m, q)] \in Nodes(u)
                          /\ IsPrefix(u.child[m][choose(m, q)], q)
      BY DEF ChildLeads
    <3>2. m # p
      BY <3>1, <1>2, <2>4
    <3>3. m \in S /\ m \in IPPrefixes
      BY <1>1, <1>2, <3>2
    <3>4. CASE q = p
      <4>1. IsPrefix(m, n)
        BY <3>1, <3>3, <3>4, <2>3
      <4>2. CASE m = n
        <5>1. u.child[m][choose(m, q)] = p
          BY <4>2, <3>4, <2>1, <2>5, <1>4
        <5> QED BY <5>1, <3>4, <1>2, PrefixOrder
      <4>3. CASE m # n
        <5>1. choose(m, n) = choose(m, p) /\ choose(m, n) \in 0..1
          BY <4>1, <4>3, <3>3, <2>1, <1>4, ChooseBelow
        <5>2. t.child[m][choose(m, n)] \in S /\ IsPrefix(t.child[m][choose(m, n)], n)
          BY <4>1, <4>3, <3>3 DEF Shape, ChildLeads
        <5>3. u.child[m][choose(m, n)] = t.child[m][choose(m, n)]
          BY <5>1, <4>3, <3>3, <2>5, <1>4
        <5>4. IsPrefix(t.child[m][choose(m, n)], p)
          BY <5>2, <1>1, <2>1, <1>4, PrefixTransitive
        <5> QED BY <5>1, <5>2, <5>3, <5>4, <3>4, <1>2
      <4> QED BY <4>2, <4>3
    <3>5. CASE q # p
      <4>1. q \in S /\ q \in IPPrefixes
        BY <1>1, <1>2, <3>5
      <4>2. t.child[m][choose(m, q)] \in S /\ IsPrefix(t.child[m][choose(m, q)], q)
        BY <4>1, <3>1, <3>3 DEF Shape, ChildLeads
      <4>3. choose(m, q) \in 0..1
        BY <4>1, <3>1, <3>3, ChooseBelow, PrefixOrder
      <4>4. <<m, choose(m, q)>> # slot
        BY <4>1, <3>1, <3>3, <2>2, <1>4
      <4> QED BY <4>2, <4>3, <4>4, <2>5, <3>3, <1>2
    <3> QED BY <3>4, <3>5
  <2>8. ChildBelow(u)
    <3>1. SUFFICES ASSUME NEW m \in Nodes(u), NEW b \in 0..1, u.child[m][b] # Nil
                   PROVE  /\ m # u.child[m][b] /\ IsPrefix(m, u.child[m][b])
                          /\ choose(m, u.child[m][b]) = b
                          /\ u.parent[u.child[m][b]] = <<m, b>>
      BY DEF ChildBelow
    <3>2. m \in S
      BY <3>1, <2>5, <1>2
    <3>3. CASE <<m, b>> = slot
      BY <3>2, <3>3, <2>1, <2>5, <1>4
    <3>4. CASE <<m, b>> # slot
      <4>1. u.child[m][b] = t.child[m][b]
        BY <3>2, <3>4, <2>5
      <4>2. t.child[m][b] \in S
        BY <4>1, <3>1, <3>2, <1>1 DEF Tries
      <4>3. /\ m # t.child[m][b] /\ IsPrefix(m, t.child[m][b])
            /\ choose(m, t.child[m][b]) = b
            /\ t.parent[t.child[m][b]] = <<m, b>>
        BY <4>1, <3>1, <3>2 DEF Shape, ChildBelow
      <4> QED BY <4>1, <4>2, <4>3, <2>5
    <3> QED BY <3>3, <3>4
  <2>9. ParentAbove(u)
    <3>1. ASSUME NEW q \in S
          PROVE  \/ q = u.root /\ u.parent[q] = RootSlot
                 \/ /\ q # u.root
                    /\ \E m \in Nodes(u), b \in 0..1 : u.parent[q] = <<m, b>> /\ u.child[m][b] = q
      <4>1. \/ q = t.root /\ t.parent[q] = RootSlot
            \/ /\ q # t.root
               /\ \E m \in S, b \in 0..1 : t.parent[q] = <<m, b>> /\ t.child[m][b] = q
        BY DEF Shape, ParentAbove
      <4>2. CASE q = t.root /\ t.parent[q] = RootSlot
        BY <4>2, <2>5
      <4>3. CASE q # t.root
        <5>1. PICK m \in S, b \in 0..1 : t.parent[q] = <<m, b>> /\ t.child[m][b] = q
          BY <4>1, <4>3
        <5>2. u.child[m][b] = q
          BY <5>1, <2>5, <1>4, <1>1
        <5> QED BY <5>1, <5>2, <4>3, <2>5, <1>2
      <4> QED BY <4>1, <4>2, <4>3
    <3>2. /\ p # u.root
          /\ \E m \in Nodes(u), b \in 0..1 : u.parent[p] = <<m, b>> /\ u.child[m][b] = p
      <4>1. u.child[n][bit] = p
        BY <2>1, <2>5, <1>4
      <4>2. t.root # p
        BY <1>1 DEF Tries
      <4> QED BY <4>1, <4>2, <2>1, <2>5, <1>2, <1>4
    <3> QED BY <3>1, <3>2, <1>2 DEF ParentAbove
  <2> QED BY <1>2, <2>6, <2>7, <2>8, <2>9 DEF Shape
<1> QED BY <1>3, <1>4

\* A node between a slot and the node in it.
LEMMA AboveShape ==
  ASSUME NEW t, Shape(t), NEW p \in IPPrefixes, p \notin Nodes(t), NEW slot, NEW peer, NEW u,
         NEW down \in Nodes(t), IsPrefix(p, down),
         AboveOf(Nodes(t), t, slot, p, peer, down, u),
         \/ slot = RootSlot /\ down = t.root
         \/ \E n \in Nodes(t) : /\ IsPrefix(n, p) /\ slot = <<n, choose(n, p)>>
                                /\ t.child[n][choose(n, p)] = down
  PROVE  Shape(u)
<1> DEFINE S == Nodes(t)
           side == choose(p, down)
<1>1. t \in Tries(S) /\ S \subseteq IPPrefixes /\ Nil \notin S /\ p # Nil
  BY NilAssumption DEF Shape
<1>2. Nodes(u) = S \cup {p} /\ Nodes(u) \subseteq IPPrefixes /\ u \in Tries(Nodes(u))
  BY <1>1 DEF AboveOf
<1>3. /\ down \in IPPrefixes /\ p # down /\ side \in 0..1
      /\ \A q \in IPPrefixes : IsPrefix(down, q) => IsPrefix(p, q) /\ choose(p, q) = side
  <2>1. down \in IPPrefixes /\ p # down
    BY <1>1
  <2> QED BY <2>1, ChooseBelow, PrefixOrder, PrefixTransitive
<1>4. /\ u.root = IF slot = RootSlot THEN p ELSE t.root
      /\ u.parent[p] = slot
      /\ \A b \in 0..1 : u.child[p][b] = IF b = side THEN down ELSE Nil
      /\ \A q \in S :
           /\ u.parent[q] = IF q = down THEN <<p, side>> ELSE t.parent[q]
           /\ \A b \in 0..1 : u.child[q][b] = IF <<q, b>> = slot THEN p ELSE t.child[q][b]
  BY DEF AboveOf
\* the slot and the node in it
<1>5. t.parent[down] = slot
  <2>1. CASE slot = RootSlot /\ down = t.root
    BY <2>1 DEF Shape, ParentAbove
  <2>2. ASSUME NEW n \in S, IsPrefix(n, p), slot = <<n, choose(n, p)>>,
               t.child[n][choose(n, p)] = down
        PROVE  t.parent[down] = slot
    <3>1. choose(n, p) \in 0..1
      BY <1>1, <2>2, ChooseBelow, PrefixOrder
    <3> QED BY <3>1, <2>2, <1>1 DEF Shape, ChildBelow
  <2> QED BY <2>1, <2>2
<1>6. \A m \in S, b \in 0..1 : t.child[m][b] = down <=> <<m, b>> = slot
  <2>1. ASSUME NEW m \in S, NEW b \in 0..1, t.child[m][b] = down PROVE <<m, b>> = slot
    <3>1. t.child[m][b] # Nil
      BY <2>1, <1>1
    <3>2. t.parent[t.child[m][b]] = <<m, b>>
      BY <3>1 DEF Shape, ChildBelow
    <3> QED BY <3>2, <2>1, <1>5
  <2>2. ASSUME NEW m \in S, NEW b \in 0..1, <<m, b>> = slot PROVE t.child[m][b] = down
    BY <2>2 DEF RootSlot
  <2> QED BY <2>1, <2>2
<1>7. ASSUME NEW m \in S, NEW b \in 0..1, <<m, b>> = slot
      PROVE  IsPrefix(m, p) /\ m # p /\ choose(m, p) = b
  BY <1>7, <1>1 DEF RootSlot
<1>8. slot = RootSlot <=> down = t.root
  <2>1. slot = RootSlot => down = t.root
    BY <1>1 DEF RootSlot
  <2>2. down = t.root => slot = RootSlot
    BY <1>5 DEF Shape, ParentAbove
  <2> QED BY <2>1, <2>2
\* the nodes that cover p are above the slot, and down covers what p covers
<1>9. ASSUME NEW m \in S, IsPrefix(m, p)
      PROVE  /\ slot # RootSlot
             /\ m # down /\ IsPrefix(m, down) /\ choose(m, p) = choose(m, down)
             /\ choose(m, p) \in 0..1
             /\ t.child[m][choose(m, p)] = down \/ IsPrefix(t.child[m][choose(m, p)], p)
  <2>1. m \in IPPrefixes /\ m # p
    BY <1>1
  <2>2. choose(m, p) = choose(m, down) /\ choose(m, p) \in 0..1 /\ IsPrefix(m, down) /\ m # down
    BY <2>1, <1>3, <1>9, ChooseBelow, PrefixTransitive, PrefixOrder
  <2> DEFINE c == t.child[m][choose(m, p)]
  <2>3. c \in S /\ IsPrefix(c, down)
    BY <2>2 DEF Shape, ChildLeads
  <2>4. slot # RootSlot
    <3>1. SUFFICES ASSUME slot = RootSlot PROVE FALSE
      OBVIOUS
    <3>2. IsPrefix(down, m)
      BY <3>1, <1>8 DEF Shape, RootCovers
    <3> QED BY <3>2, <2>1, <2>2, <1>3, PrefixOrder
  <2>5. PICK n \in S : /\ IsPrefix(n, p) /\ slot = <<n, choose(n, p)>>
                       /\ t.child[n][choose(n, p)] = down
    BY <2>4
  <2>6. n \in IPPrefixes /\ n # p /\ choose(n, p) \in 0..1 /\ Len(m) \in Nat /\ Len(n) \in Nat
    BY <2>5, <1>1, ChooseBelow, PrefixOrder, PrefixType
  <2>7. CASE m = n
    BY <2>2, <2>4, <2>5, <2>7
  <2>8. CASE m # n /\ Len(m) <= Len(n)
    <3>1. IsPrefix(m, n)
      BY <2>1, <2>5, <2>6, <2>8, <1>9, PrefixesComparable
    <3>2. choose(m, n) = choose(m, p)
      BY <3>1, <2>1, <2>5, <2>6, <2>8, ChooseBelow
    <3>3. c \in S /\ IsPrefix(c, n)
      BY <3>1, <3>2, <2>8 DEF Shape, ChildLeads
    <3>4. IsPrefix(c, p)
      BY <3>3, <2>5, <2>6, <1>1, PrefixTransitive
    <3> QED BY <3>4, <2>2, <2>4
  <2>9. CASE m # n /\ Len(n) <= Len(m)
    <3>1. IsPrefix(n, m)
      BY <2>1, <2>5, <2>6, <2>9, <1>9, PrefixesComparable
    <3>2. choose(n, m) = choose(n, p)
      BY <3>1, <2>1, <2>6, <2>9, <1>9, ChooseBelow
    <3>3. IsPrefix(down, m)
      BY <3>1, <3>2, <2>5, <2>9 DEF Shape, ChildLeads
    <3> QED BY <3>3, <2>1, <2>2, <1>3, PrefixOrder
  <2> QED BY <2>6, <2>7, <2>8, <2>9
<1>10. ASSUME NEW q \in S, IsPrefix(p, q) PROVE IsPrefix(down, q)
  <2>1. q \in IPPrefixes
    BY <1>1
  <2>2. CASE slot = RootSlot
    BY <2>2, <1>8 DEF Shape, RootCovers
  <2>3. CASE slot # RootSlot
    <3>1. PICK n \in S : /\ IsPrefix(n, p) /\ slot = <<n, choose(n, p)>>
                         /\ t.child[n][choose(n, p)] = down
      BY <2>3
    <3>2. n \in IPPrefixes /\ n # p
      BY <1>1
    <3>3. IsPrefix(n, q) /\ n # q /\ choose(n, q) = choose(n, p)
      BY <3>1, <3>2, <2>1, <1>10, PrefixTransitive, PrefixOrder, ChooseBelow
    <3> QED BY <3>1, <3>3 DEF Shape, ChildLeads
  <2> QED BY <2>2, <2>3
<1>11. RootCovers(u)
  <2>1. CASE slot = RootSlot
    <3>1. u.root = p /\ \A q \in S : IsPrefix(down, q)
      BY <2>1, <1>4, <1>8 DEF Shape, RootCovers
    <3>2. \A q \in S \cup {p} : IsPrefix(p, q)
      BY <3>1, <1>1, <1>3, PrefixOrder
    <3> QED BY <3>1, <3>2, <1>2 DEF RootCovers
  <2>2. CASE slot # RootSlot
    <3>1. u.root = t.root /\ t.root \in S /\ \A q \in S : IsPrefix(t.root, q)
      BY <2>2, <1>4 DEF Shape, RootCovers
    <3>2. PICK n \in S : IsPrefix(n, p)
      BY <2>2
    <3>3. IsPrefix(t.root, p)
      BY <3>1, <3>2, <1>1, PrefixTransitive
    <3> QED BY <3>1, <3>3, <1>2 DEF RootCovers
  <2> QED BY <2>1, <2>2
<1>12. ChildLeads(u)
  <2>1. SUFFICES ASSUME NEW m \in Nodes(u), NEW q \in Nodes(u), m # q, IsPrefix(m, q)
                 PROVE  /\ u.child[m][choose(m, q)] \in Nodes(u)
                        /\ IsPrefix(u.child[m][choose(m, q)], q)
    BY DEF ChildLeads
  <2>2. CASE m = p
    <3>1. q \in S /\ q \in IPPrefixes /\ IsPrefix(down, q)
      BY <2>1, <2>2, <1>1, <1>2, <1>10
    <3>2. choose(p, q) = side
      BY <3>1, <1>3
    <3> QED BY <3>1, <3>2, <2>2, <1>2, <1>3, <1>4
  <2>3. CASE m # p /\ q = p
    <3>1. m \in S
      BY <2>3, <1>2
    <3>2. IsPrefix(m, p) /\ choose(m, p) \in 0..1
      BY <2>1, <2>3, <3>1, <1>9
    <3>3. CASE <<m, choose(m, p)>> = slot
      <4>1. u.child[m][choose(m, p)] = p
        BY <3>1, <3>2, <3>3, <1>4
      <4> QED BY <4>1, <2>3, <1>2, PrefixOrder
    <3>4. CASE <<m, choose(m, p)>> # slot
      <4>1. u.child[m][choose(m, p)] = t.child[m][choose(m, p)]
        BY <3>1, <3>2, <3>4, <1>4
      <4>2. IsPrefix(t.child[m][choose(m, p)], p)
        BY <3>1, <3>2, <3>4, <1>6, <1>9
      <4>3. t.child[m][choose(m, p)] \in S
        BY <3>1, <3>2, <1>9 DEF Shape, ChildLeads
      <4> QED BY <4>1, <4>2, <4>3, <2>3, <1>2
    <3> QED BY <3>3, <3>4
  <2>4. CASE m # p /\ q # p
    <3>1. m \in S /\ q \in S /\ m \in IPPrefixes /\ q \in IPPrefixes
      BY <2>4, <1>1, <1>2
    <3>2. choose(m, q) \in 0..1
      BY <3>1, <2>1, ChooseBelow, PrefixOrder
    <3>3. t.child[m][choose(m, q)] \in S /\ IsPrefix(t.child[m][choose(m, q)], q)
      BY <3>1, <2>1 DEF Shape, ChildLeads
    <3>4. CASE <<m, choose(m, q)>> = slot
      <4>1. u.child[m][choose(m, q)] = p /\ IsPrefix(down, q)
        BY <3>1, <3>2, <3>3, <3>4, <1>4, <1>6
      <4> QED BY <4>1, <3>1, <1>2, <1>3
    <3>5. CASE <<m, choose(m, q)>> # slot
      BY <3>1, <3>2, <3>3, <3>5, <1>2, <1>4
    <3> QED BY <3>4, <3>5
  <2> QED BY <2>2, <2>3, <2>4
<1>13. ChildBelow(u)
  <2>1. SUFFICES ASSUME NEW m \in Nodes(u), NEW b \in 0..1, u.child[m][b] # Nil
                 PROVE  /\ m # u.child[m][b] /\ IsPrefix(m, u.child[m][b])
                        /\ choose(m, u.child[m][b]) = b
                        /\ u.parent[u.child[m][b]] = <<m, b>>
    BY DEF ChildBelow
  <2>2. CASE m = p
    BY <2>1, <2>2, <1>3, <1>4
  <2>3. CASE m # p /\ <<m, b>> = slot
    BY <2>3, <1>2, <1>4, <1>7
  <2>4. CASE m # p /\ <<m, b>> # slot
    <3>1. m \in S /\ u.child[m][b] = t.child[m][b]
      BY <2>4, <1>2, <1>4
    <3>2. t.child[m][b] \in S /\ t.child[m][b] # down
      BY <3>1, <2>1, <2>4, <1>1, <1>6 DEF Tries
    <3>3. /\ m # t.child[m][b] /\ IsPrefix(m, t.child[m][b])
          /\ choose(m, t.child[m][b]) = b
          /\ t.parent[t.child[m][b]] = <<m, b>>
      BY <3>1, <2>1 DEF Shape, ChildBelow
    <3> QED BY <3>1, <3>2, <3>3, <1>4
  <2> QED BY <2>2, <2>3, <2>4
<1>14. ParentAbove(u)
  <2> DEFINE Found(q) ==
        \/ q = u.root /\ u.parent[q] = RootSlot
        \/ /\ q # u.root
           /\ \E m \in Nodes(u), b \in 0..1 : u.parent[q] = <<m, b>> /\ u.child[m][b] = q
  <2>1. Found(p)
    <3>1. CASE slot = RootSlot
      BY <3>1, <1>4
    <3>2. CASE slot # RootSlot
      <4>1. PICK n \in S : IsPrefix(n, p) /\ slot = <<n, choose(n, p)>>
        BY <3>2
      <4>2. choose(n, p) \in 0..1
        BY <4>1, <1>9
      <4>3. u.child[n][choose(n, p)] = p
        BY <4>1, <4>2, <1>4
      <4>4. u.root # p
        BY <3>2, <1>1, <1>4 DEF Tries
      <4> QED BY <4>1, <4>2, <4>3, <4>4, <1>2, <1>4
    <3> QED BY <3>1, <3>2
  <2>2. Found(down)
    <3>1. u.child[p][side] = down /\ u.parent[down] = <<p, side>>
      BY <1>3, <1>4
    <3>2. u.root # down
      BY <1>3, <1>4, <1>8
    <3> QED BY <3>1, <3>2, <1>2, <1>3
  <2>3. ASSUME NEW q \in S, q # down PROVE Found(q)
    <3>1. u.parent[q] = t.parent[q]
      BY <2>3, <1>4
    <3>2. CASE q = t.root
      <4>1. t.parent[q] = RootSlot
        BY <3>2 DEF Shape, ParentAbove
      <4>2. slot # RootSlot
        BY <3>2, <2>3, <1>8
      <4> QED BY <4>1, <4>2, <3>1, <3>2, <1>4
    <3>3. CASE q # t.root
      <4>1. PICK m \in S, b \in 0..1 : t.parent[q] = <<m, b>> /\ t.child[m][b] = q
        BY <3>3 DEF Shape, ParentAbove
      <4>2. u.child[m][b] = q
        BY <4>1, <2>3, <1>4, <1>6
      <4>3. u.root # q
        BY <3>3, <1>4
      <4> QED BY <4>1, <4>2, <4>3, <3>1, <1>2
    <3> QED BY <3>2, <3>3
  <2>4. \A q \in Nodes(u) : Found(q)
    <3> HIDE DEF Found
    <3> QED BY <2>1, <2>2, <2>3, <1>2
  <2> QED BY <2>4 DEF ParentAbove
<1> QED BY <1>2, <1>11, <1>12, <1>13, <1>14 DEF Shape

\* A node with at most one child, replaced by that child.
LEMMA WithoutShape ==
  ASSUME NEW t, Shape(t), NEW node \in Nodes(t), NEW kid \in Nodes(t) \cup {Nil}, kid # node,
         NEW bit \in 0..1, t.child[node][bit] = kid, t.child[node][1 - bit] = Nil,
         NEW u, Without(Nodes(t), t, node, kid, u)
  PROVE  Shape(u)
<1> DEFINE S == Nodes(t)
           slot == t.parent[node]
<1>1. t \in Tries(S) /\ S \subseteq IPPrefixes /\ Nil \notin S
  BY NilAssumption DEF Shape
<1>2. Nodes(u) = S \ {node} /\ Nodes(u) \subseteq IPPrefixes /\ u \in Tries(Nodes(u))
  BY <1>1 DEF Without
<1>3. /\ u.root = IF slot = RootSlot THEN kid ELSE t.root
      /\ \A q \in S \ {node} :
           /\ u.parent[q] = IF q = kid THEN slot ELSE t.parent[q]
           /\ \A b \in 0..1 : u.child[q][b] = IF <<q, b>> = slot THEN kid ELSE t.child[q][b]
  BY DEF Without
<1>4. \A b \in 0..1 : b = bit \/ t.child[node][b] = Nil
  <2>1. \A b \in 0..1 : b = bit \/ b = 1 - bit
    OBVIOUS
  <2> QED BY <2>1
<1>5. \/ node = t.root /\ slot = RootSlot
      \/ /\ node # t.root
         /\ \E n \in S, b \in 0..1 : slot = <<n, b>> /\ t.child[n][b] = node
  BY DEF Shape, ParentAbove
<1>6. \A m \in S, b \in 0..1 : t.child[m][b] = node <=> <<m, b>> = slot
  <2>1. ASSUME NEW m \in S, NEW b \in 0..1, t.child[m][b] = node PROVE <<m, b>> = slot
    <3>1. t.child[m][b] # Nil
      BY <2>1, <1>1
    <3>2. t.parent[t.child[m][b]] = <<m, b>>
      BY <3>1 DEF Shape, ChildBelow
    <3> QED BY <3>2, <2>1
  <2>2. ASSUME NEW m \in S, NEW b \in 0..1, <<m, b>> = slot PROVE t.child[m][b] = node
    BY <2>2, <1>5, <1>1 DEF RootSlot
  <2> QED BY <2>1, <2>2
<1>7. slot = RootSlot <=> node = t.root
  BY <1>5, <1>1 DEF RootSlot
\* the child covers everything below the node
<1>8. ASSUME NEW q \in S, q # node, IsPrefix(node, q)
      PROVE  kid \in S \ {node} /\ IsPrefix(kid, q)
  <2>1. choose(node, q) \in 0..1
    BY <1>8, <1>1, ChooseBelow, PrefixOrder
  <2>2. t.child[node][choose(node, q)] \in S /\ IsPrefix(t.child[node][choose(node, q)], q)
    BY <1>8 DEF Shape, ChildLeads
  <2>3. choose(node, q) = bit
    BY <2>1, <2>2, <1>1, <1>4
  <2> QED BY <2>2, <2>3
<1>9. ASSUME kid # Nil
      PROVE  kid \in S \ {node} /\ IsPrefix(node, kid) /\ t.parent[kid] = <<node, bit>>
             /\ choose(node, kid) = bit
  BY <1>9 DEF Shape, ChildBelow
<1>10. RootCovers(u)
  <2>1. CASE slot = RootSlot
    <3>1. u.root = kid /\ \A q \in S : IsPrefix(node, q)
      BY <2>1, <1>3, <1>7 DEF Shape, RootCovers
    <3>2. \A q \in Nodes(u) : kid \in Nodes(u) /\ IsPrefix(kid, q)
      BY <3>1, <1>2, <1>8
    <3>3. Nodes(u) = {} => kid = Nil
      BY <1>2, <1>9
    <3> QED BY <3>1, <3>2, <3>3 DEF RootCovers
  <2>2. CASE slot # RootSlot
    <3>1. u.root = t.root /\ t.root \in S \ {node} /\ \A q \in S : IsPrefix(t.root, q)
      BY <2>2, <1>3, <1>7 DEF Shape, RootCovers
    <3> QED BY <3>1, <1>2 DEF RootCovers
  <2> QED BY <2>1, <2>2
<1>11. ChildLeads(u)
  <2>1. SUFFICES ASSUME NEW m \in Nodes(u), NEW q \in Nodes(u), m # q, IsPrefix(m, q)
                 PROVE  /\ u.child[m][choose(m, q)] \in Nodes(u)
                        /\ IsPrefix(u.child[m][choose(m, q)], q)
    BY DEF ChildLeads
  <2>2. m \in S \ {node} /\ q \in S \ {node} /\ m \in IPPrefixes /\ q \in IPPrefixes
    BY <1>1, <1>2
  <2>3. choose(m, q) \in 0..1
    BY <2>1, <2>2, ChooseBelow, PrefixOrder
  <2>4. t.child[m][choose(m, q)] \in S /\ IsPrefix(t.child[m][choose(m, q)], q)
    BY <2>1, <2>2 DEF Shape, ChildLeads
  <2>5. CASE <<m, choose(m, q)>> = slot
    <3>1. t.child[m][choose(m, q)] = node /\ u.child[m][choose(m, q)] = kid
      BY <2>2, <2>3, <2>5, <1>3, <1>6
    <3>2. kid \in S \ {node} /\ IsPrefix(kid, q)
      BY <3>1, <2>2, <2>4, <1>8
    <3> QED BY <3>1, <3>2, <1>2
  <2>6. CASE <<m, choose(m, q)>> # slot
    <3>1. t.child[m][choose(m, q)] # node
          /\ u.child[m][choose(m, q)] = t.child[m][choose(m, q)]
      BY <2>2, <2>3, <2>6, <1>3, <1>6
    <3> QED BY <3>1, <2>4, <1>2
  <2> QED BY <2>5, <2>6
<1>12. ChildBelow(u)
  <2>1. SUFFICES ASSUME NEW m \in Nodes(u), NEW b \in 0..1, u.child[m][b] # Nil
                 PROVE  /\ m # u.child[m][b] /\ IsPrefix(m, u.child[m][b])
                        /\ choose(m, u.child[m][b]) = b
                        /\ u.parent[u.child[m][b]] = <<m, b>>
    BY DEF ChildBelow
  <2>2. m \in S /\ m # node
    BY <1>2
  <2>3. CASE <<m, b>> = slot
    <3>1. t.child[m][b] = node /\ u.child[m][b] = kid /\ kid # Nil
      BY <2>1, <2>2, <2>3, <1>3, <1>6
    <3>2. m # node /\ IsPrefix(m, node) /\ choose(m, node) = b
      BY <3>1, <2>2, <1>1 DEF Shape, ChildBelow
    <3>3. kid \in S \ {node} /\ IsPrefix(node, kid)
      BY <3>1, <1>9
    <3>4. IsPrefix(m, kid) /\ choose(m, kid) = b /\ m # kid
      BY <3>2, <3>3, <2>2, <1>1, PrefixTransitive, ChooseBelow, PrefixOrder
    <3> QED BY <3>1, <3>3, <3>4, <2>3, <1>3
  <2>4. CASE <<m, b>> # slot
    <3>1. u.child[m][b] = t.child[m][b] /\ t.child[m][b] # node
      BY <2>2, <2>4, <1>3, <1>6
    <3>2. t.child[m][b] \in S
      BY <3>1, <2>1, <2>2, <1>1 DEF Tries
    <3>3. /\ m # t.child[m][b] /\ IsPrefix(m, t.child[m][b])
          /\ choose(m, t.child[m][b]) = b
          /\ t.parent[t.child[m][b]] = <<m, b>>
      BY <3>1, <2>1, <2>2 DEF Shape, ChildBelow
    <3>4. t.child[m][b] # kid
      BY <3>2, <3>3, <2>2, <1>1, <1>9
    <3> QED BY <3>1, <3>2, <3>3, <3>4, <1>3
  <2> QED BY <2>3, <2>4
<1>13. ParentAbove(u)
  <2>1. SUFFICES ASSUME NEW q \in S \ {node}
                 PROVE  \/ q = u.root /\ u.parent[q] = RootSlot
                        \/ /\ q # u.root
                           /\ \E m \in Nodes(u), b \in 0..1 :
                                u.parent[q] = <<m, b>> /\ u.child[m][b] = q
    BY <1>2 DEF ParentAbove
  <2>2. CASE q = kid
    <3>1. u.parent[q] = slot
      BY <2>2, <1>3
    <3>2. CASE slot = RootSlot
      BY <3>1, <3>2, <2>2, <1>3
    <3>3. CASE slot # RootSlot
      <4>1. PICK n \in S, b \in 0..1 : slot = <<n, b>> /\ t.child[n][b] = node
        BY <3>3, <1>5
      <4>2. n # node
        BY <4>1, <1>1 DEF Shape, ChildBelow
      <4>3. u.child[n][b] = q
        BY <4>1, <4>2, <2>2, <1>3
      <4>4. t.root # q
        <5>1. t.parent[q] # RootSlot
          BY <2>1, <2>2, <1>1, <1>9 DEF RootSlot
        <5> QED BY <5>1, <2>1 DEF Shape, ParentAbove
      <4> QED BY <3>1, <3>3, <4>1, <4>2, <4>3, <4>4, <1>2, <1>3
    <3> QED BY <3>2, <3>3
  <2>3. CASE q # kid
    <3>1. u.parent[q] = t.parent[q]
      BY <2>3, <1>3
    <3>2. CASE q = t.root
      <4>1. t.parent[q] = RootSlot
        BY <3>2 DEF Shape, ParentAbove
      <4>2. slot # RootSlot
        BY <3>2, <1>7
      <4> QED BY <4>1, <4>2, <3>1, <3>2, <1>3
    <3>3. CASE q # t.root
      <4>1. PICK m \in S, b \in 0..1 : t.parent[q] = <<m, b>> /\ t.child[m][b] = q
        BY <3>3 DEF Shape, ParentAbove
      <4>2. m # node
        BY <4>1, <2>3, <1>1, <1>4
      <4>3. u.child[m][b] = q
        BY <4>1, <4>2, <1>3, <1>6
      <4>4. u.root # q
        BY <2>3, <3>3, <1>3
      <4> QED BY <4>1, <4>2, <4>3, <4>4, <3>1, <1>2
    <3> QED BY <3>2, <3>3
  <2> QED BY <2>2, <2>3
<1> QED BY <1>2, <1>10, <1>11, <1>12, <1>13 DEF Shape

-----------------------------------------------------------------------------
(* nodePlacement finds the longest node that covers a prefix.              *)

\* one step of the walk
PlacementStep(t, p, f, node) ==
  IF node = Nil \/ ~ IsPrefix(node, p) THEN Nil
  ELSE IF node = p THEN node
  ELSE IF f[t.child[node][choose(node, p)]] = Nil THEN node
  ELSE f[t.child[node][choose(node, p)]]

PlacementEq(t, p, f) ==
  f = [node \in Nodes(t) \cup {Nil} |-> PlacementStep(t, p, f, node)]

\* q is the longest node that covers p, of those below node
Nearest(t, p, node, q) ==
  /\ q \in Nodes(t) /\ IsPrefix(node, q) /\ IsPrefix(q, p)
  /\ \A r \in Nodes(t) : IsPrefix(node, r) /\ IsPrefix(r, p) => IsPrefix(r, q)

\* There is a longest node that covers p below every node that does.
LEMMA NearestExists ==
  ASSUME NEW t, Shape(t), NEW p \in IPPrefixes, NEW node \in Nodes(t), IsPrefix(node, p)
  PROVE  \E q : Nearest(t, p, node, q)
<1> DEFINE A == {r \in Nodes(t) : IsPrefix(node, r) /\ IsPrefix(r, p)}
<1>1. A \in SUBSET IPPrefixes /\ node \in A
  BY PrefixOrder DEF Shape
<1>2. PICK q \in A : \A r \in A : Len(r) <= Len(q)
  BY <1>1, LongestPrefix
<1>3. ASSUME NEW r \in A PROVE IsPrefix(r, q)
  BY <1>1, <1>2, PrefixesComparable
<1> QED BY <1>1, <1>2, <1>3 DEF Nearest

\* Two longest nodes are equal.
LEMMA NearestUnique ==
  ASSUME NEW t, Shape(t), NEW p \in IPPrefixes, NEW node \in Nodes(t), NEW q, NEW r,
         Nearest(t, p, node, q), Nearest(t, p, node, r)
  PROVE  q = r
  BY PrefixOrder DEF Nearest, Shape

\* The child on the way to p tells the rest.
LEMMA NearestStep ==
  ASSUME NEW t, Shape(t), NEW p \in IPPrefixes, NEW node \in Nodes(t), IsPrefix(node, p), node # p,
         NEW c, c = t.child[node][choose(node, p)]
  PROVE  /\ c \in Nodes(t) \cup {Nil}
         /\ c # Nil => c # node /\ IsPrefix(node, c)
         /\ (c = Nil \/ ~ IsPrefix(c, p)) => Nearest(t, p, node, node)
         /\ \A q : c # Nil /\ IsPrefix(c, p) /\ Nearest(t, p, c, q) => Nearest(t, p, node, q)
<1>1. Nodes(t) \subseteq IPPrefixes /\ Nil \notin Nodes(t) /\ node \in IPPrefixes
  BY NilAssumption DEF Shape
<1>2. choose(node, p) \in 0..1
  BY <1>1, ChooseBelow, PrefixOrder
<1>3. c \in Nodes(t) \cup {Nil} /\ (c # Nil => c # node /\ IsPrefix(node, c))
  BY <1>2 DEF Shape, Tries, ChildBelow
<1>4. ASSUME NEW r \in Nodes(t), IsPrefix(node, r), IsPrefix(r, p), r # node
      PROVE  c # Nil /\ IsPrefix(c, r) /\ IsPrefix(c, p)
  <2>1. choose(node, r) = choose(node, p)
    BY <1>1, <1>4, ChooseBelow
  <2>2. c \in Nodes(t) /\ IsPrefix(c, r)
    BY <2>1, <1>4 DEF Shape, ChildLeads
  <2> QED BY <2>2, <1>1, <1>4, PrefixTransitive
<1>5. (c = Nil \/ ~ IsPrefix(c, p)) => Nearest(t, p, node, node)
  <2>1. IsPrefix(node, node)
    BY <1>1, PrefixOrder
  <2> QED BY <2>1, <1>4 DEF Nearest
<1>6. ASSUME NEW q, c # Nil, IsPrefix(c, p), Nearest(t, p, c, q) PROVE Nearest(t, p, node, q)
  <2>1. c \in IPPrefixes /\ q \in Nodes(t) /\ q \in IPPrefixes /\ IsPrefix(c, q) /\ IsPrefix(q, p)
    BY <1>1, <1>3, <1>6 DEF Nearest
  <2>2. IsPrefix(node, q)
    BY <2>1, <1>1, <1>3, <1>6, PrefixTransitive
  <2>3. ASSUME NEW r \in Nodes(t), IsPrefix(node, r), IsPrefix(r, p) PROVE IsPrefix(r, q)
    <3>1. CASE r = node
      BY <3>1, <2>2
    <3>2. CASE r # node
      BY <3>2, <2>3, <1>4, <1>6 DEF Nearest
    <3> QED BY <3>1, <3>2
  <2> QED BY <2>1, <2>2, <2>3 DEF Nearest
<1> QED BY <1>3, <1>5, <1>6

\* The longest nodes solve the equation of the walk.
LEMMA PlacementSolution ==
  ASSUME NEW t, Shape(t), NEW p \in IPPrefixes
  PROVE  \E f : PlacementEq(t, p, f)
<1> DEFINE Dead(node) == node = Nil \/ ~ IsPrefix(node, p)
           best(node) == IF Dead(node) THEN Nil ELSE CHOOSE q : Nearest(t, p, node, q)
           f == [node \in Nodes(t) \cup {Nil} |-> best(node)]
<1>1. Nodes(t) \subseteq IPPrefixes /\ Nil \notin Nodes(t)
  BY NilAssumption DEF Shape
<1>2. ASSUME NEW node \in Nodes(t), ~ Dead(node) PROVE Nearest(t, p, node, best(node))
  BY <1>2, NearestExists
<1>3. ASSUME NEW node \in Nodes(t) \cup {Nil} PROVE f[node] = PlacementStep(t, p, f, node)
  <2>1. CASE Dead(node)
    BY <2>1 DEF PlacementStep
  <2>2. CASE ~ Dead(node) /\ node = p
    <3>1. node \in Nodes(t) /\ f[node] = best(node)
      BY <2>2
    <3>2. Nearest(t, p, node, node)
      BY <2>2, <3>1, PrefixOrder DEF Nearest
    <3>3. Nearest(t, p, node, best(node))
      BY <2>2, <3>1, <1>2
    <3> HIDE DEF best, f
    <3>4. f[node] = node
      BY <3>1, <3>2, <3>3, NearestUnique
    <3> QED BY <3>4, <2>2 DEF PlacementStep
  <2>3. CASE ~ Dead(node) /\ node # p
    <3>1. PICK c : c = t.child[node][choose(node, p)]
      OBVIOUS
    <3>2. node \in Nodes(t) /\ IsPrefix(node, p)
      BY <2>3
    <3>3. /\ c \in Nodes(t) \cup {Nil}
          /\ (c = Nil \/ ~ IsPrefix(c, p)) => Nearest(t, p, node, node)
          /\ \A q : c # Nil /\ IsPrefix(c, p) /\ Nearest(t, p, c, q) => Nearest(t, p, node, q)
      BY <3>1, <3>2, <2>3, NearestStep
    <3>4. f[node] = best(node) /\ f[c] = best(c) /\ Nearest(t, p, node, best(node))
      BY <3>2, <3>3, <2>3, <1>2
    <3>5. CASE Dead(c)
      <4>1. f[c] = Nil
        BY <3>4, <3>5
      <4>2. Nearest(t, p, node, node)
        BY <3>3, <3>5
      <4> HIDE DEF best, f
      <4>3. f[node] = node
        BY <4>2, <3>2, <3>4, NearestUnique
      <4> QED BY <4>1, <4>3, <3>1, <2>3 DEF PlacementStep
    <3>6. CASE ~ Dead(c)
      <4>1. c \in Nodes(t) /\ Nearest(t, p, c, best(c))
        BY <3>3, <3>6, <1>2
      <4>2. Nearest(t, p, node, best(c)) /\ best(c) # Nil
        BY <4>1, <3>3, <3>6, <1>1 DEF Nearest
      <4> HIDE DEF best, f
      <4>3. f[node] = f[c] /\ f[c] # Nil
        BY <4>2, <3>2, <3>4, NearestUnique
      <4> QED BY <4>3, <3>1, <2>3 DEF PlacementStep
    <3> QED BY <3>5, <3>6
  <2> QED BY <2>1, <2>2, <2>3
<1>4. f = [node \in Nodes(t) \cup {Nil} |-> f[node]]
  OBVIOUS
<1> HIDE DEF f
<1>5. PlacementEq(t, p, f)
  BY <1>3, <1>4 DEF PlacementEq
<1> QED BY <1>5

\* The walk satisfies its equation.
LEMMA PlacementUnfold ==
  ASSUME NEW t, Shape(t), NEW p \in IPPrefixes
  PROVE  PlacementEq(t, p, placement(t, p))
<1>1. PICK f : PlacementEq(t, p, f)
  BY PlacementSolution
<1> QED BY <1>1 DEF PlacementEq, PlacementStep, placement

\* What the walk finds from a node that covers p.
LEMMA PlacementFinds ==
  ASSUME NEW t, Shape(t), NEW p \in IPPrefixes, NEW f, PlacementEq(t, p, f)
  PROVE  \A node \in Nodes(t) : IsPrefix(node, p) => Nearest(t, p, node, f[node])
<1> DEFINE Bad == {node \in Nodes(t) : IsPrefix(node, p) /\ ~ Nearest(t, p, node, f[node])}
<1>1. Nodes(t) \subseteq IPPrefixes /\ Nil \notin Nodes(t)
  BY NilAssumption DEF Shape
<1>2. \A node \in Nodes(t) \cup {Nil} : f[node] = PlacementStep(t, p, f, node)
  BY DEF PlacementEq
<1>3. SUFFICES ASSUME Bad # {} PROVE FALSE
  OBVIOUS
<1>4. PICK node \in Bad : \A q \in Bad : Len(q) <= Len(node)
  <2>1. Bad \in SUBSET IPPrefixes
    BY <1>1
  <2> HIDE DEF Bad
  <2> QED BY <1>3, <2>1, LongestPrefix
<1>5. node \in Nodes(t) /\ node \in IPPrefixes /\ IsPrefix(node, p) /\ node # Nil
  BY <1>1, <1>4
<1>6. CASE node = p
  <2>1. f[node] = node
    BY <1>2, <1>5, <1>6 DEF PlacementStep
  <2>2. Nearest(t, p, node, node)
    BY <1>5, <1>6, PrefixOrder DEF Nearest
  <2> QED BY <1>4, <2>1, <2>2
<1>7. CASE node # p
  <2>1. PICK c : c = t.child[node][choose(node, p)]
    OBVIOUS
  <2>2. /\ c \in Nodes(t) \cup {Nil}
        /\ c # Nil => c # node /\ IsPrefix(node, c)
        /\ (c = Nil \/ ~ IsPrefix(c, p)) => Nearest(t, p, node, node)
        /\ \A q : c # Nil /\ IsPrefix(c, p) /\ Nearest(t, p, c, q) => Nearest(t, p, node, q)
    BY <2>1, <1>5, <1>7, NearestStep
  <2>3. f[node] = IF f[c] = Nil THEN node ELSE f[c]
    BY <2>1, <1>2, <1>5, <1>7 DEF PlacementStep
  <2>4. CASE c = Nil \/ ~ IsPrefix(c, p)
    <3>1. f[c] = Nil
      BY <2>2, <2>4, <1>2 DEF PlacementStep
    <3> QED BY <3>1, <2>2, <2>3, <2>4, <1>4
  <2>5. CASE c # Nil /\ IsPrefix(c, p)
    <3>1. c \in Nodes(t) /\ c \in IPPrefixes /\ Len(node) < Len(c)
      BY <2>2, <2>5, <1>1, <1>5, PrefixOrder
    <3>2. c \notin Bad
      BY <3>1, <1>4, <1>5, PrefixType
    <3>3. Nearest(t, p, c, f[c])
      BY <3>1, <3>2, <2>5
    <3>4. f[c] # Nil
      BY <3>3, <1>1 DEF Nearest
    <3> QED BY <3>3, <3>4, <2>2, <2>3, <2>5, <1>4
  <2> QED BY <2>4, <2>5
<1> QED BY <1>6, <1>7

\* nodePlacement finds the longest node that covers p, or Nil when none does.
LEMMA NodePlacementFinds ==
  ASSUME NEW t, Shape(t), NEW p \in IPPrefixes, NEW node, node = nodePlacement(t, p)
  PROVE  \/ node = Nil /\ \A q \in Nodes(t) : ~ IsPrefix(q, p)
         \/ /\ node \in Nodes(t) /\ IsPrefix(node, p)
            /\ \A q \in Nodes(t) : IsPrefix(q, p) => IsPrefix(q, node)
<1> DEFINE f == placement(t, p)
<1>1. PlacementEq(t, p, f) /\ node = f[t.root]
  BY PlacementUnfold DEF nodePlacement
<1> HIDE DEF f
<1>2. Nodes(t) \subseteq IPPrefixes /\ Nil \notin Nodes(t) /\ t.root \in Nodes(t) \cup {Nil}
  BY NilAssumption DEF Shape, Tries
<1>3. CASE t.root = Nil \/ ~ IsPrefix(t.root, p)
  <2>1. node = Nil
    BY <1>1, <1>2, <1>3 DEF PlacementEq, PlacementStep
  <2>2. ASSUME NEW q \in Nodes(t) PROVE ~ IsPrefix(q, p)
    <3>1. t.root \in Nodes(t) /\ IsPrefix(t.root, q)
      BY DEF Shape, RootCovers
    <3> QED BY <3>1, <1>2, <1>3, PrefixTransitive
  <2> QED BY <2>1, <2>2
<1>4. CASE t.root # Nil /\ IsPrefix(t.root, p)
  <2>1. t.root \in Nodes(t) /\ \A q \in Nodes(t) : IsPrefix(t.root, q)
    BY <1>2, <1>4 DEF Shape, RootCovers
  <2>2. Nearest(t, p, t.root, node)
    BY <2>1, <1>1, <1>4, PlacementFinds
  <2> QED BY <2>1, <2>2 DEF Nearest
<1> QED BY <1>3, <1>4

-----------------------------------------------------------------------------
(* insert.                                                                 *)

\* u has the entries of t and the new one; other new nodes are forks
Inserted(t, p, peer, u) ==
  /\ p \in Nodes(u) /\ u.peer[p] = peer
  /\ \A q \in Nodes(t) : q \in Nodes(u) /\ u.peer[q] = t.peer[q]
  /\ \A q \in Nodes(u) : q \in Nodes(t) \/ q = p \/ u.peer[q] = Nil

\* A fork between p and down is a node above down and a leaf.
LEMMA ForkParts ==
  ASSUME NEW t, Shape(t), NEW p \in IPPrefixes, p \notin Nodes(t), NEW peer \in RoutePeer,
         NEW slot \in Slots(Nodes(t)), NEW down \in Nodes(t),
         NEW m \in IPPrefixes, m \notin Nodes(t), m # p,
         choose(m, down) \in 0..1, choose(m, p) \in 0..1, choose(m, p) # choose(m, down),
         NEW u,
         u = Attach(Attach(Attach(AddNode(AddNode(t, p, peer), m, Nil),
                                  <<m, choose(m, down)>>, down),
                           <<m, choose(m, p)>>, p),
                    slot, m)
  PROVE  \E w : /\ AboveOf(Nodes(t), t, slot, m, Nil, down, w)
               /\ LeafIn(Nodes(w), w, <<m, choose(m, p)>>, p, peer, u)
<1> DEFINE S == Nodes(t)
           All == (S \cup {p}) \cup {m}
           left == <<m, choose(m, down)>>
           right == <<m, choose(m, p)>>
<1>1. t \in Tries(S) /\ down \notin {m, p}
  BY DEF Shape
<1>2. PICK w : w = Above(t, slot, m, Nil, down)
  OBVIOUS
<1>3. AboveOf(S, t, slot, m, Nil, down, w)
  <2>1. Nil \in RoutePeer \cup {Nil}
    OBVIOUS
  <2> QED BY <1>1, <1>2, <2>1, AboveParts
<1>4. PICK a : a = AddNode(t, p, peer)
  OBVIOUS
<1>5. Added(S, t, p, peer, a)
  <2>1. peer \in RoutePeer \cup {Nil}
    OBVIOUS
  <2> QED BY <1>1, <1>4, <2>1, AddNodeParts
<1>6. PICK b : b = AddNode(a, m, Nil)
  OBVIOUS
<1>7. Added(S \cup {p}, a, m, Nil, b)
  <2>1. Nil \in RoutePeer \cup {Nil} /\ a \in Tries(S \cup {p})
    BY <1>5 DEF Added
  <2> QED BY <1>6, <2>1, AddNodeParts
<1>8. /\ left \in Slots(All) /\ right \in Slots(All) /\ slot \in Slots(All)
      /\ m \in All /\ p \in All /\ down \in All
      /\ left # RootSlot /\ right # RootSlot /\ left # slot /\ right # slot /\ left # right
      /\ \A d \in 0..1 : <<m, d>> # slot /\ <<p, d>> # slot
  BY DEF Slots, RootSlot
<1>9. PICK c : c = Attach(b, left, down)
  OBVIOUS
<1>10. Attached(All, b, left, down, c)
  BY <1>7, <1>8, <1>9, AttachParts DEF Added
<1>11. PICK d : d = Attach(c, right, p)
  OBVIOUS
<1>12. Attached(All, c, right, p, d)
  <2>1. c \in Tries(All)
    BY <1>10 DEF Attached
  <2> HIDE DEF All, right
  <2> QED BY <2>1, <1>8, <1>11, AttachParts
<1>13. u = Attach(d, slot, m)
  BY <1>4, <1>6, <1>9, <1>11
<1>14. Attached(All, d, slot, m, u)
  <2>1. d \in Tries(All)
    BY <1>12 DEF Attached
  <2> HIDE DEF All
  <2> QED BY <2>1, <1>8, <1>13, AttachParts
\* u in the terms of t
<1>15. u \in Tries(All) /\ Nodes(u) = All /\ u.root = IF slot = RootSlot THEN m ELSE t.root
  BY <1>5, <1>7, <1>8, <1>10, <1>12, <1>14 DEF Attached, Added
<1>16. u.peer = b.peer /\ b.peer[p] = peer /\ b.peer[m] = Nil /\ \A q \in S : b.peer[q] = t.peer[q]
  BY <1>5, <1>7, <1>10, <1>12, <1>14 DEF Attached, Added
<1>17. /\ u.parent[p] = right /\ u.parent[m] = slot
       /\ \A q \in S : u.parent[q] = IF q = down THEN left ELSE t.parent[q]
  BY <1>1, <1>5, <1>7, <1>8, <1>10, <1>12, <1>14 DEF Attached, Added
<1>18. /\ \A e \in 0..1 : u.child[p][e] = Nil
       /\ \A e \in 0..1 : u.child[m][e] = IF <<m, e>> = right THEN p
                                       ELSE IF <<m, e>> = left THEN down ELSE Nil
  BY <1>5, <1>7, <1>8, <1>10, <1>12, <1>14 DEF Attached, Added
<1>19. \A q \in S, e \in 0..1 : u.child[q][e] = IF <<q, e>> = slot THEN m ELSE t.child[q][e]
  BY <1>5, <1>7, <1>8, <1>10, <1>12, <1>14 DEF Attached, Added
\* the same in the terms of w
<1>20. /\ Nodes(w) = S \cup {m} /\ Nodes(w) \cup {p} = All /\ w.root = u.root
       /\ w.peer[m] = Nil /\ w.parent[m] = slot
       /\ \A e \in 0..1 : w.child[m][e] = IF e = choose(m, down) THEN down ELSE Nil
       /\ \A q \in S :
            /\ w.peer[q] = t.peer[q]
            /\ w.parent[q] = IF q = down THEN left ELSE t.parent[q]
            /\ \A e \in 0..1 : w.child[q][e] = IF <<q, e>> = slot THEN m ELSE t.child[q][e]
  BY <1>3, <1>15 DEF AboveOf
<1>21. ASSUME NEW q \in Nodes(w)
       PROVE  /\ u.peer[q] = w.peer[q]
              /\ u.parent[q] = w.parent[q]
              /\ \A e \in 0..1 : u.child[q][e] = IF <<q, e>> = right THEN p ELSE w.child[q][e]
  <2>1. CASE q = m
    BY <2>1, <1>16, <1>17, <1>18, <1>20
  <2>2. CASE q # m
    BY <2>2, <1>16, <1>17, <1>19, <1>20
  <2> QED BY <2>1, <2>2
<1>22. LeafIn(Nodes(w), w, right, p, peer, u)
  <2> HIDE DEF All, right, left
  <2>1. u.root = IF right = RootSlot THEN p ELSE w.root
    BY <1>8, <1>20
  <2> QED BY <2>1, <1>15, <1>16, <1>17, <1>18, <1>20, <1>21 DEF LeafIn
<1> QED BY <1>3, <1>22

\* insert, when the prefix has no node yet.
LEMMA InsertNewCorrect ==
  ASSUME NEW t, TrieInv(t), NEW p \in IPPrefixes, p \notin Nodes(t), NEW peer \in RoutePeer,
         NEW u, u = insertNew(t, p, peer)
  PROVE  TrieInv(u) /\ Inserted(t, p, peer, u)
<1> DEFINE S == Nodes(t)
           node == IF t.root = Nil THEN Nil ELSE nodePlacement(t, p)
           slot == IF node = Nil THEN RootSlot ELSE <<node, choose(node, p)>>
           down == IF node = Nil THEN t.root ELSE t.child[node][choose(node, p)]
           common == SubSeq(p, 1, commonBits(down, p))
<1>1. /\ Shape(t) /\ t \in Tries(S) /\ S \subseteq IPPrefixes /\ Nil \notin S /\ p # Nil
      /\ peer \in RoutePeer \cup {Nil} /\ Nil \in RoutePeer \cup {Nil} /\ peer # Nil
  BY NilAssumption DEF TrieInv, Shape
<1>2. \/ node = Nil /\ \A q \in S : ~ IsPrefix(q, p)
      \/ /\ node \in S /\ IsPrefix(node, p)
         /\ \A q \in S : IsPrefix(q, p) => IsPrefix(q, node)
  <2>1. CASE t.root = Nil
    BY <2>1, <1>1 DEF Shape, RootCovers
  <2>2. CASE t.root # Nil
    BY <2>2, <1>1, NodePlacementFinds
  <2> QED BY <2>1, <2>2
<1>3. /\ (down = Nil => u = Leaf(t, slot, p, peer))
      /\ (down # Nil /\ common = p => u = Above(t, slot, p, peer, down))
      /\ (down # Nil /\ common # p =>
            u = Attach(Attach(Attach(AddNode(AddNode(t, p, peer), common, Nil),
                                     <<common, choose(common, down)>>, down),
                              <<common, choose(common, p)>>, p),
                       slot, common))
  BY DEF insertNew, Leaf, Above
<1> HIDE DEF node
<1>4. \/ /\ node = Nil /\ slot = RootSlot /\ down = t.root
         /\ \A q \in S : ~ IsPrefix(q, p)
      \/ /\ node \in S /\ IsPrefix(node, p) /\ choose(node, p) \in 0..1
         /\ slot = <<node, choose(node, p)>> /\ down = t.child[node][choose(node, p)]
         /\ \A q \in S : IsPrefix(q, p) => IsPrefix(q, node)
  <2>1. node \in S /\ IsPrefix(node, p) => choose(node, p) \in 0..1
    BY <1>1, ChooseBelow, PrefixOrder
  <2> QED BY <1>1, <1>2, <2>1
<1> HIDE DEF slot, down
<1>5. slot \in Slots(S) /\ down \in S \cup {Nil}
  BY <1>1, <1>4 DEF Slots, Tries
<1>6. CASE down = Nil
  <2>1. LeafIn(S, t, slot, p, peer, u)
    BY <1>1, <1>3, <1>5, <1>6, LeafParts
  <2>2. \/ slot = RootSlot /\ S = {}
        \/ \E n \in S : /\ IsPrefix(n, p) /\ slot = <<n, choose(n, p)>>
                        /\ t.child[n][choose(n, p)] = Nil
    BY <1>1, <1>4, <1>6 DEF Shape, RootCovers
  <2>3. Shape(u)
    BY <2>1, <2>2, <1>1, LeafShape
  <2>4. ForksFull(u)
    BY <2>1, <1>1 DEF LeafIn, ForksFull, TrieInv
  <2> QED BY <2>1, <2>3, <2>4 DEF TrieInv, Inserted, LeafIn
<1>7. CASE down # Nil
  <2>1. down \in S /\ down \in IPPrefixes /\ down # p
    BY <1>1, <1>5, <1>7
  <2>2. /\ common \in IPPrefixes /\ IsPrefix(common, p) /\ IsPrefix(common, down)
        /\ common # p /\ common # down => choose(common, p) # choose(common, down)
    BY <2>1, CommonPrefix
  <2>3. ~ IsPrefix(down, p)
    <3>1. CASE node = Nil
      BY <3>1, <2>1, <1>1, <1>4
    <3>2. CASE node # Nil
      <4>1. node \in S /\ IsPrefix(node, down) /\ node # down
        BY <3>2, <2>1, <1>1, <1>4, <1>7 DEF Shape, ChildBelow
      <4> QED BY <4>1, <2>1, <1>1, <1>4, PrefixOrder
    <3> QED BY <3>1, <3>2
  <2> HIDE DEF common
  <2>4. CASE common = p
    <3>1. IsPrefix(p, down) /\ choose(p, down) \in 0..1
      BY <2>1, <2>2, <2>4, ChooseBelow, PrefixOrder
    <3>2. AboveOf(S, t, slot, p, peer, down, u)
      BY <3>1, <2>1, <2>4, <1>1, <1>3, <1>5, <1>7, AboveParts
    <3>3. \/ slot = RootSlot /\ down = t.root
          \/ \E n \in S : /\ IsPrefix(n, p) /\ slot = <<n, choose(n, p)>>
                          /\ t.child[n][choose(n, p)] = down
      BY <1>4
    <3>4. Shape(u)
      BY <3>1, <3>2, <3>3, <2>1, <1>1, AboveShape
    <3>5. ForksFull(u)
      BY <3>2, <1>1 DEF AboveOf, ForksFull, TrieInv
    <3> QED BY <3>2, <3>4, <3>5 DEF TrieInv, Inserted, AboveOf
  <2>5. CASE common # p
    <3>1. common # down /\ choose(common, p) # choose(common, down)
      BY <2>2, <2>3, <2>5
    <3>2. choose(common, p) \in 0..1 /\ choose(common, down) \in 0..1
      BY <3>1, <2>1, <2>2, <2>5, ChooseBelow, PrefixOrder
    <3>3. ASSUME node # Nil
          PROVE  /\ ~ IsPrefix(common, node) /\ IsPrefix(node, common)
                 /\ choose(node, common) = choose(node, p)
      <4>1. node \in S /\ node \in IPPrefixes /\ IsPrefix(node, down) /\ node # down
            /\ choose(node, down) = choose(node, p) /\ IsPrefix(node, p)
        BY <3>3, <2>1, <1>1, <1>4, <1>7 DEF Shape, ChildBelow
      <4>2. ~ IsPrefix(common, node)
        <5>1. CASE common = node
          BY <5>1, <4>1, <3>1
        <5>2. CASE common # node /\ IsPrefix(common, node)
          BY <5>2, <4>1, <3>1, <2>1, <2>2, ChooseBelow
        <5> QED BY <5>1, <5>2, <4>1, PrefixOrder
      <4>3. Len(node) \in Nat /\ Len(common) \in Nat
        BY <4>1, <2>2, PrefixType
      <4>4. IsPrefix(node, common)
        BY <4>1, <4>2, <4>3, <2>2, PrefixesComparable
      <4>5. node # common
        BY <4>1, <4>2, PrefixOrder
      <4> QED BY <4>1, <4>2, <4>4, <4>5, <2>2, ChooseBelow
    <3>4. common \notin S
      BY <3>3, <2>2, <1>1, <1>4
    <3>5. PICK w : /\ AboveOf(S, t, slot, common, Nil, down, w)
                   /\ LeafIn(Nodes(w), w, <<common, choose(common, p)>>, p, peer, u)
      BY <3>1, <3>2, <3>4, <2>1, <2>2, <2>5, <1>1, <1>3, <1>5, <1>7, ForkParts
    <3>6. Shape(w)
      <4>1. \/ slot = RootSlot /\ down = t.root
            \/ \E n \in S : /\ IsPrefix(n, common) /\ slot = <<n, choose(n, common)>>
                            /\ t.child[n][choose(n, common)] = down
        BY <3>3, <1>1, <1>4
      <4> QED BY <4>1, <3>4, <3>5, <2>1, <2>2, <1>1, AboveShape
    <3>7. Nodes(w) = S \cup {common} /\ p \notin Nodes(w) /\ common \in Nodes(w)
      BY <3>5, <2>5 DEF AboveOf
    <3>8. w.child[common][choose(common, p)] = Nil
      BY <3>1, <3>2, <3>5 DEF AboveOf
    <3>9. Shape(u)
      BY <3>5, <3>6, <3>7, <3>8, <2>2, LeafShape
    <3>10. ForksFull(u)
      <4>1. SUFFICES ASSUME NEW n \in Nodes(u), u.peer[n] = Nil, NEW b \in 0..1
                     PROVE  u.child[n][b] # Nil
        BY DEF ForksFull
      <4>2. n # p /\ n \in Nodes(w) /\ w.peer[n] = Nil
        BY <4>1, <3>5, <1>1 DEF LeafIn
      <4>3. u.child[n][b] = IF <<n, b>> = <<common, choose(common, p)>> THEN p ELSE w.child[n][b]
        BY <4>2, <3>5 DEF LeafIn
      <4>4. CASE n = common
        <5>1. b = choose(common, p) \/ b = choose(common, down)
          BY <3>1, <3>2
        <5>2. b = choose(common, down) => w.child[n][b] = down
          BY <4>4, <3>5 DEF AboveOf
        <5> QED BY <5>1, <5>2, <4>3, <4>4, <1>1, <1>7
      <4>5. CASE n # common
        <5>1. n \in S
          BY <4>2, <4>5, <3>7
        <5>2. t.peer[n] = Nil /\ w.child[n][b] = IF <<n, b>> = slot THEN common ELSE t.child[n][b]
          BY <5>1, <4>2, <3>5 DEF AboveOf
        <5>3. common # Nil
          BY <2>2, PrefixType
        <5> QED BY <5>1, <5>2, <5>3, <4>3, <4>5, <1>1 DEF TrieInv, ForksFull
      <4> QED BY <4>4, <4>5
    <3>11. Inserted(t, p, peer, u)
      BY <3>5, <3>7 DEF Inserted, LeafIn, AboveOf
    <3> QED BY <3>9, <3>10, <3>11 DEF TrieInv
  <2> QED BY <2>4, <2>5
<1> QED BY <1>6, <1>7

-----------------------------------------------------------------------------
(* remove.                                                                 *)

\* u has the entries of t but the one of p; other nodes that are gone were forks
Removed(t, p, u) ==
  /\ \A q \in Nodes(u) : q \in Nodes(t) /\ u.peer[q] = IF q = p THEN Nil ELSE t.peer[q]
  /\ \A q \in Nodes(t) : q \in Nodes(u) \/ q = p \/ t.peer[q] = Nil

\* u is t with the leaf p cut, and then with n cut, whose child kid takes its place
InTwoCuts(t, p, n, kid, u) ==
  \E w : /\ Shape(w) /\ Without(Nodes(t), t, p, Nil, w)
        /\ Shape(u) /\ Without(Nodes(w), w, n, kid, u)

\* A leaf is removed with its fork: the leaf is cut, then the fork, whose other child
\* takes its place.
LEMMA UnforkParts ==
  ASSUME NEW t, Shape(t), NEW p \in Nodes(t), \A b \in 0..1 : t.child[p][b] = Nil,
         NEW n \in Nodes(t), NEW bit \in 0..1, t.parent[p] = <<n, bit>>, t.child[n][bit] = p,
         NEW kid \in Nodes(t), t.child[n][1 - bit] = kid,
         NEW u, u = Discard(Replace(SetSlot(t, t.parent[p], Nil), t.parent[n], kid), {p, n})
  PROVE  InTwoCuts(t, p, n, kid, u)
<1> USE DEF InTwoCuts
<1> DEFINE S == Nodes(t)
           slot == t.parent[p]
           top == t.parent[n]
<1>1. t \in Tries(S) /\ S \subseteq IPPrefixes /\ Nil \notin S /\ 1 - bit \in 0..1 /\ 1 - bit # bit
  BY NilAssumption DEF Shape
<1>2. n # p /\ kid # n /\ kid # p /\ slot # RootSlot
  <2>1. n # p /\ kid # n
    BY <1>1 DEF Shape, ChildBelow
  <2>2. t.parent[kid] = <<n, 1 - bit>>
    BY <1>1 DEF Shape, ChildBelow
  <2> QED BY <2>1, <2>2, <1>1 DEF RootSlot
<1>3. slot \in Slots(S) /\ top \in Slots(S)
  BY <1>1 DEF Tries
<1>4. PICK w : w = Cut(t, p, Nil)
  OBVIOUS
<1>5. Without(S, t, p, Nil, w)
  <2>1. Nil \in S \cup {Nil} /\ Nil # p /\ \A b \in 0..1 : t.child[p][b] \in {Nil, Nil}
    BY <1>1
  <2> QED BY <2>1, <1>4, CutParts
<1>6. Shape(w)
  <2>1. Nil \in S \cup {Nil} /\ Nil # p /\ t.child[p][bit] = Nil /\ t.child[p][1 - bit] = Nil
    BY <1>1
  <2> QED BY <2>1, <1>5, WithoutShape
<1>7. /\ w \in Tries(S \ {p}) /\ Nodes(w) = S \ {p} /\ w.root = t.root
      /\ \A q \in S \ {p} :
           /\ w.peer[q] = t.peer[q] /\ w.parent[q] = t.parent[q]
           /\ \A b \in 0..1 : w.child[q][b] = IF <<q, b>> = slot THEN Nil ELSE t.child[q][b]
  BY <1>1, <1>2, <1>5 DEF Without
<1>8. n \in Nodes(w) /\ kid \in Nodes(w) /\ w.child[n][1 - bit] = kid /\ w.child[n][bit] = Nil
      /\ w.parent[n] = top
  BY <1>1, <1>2, <1>7
<1>9. PICK cut : cut = SetSlot(t, slot, Nil)
  OBVIOUS
<1>10. Emptied(S, t, slot, cut)
  BY <1>1, <1>3, <1>9, EmptySlotParts
<1>11. PICK x : x = Attach(cut, top, kid)
  OBVIOUS
<1>12. Attached(S, cut, top, kid, x)
  <2>1. cut \in Tries(S)
    BY <1>10 DEF Emptied
  <2> QED BY <2>1, <1>3, <1>11, AttachParts
<1>13. PICK y : y = Attach(w, top, kid)
  OBVIOUS
<1>14. Attached(S \ {p}, w, top, kid, y)
  <2>1. top \in Slots(S \ {p}) /\ kid \in S \ {p}
    BY <1>7, <1>8 DEF Tries
  <2> QED BY <2>1, <1>7, <1>13, AttachParts
<1>15. x.root = y.root
  BY <1>2, <1>7, <1>10, <1>12, <1>14 DEF Emptied, Attached
<1>16. ASSUME NEW q \in S \ {p, n}
       PROVE  x.peer[q] = y.peer[q] /\ x.parent[q] = y.parent[q] /\ x.child[q] = y.child[q]
  <2>1. x.peer[q] = y.peer[q] /\ x.parent[q] = y.parent[q]
    BY <1>7, <1>10, <1>12, <1>14 DEF Emptied, Attached
  <2>2. \A b \in 0..1 : x.child[q][b] = y.child[q][b]
    BY <1>7, <1>10, <1>12, <1>14 DEF Emptied, Attached
  <2>3. x.child[q] \in [0..1 -> S \cup {Nil}]
    BY <1>12 DEF Attached, Tries
  <2>4. y.child[q] \in [0..1 -> (S \ {p}) \cup {Nil}]
    BY <1>14 DEF Attached, Tries
  <2> QED BY <2>1, <2>2, <2>3, <2>4
<1>17. u = Discard(x, {p, n})
  BY <1>1, <1>9, <1>11 DEF Replace
<1>18. u = Cut(w, n, kid)
  <2>1. Cut(w, n, kid) = Discard(y, {n})
    BY <1>1, <1>8, <1>13 DEF Cut, Replace
  <2>2. S \ {p, n} = (S \ {p}) \ {n}
    OBVIOUS
  <2> DEFINE K == Nodes(x) \ {p, n}
  <2>3. u = [root |-> x.root, peer |-> [q \in K |-> x.peer[q]],
             child |-> [q \in K |-> x.child[q]], parent |-> [q \in K |-> x.parent[q]]]
    <3>1. x \in Tries(S)
      BY <1>12 DEF Attached
    <3> QED BY <3>1, <1>17, DiscardFields
  <2> DEFINE L == Nodes(y) \ {n}
  <2>4. Discard(y, {n}) = [root |-> y.root, peer |-> [q \in L |-> y.peer[q]],
                           child |-> [q \in L |-> y.child[q]],
                           parent |-> [q \in L |-> y.parent[q]]]
    <3>1. y \in Tries(S \ {p})
      BY <1>14 DEF Attached
    <3> QED BY <3>1, DiscardFields
  <2>5. K = S \ {p, n} /\ K = L
    BY <1>12, <1>14, <2>2 DEF Attached
  <2>6. /\ [q \in K |-> x.peer[q]] = [q \in L |-> y.peer[q]]
        /\ [q \in K |-> x.child[q]] = [q \in L |-> y.child[q]]
        /\ [q \in K |-> x.parent[q]] = [q \in L |-> y.parent[q]]
    <3>1. \A q \in K : x.peer[q] = y.peer[q] /\ x.child[q] = y.child[q] /\ x.parent[q] = y.parent[q]
      BY <1>16, <2>5
    <3> HIDE DEF K, L
    <3> QED BY <3>1, <2>5
  <2> QED BY <2>1, <2>3, <2>4, <2>6, <1>15
<1>19. Without(Nodes(w), w, n, kid, u)
  <2>1. \A b \in 0..1 : w.child[n][b] \in {kid, Nil}
    <3>1. \A b \in 0..1 : b = bit \/ b = 1 - bit
      OBVIOUS
    <3> QED BY <3>1, <1>8
  <2> QED BY <2>1, <1>2, <1>6, <1>8, <1>18, CutParts
<1>20. Shape(u)
  <2>1. 1 - (1 - bit) = bit
    OBVIOUS
  <2>2. w.child[n][1 - (1 - bit)] = Nil
    BY <2>1, <1>8
  <2> QED BY <2>2, <1>1, <1>2, <1>6, <1>8, <1>19, WithoutShape
<1> QED BY <1>5, <1>6, <1>19, <1>20

\* remove keeps the invariant and takes one entry away.
LEMMA RemoveCorrect ==
  ASSUME NEW t, TrieInv(t), NEW p \in Nodes(t), t.peer[p] # Nil, NEW u, u = remove(t, p)
  PROVE  TrieInv(u) /\ Removed(t, p, u)
<1> DEFINE S == Nodes(t)
           bit == IF t.child[p][0] = Nil THEN 1 ELSE 0
           kid == t.child[p][bit]
           slot == t.parent[p]
<1>1. Shape(t) /\ t \in Tries(S) /\ S \subseteq IPPrefixes /\ Nil \notin S
  BY NilAssumption DEF TrieInv, Shape
<1>2. bit \in 0..1 /\ kid \in S \cup {Nil} /\ kid # p
  BY <1>1 DEF Shape, Tries, ChildBelow
<1>3. \/ p = t.root /\ slot = RootSlot /\ slot[2] > 1
      \/ \E n \in S, b \in 0..1 : /\ slot = <<n, b>> /\ t.child[n][b] = p /\ ~(slot[2] > 1)
                                   /\ slot[1] = n /\ slot[2] = b /\ slot # RootSlot
  BY <1>1 DEF Shape, ParentAbove, RootSlot
<1>4. CASE t.child[p][0] # Nil /\ t.child[p][1] # Nil
  <2>1. u = [t EXCEPT !.peer[p] = Nil]
    BY <1>4 DEF remove
  <2>2. u = [root |-> t.root, peer |-> [t.peer EXCEPT ![p] = Nil], child |-> t.child,
             parent |-> t.parent]
    BY <2>1, <1>1 DEF Tries
  <2>3. [t.peer EXCEPT ![p] = Nil] \in [S -> RoutePeer \cup {Nil}]
    BY <1>1 DEF Tries
  <2>4. u \in Tries(S) /\ Nodes(u) = S
    BY <2>2, <2>3, <1>1 DEF Tries, Nodes
  <2>5. u.root = t.root /\ u.child = t.child /\ u.parent = t.parent
        /\ u.peer = [t.peer EXCEPT ![p] = Nil]
    BY <2>2
  <2>6. Shape(u)
    BY <2>4, <2>5, <1>1, SameShape
  <2>7. \A q \in S : u.peer[q] = IF q = p THEN Nil ELSE t.peer[q]
    BY <2>5, <1>1 DEF Tries
  <2>8. ForksFull(u)
    <3>1. \A b \in 0..1 : b = 0 \/ b = 1
      OBVIOUS
    <3> QED BY <2>4, <2>5, <2>7, <3>1, <1>4 DEF ForksFull, TrieInv
  <2> QED BY <2>4, <2>6, <2>7, <2>8 DEF TrieInv, Removed
<1>5. CASE ~(t.child[p][0] # Nil /\ t.child[p][1] # Nil)
  <2>1. t.child[p][1 - bit] = Nil /\ \A b \in 0..1 : t.child[p][b] \in {kid, Nil}
    <3>1. \A b \in 0..1 : b = bit \/ b = 1 - bit
      OBVIOUS
    <3>2. t.child[p][1 - bit] = Nil
      BY <1>5
    <3> QED BY <3>1, <3>2
  <2>2. CASE kid # Nil \/ slot = RootSlot \/ t.peer[slot[1]] # Nil
    <3>1. u = Cut(t, p, kid)
      BY <1>3, <1>5, <2>2 DEF remove, Cut
    <3> HIDE DEF kid, bit
    <3>2. Without(S, t, p, kid, u)
      BY <3>1, <2>1, <1>1, <1>2, CutParts
    <3>3. Shape(u)
      BY <3>2, <2>1, <1>1, <1>2, WithoutShape DEF kid
    <3>4. ForksFull(u)
      <4>1. SUFFICES ASSUME NEW n \in Nodes(u), u.peer[n] = Nil, NEW b \in 0..1
                     PROVE  u.child[n][b] # Nil
        BY DEF ForksFull
      <4>2. n \in S /\ t.peer[n] = Nil
            /\ u.child[n][b] = IF <<n, b>> = slot THEN kid ELSE t.child[n][b]
        BY <4>1, <3>2 DEF Without
      <4>3. t.child[n][b] # Nil
        BY <4>2 DEF TrieInv, ForksFull
      <4>4. <<n, b>> = slot => kid # Nil
        BY <4>2, <2>2, <1>1 DEF RootSlot
      <4> QED BY <4>2, <4>3, <4>4
    <3>5. Removed(t, p, u)
      BY <3>2 DEF Without, Removed
    <3> QED BY <3>3, <3>4, <3>5 DEF TrieInv
  <2>3. CASE kid = Nil /\ slot # RootSlot /\ t.peer[slot[1]] = Nil
    <3>1. PICK n \in S, b \in 0..1 : /\ slot = <<n, b>> /\ t.child[n][b] = p /\ ~(slot[2] > 1)
                                     /\ slot[1] = n /\ slot[2] = b
      BY <2>3, <1>3
    <3>2. PICK sib : sib = t.child[n][1 - b]
      OBVIOUS
    <3>3. t.peer[n] = Nil /\ sib \in S /\ 1 - b \in 0..1
      <4>1. t.peer[n] = Nil /\ 1 - b \in 0..1
        BY <2>3, <3>1
      <4>2. sib # Nil
        BY <4>1, <3>2 DEF TrieInv, ForksFull
      <4> QED BY <4>1, <4>2, <3>2, <1>1 DEF Tries
    <3>4. u = Discard(Replace(SetSlot(t, slot, Nil), t.parent[n], sib), {p, n})
      BY <1>5, <2>3, <3>1, <3>2 DEF remove, Replace
    <3>5. \A d \in 0..1 : t.child[p][d] = Nil
      BY <2>1, <2>3
    <3> HIDE DEF kid, bit
    <3>6. PICK w : /\ Shape(w) /\ Without(S, t, p, Nil, w)
                   /\ Shape(u) /\ Without(Nodes(w), w, n, sib, u)
      <4>1. t.parent[p] = <<n, b>> /\ t.child[n][1 - b] = sib
        BY <3>1, <3>2
      <4>2. u = Discard(Replace(SetSlot(t, t.parent[p], Nil), t.parent[n], sib), {p, n})
        BY <3>4
      <4>3. p \in Nodes(t) /\ n \in Nodes(t) /\ sib \in Nodes(t) /\ Shape(t)
        BY <3>1, <3>3, <1>1
      <4>4. InTwoCuts(t, p, n, sib, u)
        BY <4>1, <4>2, <4>3, <3>1, <3>5, UnforkParts
      <4> QED BY <4>4 DEF InTwoCuts
    <3>7. Nodes(w) = S \ {p} /\ Nodes(u) = Nodes(w) \ {n}
      BY <3>6 DEF Without
    <3>8. \A q \in Nodes(u) : u.peer[q] = t.peer[q]
      BY <3>6, <3>7 DEF Without
    <3>9. ForksFull(u)
      <4>1. SUFFICES ASSUME NEW m \in Nodes(u), u.peer[m] = Nil, NEW d \in 0..1
                     PROVE  u.child[m][d] # Nil
        BY DEF ForksFull
      <4>2. m \in S /\ m # p /\ m # n /\ t.peer[m] = Nil
        BY <4>1, <3>7, <3>8
      <4>3. t.child[m][d] # Nil
        BY <4>2 DEF TrieInv, ForksFull
      <4>4. w.child[m][d] = t.child[m][d]
        BY <4>2, <3>1, <3>6 DEF Without
      <4>5. u.child[m][d] = sib \/ u.child[m][d] = w.child[m][d]
        BY <4>2, <3>6, <3>7 DEF Without
      <4> QED BY <4>3, <4>4, <4>5, <3>3, <1>1
    <3>10. Removed(t, p, u)
      BY <3>3, <3>7, <3>8 DEF Removed
    <3> QED BY <3>6, <3>9, <3>10 DEF TrieInv
  <2> QED BY <2>2, <2>3
<1> QED BY <1>4, <1>5

-----------------------------------------------------------------------------
(* Lookup answers with the longest entry.                                  *)

\* the answer of a node whose child answers v
OfNode(t, node, v) ==
  LET below == IF Len(node) = Width THEN Nil ELSE v
  IN  IF below # Nil THEN below ELSE t.peer[node]

\* one step of the walk
LookupStep(t, ip, f, node) ==
  IF node = Nil \/ ~ IsPrefix(node, ip) THEN Nil
  ELSE OfNode(t, node, f[t.child[node][choose(node, ip)]])

LookupEq(t, ip, f) ==
  f = [node \in Nodes(t) \cup {Nil} |-> LookupStep(t, ip, f, node)]

\* the entries from node on that cover the address
Matches(t, ip, node) ==
  {r \in Nodes(t) : t.peer[r] # Nil /\ IsPrefix(node, r) /\ IsPrefix(r, ip)}

\* v is the peer of the longest of them
Answer(t, ip, node, v) ==
  \/ v = Nil /\ Matches(t, ip, node) = {}
  \/ \E q \in Matches(t, ip, node) :
       v = t.peer[q] /\ \A r \in Matches(t, ip, node) : IsPrefix(r, q)

\* There is an answer, and only one.
LEMMA AnswerExists ==
  ASSUME NEW t, Shape(t), NEW ip \in IPPrefixes, NEW node \in Nodes(t)
  PROVE  \E v : Answer(t, ip, node, v)
<1> DEFINE A == Matches(t, ip, node)
<1>1. A \in SUBSET IPPrefixes /\ \A r \in A : IsPrefix(r, ip)
  BY DEF Shape, Matches
<1> HIDE DEF A
<1>2. CASE A = {}
  BY <1>2 DEF Answer, A
<1>3. CASE A # {}
  <2>1. PICK q \in A : \A r \in A : Len(r) <= Len(q)
    BY <1>1, <1>3, LongestPrefix
  <2>2. \A r \in A : IsPrefix(r, q)
    BY <1>1, <2>1, PrefixesComparable
  <2>3. Answer(t, ip, node, t.peer[q])
    BY <2>1, <2>2 DEF Answer, A
  <2> QED BY <2>3
<1> QED BY <1>2, <1>3

LEMMA AnswerUnique ==
  ASSUME NEW t, Shape(t), NEW ip \in IPPrefixes, NEW node \in Nodes(t), NEW v, NEW w,
         Answer(t, ip, node, v), Answer(t, ip, node, w)
  PROVE  v = w
<1> DEFINE A == Matches(t, ip, node)
<1>1. A \in SUBSET IPPrefixes
  BY DEF Shape, Matches
<1> HIDE DEF A
<1>2. \/ v = Nil /\ A = {}
      \/ \E q \in A : v = t.peer[q] /\ \A r \in A : IsPrefix(r, q)
  BY DEF Answer, A
<1>3. \/ w = Nil /\ A = {}
      \/ \E q \in A : w = t.peer[q] /\ \A r \in A : IsPrefix(r, q)
  BY DEF Answer, A
<1>4. CASE A = {}
  BY <1>2, <1>3, <1>4
<1>5. CASE A # {}
  <2>1. PICK q \in A : v = t.peer[q] /\ \A r \in A : IsPrefix(r, q)
    BY <1>2, <1>5
  <2>2. PICK k \in A : w = t.peer[k] /\ \A r \in A : IsPrefix(r, k)
    BY <1>3, <1>5
  <2>3. q = k
    BY <1>1, <2>1, <2>2, PrefixOrder
  <2> QED BY <2>1, <2>2, <2>3
<1> QED BY <1>4, <1>5

\* One step of the walk turns the answer of the child into the answer of the node.
LEMMA AnswerStep ==
  ASSUME NEW t, Shape(t), NEW ip \in Addresses, NEW node \in Nodes(t), IsPrefix(node, ip),
         NEW c, c = t.child[node][choose(node, ip)], NEW v,
         Len(node) # Width =>
           /\ (c = Nil \/ ~ IsPrefix(c, ip)) => v = Nil
           /\ c # Nil /\ IsPrefix(c, ip) => Answer(t, ip, c, v)
  PROVE  /\ Len(node) # Width => c \in Nodes(t) \cup {Nil}
         /\ Len(node) # Width /\ c # Nil => Len(node) < Len(c)
         /\ Answer(t, ip, node, OfNode(t, node, v))
<1>1. Nodes(t) \subseteq IPPrefixes /\ Nil \notin Nodes(t) /\ node \in IPPrefixes
  BY NilAssumption DEF Shape
<1>2. ip \in IPPrefixes /\ Len(ip) = Width
  BY WidthAssumption DEF Addresses, IPPrefixes
<1>3. t.peer[node] # Nil => node \in Matches(t, ip, node)
  BY <1>1, PrefixOrder DEF Matches
<1>4. ASSUME NEW r \in Matches(t, ip, node)
      PROVE  r \in Nodes(t) /\ IsPrefix(node, r) /\ IsPrefix(r, ip) /\ t.peer[r] # Nil
  BY DEF Matches
\* when no entry is longer than the node, its own peer is the answer
<1>5. ASSUME \A r \in Matches(t, ip, node) : r = node
      PROVE  Answer(t, ip, node, t.peer[node])
  <2>1. CASE t.peer[node] = Nil
    <3>1. Matches(t, ip, node) = {}
      BY <1>4, <1>5, <2>1
    <3> QED BY <2>1, <3>1 DEF Answer
  <2>2. CASE t.peer[node] # Nil
    <3>1. \A r \in Matches(t, ip, node) : IsPrefix(r, node)
      BY <1>1, <1>5, PrefixOrder
    <3> QED BY <2>2, <3>1, <1>3 DEF Answer
  <2> QED BY <2>1, <2>2
<1>6. CASE Len(node) = Width
  <2>1. node = ip
    BY <1>1, <1>2, <1>6, PrefixOrder
  <2>2. \A r \in Matches(t, ip, node) : r = node
    BY <2>1, <1>1, <1>4, PrefixOrder
  <2> QED BY <2>2, <1>5, <1>6 DEF OfNode
<1>7. CASE Len(node) # Width
  <2>1. node # ip
    BY <1>2, <1>7
  <2>2. choose(node, ip) \in 0..1
    BY <2>1, <1>1, <1>2, ChooseBelow, PrefixOrder
  <2>3. c \in Nodes(t) \cup {Nil} /\ (c # Nil => c # node /\ IsPrefix(node, c))
    BY <2>2 DEF Shape, Tries, ChildBelow
  <2>4. c # Nil => Len(node) < Len(c)
    BY <2>3, <1>1, PrefixOrder
  <2>5. ASSUME NEW r \in Matches(t, ip, node), r # node
        PROVE  c # Nil /\ IsPrefix(c, r) /\ IsPrefix(c, ip)
    <3>1. choose(node, r) = choose(node, ip)
      BY <1>1, <1>2, <1>4, <2>5, ChooseBelow
    <3>2. c \in Nodes(t) /\ IsPrefix(c, r)
      BY <3>1, <1>4, <2>5 DEF Shape, ChildLeads
    <3> QED BY <3>2, <1>1, <1>2, <1>4, PrefixTransitive
  <2>6. Answer(t, ip, node, IF v # Nil THEN v ELSE t.peer[node])
    <3>1. CASE c = Nil \/ ~ IsPrefix(c, ip)
      <4>1. v = Nil
        BY <3>1, <1>7
      <4> QED BY <4>1, <3>1, <2>5, <1>5
    <3>2. CASE c # Nil /\ IsPrefix(c, ip)
      <4>1. c \in Nodes(t) /\ Answer(t, ip, c, v)
        BY <3>2, <2>3, <1>7
      <4>2. \A r \in Matches(t, ip, node) : r = node \/ r \in Matches(t, ip, c)
        BY <1>4, <2>5 DEF Matches
      <4>3. ASSUME NEW q \in Matches(t, ip, c) PROVE q \in Matches(t, ip, node)
        <5>1. q \in Nodes(t) /\ IsPrefix(c, q)
          BY DEF Matches
        <5>2. IsPrefix(node, q)
          BY <5>1, <4>1, <3>2, <2>3, <1>1, PrefixTransitive
        <5> QED BY <5>2 DEF Matches
      <4>4. CASE Matches(t, ip, c) = {}
        <5>1. v = Nil
          BY <4>1, <4>4 DEF Answer
        <5> QED BY <5>1, <4>2, <4>4, <1>5
      <4>5. CASE Matches(t, ip, c) # {}
        <5>1. PICK q \in Matches(t, ip, c) :
                     v = t.peer[q] /\ \A r \in Matches(t, ip, c) : IsPrefix(r, q)
          BY <4>1, <4>5 DEF Answer
        <5>2. v # Nil /\ q \in Matches(t, ip, node) /\ IsPrefix(node, q)
          BY <5>1, <4>3, <1>4 DEF Matches
        <5>3. \A r \in Matches(t, ip, node) : IsPrefix(r, q)
          BY <5>1, <5>2, <4>2
        <5> QED BY <5>1, <5>2, <5>3 DEF Answer
      <4> QED BY <4>4, <4>5
    <3> QED BY <3>1, <3>2
  <2> QED BY <2>3, <2>4, <2>6, <1>7 DEF OfNode
<1> QED BY <1>6, <1>7

\* The answers solve the equation of the walk.
LEMMA LookupSolution ==
  ASSUME NEW t, Shape(t), NEW ip \in Addresses
  PROVE  \E f : LookupEq(t, ip, f)
<1> DEFINE Dead(node) == node = Nil \/ ~ IsPrefix(node, ip)
           best(node) == IF Dead(node) THEN Nil ELSE CHOOSE v : Answer(t, ip, node, v)
           f == [node \in Nodes(t) \cup {Nil} |-> best(node)]
<1>1. ip \in IPPrefixes
  BY WidthAssumption DEF Addresses, IPPrefixes
<1>2. ASSUME NEW node \in Nodes(t), ~ Dead(node) PROVE Answer(t, ip, node, best(node))
  BY <1>1, <1>2, AnswerExists
<1>3. ASSUME NEW node \in Nodes(t) \cup {Nil} PROVE f[node] = LookupStep(t, ip, f, node)
  <2>1. CASE Dead(node)
    BY <2>1 DEF LookupStep
  <2>2. CASE ~ Dead(node)
    <3>1. PICK c : c = t.child[node][choose(node, ip)]
      OBVIOUS
    <3>2. node \in Nodes(t) /\ IsPrefix(node, ip)
      BY <2>2
    <3>3. Answer(t, ip, node, best(node)) /\ f[node] = best(node)
      BY <3>2, <2>2, <1>2
    <3>4. Len(node) # Width => c \in Nodes(t) \cup {Nil}
      <4>1. SUFFICES ASSUME Len(node) # Width PROVE c \in Nodes(t) \cup {Nil}
        OBVIOUS
      <4>2. node # ip /\ node \in IPPrefixes
        BY <4>1, <3>2, WidthAssumption DEF Addresses, Shape
      <4>3. choose(node, ip) \in 0..1
        BY <4>2, <3>2, <1>1, ChooseBelow, PrefixOrder
      <4> QED BY <4>3, <3>1, <3>2 DEF Shape, Tries
    <3>5. Len(node) # Width =>
            /\ (c = Nil \/ ~ IsPrefix(c, ip)) => f[c] = Nil
            /\ c # Nil /\ IsPrefix(c, ip) => Answer(t, ip, c, f[c])
      BY <3>4, <1>2
    <3> HIDE DEF f, best
    <3>6. Answer(t, ip, node, OfNode(t, node, f[c]))
      BY <3>1, <3>2, <3>5, AnswerStep
    <3>7. Answer(t, ip, node, LookupStep(t, ip, f, node))
      BY <3>1, <3>6, <2>2 DEF LookupStep
    <3> QED BY <3>2, <3>3, <3>7, <1>1, AnswerUnique
  <2> QED BY <2>1, <2>2
<1>4. f = [node \in Nodes(t) \cup {Nil} |-> f[node]]
  OBVIOUS
<1> HIDE DEF f
<1>5. LookupEq(t, ip, f)
  BY <1>3, <1>4 DEF LookupEq
<1> QED BY <1>5

\* The walk satisfies its equation.
LEMMA LookupUnfold ==
  ASSUME NEW t, Shape(t), NEW ip \in Addresses
  PROVE  LookupEq(t, ip, lookup(t, ip))
<1>1. PICK f : LookupEq(t, ip, f)
  BY LookupSolution
<1> QED BY <1>1 DEF LookupEq, LookupStep, OfNode, lookup

\* What the walk answers from a node that covers the address.
LEMMA LookupFinds ==
  ASSUME NEW t, Shape(t), NEW ip \in Addresses, NEW f, LookupEq(t, ip, f)
  PROVE  \A node \in Nodes(t) : IsPrefix(node, ip) => Answer(t, ip, node, f[node])
<1> DEFINE Bad == {node \in Nodes(t) : IsPrefix(node, ip) /\ ~ Answer(t, ip, node, f[node])}
<1>1. Nodes(t) \subseteq IPPrefixes /\ Nil \notin Nodes(t)
  BY NilAssumption DEF Shape
<1>2. \A node \in Nodes(t) \cup {Nil} : f[node] = LookupStep(t, ip, f, node)
  BY DEF LookupEq
<1>3. SUFFICES ASSUME Bad # {} PROVE FALSE
  OBVIOUS
<1>4. PICK node \in Bad : \A q \in Bad : Len(q) <= Len(node)
  <2>1. Bad \in SUBSET IPPrefixes
    BY <1>1
  <2> HIDE DEF Bad
  <2> QED BY <1>3, <2>1, LongestPrefix
<1>5. node \in Nodes(t) /\ node \in IPPrefixes /\ IsPrefix(node, ip) /\ node # Nil
      /\ ~ Answer(t, ip, node, f[node])
  BY <1>1, <1>4
<1>6. PICK c : c = t.child[node][choose(node, ip)]
  OBVIOUS
<1>7. ip \in IPPrefixes /\ Len(ip) = Width
  BY WidthAssumption DEF Addresses, IPPrefixes
<1>8. ASSUME Len(node) # Width
      PROVE  /\ (c = Nil \/ ~ IsPrefix(c, ip)) => f[c] = Nil
             /\ c # Nil /\ IsPrefix(c, ip) => Answer(t, ip, c, f[c])
  <2>1. node # ip
    BY <1>7, <1>8
  <2>2. choose(node, ip) \in 0..1
    BY <2>1, <1>5, <1>7, ChooseBelow, PrefixOrder
  <2>3. c \in Nodes(t) \cup {Nil} /\ (c # Nil => c # node /\ IsPrefix(node, c))
    BY <2>2, <1>5, <1>6 DEF Shape, Tries, ChildBelow
  <2>4. (c = Nil \/ ~ IsPrefix(c, ip)) => f[c] = Nil
    BY <2>3, <1>2 DEF LookupStep
  <2>5. ASSUME c # Nil, IsPrefix(c, ip) PROVE Answer(t, ip, c, f[c])
    <3>1. c \in Nodes(t) /\ c \in IPPrefixes /\ Len(node) < Len(c)
      BY <2>3, <2>5, <1>1, <1>5, PrefixOrder
    <3>2. c \notin Bad
      BY <3>1, <1>4, <1>5, PrefixType
    <3> QED BY <3>1, <3>2, <2>5
  <2> QED BY <2>4, <2>5
<1>9. Answer(t, ip, node, OfNode(t, node, f[c]))
  <2> HIDE DEF Bad
  <2> QED BY <1>5, <1>6, <1>8, AnswerStep
<1>10. f[node] = LookupStep(t, ip, f, node)
  BY <1>2, <1>5
<1> QED BY <1>5, <1>6, <1>9, <1>10 DEF LookupStep

\* the routes that a trie holds
OwnedBy(t) == {p \in Nodes(t) : t.peer[p] # Nil}
RoutesOf(t) == [p \in OwnedBy(t) |-> t.peer[p]]

\* Lookup answers like the abstract table.
LEMMA LookupLongest ==
  ASSUME NEW t, Shape(t), NEW ip \in Addresses
  PROVE  Lookup(t, ip) = Table!LongestMatch(RoutesOf(t), ip)
<1> DEFINE f == lookup(t, ip)
           matches == {p \in DOMAIN RoutesOf(t) : Table!Covers(p, ip)}
           longest == CHOOSE p \in matches : \A q \in matches : Len(q) <= Len(p)
<1>1. Nodes(t) \subseteq IPPrefixes /\ Nil \notin Nodes(t) /\ t.root \in Nodes(t) \cup {Nil}
  BY NilAssumption DEF Shape, Tries
<1>2. ip \in IPPrefixes
  BY WidthAssumption DEF Addresses, IPPrefixes
<1>3. \A q \in Nodes(t) : Table!Covers(q, ip) <=> IsPrefix(q, ip)
  BY <1>1, <1>2, PrefixBits DEF Table!Covers
<1>4. matches = {p \in Nodes(t) : t.peer[p] # Nil /\ IsPrefix(p, ip)}
  BY <1>3 DEF RoutesOf, OwnedBy
<1>5. \A p \in matches : RoutesOf(t)[p] = t.peer[p]
  BY <1>4 DEF RoutesOf, OwnedBy
<1>6. Table!LongestMatch(RoutesOf(t), ip) = IF matches = {} THEN Nil ELSE RoutesOf(t)[longest]
  BY DEF Table!LongestMatch
<1>7. LookupEq(t, ip, f) /\ Lookup(t, ip) = f[t.root]
  BY LookupUnfold DEF Lookup
<1> HIDE DEF f
<1>8. CASE t.root = Nil \/ ~ IsPrefix(t.root, ip)
  <2>1. f[t.root] = Nil
    BY <1>1, <1>7, <1>8 DEF LookupEq, LookupStep
  <2>2. ASSUME NEW q \in Nodes(t) PROVE ~ IsPrefix(q, ip)
    <3>1. t.root \in Nodes(t) /\ IsPrefix(t.root, q)
      BY DEF Shape, RootCovers
    <3> QED BY <3>1, <1>1, <1>2, <1>8, PrefixTransitive
  <2>3. matches = {}
    BY <2>2, <1>4
  <2> QED BY <2>1, <2>3, <1>6, <1>7
<1>9. CASE t.root # Nil /\ IsPrefix(t.root, ip)
  <2>1. t.root \in Nodes(t) /\ \A q \in Nodes(t) : IsPrefix(t.root, q)
    BY <1>1, <1>9 DEF Shape, RootCovers
  <2>2. Answer(t, ip, t.root, f[t.root])
    BY <2>1, <1>7, <1>9, LookupFinds
  <2>3. matches = Matches(t, ip, t.root)
    BY <2>1, <1>4 DEF Matches
  <2>4. CASE matches = {}
    BY <2>2, <2>3, <2>4, <1>6, <1>7 DEF Answer
  <2>5. CASE matches # {}
    <3>1. PICK q \in matches : f[t.root] = t.peer[q] /\ \A r \in matches : IsPrefix(r, q)
      BY <2>2, <2>3, <2>5 DEF Answer
    <3>2. matches \subseteq IPPrefixes
      BY <1>1, <1>4
    <3> HIDE DEF matches
    <3>3. \A r \in matches : Len(r) <= Len(q)
      BY <3>1, <3>2, PrefixOrder
    <3>4. longest \in matches /\ \A r \in matches : Len(r) <= Len(longest)
      BY <3>3
    <3> HIDE DEF longest
    <3>5. longest = q
      <4>1. Len(longest) = Len(q)
        BY <3>2, <3>3, <3>4, PrefixType
      <4> QED BY <4>1, <3>1, <3>2, <3>4, PrefixOrder
    <3> QED BY <3>1, <3>5, <2>5, <1>5, <1>6, <1>7
  <2> QED BY <2>4, <2>5
<1> QED BY <1>8, <1>9

-----------------------------------------------------------------------------
(* The loop of RemoveByPeer.                                               *)

\* u has the entries of t that are not in R
Gone(t, R, u) ==
  /\ \A q \in Nodes(u) : q \in Nodes(t) /\ u.peer[q] = IF q \in R THEN Nil ELSE t.peer[q]
  /\ \A q \in Nodes(t) : q \in Nodes(u) \/ q \in R \/ t.peer[q] = Nil

\* g holds the tries of the first n rounds
Rounds(t, list, n, g) ==
  /\ g = [i \in 0..n |-> g[i]]
  /\ g[0] = t
  /\ \A i \in 1..n : g[i] = remove(g[i - 1], list[i])

\* The loop can run for any number of rounds.
LEMMA RoundsExist ==
  ASSUME NEW t, NEW list, NEW N \in Nat
  PROVE  \E g : Rounds(t, list, N, g)
<1> DEFINE Stuck == {n \in Nat : ~ \E g : Rounds(t, list, n, g)}
<1>1. SUFFICES ASSUME Stuck # {} PROVE FALSE
  OBVIOUS
<1>2. PICK n \in Stuck : \A k \in Stuck : n <= k
  <2>1. Stuck \in SUBSET Nat
    OBVIOUS
  <2> HIDE DEF Stuck
  <2> QED BY <1>1, <2>1, LeastNumber
<1>3. n # 0
  <2> DEFINE g == [i \in 0..0 |-> t]
  <2>1. g[0] = t /\ g = [i \in 0..0 |-> g[i]] /\ 1..0 = {}
    OBVIOUS
  <2>2. Rounds(t, list, 0, g)
    BY <2>1 DEF Rounds
  <2> QED BY <2>2
<1>4. n - 1 \in Nat /\ n - 1 \notin Stuck
  BY <1>2, <1>3
<1>5. PICK g : Rounds(t, list, n - 1, g)
  BY <1>4
<1> DEFINE h == [i \in 0..n |-> IF i = n THEN remove(g[n - 1], list[n]) ELSE g[i]]
<1>6. h = [i \in 0..n |-> h[i]]
  OBVIOUS
<1>7. h[0] = t
  BY <1>3, <1>4, <1>5 DEF Rounds
<1>8. ASSUME NEW i \in 1..n PROVE h[i] = remove(h[i - 1], list[i])
  <2>1. i - 1 \in 0..n /\ i - 1 # n /\ h[i - 1] = g[i - 1] /\ n \in Nat
    BY <1>4
  <2>2. CASE i = n
    BY <2>1, <2>2
  <2>3. CASE i # n
    <3>1. i \in 1..(n - 1) /\ h[i] = g[i]
      BY <2>1, <2>3
    <3> QED BY <2>1, <3>1, <1>5 DEF Rounds
  <2> QED BY <2>2, <2>3
<1>9. Rounds(t, list, n, h)
  <2> HIDE DEF h
  <2> QED BY <1>6, <1>7, <1>8 DEF Rounds
<1> QED BY <1>2, <1>9

\* removals runs through them.
LEMMA RemovalsUnfold ==
  ASSUME NEW t, NEW list, Len(list) \in Nat
  PROVE  Rounds(t, list, Len(list), removals(t, list))
<1> DEFINE N == Len(list)
           Eq(g) == g = [n \in 0..Len(list) |-> IF n = 0 THEN t ELSE remove(g[n - 1], list[n])]
<1>1. PICK g : Rounds(t, list, N, g)
  BY RoundsExist
<1>2. \A i \in 0..N : g[i] = IF i = 0 THEN t ELSE remove(g[i - 1], list[i])
  <2>1. \A i \in 0..N : i = 0 \/ i \in 1..N
    OBVIOUS
  <2> QED BY <2>1, <1>1 DEF Rounds
<1>3. g = [i \in 0..N |-> g[i]]
  BY <1>1 DEF Rounds
<1>4. Eq(g)
  BY <1>2, <1>3
<1>5. Eq(removals(t, list))
  BY <1>4 DEF removals
<1> DEFINE h == removals(t, list)
<1> HIDE DEF h
<1>6. h = [n \in 0..N |-> IF n = 0 THEN t ELSE remove(h[n - 1], list[n])]
  BY <1>5 DEF h
<1>7. DOMAIN h = 0..N /\ h[0] = t
  BY <1>6
<1>8. \A i \in 1..N : h[i] = remove(h[i - 1], list[i])
  <2>1. \A i \in 1..N : i \in 0..N /\ i # 0
    OBVIOUS
  <2> QED BY <2>1, <1>6
<1>9. h = [i \in 0..N |-> h[i]]
  BY <1>6, <1>7
<1>10. Rounds(t, list, N, h)
  BY <1>7, <1>8, <1>9 DEF Rounds
<1> QED BY <1>10 DEF h

\* Every round removes one entry, so the loop removes the entries of the list.
LEMMA RemovalsCorrect ==
  ASSUME NEW t, TrieInv(t), NEW list \in Seq(IPPrefixes), IsInjective(list),
         \A i \in 1..Len(list) : list[i] \in Nodes(t) /\ t.peer[list[i]] # Nil,
         NEW u, u = removals(t, list)[Len(list)]
  PROVE  TrieInv(u) /\ Gone(t, Range(list), u)
<1> DEFINE N == Len(list)
           h == removals(t, list)
           First(n) == {list[i] : i \in 1..n}
           Good(n) == TrieInv(h[n]) /\ Gone(t, First(n), h[n])
           Bad == {n \in Nat : n <= N /\ ~ Good(n)}
<1>1. N \in Nat /\ DOMAIN list = 1..N
  OBVIOUS
<1>2. Rounds(t, list, N, h)
  BY <1>1, RemovalsUnfold
<1> HIDE DEF h
<1>3. Good(0)
  <2>1. h[0] = t /\ First(0) = {}
    BY <1>2 DEF Rounds
  <2>2. Gone(t, {}, t)
    BY DEF Gone
  <2> QED BY <2>1, <2>2
<1>4. ASSUME NEW n \in 1..N, Good(n - 1) PROVE Good(n)
  <2>1. n - 1 \in Nat /\ n \in Nat /\ list[n] \in Nodes(t) /\ t.peer[list[n]] # Nil
    BY <1>1
  <2>2. First(n) = First(n - 1) \cup {list[n]}
    <3>1. \A i \in 1..n : i = n \/ i \in 1..(n - 1)
      BY <2>1
    <3>2. n \in 1..n /\ \A i \in 1..(n - 1) : i \in 1..n
      BY <2>1
    <3> QED BY <3>1, <3>2
  <2>3. list[n] \notin First(n - 1)
    <3>1. \A i \in 1..(n - 1) : i \in 1..N /\ i # n
      BY <1>1, <2>1
    <3>2. \A i \in 1..(n - 1) : list[i] # list[n]
      BY <3>1, <1>1 DEF IsInjective
    <3> QED BY <3>2
  <2>4. h[n] = remove(h[n - 1], list[n])
    BY <1>2 DEF Rounds
  <2> HIDE DEF First
  <2>5. list[n] \in Nodes(h[n - 1]) /\ h[n - 1].peer[list[n]] # Nil
    BY <1>4, <2>1, <2>3 DEF Gone
  <2>6. TrieInv(h[n]) /\ Removed(h[n - 1], list[n], h[n])
    BY <1>4, <2>4, <2>5, RemoveCorrect
  <2>7. Gone(t, First(n), h[n])
    BY <1>4, <2>2, <2>6 DEF Gone, Removed
  <2> QED BY <2>6, <2>7
<1>5. Good(N)
  <2>1. SUFFICES ASSUME Bad # {} PROVE FALSE
    <3>1. ~ Good(N) => N \in Bad
      <4>1. N \in Nat /\ N <= N
        BY <1>1
      <4> HIDE DEF Good
      <4> QED BY <4>1
    <3> QED BY <3>1
  <2>2. PICK n \in Bad : \A k \in Bad : n <= k
    <3>1. Bad \in SUBSET Nat
      OBVIOUS
    <3> HIDE DEF Bad
    <3> QED BY <2>1, <3>1, LeastNumber
  <2>3. n \in Nat /\ n <= N /\ ~ Good(n)
    BY <2>2
  <2> HIDE DEF Good
  <2>4. n # 0
    BY <2>3, <1>3
  <2>5. n \in 1..N /\ n - 1 \in Nat /\ n - 1 <= N /\ ~(n <= n - 1)
    BY <2>3, <2>4, <1>1
  <2>6. Good(n - 1)
    BY <2>2, <2>5
  <2> QED BY <2>3, <2>5, <2>6, <1>4
<1>6. First(N) = Range(list)
  BY <1>1 DEF Range
<1>7. u = h[N]
  BY DEF h
<1> QED BY <1>5, <1>6, <1>7

-----------------------------------------------------------------------------
(* The lists of the peers.                                                 *)

\* RemoveFirst takes a prefix out of a list that names it at most once.
LEMMA RemoveFirstEntry ==
  ASSUME NEW s \in Seq(IPPrefixes), IsInjective(s), NEW p, NEW r, r = RemoveFirst(s, p)
  PROVE  r \in Seq(IPPrefixes) /\ IsInjective(r) /\ Range(r) = Range(s) \ {p}
<1>1. Len(s) \in Nat /\ DOMAIN s = 1..Len(s)
  OBVIOUS
<1>2. CASE ~ \E i \in 1..Len(s) : s[i] = p
  BY <1>1, <1>2 DEF RemoveFirst, Range
<1>3. CASE \E i \in 1..Len(s) : s[i] = p
  <2>1. PICK i \in 1..Len(s) : s[i] = p
    BY <1>3
  <2> DEFINE I == {j \in 1..Len(s) : s[j] = p}
  <2>2. I = {i}
    BY <1>1, <2>1 DEF IsInjective
  <2>3. SelectInSeq(s, LAMBDA v : v = p) = IF I # {} THEN Min(I) ELSE 0
    BY DEF SelectInSeq
  <2>4. Min({i}) = i
    BY <2>1 DEF Min
  <2>5. SelectInSeq(s, LAMBDA v : v = p) = i
    BY <2>2, <2>3, <2>4
  <2>6. r = SubSeq(s, 1, i - 1) \o SubSeq(s, i + 1, Len(s))
    BY <1>3, <2>5 DEF RemoveFirst, RemoveAt
  <2> DEFINE a == SubSeq(s, 1, i - 1)
             b == SubSeq(s, i + 1, Len(s))
             n == Len(s) - 1
  <2>7. a \in Seq(IPPrefixes) /\ Len(a) = i - 1 /\ \A j \in 1..(i - 1) : a[j] = s[j]
    BY <1>1, <2>1
  <2>8. b \in Seq(IPPrefixes) /\ Len(b) = Len(s) - i /\ \A j \in 1..(Len(s) - i) : b[j] = s[i + j]
    <3>1. i + 1 \in 1..(Len(s) + 1) /\ Len(s) \in 0..Len(s)
      BY <1>1, <2>1
    <3>2. b \in Seq(IPPrefixes) /\ Len(b) = (IF i + 1 <= Len(s) THEN Len(s) - (i + 1) + 1 ELSE 0)
          /\ \A j \in 1..(Len(s) - (i + 1) + 1) : b[j] = s[(i + 1) + j - 1]
      BY <3>1, SubSeqProperties
    <3> HIDE DEF b
    <3>3. Len(b) = Len(s) - i /\ Len(s) - (i + 1) + 1 = Len(s) - i
      <4>1. Len(s) \in Nat /\ i \in Nat /\ i <= Len(s)
        BY <1>1, <2>1
      <4> QED BY <4>1, <3>2
    <3>4. \A j \in 1..(Len(s) - i) : (i + 1) + j - 1 = i + j
      BY <2>1
    <3> QED BY <3>2, <3>3, <3>4
  <2> HIDE DEF a, b
  <2>9. r \in Seq(IPPrefixes) /\ Len(r) = n
        /\ \A j \in 1..n : r[j] = IF j < i THEN s[j] ELSE s[j + 1]
    <3>1. r = a \o b
      BY <2>6 DEF a, b
    <3>2. r \in Seq(IPPrefixes) /\ Len(r) = Len(a) + Len(b)
      BY <3>1, <2>7, <2>8, ConcatProperties
    <3>3. Len(r) = n
      BY <3>2, <2>7, <2>8, <2>1, <1>1
    <3>4. ASSUME NEW j \in 1..n PROVE r[j] = IF j < i THEN s[j] ELSE s[j + 1]
      <4>1. CASE j < i
        BY <3>1, <4>1, <2>1, <2>7, <2>8, <1>1
      <4>2. CASE ~(j < i)
        <5>1. r[j] = b[j - (i - 1)] /\ j - (i - 1) \in 1..(Len(s) - i)
          BY <3>1, <4>2, <2>1, <2>7, <2>8, <1>1
        <5>2. i + (j - (i - 1)) = j + 1
          BY <2>1
        <5> QED BY <5>1, <5>2, <4>2, <2>8
      <4> QED BY <4>1, <4>2
    <3> QED BY <3>2, <3>3, <3>4
  <2>10. DOMAIN r = 1..n /\ n \in Nat
    BY <2>1, <2>9, <1>1
  <2>11. IsInjective(r)
    <3>1. SUFFICES ASSUME NEW j \in 1..n, NEW k \in 1..n, r[j] = r[k] PROVE j = k
      BY <2>10 DEF IsInjective
    <3> DEFINE At(m) == IF m < i THEN m ELSE m + 1
    <3>2. At(j) \in 1..Len(s) /\ At(k) \in 1..Len(s) /\ (At(j) = At(k) => j = k)
      BY <2>1, <2>10, <1>1
    <3>3. r[j] = s[At(j)] /\ r[k] = s[At(k)]
      BY <2>9
    <3> QED BY <3>1, <3>2, <3>3, <1>1 DEF IsInjective
  <2>12. Range(r) \subseteq Range(s) \ {p}
    <3>1. ASSUME NEW j \in 1..n PROVE r[j] \in Range(s) \ {p}
      <4> DEFINE m == IF j < i THEN j ELSE j + 1
      <4>1. m \in 1..Len(s) /\ m # i /\ r[j] = s[m]
        BY <2>1, <2>9, <2>10, <1>1
      <4>2. s[m] # p
        BY <4>1, <2>2
      <4> QED BY <4>1, <4>2, <1>1 DEF Range
    <3> QED BY <3>1, <2>10 DEF Range
  <2>13. Range(s) \ {p} \subseteq Range(r)
    <3>1. ASSUME NEW m \in 1..Len(s), s[m] # p PROVE s[m] \in Range(r)
      <4> DEFINE j == IF m < i THEN m ELSE m - 1
      <4>1. m # i
        BY <3>1, <2>1
      <4>2. j \in 1..n /\ m = IF j < i THEN j ELSE j + 1
        BY <4>1, <2>1, <1>1
      <4>3. r[j] = s[m]
        BY <4>2, <2>9
      <4> QED BY <4>2, <4>3, <2>10 DEF Range
    <3> QED BY <3>1, <1>1 DEF Range
  <2> QED BY <2>9, <2>11, <2>12, <2>13
<1> QED BY <1>2, <1>3

-----------------------------------------------------------------------------
(* The invariant of the table.                                             *)

\* the list of a peer names the entries of that peer in t, once each
ListsAgree(t, entries) ==
  /\ entries \in [RoutePeer -> Seq(IPPrefixes)]
  /\ \A peer \in RoutePeer :
       /\ IsInjective(entries[peer])
       /\ Range(entries[peer]) = {p \in Nodes(t) : t.peer[p] = peer}

TableInv == TrieInv(trie) /\ ListsAgree(trie, trieEntries)

\* WithoutEntry takes a prefix out of every list.
LEMMA WithoutEntryLists ==
  ASSUME ListsAgree(trie, trieEntries), NEW p
  PROVE  /\ WithoutEntry(p) \in [RoutePeer -> Seq(IPPrefixes)]
         /\ \A peer \in RoutePeer :
              /\ IsInjective(WithoutEntry(p)[peer])
              /\ Range(WithoutEntry(p)[peer]) = {q \in Nodes(trie) : trie.peer[q] = peer} \ {p}
<1>1. ASSUME NEW peer \in RoutePeer
      PROVE  /\ RemoveFirst(trieEntries[peer], p) \in Seq(IPPrefixes)
             /\ IsInjective(RemoveFirst(trieEntries[peer], p))
             /\ Range(RemoveFirst(trieEntries[peer], p))
                  = {q \in Nodes(trie) : trie.peer[q] = peer} \ {p}
  BY RemoveFirstEntry DEF ListsAgree
<1> QED BY <1>1 DEF WithoutEntry

\* Append adds a prefix that the list does not name.
LEMMA AppendEntry ==
  ASSUME NEW s \in Seq(IPPrefixes), IsInjective(s), NEW p \in IPPrefixes, p \notin Range(s)
  PROVE  /\ Append(s, p) \in Seq(IPPrefixes) /\ IsInjective(Append(s, p))
         /\ Range(Append(s, p)) = Range(s) \cup {p}
<1> DEFINE n == Len(s)
           r == Append(s, p)
<1>1. n \in Nat /\ DOMAIN s = 1..n
  OBVIOUS
<1>2. r \in Seq(IPPrefixes) /\ DOMAIN r = 1..(n + 1) /\ r[n + 1] = p
      /\ \A i \in 1..n : r[i] = s[i]
  BY <1>1
<1> HIDE DEF r
<1>3. \A i \in 1..(n + 1) : i = n + 1 \/ i \in 1..n
  BY <1>1
<1>4. \A i \in 1..n : i \in 1..(n + 1) /\ i # n + 1
  BY <1>1
<1>5. n + 1 \in 1..(n + 1)
  BY <1>1
<1> HIDE DEF n
<1>6. IsInjective(r)
  BY <1>1, <1>2, <1>3, <1>4 DEF IsInjective, Range
<1>7. Range(r) = Range(s) \cup {p}
  BY <1>1, <1>2, <1>3, <1>4, <1>5 DEF Range
<1> QED BY <1>2, <1>6, <1>7 DEF r

\* the owner of a prefix
EntryOf(t, q) == IF q \in Nodes(t) THEN t.peer[q] ELSE Nil

\* Insert keeps the trie's invariant and moves one entry to its new owner.
LEMMA InsertTrie ==
  ASSUME TableInv, NEW p \in IPPrefixes, NEW peer \in RoutePeer, Insert(p, peer)
  PROVE  /\ TrieInv(trie')
         /\ \A q : EntryOf(trie', q) = IF q = p THEN peer ELSE EntryOf(trie, q)
<1> DEFINE S == Nodes(trie)
<1>1. TrieInv(trie) /\ Shape(trie) /\ trie \in Tries(S) /\ peer # Nil
  BY NilAssumption DEF TableInv, TrieInv, Shape
<1>2. CASE p \in S
  <2> DEFINE pe == [trie.peer EXCEPT ![p] = peer]
  <2>1. trie' = [root |-> trie.root, peer |-> pe, child |-> trie.child, parent |-> trie.parent]
    BY <1>1, <1>2 DEF Insert, Tries
  <2>2. pe \in [S -> RoutePeer \cup {Nil}]
    BY <1>1 DEF Tries
  <2>3. PICK u : u = trie'
    OBVIOUS
  <2>4. u \in Tries(S) /\ Nodes(u) = S
    BY <2>1, <2>2, <2>3, <1>1 DEF Tries, Nodes
  <2>5. /\ u.root = trie.root /\ u.child = trie.child /\ u.parent = trie.parent
        /\ \A q \in S : u.peer[q] = IF q = p THEN peer ELSE trie.peer[q]
    BY <2>1, <2>3, <1>1 DEF Tries
  <2>6. Shape(u)
    BY <2>4, <2>5, <1>1, SameShape
  <2>7. ForksFull(u)
    BY <2>4, <2>5, <1>1 DEF TrieInv, ForksFull
  <2>8. \A q : EntryOf(u, q) = IF q = p THEN peer ELSE EntryOf(trie, q)
    BY <2>4, <2>5, <1>2 DEF EntryOf
  <2> QED BY <2>3, <2>6, <2>7, <2>8 DEF TrieInv
<1>3. CASE p \notin S
  <2>1. trie' = insertNew(trie, p, peer)
    BY <1>3 DEF Insert
  <2>2. TrieInv(trie') /\ Inserted(trie, p, peer, trie')
    BY <2>1, <1>1, <1>3, InsertNewCorrect
  <2>3. ASSUME NEW q PROVE EntryOf(trie', q) = IF q = p THEN peer ELSE EntryOf(trie, q)
    BY <2>2 DEF Inserted, EntryOf
  <2> QED BY <2>2, <2>3
<1> QED BY <1>2, <1>3

\* RemovePrefix changes nothing or takes away the entry of that peer.
LEMMA RemovePrefixTrie ==
  ASSUME TableInv, NEW p \in IPPrefixes, NEW peer \in RoutePeer, RemovePrefix(p, peer)
  PROVE  \/ UNCHANGED tableVars /\ EntryOf(trie, p) # peer
         \/ /\ TrieInv(trie') /\ trieEntries' = WithoutEntry(p) /\ EntryOf(trie, p) = peer
            /\ \A q : EntryOf(trie', q) = IF q = p THEN Nil ELSE EntryOf(trie, q)
<1>1. TrieInv(trie) /\ Shape(trie) /\ p # Nil /\ peer # Nil /\ Nodes(trie) \subseteq IPPrefixes
  BY NilAssumption DEF TableInv, TrieInv, Shape
<1>2. PICK node : node = nodePlacement(trie, p)
  OBVIOUS
<1>3. \/ node = Nil /\ \A q \in Nodes(trie) : ~ IsPrefix(q, p)
      \/ /\ node \in Nodes(trie) /\ IsPrefix(node, p)
         /\ \A q \in Nodes(trie) : IsPrefix(q, p) => IsPrefix(q, node)
  BY <1>1, <1>2, NodePlacementFinds
<1>4. p \in Nodes(trie) <=> node = p
  BY <1>1, <1>3, PrefixOrder
<1>5. CASE node = p /\ trie.peer[node] = peer
  <2>1. trie' = remove(trie, p) /\ trieEntries' = WithoutEntry(p)
    BY <1>2, <1>5 DEF RemovePrefix
  <2>2. TrieInv(trie') /\ Removed(trie, p, trie')
    BY <2>1, <1>1, <1>4, <1>5, RemoveCorrect
  <2>3. ASSUME NEW q PROVE EntryOf(trie', q) = IF q = p THEN Nil ELSE EntryOf(trie, q)
    BY <2>2, <1>4, <1>5 DEF Removed, EntryOf
  <2>4. EntryOf(trie, p) = peer
    BY <1>4, <1>5 DEF EntryOf
  <2> QED BY <2>1, <2>2, <2>3, <2>4
<1>6. CASE ~(node = p /\ trie.peer[node] = peer)
  <2>1. UNCHANGED tableVars
    BY <1>2, <1>6 DEF RemovePrefix
  <2>2. EntryOf(trie, p) # peer
    BY <1>1, <1>4, <1>6 DEF EntryOf
  <2> QED BY <2>1, <2>2
<1> QED BY <1>5, <1>6

\* RemoveByPeer takes away the entries of one peer.
LEMMA RemoveByPeerTrie ==
  ASSUME TableInv, NEW peer \in RoutePeer, RemoveByPeer(peer)
  PROVE  /\ TrieInv(trie')
         /\ \A q : EntryOf(trie', q) = IF EntryOf(trie, q) = peer THEN Nil ELSE EntryOf(trie, q)
<1> DEFINE list == trieEntries[peer]
<1>1. /\ TrieInv(trie) /\ peer # Nil /\ list \in Seq(IPPrefixes) /\ IsInjective(list)
      /\ Range(list) = {p \in Nodes(trie) : trie.peer[p] = peer}
  BY NilAssumption DEF TableInv, ListsAgree
<1>2. trie' = removals(trie, list)[Len(list)]
  BY DEF RemoveByPeer
<1> HIDE DEF list
<1>3. \A i \in 1..Len(list) : list[i] \in Nodes(trie) /\ trie.peer[list[i]] # Nil
  <2>1. \A i \in 1..Len(list) : list[i] \in Range(list)
    BY <1>1 DEF Range
  <2> QED BY <2>1, <1>1
<1>4. TrieInv(trie') /\ Gone(trie, Range(list), trie')
  BY <1>1, <1>2, <1>3, RemovalsCorrect
<1>5. ASSUME NEW q
      PROVE  EntryOf(trie', q) = IF EntryOf(trie, q) = peer THEN Nil ELSE EntryOf(trie, q)
  BY <1>1, <1>4 DEF Gone, EntryOf
<1> QED BY <1>4, <1>5

\* Lists that agree with the entries, in terms of EntryOf.
LEMMA ListsByEntry ==
  ASSUME NEW t, TrieInv(t), NEW entries, entries \in [RoutePeer -> Seq(IPPrefixes)],
         \A peer \in RoutePeer :
            /\ IsInjective(entries[peer])
            /\ \A q : q \in Range(entries[peer]) <=> EntryOf(t, q) = peer
  PROVE  ListsAgree(t, entries)
<1>1. ASSUME NEW peer \in RoutePeer
      PROVE  Range(entries[peer]) = {p \in Nodes(t) : t.peer[p] = peer}
  BY NilAssumption DEF EntryOf
<1> QED BY <1>1 DEF ListsAgree

\* Every step keeps the invariant.
LEMMA TableStep ==
  ASSUME TableInv, [TableNext]_tableVars
  PROVE  TableInv'
<1>1. /\ TrieInv(trie) /\ trieEntries \in [RoutePeer -> Seq(IPPrefixes)]
      /\ ListsAgree(trie, trieEntries)
      /\ \A peer \in RoutePeer :
           /\ IsInjective(trieEntries[peer])
           /\ \A q : q \in Range(trieEntries[peer]) <=> EntryOf(trie, q) = peer
  BY NilAssumption DEF TableInv, ListsAgree, EntryOf
<1>2. ASSUME NEW p \in IPPrefixes
      PROVE  /\ WithoutEntry(p) \in [RoutePeer -> Seq(IPPrefixes)]
             /\ \A peer \in RoutePeer :
                  /\ IsInjective(WithoutEntry(p)[peer])
                  /\ \A q : q \in Range(WithoutEntry(p)[peer])
                              <=> (EntryOf(trie, q) = peer /\ q # p)
  <2>1. \A peer \in RoutePeer : \A q :
          q \in {r \in Nodes(trie) : trie.peer[r] = peer} \ {p}
            <=> (EntryOf(trie, q) = peer /\ q # p)
    BY NilAssumption DEF EntryOf
  <2> QED BY <2>1, <1>1, WithoutEntryLists
<1>3. ASSUME NEW p \in IPPrefixes, NEW peer \in RoutePeer, Insert(p, peer)
      PROVE  TableInv'
  <2>1. /\ TrieInv(trie')
        /\ \A q : EntryOf(trie', q) = IF q = p THEN peer ELSE EntryOf(trie, q)
    BY <1>3, InsertTrie
  <2> DEFINE before == WithoutEntry(p)
             after == [before EXCEPT ![peer] = Append(before[peer], p)]
  <2>2. trieEntries' = after
    BY <1>3 DEF Insert
  <2>3. /\ before \in [RoutePeer -> Seq(IPPrefixes)]
        /\ \A r \in RoutePeer :
             /\ IsInjective(before[r])
             /\ \A q : q \in Range(before[r]) <=> (EntryOf(trie, q) = r /\ q # p)
    BY <1>2
  <2> HIDE DEF before
  <2>4. /\ Append(before[peer], p) \in Seq(IPPrefixes) /\ IsInjective(Append(before[peer], p))
        /\ Range(Append(before[peer], p)) = Range(before[peer]) \cup {p}
    BY <2>3, AppendEntry
  <2>5. after \in [RoutePeer -> Seq(IPPrefixes)]
    BY <2>3, <2>4
  <2>6. ASSUME NEW r \in RoutePeer
        PROVE  /\ IsInjective(after[r])
               /\ \A q : q \in Range(after[r]) <=> EntryOf(trie', q) = r
    <3>1. CASE r = peer
      <4>1. after[r] = Append(before[peer], p)
        BY <3>1, <2>3
      <4> QED BY <4>1, <3>1, <2>1, <2>3, <2>4
    <3>2. CASE r # peer
      <4>1. after[r] = before[r]
        BY <3>2, <2>3
      <4> QED BY <4>1, <3>2, <2>1, <2>3
    <3> QED BY <3>1, <3>2
  <2> HIDE DEF after
  <2>7. ListsAgree(trie', after)
    BY <2>1, <2>5, <2>6, ListsByEntry
  <2> QED BY <2>1, <2>2, <2>7 DEF TableInv
<1>4. ASSUME NEW p \in IPPrefixes, NEW peer \in RoutePeer, RemovePrefix(p, peer)
      PROVE  TableInv'
  <2>1. CASE UNCHANGED tableVars
    BY <2>1 DEF tableVars, TableInv
  <2>2. CASE /\ TrieInv(trie') /\ trieEntries' = WithoutEntry(p)
             /\ \A q : EntryOf(trie', q) = IF q = p THEN Nil ELSE EntryOf(trie, q)
    <3>1. \A r \in RoutePeer : r # Nil
      BY NilAssumption
    <3>2. \A r \in RoutePeer :
            /\ IsInjective(trieEntries'[r])
            /\ \A q : q \in Range(trieEntries'[r]) <=> EntryOf(trie', q) = r
      BY <3>1, <2>2, <1>2
    <3>3. trieEntries' \in [RoutePeer -> Seq(IPPrefixes)]
      BY <2>2, <1>2
    <3>4. ListsAgree(trie', trieEntries')
      BY <3>2, <3>3, <2>2, ListsByEntry
    <3> QED BY <3>4, <2>2 DEF TableInv
  <2> QED BY <2>1, <2>2, <1>4, RemovePrefixTrie
<1>5. ASSUME NEW peer \in RoutePeer, RemoveByPeer(peer)
      PROVE  TableInv'
  <2>1. /\ TrieInv(trie')
        /\ \A q : EntryOf(trie', q) = IF EntryOf(trie, q) = peer THEN Nil ELSE EntryOf(trie, q)
    BY <1>5, RemoveByPeerTrie
  <2>2. trieEntries' = [trieEntries EXCEPT ![peer] = <<>>]
    BY <1>5 DEF RemoveByPeer
  <2>3. trieEntries' \in [RoutePeer -> Seq(IPPrefixes)]
    BY <2>2, <1>1
  <2>4. ASSUME NEW r \in RoutePeer
        PROVE  /\ IsInjective(trieEntries'[r])
               /\ \A q : q \in Range(trieEntries'[r]) <=> EntryOf(trie', q) = r
    <3>1. r # Nil
      BY NilAssumption
    <3>2. CASE r = peer
      <4>1. trieEntries'[r] = <<>>
        BY <3>2, <2>2, <1>1
      <4>2. Range(<<>>) = {} /\ IsInjective(<<>>)
        BY DEF Range, IsInjective
      <4> QED BY <3>1, <3>2, <4>1, <4>2, <2>1
    <3>3. CASE r # peer
      <4>1. trieEntries'[r] = trieEntries[r]
        BY <3>3, <2>2, <1>1
      <4> QED BY <4>1, <3>1, <3>3, <2>1, <1>1
    <3> QED BY <3>2, <3>3
  <2>5. ListsAgree(trie', trieEntries')
    BY <2>1, <2>3, <2>4, ListsByEntry
  <2> QED BY <2>1, <2>5 DEF TableInv
<1>6. CASE UNCHANGED tableVars
  BY <1>6 DEF tableVars, TableInv
<1> QED BY <1>3, <1>4, <1>5, <1>6 DEF TableNext

\* The invariant holds at first.
LEMMA TableStart ==
  ASSUME TableInit
  PROVE  TableInv
<1>1. trie = [root |-> Nil, peer |-> <<>>, child |-> <<>>, parent |-> <<>>]
  BY DEF TableInit
<1>2. Nodes(trie) = {} /\ trie.root = Nil
  BY <1>1 DEF Nodes
<1>3. trie \in Tries({})
  <2>1. \A T : <<>> \in [{} -> T]
    OBVIOUS
  <2> QED BY <1>1, <2>1 DEF Tries
<1>4. TrieInv(trie)
  BY <1>2, <1>3 DEF TrieInv, Shape, RootCovers, ChildLeads, ChildBelow, ParentAbove, ForksFull
<1>5. ASSUME NEW peer \in RoutePeer
      PROVE  /\ trieEntries[peer] = <<>> /\ IsInjective(trieEntries[peer])
             /\ Range(trieEntries[peer]) = {p \in Nodes(trie) : trie.peer[p] = peer}
  BY <1>2 DEF TableInit, IsInjective, Range
<1>6. trieEntries \in [RoutePeer -> Seq(IPPrefixes)]
  BY DEF TableInit
<1> QED BY <1>4, <1>5, <1>6 DEF TableInv, ListsAgree

\* What the invariant says of the trie and of Lookup.
LEMMA TableInvMeans ==
  ASSUME TableInv
  PROVE  TrieCorrect
<1>1. Shape(trie) /\ Nil \notin Nodes(trie) /\ trie \in Tries(Nodes(trie))
  BY NilAssumption DEF TableInv, TrieInv, Shape
<1>2. ASSUME NEW node \in Nodes(trie)
      PROVE  LET slot == trie.parent[node]
             IN  IF slot[2] > 1 THEN trie.root = node
                 ELSE /\ slot[1] \in Nodes(trie)
                      /\ trie.child[slot[1]][slot[2]] = node
                      /\ IsStrictPrefix(slot[1], node)
                      /\ choose(slot[1], node) = slot[2]
  <2>1. CASE node = trie.root /\ trie.parent[node] = RootSlot
    BY <2>1 DEF RootSlot
  <2>2. CASE node # trie.root
    <3>1. PICK n \in Nodes(trie), b \in 0..1 : trie.parent[node] = <<n, b>> /\ trie.child[n][b] = node
      BY <2>2, <1>1 DEF Shape, ParentAbove
    <3>2. n # node /\ IsPrefix(n, node) /\ choose(n, node) = b
      BY <3>1, <1>1 DEF Shape, ChildBelow
    <3> QED BY <3>1, <3>2 DEF IsStrictPrefix
  <2> QED BY <2>1, <2>2, <1>1 DEF Shape, ParentAbove
<1>3. \A node \in Nodes(trie) :
        /\ trie.peer[node] = Nil => \A b \in 0..1 : trie.child[node][b] # Nil
        /\ \A b \in 0..1 : trie.child[node][b] \in Nodes(trie) \cup {Nil}
  BY <1>1 DEF TableInv, TrieInv, ForksFull, Tries
<1>4. trie.root \in Nodes(trie) \cup {Nil}
  BY <1>1 DEF Tries
<1>5. TrieWellFormed
  BY <1>2, <1>3, <1>4 DEF TrieWellFormed
<1>6. RoutesOf(trie) = [p \in Owned |-> trie.peer[p]]
  BY DEF RoutesOf, OwnedBy, Owned
<1>7. ASSUME NEW ip \in Addresses
      PROVE  Lookup(trie, ip) = Table!LongestMatch([p \in Owned |-> trie.peer[p]], ip)
  BY <1>1, <1>6, LookupLongest
<1>8. ASSUME NEW peer \in RoutePeer
      PROVE  /\ Range(trieEntries[peer]) = {p \in Owned : trie.peer[p] = peer}
             /\ IsInjective(trieEntries[peer])
  BY NilAssumption DEF TableInv, ListsAgree, Owned
<1> QED BY <1>5, <1>7, <1>8 DEF TrieCorrect, LookupIsLongestMatch

(* After any sequence of Insert, Remove and RemoveByPeer the trie is well formed, Lookup
   finds the longest prefix that covers an address, and the list of a peer names its
   entries once each: for any width of the addresses and any number of peers. *)
THEOREM TrieIsCorrect == TableSpec => []TrieCorrect
<1>1. TableInit => TableInv
  BY TableStart
<1>2. TableInv /\ [TableNext]_tableVars => TableInv'
  BY TableStep
<1>3. TableInv => TrieCorrect
  BY TableInvMeans
<1> QED BY <1>1, <1>2, <1>3, PTL DEF TableSpec

-----------------------------------------------------------------------------
(* The trie implements the abstract table.                                 *)

\* The routes of a trie, from its entries.
LEMMA RoutesByEntry ==
  ASSUME NEW t
  PROVE  /\ \A q : q \in OwnedBy(t) <=> EntryOf(t, q) # Nil
         /\ \A q \in OwnedBy(t) : RoutesOf(t)[q] = EntryOf(t, q)
         /\ DOMAIN RoutesOf(t) = OwnedBy(t)
         /\ RoutesOf(t) = [q \in OwnedBy(t) |-> EntryOf(t, q)]
<1>1. \A q : q \in OwnedBy(t) <=> EntryOf(t, q) # Nil
  BY DEF OwnedBy, EntryOf
<1>2. \A q \in OwnedBy(t) : t.peer[q] = EntryOf(t, q)
  BY DEF OwnedBy, EntryOf
<1> QED BY <1>1, <1>2 DEF RoutesOf

\* A step of the table is a step of the routes.
LEMMA RoutesStep ==
  ASSUME TableInv, [TableNext]_tableVars
  PROVE  [Table!RNext]_([p \in Owned |-> trie.peer[p]])
<1> DEFINE now == [p \in Owned |-> trie.peer[p]]
           next == [p \in Owned' |-> trie'.peer[p]]
           Has == OwnedBy(trie)
           Has2 == OwnedBy(trie')
<1>1. now = RoutesOf(trie) /\ next = RoutesOf(trie')
  BY DEF RoutesOf, OwnedBy, Owned
<1>2. /\ \A q : q \in Has <=> EntryOf(trie, q) # Nil
      /\ \A q \in Has : now[q] = EntryOf(trie, q)
      /\ DOMAIN now = Has
  BY <1>1, RoutesByEntry
<1>3. /\ \A q : q \in Has2 <=> EntryOf(trie', q) # Nil
      /\ next = [q \in Has2 |-> EntryOf(trie', q)]
  BY <1>1, RoutesByEntry
<1> HIDE DEF Has, Has2
<1>4. ASSUME NEW p \in IPPrefixes, NEW peer \in RoutePeer, Insert(p, peer)
      PROVE  Table!RNext
  <2>1. \A q : EntryOf(trie', q) = IF q = p THEN peer ELSE EntryOf(trie, q)
    BY <1>4, InsertTrie
  <2>2. peer # Nil
    BY NilAssumption
  <2>3. Has2 = DOMAIN now \cup {p}
    BY <2>1, <2>2, <1>2, <1>3
  <2>4. \A q \in Has2 : EntryOf(trie', q) = IF q = p THEN peer ELSE now[q]
    BY <2>1, <2>3, <1>2
  <2>5. next = [q \in DOMAIN now \cup {p} |-> IF q = p THEN peer ELSE now[q]]
    <3> HIDE DEF next, now
    <3> QED BY <2>3, <2>4, <1>3
  <2>6. Table!Add(p, peer)
    BY <2>5 DEF Table!Add
  <2> QED BY <2>6 DEF Table!RNext
<1>5. ASSUME NEW p \in IPPrefixes, NEW peer \in RoutePeer, RemovePrefix(p, peer)
      PROVE  Table!RNext \/ next = now
  <2>1. CASE UNCHANGED tableVars
    BY <2>1 DEF tableVars, Owned
  <2>2. CASE /\ EntryOf(trie, p) = peer
             /\ \A q : EntryOf(trie', q) = IF q = p THEN Nil ELSE EntryOf(trie, q)
    <3> DEFINE D == {q \in DOMAIN now : q # p \/ now[q] # peer}
    <3>1. Has2 = D
      BY <2>2, <1>2, <1>3
    <3>2. \A q \in Has2 : EntryOf(trie', q) = now[q]
      BY <3>1, <2>2, <1>2
    <3>3. next = [q \in D |-> now[q]]
      <4> HIDE DEF next, now, D
      <4> QED BY <3>1, <3>2, <1>3
    <3>4. Table!Drop(p, peer)
      BY <3>3 DEF Table!Drop, Table!Only
    <3> QED BY <3>4 DEF Table!RNext
  <2> QED BY <2>1, <2>2, <1>5, RemovePrefixTrie
<1>6. ASSUME NEW peer \in RoutePeer, RemoveByPeer(peer)
      PROVE  Table!RNext
  <2>1. \A q : EntryOf(trie', q) = IF EntryOf(trie, q) = peer THEN Nil ELSE EntryOf(trie, q)
    BY <1>6, RemoveByPeerTrie
  <2> DEFINE D == {q \in DOMAIN now : now[q] # peer}
  <2>2. Has2 = D
    BY <2>1, <1>2, <1>3
  <2>3. \A q \in Has2 : EntryOf(trie', q) = now[q]
    BY <2>1, <2>2, <1>2
  <2>4. next = [q \in D |-> now[q]]
    <3> HIDE DEF next, now, D
    <3> QED BY <2>2, <2>3, <1>3
  <2>5. Table!DropOwner(peer)
    BY <2>4 DEF Table!DropOwner, Table!Only
  <2> QED BY <2>5 DEF Table!RNext
<1>7. CASE UNCHANGED tableVars
  BY <1>7 DEF tableVars, Owned
<1> QED BY <1>4, <1>5, <1>6, <1>7 DEF TableNext

(* The trie with its forks implements the table of routes: Insert changes the route of one
   prefix, Remove drops it or changes nothing, and RemoveByPeer drops the routes of one
   peer, whatever nodes they add, move and discard. *)
THEOREM TrieRefinesRoutes == TableSpec => TrieImplementsRoutes
<1>1. TableInit => Table!RInit
  BY DEF TableInit, Table!RInit, Owned, Nodes
<1>2. TableInit => TableInv
  BY TableStart
<1>3. TableInv /\ [TableNext]_tableVars => TableInv'
  BY TableStep
<1>4. TableInv /\ [TableNext]_tableVars => [Table!RNext]_([p \in Owned |-> trie.peer[p]])
  BY RoutesStep
<1> QED BY <1>1, <1>2, <1>3, <1>4, PTL DEF TableSpec, TrieImplementsRoutes, Table!RSpec

-----------------------------------------------------------------------------
(* The components together                                                 *)

\* A behaviour of the composition is, seen through the variables of each component, a
\* behaviour of that component.
LEMMA ComponentsOfDevice ==
  DeviceSpec => TableSpec /\ ReplaySpec /\ CookieSpec /\ LimiterSpec /\ ConfigSpec
<1> DEFINE all == <<tableVars, replayVars, cookieVars, limiterVars, configVars, subject>>
<1>1. DeviceInit => TableInit /\ ReplayInit /\ CookieInit /\ LimiterInit /\ ConfigInit
  BY DEF DeviceInit
<1>2. [DeviceNext]_all => /\ [TableNext]_tableVars /\ [ReplayNext]_replayVars
                          /\ [CookieNext]_cookieVars /\ [LimiterNext]_limiterVars
                          /\ [ConfigNext]_configVars
  BY Zenon DEF DeviceNext
<1> QED
  BY <1>1, <1>2, PTL DEF DeviceSpec, TableSpec, ReplaySpec, CookieSpec, LimiterSpec, ConfigSpec

\* The types of the cookies, the limiter, the replay filter and the configuration hold in
\* every composition of them: the secret is never younger than now, the lock of the limiter
\* has one holder, and a source address is to be cleared only for a known endpoint.
THEOREM DeviceTypes == DeviceSpec => []DeviceTypeOK
<1>1. ReplayTypeOK /\ CookieTypeOK /\ LimiterTypeOK /\ ConfigTypeOK => DeviceTypeOK
  BY DEF DeviceTypeOK
<1> QED
  BY <1>1, ComponentsOfDevice, ReplayTypesHold, CookieTypesHold, LimiterTypesHold, ConfigTypes, PTL
=============================================================================

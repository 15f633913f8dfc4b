------------------------------- MODULE Cookie -------------------------------
(***************************************************************************)
(* Cookies for handshake messages of a device under load                   *)
(* (device/cookie.go, and the admission part of RoutineHandshake in        *)
(* device/receive.go): the CookieChecker of a device, its handshake        *)
(* workers, and the CookieGenerator of a remote peer.                      *)
(*                                                                         *)
(* A mac is the key and the text it was made from; a cookie is the secret  *)
(* and the source address.  A point in time is its distance to now, up to  *)
(* CookieRefreshTime + 1, which stands for the zero time as well.  The     *)
(* network keeps every message that was sent: one that is never taken is   *)
(* lost, and one that is taken twice was repeated.                         *)
(***************************************************************************)
EXTENDS Naturals, FiniteSets

CONSTANTS HsWorker, Source,
          CookieRefreshTime,
          None,
          MaxKeys, MaxSecrets, MaxRequests   \* bounds

ASSUME CookieBounds ==
  /\ CookieRefreshTime \in Nat
  /\ None \notin [secret : [id : Nat, drawn : Nat], src : Source]
  /\ MaxKeys \in Nat \ {0} /\ MaxSecrets \in Nat /\ MaxRequests \in Nat

VARIABLES pk,         \* the public key the checker was initialized with
          secret,     \* [id, drawn]: the secret and, history, the key at that time
          secretSet, secretAge,  \* age of the secret: as recorded, and history
          underLoad,  \* rate.underLoadUntil, as time that is left
          cpc,        \* the worker's message and what it does with it next
          gen,        \* the generator: [pk, cookie, cookieSet, lastMAC1]; history:
                      \* asked, the checker's secret when the last message was made
          request,    \* handshake messages sent
          answer,     \* cookie replies sent
          sent        \* number of requests

cookieVars == <<pk, secret, secretSet, secretAge, underLoad, cpc, gen, request, answer, sent>>

Zero == CookieRefreshTime + 1
Aged(t) == IF t < Zero THEN t + 1 ELSE t
Stale(t) == t > CookieRefreshTime

-----------------------------------------------------------------------------
(* CookieChecker.Init, called by SetPrivateKey *)
InitSecretSet_Keep(t) == t
InitSecretSet(t) == Zero

CheckerInit(key) ==
  /\ key # pk
  /\ pk' = key /\ secretSet' = InitSecretSet(secretSet)
  /\ UNCHANGED <<secret, secretAge, underLoad, cpc, gen, request, answer, sent>>

CheckMAC1(m) == m.mac1.pk = pk

CookieFor(src) == [secret |-> secret, src |-> src]

CheckMAC2(m) == ~ Stale(secretSet) /\ m.mac2 = CookieFor(m.src)

(* CreateReply, for a message m: the cookie is sealed with the key of this device,
   and the message's mac1 is authenticated with it. *)
Reply(m) ==
  answer' = answer \cup {[pk |-> pk, cookie |-> CookieFor(m.src), mac1 |-> m.mac1]}

Proceed(w, label) == cpc' = [cpc EXCEPT ![w].at = label]
Finish(w) == cpc' = [cpc EXCEPT ![w] = None]
Doing(w, label) == cpc[w] # None /\ cpc[w].at = label

(* RoutineHandshake takes a message and checks its mac1; one with a wrong mac1 changes
   nothing.  Every check below takes the lock anew, so a new key, another worker or the
   end of the secret's time may come between any two of them. *)
RoutineHandshake(w, m) ==
  /\ cpc[w] = None /\ CheckMAC1(m)
  /\ cpc' = [cpc EXCEPT ![w] = [at |-> "load", m |-> m]]
  /\ UNCHANGED <<pk, secret, secretSet, secretAge, underLoad, gen, request, answer, sent>>

IsUnderLoad(w, queueLong) ==
  /\ Doing(w, "load")
  /\ underLoad' = IF queueLong THEN 1 ELSE underLoad
  /\ IF queueLong \/ underLoad > 0 THEN Proceed(w, "mac2") ELSE Finish(w)
  /\ UNCHANGED <<pk, secret, secretSet, secretAge, gen, request, answer, sent>>

(* Under load a message with a valid mac2 is admitted; any other one is answered. *)
VerifyMAC2(w) ==
  /\ Doing(w, "mac2")
  /\ IF CheckMAC2(cpc[w].m) THEN Finish(w) ELSE Proceed(w, "create")
  /\ UNCHANGED <<pk, secret, secretSet, secretAge, underLoad, gen, request, answer, sent>>

(* CreateReply gives up the read lock when the secret is stale. *)
CreateReply(w) ==
  /\ Doing(w, "create")
  /\ IF Stale(secretSet) THEN Proceed(w, "refresh") /\ UNCHANGED answer
                         ELSE Finish(w) /\ Reply(cpc[w].m)
  /\ UNCHANGED <<pk, secret, secretSet, secretAge, underLoad, gen, request, sent>>

(* CreateReply draws a secret under the write lock, whoever else has done so since
   the check; or the source of randomness fails. *)
RefreshSecret(w) ==
  /\ Doing(w, "refresh")
  /\ \/ /\ secret.id < MaxSecrets
        /\ secret' = [id |-> secret.id + 1, drawn |-> pk]
        /\ secretSet' = 0 /\ secretAge' = 0
        /\ Proceed(w, "derive")
     \/ Finish(w) /\ UNCHANGED <<secret, secretSet, secretAge>>
  /\ UNCHANGED <<pk, underLoad, gen, request, answer, sent>>

(* CreateReply has the read lock again: it derives the cookie from the secret it
   finds now. *)
DeriveCookie(w) ==
  /\ Doing(w, "derive")
  /\ Finish(w) /\ Reply(cpc[w].m)
  /\ UNCHANGED <<pk, secret, secretSet, secretAge, underLoad, gen, request, sent>>

-----------------------------------------------------------------------------
(* CookieGenerator.Init, for a new peer with this public key *)
GeneratorInit(key) ==
  /\ key # gen.pk
  /\ gen' = [pk |-> key, cookie |-> None, cookieSet |-> Zero, lastMAC1 |-> None, asked |-> 0]
  /\ UNCHANGED <<pk, secret, secretSet, secretAge, underLoad, cpc, request, answer, sent>>

(* AddMacs, for a new handshake message, which leaves from some source address *)
AddMacs(src) ==
  LET mac1 == [pk |-> gen.pk, text |-> sent + 1]
  IN  /\ sent < MaxRequests
      /\ sent' = sent + 1
      /\ gen' = [gen EXCEPT !.lastMAC1 = mac1, !.asked = secret.id]
      /\ request' = request \cup
           {[mac1 |-> mac1, mac2 |-> IF Stale(gen.cookieSet) THEN None ELSE gen.cookie, src |-> src]}
      /\ UNCHANGED <<pk, secret, secretSet, secretAge, underLoad, cpc, answer>>

(* The reply opens with the key of the peer and the mac1 of the last message. *)
Opens_AnyMAC1(a) == gen.lastMAC1 # None /\ a.pk = gen.pk
Opens(a) == gen.lastMAC1 # None /\ a.pk = gen.pk /\ a.mac1 = gen.lastMAC1

ConsumeReply(a) ==
  /\ Opens(a)
  /\ gen' = [gen EXCEPT !.cookie = a.cookie, !.cookieSet = 0]
  /\ UNCHANGED <<pk, secret, secretSet, secretAge, underLoad, cpc, request, answer, sent>>

Pass ==
  /\ secretSet' = Aged(secretSet) /\ secretAge' = Aged(secretAge)
  /\ underLoad' = 0
  /\ gen' = [gen EXCEPT !.cookieSet = Aged(@)]
  /\ UNCHANGED <<pk, secret, cpc, request, answer, sent>>

CookieInit ==
  /\ pk = 1 /\ secret = [id |-> 0, drawn |-> 0]
  /\ secretSet = Zero /\ secretAge = Zero
  /\ underLoad = 0 /\ cpc = [w \in HsWorker |-> None]
  /\ gen = [pk |-> 1, cookie |-> None, cookieSet |-> Zero, lastMAC1 |-> None, asked |-> 0]
  /\ request = {} /\ answer = {} /\ sent = 0

CookieNext ==
  \/ pk < MaxKeys /\ CheckerInit(pk + 1)
  \/ \E w \in HsWorker :
       \/ \E m \in request : RoutineHandshake(w, m)
       \/ \E long \in BOOLEAN : IsUnderLoad(w, long)
       \/ VerifyMAC2(w) \/ CreateReply(w) \/ RefreshSecret(w) \/ DeriveCookie(w)
  \/ GeneratorInit(pk)
  \/ \E src \in Source : AddMacs(src)
  \/ \E a \in answer : ConsumeReply(a)
  \/ Pass

CookieSpec == CookieInit /\ [][CookieNext]_cookieVars

-----------------------------------------------------------------------------
(* Types; the time recorded for the secret is the time it was drawn, or zero. *)
CookieTypeOK ==
  /\ pk \in 1..MaxKeys /\ gen.pk \in 1..MaxKeys
  /\ secret \in [id : 0..MaxSecrets, drawn : 0..MaxKeys]
  /\ secretAge \in 0..Zero /\ secretSet \in {secretAge, Zero} /\ gen.cookieSet \in 0..Zero
  /\ underLoad \in 0..1 /\ sent \in 0..MaxRequests
  /\ \A w \in HsWorker :
       cpc[w] # None => cpc[w].at \in {"load", "mac2", "create", "refresh", "derive"}

(* A message that the device admits under load, whenever the worker gets to its mac2,
   carries a cookie that the device has sent to the message's source, made from a secret
   that it drew under its present key and not longer than CookieRefreshTime ago.  Init
   does not erase the secret, CreateReply gives up the lock twice, and the key may change
   between the check of mac1 and that of mac2. *)
AdmittedOwnsAddress ==
  \A m \in request :
    CheckMAC2(m) =>
      /\ \E a \in answer : a.cookie = m.mac2 /\ a.cookie.src = m.src
      /\ secret.id > 0 /\ secret.drawn = pk
      /\ secretAge <= CookieRefreshTime

(* Replies that are late, repeated or out of order never give a peer a cookie that is
   older than its last message: a reply opens only with the mac1 of that message.  Among
   the replies to one message, which the network may repeat, any may come last. *)
CookieFresh ==
  [][gen'.cookie # gen.cookie /\ gen'.cookie # None =>
       gen'.cookie.secret.id >= gen.asked]_gen
=============================================================================

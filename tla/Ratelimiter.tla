---------------------------- MODULE Ratelimiter ----------------------------
(***************************************************************************)
(* The rate limiter of handshake messages (ratelimiter/ratelimiter.go): a  *)
(* token bucket for each source address, called by the handshake workers,  *)
(* and the goroutine that removes buckets that are full again.             *)
(*                                                                         *)
(* Time is discrete.  An entry holds its tokens at lastTime and the time   *)
(* that has passed since, up to garbageCollectTime + 1.  ratelimiter.Init  *)
(* is called once, by NewDevice.                                           *)
(***************************************************************************)
EXTENDS Integers, FiniteSets, Functions

CONSTANTS Worker,             \* RoutineHandshake goroutines
          Addr,               \* source addresses
          packetCost, maxTokens, garbageCollectTime,
          NoEntry,
          MaxRaces            \* bound on the racing calls that are counted

ASSUME CostAssumption ==
  /\ packetCost \in Nat \ {0} /\ maxTokens \in Nat /\ maxTokens > packetCost
  /\ garbageCollectTime \in Nat /\ garbageCollectTime >= maxTokens
  /\ MaxRaces \in Nat
  /\ IsFiniteSet(Addr) /\ IsFiniteSet(Worker) /\ NoEntry \notin Worker

Entry == 1..(Cardinality(Addr) + Cardinality(Worker))   \* allocated entries
MaxAge == garbageCollectTime + 1

VARIABLES rpc,        \* where the call of each worker is
          limiterMu,  \* the goroutine that holds mu over several steps, or NoEntry
          table, heap,
          ticker,     \* whether the ticker of the goroutine runs
          gcpc,       \* where that goroutine is
          stopClosed, \* stopReset is closed
          ideal,      \* history: a bucket for each address that is never removed
          raced       \* history: calls that met another call or the cleanup

limiterVars == <<rpc, limiterMu, table, heap, ticker, gcpc, stopClosed, ideal, raced>>

Idle == [at |-> "idle"]
Blank == [tokens |-> 0, age |-> 0]
Lesser(m, n) == IF m < n THEN m ELSE n
Refill(e, more) == Lesser(maxTokens, e.tokens + more)

\* entries that the table or a worker points to
Used == {table[ip] : ip \in DOMAIN table} \cup {rpc[w].e : w \in {v \in Worker : rpc[v].at # "idle"}}
Unused == CHOOSE e \in Entry : e \notin Used

Charge(ip) == ideal' = [ideal EXCEPT ![ip] = @ - packetCost]

Inserting(ip) == \E w \in Worker : rpc[w].at = "insert" /\ rpc[w].ip = ip

(* Allow, the lookup under RLock.  Without an entry it makes one that has already
   paid for the packet; the worker publishes it later.  A second worker that
   misses the same address is a race: the later insertion discards the entry of the
   first, and what has been charged to it. *)
Allow(w, ip) ==
  /\ rpc[w] = Idle /\ limiterMu = NoEntry /\ raced[ip] < MaxRaces
  /\ IF ip \in DOMAIN table
     THEN /\ rpc' = [rpc EXCEPT ![w] = [at |-> "charge", ip |-> ip, e |-> table[ip]]]
          /\ UNCHANGED <<heap, ideal, raced>>
     ELSE /\ rpc' = [rpc EXCEPT ![w] = [at |-> "insert", ip |-> ip, e |-> Unused]]
          /\ heap' = [heap EXCEPT ![Unused] = [tokens |-> maxTokens - packetCost, age |-> 0]]
          /\ Charge(ip)
          /\ raced' = IF Inserting(ip) THEN [raced EXCEPT ![ip] = @ + 1] ELSE raced
  /\ UNCHANGED <<limiterMu, table, ticker, gcpc, stopClosed>>

(* Allow publishes the entry under Lock.  The first entry wakes the goroutine: the
   worker sends on an unbuffered channel and keeps the lock meanwhile.  A table with
   one entry may also be one where the address was already present. *)
InsertEntry(w) ==
  LET ip == rpc[w].ip
      again == ip \in DOMAIN table
  IN  /\ rpc[w].at = "insert" /\ limiterMu = NoEntry
      /\ table' = [k \in DOMAIN table \cup {ip} |-> IF k = ip THEN rpc[w].e ELSE table[k]]
      /\ IF Cardinality(DOMAIN table') = 1
         THEN /\ rpc' = [rpc EXCEPT ![w].at = IF again THEN "sendAgain" ELSE "send"]
              /\ limiterMu' = w
         ELSE rpc' = [rpc EXCEPT ![w] = Idle] /\ UNCHANGED limiterMu
      /\ UNCHANGED <<heap, ticker, gcpc, stopClosed, ideal, raced>>

(* rate.stopReset <- struct{}{}: the goroutine receives and starts a new ticker, and
   on a closed channel the send panics. *)
SendReset(w) ==
  /\ rpc[w].at \in {"send", "sendAgain"}
  /\ IF stopClosed
     THEN rpc' = [rpc EXCEPT ![w].at = "panic"] /\ UNCHANGED <<limiterMu, ticker>>
     ELSE /\ gcpc = "select"
          /\ ticker' = TRUE /\ limiterMu' = NoEntry
          /\ rpc' = [rpc EXCEPT ![w] = Idle]
  /\ UNCHANGED <<table, heap, gcpc, stopClosed, ideal, raced>>

(* Allow charges the entry it has found, under the lock of the entry.  The entry may
   have been removed or replaced in the meantime. *)
ChargeEntry(w) ==
  LET e == rpc[w].e
      ip == rpc[w].ip
      now == Refill(heap[e], heap[e].age)
      detached == ip \notin DOMAIN table \/ table[ip] # e
  IN  /\ rpc[w].at = "charge"
      /\ IF now > packetCost
         THEN heap' = [heap EXCEPT ![e] = [tokens |-> now - packetCost, age |-> 0]] /\ Charge(ip)
         ELSE heap' = [heap EXCEPT ![e] = [tokens |-> now, age |-> 0]] /\ UNCHANGED ideal
      /\ raced' = IF now > packetCost /\ (detached \/ Inserting(ip))
                  THEN [raced EXCEPT ![ip] = @ + 1] ELSE raced
      /\ rpc' = [rpc EXCEPT ![w] = Idle]
      /\ UNCHANGED <<limiterMu, table, ticker, gcpc, stopClosed>>

(* The ticker fires. *)
TickerFires ==
  /\ gcpc = "select" /\ ticker
  /\ gcpc' = "cleanup"
  /\ UNCHANGED <<rpc, limiterMu, table, heap, ticker, stopClosed, ideal, raced>>

Expired_Early(e) == heap[e].age >= packetCost
Expired(e) == heap[e].age > garbageCollectTime

StopsTicker_Never(t) == FALSE
StopsTicker(t) == DOMAIN t = {}

cleanup ==
  /\ gcpc = "cleanup" /\ limiterMu = NoEntry
  /\ table' = Restrict(table, {ip \in DOMAIN table : ~ Expired(table[ip])})
  /\ ticker' = ~ StopsTicker(table')
  /\ gcpc' = "select"
  /\ UNCHANGED <<rpc, limiterMu, heap, stopClosed, ideal, raced>>

(* Device.Close closes the limiter.  It has not waited for the handshake workers. *)
CloseLimiter ==
  /\ limiterMu = NoEntry /\ ~ stopClosed
  /\ stopClosed' = TRUE
  /\ UNCHANGED <<rpc, limiterMu, table, heap, ticker, gcpc, ideal, raced>>

(* The goroutine finds the channel closed. *)
CleanupEnds ==
  /\ gcpc = "select" /\ stopClosed
  /\ gcpc' = "end" /\ ticker' = FALSE
  /\ UNCHANGED <<rpc, limiterMu, table, heap, stopClosed, ideal, raced>>

(* One unit of time passes; the ideal buckets fill, and a full one forgets the past. *)
Tick ==
  /\ heap' = [e \in Entry |-> IF e \in Used THEN [heap[e] EXCEPT !.age = Lesser(MaxAge, @ + 1)]
                             ELSE Blank]
  /\ ideal' = [ip \in Addr |-> Lesser(maxTokens, ideal[ip] + 1)]
  /\ raced' = [ip \in Addr |-> IF ideal'[ip] = maxTokens THEN 0 ELSE raced[ip]]
  /\ UNCHANGED <<rpc, limiterMu, table, ticker, gcpc, stopClosed>>

LimiterInit ==
  /\ rpc = [w \in Worker |-> Idle]
  /\ limiterMu = NoEntry
  /\ table = <<>>
  /\ heap = [e \in Entry |-> Blank]
  /\ ticker = FALSE /\ gcpc = "select" /\ stopClosed = FALSE
  /\ ideal = [ip \in Addr |-> maxTokens]
  /\ raced = [ip \in Addr |-> 0]

LimiterNext ==
  \/ \E w \in Worker :
       \/ \E ip \in Addr : Allow(w, ip)
       \/ InsertEntry(w) \/ SendReset(w) \/ ChargeEntry(w)
  \/ TickerFires \/ cleanup \/ CloseLimiter \/ CleanupEnds \/ Tick

LimiterSpec == LimiterInit /\ [][LimiterNext]_limiterVars

-----------------------------------------------------------------------------
(* Types; the tokens of an entry never exceed maxTokens, and the lock is held
   only by a worker that waits for the goroutine. *)
LimiterTypeOK ==
  /\ \/ limiterMu = NoEntry
     \/ limiterMu \in Worker /\ rpc[limiterMu].at \in {"send", "sendAgain", "panic"}
  /\ DOMAIN table \subseteq Addr /\ \A ip \in DOMAIN table : table[ip] \in Entry
  /\ heap \in [Entry -> [tokens : 0..maxTokens, age : 0..MaxAge]]
  /\ ticker \in BOOLEAN /\ gcpc \in {"select", "cleanup", "end"}

\* what the next call for the address finds
Credit(ip) == IF ip \in DOMAIN table THEN Refill(heap[table[ip]], heap[table[ip]].age)
              ELSE maxTokens

(* Removing an entry forgets no debt.  Whenever no insertion for an address is under
   way, the bucket has as many tokens as one that was never removed; calls of
   Allow that raced with each other or with the cleanup since that bucket was full
   have given away at most one packet each. *)
CleanupForgetsNothing ==
  \A ip \in Addr :
    ~ Inserting(ip) =>
      /\ Credit(ip) >= ideal[ip]
      /\ Credit(ip) <= ideal[ip] + raced[ip] * packetCost

(* A worker that waits for the goroutine with the lock held is stuck, with the
   limiter, when the goroutine waits for the lock.  It happens only when the worker
   has replaced the only entry of the table, which another worker had inserted after
   the lookup. *)
OnlyReplacingBlocks ==
  \A w \in Worker : rpc[w].at = "send" => gcpc # "cleanup"

=============================================================================

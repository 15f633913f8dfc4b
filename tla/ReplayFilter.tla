---------------------------- MODULE ReplayFilter ----------------------------
(***************************************************************************)
(* The replay filter of a keypair (replay/replay.go).  A ring of RingBlocks *)
(* words with BlockBits bits each remembers which counters near the last   *)
(* one have been accepted.  A word is the set of its bits that are set.    *)
(***************************************************************************)
EXTENDS Naturals

CONSTANTS BlockBits, RingBlocks,
          CounterLimit  \* RejectAfterMessages; counters up to it are tried

ASSUME RingAssumption ==
  /\ BlockBits \in Nat \ {0} /\ RingBlocks \in Nat \ {0} /\ CounterLimit \in Nat

VARIABLES last, ring,
          accepted      \* the answer of the last call

replayVars == <<last, ring, accepted>>

windowSize == (RingBlocks - 1) * BlockBits

Counters == 0..CounterLimit

Block(c) == c \div BlockBits

(* The words that a new last counter c makes reusable; at most the whole ring. *)
Cleared_Short(c) ==
  {b % RingBlocks : b \in Block(last) + 1 .. Block(c) - 1}

Cleared(c) ==
  LET diff == IF Block(c) - Block(last) > RingBlocks THEN RingBlocks
              ELSE Block(c) - Block(last)
  IN  {b % RingBlocks : b \in Block(last) + 1 .. Block(last) + diff}

ValidateCounter(c) ==
  LET forward == c > last
      moved == IF forward
               THEN [b \in DOMAIN ring |-> IF b \in Cleared(c) THEN {} ELSE ring[b]]
               ELSE ring
      at == Block(c) % RingBlocks
      bit == c % BlockBits
  IN  IF c >= CounterLimit \/ (~ forward /\ last - c > windowSize)
      THEN accepted' = FALSE /\ UNCHANGED <<last, ring>>
      ELSE /\ last' = IF forward THEN c ELSE last
           /\ ring' = [moved EXCEPT ![at] = @ \cup {bit}]
           /\ accepted' = (bit \notin moved[at])

(* Reset clears the first word only; the others are cleared on the way. *)
Reset_LastOnly == last' = 0 /\ UNCHANGED <<ring, accepted>>
Reset == last' = 0 /\ ring' = [ring EXCEPT ![0] = {}] /\ UNCHANGED accepted

ReplayInit ==
  /\ last = 0
  /\ ring = [b \in 0..RingBlocks - 1 |-> {}]
  /\ accepted = FALSE

ReplayNext == Reset \/ \E c \in Counters : ValidateCounter(c)

ReplaySpec == ReplayInit /\ [][ReplayNext]_replayVars

-----------------------------------------------------------------------------
(* Types, and the bits beyond the last counter, which the next move forward does
   not clear, are not set. *)
ReplayTypeOK ==
  /\ last \in Counters
  /\ ring \in [0..RingBlocks - 1 -> SUBSET (0..BlockBits - 1)]
  /\ accepted \in BOOLEAN
  /\ \A bit \in ring[Block(last) % RingBlocks] : bit <= last % BlockBits

(* The counters of the window that the ring holds. *)
Remembered ==
  {c \in 0..last : last - c <= windowSize /\ c % BlockBits \in ring[Block(c) % RingBlocks]}

Window == INSTANCE ReplayWindow
  WITH Counter <- Counters, Limit <- CounterLimit, WindowSize <- windowSize,
       newest <- last, seen <- Remembered, verdict <- accepted

(* The ring implements the window: although words are reused, no counter within
   the window is accepted twice, none is refused without cause, and a jump of any
   length leaves no old bit behind. *)
FilterImplementsWindow == Window!WSpec
=============================================================================

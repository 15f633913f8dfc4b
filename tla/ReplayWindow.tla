---------------------------- MODULE ReplayWindow ----------------------------
(***************************************************************************)
(* What a replay filter promises: a counter below the limit is accepted    *)
(* the first time it is seen, unless it is more than WindowSize behind the *)
(* largest counter accepted so far.                                        *)
(***************************************************************************)
EXTENDS Naturals

CONSTANTS Counter, Limit, WindowSize

VARIABLES newest, seen, verdict

wVars == <<newest, seen, verdict>>

InWindow(c, top) == c <= top /\ top - c <= WindowSize

Fresh(c) == c > newest \/ (InWindow(c, newest) /\ c \notin seen)

WInit == newest = 0 /\ seen = {} /\ verdict = FALSE

Judge(c) ==
  /\ verdict' = (c < Limit /\ Fresh(c))
  /\ newest' = IF verdict' /\ c > newest THEN c ELSE newest
  /\ seen' = IF verdict' THEN {d \in seen \cup {c} : InWindow(d, newest')} ELSE seen

Forget == newest' = 0 /\ seen' = {} /\ UNCHANGED verdict

WNext == Forget \/ \E c \in Counter : Judge(c)

WSpec == WInit /\ [][WNext]_wVars
=============================================================================

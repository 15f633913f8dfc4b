------------------------------- MODULE Routes -------------------------------
(***************************************************************************)
(* What the table of allowed IPs promises: it maps prefixes to peers, and  *)
(* an address belongs to the peer of the longest prefix that covers it.    *)
(***************************************************************************)
EXTENDS Naturals, Sequences, FiniteSets

CONSTANTS Prefix, Owner, Nobody

VARIABLE routes

Covers(p, ip) == Len(p) <= Len(ip) /\ \A b \in 1..Len(p) : p[b] = ip[b]

LongestMatch(r, ip) ==
  LET matches == {p \in DOMAIN r : Covers(p, ip)}
  IN  IF matches = {} THEN Nobody
      ELSE r[CHOOSE p \in matches : \A q \in matches : Len(q) <= Len(p)]

Only(S) == [p \in S |-> routes[p]]

Add(p, o) == routes' = [q \in DOMAIN routes \cup {p} |-> IF q = p THEN o ELSE routes[q]]

Drop(p, o) ==
  routes' = Only({q \in DOMAIN routes : q # p \/ routes[q] # o})

DropOwner(o) == routes' = Only({q \in DOMAIN routes : routes[q] # o})

RInit == routes = <<>>

RNext ==
  \E o \in Owner : DropOwner(o) \/ \E p \in Prefix : Add(p, o) \/ Drop(p, o)

RSpec == RInit /\ [][RNext]_routes
=============================================================================

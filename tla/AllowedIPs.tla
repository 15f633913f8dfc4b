----------------------------- MODULE AllowedIPs -----------------------------
(***************************************************************************)
(* The table of allowed IPs (device/allowedips.go): a trie for addresses of *)
(* Width bits.                                                             *)
(*                                                                         *)
(* A prefix is the sequence of its bits, and a node is named by its prefix *)
(* (bits and cidr), so a pointer to a node is a prefix or Nil.  The        *)
(* pointer to a node's parent slot, parentIndirection, is the parent with  *)
(* the number of the child, or RootSlot for the field of the table.        *)
(***************************************************************************)
EXTENDS Naturals, Sequences, FiniteSets, SequencesExt

CONSTANTS Width,       \* 32 or 128 in the code
          RoutePeer,   \* the peers
          Nil,
          MaxEntries   \* bound on the number of entries

ASSUME WidthAssumption == Width \in Nat \ {0} /\ MaxEntries \in Nat

IPPrefixes == UNION {[1..k -> 0..1] : k \in 0..Width}
Addresses == [1..Width -> 0..1]

ASSUME NilAssumption == Nil \notin RoutePeer /\ Nil \notin IPPrefixes

\* parentIndirection{&table.IPv4, 2}
RootSlot == <<Nil, 2>>

VARIABLES trie,         \* the nodes and the pointer to the first one
          trieEntries   \* Peer.trieEntries

tableVars == <<trie, trieEntries>>

Nodes(t) == DOMAIN t.peer

\* node.choose(ip): the bit after the node's prefix
choose(node, ip) == ip[Len(node) + 1]

commonBits(p, q) ==
  CHOOSE k \in 0..Width :
    /\ k <= Len(p) /\ k <= Len(q) /\ SubSeq(p, 1, k) = SubSeq(q, 1, k)
    /\ k < Len(p) /\ k < Len(q) => p[k + 1] # q[k + 1]

(* nodePlacement, begun at any node. *)
placement(t, p) ==
  LET walk[node \in Nodes(t) \cup {Nil}] ==
        IF node = Nil \/ ~ IsPrefix(node, p) THEN Nil
        ELSE IF node = p THEN node
        ELSE LET below == walk[t.child[node][choose(node, p)]]
             IN  IF below = Nil THEN node ELSE below
  IN  walk

(* nodePlacement: the last node on the way to ip/cidr that covers it. *)
nodePlacement(t, p) == placement(t, p)[t.root]

(* *parentBit = node, for the slot <<parent, bit>>. *)
SetSlot(t, slot, node) ==
  IF slot[2] > 1 THEN [t EXCEPT !.root = node]
  ELSE [t EXCEPT !.child[slot[1]][slot[2]] = node]

NoChildren == [b \in 0..1 |-> Nil]

(* A new node without children. *)
AddNode(t, node, peer) ==
  [t EXCEPT !.peer = [q \in Nodes(t) \cup {node} |-> IF q = node THEN peer ELSE t.peer[q]],
            !.child = [q \in Nodes(t) \cup {node} |-> IF q = node THEN NoChildren ELSE t.child[q]],
            !.parent = [q \in Nodes(t) \cup {node} |->
                          IF q = node THEN RootSlot ELSE t.parent[q]]]

(* Node becomes the child in the slot. *)
Attach(t, slot, node) == SetSlot([t EXCEPT !.parent[node] = slot], slot, node)

(* insert, when the prefix has no node yet. *)
insertNew(t, p, peer) ==
  LET node == IF t.root = Nil THEN Nil ELSE nodePlacement(t, p)
      slot == IF node = Nil THEN RootSlot ELSE <<node, choose(node, p)>>
      down == IF node = Nil THEN t.root ELSE t.child[node][choose(node, p)]
      with == AddNode(t, p, peer)
      common == SubSeq(p, 1, commonBits(down, p))
  IN  IF down = Nil THEN Attach(with, slot, p)
      ELSE IF common = p
      THEN Attach(Attach(with, <<p, choose(p, down)>>, down), slot, p)
      ELSE LET fork == AddNode(with, common, Nil)
               left == Attach(fork, <<common, choose(common, down)>>, down)
               both == Attach(left, <<common, choose(common, p)>>, p)
           IN  Attach(both, slot, common)

Entries(peer) == trieEntries[peer]

WithoutEntry_All(p) == trieEntries
WithoutEntry(p) == [q \in RoutePeer |-> RemoveFirst(trieEntries[q], p)]

Insert(p, peer) ==
  /\ trieEntries' = [WithoutEntry(p) EXCEPT ![peer] = Append(@, p)]
  /\ trie' = IF p \in Nodes(trie) THEN [trie EXCEPT !.peer[p] = peer]
             ELSE insertNew(trie, p, peer)

(* zeroizePointers: the nodes of S are unreachable. *)
Discard(t, S) ==
  LET keep == Nodes(t) \ S
  IN  [t EXCEPT !.peer = [q \in keep |-> t.peer[q]],
                !.child = [q \in keep |-> t.child[q]],
                !.parent = [q \in keep |-> t.parent[q]]]

(* *slot = child, child.parent = slot; child may be nil. *)
Replace(t, slot, child) ==
  IF child = Nil THEN SetSlot(t, slot, Nil) ELSE Attach(t, slot, child)

(* remove: a node with two children stays as a fork.  A leaf takes its fork with
   it, and its sibling moves up. *)
remove(t, node) ==
  LET kids == t.child[node]
      bit == IF kids[0] = Nil THEN 1 ELSE 0
      slot == t.parent[node]
      cut == Replace(t, slot, kids[bit])
      parent == slot[1]
  IN  IF kids[0] # Nil /\ kids[1] # Nil THEN [t EXCEPT !.peer[node] = Nil]
      ELSE IF kids[bit] # Nil \/ slot[2] > 1 THEN Discard(cut, {node})
      ELSE IF t.peer[parent] # Nil THEN Discard(cut, {node})
      ELSE Discard(Replace(cut, t.parent[parent], t.child[parent][1 - slot[2]]),
                   {node, parent})

RemovePrefix(p, peer) ==
  LET node == nodePlacement(trie, p)
  IN  IF node = p /\ trie.peer[node] = peer
      THEN /\ trie' = remove(trie, p)
           /\ trieEntries' = WithoutEntry(p)
      ELSE UNCHANGED tableVars

(* The tries that the loop of RemoveByPeer goes through. *)
removals(t, list) ==
  LET after[n \in 0..Len(list)] == IF n = 0 THEN t ELSE remove(after[n - 1], list[n])
  IN  after

(* RemoveByPeer goes through the peer's list. *)
RemoveByPeer_AllButLast(peer) ==
  LET list == trieEntries[peer]
  IN  /\ list # <<>>
      /\ trie' = removals(trie, list)[Len(list) - 1]
      /\ trieEntries' = [trieEntries EXCEPT ![peer] = <<list[Len(list)]>>]

RemoveByPeer(peer) ==
  /\ trie' = removals(trie, trieEntries[peer])[Len(trieEntries[peer])]
  /\ trieEntries' = [trieEntries EXCEPT ![peer] = <<>>]

(* lookup, begun at any node. *)
lookup(t, ip) ==
  LET walk[node \in Nodes(t) \cup {Nil}] ==
        IF node = Nil \/ ~ IsPrefix(node, ip) THEN Nil
        ELSE LET below == IF Len(node) = Width THEN Nil
                          ELSE walk[t.child[node][choose(node, ip)]]
             IN  IF below # Nil THEN below ELSE t.peer[node]
  IN  walk

Lookup(t, ip) == lookup(t, ip)[t.root]

TableInit ==
  /\ trie = [root |-> Nil, peer |-> <<>>, child |-> <<>>, parent |-> <<>>]
  /\ trieEntries = [peer \in RoutePeer |-> <<>>]

Size(entries) == FoldFunction(LAMBDA s, n : Len(s) + n, 0, entries)

TableNext ==
  \E peer \in RoutePeer :
    \/ RemoveByPeer(peer)
    \/ \E p \in IPPrefixes :
         \/ Size(trieEntries) < MaxEntries /\ Insert(p, peer)
         \/ RemovePrefix(p, peer)

TableSpec == TableInit /\ [][TableNext]_tableVars

-----------------------------------------------------------------------------
(* The trie is well formed: a child's prefix extends its parent's by the bit of its
   slot, the parent pointer finds the way back, every node is reachable, and a
   node without a peer is a fork.  remove relies on it when it computes the address
   of the parent. *)
TrieWellFormed ==
  /\ \A node \in Nodes(trie) :
       LET slot == trie.parent[node]
       IN  IF slot[2] > 1 THEN trie.root = node
           ELSE /\ slot[1] \in Nodes(trie)
                /\ trie.child[slot[1]][slot[2]] = node
                /\ IsStrictPrefix(slot[1], node)
                /\ choose(slot[1], node) = slot[2]
  /\ \A node \in Nodes(trie) :
       /\ trie.peer[node] = Nil => \A b \in 0..1 : trie.child[node][b] # Nil
       /\ \A b \in 0..1 : trie.child[node][b] \in Nodes(trie) \cup {Nil}
  /\ trie.root \in Nodes(trie) \cup {Nil}

Owned == {p \in Nodes(trie) : trie.peer[p] # Nil}

Table == INSTANCE Routes
  WITH Prefix <- IPPrefixes, Owner <- RoutePeer, Nobody <- Nil,
       routes <- [p \in Owned |-> trie.peer[p]]

(* Insert, Remove and RemoveByPeer change the routes of the abstract table and no
   others, whatever forks they make and remove. *)
TrieImplementsRoutes == Table!RSpec

(* Lookup finds the longest prefix, and the list of a peer, which IpcGet and
   RemoveByPeer use, names its entries once each. *)
LookupIsLongestMatch ==
  /\ \A ip \in Addresses :
       Lookup(trie, ip) = Table!LongestMatch([p \in Owned |-> trie.peer[p]], ip)
  /\ \A peer \in RoutePeer :
       /\ Range(trieEntries[peer]) = {p \in Owned : trie.peer[p] = peer}
       /\ IsInjective(trieEntries[peer])

(* After any sequence of Insert, Remove and RemoveByPeer the trie is well formed and
   answers like the abstract table. *)
TrieCorrect == TrieWellFormed /\ LookupIsLongestMatch
=============================================================================

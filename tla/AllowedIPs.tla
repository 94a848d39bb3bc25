----------------------------- MODULE AllowedIPs -----------------------------
(* The radix trie of allowed IPs.  An address is a number of maxbits(v) bits, a  *)
(* node the record of its prefix, the peer it belongs to and its two children.   *)
(* A node's parent pointer, which nothing reads, is left out.                    *)
EXTENDS Integers

CONSTANTS
  NULL,          \* no peer, no node
  Bits4, Bits6   \* the widths of the addresses, 32 and 128 in the code

ASSUME WidthAssumption == Bits4 \in Nat /\ Bits6 \in Nat

Version    == {4, 6}
maxbits(v) == IF v = 4 THEN Bits4 ELSE Bits6
Address(v) == 0 .. 2^maxbits(v) - 1

bit_at(v, bits, i) == (bits \div 2^(maxbits(v) - 1 - i)) % 2

\* The bits beyond cidr set to 0.
masked(v, bits, cidr) == LET host == 2^(maxbits(v) - cidr) IN (bits \div host) * host

node_new(v, bits, cidr, peer) ==
  [ip_version |-> v, bits |-> masked(v, bits, cidr), cidr |-> cidr, peer |-> peer,
   child |-> [b \in 0 .. 1 |-> NULL]]

\* The number of leading bits, up to max_cidr, in which a and b agree.
common_bits(v, a, b, max_cidr) ==
  CHOOSE n \in 0 .. max_cidr :
    /\ \A i \in 0 .. n - 1 : bit_at(v, a, i) = bit_at(v, b, i)
    /\ n < max_cidr => bit_at(v, a, n) # bit_at(v, b, n)

\* The subtree after the insertion.  The branch for a prefix shorter than a node's
\* that agrees with it is the split with common = cidr: the second test for it in
\* the code is never reached.
RECURSIVE insert(_, _, _, _, _)
insert(node, v, bits, cidr, peer) ==
  IF node = NULL THEN node_new(v, bits, cidr, peer)
  ELSE LET common == common_bits(v, node.bits, bits, IF node.cidr < cidr THEN node.cidr ELSE cidr)
           split  == [node_new(v, bits, common, NULL) EXCEPT
                        !.child[bit_at(v, node.bits, common)] = node]
       IN  CASE common < node.cidr /\ common = cidr -> [split EXCEPT !.peer = peer]
             [] common < node.cidr /\ common < cidr ->
                  [split EXCEPT !.child[bit_at(v, bits, common)] = node_new(v, bits, cidr, peer)]
             [] common = node.cidr /\ common = cidr -> [node EXCEPT !.peer = peer]
             [] OTHER -> [node EXCEPT !.child[bit_at(v, bits, node.cidr)] =
                            insert(@, v, bits, cidr, peer)]

\* Mutant: a node without a peer hides the prefixes above it.
RECURSIVE lookup_last(_, _, _, _)
lookup_last(node, v, bits, best) ==
  IF node = NULL \/ (node # NULL /\ node.bits # masked(v, bits, node.cidr)) THEN best
  ELSE IF node.cidr = maxbits(v) THEN node.peer
       ELSE lookup_last(node.child[bit_at(v, bits, node.cidr)], v, bits, node.peer)

\* The peer of the last node with one on the way down that the address takes.
RECURSIVE lookup(_, _, _, _)
lookup(node, v, bits, best) ==
  IF node = NULL \/ (node # NULL /\ node.bits # masked(v, bits, node.cidr)) THEN best
  ELSE LET found == IF node.peer # NULL THEN node.peer ELSE best
       IN  IF node.cidr = maxbits(v) THEN found
           ELSE lookup(node.child[bit_at(v, bits, node.cidr)], v, bits, found)

RECURSIVE remove_peer_from_tree(_, _)
remove_peer_from_tree(node, peer) ==
  IF node = NULL THEN NULL
  ELSE [node EXCEPT !.peer = IF @ = peer THEN NULL ELSE @,
                    !.child = [b \in 0 .. 1 |-> remove_peer_from_tree(@[b], peer)]]

\* The nodes with a peer, which the walk's callback sees.
RECURSIVE walk_tree(_)
walk_tree(node) ==
  IF node = NULL THEN {}
  ELSE (IF node.peer # NULL THEN {node} ELSE {}) \cup walk_tree(node.child[0])
         \cup walk_tree(node.child[1])

----------------------------------------------------------------------------
(* The table: one tree for each version *)

allowedips_init == [v \in Version |-> NULL]

allowedips_insert(table, v, addr, cidr, peer) ==
  IF cidr > maxbits(v) THEN table
  ELSE [table EXCEPT ![v] = insert(@, v, addr, cidr, peer)]

allowedips_lookup(table, v, addr) == lookup(table[v], v, addr, NULL)

allowedips_remove_peer(table, peer) ==
  [v \in Version |-> remove_peer_from_tree(table[v], peer)]

allowedips_walk(table) == walk_tree(table[4]) \cup walk_tree(table[6])

----------------------------------------------------------------------------
(* What the trie stands for: a partial function from prefixes to peers *)

Covers(net, v, addr) == net[1] = v /\ masked(v, addr, net[3]) = net[2]

\* The peer of the longest prefix in the function that covers the address.
LongestMatch(routes, v, addr) ==
  LET nets == {net \in DOMAIN routes : Covers(net, v, addr)}
  IN  IF nets = {} THEN NULL
      ELSE routes[CHOOSE net \in nets : \A other \in nets : other[3] <= net[3]]
=============================================================================

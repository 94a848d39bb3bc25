---------------------------- MODULE NoiseProofs ----------------------------
(***************************************************************************)
(* The index table and the peers stay consistent under every operation of  *)
(* module Noise.  NoiseInv is the invariant; each operation of noise.c,    *)
(* cb_zero_key_material and peer_teardown preserve it, for any set of peers*)
(* and any set of indices.                                                 *)
(***************************************************************************)
EXTENDS Noise, TLAPS

\* The entries that index_table_new_for_handshake and index_table_swap_keypair write.
HandshakeEntry(p) == [type |-> "handshake", peer |-> p, keypair |-> NoKey]
KeypairEntry(p, k) == [type |-> "keypair", peer |-> p, keypair |-> k]

\* A keypair of peer p is found in the table under its local index.
Registered(n, kp, p) ==
  kp = NoKeypair \/ (/\ p \in n.peers
                     /\ kp.local_index \in Index
                     /\ n.table[kp.local_index] = KeypairEntry(p, kp.key))

\* Two keypairs of one peer are registered under different indices.
Apart(k1, k2) == k1 # NoKeypair /\ k2 # NoKeypair => k1.local_index # k2.local_index

\* What an entry of the table says is true: its peer is configured, and holds the
\* handshake or one of the three keypairs with this index.
EntryOK(n, i) ==
  LET t == n.table[i]
  IN  /\ t.type = "free" => t = FreeEntry
      /\ t.type # "free" => t.peer \in n.peers
      /\ t.type = "handshake" => n.hs[t.peer].local_index = i
      /\ t.type = "keypair" =>
           \/ n.current[t.peer] # NoKeypair /\ n.current[t.peer].local_index = i
           \/ n.next[t.peer] # NoKeypair /\ n.next[t.peer].local_index = i
           \/ n.prev[t.peer] # NoKeypair /\ n.prev[t.peer].local_index = i

\* What a peer holds is in the table: its handshake index leads to the handshake,
\* and its keypairs are registered under indices that differ.  That they differ is
\* what makes it safe to free one keypair while another stays.
PeerOK(n, p) ==
  /\ n.hs[p].local_index # NoIndex =>
       p \in n.peers /\ n.table[n.hs[p].local_index] = HandshakeEntry(p)
  /\ Registered(n, n.current[p], p)
  /\ Registered(n, n.next[p], p)
  /\ Registered(n, n.prev[p], p)
  /\ Apart(n.current[p], n.next[p])
  /\ Apart(n.current[p], n.prev[p])
  /\ Apart(n.next[p], n.prev[p])

\* The invariant of the noise state.
NoiseInv(n) ==
  /\ n \in NoiseState
  /\ \A i \in Index : EntryOK(n, i)
  /\ \A p \in Peer : PeerOK(n, p)

\* index_table_init and device_add_peer start from a consistent state.
LEMMA InitInv ==
  ASSUME NEW ps \in SUBSET Peer PROVE NoiseInv(noise_init(ps))
<1> NoKeypair \in Keypair /\ FreeEntry \in Entry /\ noise_handshake_init \in Handshake
  BY Zenon DEF NoKeypair, Keypair, FreeEntry, Entry, noise_handshake_init, Handshake, HandshakeState, Key, NoKey
<1>1. noise_init(ps) \in NoiseState
  BY Zenon DEF noise_init, NoiseState
<1>2. \A i \in Index : EntryOK(noise_init(ps), i)
  BY Zenon DEF noise_init, EntryOK, FreeEntry
<1>3. \A p \in Peer : PeerOK(noise_init(ps), p)
  BY DEF noise_init, PeerOK, Registered, Apart, noise_handshake_init
<1> QED BY <1>1, <1>2, <1>3, Zenon DEF NoiseInv

\* The null keypair, the free entry and the initial handshake are well typed.
LEMMA NullTypes ==
  NoKeypair \in Keypair /\ FreeEntry \in Entry /\ noise_handshake_init \in Handshake
BY Zenon DEF NoKeypair, Keypair, FreeEntry, Entry, noise_handshake_init, Handshake,
       HandshakeState, Key, NoKey

\* An operation on peer p that leaves other peers and their entries alone, and
\* turns entries of p and free entries into free entries or good entries of p,
\* preserves NoiseInv once PeerOK holds for p.
LEMMA OnePeer ==
  ASSUME NEW n, NoiseInv(n), NEW m \in NoiseState, NEW p \in Peer,
         \A q \in Peer : q # p => /\ q \in m.peers <=> q \in n.peers
                                 /\ m.hs[q] = n.hs[q]
                                 /\ m.current[q] = n.current[q]
                                 /\ m.next[q] = n.next[q]
                                 /\ m.prev[q] = n.prev[q],
         \A i \in Index : \/ n.table[i].type # "free" /\ n.table[i].peer # p /\ m.table[i] = n.table[i]
                          \/ /\ n.table[i].type = "free" \/ n.table[i].peer = p
                             /\ \/ m.table[i] = FreeEntry
                                \/ m.table[i].peer = p /\ m.table[i].type # "free" /\ EntryOK(m, i),
         PeerOK(m, p)
  PROVE  NoiseInv(m)
<1>1. ASSUME NEW i \in Index PROVE EntryOK(m, i)
  <2>1. CASE m.table[i] = FreeEntry
    BY <2>1 DEF EntryOK, FreeEntry
  <2>2. CASE n.table[i].type # "free" /\ n.table[i].peer # p /\ m.table[i] = n.table[i]
    <3>1. EntryOK(n, i) /\ n.table[i].peer \in Peer
      BY <2>2, Zenon DEF NoiseInv, EntryOK, NoiseState
    <3> QED BY <2>2, <3>1 DEF EntryOK
  <2> QED BY <2>1, <2>2, Zenon
<1>2. ASSUME NEW q \in Peer PROVE PeerOK(m, q)
  <2>1. CASE q = p
    BY <2>1, Zenon
  <2>2. CASE q # p
    <3>1. PeerOK(n, q) /\ n.hs[q] \in Handshake
      BY Zenon DEF NoiseInv, NoiseState
    <3>2. \A i \in Index : n.table[i].type # "free" /\ n.table[i].peer = q => m.table[i] = n.table[i]
      BY <2>2, Zenon
    <3>3. m.hs[q].local_index # NoIndex =>
            q \in m.peers /\ m.table[m.hs[q].local_index] = HandshakeEntry(q)
      BY <2>2, <3>1, <3>2 DEF PeerOK, HandshakeEntry, Handshake
    <3>4. ASSUME NEW kp, Registered(n, kp, q) PROVE Registered(m, kp, q)
      BY <2>2, <3>2, <3>4 DEF Registered, KeypairEntry
    <3> QED BY <2>2, <3>1, <3>3, <3>4, Zenon DEF PeerOK
  <2> QED BY <2>1, <2>2, Zenon
<1> QED BY <1>1, <1>2, Zenon DEF NoiseInv

\* The rotation in handle_transport, which frees prev, preserves NoiseInv.
LEMMA ConfirmInv ==
  ASSUME NEW n, NoiseInv(n), NEW p \in Peer, n.next[p] # NoKeypair
  PROVE  NoiseInv(ConfirmNext(n, p))
<1> DEFINE m == ConfirmNext(n, p)
<1>a. n \in NoiseState /\ PeerOK(n, p) /\ \A i \in Index : EntryOK(n, i)
  BY Zenon DEF NoiseInv
<1>1. m \in NoiseState
  BY <1>a, NullTypes, Zenon DEF ConfirmNext, NoiseState, index_table_delete
<1>2. /\ m.peers = n.peers
      /\ m.hs = n.hs
      /\ m.current = [n.current EXCEPT ![p] = n.next[p]]
      /\ m.next = [n.next EXCEPT ![p] = NoKeypair]
      /\ m.prev = [n.prev EXCEPT ![p] = n.current[p]]
      /\ m.table = index_table_delete(n.table, n.prev[p].local_index)
  BY <1>a, Zenon DEF ConfirmNext, NoiseState
<1>3. \A i \in Index : m.table[i] = IF i = n.prev[p].local_index THEN FreeEntry ELSE n.table[i]
  BY <1>a, <1>2 DEF index_table_delete, NoiseState
<1> HIDE DEF m
<1>4. /\ m.hs[p] = n.hs[p] /\ m.current[p] = n.next[p]
      /\ m.next[p] = NoKeypair /\ m.prev[p] = n.current[p]
  BY <1>a, <1>2, Zenon DEF NoiseState
<1>5. NoKeypair.local_index = NoIndex
  BY Zenon DEF NoKeypair
<1>6. Registered(n, n.prev[p], p) /\ Registered(n, n.next[p], p) /\ Registered(n, n.current[p], p)
  BY <1>a, Zenon DEF PeerOK
<1>7. PeerOK(m, p)
  <2>1. ASSUME NEW kp, Registered(n, kp, p), Apart(kp, n.prev[p])
        PROVE  Registered(m, kp, p)
    BY <1>2, <1>3, <1>5, <1>6, <2>1, NoiseAssumption DEF Registered, Apart
  <2>2. m.hs[p].local_index # NoIndex =>
          p \in m.peers /\ m.table[m.hs[p].local_index] = HandshakeEntry(p)
    <3>1. n.hs[p].local_index \in Index \cup {NoIndex}
      BY <1>a, Zenon DEF NoiseState, Handshake
    <3>2. n.hs[p].local_index # NoIndex => n.hs[p].local_index # n.prev[p].local_index
      BY <1>a, <1>5, <1>6 DEF PeerOK, Registered, KeypairEntry, HandshakeEntry
    <3> QED BY <1>a, <1>2, <1>3, <1>4, <3>1, <3>2 DEF PeerOK
  <2>3. Registered(m, NoKeypair, p)
    BY Zenon DEF Registered
  <2> QED BY <1>a, <1>4, <2>1, <2>2, <2>3, Zenon DEF PeerOK, Apart
<1>8. ASSUME NEW i \in Index
      PROVE  \/ n.table[i].type # "free" /\ n.table[i].peer # p /\ m.table[i] = n.table[i]
             \/ /\ n.table[i].type = "free" \/ n.table[i].peer = p
                /\ \/ m.table[i] = FreeEntry
                   \/ m.table[i].peer = p /\ m.table[i].type # "free" /\ EntryOK(m, i)
  <2>1. CASE i = n.prev[p].local_index
    BY <1>3, <1>5, <1>6, <2>1, NoiseAssumption DEF Registered, KeypairEntry
  <2>2. CASE i # n.prev[p].local_index /\ n.table[i].peer = p /\ n.table[i].type # "free"
    <3>1. m.table[i] = n.table[i] /\ EntryOK(n, i)
      BY <1>a, <1>3, <2>2, Zenon
    <3>2. EntryOK(m, i)
      BY <1>2, <1>4, <2>2, <3>1 DEF EntryOK
    <3> QED BY <2>2, <3>1, <3>2, Zenon
  <2>3. CASE i # n.prev[p].local_index /\ ~(n.table[i].peer = p /\ n.table[i].type # "free")
    BY <1>a, <1>3, <2>3, Zenon DEF EntryOK
  <2> QED BY <2>1, <2>2, <2>3, Zenon
<1> QED BY <1>1, <1>2, <1>7, <1>8, OnePeer, <1>a DEF m, NoiseState

\* Replacing the handshake index of a peer (index_table_delete, then
\* index_table_new_for_handshake) preserves NoiseInv.
LEMMA NewHandshakeInv ==
  ASSUME NEW n, NoiseInv(n), NEW p \in n.peers, NEW i \in Picks(n, p),
         NEW h \in Handshake, h.local_index = i
  PROVE  NoiseInv([n EXCEPT
           !.table = index_table_new_for_handshake(
                       index_table_delete(n.table, n.hs[p].local_index), p, i),
           !.hs[p] = h])
<1> DEFINE t == index_table_delete(n.table, n.hs[p].local_index)
           m == [n EXCEPT !.table = index_table_new_for_handshake(t, p, i), !.hs[p] = h]
<1>a. n \in NoiseState /\ PeerOK(n, p) /\ p \in Peer /\ \A k \in Index : EntryOK(n, k)
  BY Zenon DEF NoiseInv, NoiseState
<1>b. n.hs[p].local_index \in Index \cup {NoIndex}
  BY <1>a, Zenon DEF NoiseState, Handshake
<1>t. /\ t \in [Index -> Entry]
      /\ \A k \in Index : t[k] = IF k = n.hs[p].local_index THEN FreeEntry ELSE n.table[k]
  BY <1>a, NullTypes, Zenon DEF index_table_delete, NoiseState
<1>i. \/ i = NoIndex /\ n.hs[p].local_index = NoIndex
      \/ i \in Index /\ t[i].type = "free"
  <2>1. i \in pick_random_index(t)
    BY Zenon DEF Picks
  <2>2. n.hs[p].local_index \in Index => t[n.hs[p].local_index].type = "free"
    BY <1>t DEF FreeEntry
  <2> QED BY <1>b, <2>1, <2>2 DEF pick_random_index
<1> HIDE DEF t
<1>1. m \in NoiseState
  BY <1>a, <1>t, <1>i, Zenon DEF NoiseState, index_table_new_for_handshake, Entry, Key, NoKey
<1>2. /\ m.peers = n.peers
      /\ m.hs = [n.hs EXCEPT ![p] = h]
      /\ m.current = n.current /\ m.next = n.next /\ m.prev = n.prev
      /\ m.table = index_table_new_for_handshake(t, p, i)
  BY <1>a, Zenon DEF NoiseState
<1>3. \A k \in Index : m.table[k] = IF k = i THEN HandshakeEntry(p)
                                    ELSE IF k = n.hs[p].local_index THEN FreeEntry
                                    ELSE n.table[k]
  BY <1>2, <1>t, <1>i, NoiseAssumption DEF index_table_new_for_handshake, HandshakeEntry
<1> HIDE DEF m
<1>4. m.hs[p].local_index = i
  BY <1>a, <1>2, Zenon DEF NoiseState
<1>5. n.hs[p].local_index \in Index => n.table[n.hs[p].local_index] = HandshakeEntry(p)
  BY <1>a, NoiseAssumption, Zenon DEF PeerOK
<1>6. i \in Index => n.table[i].type = "free" \/ i = n.hs[p].local_index
  BY <1>t, <1>i, Zenon
<1>7. PeerOK(m, p)
  <2>1. ASSUME NEW kp, Registered(n, kp, p) PROVE Registered(m, kp, p)
    BY <1>2, <1>3, <1>5, <1>6, <2>1 DEF Registered, HandshakeEntry, KeypairEntry
  <2>2. i # NoIndex => p \in m.peers /\ m.table[i] = HandshakeEntry(p)
    BY <1>2, <1>3, <1>i, Zenon
  <2> QED BY <1>a, <1>2, <1>4, <2>1, <2>2, Zenon DEF PeerOK
<1>8. ASSUME NEW k \in Index
      PROVE  \/ n.table[k].type # "free" /\ n.table[k].peer # p /\ m.table[k] = n.table[k]
             \/ /\ n.table[k].type = "free" \/ n.table[k].peer = p
                /\ \/ m.table[k] = FreeEntry
                   \/ m.table[k].peer = p /\ m.table[k].type # "free" /\ EntryOK(m, k)
  <2>1. CASE k = i
    <3>1. EntryOK(m, k)
      BY <1>2, <1>3, <1>4, <2>1 DEF EntryOK, HandshakeEntry
    <3> QED BY <1>3, <1>5, <1>6, <2>1, <3>1 DEF HandshakeEntry
  <2>2. CASE k # i /\ k = n.hs[p].local_index
    BY <1>3, <1>5, <2>2 DEF HandshakeEntry
  <2>3. CASE k # i /\ k # n.hs[p].local_index /\ n.table[k].type # "free" /\ n.table[k].peer = p
    <3>1. m.table[k] = n.table[k] /\ EntryOK(n, k)
      BY <1>a, <1>3, <2>3, Zenon
    <3>2. EntryOK(m, k)
      BY <1>2, <2>3, <3>1, Zenon DEF EntryOK
    <3> QED BY <2>3, <3>1, <3>2, Zenon
  <2>4. CASE k # i /\ k # n.hs[p].local_index /\ ~(n.table[k].peer = p /\ n.table[k].type # "free")
    BY <1>a, <1>3, <2>4, Zenon DEF EntryOK
  <2> QED BY <2>1, <2>2, <2>3, <2>4, Zenon
<1>9. NoiseInv(m)
  BY <1>1, <1>2, <1>7, <1>8, OnePeer, <1>a, Zenon DEF NoiseState
<1> QED BY <1>9, Zenon DEF m, t

\* Changes of a handshake that keep its local index preserve NoiseInv.
LEMMA HandshakeFieldsInv ==
  ASSUME NEW n, NoiseInv(n), NEW p \in Peer, NEW h \in Handshake,
         h.local_index = n.hs[p].local_index
  PROVE  NoiseInv([n EXCEPT !.hs[p] = h])
<1> DEFINE m == [n EXCEPT !.hs[p] = h]
<1>a. n \in NoiseState /\ PeerOK(n, p) /\ \A k \in Index : EntryOK(n, k)
  BY Zenon DEF NoiseInv
<1>1. m \in NoiseState
  BY <1>a, Zenon DEF NoiseState
<1>2. /\ m.peers = n.peers
      /\ m.hs = [n.hs EXCEPT ![p] = h]
      /\ m.current = n.current /\ m.next = n.next /\ m.prev = n.prev
      /\ m.table = n.table
  BY <1>a, Zenon DEF NoiseState
<1> HIDE DEF m
<1>3. \A q \in Peer : m.hs[q].local_index = n.hs[q].local_index
  BY <1>a, <1>2, Zenon DEF NoiseState
<1>4. ASSUME NEW k \in Index PROVE EntryOK(m, k)
  <2>1. EntryOK(n, k) /\ n.peers \subseteq Peer
    BY <1>a, Zenon DEF NoiseState
  <2> QED BY <1>2, <1>3, <2>1, Zenon DEF EntryOK
<1>5. ASSUME NEW q \in Peer PROVE PeerOK(m, q)
  <2>1. PeerOK(n, q)
    BY Zenon DEF NoiseInv
  <2> QED BY <1>2, <1>3, <2>1, Zenon DEF PeerOK, Registered
<1>6. NoiseInv(m)
  BY <1>1, <1>4, <1>5, Zenon DEF NoiseInv
<1> QED BY <1>6, Zenon DEF m

\* The fields of a keypair that the table depends on are the same.
SameKeypair(k1, k2) ==
  \/ k1 = k2
  \/ k1 # NoKeypair /\ k2 # NoKeypair /\ k1.key = k2.key /\ k1.local_index = k2.local_index

\* Changes of keypairs that keep key and local index preserve NoiseInv.
LEMMA KeypairFieldsInv ==
  ASSUME NEW n, NoiseInv(n), NEW p \in Peer,
         NEW cur \in Keypair, NEW nxt \in Keypair, NEW prv \in Keypair,
         SameKeypair(n.current[p], cur), SameKeypair(n.next[p], nxt), SameKeypair(n.prev[p], prv)
  PROVE  NoiseInv([n EXCEPT !.current[p] = cur, !.next[p] = nxt, !.prev[p] = prv])
<1> DEFINE m == [n EXCEPT !.current[p] = cur, !.next[p] = nxt, !.prev[p] = prv]
<1>a. n \in NoiseState /\ \A k \in Index : EntryOK(n, k)
  BY Zenon DEF NoiseInv
<1>1. m \in NoiseState
  BY <1>a, Zenon DEF NoiseState
<1>2. /\ m.peers = n.peers /\ m.table = n.table /\ m.hs = n.hs
      /\ m.current = [n.current EXCEPT ![p] = cur]
      /\ m.next = [n.next EXCEPT ![p] = nxt]
      /\ m.prev = [n.prev EXCEPT ![p] = prv]
  BY <1>a, Zenon DEF NoiseState
<1> HIDE DEF m
<1>3. \A q \in Peer : /\ SameKeypair(n.current[q], m.current[q])
                      /\ SameKeypair(n.next[q], m.next[q])
                      /\ SameKeypair(n.prev[q], m.prev[q])
  BY <1>a, <1>2 DEF NoiseState, SameKeypair
<1>4. ASSUME NEW k \in Index PROVE EntryOK(m, k)
  <2>1. EntryOK(n, k) /\ n.peers \subseteq Peer
    BY <1>a, Zenon DEF NoiseState
  <2> QED BY <1>2, <1>3, <2>1 DEF EntryOK, SameKeypair
<1>5. ASSUME NEW q \in Peer PROVE PeerOK(m, q)
  <2>1. PeerOK(n, q)
    BY Zenon DEF NoiseInv
  <2>2. ASSUME NEW k1, NEW k2, SameKeypair(k1, k2), Registered(n, k1, q)
        PROVE  Registered(m, k2, q)
    BY <1>2, <2>2, Zenon DEF SameKeypair, Registered
  <2>3. ASSUME NEW k1, NEW k2, NEW l1, NEW l2,
               SameKeypair(k1, k2), SameKeypair(l1, l2), Apart(k1, l1)
        PROVE  Apart(k2, l2)
    BY <2>3, Zenon DEF SameKeypair, Apart
  <2>4. /\ SameKeypair(n.current[q], m.current[q])
        /\ SameKeypair(n.next[q], m.next[q])
        /\ SameKeypair(n.prev[q], m.prev[q])
    BY <1>3, Zenon
  <2>5. Registered(m, m.current[q], q) /\ Registered(m, m.next[q], q) /\ Registered(m, m.prev[q], q)
    BY <2>1, <2>2, <2>4, Zenon DEF PeerOK
  <2>6. /\ Apart(m.current[q], m.next[q])
        /\ Apart(m.current[q], m.prev[q])
        /\ Apart(m.next[q], m.prev[q])
    BY <2>1, <2>3, <2>4, Zenon DEF PeerOK
  <2> QED BY <1>2, <2>1, <2>5, <2>6, Zenon DEF PeerOK
<1>6. NoiseInv(m)
  BY <1>1, <1>4, <1>5, Zenon DEF NoiseInv
<1> QED BY <1>6, Zenon DEF m

\* m is n after noise_begin_session: kp took over the index of the handshake, one
\* old keypair (keep) survived, the others left the table.
Rotated(n, m, p, h, kp, keep) ==
  /\ kp.local_index = n.hs[p].local_index
  /\ m.peers = n.peers
  /\ m.hs = [n.hs EXCEPT ![p] = h]
  /\ \A q \in Peer : q # p => /\ m.current[q] = n.current[q]
                             /\ m.next[q] = n.next[q]
                             /\ m.prev[q] = n.prev[q]
  /\ keep \in {n.current[p], n.next[p]}
  /\ \/ m.current[p] = kp /\ m.next[p] = NoKeypair /\ m.prev[p] = keep
     \/ m.current[p] = keep /\ m.next[p] = kp /\ m.prev[p] = NoKeypair
  /\ \A i \in Index : m.table[i] =
       IF i = kp.local_index THEN KeypairEntry(p, kp.key)
       ELSE IF /\ i \in {n.current[p].local_index, n.next[p].local_index, n.prev[p].local_index}
               /\ ~(keep # NoKeypair /\ i = keep.local_index)
       THEN FreeEntry ELSE n.table[i]

\* Both branches of the rotation in noise_begin_session preserve NoiseInv.
LEMMA RotateInv ==
  ASSUME NEW n, NoiseInv(n), NEW p \in Peer, n.hs[p].local_index \in Index,
         NEW h \in Handshake, h.local_index = NoIndex,
         NEW kp \in Keypair, kp # NoKeypair,
         NEW m \in NoiseState, NEW keep, Rotated(n, m, p, h, kp, keep)
  PROVE  NoiseInv(m)
<1> USE DEF Rotated
<1>a. n \in NoiseState /\ PeerOK(n, p) /\ \A k \in Index : EntryOK(n, k)
  BY Zenon DEF NoiseInv
<1>1. n.table[kp.local_index] = HandshakeEntry(p) /\ p \in n.peers
  BY <1>a, NoiseAssumption, Zenon DEF PeerOK
<1>2. NoKeypair.local_index = NoIndex
  BY Zenon DEF NoKeypair
<1>3. m.hs[p] = h
  BY <1>a DEF NoiseState
<1>4. /\ Registered(n, n.current[p], p) /\ Registered(n, n.next[p], p)
      /\ Registered(n, n.prev[p], p) /\ Registered(n, keep, p)
  BY <1>a DEF PeerOK
<1>5. Registered(m, keep, p) /\ Registered(m, kp, p) /\ Apart(keep, kp)
  <2>1. Registered(m, kp, p)
    BY <1>1, Zenon DEF Registered
  <2>2. keep # NoKeypair => keep.local_index \in Index /\ keep.local_index # kp.local_index
    BY <1>1, <1>4 DEF Registered, KeypairEntry, HandshakeEntry
  <2>3. Registered(m, keep, p)
    BY <1>4, <2>2, Zenon DEF Registered
  <2> QED BY <2>1, <2>2, <2>3, Zenon DEF Apart
<1>6. PeerOK(m, p)
  BY <1>3, <1>5, Zenon DEF PeerOK, Registered, Apart
<1>7. ASSUME NEW k \in Index
      PROVE  \/ n.table[k].type # "free" /\ n.table[k].peer # p /\ m.table[k] = n.table[k]
             \/ /\ n.table[k].type = "free" \/ n.table[k].peer = p
                /\ \/ m.table[k] = FreeEntry
                   \/ m.table[k].peer = p /\ m.table[k].type # "free" /\ EntryOK(m, k)
  <2> DEFINE gone == /\ k \in {n.current[p].local_index, n.next[p].local_index, n.prev[p].local_index}
                     /\ ~(keep # NoKeypair /\ k = keep.local_index)
  <2>1. CASE k = kp.local_index
    <3>1. m.table[k] = KeypairEntry(p, kp.key)
      BY <2>1, Zenon
    <3>2. EntryOK(m, k)
      BY <1>1, <2>1, <3>1 DEF EntryOK, KeypairEntry
    <3> QED BY <1>1, <2>1, <3>1, <3>2 DEF KeypairEntry, HandshakeEntry
  <2>2. CASE k # kp.local_index /\ gone
    <3>1. m.table[k] = FreeEntry
      BY <2>2, Zenon
    <3>2. n.table[k].peer = p
      BY <1>2, <1>4, <2>2, NoiseAssumption DEF Registered, KeypairEntry
    <3> QED BY <3>1, <3>2, Zenon
  <2>3. CASE k # kp.local_index /\ ~gone /\ n.table[k].type # "free" /\ n.table[k].peer = p
    <3>1. m.table[k] = n.table[k] /\ EntryOK(n, k) /\ n.table[k] \in Entry
      BY <1>a, <2>3, Zenon DEF NoiseState
    <3>2. n.table[k].type = "keypair" /\ keep # NoKeypair /\ k = keep.local_index
      BY <2>3, <3>1, Zenon DEF EntryOK, Entry
    <3>3. EntryOK(m, k)
      BY <1>1, <2>3, <3>1, <3>2 DEF EntryOK
    <3> QED BY <2>3, <3>1, <3>3, Zenon
  <2>4. CASE k # kp.local_index /\ ~gone /\ ~(n.table[k].type # "free" /\ n.table[k].peer = p)
    <3>1. m.table[k] = n.table[k] /\ EntryOK(n, k)
      BY <1>a, <2>4, Zenon
    <3> QED BY <2>4, <3>1, Zenon DEF EntryOK
  <2> QED BY <2>1, <2>2, <2>3, <2>4, Zenon
<1> QED BY <1>6, <1>7, OnePeer, <1>a DEF NoiseState

\* noise_handshake_clear gives up the local index.
LEMMA ClearType ==
  ASSUME NEW h \in Handshake
  PROVE  noise_handshake_clear(h) \in Handshake /\ noise_handshake_clear(h).local_index = NoIndex
BY Zenon DEF noise_handshake_clear, noise_handshake_init, Handshake, HandshakeState

\* index_table_delete frees the one slot and nothing else.
LEMMA DeleteFacts ==
  ASSUME NEW t \in [Index -> Entry], NEW j
  PROVE  /\ index_table_delete(t, j) \in [Index -> Entry]
         /\ \A i \in Index : index_table_delete(t, j)[i] = IF i = j THEN FreeEntry ELSE t[i]
BY NullTypes, Zenon DEF index_table_delete

\* noise_begin_session preserves NoiseInv when the handshake holds an index.
LEMMA BeginSessionInv ==
  ASSUME NEW n, NoiseInv(n), NEW p \in Peer, n.hs[p].local_index \in Index
  PROVE  NoiseInv(noise_begin_session(n, p))
<1> DEFINE kp  == NewKeypair(n.hs[p])
           cur == n.current[p]
           nxt == n.next[p]
           prv == n.prev[p]
           t0  == index_table_swap_keypair(n.table, n.hs[p].local_index, kp.key)
           m   == noise_begin_session(n, p)
           h   == noise_handshake_clear(n.hs[p])
           keep == IF kp.is_initiator /\ nxt # NoKeypair THEN nxt ELSE cur
<1>a. n \in NoiseState /\ PeerOK(n, p)
  BY Zenon DEF NoiseInv
<1>b. n.hs[p] \in Handshake /\ cur \in Keypair /\ nxt \in Keypair /\ prv \in Keypair
  BY <1>a, Zenon DEF NoiseState
<1>c. h \in Handshake /\ h.local_index = NoIndex
  BY <1>b, ClearType, Zenon
<1>1. kp \in Keypair /\ kp.local_index = n.hs[p].local_index /\ kp # NoKeypair
  <2>1. kp \in Keypair /\ kp.local_index = n.hs[p].local_index
    BY <1>b, ZenonT(40) DEF NewKeypair, NoKeypair, NoKey, Keypair, Key, Handshake
  <2> QED BY <2>1, NoiseAssumption DEF NoKeypair
<1>2. n.table[n.hs[p].local_index] = HandshakeEntry(p) /\ p \in n.peers
  BY <1>a, NoiseAssumption, Zenon DEF PeerOK
<1>3. /\ t0 \in [Index -> Entry]
      /\ \A i \in Index : t0[i] = IF i = kp.local_index THEN KeypairEntry(p, kp.key) ELSE n.table[i]
  BY <1>1, <1>2, <1>a DEF index_table_swap_keypair, NoiseState, HandshakeEntry, KeypairEntry, Entry, Keypair
<1>4. /\ NoKeypair.local_index = NoIndex
      /\ cur # NoKeypair => cur.local_index \in Index /\ cur.local_index # kp.local_index
      /\ nxt # NoKeypair => nxt.local_index \in Index /\ nxt.local_index # kp.local_index
      /\ prv # NoKeypair => prv.local_index \in Index /\ prv.local_index # kp.local_index
  BY <1>1, <1>2, <1>a DEF PeerOK, Registered, KeypairEntry, HandshakeEntry, NoKeypair
<1>5. Apart(cur, nxt) /\ Apart(cur, prv) /\ Apart(nxt, prv)
  BY <1>a, Zenon DEF PeerOK
<1>6. CASE kp.is_initiator
  <2> DEFINE t1 == IF nxt # NoKeypair THEN index_table_delete(t0, cur.local_index) ELSE t0
             t2 == index_table_delete(t1, prv.local_index)
  <2>1. /\ t1 \in [Index -> Entry]
        /\ \A i \in Index : t1[i] = IF nxt # NoKeypair /\ i = cur.local_index THEN FreeEntry ELSE t0[i]
    BY <1>3, DeleteFacts
  <2>2. /\ t2 \in [Index -> Entry]
        /\ \A i \in Index : t2[i] = IF i = prv.local_index THEN FreeEntry ELSE t1[i]
    <3> HIDE DEF t1
    <3> QED BY <2>1, DeleteFacts
  <2>3. m = [[n EXCEPT !.hs[p] = h] EXCEPT !.table = t2, !.prev[p] = IF nxt # NoKeypair THEN nxt ELSE cur, !.current[p] = kp, !.next[p] = NoKeypair]
    BY <1>6, Zenon DEF noise_begin_session, Exists
  <2>4. \A i \in Index : t2[i] =
           IF i = kp.local_index THEN KeypairEntry(p, kp.key)
           ELSE IF /\ i \in {cur.local_index, nxt.local_index, prv.local_index}
                   /\ ~(keep # NoKeypair /\ i = keep.local_index)
           THEN FreeEntry ELSE n.table[i]
    <3> HIDE DEF t0, t1, t2, kp
    <3> QED BY <1>1, <1>3, <1>4, <1>5, <1>6, <2>1, <2>2, NoiseAssumption DEF Apart
  <2> HIDE DEF t2, m, kp, h
  <2>5. /\ m \in NoiseState /\ m.peers = n.peers /\ m.hs = [n.hs EXCEPT ![p] = h] /\ m.table = t2
        /\ m.current = [n.current EXCEPT ![p] = kp]
        /\ m.next = [n.next EXCEPT ![p] = NoKeypair]
        /\ m.prev = [n.prev EXCEPT ![p] = keep]
    BY <1>a, <1>b, <1>c, <1>1, <1>6, <2>2, <2>3, NullTypes, Zenon DEF NoiseState
  <2>6. /\ \A q \in Peer : q # p => /\ m.current[q] = n.current[q]
                                   /\ m.next[q] = n.next[q]
                                   /\ m.prev[q] = n.prev[q]
        /\ m.current[p] = kp /\ m.next[p] = NoKeypair /\ m.prev[p] = keep
        /\ keep \in {n.current[p], n.next[p]}
    BY <1>a, <2>5 DEF NoiseState
  <2>7. \A i \in Index : m.table[i] =
           IF i = kp.local_index THEN KeypairEntry(p, kp.key)
           ELSE IF /\ i \in {n.current[p].local_index, n.next[p].local_index, n.prev[p].local_index}
                   /\ ~(keep # NoKeypair /\ i = keep.local_index)
           THEN FreeEntry ELSE n.table[i]
    BY <2>4, <2>5, Zenon
  <2>8. NoiseInv(m)
    <3>1. Rotated(n, m, p, h, kp, keep)
      BY <1>1, <2>5, <2>6, <2>7, Zenon DEF Rotated
    <3> HIDE DEF keep, cur, nxt, prv
    <3> QED BY <1>c, <1>1, <2>5, <3>1, RotateInv, Zenon
  <2> QED BY <2>8, Zenon DEF m
<1>7. CASE ~kp.is_initiator
  <2> DEFINE t1 == index_table_delete(t0, nxt.local_index)
             t2 == index_table_delete(t1, prv.local_index)
  <2>1. /\ t1 \in [Index -> Entry]
        /\ \A i \in Index : t1[i] = IF i = nxt.local_index THEN FreeEntry ELSE t0[i]
    <3> HIDE DEF t0
    <3> QED BY <1>3, DeleteFacts
  <2>2. /\ t2 \in [Index -> Entry]
        /\ \A i \in Index : t2[i] = IF i = prv.local_index THEN FreeEntry ELSE t1[i]
    <3> HIDE DEF t1
    <3> QED BY <2>1, DeleteFacts
  <2>3. m = [[n EXCEPT !.hs[p] = h] EXCEPT !.table = t2, !.next[p] = kp, !.prev[p] = NoKeypair]
    BY <1>7, Zenon DEF noise_begin_session, Exists
  <2>4. \A i \in Index : t2[i] =
           IF i = kp.local_index THEN KeypairEntry(p, kp.key)
           ELSE IF /\ i \in {cur.local_index, nxt.local_index, prv.local_index}
                   /\ ~(cur # NoKeypair /\ i = cur.local_index)
           THEN FreeEntry ELSE n.table[i]
    <3> HIDE DEF t0, t1, t2, kp
    <3> QED BY <1>1, <1>3, <1>4, <1>5, <1>7, <2>1, <2>2, NoiseAssumption DEF Apart
  <2> HIDE DEF t2, m, kp, h
  <2>5. /\ m \in NoiseState /\ m.peers = n.peers /\ m.hs = [n.hs EXCEPT ![p] = h] /\ m.table = t2
        /\ m.current = n.current
        /\ m.next = [n.next EXCEPT ![p] = kp]
        /\ m.prev = [n.prev EXCEPT ![p] = NoKeypair]
    BY <1>a, <1>b, <1>c, <1>1, <2>2, <2>3, NullTypes, Zenon DEF NoiseState
  <2>6. /\ \A q \in Peer : q # p => /\ m.current[q] = n.current[q]
                                   /\ m.next[q] = n.next[q]
                                   /\ m.prev[q] = n.prev[q]
        /\ m.current[p] = cur /\ m.next[p] = kp /\ m.prev[p] = NoKeypair
        /\ cur \in {n.current[p], n.next[p]}
    BY <1>a, <2>5, Zenon DEF NoiseState
  <2>7. \A i \in Index : m.table[i] =
           IF i = kp.local_index THEN KeypairEntry(p, kp.key)
           ELSE IF /\ i \in {n.current[p].local_index, n.next[p].local_index, n.prev[p].local_index}
                   /\ ~(cur # NoKeypair /\ i = cur.local_index)
           THEN FreeEntry ELSE n.table[i]
    BY <2>4, <2>5, Zenon
  <2>8. NoiseInv(m)
    <3>1. Rotated(n, m, p, h, kp, cur)
      BY <1>1, <2>5, <2>6, <2>7, Zenon DEF Rotated
    <3> HIDE DEF keep, cur, nxt, prv
    <3> QED BY <1>c, <1>1, <2>5, <3>1, RotateInv, Zenon
  <2> QED BY <2>8, Zenon DEF m
<1> QED BY <1>6, <1>7, Zenon

\* What DropKeys leaves of the table and of the keypairs.
LEMMA DropKeysFacts ==
  ASSUME NEW n \in NoiseState, NEW p \in Peer
  PROVE  LET m == DropKeys(n, p)
         IN  /\ m \in NoiseState /\ m.peers = n.peers /\ m.hs = n.hs
             /\ m.current = [n.current EXCEPT ![p] = NoKeypair]
             /\ m.next = [n.next EXCEPT ![p] = NoKeypair]
             /\ m.prev = [n.prev EXCEPT ![p] = NoKeypair]
             /\ \A i \in Index : m.table[i] =
                  IF i \in {n.current[p].local_index, n.next[p].local_index,
                            n.prev[p].local_index, n.hs[p].local_index}
                  THEN FreeEntry ELSE n.table[i]
<1> DEFINE t1 == index_table_delete(n.table, n.current[p].local_index)
           t2 == index_table_delete(t1, n.next[p].local_index)
           t3 == index_table_delete(t2, n.prev[p].local_index)
           t4 == index_table_delete(t3, n.hs[p].local_index)
           m == DropKeys(n, p)
<1>1. /\ t1 \in [Index -> Entry]
      /\ \A i \in Index : t1[i] = IF i = n.current[p].local_index THEN FreeEntry ELSE n.table[i]
  BY DeleteFacts DEF NoiseState
<1> HIDE DEF t1
<1>2. /\ t2 \in [Index -> Entry]
      /\ \A i \in Index : t2[i] = IF i = n.next[p].local_index THEN FreeEntry ELSE t1[i]
  BY <1>1, DeleteFacts
<1> HIDE DEF t2
<1>3. /\ t3 \in [Index -> Entry]
      /\ \A i \in Index : t3[i] = IF i = n.prev[p].local_index THEN FreeEntry ELSE t2[i]
  BY <1>2, DeleteFacts
<1> HIDE DEF t3
<1>4. /\ t4 \in [Index -> Entry]
      /\ \A i \in Index : t4[i] = IF i = n.hs[p].local_index THEN FreeEntry ELSE t3[i]
  BY <1>3, DeleteFacts
<1> HIDE DEF t4
<1>5. m = [n EXCEPT !.table = t4, !.current[p] = NoKeypair, !.next[p] = NoKeypair, !.prev[p] = NoKeypair]
  BY Zenon DEF DropKeys, t1, t2, t3, t4
<1> HIDE DEF m
<1>6. /\ m \in NoiseState /\ m.peers = n.peers /\ m.hs = n.hs /\ m.table = t4
      /\ m.current = [n.current EXCEPT ![p] = NoKeypair]
      /\ m.next = [n.next EXCEPT ![p] = NoKeypair]
      /\ m.prev = [n.prev EXCEPT ![p] = NoKeypair]
  BY <1>4, <1>5, NullTypes, Zenon DEF NoiseState
<1>7. \A i \in Index : t4[i] =
        IF i \in {n.current[p].local_index, n.next[p].local_index,
                  n.prev[p].local_index, n.hs[p].local_index}
        THEN FreeEntry ELSE n.table[i]
  BY <1>1, <1>2, <1>3, <1>4
<1> QED BY <1>6, <1>7, Zenon DEF m

\* Freeing all keypairs of a peer and its handshake index preserves NoiseInv,
\* whether the peer stays (cb_zero_key_material) or goes (peer_teardown).
LEMMA DropKeysInv ==
  ASSUME NEW n, NoiseInv(n), NEW p \in Peer, NEW h \in Handshake, h.local_index = NoIndex,
         NEW ps \in SUBSET Peer, n.peers \ {p} \subseteq ps, ps \subseteq n.peers
  PROVE  NoiseInv([DropKeys(n, p) EXCEPT !.hs[p] = h, !.peers = ps])
<1> DEFINE m0 == DropKeys(n, p)
           m == [m0 EXCEPT !.hs[p] = h, !.peers = ps]
<1>a. n \in NoiseState /\ PeerOK(n, p) /\ \A k \in Index : EntryOK(n, k)
  BY Zenon DEF NoiseInv
<1>1. /\ m0 \in NoiseState /\ m0.hs = n.hs
      /\ m0.current = [n.current EXCEPT ![p] = NoKeypair]
      /\ m0.next = [n.next EXCEPT ![p] = NoKeypair]
      /\ m0.prev = [n.prev EXCEPT ![p] = NoKeypair]
      /\ \A i \in Index : m0.table[i] =
           IF i \in {n.current[p].local_index, n.next[p].local_index,
                     n.prev[p].local_index, n.hs[p].local_index}
           THEN FreeEntry ELSE n.table[i]
  BY <1>a, DropKeysFacts, Zenon
<1> HIDE DEF m0
<1>2. /\ m \in NoiseState /\ m.peers = ps /\ m.hs = [n.hs EXCEPT ![p] = h] /\ m.table = m0.table
      /\ m.current = m0.current /\ m.next = m0.next /\ m.prev = m0.prev
  BY <1>1, Zenon DEF NoiseState
<1> HIDE DEF m
<1>3. /\ m.hs[p] = h /\ m.current[p] = NoKeypair /\ m.next[p] = NoKeypair /\ m.prev[p] = NoKeypair
      /\ NoKeypair.local_index = NoIndex
  BY <1>a, <1>1, <1>2 DEF NoiseState, NoKeypair
<1>4. PeerOK(m, p)
  BY <1>3, Zenon DEF PeerOK, Registered, Apart
<1>5. ASSUME NEW k \in Index
      PROVE  \/ n.table[k].type # "free" /\ n.table[k].peer # p /\ m.table[k] = n.table[k]
             \/ /\ n.table[k].type = "free" \/ n.table[k].peer = p
                /\ \/ m.table[k] = FreeEntry
                   \/ m.table[k].peer = p /\ m.table[k].type # "free" /\ EntryOK(m, k)
  <2>1. EntryOK(n, k) /\ n.table[k] \in Entry
    BY <1>a, Zenon DEF NoiseState
  <2>2. CASE k \in {n.current[p].local_index, n.next[p].local_index,
                    n.prev[p].local_index, n.hs[p].local_index}
    <3>1. n.table[k].peer = p
      BY <1>a, <1>3, <2>2, NoiseAssumption DEF PeerOK, Registered, KeypairEntry, HandshakeEntry
    <3> QED BY <1>1, <1>2, <2>2, <3>1
  <2>3. CASE ~(k \in {n.current[p].local_index, n.next[p].local_index,
                      n.prev[p].local_index, n.hs[p].local_index})
    <3>1. n.table[k].type = "free" \/ n.table[k].peer # p
      BY <2>1, <2>3, Zenon DEF EntryOK, Entry
    <3>2. m.table[k] = n.table[k]
      BY <1>1, <1>2, <2>3
    <3> QED BY <2>1, <3>1, <3>2, Zenon DEF EntryOK
  <2> QED BY <2>2, <2>3, Zenon
<1>6. \A q \in Peer : q # p => /\ q \in m.peers <=> q \in n.peers
                              /\ m.hs[q] = n.hs[q]
                              /\ m.current[q] = n.current[q]
                              /\ m.next[q] = n.next[q]
                              /\ m.prev[q] = n.prev[q]
  BY <1>a, <1>1, <1>2 DEF NoiseState
<1>7. NoiseInv(m)
  BY <1>2, <1>4, <1>5, <1>6, OnePeer, Zenon
<1> QED BY <1>7, Zenon DEF m, m0

\* device_add_peer preserves NoiseInv.
LEMMA AddPeerInv ==
  ASSUME NEW n, NoiseInv(n), NEW p \in Peer
  PROVE  NoiseInv([n EXCEPT !.peers = @ \cup {p}])
<1> DEFINE m == [n EXCEPT !.peers = @ \cup {p}]
<1>1. /\ m \in NoiseState /\ m.peers = n.peers \cup {p} /\ m.hs = n.hs /\ m.table = n.table
      /\ m.current = n.current /\ m.next = n.next /\ m.prev = n.prev
  BY Zenon DEF NoiseInv, NoiseState
<1> HIDE DEF m
<1>2. ASSUME NEW k \in Index PROVE EntryOK(m, k)
  <2>1. EntryOK(n, k)
    BY Zenon DEF NoiseInv
  <2> QED BY <1>1, <2>1, Zenon DEF EntryOK
<1>3. ASSUME NEW q \in Peer PROVE PeerOK(m, q)
  <2>1. PeerOK(n, q)
    BY Zenon DEF NoiseInv
  <2> QED BY <1>1, <2>1, Zenon DEF PeerOK, Registered
<1>4. NoiseInv(m)
  BY <1>1, <1>2, <1>3, Zenon DEF NoiseInv
<1> QED BY <1>4, Zenon DEF m

\* Every peer has a well-typed handshake.
LEMMA HandshakeOf ==
  ASSUME NEW n, NoiseInv(n), NEW p \in Peer
  PROVE  n.hs[p] \in Handshake
BY Zenon DEF NoiseInv, NoiseState

\* pick_random_index fails only when the handshake held no index: the index that
\* the create functions delete first is free to be picked.
LEMMA PickNone ==
  ASSUME NEW n, NoiseInv(n), NEW p \in Peer, NEW i \in Picks(n, p)
  PROVE  i \in Index \cup {NoIndex} /\ (i = NoIndex => n.hs[p].local_index = NoIndex)
<1> DEFINE t == index_table_delete(n.table, n.hs[p].local_index)
<1>1. n.hs[p].local_index \in Index => t[n.hs[p].local_index] = FreeEntry
  BY DeleteFacts DEF NoiseInv, NoiseState
<1>2. n.hs[p].local_index \in Index \cup {NoIndex}
  BY HandshakeOf, Zenon DEF Handshake
<1> QED BY <1>1, <1>2, NoiseAssumption DEF Picks, pick_random_index, FreeEntry

\* noise_create_initiation preserves NoiseInv, on a full table too.
LEMMA CreateInitiationInv ==
  ASSUME NEW n, NoiseInv(n), NEW p \in n.peers, NEW i \in Picks(n, p), NEW e \in Nat
  PROVE  NoiseInv(noise_create_initiation(n, p, i, e))
<1> DEFINE h0 == [n.hs[p] EXCEPT !.local_ephemeral = e]
           h == IF i = NoIndex THEN h0
                ELSE [h0 EXCEPT !.local_index = i, !.state = "INITIATION_CREATED"]
<1>1. p \in Peer
  BY Zenon DEF NoiseInv, NoiseState
<1>2. h \in Handshake /\ h.local_index = i
  <2>1. n.hs[p] \in Handshake
    BY <1>1, HandshakeOf, Zenon
  <2>2. i \in Index \cup {NoIndex} /\ (i = NoIndex => n.hs[p].local_index = NoIndex)
    BY <1>1, PickNone, Zenon
  <2> QED BY <2>1, <2>2, Zenon DEF Handshake, HandshakeState
<1>3. noise_create_initiation(n, p, i, e) =
        [n EXCEPT !.table = index_table_new_for_handshake(
                              index_table_delete(n.table, n.hs[p].local_index), p, i),
                  !.hs[p] = h]
  BY Zenon DEF noise_create_initiation
<1> HIDE DEF h
<1>4. NoiseInv([n EXCEPT !.table = index_table_new_for_handshake(
                              index_table_delete(n.table, n.hs[p].local_index), p, i),
                         !.hs[p] = h])
  BY <1>2, NewHandshakeInv, Zenon
<1> QED BY <1>3, <1>4, Zenon

\* noise_create_response preserves NoiseInv, on a full table too.
LEMMA CreateResponseInv ==
  ASSUME NEW n, NoiseInv(n), NEW p \in n.peers, NEW i \in Picks(n, p), NEW e \in Nat
  PROVE  /\ NoiseInv(noise_create_response(n, p, i, e))
         /\ noise_create_response(n, p, i, e).peers = n.peers
         /\ noise_create_response(n, p, i, e).hs[p].local_index = i
<1> DEFINE h == IF i = NoIndex THEN [n.hs[p] EXCEPT !.local_index = NoIndex]
                ELSE [n.hs[p] EXCEPT !.local_index = i, !.local_ephemeral = e,
                                     !.state = "RESPONSE_CREATED"]
<1>1. p \in Peer /\ n \in NoiseState
  BY Zenon DEF NoiseInv, NoiseState
<1>2. h \in Handshake /\ h.local_index = i
  <2>1. n.hs[p] \in Handshake
    BY <1>1, HandshakeOf, Zenon
  <2>2. i \in Index \cup {NoIndex} /\ (i = NoIndex => n.hs[p].local_index = NoIndex)
    BY <1>1, PickNone, Zenon
  <2> QED BY <2>1, <2>2, Zenon DEF Handshake, HandshakeState
<1>3. noise_create_response(n, p, i, e) =
        [n EXCEPT !.table = index_table_new_for_handshake(
                              index_table_delete(n.table, n.hs[p].local_index), p, i),
                  !.hs[p] = h]
  BY Zenon DEF noise_create_response
<1> HIDE DEF h
<1>4. NoiseInv([n EXCEPT !.table = index_table_new_for_handshake(
                              index_table_delete(n.table, n.hs[p].local_index), p, i),
                         !.hs[p] = h])
  BY <1>2, NewHandshakeInv, Zenon
<1>5. ASSUME NEW t PROVE /\ [n EXCEPT !.table = t, !.hs[p] = h].peers = n.peers
                         /\ [n EXCEPT !.table = t, !.hs[p] = h].hs[p] = h
  BY <1>1, Zenon DEF NoiseState
<1> QED BY <1>2, <1>3, <1>4, <1>5

\* noise_consume_initiation preserves NoiseInv.
LEMMA ConsumeInitiationInv ==
  ASSUME NEW n, NoiseInv(n), NEW p \in Peer, NEW i \in Index \cup {NoIndex}, NEW e \in Nat
  PROVE  /\ NoiseInv(noise_consume_initiation(n, p, i, e))
         /\ noise_consume_initiation(n, p, i, e).peers = n.peers
<1> DEFINE h == [n.hs[p] EXCEPT !.remote_ephemeral = e, !.remote_index = i,
                                !.last_timestamp = e, !.state = "INITIATION_CONSUMED"]
<1>1. h \in Handshake /\ h.local_index = n.hs[p].local_index
  BY HandshakeOf, ZenonT(40) DEF Handshake, HandshakeState
<1>2. noise_consume_initiation(n, p, i, e) = [n EXCEPT !.hs[p] = h]
  BY Zenon DEF noise_consume_initiation
<1> HIDE DEF h
<1>3. NoiseInv([n EXCEPT !.hs[p] = h])
  BY <1>1, HandshakeFieldsInv, Zenon
<1>4. [n EXCEPT !.hs[p] = h].peers = n.peers /\ [n EXCEPT !.hs[p] = h].hs[p] = h
  BY Zenon DEF NoiseInv, NoiseState
<1> QED BY <1>1, <1>2, <1>3, <1>4, Zenon

\* noise_consume_response preserves NoiseInv and keeps the index of the handshake.
LEMMA ConsumeResponseInv ==
  ASSUME NEW n, NoiseInv(n), NEW p \in Peer, NEW i \in Index \cup {NoIndex}, NEW e \in Nat
  PROVE  /\ NoiseInv(noise_consume_response(n, p, i, e))
         /\ noise_consume_response(n, p, i, e).peers = n.peers
         /\ noise_consume_response(n, p, i, e).hs[p].local_index = n.hs[p].local_index
<1> DEFINE h == [n.hs[p] EXCEPT !.remote_ephemeral = e, !.remote_index = i,
                                !.state = "RESPONSE_CONSUMED"]
<1>1. h \in Handshake /\ h.local_index = n.hs[p].local_index
  BY HandshakeOf, ZenonT(40) DEF Handshake, HandshakeState
<1>2. noise_consume_response(n, p, i, e) = [n EXCEPT !.hs[p] = h]
  BY Zenon DEF noise_consume_response
<1> HIDE DEF h
<1>3. NoiseInv([n EXCEPT !.hs[p] = h])
  BY <1>1, HandshakeFieldsInv, Zenon
<1>4. [n EXCEPT !.hs[p] = h].peers = n.peers /\ [n EXCEPT !.hs[p] = h].hs[p] = h
  BY Zenon DEF NoiseInv, NoiseState
<1> QED BY <1>1, <1>2, <1>3, <1>4, Zenon

\* Updating last_sent_handshake_ms preserves NoiseInv.
LEMMA SentRecentlyInv ==
  ASSUME NEW n, NoiseInv(n), NEW p \in Peer, NEW b \in BOOLEAN
  PROVE  /\ NoiseInv([n EXCEPT !.hs[p].sent_recently = b])
         /\ [n EXCEPT !.hs[p].sent_recently = b].peers = n.peers
         /\ Picks([n EXCEPT !.hs[p].sent_recently = b], p) = Picks(n, p)
<1> DEFINE h == [n.hs[p] EXCEPT !.sent_recently = b]
<1>1. h \in Handshake /\ h.local_index = n.hs[p].local_index
  BY HandshakeOf DEF Handshake, HandshakeState
<1>2. [n EXCEPT !.hs[p].sent_recently = b] = [n EXCEPT !.hs[p] = h]
  BY Zenon
<1> HIDE DEF h
<1>3. /\ [n EXCEPT !.hs[p] = h].peers = n.peers
      /\ [n EXCEPT !.hs[p] = h].table = n.table
      /\ [n EXCEPT !.hs[p] = h].hs[p] = h
  BY Zenon DEF NoiseInv, NoiseState
<1> QED BY <1>1, <1>2, <1>3, HandshakeFieldsInv, Zenon DEF Picks

\* cb_zero_key_material preserves NoiseInv.
LEMMA ZeroKeyMaterialInv ==
  ASSUME NEW n, NoiseInv(n), NEW p \in Peer
  PROVE  NoiseInv(cb_zero_key_material_noise(n, p))
<1> DEFINE m == DropKeys(n, p)
           h == noise_handshake_clear(n.hs[p])
<1>1. m \in NoiseState /\ m.peers = n.peers /\ m.hs = n.hs
  BY DropKeysFacts, Zenon DEF NoiseInv
<1>2. cb_zero_key_material_noise(n, p) = [m EXCEPT !.hs[p] = h]
  <2>1. cb_zero_key_material_noise(n, p) = [m EXCEPT !.hs[p] = noise_handshake_clear(m.hs[p])]
    BY Zenon DEF cb_zero_key_material_noise
  <2> QED BY <1>1, <2>1, Zenon
<1>3. [m EXCEPT !.hs[p] = h] = [m EXCEPT !.hs[p] = h, !.peers = n.peers]
  <2> HIDE DEF m, h
  <2> QED BY <1>1, Zenon DEF NoiseState
<1>4. h \in Handshake /\ h.local_index = NoIndex
  BY HandshakeOf, ClearType, Zenon
<1>5. NoiseInv([m EXCEPT !.hs[p] = h, !.peers = n.peers])
  <2>1. n.peers \in SUBSET Peer
    BY Zenon DEF NoiseInv, NoiseState
  <2> HIDE DEF h
  <2> QED BY <1>4, <2>1, DropKeysInv, Zenon
<1> QED BY <1>2, <1>3, <1>5, Zenon

\* peer_teardown preserves NoiseInv.
LEMMA TeardownInv ==
  ASSUME NEW n, NoiseInv(n), NEW p \in Peer
  PROVE  NoiseInv(peer_teardown_noise(n, p))
<1> DEFINE m == DropKeys(n, p)
<1>1. m.peers = n.peers /\ n.peers \in SUBSET Peer
  BY DropKeysFacts, Zenon DEF NoiseInv, NoiseState
<1>2. peer_teardown_noise(n, p) = [m EXCEPT !.hs[p] = noise_handshake_init, !.peers = n.peers \ {p}]
  BY <1>1, Zenon DEF peer_teardown_noise
<1>3. noise_handshake_init.local_index = NoIndex
  BY Zenon DEF noise_handshake_init
<1>4. NoiseInv([m EXCEPT !.hs[p] = noise_handshake_init, !.peers = n.peers \ {p}])
  <2>1. n.peers \ {p} \in SUBSET Peer
    BY <1>1, Zenon
  <2> QED BY <1>3, <2>1, NullTypes, DropKeysInv, Zenon
<1> QED BY <1>2, <1>4, Zenon
=============================================================================

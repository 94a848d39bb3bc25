------------------------- MODULE SessionStepProofs -------------------------
(***************************************************************************)
(* The inductive invariant of the sessions, SessionKeysInv, through the    *)
(* handlers of module Session that begin no session: what a handler has    *)
(* made of the invariant when its context is c is ContextKeys, and every   *)
(* operator on contexts keeps it.                                          *)
(***************************************************************************)
EXTENDS SessionProofs, KeypairProofs

----------------------------------------------------------------------------
(* The invariant, and what a handler has made of it when its context is c *)

\* KeyMaterialHasDeadline, of the noise states nz and the peers q.
Deadline(nz, q) ==
  \A d \in Device, p \in Peer : Keypairs(nz[d], p) # {} => q[d][p].zero # "off"

\* The keys, the packets and the timers, for the whole state.
KeysAndPackets(nz, q, nt, e, us, dl) ==
  KeysInv(nz, nt, e, dl) /\ PacketsApart(q, nt, us) /\ Deadline(nz, q)

\* The inductive invariant, on top of SessionInv.
SessionKeysInv == KeysAndPackets(noise, io, net, ephemerals, unsent, delivered)

\* The noise states, the peers and the datagrams, were the handler to commit c.
NoiseWith(d, n) == [noise EXCEPT ![d] = n]
PeersWith(d, p, q) == [io EXCEPT ![d][p] = q]

\* The handler of d for peer p may commit c: the invariant holds of the result, with the
\* packets us still unsent, and no older initiation has replaced a session.
ContextKeys(c, d, p, us) ==
  /\ KeysAndPackets(NoiseWith(d, c.n), PeersWith(d, p, c.q), net \cup c.out, c.e, us, delivered)
  /\ NewerOnly(noise[d], c.n)

\* What the context of a handler of d replaces.
LEMMA Focus ==
  ASSUME SessionInv, NEW d \in Device, NEW p \in Peer, NEW c, ContextOK(c)
  PROVE  /\ c.n \in NoiseState /\ NoiseInv(c.n) /\ c.q \in PeerIO /\ c.e \in Nat
         /\ c.out \in SUBSET Message /\ net \cup c.out \in SUBSET Message
         /\ delivered \in [Packet -> Nat]
         /\ NoiseWith(d, c.n) \in [Device -> NoiseState]
         /\ \A b \in Device : /\ NoiseInv(NoiseWith(d, c.n)[b])
                              /\ NoiseWith(d, c.n)[b] = IF b = d THEN c.n ELSE noise[b]
         /\ \A n : [NoiseWith(d, c.n) EXCEPT ![d] = n] = NoiseWith(d, n)
         /\ PeersWith(d, p, c.q) \in [Device -> [Peer -> PeerIO]]
         /\ \A b \in Device, r \in Peer :
              PeersWith(d, p, c.q)[b][r] = IF b = d /\ r = p THEN c.q ELSE io[b][r]
<1>1. /\ c \in [n : NoiseState, q : PeerIO, out : SUBSET Message, e : Nat, inits : Nat]
      /\ NoiseInv(c.n)
  BY Zenon DEF ContextOK
<1>2. /\ noise \in [Device -> NoiseState] /\ io \in [Device -> [Peer -> PeerIO]]
      /\ net \subseteq Message /\ delivered \in [Packet -> Nat]
      /\ \A b \in Device : NoiseInv(noise[b])
  BY Zenon DEF SessionInv, TypeOK, Message
<1>3. /\ c.n \in NoiseState /\ NoiseInv(c.n) /\ c.q \in PeerIO /\ c.e \in Nat
      /\ c.out \in SUBSET Message /\ net \cup c.out \in SUBSET Message
  BY <1>1, <1>2, Zenon
<1>4. /\ NoiseWith(d, c.n) \in [Device -> NoiseState]
      /\ \A b \in Device : NoiseWith(d, c.n)[b] = IF b = d THEN c.n ELSE noise[b]
      /\ \A n : [NoiseWith(d, c.n) EXCEPT ![d] = n] = NoiseWith(d, n)
  BY <1>2, <1>3, Zenon DEF NoiseWith
<1>5. \A b \in Device : NoiseInv(NoiseWith(d, c.n)[b])
  BY <1>2, <1>3, <1>4, Zenon
<1>6. /\ PeersWith(d, p, c.q) \in [Device -> [Peer -> PeerIO]]
      /\ \A b \in Device, r \in Peer :
           PeersWith(d, p, c.q)[b][r] = IF b = d /\ r = p THEN c.q ELSE io[b][r]
  BY <1>2, <1>3, Zenon DEF PeersWith
<1> QED BY <1>2, <1>3, <1>4, <1>5, <1>6, Zenon

\* Other keypairs of the same peers have the same deadline.
LEMMA DeadlineKept ==
  ASSUME SessionInv, NEW d \in Device, NEW p \in Peer, NEW c, ContextOK(c), NEW c2, ContextOK(c2),
         Deadline(NoiseWith(d, c.n), PeersWith(d, p, c.q)),
         \A r \in Peer : Keypairs(c.n, r) = {} /\ (r = p => c2.q.zero = "off") => Keypairs(c2.n, r) = {},
         c2.q.zero = "off" => c.q.zero = "off"
  PROVE  Deadline(NoiseWith(d, c2.n), PeersWith(d, p, c2.q))
<1> SUFFICES ASSUME NEW b \in Device, NEW r \in Peer, Keypairs(NoiseWith(d, c2.n)[b], r) # {}
             PROVE  PeersWith(d, p, c2.q)[b][r].zero # "off"
  BY Zenon DEF Deadline
<1>0. Keypairs(NoiseWith(d, c.n)[b], r) # {} => PeersWith(d, p, c.q)[b][r].zero # "off"
  BY Zenon DEF Deadline
<1>1. /\ NoiseWith(d, c.n)[b] = IF b = d THEN c.n ELSE noise[b]
      /\ PeersWith(d, p, c.q)[b][r] = IF b = d /\ r = p THEN c.q ELSE io[b][r]
      /\ NoiseWith(d, c2.n)[b] = IF b = d THEN c2.n ELSE noise[b]
      /\ PeersWith(d, p, c2.q)[b][r] = IF b = d /\ r = p THEN c2.q ELSE io[b][r]
  <2>1. /\ NoiseWith(d, c.n)[b] = IF b = d THEN c.n ELSE noise[b]
        /\ PeersWith(d, p, c.q)[b][r] = IF b = d /\ r = p THEN c.q ELSE io[b][r]
    BY Focus
  <2>2. /\ NoiseWith(d, c2.n)[b] = IF b = d THEN c2.n ELSE noise[b]
        /\ PeersWith(d, p, c2.q)[b][r] = IF b = d /\ r = p THEN c2.q ELSE io[b][r]
    BY Focus
  <2> QED BY <2>1, <2>2, Zenon
<1>2. CASE b = d /\ r = p
  BY <1>0, <1>1, <1>2, Zenon
<1>3. CASE b = d /\ r # p
  BY <1>0, <1>1, <1>3, Zenon
<1>4. CASE b # d
  BY <1>0, <1>1, <1>4, Zenon
<1> QED BY <1>2, <1>3, <1>4, Zenon

\* A handler may do quiet things to its noise state, and leaves the queue alone.
LEMMA QuietContext ==
  ASSUME SessionInv, NEW d \in Device, NEW p \in Peer, NEW c, ContextOK(c), NEW us, ContextKeys(c, d, p, us),
         NEW c2, ContextOK(c2), Quiet(c.n, c2.n), c2.n.peers = c.n.peers,
         c2.q.staged = c.q.staged, c2.q.zero = "off" => c.q.zero = "off",
         c2.out = c.out, c2.e = c.e
  PROVE  ContextKeys(c2, d, p, us)
<1> DEFINE nz == NoiseWith(d, c.n)
           nt == net \cup c.out
<1>1. /\ KeysInv(nz, nt, c.e, delivered) /\ PacketsApart(PeersWith(d, p, c.q), nt, us)
      /\ Deadline(nz, PeersWith(d, p, c.q))
  BY Zenon DEF ContextKeys, KeysAndPackets
<1>2. /\ nz \in [Device -> NoiseState] /\ nt \in SUBSET Message /\ c.e \in Nat
      /\ delivered \in [Packet -> Nat] /\ nz[d] = c.n /\ c2.n \in NoiseState
      /\ NoiseWith(d, c2.n) = [nz EXCEPT ![d] = c2.n]
  <2>1. c2.n \in NoiseState
    BY Focus, Zenon
  <2>2. /\ nz \in [Device -> NoiseState] /\ nt \in SUBSET Message /\ c.e \in Nat
        /\ delivered \in [Packet -> Nat] /\ nz[d] = c.n
        /\ \A n : [nz EXCEPT ![d] = n] = NoiseWith(d, n)
    BY Focus, Zenon
  <2> QED BY <2>1, <2>2, Zenon
<1>3. d \notin c2.n.peers
  BY <1>1, <1>2, Zenon DEF KeysInv, LocalBounded
<1> HIDE DEF nz, nt
<1>4. KeysInv([nz EXCEPT ![d] = c2.n], nt, c.e, delivered)
  BY <1>1, <1>2, <1>3, QuietKeys, Zenon
<1>5. PacketsApart(PeersWith(d, p, c2.q), nt, us)
  <2>1. \A b \in Device, r \in Peer :
          PeersWith(d, p, c2.q)[b][r].staged \in {<<>>, PeersWith(d, p, c.q)[b][r].staged}
    <3>1. \A b \in Device, r \in Peer :
            PeersWith(d, p, c.q)[b][r] = IF b = d /\ r = p THEN c.q ELSE io[b][r]
      BY Focus
    <3>2. \A b \in Device, r \in Peer :
            PeersWith(d, p, c2.q)[b][r] = IF b = d /\ r = p THEN c2.q ELSE io[b][r]
      BY Focus
    <3> QED BY <3>1, <3>2
  <2> QED BY <1>1, <2>1, ApartLess, Zenon
<1>6. Deadline(NoiseWith(d, c2.n), PeersWith(d, p, c2.q))
  <2>1. \A r \in Peer : Keypairs(c.n, r) = {} => Keypairs(c2.n, r) = {}
    BY Zenon DEF Quiet, QuietFor
  <2> QED BY <1>1, <2>1, DeadlineKept, Zenon DEF nz
<1>7. NewerOnly(noise[d], c2.n)
  BY QuietInherits, NewerKept, Zenon DEF ContextKeys
<1> QED BY <1>2, <1>4, <1>5, <1>6, <1>7, Zenon DEF ContextKeys, KeysAndPackets, nt

\* m is n after an initiation to peer p with ephemeral e.
Initiated(n, m, p, e) ==
  /\ m.peers = n.peers
  /\ \A q \in Peer : /\ Keypairs(m, q) = Keypairs(n, q)
                     /\ m.current[q] = n.current[q]
                     /\ m.hs[q].last_timestamp = n.hs[q].last_timestamp
                     /\ q # p => m.hs[q] = n.hs[q]
  /\ m.hs[p].local_ephemeral = e

\* What noise_create_initiation changes of the sessions.
LEMMA CreateInitiationKeys ==
  ASSUME NEW n \in NoiseState, NEW p \in Peer, NEW i, NEW e \in Nat
  PROVE  Initiated(n, noise_create_initiation([n EXCEPT !.hs[p].sent_recently = TRUE], p, i, e), p, e)
<1> DEFINE n1 == [n EXCEPT !.hs[p].sent_recently = TRUE]
           t == index_table_new_for_handshake(index_table_delete(n1.table, n1.hs[p].local_index), p, i)
           h0 == [n1.hs[p] EXCEPT !.local_ephemeral = e]
           h == IF i = NoIndex THEN h0
                ELSE [h0 EXCEPT !.local_index = i, !.state = "INITIATION_CREATED"]
           m == noise_create_initiation(n1, p, i, e)
<1>1. m = [n1 EXCEPT !.table = t, !.hs[p] = h]
  BY Zenon DEF noise_create_initiation
<1>2. n.hs \in [Peer -> Handshake]
  BY Zenon DEF NoiseState
<1>3. n1 \in NoiseState /\ n1.hs[p].last_timestamp = n.hs[p].last_timestamp
  <2> DEFINE g == [n.hs[p] EXCEPT !.sent_recently = TRUE]
  <2>1. g \in Handshake /\ g.last_timestamp = n.hs[p].last_timestamp
    BY <1>2, Zenon DEF Handshake
  <2>2. n1 = [n EXCEPT !.hs[p] = g]
    BY Zenon
  <2> HIDE DEF g, n1
  <2> QED BY <2>1, <2>2, Zenon DEF NoiseState
<1>4. /\ n1.peers = n.peers /\ n1.current = n.current /\ n1.next = n.next /\ n1.prev = n.prev
      /\ \A q \in Peer : q # p => n1.hs[q] = n.hs[q]
  BY <1>2, Zenon DEF NoiseState
<1> HIDE DEF n1
<1>5. h.local_ephemeral = e /\ h.last_timestamp = n.hs[p].last_timestamp
  <2>1. h0.local_ephemeral = e /\ h0.last_timestamp = n.hs[p].last_timestamp /\ h0 \in Handshake
    <3>1. n1.hs[p] \in Handshake
      BY <1>3, Zenon DEF NoiseState
    <3> QED BY <1>3, <3>1, Zenon DEF Handshake
  <2> HIDE DEF h0
  <2> QED BY <2>1, Zenon DEF Handshake
<1> HIDE DEF t, h
<1>6. /\ m.peers = n.peers /\ m.current = n.current /\ m.next = n.next /\ m.prev = n.prev
      /\ m.hs[p] = h /\ \A q \in Peer : q # p => m.hs[q] = n.hs[q]
  BY <1>1, <1>3, <1>4 DEF NoiseState
<1> HIDE DEF m
<1>7. /\ m.peers = n.peers
      /\ \A q \in Peer : /\ Keypairs(m, q) = Keypairs(n, q)
                         /\ m.current[q] = n.current[q]
                         /\ m.hs[q].last_timestamp = n.hs[q].last_timestamp
                         /\ q # p => m.hs[q] = n.hs[q]
      /\ m.hs[p].local_ephemeral = e
  BY <1>6, <1>5, Zenon DEF Keypairs
<1> QED BY <1>7, Zenon DEF m, n1, Initiated

\* device_initiate_handshake_inner: the handshake gets a fresh ephemeral, and the
\* initiation may be sent.
LEMMA InitiateKeys ==
  ASSUME SessionInv, NEW d \in Device, NEW c, ContextOK(c), NEW p \in c.n.peers,
         NEW i \in Picks(c.n, p), NEW force \in BOOLEAN, NEW us, ContextKeys(c, d, p, us)
  PROVE  ContextKeys(device_initiate_handshake_inner(c, d, p, force, i), d, p, us)
<1> DEFINE n1 == [c.n EXCEPT !.hs[p].sent_recently = TRUE]
           n2 == noise_create_initiation(n1, p, i, c.e + 1)
           c1 == [c EXCEPT !.n = n2, !.e = @ + 1, !.inits = @ + 1]
           msg == [type |-> "initiation", to |-> p, from |-> d, sender |-> i, eph |-> c.e + 1]
           c2 == [c1 EXCEPT !.out = @ \cup {msg}, !.q.retransmit = TRUE]
           r == device_initiate_handshake_inner(c, d, p, force, i)
           nz == NoiseWith(d, c.n)
           nt == net \cup c.out
<1>0. r = IF c.n.hs[p].sent_recently /\ ~force THEN c
          ELSE IF i = NoIndex \/ ~c.q.endpoint THEN c1 ELSE c2
  BY Zenon DEF device_initiate_handshake_inner
<1>1. p \in Peer
  BY Zenon DEF ContextOK, NoiseState
<1>2. /\ c.n \in NoiseState /\ NoiseInv(c.n) /\ c.q \in PeerIO /\ c.e \in Nat
      /\ nt \in SUBSET Message /\ delivered \in [Packet -> Nat]
      /\ nz \in [Device -> NoiseState] /\ nz[d] = c.n
      /\ \A n : [nz EXCEPT ![d] = n] = NoiseWith(d, n)
  BY <1>1, Focus, Zenon
<1>3. /\ KeysInv(nz, nt, c.e, delivered) /\ PacketsApart(PeersWith(d, p, c.q), nt, us)
      /\ Deadline(nz, PeersWith(d, p, c.q))
  BY Zenon DEF ContextKeys, KeysAndPackets
<1>4. n2 \in NoiseState
  <2>1. NoiseInv(n1) /\ p \in n1.peers /\ i \in Picks(n1, p)
    <3>1. /\ NoiseInv(n1) /\ n1.peers = c.n.peers /\ Picks(n1, p) = Picks(c.n, p)
      BY <1>1, <1>2, SentRecentlyInv, Zenon
    <3> QED BY <3>1, Zenon
  <2>2. c.e + 1 \in Nat
    BY <1>2
  <2> HIDE DEF n1
  <2>3. NoiseInv(n2)
    BY <2>1, <2>2, CreateInitiationInv, Zenon
  <2> QED BY <2>3, Zenon DEF NoiseInv
<1>5. /\ n2.peers = c.n.peers
      /\ \A q \in Peer : /\ Keypairs(n2, q) = Keypairs(c.n, q)
                         /\ n2.current[q] = c.n.current[q]
                         /\ n2.hs[q].last_timestamp = c.n.hs[q].last_timestamp
                         /\ q # p => n2.hs[q] = c.n.hs[q]
      /\ n2.hs[p].local_ephemeral = c.e + 1
  <2>1. c.e + 1 \in Nat
    BY <1>2
  <2>2. Initiated(c.n, n2, p, c.e + 1)
    BY <1>1, <1>2, <2>1, CreateInitiationKeys, Zenon
  <2> QED BY <2>2, Zenon DEF Initiated
<1> HIDE DEF n2
<1>6. /\ c1.n = n2 /\ c1.q = c.q /\ c1.out = c.out /\ c1.e = c.e + 1
      /\ c2.n = n2 /\ c2.q = [c.q EXCEPT !.retransmit = TRUE] /\ c2.out = c.out \cup {msg} /\ c2.e = c.e + 1
  BY Zenon DEF ContextOK
<1>7. c2.q.staged = c.q.staged /\ c2.q.zero = c.q.zero /\ c2.q \in PeerIO
  <2> DEFINE q2 == [c.q EXCEPT !.retransmit = TRUE]
  <2>1. q2.staged = c.q.staged /\ q2.zero = c.q.zero /\ q2 \in PeerIO
    BY <1>2, Zenon DEF PeerIO
  <2> HIDE DEF c2
  <2> QED BY <1>6, <2>1, Zenon
<1>8. i # NoIndex => msg \in Initiation
  BY <1>1, <1>2, PickNone DEF Initiation, Device
<1>9. msg.eph <= c.e + 1 /\ msg.type # "transport"
  BY <1>2
<1> HIDE DEF c1, c2, msg, nz, nt
<1>10. KeysInv(NoiseWith(d, n2), nt, c.e + 1, delivered)
  <2>1. /\ n2.peers = nz[d].peers
        /\ \A q \in Peer : /\ Keypairs(n2, q) = Keypairs(nz[d], q)
                           /\ n2.current[q] = nz[d].current[q]
                           /\ n2.hs[q].last_timestamp = nz[d].hs[q].last_timestamp
                           /\ q # p => n2.hs[q] = nz[d].hs[q]
        /\ n2.hs[p].local_ephemeral = c.e + 1
    BY <1>2, <1>5, Zenon
  <2>2. KeysInv([nz EXCEPT ![d] = n2], nt, c.e + 1, delivered)
    BY <1>1, <1>2, <1>3, <1>4, <2>1, FreshEphemeral, Zenon
  <2> QED BY <1>2, <2>2, Zenon
<1>11. i # NoIndex => KeysInv(NoiseWith(d, n2), nt \cup {msg}, c.e + 1, delivered)
  <2>1. c.e + 1 \in Nat
    BY <1>2
  <2> QED BY <1>2, <1>8, <1>9, <1>10, <2>1, InitiationSent, Zenon
<1>12. ASSUME NEW q \in PeerIO, q.staged = c.q.staged, q.zero = c.q.zero
       PROVE  /\ PacketsApart(PeersWith(d, p, q), nt, us)
              /\ PacketsApart(PeersWith(d, p, q), nt \cup {msg}, us)
              /\ Deadline(NoiseWith(d, n2), PeersWith(d, p, q))
  <2>1. /\ io \in [Device -> [Peer -> PeerIO]] /\ noise \in [Device -> NoiseState]
    BY Zenon DEF SessionInv, TypeOK
  <2>2. \A b \in Device, t \in Peer :
          /\ PeersWith(d, p, q)[b][t].staged = PeersWith(d, p, c.q)[b][t].staged
          /\ PeersWith(d, p, q)[b][t].zero = PeersWith(d, p, c.q)[b][t].zero
          /\ Keypairs(NoiseWith(d, n2)[b], t) = Keypairs(nz[b], t)
    BY <1>1, <1>5, <1>12, <2>1, Zenon DEF PeersWith, NoiseWith, nz
  <2>3. PacketsApart(PeersWith(d, p, q), nt, us)
    BY <1>3, <2>2, ApartLess
  <2>4. PacketsApart(PeersWith(d, p, q), nt \cup {msg}, us)
    BY <1>3, <1>9, <2>2, ApartLess
  <2>5. Deadline(NoiseWith(d, n2), PeersWith(d, p, q))
    BY <1>3, <2>2, Zenon DEF Deadline
  <2> QED BY <2>3, <2>4, <2>5, Zenon
<1>13. NewerOnly(noise[d], n2)
  <2>1. Inherits(c.n, n2)
    BY <1>5, Zenon DEF Inherits
  <2> QED BY <2>1, NewerKept, Zenon DEF ContextKeys
<1>14. ContextKeys(c1, d, p, us)
  BY <1>2, <1>6, <1>10, <1>12, <1>13, Zenon DEF ContextKeys, KeysAndPackets, nt
<1>15. i # NoIndex => ContextKeys(c2, d, p, us)
  <2>1. net \cup c2.out = nt \cup {msg}
    BY <1>6, Zenon DEF nt
  <2> QED BY <1>6, <1>7, <1>11, <1>12, <1>13, <2>1, Zenon DEF ContextKeys, KeysAndPackets
<1> QED BY <1>0, <1>14, <1>15, Zenon

\* timers_handshake_begin initiates, or nothing.
LEMMA BeginKeys ==
  ASSUME SessionInv, NEW d \in Device, NEW c, ContextOK(c), NEW p \in c.n.peers,
         NEW i \in Picks(c.n, p), NEW us, ContextKeys(c, d, p, us)
  PROVE  ContextKeys(timers_handshake_begin(c, d, p, i), d, p, us)
BY InitiateKeys, Zenon DEF timers_handshake_begin

\* A noise state whose keypairs are those of n, later, is quiet.
LEMMA KeypairsQuiet ==
  ASSUME NEW n \in NoiseState, NEW m \in NoiseState, NEW p \in Peer, m.hs = n.hs,
         \A q \in Peer : q # p => /\ m.current[q] = n.current[q]
                                  /\ m.next[q] = n.next[q]
                                  /\ m.prev[q] = n.prev[q],
         m.current[p] = n.current[p] \/ (Exists(n.current[p]) /\ Successor(n.current[p], m.current[p])),
         m.next[p] = n.next[p] \/ (Exists(n.next[p]) /\ Successor(n.next[p], m.next[p])),
         m.prev[p] = n.prev[p] \/ (Exists(n.prev[p]) /\ Successor(n.prev[p], m.prev[p]))
  PROVE  Quiet(n, m)
<1> SUFFICES ASSUME NEW q \in Peer PROVE QuietFor(n, m, q)
  BY Zenon DEF Quiet
<1>1. \A kp \in Keypair : Successor(kp, kp)
  BY DEF Successor, Keypair
<1>2. /\ n.current[q] \in Keypair /\ n.next[q] \in Keypair /\ n.prev[q] \in Keypair
      /\ n.hs[q] \in Handshake
  BY Zenon DEF NoiseState
<1>3. /\ m.current[q] = n.current[q] \/ (Exists(n.current[q]) /\ Successor(n.current[q], m.current[q]))
      /\ m.next[q] = n.next[q] \/ (Exists(n.next[q]) /\ Successor(n.next[q], m.next[q]))
      /\ m.prev[q] = n.prev[q] \/ (Exists(n.prev[q]) /\ Successor(n.prev[q], m.prev[q]))
  <2>1. CASE q = p
    BY <2>1, Zenon
  <2>2. CASE q # p
    BY <2>2, Zenon
  <2> QED BY <2>1, <2>2, Zenon
<1>4. \A k1 \in Keypairs(m, q) : \E k0 \in Keypairs(n, q) : Successor(k0, k1)
  BY <1>1, <1>2, <1>3, Zenon DEF Keypairs
<1>5. /\ Pending(m, q) => Pending(n, q) /\ m.hs[q].local_ephemeral = n.hs[q].local_ephemeral
      /\ m.hs[q].local_ephemeral \in {0, n.hs[q].local_ephemeral}
      /\ n.hs[q].last_timestamp <= m.hs[q].last_timestamp
  BY <1>2 DEF Pending, Handshake
<1>6. Exists(m.current[q]) /\ ~m.current[q].is_initiator =>
        /\ Exists(n.current[q]) /\ ~n.current[q].is_initiator
        /\ m.current[q].key = n.current[q].key
  BY <1>3, Zenon DEF Successor
<1> QED BY <1>4, <1>5, <1>6, Zenon DEF QuietFor

\* Using up nonces and ageing are quiet.
LEMMA SendKeypairQuiet ==
  ASSUME NEW n, NoiseInv(n), NEW p \in Peer, Exists(SendKeypair(n, p)),
         NEW kp \in Keypair, Exists(kp), Successor(SendKeypair(n, p), kp)
  PROVE  /\ Quiet(n, WithSendKeypair(n, p, kp))
         /\ SendKeypair(n, p) \in Keypairs(n, p) /\ kp \in Keypairs(WithSendKeypair(n, p, kp), p)
<1> DEFINE m == WithSendKeypair(n, p, kp)
<1>1. n \in NoiseState
  BY Zenon DEF NoiseInv
<1>2. CASE Exists(n.current[p])
  <2>1. m = [n EXCEPT !.current[p] = kp]
    BY <1>2, Zenon DEF WithSendKeypair
  <2> HIDE DEF m
  <2>2. /\ m \in NoiseState /\ m.hs = n.hs /\ m.next = n.next /\ m.prev = n.prev /\ m.current[p] = kp
        /\ \A q \in Peer : q # p => m.current[q] = n.current[q]
    BY <1>1, <2>1, Zenon DEF NoiseState
  <2>3. SendKeypair(n, p) = n.current[p]
    BY <1>2, Zenon DEF SendKeypair
  <2>4. Quiet(n, m)
    BY <1>1, <1>2, <2>2, <2>3, KeypairsQuiet, Zenon
  <2> QED BY <1>2, <2>2, <2>3, <2>4, Zenon DEF Keypairs, m
<1>3. CASE ~Exists(n.current[p])
  <2>1. m = [n EXCEPT !.next[p] = kp]
    BY <1>3, Zenon DEF WithSendKeypair
  <2> HIDE DEF m
  <2>2. /\ m \in NoiseState /\ m.hs = n.hs /\ m.current = n.current /\ m.prev = n.prev /\ m.next[p] = kp
        /\ \A q \in Peer : q # p => m.next[q] = n.next[q]
    BY <1>1, <2>1, Zenon DEF NoiseState
  <2>3. SendKeypair(n, p) = n.next[p]
    BY <1>3, Zenon DEF SendKeypair
  <2>4. Quiet(n, m)
    BY <1>1, <2>2, <2>3, KeypairsQuiet, Zenon
  <2> QED BY <2>2, <2>3, <2>4, Zenon DEF Keypairs, m
<1> QED BY <1>2, <1>3, Zenon

\* device_send_to_peer with nonces left: the packets in the hand are sent.
LEMMA SentKeys ==
  ASSUME SessionInv, NEW d \in Device, NEW c, ContextOK(c), NEW p \in c.n.peers,
         NEW us \in SUBSET Packet, ContextKeys(c, d, p, us),
         NEW xs \in Seq(Packet \cup {Keepalive}),
         InHand(xs, PeersWith(d, p, c.q), net \cup c.out, us),
         Exists(SendKeypair(c.n, p)), NEW c2, ContextOK(c2),
         c2.n = WithSendKeypair(c.n, p, [SendKeypair(c.n, p) EXCEPT !.send_nonce = @ + Len(xs)]),
         c2.q = c.q, c2.e = c.e,
         c2.out \in {c.out, c.out \cup {TransportMsg(SendKeypair(c.n, p), p, k - 1, xs[k]) : k \in DOMAIN xs}}
  PROVE  ContextKeys(c2, d, p, us)
<1> DEFINE kp == SendKeypair(c.n, p)
           kp1 == [kp EXCEPT !.send_nonce = @ + Len(xs)]
           msgs == {TransportMsg(kp, p, k - 1, xs[k]) : k \in DOMAIN xs}
           nz == NoiseWith(d, c.n)
           nt == net \cup c.out
           qs == PeersWith(d, p, c.q)
<1>1. p \in Peer
  BY Zenon DEF ContextOK, NoiseState
<1>2. /\ c.n \in NoiseState /\ NoiseInv(c.n) /\ c.q \in PeerIO /\ c.e \in Nat
      /\ nt \in SUBSET Message /\ delivered \in [Packet -> Nat]
      /\ nz \in [Device -> NoiseState] /\ nz[d] = c.n
      /\ qs \in [Device -> [Peer -> PeerIO]]
  BY <1>1, Focus, Zenon
<1>3. /\ NoiseWith(d, c2.n) \in [Device -> NoiseState] /\ NoiseWith(d, c2.n)[d] = c2.n
      /\ \A b \in Device : NoiseInv(NoiseWith(d, c2.n)[b])
  BY <1>1, Focus, Zenon
<1>4. KeysInv(nz, nt, c.e, delivered) /\ PacketsApart(qs, nt, us) /\ Deadline(nz, qs)
  BY Zenon DEF ContextKeys, KeysAndPackets
<1>5. kp \in Keypair /\ kp # NoKeypair /\ kp.local_index \in Index
  BY <1>1, <1>2, SendKeypairType, Zenon DEF Exists
<1>6. Len(xs) \in Nat /\ DOMAIN xs = 1..Len(xs) /\ \A k \in DOMAIN xs : xs[k] \in Packet \cup {Keepalive}
  OBVIOUS
<1>7. c2.n = WithSendKeypair(c.n, p, kp1) /\ (c2.out = c.out \/ c2.out = c.out \cup msgs)
  BY Zenon
<1>8. \A s \in msgs : \E k \in DOMAIN xs :
        s \in Transport /\ s.key = kp.key /\ s.by_initiator = kp.is_initiator
        /\ s.counter = kp.send_nonce + (k - 1) /\ s.packet = xs[k] /\ s = TransportMsg(kp, p, k - 1, xs[k])
  <2>1. ASSUME NEW k \in DOMAIN xs
        PROVE  LET s == TransportMsg(kp, p, k - 1, xs[k])
               IN  s \in Transport /\ s.key = kp.key /\ s.by_initiator = kp.is_initiator
                   /\ s.counter = kp.send_nonce + (k - 1) /\ s.packet = xs[k]
    <3> HIDE DEF kp
    <3> QED BY <1>1, <1>5, <1>6 DEF TransportMsg, Transport, Keypair, Device
  <2> QED BY <2>1
<1> HIDE DEF kp, msgs
<1>9. /\ kp1 \in Keypair /\ Successor(kp, kp1) /\ kp1.send_nonce = kp.send_nonce + Len(xs)
      /\ kp1.key = kp.key /\ kp1.is_initiator = kp.is_initiator /\ Exists(kp1)
  <2>1. /\ kp1 \in Keypair /\ kp1.send_nonce = kp.send_nonce + Len(xs)
        /\ kp1.key = kp.key /\ kp1.is_initiator = kp.is_initiator
        /\ kp1.local_index = kp.local_index /\ kp1.remote_index = kp.remote_index
        /\ kp1.replay = kp.replay
    BY <1>5, <1>6 DEF Keypair
  <2>2. kp.send_nonce <= kp.send_nonce + Len(xs)
    BY <1>5, <1>6 DEF Keypair
  <2> HIDE DEF kp1
  <2>3. Exists(kp1)
    BY <1>5, <2>1, NoiseAssumption DEF NoKeypair, Exists
  <2> QED BY <2>1, <2>2, <2>3, Zenon DEF Successor
<1> HIDE DEF kp1, nz, nt, qs
<1>10. Quiet(c.n, c2.n) /\ kp \in Keypairs(c.n, p) /\ kp1 \in Keypairs(c2.n, p)
  BY <1>1, <1>2, <1>7, <1>9, SendKeypairQuiet DEF kp
<1>11. /\ KeysInv(NoiseWith(d, c2.n), nt, c.e, delivered) /\ Deadline(NoiseWith(d, c2.n), qs)
       /\ NewerOnly(noise[d], c2.n)
  <2> DEFINE c3 == [c2 EXCEPT !.out = c.out]
  <2>1. ContextOK(c3) /\ c3.n = c2.n /\ c3.q = c2.q /\ c3.out = c.out /\ c3.e = c.e
    <3>1. c.out \in SUBSET Message
      BY <1>1, Focus, Zenon
    <3> QED BY <3>1, Zenon DEF ContextOK
  <2> HIDE DEF c3
  <2>2. c3.n.peers = c.n.peers
    BY <1>1, <1>2, <1>7, <2>1 DEF WithSendKeypair, NoiseState
  <2>3. ContextKeys(c3, d, p, us)
    BY <1>1, <1>10, <2>1, <2>2, QuietContext
  <2> QED BY <2>1, <2>3, Zenon DEF ContextKeys, KeysAndPackets, nt, qs
<1>12. ASSUME NEW x \in Packet, NEW k \in DOMAIN xs, xs[k] = x PROVE delivered[x] = 0
  <2>1. \A s \in nt : ~Carries(s, x)
    BY <1>12, Zenon DEF InHand, Fresh, nt
  <2>2. delivered[x] <= 1 /\ delivered[x] # 1
    BY <1>4, <2>1, Zenon DEF KeysInv, Delivered
  <2> QED BY <1>2, <2>2
<1>13. KeysInv(NoiseWith(d, c2.n), nt \cup msgs, c.e, delivered)
  <2>1. \A s \in nt : s.type = "transport" /\ s.key = kp1.key /\ s.by_initiator = kp1.is_initiator
                        => s.counter < kp.send_nonce
    BY <1>1, <1>2, <1>4, <1>9, <1>10, Zenon DEF KeysInv, NoncesAhead
  <2>2. kp.send_nonce \in Nat
    BY <1>5, Zenon DEF Keypair
  <2>3. \A s \in msgs : /\ s.key = kp1.key /\ s.by_initiator = kp1.is_initiator
                        /\ kp.send_nonce <= s.counter /\ s.counter < kp1.send_nonce
                        /\ s.packet \in Packet => delivered[s.packet] = 0
    <3> SUFFICES ASSUME NEW s \in msgs
                 PROVE  /\ s.key = kp1.key /\ s.by_initiator = kp1.is_initiator
                        /\ kp.send_nonce <= s.counter /\ s.counter < kp1.send_nonce
                        /\ s.packet \in Packet => delivered[s.packet] = 0
      BY Zenon
    <3>1. PICK k \in DOMAIN xs : /\ s.key = kp.key /\ s.by_initiator = kp.is_initiator
                                 /\ s.counter = kp.send_nonce + (k - 1) /\ s.packet = xs[k]
      BY <1>8, Zenon
    <3>2. k \in Nat /\ 1 <= k /\ k <= Len(xs)
      BY <1>6
    <3>3. kp.send_nonce <= s.counter /\ s.counter < kp1.send_nonce
      BY <1>6, <1>9, <2>2, <3>1, <3>2
    <3> QED BY <1>9, <1>12, <3>1, <3>3, Zenon
  <2>4. \A s1, s2 \in msgs : s1.counter = s2.counter => s1 = s2
    <3> SUFFICES ASSUME NEW s1 \in msgs, NEW s2 \in msgs, s1.counter = s2.counter PROVE s1 = s2
      BY Zenon
    <3>1. PICK k1 \in DOMAIN xs : /\ s1.counter = kp.send_nonce + (k1 - 1)
                                  /\ s1 = TransportMsg(kp, p, k1 - 1, xs[k1])
      BY <1>8, Zenon
    <3>2. PICK k2 \in DOMAIN xs : /\ s2.counter = kp.send_nonce + (k2 - 1)
                                  /\ s2 = TransportMsg(kp, p, k2 - 1, xs[k2])
      BY <1>8, Zenon
    <3>3. k1 = k2
      <4>1. k1 \in Nat /\ k2 \in Nat
        BY <1>6
      <4>2. kp.send_nonce + (k1 - 1) = kp.send_nonce + (k2 - 1)
        BY <3>1, <3>2, Zenon
      <4> QED BY <2>2, <4>1, <4>2
    <3> QED BY <3>1, <3>2, <3>3, Zenon
  <2>5. msgs \in SUBSET Transport
    BY <1>8, Zenon
  <2>6. kp1 \in Keypairs(NoiseWith(d, c2.n)[d], p)
    BY <1>3, <1>10, Zenon
  <2>7. Batch(msgs, kp1, kp.send_nonce, nt, delivered)
    BY <2>1, <2>3, <2>4, Zenon DEF Batch
  <2> QED BY <1>1, <1>2, <1>3, <1>11, <2>2, <2>5, <2>6, <2>7, TransportsSent, Zenon
<1>14. PacketsApart(qs, nt \cup msgs, us)
  <2>1. \A s \in msgs : \E k \in DOMAIN xs : s.packet = xs[k]
    BY <1>8, Zenon
  <2>2. ASSUME NEW s1 \in msgs, NEW s2 \in msgs, NEW k \in DOMAIN xs,
               \A j \in DOMAIN xs : xs[j] = xs[k] => j = k, s1.packet = xs[k], s2.packet = xs[k]
        PROVE  s1 = s2
    <3>1. s1 = TransportMsg(kp, p, k - 1, xs[k])
      BY <1>8, <2>2, Zenon
    <3>2. s2 = TransportMsg(kp, p, k - 1, xs[k])
      BY <1>8, <2>2, Zenon
    <3> QED BY <3>1, <3>2, Zenon
  <2>3. \A b \in Device, r \in Peer : \A k \in DOMAIN qs[b][r].staged : qs[b][r].staged[k] \in Packet
    BY <1>2 DEF PeerIO
  <2>4. InHand(xs, qs, nt, us)
    BY Zenon DEF qs, nt
  <2>5. \A s1, s2 \in msgs : \A k \in DOMAIN xs :
          (\A j \in DOMAIN xs : xs[j] = xs[k] => j = k)
          /\ s1.packet = xs[k] /\ s2.packet = xs[k] => s1 = s2
    BY <2>2
  <2>6. \A y \in us : y \in Packet
    BY Zenon
  <2> QED BY <1>4, <2>1, <2>3, <2>4, <2>5, <2>6, ApartSent, Zenon
<1>15. CASE c2.out = c.out
  BY <1>4, <1>11, <1>15, Zenon DEF ContextKeys, KeysAndPackets, nt, qs
<1>16. CASE c2.out = c.out \cup msgs
  <2>1. net \cup c2.out = nt \cup msgs
    BY <1>16, Zenon DEF nt
  <2> QED BY <1>11, <1>13, <1>14, <2>1, Zenon DEF ContextKeys, KeysAndPackets, qs
<1> QED BY <1>7, <1>15, <1>16, Zenon

\* peer_stage_packet puts the packet in the hand into the queue, or drops it.
LEMMA StageKeys ==
  ASSUME SessionInv, NEW d \in Device, NEW p \in Peer, NEW c, ContextOK(c),
         NEW us, ContextKeys(c, d, p, us),
         NEW xs \in Seq(Packet \cup {Keepalive}), xs # <<>>,
         InHand(xs, PeersWith(d, p, c.q), net \cup c.out, us),
         NEW c2, ContextOK(c2), c2.n = c.n, c2.q = peer_stage_packet(c.q, xs[1]),
         c2.out = c.out, c2.e = c.e
  PROVE  ContextKeys(c2, d, p, us)
<1> DEFINE nt == net \cup c.out
           x == xs[1]
           q1 == PeersWith(d, p, c.q)
           q2 == PeersWith(d, p, c2.q)
<1>1. /\ KeysInv(NoiseWith(d, c.n), nt, c.e, delivered) /\ PacketsApart(q1, nt, us)
      /\ Deadline(NoiseWith(d, c.n), q1) /\ NewerOnly(noise[d], c.n)
  BY Zenon DEF ContextKeys, KeysAndPackets
<1>2. /\ c.q \in PeerIO /\ q1 \in [Device -> [Peer -> PeerIO]]
      /\ \A b \in Device, r \in Peer : q1[b][r] = IF b = d /\ r = p THEN c.q ELSE io[b][r]
  BY Focus
<1>3. \A b \in Device, r \in Peer : q2[b][r] = IF b = d /\ r = p THEN c2.q ELSE io[b][r]
  BY Focus
<1>4. x \in Packet \cup {Keepalive} /\ 1 \in DOMAIN xs
  OBVIOUS
<1> HIDE DEF nt, x, q1, q2
<1>5. CASE c2.q = c.q
  BY <1>1, <1>5, Zenon DEF ContextKeys, KeysAndPackets, nt, q1
<1>6. CASE c2.q # c.q
  <2>1. x \in Packet /\ c2.q = [c.q EXCEPT !.staged = Append(@, x)]
    BY <1>4, <1>6 DEF peer_stage_packet, x
  <2>2. c2.q.staged = Append(c.q.staged, x) /\ c2.q.zero = c.q.zero
    BY <1>2, <2>1, Zenon DEF PeerIO
  <2>3. PacketsApart(q2, nt, us)
    <3>1. InHand(xs, q1, nt, us)
      BY Zenon DEF q1, nt
    <3>2. /\ q2[d][p].staged = Append(q1[d][p].staged, x)
          /\ \A b \in Device, r \in Peer : ~(b = d /\ r = p) => q2[b][r].staged = q1[b][r].staged
      BY <1>2, <1>3, <2>2
    <3>3. Fresh(x, q1, nt, us)
      BY <1>4, <2>1, <3>1, Zenon DEF InHand, x
    <3>4. x \in Packet /\ q1 \in [Device -> [Peer -> PeerIO]] /\ PacketsApart(q1, nt, us)
      BY <1>1, <1>2, <2>1, Zenon
    <3> QED BY ONLY <3>2, <3>3, <3>4, d \in Device, p \in Peer, ApartStaged, Zenon
  <2>4. Deadline(NoiseWith(d, c2.n), q2)
    <3>1. \A b \in Device, r \in Peer : q2[b][r].zero = q1[b][r].zero
      BY <1>2, <1>3, <2>2, Zenon
    <3> QED BY <1>1, <3>1 DEF Deadline
  <2> QED BY <1>1, <2>3, <2>4, Zenon DEF ContextKeys, KeysAndPackets, nt, q2
<1> QED BY <1>5, <1>6, Zenon

\* device_send_to_peer, on each of its four paths.
LEMMA SendKeys ==
  ASSUME SessionInv, NEW d \in Device, NEW c, ContextOK(c), NEW p \in c.n.peers,
         NEW i \in Picks(c.n, p), NEW us \in SUBSET Packet, ContextKeys(c, d, p, us),
         NEW xs \in Seq(Packet \cup {Keepalive}), xs # <<>>,
         InHand(xs, PeersWith(d, p, c.q), net \cup c.out, us)
  PROVE  ContextKeys(device_send_to_peer(c, d, p, xs, i), d, p, us)
<1> DEFINE kp == SendKeypair(c.n, p)
           kp1 == [kp EXCEPT !.send_nonce = @ + Len(xs)]
           all == {TransportMsg(kp, p, k - 1, xs[k]) : k \in DOMAIN xs}
           msgs == IF c.q.endpoint THEN all ELSE {}
           n1 == WithSendKeypair(c.n, p, kp1)
           sent == [c EXCEPT !.n = n1, !.out = @ \cup msgs]
           staged == [c EXCEPT !.q = peer_stage_packet(@, xs[1])]
           r == device_send_to_peer(c, d, p, xs, i)
<1>1. p \in Peer
  BY Zenon DEF ContextOK, NoiseState
<1>2. /\ c \in [n : NoiseState, q : PeerIO, out : SUBSET Message, e : Nat, inits : Nat]
      /\ NoiseInv(c.n) /\ Len(c.q.staged) <= PEER_QUEUE_SIZE
  BY Zenon DEF ContextOK
<1>3. r = CASE ~Exists(kp)       -> device_initiate_handshake_inner(staged, d, p, FALSE, i)
            [] kp.age = "reject" -> timers_handshake_begin(staged, d, p, i)
            [] kp.age = "rekey"  -> timers_handshake_begin(sent, d, p, i)
            [] OTHER             -> sent
  BY Zenon DEF device_send_to_peer
<1>4. xs[1] \in Packet \cup {Keepalive}
  OBVIOUS
<1>5. ContextOK(staged) /\ staged.n = c.n /\ ContextKeys(staged, d, p, us)
  <2>1. /\ peer_stage_packet(c.q, xs[1]) \in PeerIO
        /\ Len(peer_stage_packet(c.q, xs[1]).staged) <= PEER_QUEUE_SIZE
    BY <1>2, <1>4, StageOK, Zenon
  <2>2. /\ ContextOK(staged) /\ staged.n = c.n /\ staged.q = peer_stage_packet(c.q, xs[1])
        /\ staged.out = c.out /\ staged.e = c.e
    BY <1>2, <2>1, Zenon DEF ContextOK
  <2> HIDE DEF staged
  <2> QED BY <1>1, <2>2, StageKeys, Zenon
<1>6. ASSUME Exists(kp)
      PROVE  /\ ContextOK(sent) /\ ContextKeys(sent, d, p, us)
             /\ p \in sent.n.peers /\ i \in Picks(sent.n, p)
  <2>1. kp \in Keypair /\ kp # NoKeypair /\ kp.local_index \in Index
    BY <1>1, <1>2, <1>6, SendKeypairType, Zenon DEF Exists
  <2>2. Len(xs) \in Nat /\ DOMAIN xs = 1..Len(xs) /\ \A k \in DOMAIN xs : xs[k] \in Packet \cup {Keepalive}
    OBVIOUS
  <2>3. all \subseteq Message
    <3>1. ASSUME NEW k \in DOMAIN xs PROVE TransportMsg(kp, p, k - 1, xs[k]) \in Message
      <4> HIDE DEF kp
      <4> QED BY <1>1, <2>1, <2>2 DEF TransportMsg, Message, Transport, Keypair, Device
    <3> QED BY <3>1, Zenon
  <2> HIDE DEF all, kp
  <2>4. kp1 \in Keypair /\ SameKeypair(kp, kp1)
    <3>1. kp1 \in Keypair /\ kp1.key = kp.key /\ kp1.local_index = kp.local_index
      BY <2>1, <2>2 DEF Keypair
    <3>2. kp1 # NoKeypair
      BY <2>1, <3>1, NoiseAssumption, Zenon DEF NoKeypair
    <3> QED BY <2>1, <3>1, <3>2, Zenon DEF SameKeypair
  <2> HIDE DEF kp1
  <2>5. NoiseInv(n1) /\ n1.peers = c.n.peers /\ Picks(n1, p) = Picks(c.n, p)
    BY <1>1, <1>2, <2>4, WithSendKeypairInv, Zenon DEF kp
  <2>6. n1 = WithSendKeypair(c.n, p, kp1)
    BY Zenon
  <2> HIDE DEF n1
  <2>7. msgs \subseteq Message /\ (c.out \cup msgs \in {c.out, c.out \cup all})
    BY <2>3, Zenon
  <2> HIDE DEF msgs
  <2>8. /\ ContextOK(sent) /\ sent.n = n1 /\ sent.q = c.q /\ sent.e = c.e /\ sent.out = c.out \cup msgs
    BY <1>2, <2>5, <2>7, Zenon DEF ContextOK, NoiseInv
  <2> HIDE DEF sent
  <2>9. ContextKeys(sent, d, p, us)
    BY <1>6, <2>6, <2>7, <2>8, SentKeys, Zenon DEF kp, kp1, all
  <2> QED BY <2>5, <2>8, <2>9, Zenon
<1> HIDE DEF sent, staged
<1>7. ContextKeys(device_initiate_handshake_inner(staged, d, p, FALSE, i), d, p, us)
  BY <1>5, InitiateKeys, Zenon
<1>8. ContextKeys(timers_handshake_begin(staged, d, p, i), d, p, us)
  BY <1>5, BeginKeys, Zenon
<1>9. Exists(kp) => ContextKeys(timers_handshake_begin(sent, d, p, i), d, p, us)
  BY <1>6, BeginKeys, Zenon
<1> HIDE DEF kp
<1>10. CASE ~Exists(kp)
  <2>1. kp.age = "fresh"
    BY <1>10 DEF Exists, NoKeypair
  <2>2. r = device_initiate_handshake_inner(staged, d, p, FALSE, i)
    BY <1>3, <1>10, <2>1, Zenon
  <2> QED BY <1>7, <2>2, Zenon
<1>11. CASE Exists(kp)
  BY <1>3, <1>6, <1>8, <1>9, <1>11, Zenon
<1> QED BY <1>10, <1>11, Zenon

\* The flush of the staged packets.
LEMMA FlushKeys ==
  ASSUME SessionInv, NEW d \in Device, NEW c, ContextOK(c), NEW p \in c.n.peers,
         NEW i \in Picks(c.n, p), NEW us \in SUBSET Packet, ContextKeys(c, d, p, us)
  PROVE  ContextKeys(FlushStaged(c, d, p, i), d, p, us)
<1> DEFINE c1 == [c EXCEPT !.q.staged = <<>>]
           xs == c.q.staged
           r == FlushStaged(c, d, p, i)
           q1 == PeersWith(d, p, c.q)
           q2 == PeersWith(d, p, c1.q)
           nt == net \cup c.out
<1>0. p \in Peer
  BY Zenon DEF ContextOK, NoiseState
<1>1. c.q \in PeerIO /\ xs \in Seq(Packet) /\ Len(<<>>) = 0
  BY Zenon DEF ContextOK, PeerIO
<1>2. /\ ContextOK(c1) /\ c1.n = c.n /\ c1.q.staged = <<>> /\ c1.q.zero = c.q.zero
      /\ c1.out = c.out /\ c1.e = c.e
  <2> DEFINE empty == <<>>
             q == [c.q EXCEPT !.staged = empty]
  <2>1. empty \in Seq(Packet) /\ Len(empty) <= PEER_QUEUE_SIZE
    BY <1>1, SessionAssumption
  <2>2. c1 = [c EXCEPT !.q = q]
    BY Zenon
  <2> HIDE DEF empty
  <2>3. q \in PeerIO /\ q.staged = empty /\ q.zero = c.q.zero
    BY <1>1, <2>1, Zenon DEF PeerIO
  <2> HIDE DEF c1, q
  <2>4. /\ c1 \in [n : NoiseState, q : PeerIO, out : SUBSET Message, e : Nat, inits : Nat]
        /\ c1.n = c.n /\ c1.q = q /\ c1.out = c.out /\ c1.e = c.e
    BY <2>2, <2>3, Zenon DEF ContextOK
  <2> QED BY <2>1, <2>3, <2>4, Zenon DEF ContextOK, empty
<1>3. xs \in Seq(Packet \cup {Keepalive})
  BY <1>1
<1>4. r = CASE xs = <<>> -> c
            [] FlushSpins(c, p) -> timers_handshake_begin(c, d, p, i)
            [] OTHER -> device_send_to_peer(c1, d, p, xs, i)
  BY Zenon DEF FlushStaged
<1>5. /\ KeysInv(NoiseWith(d, c.n), nt, c.e, delivered) /\ PacketsApart(q1, nt, us)
      /\ Deadline(NoiseWith(d, c.n), q1) /\ NewerOnly(noise[d], c.n)
  BY Zenon DEF ContextKeys, KeysAndPackets
<1>6. \A b \in Device, t \in Peer : q1[b][t] = IF b = d /\ t = p THEN c.q ELSE io[b][t]
  BY <1>0, Focus
<1> HIDE DEF c1
<1>7. \A b \in Device, t \in Peer : q2[b][t] = IF b = d /\ t = p THEN c1.q ELSE io[b][t]
  BY <1>0, <1>2, Focus
<1> HIDE DEF q1, q2, nt
<1>8. /\ q2[d][p].staged = <<>> /\ q1[d][p].staged = xs
      /\ \A b \in Device, t \in Peer : ~(b = d /\ t = p) => q2[b][t].staged = q1[b][t].staged
      /\ \A b \in Device, t \in Peer : q2[b][t].zero = q1[b][t].zero
      /\ \A b \in Device, t \in Peer : q2[b][t].staged \in {<<>>, q1[b][t].staged}
  BY <1>0, <1>2, <1>6, <1>7
<1>9. ContextKeys(c1, d, p, us)
  <2>1. PacketsApart(q2, nt, us)
    BY <1>5, <1>8, ApartLess, Zenon
  <2>2. Deadline(NoiseWith(d, c.n), q2)
    BY <1>5, <1>8, Zenon DEF Deadline
  <2> QED BY <1>2, <1>5, <2>1, <2>2, Zenon DEF ContextKeys, KeysAndPackets, nt, q2
<1>10. InHand(xs, q2, nt, us)
  BY <1>0, <1>5, <1>8, ApartTaken, Zenon
<1> HIDE DEF xs
<1>11. xs # <<>> => ContextKeys(device_send_to_peer(c1, d, p, xs, i), d, p, us)
  <2>1. InHand(xs, PeersWith(d, p, c1.q), net \cup c1.out, us)
    BY <1>2, <1>10, Zenon DEF q2, nt
  <2>2. p \in c1.n.peers /\ i \in Picks(c1.n, p)
    BY <1>2, Zenon
  <2> QED BY <1>2, <1>3, <1>9, <2>1, <2>2, SendKeys, Zenon
<1>12. ContextKeys(timers_handshake_begin(c, d, p, i), d, p, us)
  BY BeginKeys, Zenon
<1> QED BY <1>4, <1>11, <1>12, Zenon

----------------------------------------------------------------------------
(* Steps *)

\* A handler starts from the invariant,
LEMMA StartKeys ==
  ASSUME SessionInv, SessionKeysInv, NEW d \in Device, NEW p \in Peer,
         NEW uu \in SUBSET unsent
  PROVE  ContextKeys(Context(d, p), d, p, uu)
<1> DEFINE c == Context(d, p)
<1>1. c.n = noise[d] /\ c.q = io[d][p] /\ c.out = {} /\ c.e = ephemerals
  BY Zenon DEF Context
<1>2. noise \in [Device -> NoiseState] /\ io \in [Device -> [Peer -> PeerIO]]
  BY Zenon DEF SessionInv, TypeOK
<1>3. NoiseWith(d, c.n) = noise
  BY <1>1, <1>2, Zenon DEF NoiseWith
<1>4. PeersWith(d, p, c.q) = io
  BY <1>1, <1>2, Zenon DEF PeersWith
<1>5. net \cup c.out = net
  BY <1>1, Zenon
<1> HIDE DEF c
<1>6. PacketsApart(io, net, uu)
  <2>1. PacketsApart(io, net, unsent)
    BY Zenon DEF SessionKeysInv, KeysAndPackets
  <2> QED BY <2>1, ApartLess, Zenon
<1>7. NewerOnly(noise[d], noise[d])
  BY NewerSelf, Zenon
<1> QED BY <1>1, <1>3, <1>4, <1>5, <1>6, <1>7, Zenon DEF SessionKeysInv, KeysAndPackets, ContextKeys, c

\* NewerInitiationWins, of a step.
NewerKeys == \A d \in Device : NewerOnly(noise[d], noise'[d])

\* and commits its context.
LEMMA CommitKeys ==
  ASSUME SessionInv, NEW c, NEW d \in Device, NEW p \in Peer, Commit(c, d, p),
         ContextKeys(c, d, p, unsent'), delivered' = delivered
  PROVE  SessionKeysInv' /\ NewerKeys
<1>1. /\ noise' = NoiseWith(d, c.n) /\ io' = PeersWith(d, p, c.q)
      /\ net' = net \cup c.out /\ ephemerals' = c.e
  BY Zenon DEF Commit, NoiseWith, PeersWith
<1>2. KeysAndPackets(noise', io', net', ephemerals', unsent', delivered')
  BY <1>1, Zenon DEF ContextKeys
<1>3. \A b \in Device : noise'[b] = IF b = d THEN c.n ELSE noise[b]
  BY <1>1, Zenon DEF NoiseWith, SessionInv, TypeOK
<1>4. NewerKeys
  BY <1>3, NewerSelf, Zenon DEF NewerKeys, ContextKeys
<1> QED BY <1>2, <1>4, Zenon DEF SessionKeysInv

\* A quiet step of d that sends nothing.
LEMMA QuietStep ==
  ASSUME SessionInv, SessionKeysInv, NEW d \in Device, NEW n \in NoiseState, d \notin n.peers,
         noise' = [noise EXCEPT ![d] = n], Quiet(noise[d], n),
         \A b \in Device, r \in Peer : io'[b][r].staged \in {<<>>, io[b][r].staged},
         \A b \in Device, r \in Peer :
           io'[b][r].zero = "off" => io[b][r].zero = "off" \/ (b = d /\ Keypairs(n, r) = {}),
         UNCHANGED <<net, ephemerals, unsent, delivered>>
  PROVE  SessionKeysInv' /\ NewerKeys
<1>1. /\ noise \in [Device -> NoiseState] /\ net \in SUBSET Message /\ ephemerals \in Nat
      /\ delivered \in [Packet -> Nat]
  BY Zenon DEF SessionInv, TypeOK, Message
<1>2. /\ KeysInv(noise, net, ephemerals, delivered) /\ PacketsApart(io, net, unsent)
      /\ Deadline(noise, io)
  BY Zenon DEF SessionKeysInv, KeysAndPackets
<1>3. KeysInv(noise', net, ephemerals, delivered)
  BY <1>1, <1>2, QuietKeys, Zenon
<1>4. PacketsApart(io', net, unsent)
  BY <1>2, ApartLess, Zenon
<1>5. Deadline(noise', io')
  <2> SUFFICES ASSUME NEW b \in Device, NEW r \in Peer, Keypairs(noise'[b], r) # {}, io'[b][r].zero = "off"
               PROVE  FALSE
    BY Zenon DEF Deadline
  <2>1. CASE b = d
    <3>1. noise'[b] = n
      BY <1>1, <2>1, Zenon
    <3>2. Keypairs(noise[b], r) # {}
      BY <2>1, <3>1, Zenon DEF Quiet, QuietFor
    <3> QED BY <1>2, <2>1, <3>1, <3>2, Zenon DEF Deadline
  <2>2. CASE b # d
    BY <1>1, <1>2, <2>2, Zenon DEF Deadline
  <2> QED BY <2>1, <2>2, Zenon
<1>6. NewerKeys
  <2>1. \A b \in Device : noise'[b] = IF b = d THEN n ELSE noise[b]
    BY <1>1, Zenon
  <2>2. NewerOnly(noise[d], n)
    BY QuietInherits, NewerSelf, NewerKept, Zenon
  <2> QED BY <2>1, <2>2, NewerSelf, Zenon DEF NewerKeys
<1> QED BY <1>3, <1>4, <1>5, <1>6, Zenon DEF SessionKeysInv, KeysAndPackets

\* device_send_ip_packet: the packet was nowhere else.
LEMMA SendPacketKeys ==
  ASSUME SessionInv, SessionKeysInv, NEW d \in Device, NEW p \in noise[d].peers,
         NEW x \in Packet, SendPacket(d, p, x)
  PROVE  SessionKeysInv' /\ NewerKeys
<1> DEFINE xs == <<x>>
           c == Context(d, p)
           us == unsent \ {x}
<1>1. p \in Peer
  BY Zenon DEF SessionInv, TypeOK, NoiseState
<1>2. PICK i \in Picks(noise[d], p) : Commit(device_send_to_peer(c, d, p, xs, i), d, p)
  BY Zenon DEF SendPacket
<1>3. xs \in Seq(Packet \cup {Keepalive}) /\ xs # <<>> /\ DOMAIN xs = {1} /\ xs[1] = x
  BY SingletonSeq
<1>4. ContextOK(c) /\ c.n = noise[d] /\ c.q = io[d][p] /\ unsent \subseteq Packet
  BY <1>1, ContextTypes, Zenon
<1>5. c.out = {} /\ io \in [Device -> [Peer -> PeerIO]]
  BY Zenon DEF Context, SessionInv, TypeOK
<1>6. PeersWith(d, p, c.q) = io /\ net \cup c.out = net
  BY <1>1, <1>4, <1>5, Zenon DEF PeersWith
<1>7. unsent' = us /\ delivered' = delivered /\ x \in unsent
  BY Zenon DEF SendPacket
<1> HIDE DEF xs, c
<1>8. InHand(xs, io, net, us)
  <2>1. PacketsApart(io, net, unsent)
    BY Zenon DEF SessionKeysInv, KeysAndPackets
  <2>2. Fresh(x, io, net, us)
    BY <1>7, <2>1 DEF PacketsApart, Fresh
  <2> QED BY <1>3, <2>2, Zenon DEF InHand
<1>9. ContextKeys(c, d, p, us)
  BY <1>1, StartKeys, Zenon DEF c
<1>10. us \in SUBSET Packet
  BY <1>4, Zenon
<1> HIDE DEF us
<1>11. ContextKeys(device_send_to_peer(c, d, p, xs, i), d, p, us)
  BY <1>2, <1>3, <1>4, <1>6, <1>8, <1>9, <1>10, SendKeys, Zenon
<1> QED BY <1>1, <1>2, <1>7, <1>11, CommitKeys, Zenon

\* A keepalive is no packet.
LEMMA KeepaliveInHand ==
  ASSUME NEW q, NEW nt, NEW us PROVE InHand(<<Keepalive>>, q, nt, us)
BY SessionAssumption DEF InHand

\* device_send_keepalive.
LEMMA SendKeepaliveKeys ==
  ASSUME SessionInv, SessionKeysInv, NEW d \in Device, NEW p \in noise[d].peers, SendKeepalive(d, p)
  PROVE  SessionKeysInv' /\ NewerKeys
<1> DEFINE xs == <<Keepalive>>
           c == Context(d, p)
<1>1. p \in Peer
  BY Zenon DEF SessionInv, TypeOK, NoiseState
<1>2. PICK i \in Picks(noise[d], p) : Commit(device_send_to_peer(c, d, p, xs, i), d, p)
  BY Zenon DEF SendKeepalive
<1>3. xs \in Seq(Packet \cup {Keepalive}) /\ xs # <<>>
  BY SingletonSeq, Zenon
<1>4. ContextOK(c) /\ c.n = noise[d] /\ unsent \in SUBSET Packet
  BY <1>1, ContextTypes, Zenon
<1>5. unsent' = unsent /\ delivered' = delivered
  BY Zenon DEF SendKeepalive
<1>6. InHand(xs, PeersWith(d, p, c.q), net \cup c.out, unsent)
  BY KeepaliveInHand, Zenon
<1>7. ContextKeys(c, d, p, unsent)
  BY <1>1, StartKeys, Zenon
<1> HIDE DEF xs, c
<1>8. ContextKeys(device_send_to_peer(c, d, p, xs, i), d, p, unsent)
  BY <1>2, <1>3, <1>4, <1>6, <1>7, SendKeys, Zenon
<1> QED BY <1>1, <1>2, <1>5, <1>8, CommitKeys, Zenon

\* A handshake that keeps its ephemeral and its timestamp, or gets a later one, and
\* does not become pending, is quiet.
LEMMA HandshakeQuiet ==
  ASSUME NEW n \in NoiseState, NEW m, NEW p \in Peer,
         m.current = n.current, m.next = n.next, m.prev = n.prev,
         \A q \in Peer : q # p => m.hs[q] = n.hs[q],
         Pending(m, p) => Pending(n, p),
         m.hs[p].local_ephemeral = n.hs[p].local_ephemeral,
         n.hs[p].last_timestamp <= m.hs[p].last_timestamp
  PROVE  Quiet(n, m)
<1> SUFFICES ASSUME NEW q \in Peer PROVE QuietFor(n, m, q)
  BY Zenon DEF Quiet
<1>1. \A kp \in Keypair : Successor(kp, kp)
  BY DEF Successor, Keypair
<1>2. Keypairs(m, q) = Keypairs(n, q) /\ Keypairs(n, q) \subseteq Keypair
  BY KeypairsType, Zenon DEF Keypairs
<1>3. n.hs[q].last_timestamp <= n.hs[q].last_timestamp
  BY DEF NoiseState, Handshake
<1>4. /\ Pending(m, q) => Pending(n, q) /\ m.hs[q].local_ephemeral = n.hs[q].local_ephemeral
      /\ m.hs[q].local_ephemeral \in {0, n.hs[q].local_ephemeral}
      /\ n.hs[q].last_timestamp <= m.hs[q].last_timestamp
  <2>1. CASE q = p
    BY <2>1, Zenon
  <2>2. CASE q # p
    BY <1>3, <2>2, Zenon DEF Pending
  <2> QED BY <2>1, <2>2, Zenon
<1> QED BY <1>1, <1>2, <1>4, Zenon DEF QuietFor

\* Nothing is left of the sessions and the handshake of q in m.
Forgotten(m, q) ==
  /\ Keypairs(m, q) = {} /\ ~Exists(m.current[q])
  /\ m.hs[q].state = "ZEROED" /\ m.hs[q].local_ephemeral = 0

\* The sessions and the handshake of q are in m as they were in n.
Untouched(n, m, q) ==
  /\ m.current[q] = n.current[q] /\ m.next[q] = n.next[q] /\ m.prev[q] = n.prev[q]
  /\ m.hs[q] = n.hs[q]

\* Forgetting the keypairs and the handshake of a peer is quiet.
LEMMA ForgetQuiet ==
  ASSUME NEW n \in NoiseState, NEW m, \A q \in Peer : Forgotten(m, q) \/ Untouched(n, m, q)
  PROVE  Quiet(n, m)
<1> SUFFICES ASSUME NEW q \in Peer PROVE QuietFor(n, m, q)
  BY Zenon DEF Quiet
<1>1. CASE Forgotten(m, q)
  BY <1>1, Zenon DEF Forgotten, QuietFor, Pending
<1>2. CASE Untouched(n, m, q)
  <2>1. \A kp \in Keypair : Successor(kp, kp)
    BY DEF Successor, Keypair
  <2>2. Keypairs(m, q) = Keypairs(n, q) /\ Keypairs(n, q) \subseteq Keypair
    BY <1>2, KeypairsType, Zenon DEF Keypairs, Untouched
  <2>3. n.hs[q].last_timestamp <= m.hs[q].last_timestamp
    BY <1>2 DEF NoiseState, Handshake, Untouched
  <2> QED BY <1>2, <2>1, <2>2, <2>3, Zenon DEF QuietFor, Pending, Untouched
<1> QED BY <1>1, <1>2, Zenon

\* The rate limit of initiations.
LEMMA SentRecentlyQuiet ==
  ASSUME NEW n \in NoiseState, NEW p \in Peer, NEW b \in BOOLEAN
  PROVE  /\ Quiet(n, [n EXCEPT !.hs[p].sent_recently = b])
         /\ [n EXCEPT !.hs[p].sent_recently = b].peers = n.peers
<1> DEFINE h == [n.hs[p] EXCEPT !.sent_recently = b]
           m == [n EXCEPT !.hs[p].sent_recently = b]
<1>1. n.hs[p] \in Handshake
  BY Zenon DEF NoiseState
<1>2. /\ h.state = n.hs[p].state /\ h.local_ephemeral = n.hs[p].local_ephemeral
      /\ h.last_timestamp = n.hs[p].last_timestamp /\ n.hs[p].last_timestamp \in Nat
  BY <1>1, Zenon DEF Handshake
<1>3. m = [n EXCEPT !.hs[p] = h]
  BY Zenon
<1> HIDE DEF h, m
<1>4. /\ m.current = n.current /\ m.next = n.next /\ m.prev = n.prev /\ m.peers = n.peers
      /\ m.hs[p] = h /\ \A q \in Peer : q # p => m.hs[q] = n.hs[q]
  BY <1>3, Zenon DEF NoiseState
<1>5. /\ Pending(m, p) => Pending(n, p)
      /\ m.hs[p].local_ephemeral = n.hs[p].local_ephemeral
      /\ n.hs[p].last_timestamp <= m.hs[p].last_timestamp
  BY <1>2, <1>4 DEF Pending
<1>6. Quiet(n, m)
  BY <1>4, <1>5, HandshakeQuiet
<1> QED BY <1>4, <1>6, Zenon DEF m

\* DropKeys and what clears the handshake with it.
LEMMA DropKeysQuiet ==
  ASSUME NEW n \in NoiseState, NEW p \in Peer, NEW h, h.state = "ZEROED", h.local_ephemeral = 0,
         NEW ps, NEW m, m \in {[DropKeys(n, p) EXCEPT !.hs[p] = h],
                               [DropKeys(n, p) EXCEPT !.hs[p] = h, !.peers = ps]}
  PROVE  Quiet(n, m) /\ Keypairs(m, p) = {}
<1> DEFINE m0 == DropKeys(n, p)
<1>1. /\ m0 \in NoiseState /\ m0.hs = n.hs
      /\ m0.current = [n.current EXCEPT ![p] = NoKeypair]
      /\ m0.next = [n.next EXCEPT ![p] = NoKeypair]
      /\ m0.prev = [n.prev EXCEPT ![p] = NoKeypair]
  BY DropKeysFacts, Zenon
<1>2. m = [m0 EXCEPT !.hs[p] = h] \/ m = [m0 EXCEPT !.hs[p] = h, !.peers = ps]
  BY Zenon
<1> HIDE DEF m0
<1>3. /\ m.current = m0.current /\ m.next = m0.next /\ m.prev = m0.prev
      /\ m.hs[p] = h /\ \A q \in Peer : q # p => m.hs[q] = n.hs[q]
  <2>1. CASE m = [m0 EXCEPT !.hs[p] = h]
    BY <1>1, <2>1 DEF NoiseState
  <2>2. CASE m = [m0 EXCEPT !.hs[p] = h, !.peers = ps]
    BY <1>1, <2>2 DEF NoiseState
  <2> QED BY <1>2, <2>1, <2>2, Zenon
<1>4. /\ m.current[p] = NoKeypair /\ m.next[p] = NoKeypair /\ m.prev[p] = NoKeypair
      /\ \A q \in Peer : q # p => /\ m.current[q] = n.current[q] /\ m.next[q] = n.next[q]
                                  /\ m.prev[q] = n.prev[q]
  BY <1>1, <1>3 DEF NoiseState
<1>5. Keypairs(m, p) = {} /\ ~Exists(m.current[p])
  BY <1>4, Zenon DEF Keypairs, Exists
<1>6. Quiet(n, m)
  <2>1. ASSUME NEW q \in Peer PROVE Forgotten(m, q) \/ Untouched(n, m, q)
    BY <1>3, <1>4, <1>5, Zenon DEF Forgotten, Untouched
  <2> QED BY <2>1, ForgetQuiet, Zenon
<1> QED BY <1>5, <1>6, Zenon

\* cb_retransmit_handshake gives up, or initiates again.
LEMMA RetransmitKeys ==
  ASSUME SessionInv, SessionKeysInv, NEW d \in Device, NEW p \in noise[d].peers,
         CbRetransmitHandshake(d, p)
  PROVE  SessionKeysInv' /\ NewerKeys
<1> DEFINE c == Context(d, p)
           c0 == [c EXCEPT !.n.hs[p].sent_recently = FALSE]
           c1 == [c0 EXCEPT !.q.attempts = @ + 1]
           c2 == [c0 EXCEPT !.q = timers_zero_key_material(
                                    [@ EXCEPT !.retransmit = FALSE, !.attempts = 0])]
           n0 == [c.n EXCEPT !.hs[p].sent_recently = FALSE]
<1>0. p \in Peer
  BY Zenon DEF SessionInv, TypeOK, NoiseState
<1>1. /\ ContextOK(c) /\ c.n = noise[d] /\ NoiseInv(c.n) /\ c.q = io[d][p]
      /\ unsent' = unsent /\ delivered' = delivered
  BY <1>0, ContextTypes, Zenon DEF CbRetransmitHandshake
<1>2. ContextKeys(c, d, p, unsent)
  BY <1>0, StartKeys, Zenon
<1>3. io[d][p].attempts >= MAX_TIMER_HANDSHAKES => Commit(c2, d, p)
  BY Zenon DEF CbRetransmitHandshake
<1>4. ~(io[d][p].attempts >= MAX_TIMER_HANDSHAKES) =>
        \E i \in Picks(noise[d], p) : Commit(device_initiate_handshake_inner(c1, d, p, TRUE, i), d, p)
  BY Zenon DEF CbRetransmitHandshake
<1> HIDE DEF c
<1>5. NoiseInv(n0) /\ n0.peers = c.n.peers /\ Picks(n0, p) = Picks(c.n, p)
  BY <1>0, <1>1, SentRecentlyInv, Zenon
<1>6. Quiet(c.n, n0)
  <2>1. c.n \in NoiseState
    BY <1>1, Zenon DEF NoiseInv
  <2> QED BY <1>0, <2>1, SentRecentlyQuiet, Zenon
<1>7. c0 = [c EXCEPT !.n = n0]
  BY Zenon
<1> HIDE DEF n0, c0
<1>8. ContextOK(c0) /\ c0.n = n0 /\ c0.q = c.q /\ c0.out = c.out /\ c0.e = c.e
  <2>1. n0 \in NoiseState
    BY <1>5, Zenon DEF NoiseInv
  <2> QED BY <1>1, <1>5, <1>7, <2>1 DEF ContextOK
<1>9. CASE io[d][p].attempts >= MAX_TIMER_HANDSHAKES
  <2>1. /\ ContextOK(c2) /\ c2.n = n0 /\ c2.q.staged = c.q.staged /\ c2.q.zero = "due"
        /\ c2.out = c.out /\ c2.e = c.e
    BY <1>8, ZeroAttempts, Zenon DEF ContextOK, PeerIO, timers_zero_key_material
  <2> HIDE DEF c2
  <2>2. ContextKeys(c2, d, p, unsent)
    BY <1>0, <1>1, <1>2, <1>5, <1>6, <2>1, QuietContext, Zenon
  <2> QED BY <1>0, <1>1, <1>3, <1>9, <2>2, CommitKeys, Zenon
<1>10. CASE ~(io[d][p].attempts >= MAX_TIMER_HANDSHAKES)
  <2>0. c0.q.attempts + 1 \in Attempts
    BY <1>1, <1>8, <1>10, SessionAssumption DEF ContextOK, PeerIO, Attempts
  <2>1. ContextOK(c1) /\ c1.n = n0 /\ c1.out = c.out /\ c1.e = c.e
    BY <1>8, <2>0, Zenon DEF ContextOK, PeerIO
  <2>2. c1.q.staged = c.q.staged /\ c1.q.zero = c.q.zero
    BY <1>8, Zenon DEF ContextOK, PeerIO
  <2> HIDE DEF c1
  <2>3. ContextKeys(c1, d, p, unsent)
    BY <1>0, <1>1, <1>2, <1>5, <1>6, <2>1, <2>2, QuietContext, Zenon
  <2>4. PICK i \in Picks(noise[d], p) : Commit(device_initiate_handshake_inner(c1, d, p, TRUE, i), d, p)
    BY <1>4, <1>10, Zenon
  <2>5. ContextKeys(device_initiate_handshake_inner(c1, d, p, TRUE, i), d, p, unsent)
    BY <1>1, <1>5, <2>1, <2>3, InitiateKeys, Zenon
  <2> QED BY <1>0, <1>1, <2>4, <2>5, CommitKeys, Zenon
<1> QED BY <1>9, <1>10, Zenon

\* cb_new_handshake initiates.
LEMMA NewHandshakeKeys ==
  ASSUME SessionInv, SessionKeysInv, NEW d \in Device, NEW p \in noise[d].peers, CbNewHandshake(d, p)
  PROVE  SessionKeysInv' /\ NewerKeys
<1> DEFINE c == Context(d, p)
           c1 == [c EXCEPT !.q.new_handshake = FALSE]
<1>0. p \in Peer
  BY Zenon DEF SessionInv, TypeOK, NoiseState
<1>1. ContextOK(c) /\ c.n = noise[d] /\ unsent' = unsent /\ delivered' = delivered
  BY <1>0, ContextTypes, Zenon DEF CbNewHandshake
<1>2. PICK i \in Picks(noise[d], p) : Commit(device_initiate_handshake_inner(c1, d, p, FALSE, i), d, p)
  BY Zenon DEF CbNewHandshake
<1>3. ContextKeys(c, d, p, unsent)
  BY <1>0, StartKeys, Zenon
<1> HIDE DEF c
<1>4. /\ ContextOK(c1) /\ c1.n = noise[d] /\ c1.q.staged = c.q.staged /\ c1.q.zero = c.q.zero
      /\ c1.out = c.out /\ c1.e = c.e
  BY <1>1, Zenon DEF ContextOK, PeerIO
<1> HIDE DEF c1
<1>5. Quiet(noise[d], noise[d])
  <2>1. noise[d] \in NoiseState
    BY Zenon DEF SessionInv, TypeOK
  <2> QED BY <2>1, ForgetQuiet, Zenon DEF Untouched
<1>6. ContextKeys(c1, d, p, unsent)
  BY <1>0, <1>1, <1>3, <1>4, <1>5, QuietContext, Zenon
<1>7. ContextKeys(device_initiate_handshake_inner(c1, d, p, FALSE, i), d, p, unsent)
  BY <1>1, <1>2, <1>4, <1>6, InitiateKeys, Zenon
<1> QED BY <1>0, <1>1, <1>2, <1>7, CommitKeys, Zenon

\* cb_zero_key_material, the passing of time and device_remove_peer are quiet.
LEMMA OtherPeerKeys ==
  ASSUME SessionInv, SessionKeysInv, NEW d \in Device, NEW p \in noise[d].peers,
         \/ CbZeroKeyMaterial(d, p)
         \/ RateLimitLapses(d, p)
         \/ \E age \in Ages : KeypairAges(d, p, age)
         \/ device_remove_peer(d, p)
  PROVE  SessionKeysInv' /\ NewerKeys
<1> DEFINE n == noise[d]
<1>0. p \in Peer
  BY Zenon DEF SessionInv, TypeOK, NoiseState
<1>1. NoiseInv(n) /\ n \in NoiseState /\ io \in [Device -> [Peer -> PeerIO]] /\ d \notin n.peers
  BY Zenon DEF SessionInv, TypeOK, SessionKeysInv, KeysAndPackets, KeysInv, LocalBounded
<1>2. /\ noise_handshake_clear(n.hs[p]).state = "ZEROED"
      /\ noise_handshake_clear(n.hs[p]).local_ephemeral = 0
      /\ noise_handshake_init.state = "ZEROED" /\ noise_handshake_init.local_ephemeral = 0
  BY Zenon DEF noise_handshake_clear, noise_handshake_init
<1>3. CASE CbZeroKeyMaterial(d, p)
  <2> DEFINE m == cb_zero_key_material_noise(n, p)
             h == noise_handshake_clear(DropKeys(n, p).hs[p])
  <2>1. noise' = [noise EXCEPT ![d] = m] /\ UNCHANGED <<net, ephemerals, unsent, delivered>>
    BY <1>3, Zenon DEF CbZeroKeyMaterial
  <2>2. /\ \A b \in Device, r \in Peer : io'[b][r].staged = io[b][r].staged
        /\ \A b \in Device, r \in Peer : ~(b = d /\ r = p) => io'[b][r] = io[b][r]
    BY <1>0, <1>1, <1>3 DEF CbZeroKeyMaterial, PeerIO
  <2>3. m = [DropKeys(n, p) EXCEPT !.hs[p] = h] /\ h = noise_handshake_clear(n.hs[p])
    BY <1>0, <1>1, DropKeysFacts, Zenon DEF cb_zero_key_material_noise
  <2>4. NoiseInv(m)
    BY <1>0, <1>1, ZeroKeyMaterialInv, Zenon
  <2>5. m.peers = n.peers
    <3>1. DropKeys(n, p) \in NoiseState /\ DropKeys(n, p).peers = n.peers
      BY <1>0, <1>1, DropKeysFacts, Zenon
    <3> HIDE DEF h, m
    <3> QED BY <2>3, <3>1, Zenon DEF NoiseState
  <2> HIDE DEF h, m, n
  <2>6. Quiet(n, m) /\ Keypairs(m, p) = {}
    BY <1>0, <1>1, <1>2, <2>3, DropKeysQuiet, Zenon
  <2>7. m \in NoiseState /\ d \notin m.peers
    BY <1>1, <2>4, <2>5, Zenon DEF NoiseInv
  <2> QED BY <2>1, <2>2, <2>6, <2>7, QuietStep, Zenon DEF n
<1>4. CASE RateLimitLapses(d, p)
  <2> DEFINE m == [n EXCEPT !.hs[p].sent_recently = FALSE]
  <2>1. /\ noise' = [noise EXCEPT ![d] = m] /\ UNCHANGED <<net, ephemerals, unsent, delivered>>
        /\ io' = io
    BY <1>4, Zenon DEF RateLimitLapses
  <2>2. NoiseInv(m)
    BY <1>0, <1>1, SentRecentlyInv, Zenon
  <2>3. Quiet(n, m) /\ m.peers = n.peers
    BY <1>0, <1>1, SentRecentlyQuiet, Zenon
  <2> HIDE DEF m, n
  <2>4. m \in NoiseState /\ d \notin m.peers
    BY <1>1, <2>2, <2>3, Zenon DEF NoiseInv
  <2> QED BY <2>1, <2>3, <2>4, QuietStep, Zenon DEF n
<1>5. ASSUME NEW age \in Ages, KeypairAges(d, p, age) PROVE SessionKeysInv' /\ NewerKeys
  <2> DEFINE kp == SendKeypair(n, p)
             kp1 == [kp EXCEPT !.age = age]
             m == WithSendKeypair(n, p, kp1)
  <2>1. kp \in Keypair /\ Exists(kp) /\ kp.local_index \in Index
    BY <1>0, <1>1, <1>5, SendKeypairType, Zenon DEF KeypairAges, Exists
  <2>2. noise' = [noise EXCEPT ![d] = m] /\ io' = io /\ UNCHANGED <<net, ephemerals, unsent, delivered>>
    BY <1>5, Zenon DEF KeypairAges
  <2> HIDE DEF kp
  <2>3. /\ kp1 \in Keypair /\ kp1.key = kp.key /\ kp1.local_index = kp.local_index
        /\ kp1.is_initiator = kp.is_initiator /\ kp1.remote_index = kp.remote_index
        /\ kp1.send_nonce = kp.send_nonce /\ kp1.replay = kp.replay /\ kp.send_nonce \in Nat
    BY <2>1, SessionAssumption DEF Keypair
  <2>4. Exists(kp1)
    BY <2>1, <2>3, NoiseAssumption, Zenon DEF NoKeypair, Exists
  <2> HIDE DEF kp1
  <2>5. SameKeypair(kp, kp1) /\ Successor(kp, kp1)
    BY <2>1, <2>3, <2>4 DEF SameKeypair, Successor, Exists
  <2>6. NoiseInv(m) /\ m.peers = n.peers
    BY <1>0, <1>1, <2>3, <2>5, WithSendKeypairInv, Zenon DEF kp
  <2>7. Quiet(n, m)
    BY <1>0, <1>1, <2>1, <2>3, <2>4, <2>5, SendKeypairQuiet, Zenon DEF kp
  <2> HIDE DEF m, n
  <2>8. m \in NoiseState /\ d \notin m.peers
    BY <1>1, <2>6, Zenon DEF NoiseInv
  <2> QED BY <2>2, <2>7, <2>8, QuietStep, Zenon DEF n
<1>6. CASE device_remove_peer(d, p)
  <2> DEFINE m == peer_teardown_noise(n, p)
             ps == DropKeys(n, p).peers \ {p}
             h == noise_handshake_init
  <2>1. noise' = [noise EXCEPT ![d] = m] /\ UNCHANGED <<net, ephemerals, unsent, delivered>>
    BY <1>6, Zenon DEF device_remove_peer
  <2>2. \A b \in Device, r \in Peer : io'[b][r] = IF b = d /\ r = p THEN device_add_peer_io(d) ELSE io[b][r]
    BY <1>0, <1>1, <1>6, Zenon DEF device_remove_peer
  <2>3. device_add_peer_io(d).staged = <<>>
    BY Zenon DEF device_add_peer_io
  <2>4. m = [DropKeys(n, p) EXCEPT !.hs[p] = h, !.peers = ps]
    BY Zenon DEF peer_teardown_noise
  <2>5. NoiseInv(m)
    BY <1>0, <1>1, TeardownInv, Zenon
  <2>6. m.peers = ps /\ DropKeys(n, p).peers = n.peers
    <3>1. DropKeys(n, p) \in NoiseState /\ DropKeys(n, p).peers = n.peers
      BY <1>0, <1>1, DropKeysFacts, Zenon
    <3> HIDE DEF h, m
    <3> QED BY <2>4, <3>1, Zenon DEF NoiseState
  <2>7. m \in NoiseState /\ d \notin m.peers
    BY <1>1, <2>5, <2>6, Zenon DEF NoiseInv
  <2>8. h.state = "ZEROED" /\ h.local_ephemeral = 0
    BY <1>2, Zenon
  <2> HIDE DEF h, m, n, ps
  <2>9. Quiet(n, m) /\ Keypairs(m, p) = {}
    BY <1>0, <1>1, <2>4, <2>8, DropKeysQuiet, Zenon
  <2>10. /\ \A b \in Device, r \in Peer : io'[b][r].staged \in {<<>>, io[b][r].staged}
         /\ \A b \in Device, r \in Peer :
              io'[b][r].zero = "off" => io[b][r].zero = "off" \/ (b = d /\ Keypairs(m, r) = {})
    BY <2>2, <2>3, <2>9, Zenon
  <2> QED BY <2>1, <2>7, <2>9, <2>10, QuietStep, Zenon DEF n
<1> QED BY <1>3, <1>4, <1>5, <1>6, Zenon

\* device_add_peer.
LEMMA AddPeerKeys ==
  ASSUME SessionInv, SessionKeysInv, NEW d \in Device, NEW p \in Peer, device_add_peer(d, p)
  PROVE  SessionKeysInv' /\ NewerKeys
<1> DEFINE n == noise[d]
           m == [n EXCEPT !.peers = @ \cup {p}]
<1>1. n \in NoiseState /\ io \in [Device -> [Peer -> PeerIO]] /\ d \notin n.peers /\ NoiseInv(n)
  BY Zenon DEF SessionInv, TypeOK, SessionKeysInv, KeysAndPackets, KeysInv, LocalBounded
<1>2. /\ noise' = [noise EXCEPT ![d] = m] /\ UNCHANGED <<net, ephemerals, unsent, delivered>>
      /\ p # d /\ p \notin n.peers
  BY Zenon DEF device_add_peer
<1>3. \A b \in Device, r \in Peer : io'[b][r] = IF b = d /\ r = p THEN device_add_peer_io(d) ELSE io[b][r]
  BY <1>1, Zenon DEF device_add_peer
<1>4. device_add_peer_io(d).staged = <<>>
  BY Zenon DEF device_add_peer_io
<1>5. /\ m \in NoiseState /\ d \notin m.peers /\ m.current = n.current /\ m.next = n.next
      /\ m.prev = n.prev /\ m.hs = n.hs
  BY <1>1, <1>2, Zenon DEF NoiseState
<1> HIDE DEF m, n
<1>6. Quiet(n, m)
  BY <1>1, <1>5, ForgetQuiet, Zenon DEF Untouched
<1>7. Keypairs(m, p) = {}
  BY <1>1, <1>2, <1>5, Zenon DEF NoiseInv, PeerOK, Registered, Keypairs, Exists
<1> QED BY <1>2, <1>3, <1>4, <1>5, <1>6, <1>7, QuietStep, Zenon DEF n

\* A restart.
LEMMA RestartKeys ==
  ASSUME SessionInv, SessionKeysInv, NEW d \in Device, Restart(d)
  PROVE  SessionKeysInv' /\ NewerKeys
<1> DEFINE m == noise_init(Peer \ {d})
<1>1. noise \in [Device -> NoiseState] /\ io \in [Device -> [Peer -> PeerIO]]
  BY Zenon DEF SessionInv, TypeOK
<1>2. noise' = [noise EXCEPT ![d] = m] /\ UNCHANGED <<net, ephemerals, unsent, delivered>>
  BY Zenon DEF Restart
<1>3. \A b \in Device, r \in Peer : io'[b][r] = IF b = d THEN device_add_peer_io(d) ELSE io[b][r]
  BY <1>1, Zenon DEF Restart
<1>4. device_add_peer_io(d).staged = <<>>
  BY Zenon DEF device_add_peer_io
<1>5. m \in NoiseState
  BY InitInv, Zenon DEF NoiseInv
<1>6. d \notin m.peers /\ \A q \in Peer : Forgotten(m, q)
  BY Zenon DEF noise_init, Forgotten, Keypairs, Exists, noise_handshake_init
<1> HIDE DEF m
<1>7. Quiet(noise[d], m)
  BY <1>1, <1>6, ForgetQuiet, Zenon
<1>8. \A r \in Peer : Keypairs(m, r) = {}
  BY <1>6, Zenon DEF Forgotten
<1> QED BY <1>2, <1>3, <1>4, <1>5, <1>6, <1>7, <1>8, QuietStep, Zenon
=============================================================================

------------------------- MODULE SessionKeysProofs -------------------------
(***************************************************************************)
(* What the sessions of module Session promise, in every reachable state   *)
(* and for any devices, indices, packets and bounds: the two keypairs of a *)
(* handshake agree, a responder's keypair is current only after a message  *)
(* of the initiator, no nonce is used twice, no packet is delivered twice, *)
(* and an older initiation never replaces a session.                       *)
(*                                                                         *)
(* The handlers of the three message types come first: they begin sessions,*)
(* confirm them and deliver packets.                                       *)
(***************************************************************************)
EXTENDS SessionStepProofs

----------------------------------------------------------------------------
(* New sessions *)

\* What noise_begin_session changes: the new keypair is there, the handshake is
\* cleared, and only the initiator's becomes current.
LEMMA BeginSessionKeys ==
  ASSUME NEW n \in NoiseState, NEW p \in Peer
  PROVE  LET m  == noise_begin_session(n, p)
             kp == NewKeypair(n.hs[p])
         IN  /\ m.peers = n.peers /\ m.hs[p] = noise_handshake_clear(n.hs[p])
             /\ \A q \in Peer : q # p => Untouched(n, m, q)
             /\ Keypairs(m, p) \subseteq Keypairs(n, p) \cup {kp}
             /\ m.current[p] = IF kp.is_initiator THEN kp ELSE n.current[p]
<1> DEFINE m   == noise_begin_session(n, p)
           kp  == NewKeypair(n.hs[p])
           h   == noise_handshake_clear(n.hs[p])
           cur == n.current[p]
           nxt == n.next[p]
           prv == n.prev[p]
           t0  == index_table_swap_keypair(n.table, n.hs[p].local_index, kp.key)
           t1  == IF Exists(nxt) THEN index_table_delete(t0, cur.local_index) ELSE t0
           t2  == index_table_delete(t0, nxt.local_index)
           u1  == index_table_delete(t1, prv.local_index)
           u2  == index_table_delete(t2, prv.local_index)
           keep == IF Exists(nxt) THEN nxt ELSE cur
<1>1. CASE kp.is_initiator
  <2>1. m = [[n EXCEPT !.hs[p] = h] EXCEPT !.table = u1,
                !.prev[p] = keep, !.current[p] = kp, !.next[p] = NoKeypair]
    BY <1>1, Zenon DEF noise_begin_session
  <2> HIDE DEF kp, h, u1, keep, m
  <2>2. /\ m.peers = n.peers /\ m.hs[p] = h
        /\ m.current[p] = kp /\ m.next[p] = NoKeypair /\ m.prev[p] = keep
        /\ \A q \in Peer : q # p => Untouched(n, m, q)
    BY <2>1, Zenon DEF NoiseState, Untouched
  <2>3. Keypairs(m, p) \subseteq Keypairs(n, p) \cup {kp}
    BY <2>2, Zenon DEF Keypairs, Exists, keep
  <2> QED BY <1>1, <2>2, <2>3, Zenon DEF m, kp, h
<1>2. CASE ~kp.is_initiator
  <2>1. m = [[n EXCEPT !.hs[p] = h] EXCEPT !.table = u2,
                !.next[p] = kp, !.prev[p] = NoKeypair]
    BY <1>2, Zenon DEF noise_begin_session
  <2> HIDE DEF kp, h, u2, m
  <2>2. /\ m.peers = n.peers /\ m.hs[p] = h
        /\ m.current[p] = n.current[p] /\ m.next[p] = kp /\ m.prev[p] = NoKeypair
        /\ \A q \in Peer : q # p => Untouched(n, m, q)
    BY <2>1, Zenon DEF NoiseState, Untouched
  <2>3. Keypairs(m, p) \subseteq Keypairs(n, p) \cup {kp}
    BY <2>2, Zenon DEF Keypairs, Exists
  <2> QED BY <1>2, <2>2, <2>3, Zenon DEF m, kp, h
<1> QED BY <1>1, <1>2, Zenon

\* n2 is n after an initiation of p with this sender and ephemeral was consumed and the
\* response created with the index j and the ephemeral e.
Responded(n, n2, p, sender, eph, j, e) ==
  LET h == n2.hs[p]
  IN  /\ n2.peers = n.peers /\ n2.current = n.current /\ n2.next = n.next /\ n2.prev = n.prev
      /\ \A q \in Peer : q # p => n2.hs[q] = n.hs[q]
      /\ h.last_timestamp = eph
      /\ j = NoIndex => h.state = "INITIATION_CONSUMED" /\ h.local_ephemeral = n.hs[p].local_ephemeral
      /\ j # NoIndex => /\ h.state = "RESPONSE_CREATED" /\ h.local_ephemeral = e /\ h.local_index = j
                        /\ h.remote_index = sender /\ h.remote_ephemeral = eph

\* What consuming an initiation and creating the response change.
LEMMA RespondKeys ==
  ASSUME NEW n \in NoiseState, NEW p \in Peer, NEW sender \in Index \cup {NoIndex}, NEW eph \in Nat,
         NEW j \in Index \cup {NoIndex}, NEW e \in Nat
  PROVE  Responded(n, noise_create_response(noise_consume_initiation(n, p, sender, eph), p, j, e),
                   p, sender, eph, j, e)
<1> USE DEF Responded
<1> DEFINE h0 == n.hs[p]
           h1 == [h0 EXCEPT !.remote_ephemeral = eph, !.remote_index = sender,
                            !.last_timestamp = eph, !.state = "INITIATION_CONSUMED"]
           n1 == noise_consume_initiation(n, p, sender, eph)
           h2 == IF j = NoIndex THEN [h1 EXCEPT !.local_index = NoIndex]
                 ELSE [h1 EXCEPT !.local_index = j, !.local_ephemeral = e, !.state = "RESPONSE_CREATED"]
           t == index_table_new_for_handshake(index_table_delete(n1.table, n1.hs[p].local_index), p, j)
           n2 == noise_create_response(n1, p, j, e)
<1>1. h0 \in Handshake
  BY Zenon DEF NoiseState
<1> HIDE DEF h0
<1>2. /\ h1 \in Handshake /\ h1.last_timestamp = eph /\ h1.state = "INITIATION_CONSUMED"
      /\ h1.local_ephemeral = h0.local_ephemeral /\ h1.remote_index = sender /\ h1.remote_ephemeral = eph
  BY <1>1, ZenonT(40) DEF Handshake, HandshakeState
<1>3. n1 = [n EXCEPT !.hs[p] = h1]
  BY Zenon DEF noise_consume_initiation, h0
<1> HIDE DEF h1, n1
<1>4. /\ h2.last_timestamp = eph
      /\ j = NoIndex => h2.state = "INITIATION_CONSUMED" /\ h2.local_ephemeral = h0.local_ephemeral
      /\ j # NoIndex => /\ h2.state = "RESPONSE_CREATED" /\ h2.local_ephemeral = e /\ h2.local_index = j
                        /\ h2.remote_index = sender /\ h2.remote_ephemeral = eph
  BY <1>2, Zenon DEF Handshake
<1>5. n1 \in NoiseState /\ n1.hs[p] = h1
  BY <1>2, <1>3, Zenon DEF NoiseState
<1>6. n2 = [n1 EXCEPT !.table = t, !.hs[p] = h2]
  BY <1>5 DEF noise_create_response
<1> HIDE DEF h2, t, n2
<1>7. /\ n2.peers = n1.peers /\ n2.current = n1.current /\ n2.next = n1.next /\ n2.prev = n1.prev
      /\ n2.hs[p] = h2 /\ \A q \in Peer : q # p => n2.hs[q] = n1.hs[q]
  BY <1>5, <1>6, Zenon DEF NoiseState
<1>8. /\ n1.peers = n.peers /\ n1.current = n.current /\ n1.next = n.next /\ n1.prev = n.prev
      /\ \A q \in Peer : q # p => n1.hs[q] = n.hs[q]
  BY <1>3, Zenon DEF NoiseState
<1> QED BY <1>4, <1>7, <1>8, Zenon DEF n2, n1, h0

\* A context in which a session with p has begun may be committed.
LEMMA SessionBegun ==
  ASSUME SessionInv, SessionKeysInv, NEW d \in Device, NEW p \in Peer, NEW c, ContextOK(c),
         NEW kp \in Keypair, KeysInv(noise, net \cup c.out, c.e, delivered),
         Begins(noise[d], c.n, p, kp), NewKey(noise, net \cup c.out, delivered, d, p, kp),
         ~kp.is_initiator => noise[d].hs[p].last_timestamp < kp.key[1],
         c.q.staged = io[d][p].staged, c.q.zero = "armed", \A s \in c.out : s.type # "transport"
  PROVE  ContextKeys(c, d, p, unsent)
<1> DEFINE nt == net \cup c.out
           q  == PeersWith(d, p, c.q)
           nz == NoiseWith(d, c.n)
<1>1. /\ noise \in [Device -> NoiseState] /\ io \in [Device -> [Peer -> PeerIO]]
      /\ nt \in SUBSET Message /\ c.n \in NoiseState /\ c.e \in Nat /\ delivered \in [Packet -> Nat]
  BY Zenon DEF SessionInv, TypeOK, ContextOK, NoiseInv, Message
<1>2. PacketsApart(io, net, unsent) /\ Deadline(noise, io)
  BY Zenon DEF SessionKeysInv, KeysAndPackets
<1>3. KeysInv(nz, nt, c.e, delivered)
  <2> HIDE DEF nt
  <2> QED BY <1>1, NewSession, Zenon DEF NoiseWith, nt
<1>4. \A b \in Device, r \in Peer : q[b][r] = IF b = d /\ r = p THEN c.q ELSE io[b][r]
  BY <1>1, Zenon DEF PeersWith
<1>5. PacketsApart(q, nt, unsent)
  <2>1. \A b \in Device, r \in Peer : q[b][r].staged \in {<<>>, io[b][r].staged}
    BY <1>4, Zenon
  <2>2. \A s \in nt : s \in net \/ s.type # "transport"
    BY Zenon
  <2> HIDE DEF nt, q
  <2> QED BY <1>2, <2>1, <2>2, ApartLess, Zenon
<1>6. Deadline(nz, q)
  <2>1. ASSUME NEW b \in Device, NEW r \in Peer, Keypairs(nz[b], r) # {}
        PROVE  q[b][r].zero # "off"
    <3>1. CASE b = d /\ r = p
      BY <1>4, <3>1, Zenon
    <3>2. CASE ~(b = d /\ r = p)
      <4>1. Keypairs(noise[b], r) # {}
        BY <1>1, <2>1, <3>2, Zenon DEF NoiseWith, Begins
      <4> QED BY <1>2, <1>4, <3>2, <4>1 DEF Deadline
    <3> QED BY <3>1, <3>2, Zenon
  <2> QED BY <2>1, Zenon DEF Deadline
<1>7. NewerOnly(noise[d], c.n)
  <2> SUFFICES ASSUME NEW r \in Peer, NEW old \in Keypairs(noise[d], r), NEW new \in Keypairs(c.n, r),
                      ~old.is_initiator, ~new.is_initiator,
                      \A k \in Keypairs(noise[d], r) : k.key # new.key
               PROVE  new.key[1] > old.key[1]
    BY Zenon DEF NewerOnly
  <2>1. r = p /\ new = kp
    BY Zenon DEF Begins
  <2>2. old.key[1] <= noise[d].hs[p].last_timestamp
    BY <2>1, Zenon DEF SessionKeysInv, KeysAndPackets, KeysInv, Timestamps
  <2>3. old.key[1] \in Nat /\ kp.key[1] \in Nat /\ noise[d].hs[p].last_timestamp \in Nat
    <3>1. noise[d] \in NoiseState
      BY <1>1, Zenon
    <3>2. old \in Keypair /\ noise[d].hs[p] \in Handshake
      BY <3>1, KeypairsType, Zenon DEF NoiseState
    <3> QED BY <3>2, Zenon DEF Keypair, Key, Handshake
  <2> QED BY <2>1, <2>2, <2>3
<1> QED BY <1>3, <1>5, <1>6, <1>7, Zenon DEF ContextKeys, KeysAndPackets

\* handle_initiation.
LEMMA InitiationKeys ==
  ASSUME SessionInv, SessionKeysInv, NEW d \in Device, NEW m \in net, HandleInitiation(d, m)
  PROVE  SessionKeysInv' /\ NewerKeys
<1> DEFINE p  == m.from
           n0 == noise[d]
           n1 == noise_consume_initiation(n0, p, m.sender, m.eph)
           q1 == [io[d][p] EXCEPT !.endpoint = TRUE]
           q2 == timers_handshake_complete(q1)
           e  == ephemerals + 1
<1>0. /\ p \in Peer /\ m.sender \in Index /\ m.eph \in Nat /\ p \in n0.peers
      /\ n0.hs[p].last_timestamp < m.eph /\ m.type = "initiation"
      /\ unsent' = unsent /\ delivered' = delivered
  <2>1. m \in Initiation
    BY MessageTypes, Zenon DEF SessionInv, TypeOK, HandleInitiation, Message
  <2>2. n0.hs[p].last_timestamp \in Nat
    BY <2>1 DEF SessionInv, TypeOK, NoiseState, Handshake, Initiation, Device
  <2> QED BY <2>1, <2>2, Zenon DEF HandleInitiation, NotReplayed, Initiation, Device
<1>1. /\ NoiseInv(n0) /\ io[d][p] \in PeerIO /\ Len(io[d][p].staged) <= PEER_QUEUE_SIZE
      /\ ephemerals \in Nat /\ initiations \in Nat
      /\ unsent \in SUBSET Packet /\ delivered \in [Packet -> Nat]
  BY <1>0, ContextTypes, Zenon
<1>2. NoiseInv(n1) /\ p \in n1.peers
  BY <1>0, <1>1, ConsumeInitiationInv
<1>3. /\ q1 \in PeerIO /\ Len(q1.staged) <= PEER_QUEUE_SIZE /\ q2.staged = io[d][p].staged
      /\ q2 \in PeerIO /\ Len(q2.staged) <= PEER_QUEUE_SIZE
  BY <1>1, HandshakeCompleteType, Zenon
<1>4. q1.staged = io[d][p].staged /\ q1.zero = io[d][p].zero /\ q2.zero = "armed"
  BY <1>1, Zenon DEF PeerIO, timers_handshake_complete
<1>5. e \in Nat
  BY <1>1
<1> HIDE DEF q1, q2
<1>6. PICK j \in Picks(n1, p) :
        LET n2  == noise_create_response(n1, p, j, e)
            msg == [type |-> "response", to |-> p, from |-> d, sender |-> j,
                    receiver |-> m.sender, init_eph |-> m.eph, eph |-> e]
            c1  == [n |-> n2, q |-> q1, out |-> {}, e |-> ephemerals, inits |-> initiations]
            n3  == noise_begin_session(n2, p)
            c2  == [n |-> n3, q |-> q2, out |-> {msg}, e |-> e, inits |-> initiations]
        IN  IF j = NoIndex
            THEN Commit(c1, d, p) /\ UNCHANGED spinning
            ELSE \E i \in Picks(n3, p) :
                   /\ Commit(FlushStaged(c2, d, p, i), d, p)
                   /\ spinning' = IF FlushSpins(c2, p) THEN spinning \cup {d} ELSE spinning
  BY Zenon DEF HandleInitiation, q1, q2
<1> DEFINE n2  == noise_create_response(n1, p, j, e)
           msg == [type |-> "response", to |-> p, from |-> d, sender |-> j,
                   receiver |-> m.sender, init_eph |-> m.eph, eph |-> e]
           c1  == [n |-> n2, q |-> q1, out |-> {}, e |-> ephemerals, inits |-> initiations]
           n3  == noise_begin_session(n2, p)
           c2  == [n |-> n3, q |-> q2, out |-> {msg}, e |-> e, inits |-> initiations]
           h   == n2.hs[p]
<1>7. NoiseInv(n2) /\ p \in n2.peers /\ n2.hs[p].local_index = j
  <2> HIDE DEF p, n1, e
  <2> QED BY <1>2, <1>5, CreateResponseInv
<1>8. j \in Index \cup {NoIndex}
  <2> HIDE DEF p, n1
  <2> QED BY <1>0, <1>2, PickNone, Zenon
<1>9. /\ n2.peers = n0.peers /\ n2.current = n0.current /\ n2.next = n0.next /\ n2.prev = n0.prev
      /\ \A q \in Peer : q # p => n2.hs[q] = n0.hs[q]
      /\ h.last_timestamp = m.eph
      /\ j = NoIndex => h.state = "INITIATION_CONSUMED" /\ h.local_ephemeral = n0.hs[p].local_ephemeral
      /\ j # NoIndex => /\ h.state = "RESPONSE_CREATED" /\ h.local_ephemeral = e /\ h.local_index = j
                        /\ h.remote_index = m.sender /\ h.remote_ephemeral = m.eph
  <2>1. n0 \in NoiseState /\ m.sender \in Index \cup {NoIndex}
    BY <1>0, <1>1 DEF NoiseInv
  <2>2. p \in Peer /\ m.eph \in Nat
    BY <1>0
  <2> HIDE DEF p, e, n0
  <2>3. Responded(n0, noise_create_response(noise_consume_initiation(n0, p, m.sender, m.eph), p, j, e),
                  p, m.sender, m.eph, j, e)
    BY ONLY <1>5, <1>8, <2>1, <2>2, RespondKeys, Zenon
  <2> QED BY ONLY <2>3, Zenon DEF Responded
<1>10. n0 \in NoiseState /\ n2 \in NoiseState
  BY <1>1, <1>7, Zenon DEF NoiseInv
<1>11. n0.hs[p].last_timestamp \in Nat
  BY <1>0, <1>10, Zenon DEF NoiseState, Handshake
<1> HIDE DEF p, n0, n1, e, n2
<1>12. CASE j = NoIndex
  <2>1. ContextOK(c1) /\ c1.n = n2 /\ c1.q = q1 /\ c1.out = {} /\ c1.e = ephemerals
    BY <1>1, <1>3, <1>7, <1>10, Zenon DEF ContextOK
  <2>2. Commit(c1, d, p)
    BY <1>6, <1>12, Zenon DEF n2
  <2> HIDE DEF c1
  <2>3. Quiet(n0, n2)
    <3>1. /\ Pending(n2, p) => Pending(n0, p)
          /\ n2.hs[p].local_ephemeral = n0.hs[p].local_ephemeral
          /\ n0.hs[p].last_timestamp <= n2.hs[p].last_timestamp
      BY <1>0, <1>9, <1>11, <1>12 DEF Pending
    <3> QED BY <1>0, <1>9, <1>10, <3>1, HandshakeQuiet
  <2>4. ContextKeys(Context(d, p), d, p, unsent) /\ ContextOK(Context(d, p))
    BY <1>0, StartKeys, ContextTypes, Zenon
  <2>5. ContextKeys(c1, d, p, unsent)
    <3>1. /\ Context(d, p).n = n0 /\ Context(d, p).q = io[d][p] /\ Context(d, p).out = {}
          /\ Context(d, p).e = ephemerals
      BY Zenon DEF Context, n0
    <3>2. /\ Quiet(Context(d, p).n, c1.n) /\ c1.n.peers = Context(d, p).n.peers
          /\ c1.q.staged = Context(d, p).q.staged
          /\ c1.q.zero = "off" => Context(d, p).q.zero = "off"
          /\ c1.out = Context(d, p).out /\ c1.e = Context(d, p).e
      BY <1>4, <1>9, <2>1, <2>3, <3>1, Zenon
    <3>3. ContextOK(c1) /\ p \in Peer
      BY <1>0, <2>1, Zenon
    <3> QED BY <2>4, <3>2, <3>3, QuietContext, Zenon
  <2> QED BY <1>0, <2>2, <2>5, CommitKeys, Zenon
<1>13. CASE j # NoIndex
  <2> DEFINE kp == NewKeypair(h)
             nt == net \cup {msg}
  <2>1. NoiseInv(n3) /\ p \in n3.peers
    BY <1>0, <1>7, <1>8, <1>13, BeginSessionInv, BeginSessionPeers, Zenon
  <2>2. PICK i \in Picks(n3, p) : Commit(FlushStaged(c2, d, p, i), d, p)
    BY <1>6, <1>13, Zenon DEF n2
  <2>3. msg \in Response /\ msg.init_eph = m.eph /\ msg.eph = e /\ msg.type = "response"
    BY <1>0, <1>5, <1>8, <1>13, Zenon DEF Response, Device
  <2>4. KeysInv(noise, net, ephemerals, delivered) /\ noise \in [Device -> NoiseState] /\ net \in SUBSET Message
    BY Zenon DEF SessionKeysInv, KeysAndPackets, SessionInv, TypeOK, Message
  <2>5. m.eph <= ephemerals
    BY <1>0, <2>4 DEF KeysInv, NetBounded
  <2>6. /\ kp.key = <<m.eph, e>> /\ ~kp.is_initiator /\ kp.local_index = j /\ kp.remote_index = m.sender
        /\ kp \in Keypair
    <3>1. kp = [NoKeypair EXCEPT !.key = <<m.eph, e>>, !.is_initiator = FALSE,
                                 !.local_index = j, !.remote_index = m.sender]
      <4> HIDE DEF h
      <4> QED BY <1>9, <1>13, Zenon DEF NewKeypair
    <3> HIDE DEF kp
    <3>2. <<m.eph, e>> \in Key
      BY <1>0, <1>5 DEF Key
    <3>3. NoKeypair \in Keypair
      BY NullTypes, Zenon
    <3> QED BY <1>0, <1>8, <3>1, <3>2, <3>3, Zenon DEF Keypair
  <2>7. /\ n3.peers = n2.peers /\ n3.hs[p] = noise_handshake_clear(h)
        /\ \A q \in Peer : q # p => Untouched(n2, n3, q)
        /\ Keypairs(n3, p) \subseteq Keypairs(n2, p) \cup {kp}
        /\ n3.current[p] = IF kp.is_initiator THEN kp ELSE n2.current[p]
    BY <1>0, <1>10, BeginSessionKeys, Zenon
  <2>8. /\ noise_handshake_clear(h).state = "ZEROED" /\ noise_handshake_clear(h).local_ephemeral = 0
        /\ noise_handshake_clear(h).last_timestamp = m.eph
    BY <1>9, Zenon DEF noise_handshake_clear, noise_handshake_init
  <2>9. ResponseFor(d, p, kp) = msg
    <3> HIDE DEF kp
    <3> QED BY <2>6 DEF ResponseFor
  <2> HIDE DEF n3, msg, kp, h
  <2>10. KeysInv(noise, nt, e, delivered)
    BY <1>1, <2>3, <2>4, <2>5, ResponseSent, Zenon DEF e
  <2>11. Begins(n0, n3, p, kp)
    <3>1. \A q \in Peer : Keypairs(n2, q) = Keypairs(n0, q)
      BY <1>9, Zenon DEF Keypairs
    <3>2. \A q \in Peer : q # p => /\ Keypairs(n3, q) = Keypairs(n0, q)
                                   /\ n3.current[q] = n0.current[q]
                                   /\ n3.hs[q] = n0.hs[q]
      BY <1>9, <2>7, <3>1 DEF Untouched, Keypairs
    <3>3. kp.key[1] <= m.eph
      BY <1>0, <2>6
    <3> QED BY <1>0, <1>9, <1>11, <2>6, <2>7, <2>8, <3>1, <3>2, <3>3 DEF Begins
  <2>12. NewKey(noise, nt, delivered, d, p, kp)
    <3>1. ASSUME NEW s \in nt, s.type = "transport" PROVE s.key # kp.key
      <4>1. s \in net
        BY <2>3, <3>1
      <4>2. s.key[2] <= ephemerals /\ s.key[2] \in Nat
        BY <2>4, <3>1, <4>1, MessageTypes, Zenon DEF KeysInv, NetBounded, Transport, Key
      <4>3. kp.key[2] = ephemerals + 1
        BY <2>6 DEF e
      <4> QED BY <1>1, <4>2, <4>3
    <3> QED BY <2>6, <2>9, <3>1, Zenon DEF NewKey
  <2>13. ContextOK(c2) /\ c2.n = n3 /\ c2.q = q2 /\ c2.out = {msg} /\ c2.e = e
    <3>1. n3 \in NoiseState
      BY <2>1, Zenon DEF NoiseInv
    <3>2. msg \in Message
      BY <2>3, Zenon DEF Message
    <3> QED BY <1>1, <1>3, <1>5, <2>1, <3>1, <3>2, Zenon DEF ContextOK
  <2> HIDE DEF c2
  <2>14. ContextKeys(c2, d, p, unsent)
    <3>1. \A s \in c2.out : s.type # "transport"
      BY <2>3, <2>13, Zenon
    <3>2. noise[d].hs[p].last_timestamp < kp.key[1]
      BY <1>0, <2>6 DEF n0
    <3> QED BY <1>0, <1>3, <1>4, <2>6, <2>10, <2>11, <2>12, <2>13, <3>1, <3>2, SessionBegun, Zenon DEF n0
  <2>15. ContextKeys(FlushStaged(c2, d, p, i), d, p, unsent)
    BY <1>1, <2>1, <2>2, <2>13, <2>14, FlushKeys, Zenon
  <2> QED BY <1>0, <2>2, <2>15, CommitKeys, Zenon
<1> QED BY <1>12, <1>13, Zenon

\* What consuming a response changes.
Consumed(n, n1, p, sender, eph) ==
  LET h == n1.hs[p]
  IN  /\ n1.peers = n.peers /\ n1.current = n.current /\ n1.next = n.next /\ n1.prev = n.prev
      /\ \A q \in Peer : q # p => n1.hs[q] = n.hs[q]
      /\ h.state = "RESPONSE_CONSUMED" /\ h.remote_index = sender /\ h.remote_ephemeral = eph
      /\ h.local_index = n.hs[p].local_index /\ h.local_ephemeral = n.hs[p].local_ephemeral
      /\ h.last_timestamp = n.hs[p].last_timestamp

\* noise_consume_response writes the handshake of its peer and nothing else.
LEMMA ConsumeKeys ==
  ASSUME NEW n \in NoiseState, NEW p \in Peer, NEW sender, NEW eph
  PROVE  Consumed(n, noise_consume_response(n, p, sender, eph), p, sender, eph)
<1> DEFINE h0 == n.hs[p]
           h1 == [h0 EXCEPT !.remote_ephemeral = eph, !.remote_index = sender, !.state = "RESPONSE_CONSUMED"]
           n1 == noise_consume_response(n, p, sender, eph)
<1>1. h0 \in Handshake
  BY Zenon DEF NoiseState
<1> HIDE DEF h0
<1>2. /\ h1.state = "RESPONSE_CONSUMED" /\ h1.remote_index = sender /\ h1.remote_ephemeral = eph
      /\ h1.local_index = h0.local_index /\ h1.local_ephemeral = h0.local_ephemeral
      /\ h1.last_timestamp = h0.last_timestamp
  BY <1>1, Zenon DEF Handshake
<1>3. n1 = [n EXCEPT !.hs[p] = h1]
  BY Zenon DEF noise_consume_response, h0
<1> HIDE DEF h1, n1
<1>4. /\ n1.peers = n.peers /\ n1.current = n.current /\ n1.next = n.next /\ n1.prev = n.prev
      /\ n1.hs[p] = h1 /\ \A q \in Peer : q # p => n1.hs[q] = n.hs[q]
  BY <1>3, Zenon DEF NoiseState
<1> QED BY <1>2, <1>4, Zenon DEF Consumed, n1, h0

\* handle_response.
LEMMA ResponseKeys ==
  ASSUME SessionInv, SessionKeysInv, NEW d \in Device, NEW m \in net, HandleResponse(d, m)
  PROVE  SessionKeysInv' /\ NewerKeys
<1> DEFINE entry == noise[d].table[m.receiver]
           p  == entry.peer
           n0 == noise[d]
           n1 == noise_consume_response(n0, p, m.sender, m.eph)
           n2 == noise_begin_session(n1, p)
           q1 == timers_handshake_complete([io[d][p] EXCEPT !.endpoint = TRUE])
           c  == [n |-> n2, q |-> q1, out |-> {}, e |-> ephemerals, inits |-> initiations]
           xs == <<Keepalive>>
           h  == n1.hs[p]
           kp == NewKeypair(h)
<1>0. /\ m.sender \in Index /\ m.eph \in Nat /\ m.receiver \in Index /\ entry.type = "handshake"
      /\ m.init_eph \in Nat
  <2>1. m \in Response
    BY MessageTypes, Zenon DEF SessionInv, TypeOK, HandleResponse, Message
  <2> QED BY <2>1, Zenon DEF HandleResponse, Response
<1>1. p \in Peer /\ p \in n0.peers /\ n0.hs[p].local_index = m.receiver
  BY <1>0, ZenonT(40) DEF SessionInv, NoiseInv, EntryOK, NoiseState
<1>2. /\ NoiseInv(n0) /\ io[d][p] \in PeerIO /\ Len(io[d][p].staged) <= PEER_QUEUE_SIZE
      /\ ephemerals \in Nat /\ initiations \in Nat
      /\ unsent \in SUBSET Packet /\ delivered \in [Packet -> Nat]
  BY <1>1, ContextTypes, Zenon
<1>3. /\ Pending(n0, p) /\ n0.hs[p].local_ephemeral = m.init_eph /\ p = m.from
      /\ m.type = "response" /\ m.to = d
      /\ unsent' = unsent /\ delivered' = delivered
  BY Zenon DEF HandleResponse, Pending
<1>4. PICK i \in Picks(n2, p) :
        Commit(IF q1.staged = <<>> THEN device_send_to_peer(c, d, p, xs, i)
               ELSE FlushStaged(c, d, p, i), d, p)
  BY Zenon DEF HandleResponse
<1>5. /\ q1 \in PeerIO /\ Len(q1.staged) <= PEER_QUEUE_SIZE /\ q1.staged = io[d][p].staged
      /\ q1.zero = "armed"
  <2> DEFINE q0 == [io[d][p] EXCEPT !.endpoint = TRUE]
  <2>1. q0 \in PeerIO /\ q0.staged = io[d][p].staged
    BY <1>2, Zenon DEF PeerIO
  <2>2. q1 \in PeerIO /\ Len(q1.staged) <= PEER_QUEUE_SIZE
    BY <1>2, HandshakeCompleteType, Zenon
  <2> HIDE DEF q0
  <2>3. q1.staged = q0.staged /\ q1.zero = "armed"
    BY <2>1, Zenon DEF PeerIO, timers_handshake_complete, q0
  <2> QED BY <2>1, <2>2, <2>3, Zenon
<1>6. xs \in Seq(Packet \cup {Keepalive}) /\ xs # <<>>
  BY SingletonSeq, Zenon
<1> HIDE DEF entry, p, q1, xs
<1>7. NoiseInv(n1) /\ p \in n1.peers /\ n1.hs[p].local_index \in Index
  <2>1. m.sender \in Index \cup {NoIndex} /\ m.eph \in Nat /\ m.receiver \in Index
    BY <1>0, Zenon
  <2>2. NoiseInv(n1) /\ n1.peers = n0.peers /\ n1.hs[p].local_index = n0.hs[p].local_index
    BY <1>1, <1>2, <2>1, ConsumeResponseInv, ZenonT(40)
  <2> QED BY <1>1, <2>1, <2>2, Zenon
<1>8. Consumed(n0, n1, p, m.sender, m.eph) /\ n0 \in NoiseState /\ n1 \in NoiseState
  <2>1. n0 \in NoiseState /\ n1 \in NoiseState
    BY <1>2, <1>7, Zenon DEF NoiseInv
  <2> HIDE DEF n0
  <2> QED BY <1>1, <2>1, ConsumeKeys, Zenon
<1> HIDE DEF n0, n1
<1>9. NoiseInv(n2) /\ p \in n2.peers
  BY <1>1, <1>7, BeginSessionInv, BeginSessionPeers, Zenon
<1>10. ContextOK(c) /\ c.n = n2 /\ c.q = q1 /\ c.out = {} /\ c.e = ephemerals
  <2>1. n2 \in NoiseState
    BY <1>9, Zenon DEF NoiseInv
  <2> HIDE DEF n2
  <2> QED BY <1>2, <1>5, <1>9, <2>1, Zenon DEF ContextOK
<1>11. /\ n2.peers = n1.peers /\ n2.hs[p] = noise_handshake_clear(h)
       /\ \A q \in Peer : q # p => Untouched(n1, n2, q)
       /\ Keypairs(n2, p) \subseteq Keypairs(n1, p) \cup {kp}
       /\ n2.current[p] = IF kp.is_initiator THEN kp ELSE n1.current[p]
  BY <1>1, <1>8, BeginSessionKeys, Zenon
<1>12. /\ h.state = "RESPONSE_CONSUMED" /\ h.remote_index = m.sender /\ h.remote_ephemeral = m.eph
       /\ h.local_index = m.receiver /\ h.local_ephemeral = m.init_eph
       /\ h.last_timestamp = n0.hs[p].last_timestamp
  BY <1>1, <1>3, <1>8, Zenon DEF Consumed
<1>13. /\ kp.key = <<m.init_eph, m.eph>> /\ kp.is_initiator /\ kp.local_index = m.receiver
       /\ kp.remote_index = m.sender /\ kp \in Keypair
  <2>1. kp = [NoKeypair EXCEPT !.key = <<m.init_eph, m.eph>>, !.is_initiator = TRUE,
                               !.local_index = m.receiver, !.remote_index = m.sender]
    <3> HIDE DEF h
    <3> QED BY <1>12, Zenon DEF NewKeypair
  <2> HIDE DEF kp
  <2>2. <<m.init_eph, m.eph>> \in Key
    BY <1>0, Zenon DEF Key
  <2>3. NoKeypair \in Keypair
    BY NullTypes, Zenon
  <2> QED BY <1>0, <2>1, <2>2, <2>3, Zenon DEF Keypair
<1>14. /\ noise_handshake_clear(h).state = "ZEROED" /\ noise_handshake_clear(h).local_ephemeral = 0
       /\ noise_handshake_clear(h).last_timestamp = n0.hs[p].last_timestamp
  BY <1>12, Zenon DEF noise_handshake_clear, noise_handshake_init
<1> HIDE DEF n2, c, h, kp
<1>15. KeysInv(noise, net, ephemerals, delivered)
  BY Zenon DEF SessionKeysInv, KeysAndPackets
<1>16. Begins(n0, n2, p, kp)
  <2>1. \A q \in Peer : Keypairs(n1, q) = Keypairs(n0, q)
    BY <1>8, Zenon DEF Keypairs, Consumed
  <2>2. \A q \in Peer : q # p => /\ Keypairs(n2, q) = Keypairs(n0, q)
                                 /\ n2.current[q] = n0.current[q]
                                 /\ n2.hs[q] = n0.hs[q]
    BY <1>8, <1>11, <2>1, Zenon DEF Untouched, Keypairs, Consumed
  <2>3. n0.hs[p].last_timestamp \in Nat
    BY <1>1, <1>8, Zenon DEF NoiseState, Handshake
  <2>4. n2.peers = n0.peers /\ Keypairs(n2, p) \subseteq Keypairs(n0, p) \cup {kp}
    BY <1>1, <1>8, <1>11, <2>1, Zenon DEF Consumed
  <2>5. /\ n2.hs[p].state = "ZEROED" /\ n2.hs[p].local_ephemeral = 0
        /\ n0.hs[p].last_timestamp <= n2.hs[p].last_timestamp
    BY <1>11, <1>14, <2>3
  <2>6. Exists(n2.current[p]) /\ ~n2.current[p].is_initiator => n2.current[p] = n0.current[p]
    BY <1>11, <1>13, Zenon
  <2> QED BY <1>13, <2>2, <2>4, <2>5, <2>6, Zenon DEF Begins
<1>17. NewKey(noise, net, delivered, d, p, kp)
  <2>1. ResponseFor(d, p, kp) \in net
    <3>1. m \in Response
      BY <1>3, MessageTypes, Zenon DEF SessionInv, TypeOK, Message
    <3>2. m = [type |-> "response", to |-> d, from |-> p, sender |-> m.sender,
               receiver |-> m.receiver, init_eph |-> m.init_eph, eph |-> m.eph]
      BY <1>3, <3>1, Zenon DEF Response
    <3>3. ResponseFor(d, p, kp) = [type |-> "response", to |-> d, from |-> p, sender |-> m.sender,
               receiver |-> m.receiver, init_eph |-> m.init_eph, eph |-> m.eph]
      BY <1>13 DEF ResponseFor
    <3> QED BY <3>2, <3>3, Zenon
  <2>2. /\ \A s \in net : s.type = "transport" /\ s.by_initiator => s.key[1] # m.init_eph
        /\ \A b \in Device, q \in Peer :
             Pending(noise[b], q) /\ noise[b].hs[q].local_ephemeral = m.init_eph => b = d /\ q = p
    <3>1. EphemeralUnused(noise, net) /\ Pending(noise[d], p) /\ noise[d].hs[p].local_ephemeral = m.init_eph
      BY <1>3, <1>15, Zenon DEF KeysInv, n0
    <3> QED BY ONLY <1>1, <3>1, d \in Device, UnusedKey
  <2>3. \A s \in net : s.type = "transport" /\ s.packet \in Packet /\ delivered[s.packet] = 1
                         => ~(s.key = kp.key /\ s.by_initiator # kp.is_initiator)
    <3>1. ASSUME NEW s \in net, s.type = "transport", s.packet \in Packet, delivered[s.packet] = 1,
                 ~s.by_initiator
          PROVE  s.key[1] # m.init_eph
      BY <1>1, <1>3, <1>15, <3>1, Zenon DEF KeysInv, Delivered, n0
    <3>2. \A s \in net : s.type = "transport" => s.by_initiator \in BOOLEAN
      BY MessageTypes, Zenon DEF SessionInv, TypeOK, Message, Transport
    <3>3. kp.key[1] = m.init_eph /\ kp.is_initiator = TRUE
      BY <1>13
    <3>4. ASSUME NEW s \in net, s.type = "transport", s.packet \in Packet, delivered[s.packet] = 1,
                 s.key = kp.key
          PROVE  s.by_initiator = TRUE
      BY <3>1, <3>2, <3>3, <3>4, Zenon
    <3> QED BY <3>3, <3>4, Zenon
  <2>4. kp.key[1] = m.init_eph
    BY <1>13
  <2> QED BY <1>13, <2>1, <2>2, <2>3, <2>4, Zenon DEF NewKey
<1>18. ContextKeys(c, d, p, unsent)
  <2>1. /\ net \cup c.out = net
        /\ \A s \in c.out : s.type # "transport"
    BY <1>10, Zenon
  <2>2. Begins(noise[d], c.n, p, kp) /\ kp \in Keypair
    BY <1>10, <1>13, <1>16, Zenon DEF n0
  <2>3. KeysInv(noise, net \cup c.out, c.e, delivered) /\ NewKey(noise, net \cup c.out, delivered, d, p, kp)
    BY <1>10, <1>15, <1>17, <2>1, Zenon
  <2> QED BY <1>1, <1>5, <1>10, <1>13, <2>1, <2>2, <2>3, SessionBegun, Zenon
<1>19. ContextKeys(device_send_to_peer(c, d, p, xs, i), d, p, unsent)
  <2>1. InHand(xs, PeersWith(d, p, c.q), net \cup c.out, unsent)
    BY KeepaliveInHand, Zenon DEF xs
  <2> QED BY <1>2, <1>4, <1>6, <1>9, <1>10, <1>18, <2>1, SendKeys, Zenon
<1>20. ContextKeys(FlushStaged(c, d, p, i), d, p, unsent)
  BY <1>2, <1>4, <1>9, <1>10, <1>18, FlushKeys, Zenon
<1> QED BY <1>1, <1>3, <1>4, <1>19, <1>20, CommitKeys, Zenon

\* The counter of a received message goes into the replay filter of one keypair, and
\* nothing else changes.
LEMMA ReplayCommitKeys ==
  ASSUME NEW n, NoiseInv(n), NEW p \in Peer, NEW k, NEW counter \in Nat
  PROVE  LET n1 == replay_commit(n, p, k, counter)
         IN  /\ Quiet(n, n1) /\ n1.peers = n.peers
             /\ \A kp \in Keypairs(n, p) : kp.key = k =>
                  \E kp1 \in Keypairs(n1, p) : Successor(kp, kp1) /\ counter \in kp1.replay
<1> DEFINE cur == Accepted(n.current[p], k, counter)
           nxt == Accepted(n.next[p], k, counter)
           prv == Accepted(n.prev[p], k, counter)
           n1  == replay_commit(n, p, k, counter)
<1>1. n \in NoiseState /\ n1 \in NoiseState
  BY ReplayCommitInv, Zenon DEF NoiseInv
<1>2. ASSUME NEW kp \in Keypair, kp # NoKeypair => kp.local_index \in Index
      PROVE  /\ Accepted(kp, k, counter) = kp \/ (Exists(kp) /\ Successor(kp, Accepted(kp, k, counter)))
             /\ Exists(kp) => Exists(Accepted(kp, k, counter))
             /\ Exists(kp) /\ kp.key = k =>
                  Successor(kp, Accepted(kp, k, counter)) /\ counter \in Accepted(kp, k, counter).replay
  <2> DEFINE r == [kp EXCEPT !.replay = @ \cup {counter}]
  <2>1. CASE Exists(kp) /\ kp.key = k
    <3>1. Accepted(kp, k, counter) = r
      BY <2>1, Zenon DEF Accepted
    <3>2. /\ r.key = kp.key /\ r.is_initiator = kp.is_initiator /\ r.local_index = kp.local_index
          /\ r.remote_index = kp.remote_index /\ r.send_nonce = kp.send_nonce
          /\ kp.replay \subseteq r.replay /\ counter \in r.replay /\ kp.send_nonce \in Nat
      BY <1>2, Zenon DEF Keypair
    <3>3. r # NoKeypair
      BY <1>2, <2>1, <3>2, NoiseAssumption, Zenon DEF NoKeypair, Exists
    <3> HIDE DEF r
    <3>4. Successor(kp, r)
      BY <3>2 DEF Successor
    <3> QED BY <2>1, <3>1, <3>2, <3>3, <3>4, Zenon DEF Exists
  <2>2. CASE ~(Exists(kp) /\ kp.key = k)
    <3>1. Accepted(kp, k, counter) = kp
      BY <2>2, Zenon DEF Accepted
    <3> QED BY ONLY <2>2, <3>1, Zenon
  <2> QED BY <2>1, <2>2, Zenon
<1>3. /\ n.current[p] \in Keypair /\ n.next[p] \in Keypair /\ n.prev[p] \in Keypair
      /\ n.current[p] # NoKeypair => n.current[p].local_index \in Index
      /\ n.next[p] # NoKeypair => n.next[p].local_index \in Index
      /\ n.prev[p] # NoKeypair => n.prev[p].local_index \in Index
  BY Zenon DEF NoiseInv, NoiseState, PeerOK, Registered
<1>4. n1 = [n EXCEPT !.current[p] = cur, !.next[p] = nxt, !.prev[p] = prv]
  BY Zenon DEF replay_commit
<1> HIDE DEF cur, nxt, prv, n1
<1>5. /\ n1.peers = n.peers /\ n1.hs = n.hs
      /\ \A q \in Peer : q # p => /\ n1.current[q] = n.current[q]
                                  /\ n1.next[q] = n.next[q]
                                  /\ n1.prev[q] = n.prev[q]
      /\ n1.current[p] = cur /\ n1.next[p] = nxt /\ n1.prev[p] = prv
  BY <1>1, <1>4 DEF NoiseState
<1>6. /\ cur = n.current[p] \/ (Exists(n.current[p]) /\ Successor(n.current[p], cur))
      /\ nxt = n.next[p] \/ (Exists(n.next[p]) /\ Successor(n.next[p], nxt))
      /\ prv = n.prev[p] \/ (Exists(n.prev[p]) /\ Successor(n.prev[p], prv))
  BY <1>2, <1>3, Zenon DEF cur, nxt, prv
<1>7. Quiet(n, n1)
  BY <1>1, <1>5, <1>6, KeypairsQuiet, Zenon
<1>8. ASSUME NEW kp \in Keypairs(n, p), kp.key = k
      PROVE  \E kp1 \in Keypairs(n1, p) : Successor(kp, kp1) /\ counter \in kp1.replay
  <2>1. kp \in {n.current[p], n.next[p], n.prev[p]} /\ Exists(kp)
    BY Zenon DEF Keypairs
  <2> DEFINE kp1 == Accepted(kp, k, counter)
  <2>2. Exists(kp1) /\ Successor(kp, kp1) /\ counter \in kp1.replay
    BY <1>2, <1>3, <1>8, <2>1, Zenon
  <2>3. kp1 \in {n1.current[p], n1.next[p], n1.prev[p]}
    BY <1>5, <2>1, Zenon DEF cur, nxt, prv
  <2>4. kp1 \in Keypairs(n1, p)
    BY <2>2, <2>3, Zenon DEF Keypairs
  <2> QED BY <2>2, <2>4, Zenon
<1> QED BY <1>5, <1>7, <1>8, Zenon DEF n1

\* The next keypair becomes current: at a responder, on a message of the initiator.
LEMMA ConfirmKeys ==
  ASSUME NEW nz \in [Device -> NoiseState], NEW nt \in SUBSET Message, NEW e \in Nat,
         NEW dl \in [Packet -> Nat], NEW d \in Device, NEW p \in Peer, NEW m,
         m = ConfirmNext(nz[d], p), KeysInv(nz, nt, e, dl),
         \/ nz[d].next[p].is_initiator
         \/ \E s \in nt : s.type = "transport" /\ s.key = nz[d].next[p].key /\ s.by_initiator
  PROVE  /\ KeysInv([nz EXCEPT ![d] = m], nt, e, dl)
         /\ \A q \in Peer : Keypairs(m, q) \subseteq Keypairs(nz[d], q)
<1> DEFINE n  == nz[d]
           ny == [nz EXCEPT ![d] = m]
           t  == index_table_delete(n.table, n.prev[p].local_index)
<1>1. n \in NoiseState
  BY Zenon
<1>2. m = [n EXCEPT !.table = t, !.prev[p] = n.current[p], !.current[p] = n.next[p], !.next[p] = NoKeypair]
  BY Zenon DEF ConfirmNext
<1>3. \A b \in Device : ny[b] = IF b = d THEN m ELSE nz[b]
  BY Zenon
<1> HIDE DEF n, ny, t
<1>4. /\ m.peers = n.peers /\ m.hs = n.hs
      /\ \A q \in Peer : q # p => /\ m.current[q] = n.current[q]
                                  /\ m.next[q] = n.next[q]
                                  /\ m.prev[q] = n.prev[q]
      /\ m.current[p] = n.next[p] /\ m.next[p] = NoKeypair /\ m.prev[p] = n.current[p]
  BY <1>1, <1>2 DEF NoiseState
<1>5. \A q \in Peer : Keypairs(m, q) \subseteq Keypairs(n, q)
  BY <1>4, Zenon DEF Keypairs, Exists
<1>6. \A b \in Device : /\ ny[b].peers = nz[b].peers /\ ny[b].hs = nz[b].hs
                        /\ \A q \in Peer : Keypairs(ny[b], q) \subseteq Keypairs(nz[b], q)
  BY <1>3, <1>4, <1>5, Zenon DEF n
<1>7. NetBounded(nt, e) /\ ResponsesUnique(nt) /\ NoncesUnique(nt)
  BY Zenon DEF KeysInv
<1>8. LocalBounded(ny, e)
  BY <1>6, Zenon DEF KeysInv, LocalBounded
<1>9. KeypairsDerived(ny, nt)
  BY <1>6, Zenon DEF KeysInv, KeypairsDerived
<1>10. EphemeralUnused(ny, nt)
  <2>1. EphemeralUnused(nz, nt)
    BY Zenon DEF KeysInv
  <2> QED BY <1>6, <2>1 DEF EphemeralUnused, Pending
<1>11. NoncesAhead(ny, nt)
  BY <1>6, Zenon DEF KeysInv, NoncesAhead
<1>12. Timestamps(ny)
  BY <1>6, Zenon DEF KeysInv, Timestamps
<1>13. Confirmed(ny, nt)
  <2> SUFFICES ASSUME NEW b \in Device, NEW q \in Peer,
                      Exists(ny[b].current[q]) /\ ~ny[b].current[q].is_initiator
               PROVE  \E s \in nt : s.type = "transport" /\ s.key = ny[b].current[q].key /\ s.by_initiator
    BY Zenon DEF Confirmed
  <2>1. CASE b = d /\ q = p
    BY <1>3, <1>4, <2>1 DEF n
  <2>2. CASE ~(b = d /\ q = p)
    <3>1. ny[b].current[q] = nz[b].current[q]
      BY <1>3, <1>4, <2>2, Zenon DEF n
    <3> QED BY <3>1, Zenon DEF KeysInv, Confirmed
  <2> QED BY <2>1, <2>2, Zenon
<1>14. Delivered(ny, nt, dl)
  <2>1. Delivered(nz, nt, dl)
    BY Zenon DEF KeysInv
  <2> QED BY <1>6, <2>1 DEF Delivered, Pending
<1> QED BY <1>5, <1>7, <1>8, <1>9, <1>10, <1>11, <1>12, <1>13, <1>14, Zenon DEF KeysInv, n, ny

\* handle_transport.
LEMMA TransportKeys ==
  ASSUME SessionInv, SessionKeysInv, NEW d \in Device, NEW m \in net, HandleTransport(d, m)
  PROVE  SessionKeysInv' /\ NewerKeys
<1> DEFINE n0 == noise[d]
           entry == n0.table[m.receiver]
           p  == entry.peer
           kp == KeypairOf(n0, entry)
           n1 == replay_commit(n0, p, kp.key, m.counter)
           n2 == IF Exists(n1.next[p]) /\ n1.next[p].key = kp.key THEN ConfirmNext(n1, p) ELSE n1
           q  == [io[d][p] EXCEPT !.endpoint = TRUE]
           nz == NoiseWith(d, n1)
<1>0. /\ m.counter \in Nat /\ m.packet \in Packet \cup {Keepalive} /\ m.by_initiator \in BOOLEAN
      /\ m.receiver \in Index /\ entry.type = "keypair" /\ m.type = "transport"
  <2>1. m \in Transport
    BY MessageTypes, Zenon DEF SessionInv, TypeOK, HandleTransport, Message
  <2> QED BY <2>1, Zenon DEF HandleTransport, Transport
<1>1. p \in Peer
  BY <1>0, Zenon DEF SessionInv, NoiseInv, EntryOK, NoiseState
<1>2. /\ NoiseInv(n0) /\ io[d][p] \in PeerIO /\ ephemerals \in Nat /\ delivered \in [Packet -> Nat]
      /\ noise \in [Device -> NoiseState] /\ io \in [Device -> [Peer -> PeerIO]]
      /\ net \in SUBSET Message /\ \A b \in Device : NoiseInv(noise[b])
  BY <1>1, ContextTypes, Zenon DEF SessionInv, TypeOK, Message
<1>3. /\ noise' = [noise EXCEPT ![d] = n2]
      /\ io' = [io EXCEPT ![d][p] = q]
      /\ delivered' = IF m.packet = Keepalive THEN delivered
                      ELSE [delivered EXCEPT ![m.packet] = @ + 1]
      /\ UNCHANGED <<net, ephemerals, unsent>>
      /\ m.counter \notin kp.replay
      /\ kp.key = m.key /\ kp.is_initiator # m.by_initiator
  BY Zenon DEF HandleTransport
<1>4. q.staged = io[d][p].staged /\ q.zero = io[d][p].zero
  BY <1>2, Zenon DEF PeerIO
<1>5. /\ KeysInv(noise, net, ephemerals, delivered) /\ PacketsApart(io, net, unsent)
      /\ Deadline(noise, io)
  BY Zenon DEF SessionKeysInv, KeysAndPackets
<1>6. kp \in Keypairs(n0, p)
  <2> DEFINE kps == {n0.current[p], n0.next[p], n0.prev[p]}
  <2>1. PICK k0 \in Keypairs(n0, p) : k0.key = entry.keypair
    <3>1. EntryOK(n0, m.receiver) /\ PeerOK(n0, p)
      BY <1>0, <1>1, <1>2, Zenon DEF NoiseInv
    <3>2. PICK k0 \in kps : k0 # NoKeypair /\ k0.local_index = m.receiver
      BY <1>0, <3>1, Zenon DEF EntryOK
    <3>3. Registered(n0, k0, p)
      BY <3>1, Zenon DEF PeerOK
    <3>4. entry = KeypairEntry(p, k0.key)
      BY <3>2, <3>3, Zenon DEF Registered
    <3>5. k0.key = entry.keypair
      BY ONLY <3>4 DEF KeypairEntry
    <3> QED BY <3>2, <3>5, Zenon DEF Keypairs, Exists
  <2>2. k0.key # NoKey
    <3> DEFINE r == ResponseFor(d, p, k0)
    <3>1. r \in net /\ r.type = "response" /\ r.eph = k0.key[2]
      BY <1>1, <1>5, Zenon DEF KeysInv, KeypairsDerived, ResponseFor
    <3> HIDE DEF r
    <3>2. 0 < k0.key[2]
      BY <1>5, <3>1, Zenon DEF KeysInv, NetBounded
    <3> QED BY <3>2 DEF NoKey
  <2>3. k0 \in kps
    BY Zenon DEF Keypairs
  <2>4. kp \in kps /\ kp.key = entry.keypair
    BY <2>1, <2>3, Zenon DEF KeypairOf
  <2> HIDE DEF kp
  <2>5. kp # NoKeypair
    <3>1. NoKeypair.key = NoKey
      BY ONLY NoKeypair = NoKeypair, Zenon DEF NoKeypair
    <3> QED BY <2>1, <2>2, <2>4, <3>1, Zenon
  <2> QED BY <2>4, <2>5, Zenon DEF Keypairs, Exists
<1> HIDE DEF kp, entry, p, q
<1>7. NoiseInv(n1) /\ n1 \in NoiseState
  BY <1>0, <1>1, <1>2, ReplayCommitInv, Zenon DEF NoiseInv
<1>8. Quiet(n0, n1) /\ n1.peers = n0.peers
  BY <1>0, <1>1, <1>2, ReplayCommitKeys
<1>9. PICK kp1 \in Keypairs(n1, p) : Successor(kp, kp1) /\ m.counter \in kp1.replay
  BY <1>0, <1>1, <1>2, <1>6, ReplayCommitKeys, Zenon
<1> HIDE DEF n1
<1>10. kp1.key = m.key /\ kp1.is_initiator # m.by_initiator
  BY <1>3, <1>9, Zenon DEF Successor
<1>11. nz \in [Device -> NoiseState] /\ nz[d] = n1 /\ \A b \in Device : NoiseInv(nz[b])
  BY <1>2, <1>7, Zenon DEF NoiseWith
<1>12. KeysInv(nz, net, ephemerals, delivered)
  <2>1. d \notin n1.peers
    BY <1>5, <1>8, Zenon DEF KeysInv, LocalBounded
  <2> QED BY <1>2, <1>5, <1>7, <1>8, <2>1, QuietKeys, Zenon DEF NoiseWith
<1> HIDE DEF nz
<1>13. delivered' \in [Packet -> Nat] /\ KeysInv(nz, net, ephemerals, delivered')
  <2>1. CASE m.packet = Keepalive
    BY <1>2, <1>3, <1>12, <2>1, Zenon
  <2>2. CASE m.packet # Keepalive
    <3> DEFINE x == m.packet
    <3>0. x \in Packet /\ delivered' = [delivered EXCEPT ![x] = @ + 1]
      BY <1>0, <1>3, <2>2, Zenon
    <3>1. delivered[x] = 0
      <4>1. delivered[x] # 1
        BY <1>0, <1>1, <1>3, <1>5, <1>6, <3>0, Zenon DEF KeysInv, Delivered
      <4>2. delivered[x] <= 1 /\ delivered[x] \in Nat
        BY <1>2, <1>5, <3>0, Zenon DEF KeysInv, Delivered
      <4> QED BY <4>1, <4>2
    <3>2. /\ delivered' \in [Packet -> Nat] /\ delivered'[x] = 1
          /\ \A y \in Packet : y # x => delivered'[y] = delivered[y]
      BY <1>2, <3>0, <3>1
    <3>3. ASSUME NEW s \in net, s.type = "transport", s.packet \in Packet, delivered'[s.packet] = 1,
                 NEW b \in Device, NEW r \in Peer
          PROVE  /\ \A k \in Keypairs(nz[b], r) :
                      k.key = s.key /\ k.is_initiator # s.by_initiator => s.counter \in k.replay
                 /\ Pending(nz[b], r) /\ ~s.by_initiator => nz[b].hs[r].local_ephemeral # s.key[1]
      <4>1. CASE s.packet # x
        <5>1. delivered[s.packet] = 1
          BY <3>2, <3>3, <4>1, Zenon
        <5> QED BY <1>12, <3>3, <5>1, Zenon DEF KeysInv, Delivered
      <4>2. CASE s.packet = x
        <5>1. s = m
          BY <1>0, <1>5, <3>0, <3>3, <4>2, Zenon DEF PacketsApart, Carries
        <5>2. ASSUME NEW k \in Keypairs(nz[b], r), k.key = m.key, k.is_initiator # m.by_initiator
              PROVE  m.counter \in k.replay
          <6>1. k.is_initiator = kp1.is_initiator
            <7>1. k.is_initiator \in BOOLEAN /\ kp1.is_initiator \in BOOLEAN
              BY <1>1, <1>7, <1>11, <5>2, KeypairsType DEF Keypair
            <7> QED BY <1>0, <1>10, <5>2, <7>1, Zenon
          <6>2. ResponsesUnique(net) /\ KeypairsDerived(nz, net) /\ kp1 \in Keypairs(nz[d], p)
            BY <1>9, <1>11, <1>12, Zenon DEF KeysInv
          <6>3. k.key = kp1.key /\ net \in SUBSET Message
            BY <1>2, <1>10, <5>2, Zenon
          <6>4. k = kp1
            BY ONLY b \in Device, r \in Peer, d \in Device, k \in Keypairs(nz[b], r),
                    <1>1, <1>11, <6>1, <6>2, <6>3, SameHolder
          <6> QED BY <1>9, <6>4, Zenon
        <5>3. Pending(nz[b], r) /\ ~m.by_initiator => nz[b].hs[r].local_ephemeral # m.key[1]
          <6>1. ~m.by_initiator => kp1.is_initiator
            <7>1. kp1.is_initiator \in BOOLEAN
              BY <1>1, <1>7, <1>9, KeypairsType, Zenon DEF Keypair
            <7> QED BY <1>0, <1>10, <7>1, Zenon
          <6>2. kp1 \in Keypairs(nz[d], p)
            BY <1>9, <1>11, Zenon
          <6>3. EphemeralUnused(nz, net) /\ kp1.key = m.key
            BY <1>10, <1>12, Zenon DEF KeysInv
          <6>4. ASSUME Pending(nz[b], r), ~m.by_initiator PROVE kp1.key[1] # nz[b].hs[r].local_ephemeral
            BY ONLY <1>1, <6>1, <6>2, <6>3, <6>4, b \in Device, r \in Peer, d \in Device, UnusedKey
          <6> QED BY <6>3, <6>4, Zenon
        <5> QED BY <5>1, <5>2, <5>3, Zenon
      <4> QED BY <4>1, <4>2, Zenon
    <3>4. \A y \in Packet : delivered'[y] <= 1 /\ (delivered'[y] = 1 => \E s \in net : Carries(s, y))
      <4>1. Carries(m, x)
        BY <1>0, Zenon DEF Carries
      <4> HIDE DEF x
      <4>2. \A y \in Packet : delivered[y] <= 1 /\ (delivered[y] = 1 => \E s \in net : Carries(s, y))
        BY <1>5, Zenon DEF KeysInv, Delivered
      <4>3. 1 <= 1
        OBVIOUS
      <4> QED BY <3>2, <4>1, <4>2, <4>3, Zenon
    <3>5. Delivered(nz, net, delivered')
      BY <3>3, <3>4, Zenon DEF Delivered
    <3> QED BY <1>12, <3>2, <3>5 DEF KeysInv
  <2> QED BY <2>1, <2>2, Zenon
<1>14. /\ KeysInv([noise EXCEPT ![d] = n2], net, ephemerals, delivered')
       /\ \A r \in Peer : Keypairs(n2, r) \subseteq Keypairs(n1, r)
  <2>1. CASE Exists(n1.next[p]) /\ n1.next[p].key = kp.key
    <3>1. n2 = ConfirmNext(nz[d], p)
      BY <1>11, <2>1, Zenon
    <3>2. n1.next[p] = kp1
      <4>1. n1.next[p] \in Keypairs(nz[d], p) /\ kp1 \in Keypairs(nz[d], p) /\ n1.next[p].key = kp1.key
        BY <1>3, <1>9, <1>10, <1>11, <2>1, Zenon DEF Keypairs
      <4>2. LocalBounded(nz, ephemerals) /\ ResponsesUnique(net) /\ KeypairsDerived(nz, net)
        BY <1>12, Zenon DEF KeysInv
      <4> QED BY <1>1, <1>2, <1>11, <4>1, <4>2, KeysOfPeer, Zenon
    <3>3. \/ nz[d].next[p].is_initiator
          \/ \E s \in net : s.type = "transport" /\ s.key = nz[d].next[p].key /\ s.by_initiator
      <4>1. kp1.is_initiator \in BOOLEAN
        BY <1>1, <1>7, <1>9, KeypairsType, Zenon DEF Keypair
      <4>2. kp1.is_initiator \/ m.by_initiator
        BY <1>0, <1>10, <4>1, Zenon
      <4> QED BY <1>0, <1>10, <1>11, <3>2, <4>2, Zenon
    <3>4. [nz EXCEPT ![d] = n2] = [noise EXCEPT ![d] = n2]
      BY <1>2, Zenon DEF nz, NoiseWith
    <3> HIDE DEF n2
    <3>5. /\ KeysInv([nz EXCEPT ![d] = n2], net, ephemerals, delivered')
          /\ \A r \in Peer : Keypairs(n2, r) \subseteq Keypairs(nz[d], r)
      BY ONLY d \in Device, <1>1, <1>2, <1>11, <1>13, <3>1, <3>3, ConfirmKeys, Zenon
    <3> QED BY <1>11, <3>4, <3>5, Zenon
  <2>2. CASE ~(Exists(n1.next[p]) /\ n1.next[p].key = kp.key)
    <3>1. n2 = n1
      BY <2>2, Zenon
    <3> HIDE DEF n2
    <3> QED BY <1>13, <3>1, Zenon DEF nz, NoiseWith
  <2> QED BY <2>1, <2>2, Zenon
<1> HIDE DEF n2
<1>15. \A b \in Device, r \in Peer : io'[b][r].staged = io[b][r].staged /\ io'[b][r].zero = io[b][r].zero
  BY <1>1, <1>2, <1>3, <1>4
<1>16. PacketsApart(io', net, unsent)
  <2>1. \A b \in Device, r \in Peer : io'[b][r].staged \in {<<>>, io[b][r].staged}
    BY <1>15, Zenon
  <2> QED BY <1>5, <2>1, ApartLess, Zenon
<1>17. Deadline(noise', io')
  <2> SUFFICES ASSUME NEW b \in Device, NEW r \in Peer, Keypairs(noise'[b], r) # {}
               PROVE  Keypairs(noise[b], r) # {}
    BY <1>5, <1>15 DEF Deadline
  <2>1. CASE b = d
    <3>1. Keypairs(n1, r) # {}
      BY <1>2, <1>3, <1>14, <2>1, Zenon
    <3> QED BY <1>8, <2>1, <3>1, Zenon DEF Quiet, QuietFor
  <2>2. CASE b # d
    BY <1>2, <1>3, <2>2, Zenon
  <2> QED BY <2>1, <2>2, Zenon
<1>18. NewerKeys
  <2>1. \A b \in Device : noise'[b] = IF b = d THEN n2 ELSE noise[b]
    BY <1>2, <1>3, Zenon
  <2>2. Inherits(n0, n2)
    BY <1>8, <1>14, QuietInherits DEF Inherits
  <2>3. NewerOnly(n0, n2)
    BY <2>2, NewerSelf, NewerKept, Zenon
  <2> QED BY <2>1, <2>3, NewerSelf, Zenon DEF NewerKeys
<1> QED BY <1>3, <1>14, <1>16, <1>17, <1>18, Zenon DEF SessionKeysInv, KeysAndPackets

----------------------------------------------------------------------------
(* The theorems *)

\* A step preserves SessionKeysInv, and an older initiation replaces no session.
LEMMA StepKeys ==
  ASSUME SessionInv, SessionKeysInv, [Next]_vars
  PROVE  SessionKeysInv' /\ NewerKeys
<1>1. CASE UNCHANGED vars
  BY <1>1, NewerSelf, Zenon DEF vars, SessionKeysInv, NewerKeys
<1>2. ASSUME NEW d \in Device, NEW p \in noise[d].peers, PeerStep(d, p) PROVE SessionKeysInv' /\ NewerKeys
  <2>1. CASE \E x \in Packet : SendPacket(d, p, x)
    BY <2>1, SendPacketKeys, Zenon
  <2>2. CASE SendKeepalive(d, p)
    BY <2>2, SendKeepaliveKeys, Zenon
  <2>3. CASE CbRetransmitHandshake(d, p)
    BY <2>3, RetransmitKeys
  <2>4. CASE CbNewHandshake(d, p)
    BY <2>4, NewHandshakeKeys
  <2> QED BY <1>2, <2>1, <2>2, <2>3, <2>4, OtherPeerKeys DEF PeerStep
<1>3. ASSUME NEW d \in Device, NEW m \in net,
             HandleInitiation(d, m) \/ HandleResponse(d, m) \/ HandleTransport(d, m)
      PROVE  SessionKeysInv' /\ NewerKeys
  BY <1>3, InitiationKeys, ResponseKeys, TransportKeys, Zenon
<1>4. ASSUME NEW d \in Device, NEW p \in Peer, device_add_peer(d, p) PROVE SessionKeysInv' /\ NewerKeys
  BY <1>4, AddPeerKeys, Zenon
<1>5. ASSUME NEW d \in Device, Restart(d) PROVE SessionKeysInv' /\ NewerKeys
  BY <1>5, RestartKeys, Zenon
<1> QED BY <1>1, <1>2, <1>3, <1>4, <1>5, Zenon DEF Next, DeviceStep

\* SessionKeysInv holds in every reachable state, whatever the handlers, the timers, the
\* configuration, restarts and the network do.
THEOREM SessionKeysInvariant == Spec => []SessionKeysInv
<1>1. Init => SessionKeysInv
  <2> SUFFICES ASSUME Init PROVE SessionKeysInv
    BY Zenon
  <2>1. net = {} /\ ephemerals = 0
    BY Zenon DEF Init
  <2>2. \A x \in Packet : delivered[x] = 0
    BY Zenon DEF Init
  <2>3. \A d \in Device, p \in Peer : io[d][p].staged = <<>>
    BY Zenon DEF Init, device_add_peer_io
  <2>4. ASSUME NEW d \in Device, NEW p \in Peer
        PROVE  /\ Keypairs(noise[d], p) = {} /\ noise[d].current[p] = NoKeypair
               /\ ~Pending(noise[d], p) /\ noise[d].hs[p].local_ephemeral = 0
    <3>1. noise[d] = noise_init(Peer \ {d})
      BY Zenon DEF Init
    <3>2. /\ noise[d].current[p] = NoKeypair /\ noise[d].next[p] = NoKeypair /\ noise[d].prev[p] = NoKeypair
          /\ noise[d].hs[p] = noise_handshake_init
      <4>1. /\ noise[d].current = [r \in Peer |-> NoKeypair] /\ noise[d].next = [r \in Peer |-> NoKeypair]
            /\ noise[d].prev = [r \in Peer |-> NoKeypair]
            /\ noise[d].hs = [r \in Peer |-> noise_handshake_init]
        BY <3>1 DEF noise_init
      <4> QED BY <4>1, Zenon
    <3>3. noise_handshake_init.state = "ZEROED" /\ noise_handshake_init.local_ephemeral = 0
      BY Zenon DEF noise_handshake_init
    <3>4. "ZEROED" # "INITIATION_CREATED"
      BY Zenon
    <3> QED BY <3>2, <3>3, <3>4, Zenon DEF Keypairs, Exists, Pending
  <2>5. \A d \in Device : d \notin noise[d].peers
    <3>1. \A d \in Device : noise[d].peers = Peer \ {d}
      BY Zenon DEF Init, noise_init
    <3> QED BY <3>1, Zenon
  <2>6. KeysInv(noise, net, ephemerals, delivered)
    <3>1. NetBounded(net, ephemerals) /\ ResponsesUnique(net) /\ NoncesUnique(net)
      BY <2>1, Zenon DEF NetBounded, ResponsesUnique, NoncesUnique
    <3>2. LocalBounded(noise, ephemerals)
      <4>1. 0 <= 0
        OBVIOUS
      <4> QED BY <2>1, <2>4, <2>5, <4>1, Zenon DEF LocalBounded
    <3>3. KeypairsDerived(noise, net) /\ NoncesAhead(noise, net) /\ Timestamps(noise)
      BY <2>4, Zenon DEF KeypairsDerived, NoncesAhead, Timestamps
    <3>4. EphemeralUnused(noise, net) /\ Confirmed(noise, net)
      BY <2>4, Zenon DEF EphemeralUnused, Confirmed, Exists
    <3>5. Delivered(noise, net, delivered)
      <4>1. 0 <= 1 /\ 0 # 1
        OBVIOUS
      <4> QED BY <2>1, <2>2, <4>1, Zenon DEF Delivered
    <3> QED BY <3>1, <3>2, <3>3, <3>4, <3>5, Zenon DEF KeysInv
  <2>7. PacketsApart(io, net, unsent)
    <3>1. DOMAIN <<>> = {}
      OBVIOUS
    <3>2. \A d \in Device, p \in Peer : DOMAIN io[d][p].staged = {}
      BY <2>3, <3>1, Zenon
    <3> QED BY <2>1, <3>2, Zenon DEF PacketsApart
  <2>8. Deadline(noise, io)
    BY <2>4, Zenon DEF Deadline
  <2> QED BY <2>6, <2>7, <2>8, Zenon DEF SessionKeysInv, KeysAndPackets
<1>2. SessionInv /\ SessionKeysInv /\ [Next]_vars => SessionKeysInv'
  BY StepKeys, Zenon
<1> QED BY <1>1, <1>2, SessionInvariant, PTL DEF Spec

\* KeyAgreement holds in every reachable state: two devices that derived a keypair from
\* one handshake have opposite roles and each other's indices, so that a message sent
\* with the keypair of one is found and decrypted by handle_transport of the other.
THEOREM KeysAgree == Spec => []KeyAgreement
<1>1. SessionInv /\ SessionKeysInv => KeyAgreement
  <2> SUFFICES ASSUME SessionInv, SessionKeysInv, NEW d \in Device, NEW p \in Device,
                      NEW k1 \in Keypairs(noise[d], p), NEW k2 \in Keypairs(noise[p], d),
                      d # p, k1.key = k2.key
               PROVE  /\ k1.is_initiator # k2.is_initiator
                      /\ k1.local_index = k2.remote_index
                      /\ k1.remote_index = k2.local_index
    BY DEF KeyAgreement
  <2>1. /\ noise \in [Device -> NoiseState] /\ \A b \in Device : NoiseInv(noise[b])
        /\ net \in SUBSET Message /\ d \in Peer /\ p \in Peer
    BY Zenon DEF SessionInv, TypeOK, Message, Device
  <2>2. ResponsesUnique(net) /\ KeypairsDerived(noise, net)
    BY Zenon DEF SessionKeysInv, KeysAndPackets, KeysInv
  <2>3. k1.is_initiator \in BOOLEAN /\ k2.is_initiator \in BOOLEAN
    BY <2>1, KeypairsType DEF Keypair
  <2>4. k1.is_initiator # k2.is_initiator
    BY <2>1, <2>2, SameHolder
  <2>5. CASE k1.is_initiator /\ ~k2.is_initiator
    <3>1. k1.local_index = k2.remote_index /\ k1.remote_index = k2.local_index
      BY ONLY d \in Device, p \in Device, k1 \in Keypairs(noise[d], p), k2 \in Keypairs(noise[p], d),
              k1.key = k2.key, <2>1, <2>2, <2>5, OtherHolder
    <3> QED BY <2>4, <3>1
  <2>6. CASE ~k1.is_initiator /\ k2.is_initiator
    <3>1. k1.local_index = k2.remote_index /\ k1.remote_index = k2.local_index
      BY ONLY d \in Device, p \in Device, k1 \in Keypairs(noise[d], p), k2 \in Keypairs(noise[p], d),
              k1.key = k2.key, <2>1, <2>2, <2>6, OtherHolder
    <3> QED BY <2>4, <3>1, Zenon
  <2> QED BY <2>3, <2>4, <2>5, <2>6, Zenon
<1> QED BY <1>1, SessionInvariant, SessionKeysInvariant, PTL

\* CurrentIsConfirmed holds in every reachable state: handle_transport makes a
\* responder's keypair current only when the initiator has proved that it has the key.
THEOREM CurrentConfirmed == Spec => []CurrentIsConfirmed
<1>1. SessionKeysInv => CurrentIsConfirmed
  BY Zenon DEF SessionKeysInv, KeysAndPackets, KeysInv, Confirmed, CurrentIsConfirmed
<1> QED BY <1>1, SessionKeysInvariant, PTL

\* NonceUnique holds in every reachable state: device_send_to_peer never encrypts two
\* messages with one key and one counter.
THEOREM NoncesNeverReused == Spec => []NonceUnique
<1>1. SessionKeysInv => NonceUnique
  BY Zenon DEF SessionKeysInv, KeysAndPackets, KeysInv, NoncesUnique, NonceUnique
<1> QED BY <1>1, SessionKeysInvariant, PTL

\* DeliveredAtMostOnce holds in every reachable state: handle_transport writes no packet
\* to the tunnel twice, however often the network repeats its datagram.
THEOREM DeliveredOnce == Spec => []DeliveredAtMostOnce
<1>1. SessionKeysInv => DeliveredAtMostOnce
  BY Zenon DEF SessionKeysInv, KeysAndPackets, KeysInv, Delivered, DeliveredAtMostOnce
<1> QED BY <1>1, SessionKeysInvariant, PTL

\* KeyMaterialHasDeadline holds in every reachable state: timers_handshake_complete arms
\* the timer that erases the keys of a peer, and it is not disarmed while one is left.
THEOREM KeyMaterialErased == Spec => []KeyMaterialHasDeadline
<1>1. SessionInv /\ SessionKeysInv => KeyMaterialHasDeadline
  <2> SUFFICES ASSUME SessionInv, SessionKeysInv, NEW d \in Device, NEW p \in noise[d].peers,
                      Keypairs(noise[d], p) # {}
               PROVE  io[d][p].zero # "off"
    BY Zenon DEF KeyMaterialHasDeadline
  <2>1. p \in Peer
    BY Zenon DEF SessionInv, TypeOK, NoiseState
  <2> QED BY <2>1, Zenon DEF SessionKeysInv, KeysAndPackets, Deadline
<1> QED BY <1>1, SessionInvariant, SessionKeysInvariant, PTL

\* NewerInitiationWins: a responder replaces a session only by one from a later
\* initiation, because noise_consume_initiation compares timestamps and what it compares
\* with is kept as long as a session of this peer is.
THEOREM NewerInitiations == Spec => NewerInitiationWins
<1> DEFINE Wins == \A d \in Device, p \in Peer :
                     \A old \in Keypairs(noise[d], p), new \in Keypairs(noise'[d], p) :
                       ~old.is_initiator /\ ~new.is_initiator
                         /\ (\A kp \in Keypairs(noise[d], p) : kp.key # new.key)
                       => new.key[1] > old.key[1]
<1>1. SessionInv /\ SessionKeysInv /\ [Next]_vars => [Wins]_vars
  <2> SUFFICES ASSUME SessionInv, SessionKeysInv, [Next]_vars PROVE Wins
    BY Zenon
  <2>1. NewerKeys
    BY StepKeys, Zenon
  <2> QED BY <2>1, Zenon DEF NewerKeys, NewerOnly
<1>2. NewerInitiationWins <=> [][Wins]_vars
  BY Zenon DEF NewerInitiationWins
<1> HIDE DEF Wins
<1> QED BY <1>1, <1>2, SessionInvariant, SessionKeysInvariant, PTL DEF Spec
=============================================================================

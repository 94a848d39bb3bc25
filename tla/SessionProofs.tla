--------------------------- MODULE SessionProofs ---------------------------
(***************************************************************************)
(* The type invariant of module Session and the consistency of the index   *)
(* table in every reachable state, for any number of devices, indices and  *)
(* packets, any queue size and any values of the bounds.  The inductive    *)
(* invariant SessionInv is TypeOK with NoiseInv for every device; a step is*)
(* one handler, and a handler is a composition of operators that preserve  *)
(* NoiseInv (module NoiseProofs).                                          *)
(***************************************************************************)
EXTENDS Session, NoiseProofs

\* timers_handshake_complete and a give-up start counting again.
LEMMA ZeroAttempts == 0 \in Attempts
BY SessionAssumption DEF Attempts

\* A context that a handler may commit.
ContextOK(c) ==
  /\ c \in [n : NoiseState, q : PeerIO, out : SUBSET Message, e : Nat, inits : Nat]
  /\ NoiseInv(c.n)
  /\ Len(c.q.staged) <= PEER_QUEUE_SIZE

\* The inductive invariant.
SessionInv ==
  /\ TypeOK
  /\ \A d \in Device : NoiseInv(noise[d])

\* peer_stage_packet respects the size of the queue.
LEMMA StageOK ==
  ASSUME NEW q \in PeerIO, Len(q.staged) <= PEER_QUEUE_SIZE, NEW x \in Packet \cup {Keepalive}
  PROVE  /\ peer_stage_packet(q, x) \in PeerIO
         /\ Len(peer_stage_packet(q, x).staged) <= PEER_QUEUE_SIZE
<1>1. CASE x = Keepalive \/ Len(q.staged) = PEER_QUEUE_SIZE
  BY <1>1, Zenon DEF peer_stage_packet
<1>2. CASE ~(x = Keepalive \/ Len(q.staged) = PEER_QUEUE_SIZE)
  <2>1. q.staged \in Seq(Packet) /\ Len(q.staged) \in Nat
    BY DEF PeerIO
  <2>2. Append(q.staged, x) \in Seq(Packet) /\ Len(Append(q.staged, x)) = Len(q.staged) + 1
    BY <1>2, <2>1
  <2>3. peer_stage_packet(q, x) = [q EXCEPT !.staged = Append(q.staged, x)]
    BY <1>2, Zenon DEF peer_stage_packet
  <2>4. Len(q.staged) + 1 <= PEER_QUEUE_SIZE
    BY <1>2, <2>1, SessionAssumption
  <2> QED BY <2>2, <2>3, <2>4, Zenon DEF PeerIO
<1> QED BY <1>1, <1>2, Zenon

\* device_initiate_handshake_inner preserves ContextOK, whichever index is picked.
LEMMA InitiateOK ==
  ASSUME NEW c, ContextOK(c), NEW d \in Device, NEW p \in c.n.peers, NEW force \in BOOLEAN,
         NEW i \in Picks(c.n, p)
  PROVE  ContextOK(device_initiate_handshake_inner(c, d, p, force, i))
<1> DEFINE n1 == [c.n EXCEPT !.hs[p].sent_recently = TRUE]
           n2 == noise_create_initiation(n1, p, i, c.e + 1)
           c1 == [c EXCEPT !.n = n2, !.e = @ + 1, !.inits = @ + 1]
           msg == [type |-> "initiation", to |-> p, from |-> d, sender |-> i, eph |-> c.e + 1]
           c2 == [c1 EXCEPT !.out = @ \cup {msg}, !.q.retransmit = TRUE]
           r == device_initiate_handshake_inner(c, d, p, force, i)
<1>a. /\ c \in [n : NoiseState, q : PeerIO, out : SUBSET Message, e : Nat, inits : Nat]
      /\ NoiseInv(c.n) /\ Len(c.q.staged) <= PEER_QUEUE_SIZE
  BY Zenon DEF ContextOK
<1>b. p \in Peer
  BY <1>a, Zenon DEF NoiseState
<1>1. NoiseInv(n1) /\ p \in n1.peers /\ i \in Picks(n1, p)
  <2>1. /\ NoiseInv(n1) /\ n1.peers = c.n.peers /\ Picks(n1, p) = Picks(c.n, p)
    BY <1>a, <1>b, SentRecentlyInv, Zenon
  <2> QED BY <2>1, Zenon
<1> HIDE DEF n1
<1>2. NoiseInv(n2)
  <2>1. c.e + 1 \in Nat
    BY <1>a
  <2> QED BY <1>1, <2>1, CreateInitiationInv, Zenon
<1> HIDE DEF n2
<1>3. ContextOK(c1) /\ c1.q = c.q
  <2>1. n2 \in NoiseState
    BY <1>2, Zenon DEF NoiseInv
  <2>2. c.e + 1 \in Nat /\ c.inits + 1 \in Nat
    BY <1>a
  <2>3. /\ c1 \in [n : NoiseState, q : PeerIO, out : SUBSET Message, e : Nat, inits : Nat]
        /\ c1.n = n2 /\ c1.q = c.q
    BY <1>a, <2>1, <2>2, Zenon
  <2> QED BY <1>a, <1>2, <2>3, Zenon DEF ContextOK
<1>4. i # NoIndex => msg \in Message
  BY <1>a, <1>b, PickNone DEF Message, Initiation, Device
<1> HIDE DEF c1, msg
<1>5. i # NoIndex => ContextOK(c2)
  BY <1>3, <1>4, Zenon DEF ContextOK, PeerIO
<1> HIDE DEF c2
<1>6. r = IF c.n.hs[p].sent_recently /\ ~force THEN c
          ELSE IF i = NoIndex \/ ~c.q.endpoint THEN c1 ELSE c2
  BY Zenon DEF device_initiate_handshake_inner, n1, n2, c1, c2, msg
<1> QED BY <1>3, <1>5, <1>6, Zenon

\* timers_handshake_begin preserves ContextOK.
LEMMA BeginOK ==
  ASSUME NEW c, ContextOK(c), NEW d \in Device, NEW p \in c.n.peers, NEW i \in Picks(c.n, p)
  PROVE  ContextOK(timers_handshake_begin(c, d, p, i))
BY InitiateOK, Zenon DEF timers_handshake_begin

\* The keypair that device_send_to_peer uses is well typed and registered.
LEMMA SendKeypairType ==
  ASSUME NEW n, NoiseInv(n), NEW p \in Peer
  PROVE  /\ SendKeypair(n, p) \in Keypair
         /\ SendKeypair(n, p) # NoKeypair => SendKeypair(n, p).local_index \in Index
BY Zenon DEF SendKeypair, Exists, NoiseInv, NoiseState, PeerOK, Registered

\* Using up nonces preserves NoiseInv and does not change what can be picked.
LEMMA WithSendKeypairInv ==
  ASSUME NEW n, NoiseInv(n), NEW p \in Peer, NEW kp \in Keypair,
         SameKeypair(SendKeypair(n, p), kp)
  PROVE  /\ NoiseInv(WithSendKeypair(n, p, kp))
         /\ WithSendKeypair(n, p, kp).peers = n.peers
         /\ Picks(WithSendKeypair(n, p, kp), p) = Picks(n, p)
<1>a. n \in NoiseState /\ n.current[p] \in Keypair /\ n.next[p] \in Keypair /\ n.prev[p] \in Keypair
  BY Zenon DEF NoiseInv, NoiseState
<1>1. CASE n.current[p] # NoKeypair
  <2> DEFINE m == [n EXCEPT !.current[p] = kp, !.next[p] = n.next[p], !.prev[p] = n.prev[p]]
  <2>1. NoiseInv(m)
    BY <1>a, <1>1, KeypairFieldsInv, Zenon DEF SameKeypair, SendKeypair, Exists
  <2>2. WithSendKeypair(n, p, kp) = m /\ m.peers = n.peers /\ m.table = n.table /\ m.hs = n.hs
    BY <1>a, <1>1, Zenon DEF WithSendKeypair, Exists, NoiseState
  <2> QED BY <2>1, <2>2, Zenon DEF Picks
<1>2. CASE n.current[p] = NoKeypair
  <2> DEFINE m == [n EXCEPT !.current[p] = n.current[p], !.next[p] = kp, !.prev[p] = n.prev[p]]
  <2>1. NoiseInv(m)
    BY <1>a, <1>2, KeypairFieldsInv, Zenon DEF SameKeypair, SendKeypair, Exists
  <2>2. WithSendKeypair(n, p, kp) = m /\ m.peers = n.peers /\ m.table = n.table /\ m.hs = n.hs
    BY <1>a, <1>2, Zenon DEF WithSendKeypair, Exists, NoiseState
  <2> QED BY <2>1, <2>2, Zenon DEF Picks
<1> QED BY <1>1, <1>2, Zenon

\* device_send_to_peer preserves ContextOK on each of its four paths.
LEMMA SendOK ==
  ASSUME NEW c, ContextOK(c), NEW d \in Device, NEW p \in c.n.peers, NEW i \in Picks(c.n, p),
         NEW xs \in Seq(Packet \cup {Keepalive}), xs # <<>>
  PROVE  ContextOK(device_send_to_peer(c, d, p, xs, i))
<1> DEFINE kp == SendKeypair(c.n, p)
           kp1 == [kp EXCEPT !.send_nonce = @ + Len(xs)]
           msgs == IF c.q.endpoint THEN {TransportMsg(kp, p, k - 1, xs[k]) : k \in DOMAIN xs} ELSE {}
           n1 == WithSendKeypair(c.n, p, kp1)
           sent == [c EXCEPT !.n = n1, !.out = @ \cup msgs]
           staged == [c EXCEPT !.q = peer_stage_packet(@, xs[1])]
           r == device_send_to_peer(c, d, p, xs, i)
<1>a. /\ c \in [n : NoiseState, q : PeerIO, out : SUBSET Message, e : Nat, inits : Nat]
      /\ NoiseInv(c.n) /\ Len(c.q.staged) <= PEER_QUEUE_SIZE
  BY Zenon DEF ContextOK
<1>b. p \in Peer
  BY <1>a, Zenon DEF NoiseState
<1>c. kp \in Keypair /\ (kp # NoKeypair => kp.local_index \in Index)
  BY <1>a, <1>b, SendKeypairType, Zenon
<1>d. Len(xs) \in Nat /\ DOMAIN xs = 1..Len(xs) /\ \A k \in DOMAIN xs : xs[k] \in Packet \cup {Keepalive}
  OBVIOUS
<1>e. xs[1] \in Packet \cup {Keepalive}
  OBVIOUS
<1> HIDE DEF kp
<1>1. msgs \subseteq Message
  <2>1. ASSUME NEW k \in DOMAIN xs PROVE TransportMsg(kp, p, k - 1, xs[k]) \in Message
    BY <1>b, <1>c, <1>d DEF TransportMsg, Message, Transport, Keypair, Device
  <2> QED BY <2>1, Zenon
<1>2. kp # NoKeypair => kp1 \in Keypair /\ SameKeypair(kp, kp1)
  <2> SUFFICES ASSUME kp # NoKeypair PROVE kp1 \in Keypair /\ SameKeypair(kp, kp1)
    BY Zenon
  <2>1. kp1 \in Keypair /\ kp1.key = kp.key /\ kp1.local_index = kp.local_index
    BY <1>c, <1>d DEF Keypair
  <2>2. kp1 # NoKeypair
    BY <1>c, <2>1, NoiseAssumption, Zenon DEF NoKeypair
  <2> QED BY <2>1, <2>2, Zenon DEF SameKeypair
<1> HIDE DEF kp1, msgs
<1>3. kp # NoKeypair => NoiseInv(n1) /\ n1.peers = c.n.peers /\ Picks(n1, p) = Picks(c.n, p)
  BY <1>a, <1>b, <1>2, WithSendKeypairInv, Zenon DEF kp
<1> HIDE DEF n1
<1>4. kp # NoKeypair => ContextOK(sent) /\ sent.n = n1
  BY <1>a, <1>1, <1>3, Zenon DEF ContextOK, NoiseInv
<1>5. ContextOK(staged) /\ staged.n = c.n
  <2>1. /\ peer_stage_packet(c.q, xs[1]) \in PeerIO
        /\ Len(peer_stage_packet(c.q, xs[1]).staged) <= PEER_QUEUE_SIZE
    BY <1>a, <1>e, StageOK, Zenon
  <2> QED BY <1>a, <2>1, Zenon DEF ContextOK
<1> HIDE DEF sent, staged
<1>6. ContextOK(device_initiate_handshake_inner(staged, d, p, FALSE, i))
  BY <1>5, InitiateOK, Zenon
<1>7. ContextOK(timers_handshake_begin(staged, d, p, i))
  BY <1>5, BeginOK, Zenon
<1>8. kp # NoKeypair => ContextOK(timers_handshake_begin(sent, d, p, i))
  BY <1>3, <1>4, BeginOK, Zenon
<1>9. r = CASE ~Exists(kp)       -> device_initiate_handshake_inner(staged, d, p, FALSE, i)
            [] kp.age = "reject" -> timers_handshake_begin(staged, d, p, i)
            [] kp.age = "rekey"  -> timers_handshake_begin(sent, d, p, i)
            [] OTHER             -> sent
  BY Zenon DEF device_send_to_peer, kp, kp1, msgs, n1, sent, staged
<1>10. kp = NoKeypair => kp.age = "fresh"
  BY DEF NoKeypair
<1>11. CASE kp = NoKeypair
  BY <1>6, <1>9, <1>10, <1>11, Zenon DEF Exists
<1>12. CASE kp # NoKeypair
  BY <1>4, <1>7, <1>8, <1>9, <1>12, Zenon DEF Exists
<1> QED BY <1>11, <1>12, Zenon

\* The flush of the staged packets preserves ContextOK.
LEMMA FlushOK ==
  ASSUME NEW c, ContextOK(c), NEW d \in Device, NEW p \in c.n.peers, NEW i \in Picks(c.n, p)
  PROVE  ContextOK(FlushStaged(c, d, p, i))
<1> DEFINE c1 == [c EXCEPT !.q.staged = <<>>]
           xs == c.q.staged
           r == FlushStaged(c, d, p, i)
<1>1. c.q \in PeerIO /\ xs \in Seq(Packet) /\ Len(<<>>) = 0
  BY Zenon DEF ContextOK, PeerIO
<1>2. ContextOK(c1) /\ c1.n = c.n
  <2> DEFINE empty == <<>>
             q1 == [c.q EXCEPT !.staged = empty]
  <2>1. empty \in Seq(Packet) /\ Len(empty) <= PEER_QUEUE_SIZE
    BY <1>1, SessionAssumption
  <2>2. c1 = [c EXCEPT !.q = q1]
    BY Zenon
  <2> HIDE DEF empty
  <2>3. q1 \in PeerIO /\ q1.staged = empty
    BY <1>1, <2>1, Zenon DEF PeerIO
  <2> HIDE DEF c1, q1
  <2>4. /\ c1 \in [n : NoiseState, q : PeerIO, out : SUBSET Message, e : Nat, inits : Nat]
        /\ c1.n = c.n /\ c1.q = q1
    BY <2>2, <2>3, Zenon DEF ContextOK
  <2> QED BY <2>1, <2>3, <2>4, Zenon DEF ContextOK
<1>3. xs \in Seq(Packet \cup {Keepalive})
  BY <1>1
<1>4. r = CASE xs = <<>> -> c
            [] FlushSpins(c, p) -> timers_handshake_begin(c, d, p, i)
            [] OTHER -> device_send_to_peer(c1, d, p, xs, i)
  BY Zenon DEF FlushStaged
<1> HIDE DEF c1, xs
<1>5. ContextOK(timers_handshake_begin(c, d, p, i))
  BY BeginOK, Zenon
<1>6. xs # <<>> => ContextOK(device_send_to_peer(c1, d, p, xs, i))
  BY <1>2, <1>3, SendOK, Zenon
<1> QED BY <1>4, <1>5, <1>6, Zenon

\* A handler that commits a good context preserves SessionInv.
LEMMA CommitOK ==
  ASSUME SessionInv, NEW d \in Device, NEW p \in Peer, NEW c, ContextOK(c), Commit(c, d, p),
         spinning' \subseteq Device, resets' \in Nat, unsent' \subseteq Packet,
         delivered' \in [Packet -> Nat]
  PROVE  SessionInv'
<1>a. /\ c \in [n : NoiseState, q : PeerIO, out : SUBSET Message, e : Nat, inits : Nat]
      /\ NoiseInv(c.n) /\ Len(c.q.staged) <= PEER_QUEUE_SIZE
  BY Zenon DEF ContextOK
<1>b. /\ noise \in [Device -> NoiseState] /\ io \in [Device -> [Peer -> PeerIO]]
      /\ \A e \in Device, q \in Peer : Len(io[e][q].staged) <= PEER_QUEUE_SIZE
      /\ net \subseteq Message
      /\ \A e \in Device : NoiseInv(noise[e])
  BY Zenon DEF SessionInv, TypeOK, Message
<1>1. noise' \in [Device -> NoiseState] /\ \A e \in Device : NoiseInv(noise'[e])
  BY <1>a, <1>b, Zenon DEF Commit
<1>2. io' \in [Device -> [Peer -> PeerIO]]
  BY <1>a, <1>b, Zenon DEF Commit
<1>3. \A e \in Device, q \in Peer : Len(io'[e][q].staged) <= PEER_QUEUE_SIZE
  BY <1>a, <1>b, Zenon DEF Commit
<1>4. net' \subseteq Message /\ ephemerals' \in Nat /\ initiations' \in Nat
  BY <1>a, <1>b, Zenon DEF Commit
<1> QED BY <1>1, <1>2, <1>3, <1>4, Zenon DEF SessionInv, TypeOK, Message

\* A handler starts with a good context.
LEMMA ContextTypes ==
  ASSUME SessionInv, NEW d \in Device, NEW p \in Peer
  PROVE  /\ ContextOK(Context(d, p)) /\ NoiseInv(noise[d])
         /\ Context(d, p).n = noise[d] /\ Context(d, p).q = io[d][p]
         /\ io[d][p] \in PeerIO /\ Len(io[d][p].staged) <= PEER_QUEUE_SIZE
         /\ ephemerals \in Nat /\ initiations \in Nat /\ resets \in Nat
         /\ spinning \subseteq Device /\ unsent \subseteq Packet /\ delivered \in [Packet -> Nat]
         /\ net \subseteq Message
BY Zenon DEF SessionInv, TypeOK, ContextOK, Context, NoiseInv, Message

\* A single packet is a non-empty sequence of packets.
LEMMA SingletonSeq ==
  ASSUME NEW x \in Packet \cup {Keepalive}
  PROVE  <<x>> \in Seq(Packet \cup {Keepalive}) /\ <<x>> # <<>>
OBVIOUS

\* Sending one packet or keepalive preserves SessionInv.
LEMMA SendStep ==
  ASSUME SessionInv, NEW d \in Device, NEW p \in noise[d].peers,
         NEW x \in Packet \cup {Keepalive}, NEW i \in Picks(noise[d], p),
         Commit(device_send_to_peer(Context(d, p), d, p, <<x>>, i), d, p),
         spinning' \subseteq Device, resets' \in Nat, unsent' \subseteq Packet,
         delivered' \in [Packet -> Nat]
  PROVE  SessionInv'
<1> DEFINE xs == <<x>>
           c == Context(d, p)
<1>1. xs \in Seq(Packet \cup {Keepalive}) /\ xs # <<>>
  BY SingletonSeq, Zenon
<1>2. p \in Peer
  BY Zenon DEF SessionInv, TypeOK, NoiseState
<1>3. ContextOK(c) /\ c.n = noise[d]
  BY <1>2, ContextTypes, Zenon
<1>4. Commit(device_send_to_peer(c, d, p, xs, i), d, p)
  BY Zenon
<1> HIDE DEF xs, c
<1>5. ContextOK(device_send_to_peer(c, d, p, xs, i))
  BY <1>1, <1>3, SendOK, Zenon
<1> QED BY <1>2, <1>4, <1>5, CommitOK, Zenon

\* Committing a handshake initiation preserves SessionInv.
LEMMA InitiateStep ==
  ASSUME SessionInv, NEW d \in Device, NEW p \in noise[d].peers,
         NEW c, ContextOK(c), c.n.peers = noise[d].peers, NEW i \in Picks(c.n, p),
         NEW force \in BOOLEAN,
         Commit(device_initiate_handshake_inner(c, d, p, force, i), d, p),
         spinning' \subseteq Device, resets' \in Nat, unsent' \subseteq Packet,
         delivered' \in [Packet -> Nat]
  PROVE  SessionInv'
<1>1. p \in Peer
  BY Zenon DEF SessionInv, TypeOK, NoiseState
<1>2. ContextOK(device_initiate_handshake_inner(c, d, p, force, i))
  BY InitiateOK, Zenon
<1> QED BY <1>1, <1>2, CommitOK, Zenon

\* cb_retransmit_handshake preserves SessionInv.
LEMMA RetransmitStep ==
  ASSUME SessionInv, NEW d \in Device, NEW p \in noise[d].peers, CbRetransmitHandshake(d, p)
  PROVE  SessionInv'
<1> DEFINE c == Context(d, p)
           c0 == [c EXCEPT !.n.hs[p].sent_recently = FALSE]
           c1 == [c0 EXCEPT !.q.attempts = @ + 1]
           c2 == [c0 EXCEPT !.q = timers_zero_key_material(
                                    [@ EXCEPT !.retransmit = FALSE, !.attempts = 0])]
           n0 == [c.n EXCEPT !.hs[p].sent_recently = FALSE]
<1>0. p \in Peer
  BY Zenon DEF SessionInv, TypeOK, NoiseState
<1>1. /\ ContextOK(c) /\ c.n = noise[d] /\ NoiseInv(c.n)
      /\ spinning \subseteq Device /\ resets \in Nat /\ unsent \subseteq Packet /\ delivered \in [Packet -> Nat]
  BY <1>0, ContextTypes, Zenon
<1> HIDE DEF c
<1>2. NoiseInv(n0) /\ n0.peers = c.n.peers /\ Picks(n0, p) = Picks(c.n, p)
  BY <1>0, <1>1, SentRecentlyInv, Zenon
<1>3. c0 = [c EXCEPT !.n = n0]
  BY Zenon
<1> HIDE DEF n0, c0
<1>4. ContextOK(c0) /\ c0.n = n0
  <2>1. n0 \in NoiseState
    BY <1>2, Zenon DEF NoiseInv
  <2> QED BY <1>1, <1>2, <1>3, <2>1, Zenon DEF ContextOK
<1>5. c0.q = io[d][p]
  BY <1>1, <1>3, Zenon DEF c, Context, ContextOK
<1>6. ContextOK(c2)
  BY <1>4, ZeroAttempts, Zenon DEF ContextOK, PeerIO, timers_zero_key_material
<1> HIDE DEF c2
<1>7. CASE io[d][p].attempts >= MAX_TIMER_HANDSHAKES
  <2>1. Commit(c2, d, p)
    BY <1>7, Zenon DEF CbRetransmitHandshake, c2, c0, c
  <2> QED BY <1>0, <1>1, <1>6, <2>1, CommitOK, Zenon DEF CbRetransmitHandshake
<1>8. CASE ~(io[d][p].attempts >= MAX_TIMER_HANDSHAKES)
  <2>0. c0.q.attempts + 1 \in Attempts
    BY <1>4, <1>5, <1>8, SessionAssumption DEF ContextOK, PeerIO, Attempts
  <2>1. ContextOK(c1) /\ c1.n = n0
    BY <1>4, <2>0, Zenon DEF ContextOK, PeerIO
  <2> HIDE DEF c1
  <2>2. PICK i \in Picks(noise[d], p) : Commit(device_initiate_handshake_inner(c1, d, p, TRUE, i), d, p)
    BY <1>8, Zenon DEF CbRetransmitHandshake, c1, c0, c
  <2>3. ContextOK(device_initiate_handshake_inner(c1, d, p, TRUE, i))
    BY <1>1, <1>2, <2>1, InitiateOK, Zenon
  <2> QED BY <1>0, <1>1, <2>2, <2>3, CommitOK, Zenon DEF CbRetransmitHandshake
<1> QED BY <1>7, <1>8, Zenon

\* cb_new_handshake preserves SessionInv.
LEMMA NewHandshakeStep ==
  ASSUME SessionInv, NEW d \in Device, NEW p \in noise[d].peers, CbNewHandshake(d, p)
  PROVE  SessionInv'
<1> DEFINE c == Context(d, p)
           c1 == [c EXCEPT !.q.new_handshake = FALSE]
<1>0. p \in Peer
  BY Zenon DEF SessionInv, TypeOK, NoiseState
<1>1. /\ ContextOK(c) /\ c.n = noise[d]
      /\ spinning \subseteq Device /\ resets \in Nat /\ unsent \subseteq Packet /\ delivered \in [Packet -> Nat]
  BY <1>0, ContextTypes, Zenon
<1>2. PICK i \in Picks(noise[d], p) : Commit(device_initiate_handshake_inner(c1, d, p, FALSE, i), d, p)
  BY Zenon DEF CbNewHandshake
<1> HIDE DEF c
<1>3. ContextOK(c1) /\ c1.n = noise[d]
  BY <1>1, Zenon DEF ContextOK, PeerIO
<1> HIDE DEF c1
<1> QED BY <1>1, <1>2, <1>3, InitiateStep, Zenon DEF CbNewHandshake

\* A step that changes one noise state and one peer, and sends nothing, preserves SessionInv.
LEMMA LocalStep ==
  ASSUME SessionInv, NEW d \in Device, NEW p \in Peer, NEW n, NoiseInv(n), NEW q \in PeerIO,
         Len(q.staged) <= PEER_QUEUE_SIZE,
         noise' = [noise EXCEPT ![d] = n], io' = [io EXCEPT ![d][p] = q],
         UNCHANGED <<spinning, net, ephemerals, initiations, unsent>>, resets' \in Nat,
         delivered' \in [Packet -> Nat]
  PROVE  SessionInv'
<1>1. n \in NoiseState
  BY Zenon DEF NoiseInv
<1>2. noise' \in [Device -> NoiseState] /\ \A e \in Device : NoiseInv(noise'[e])
  BY <1>1, Zenon DEF SessionInv, TypeOK
<1>3. io' \in [Device -> [Peer -> PeerIO]]
  BY Zenon DEF SessionInv, TypeOK
<1>4. \A e \in Device, r \in Peer : Len(io'[e][r].staged) <= PEER_QUEUE_SIZE
  BY Zenon DEF SessionInv, TypeOK
<1> QED BY <1>2, <1>3, <1>4, Zenon DEF SessionInv, TypeOK

\* noise_begin_session does not change the set of peers.
LEMMA BeginSessionPeers ==
  ASSUME NEW n, NoiseInv(n), NEW p \in Peer
  PROVE  noise_begin_session(n, p).peers = n.peers
<1>1. n \in NoiseState
  BY Zenon DEF NoiseInv
<1>2. ASSUME NEW h, NEW t, NEW a, NEW b, NEW c
      PROVE  /\ [[n EXCEPT !.hs[p] = h] EXCEPT !.table = t, !.prev[p] = a, !.current[p] = b, !.next[p] = c].peers = n.peers
             /\ [[n EXCEPT !.hs[p] = h] EXCEPT !.table = t, !.next[p] = a, !.prev[p] = b].peers = n.peers
  BY <1>1, Zenon DEF NoiseState
<1> QED BY <1>2 DEF noise_begin_session

\* Learning the endpoint and timers_handshake_complete leave the queue alone.
LEMMA HandshakeCompleteType ==
  ASSUME NEW q \in PeerIO, Len(q.staged) <= PEER_QUEUE_SIZE
  PROVE  LET q1 == [q EXCEPT !.endpoint = TRUE]
         IN  /\ q1 \in PeerIO /\ Len(q1.staged) <= PEER_QUEUE_SIZE
             /\ timers_handshake_complete(q1) \in PeerIO
             /\ Len(timers_handshake_complete(q1).staged) <= PEER_QUEUE_SIZE
             /\ timers_handshake_complete(q1).staged = q.staged
BY ZeroAttempts, Zenon DEF PeerIO, timers_handshake_complete

\* handle_initiation preserves SessionInv.
LEMMA InitiationStep ==
  ASSUME SessionInv, NEW d \in Device, NEW m \in net, HandleInitiation(d, m)
  PROVE  SessionInv'
<1> DEFINE p  == m.from
           n1 == noise_consume_initiation(noise[d], p, m.sender, m.eph)
           q1 == [io[d][p] EXCEPT !.endpoint = TRUE]
           q2 == timers_handshake_complete(q1)
           e  == ephemerals + 1
<1>0. p \in Peer /\ m.sender \in Index /\ m.eph \in Nat /\ p \in noise[d].peers
  BY DEF SessionInv, TypeOK, HandleInitiation, Message, Initiation, Response, Transport, Device
<1>1. /\ NoiseInv(noise[d]) /\ io[d][p] \in PeerIO /\ Len(io[d][p].staged) <= PEER_QUEUE_SIZE
      /\ ephemerals \in Nat /\ initiations \in Nat
      /\ spinning \subseteq Device /\ resets \in Nat /\ unsent \subseteq Packet /\ delivered \in [Packet -> Nat]
  BY <1>0, ContextTypes, Zenon
<1>2. NoiseInv(n1) /\ p \in n1.peers
  BY <1>0, <1>1, ConsumeInitiationInv
<1>3. /\ q1 \in PeerIO /\ Len(q1.staged) <= PEER_QUEUE_SIZE
      /\ q2 \in PeerIO /\ Len(q2.staged) <= PEER_QUEUE_SIZE
  BY <1>1, HandshakeCompleteType, Zenon
<1>4. e \in Nat
  BY <1>1
<1> HIDE DEF p, n1, q1, q2, e
<1>5. PICK j \in Picks(n1, p) :
        LET n2  == noise_create_response(n1, p, j, e)
            msg == [type |-> "response", to |-> p, from |-> d, sender |-> j,
                    receiver |-> m.sender, init_eph |-> m.eph, eph |-> e]
            c1  == [n |-> n2, q |-> q1, out |-> {}, e |-> ephemerals, inits |-> initiations]
            n3  == noise_begin_session(n2, p)
            c2  == [n |-> n3, q |-> q2, out |-> {msg}, e |-> e, inits |-> initiations]
        IN  IF j = NoIndex
            THEN Commit(c1, d, p) /\ UNCHANGED spinning
            ELSE \E i \in Picks(n3, p) :
                   /\ Commit(FlushStaged(c2, d, p, i), d, p)
                   /\ spinning' = IF FlushSpins(c2, p) THEN spinning \cup {d} ELSE spinning
  BY Zenon DEF HandleInitiation, p, n1, q1, q2, e
<1> DEFINE n2  == noise_create_response(n1, p, j, e)
           msg == [type |-> "response", to |-> p, from |-> d, sender |-> j,
                   receiver |-> m.sender, init_eph |-> m.eph, eph |-> e]
           c1  == [n |-> n2, q |-> q1, out |-> {}, e |-> ephemerals, inits |-> initiations]
           n3  == noise_begin_session(n2, p)
           c2  == [n |-> n3, q |-> q2, out |-> {msg}, e |-> e, inits |-> initiations]
<1>6. NoiseInv(n2) /\ p \in n2.peers /\ n2.hs[p].local_index = j
  BY <1>2, <1>4, CreateResponseInv
<1>7. resets' \in Nat /\ unsent' \subseteq Packet /\ delivered' \in [Packet -> Nat]
  BY <1>1, Zenon DEF HandleInitiation
<1>8. j \in Index \cup {NoIndex}
  BY <1>0, <1>2, PickNone, Zenon
<1> HIDE DEF n2
<1>9. CASE j = NoIndex
  <2>1. ContextOK(c1)
    <3>1. n2 \in NoiseState
      BY <1>6, Zenon DEF NoiseInv
    <3> QED BY <1>1, <1>3, <1>6, <3>1, Zenon DEF ContextOK
  <2>2. Commit(c1, d, p) /\ spinning' \subseteq Device
    BY <1>1, <1>5, <1>9, Zenon DEF n2
  <2> HIDE DEF c1
  <2> QED BY <1>0, <1>7, <2>1, <2>2, CommitOK, Zenon
<1>10. CASE j # NoIndex
  <2>1. NoiseInv(n3) /\ p \in n3.peers
    BY <1>0, <1>6, <1>8, <1>10, BeginSessionInv, BeginSessionPeers, Zenon
  <2>2. PICK i \in Picks(n3, p) :
          /\ Commit(FlushStaged(c2, d, p, i), d, p)
          /\ spinning' = IF FlushSpins(c2, p) THEN spinning \cup {d} ELSE spinning
    BY <1>5, <1>10, Zenon DEF n2
  <2>3. spinning' \subseteq Device
    BY <1>1, <2>2, Zenon
  <2>4. msg \in Message
    BY <1>0, <1>4, <1>8, <1>10, Zenon DEF Message, Response, Device
  <2> HIDE DEF n3, msg
  <2>5. ContextOK(c2) /\ c2.n = n3
    <3>1. n3 \in NoiseState
      BY <2>1, Zenon DEF NoiseInv
    <3> QED BY <1>1, <1>3, <1>4, <2>1, <2>4, <3>1, Zenon DEF ContextOK
  <2> HIDE DEF c2
  <2>6. ContextOK(FlushStaged(c2, d, p, i))
    BY <2>1, <2>2, <2>5, FlushOK, Zenon
  <2> QED BY <1>0, <1>7, <2>2, <2>3, <2>6, CommitOK, Zenon
<1> QED BY <1>9, <1>10, Zenon

\* handle_response preserves SessionInv.
LEMMA ResponseStep ==
  ASSUME SessionInv, NEW d \in Device, NEW m \in net, HandleResponse(d, m)
  PROVE  SessionInv'
<1> DEFINE entry == noise[d].table[m.receiver]
           p  == entry.peer
           n1 == noise_consume_response(noise[d], p, m.sender, m.eph)
           n2 == noise_begin_session(n1, p)
           q1 == timers_handshake_complete([io[d][p] EXCEPT !.endpoint = TRUE])
           c  == [n |-> n2, q |-> q1, out |-> {}, e |-> ephemerals, inits |-> initiations]
           xs == <<Keepalive>>
<1>0. m.sender \in Index /\ m.eph \in Nat /\ m.receiver \in Index /\ entry.type = "handshake"
  BY Zenon DEF SessionInv, TypeOK, HandleResponse, Message, Initiation, Response, Transport, Device
<1>1. p \in Peer /\ p \in noise[d].peers /\ noise[d].hs[p].local_index = m.receiver
  BY <1>0, ZenonT(40) DEF SessionInv, NoiseInv, EntryOK, NoiseState
<1>2. /\ NoiseInv(noise[d]) /\ io[d][p] \in PeerIO /\ Len(io[d][p].staged) <= PEER_QUEUE_SIZE
      /\ ephemerals \in Nat /\ initiations \in Nat
      /\ spinning \subseteq Device /\ resets \in Nat /\ unsent \subseteq Packet /\ delivered \in [Packet -> Nat]
  BY <1>1, ContextTypes, Zenon
<1>3. PICK i \in Picks(n2, p) :
        Commit(IF q1.staged = <<>> THEN device_send_to_peer(c, d, p, xs, i)
               ELSE FlushStaged(c, d, p, i), d, p)
  BY Zenon DEF HandleResponse
<1>4. /\ spinning' \subseteq Device /\ resets' \in Nat
      /\ unsent' \subseteq Packet /\ delivered' \in [Packet -> Nat]
  BY <1>2, Zenon DEF HandleResponse
<1>5. q1 \in PeerIO /\ Len(q1.staged) <= PEER_QUEUE_SIZE
  BY <1>2, HandshakeCompleteType, Zenon
<1>6. xs \in Seq(Packet \cup {Keepalive}) /\ xs # <<>>
  BY SingletonSeq, Zenon
<1> HIDE DEF entry, p, q1, xs
<1>7. NoiseInv(n1) /\ p \in n1.peers /\ n1.hs[p].local_index \in Index
  <2>1. m.sender \in Index \cup {NoIndex} /\ m.eph \in Nat /\ m.receiver \in Index
    BY <1>0, Zenon
  <2>2. NoiseInv(n1) /\ n1.peers = noise[d].peers /\ n1.hs[p].local_index = noise[d].hs[p].local_index
    BY <1>1, <1>2, <2>1, ConsumeResponseInv, ZenonT(40)
  <2> QED BY <1>1, <2>1, <2>2, Zenon
<1> HIDE DEF n1
<1>8. NoiseInv(n2) /\ p \in n2.peers
  BY <1>1, <1>7, BeginSessionInv, BeginSessionPeers, Zenon
<1> HIDE DEF n2
<1>9. ContextOK(c) /\ c.n = n2
  <2>1. n2 \in NoiseState
    BY <1>8, Zenon DEF NoiseInv
  <2> QED BY <1>2, <1>5, <1>8, <2>1, Zenon DEF ContextOK
<1> HIDE DEF c
<1>10. ContextOK(device_send_to_peer(c, d, p, xs, i))
  BY <1>6, <1>8, <1>9, SendOK, Zenon
<1>11. ContextOK(FlushStaged(c, d, p, i))
  BY <1>8, <1>9, FlushOK, Zenon
<1> QED BY <1>1, <1>3, <1>4, <1>10, <1>11, CommitOK, Zenon

\* Recording a counter changes neither the key nor the index of a keypair.
LEMMA AcceptedSame ==
  ASSUME NEW kp \in Keypair, kp # NoKeypair => kp.local_index \in Index, NEW k, NEW counter \in Nat
  PROVE  Accepted(kp, k, counter) \in Keypair /\ SameKeypair(kp, Accepted(kp, k, counter))
<1>1. CASE Exists(kp) /\ kp.key = k
  <2> DEFINE r == [kp EXCEPT !.replay = @ \cup {counter}]
  <2>1. Accepted(kp, k, counter) = r
    BY <1>1, Zenon DEF Accepted
  <2>2. r \in Keypair /\ r.key = kp.key /\ r.local_index = kp.local_index
    BY Zenon DEF Keypair
  <2>3. r # NoKeypair
    BY <1>1, <2>2, NoiseAssumption, Zenon DEF NoKeypair, Exists
  <2> HIDE DEF r
  <2> QED BY <1>1, <2>1, <2>2, <2>3, Zenon DEF SameKeypair, Exists
<1>2. CASE ~(Exists(kp) /\ kp.key = k)
  BY <1>2, Zenon DEF Accepted, SameKeypair
<1> QED BY <1>1, <1>2, Zenon

\* replay_commit preserves NoiseInv.
LEMMA ReplayCommitInv ==
  ASSUME NEW n, NoiseInv(n), NEW p \in Peer, NEW k, NEW counter \in Nat
  PROVE  NoiseInv(replay_commit(n, p, k, counter))
<1> DEFINE cur == Accepted(n.current[p], k, counter)
           nxt == Accepted(n.next[p], k, counter)
           prv == Accepted(n.prev[p], k, counter)
<1>1. /\ n.current[p] \in Keypair /\ n.next[p] \in Keypair /\ n.prev[p] \in Keypair
      /\ n.current[p] # NoKeypair => n.current[p].local_index \in Index
      /\ n.next[p] # NoKeypair => n.next[p].local_index \in Index
      /\ n.prev[p] # NoKeypair => n.prev[p].local_index \in Index
  BY Zenon DEF NoiseInv, NoiseState, PeerOK, Registered
<1>2. /\ cur \in Keypair /\ SameKeypair(n.current[p], cur)
      /\ nxt \in Keypair /\ SameKeypair(n.next[p], nxt)
      /\ prv \in Keypair /\ SameKeypair(n.prev[p], prv)
  BY <1>1, AcceptedSame, Zenon
<1>3. replay_commit(n, p, k, counter) = [n EXCEPT !.current[p] = cur, !.next[p] = nxt, !.prev[p] = prv]
  BY Zenon DEF replay_commit
<1> HIDE DEF cur, nxt, prv
<1>4. NoiseInv([n EXCEPT !.current[p] = cur, !.next[p] = nxt, !.prev[p] = prv])
  BY <1>2, KeypairFieldsInv, Zenon
<1> QED BY <1>3, <1>4, Zenon

\* handle_transport preserves SessionInv.
LEMMA TransportStep ==
  ASSUME SessionInv, NEW d \in Device, NEW m \in net, HandleTransport(d, m)
  PROVE  SessionInv'
<1> DEFINE entry == noise[d].table[m.receiver]
           p  == entry.peer
           k  == KeypairOf(noise[d], entry).key
           n1 == replay_commit(noise[d], p, k, m.counter)
           n2 == IF Exists(n1.next[p]) /\ n1.next[p].key = k THEN ConfirmNext(n1, p) ELSE n1
           q  == [io[d][p] EXCEPT !.endpoint = TRUE]
<1>0. /\ m.counter \in Nat /\ m.packet \in Packet \cup {Keepalive}
      /\ m.receiver \in Index /\ entry.type = "keypair"
  BY Zenon DEF SessionInv, TypeOK, HandleTransport, Message, Initiation, Response, Transport
<1>1. p \in Peer
  BY <1>0, Zenon DEF SessionInv, NoiseInv, EntryOK, NoiseState
<1>2. /\ NoiseInv(noise[d]) /\ io[d][p] \in PeerIO /\ Len(io[d][p].staged) <= PEER_QUEUE_SIZE
      /\ resets \in Nat /\ delivered \in [Packet -> Nat]
  BY <1>1, ContextTypes, Zenon
<1>3. /\ noise' = [noise EXCEPT ![d] = n2]
      /\ io' = [io EXCEPT ![d][p] = q]
      /\ delivered' = IF m.packet = Keepalive THEN delivered
                      ELSE [delivered EXCEPT ![m.packet] = @ + 1]
      /\ UNCHANGED <<spinning, net, ephemerals, initiations, resets, unsent>>
  BY Zenon DEF HandleTransport
<1>4. q \in PeerIO /\ Len(q.staged) <= PEER_QUEUE_SIZE
  BY <1>2, HandshakeCompleteType, Zenon
<1> HIDE DEF entry, p, k, q
<1>5. NoiseInv(n1)
  BY <1>0, <1>1, <1>2, ReplayCommitInv, Zenon
<1> HIDE DEF n1
<1>6. NoiseInv(n2)
  BY <1>1, <1>5, ConfirmInv, Zenon DEF Exists
<1> HIDE DEF n2
<1>7. delivered' \in [Packet -> Nat]
  BY <1>0, <1>2, <1>3
<1> QED BY <1>1, <1>2, <1>3, <1>4, <1>6, <1>7, LocalStep, Zenon

\* cb_zero_key_material, the passing of time and device_remove_peer preserve
\* SessionInv.
LEMMA OtherPeerSteps ==
  ASSUME SessionInv, NEW d \in Device, NEW p \in noise[d].peers,
         \/ CbZeroKeyMaterial(d, p)
         \/ RateLimitLapses(d, p)
         \/ \E age \in Ages : KeypairAges(d, p, age)
         \/ device_remove_peer(d, p)
  PROVE  SessionInv'
<1> DEFINE q == io[d][p]
           n == noise[d]
<1>0. p \in Peer
  BY Zenon DEF SessionInv, TypeOK, NoiseState
<1>1. /\ NoiseInv(n) /\ q \in PeerIO /\ Len(q.staged) <= PEER_QUEUE_SIZE
      /\ resets \in Nat /\ delivered \in [Packet -> Nat]
  BY <1>0, ContextTypes, Zenon
<1>2. io = [io EXCEPT ![d][p] = q]
  BY <1>0, Zenon DEF SessionInv, TypeOK
<1>3. CASE CbZeroKeyMaterial(d, p)
  <2> DEFINE q1 == [q EXCEPT !.zero = "off"]
  <2>1. q1 \in PeerIO /\ Len(q1.staged) <= PEER_QUEUE_SIZE
    BY <1>1, SMTT(20), Zenon DEF PeerIO
  <2>2. NoiseInv(cb_zero_key_material_noise(n, p))
    BY <1>0, <1>1, ZeroKeyMaterialInv, Zenon
  <2>3. noise' = [noise EXCEPT ![d] = cb_zero_key_material_noise(n, p)] /\ io' = [io EXCEPT ![d][p] = q1]
    BY <1>3, Zenon DEF CbZeroKeyMaterial
  <2>4. /\ UNCHANGED <<spinning, net, ephemerals, initiations, unsent>>
        /\ resets' \in Nat /\ delivered' \in [Packet -> Nat]
    BY <1>1, <1>3, Zenon DEF CbZeroKeyMaterial
  <2> HIDE DEF q1, n, q
  <2> QED BY <1>0, <2>1, <2>2, <2>3, <2>4, LocalStep, Zenon
<1>4. CASE RateLimitLapses(d, p)
  <2> DEFINE n1 == [n EXCEPT !.hs[p].sent_recently = FALSE]
  <2>1. NoiseInv(n1)
    BY <1>0, <1>1, SentRecentlyInv, Zenon
  <2>2. noise' = [noise EXCEPT ![d] = n1] /\ io' = [io EXCEPT ![d][p] = q]
    BY <1>2, <1>4, Zenon DEF RateLimitLapses
  <2>3. /\ UNCHANGED <<spinning, net, ephemerals, initiations, unsent>>
        /\ resets' \in Nat /\ delivered' \in [Packet -> Nat]
    BY <1>1, <1>4, Zenon DEF RateLimitLapses
  <2> HIDE DEF n1, q
  <2> QED BY <1>0, <1>1, <2>1, <2>2, <2>3, LocalStep, Zenon
<1>5. ASSUME NEW age \in Ages, KeypairAges(d, p, age) PROVE SessionInv'
  <2> DEFINE kp == SendKeypair(n, p)
             kp1 == [kp EXCEPT !.age = age]
  <2>1. kp \in Keypair /\ kp # NoKeypair /\ kp.local_index \in Index
    BY <1>0, <1>1, <1>5, SendKeypairType, Zenon DEF KeypairAges, Exists
  <2>2. noise' = [noise EXCEPT ![d] = WithSendKeypair(n, p, kp1)] /\ io' = [io EXCEPT ![d][p] = q]
    BY <1>2, <1>5, Zenon DEF KeypairAges
  <2> HIDE DEF kp
  <2>3. kp1 \in Keypair /\ kp1.key = kp.key /\ kp1.local_index = kp.local_index
    BY <2>1, SessionAssumption, Zenon DEF Keypair
  <2>4. kp1 # NoKeypair
    BY <2>1, <2>3, NoiseAssumption, Zenon DEF NoKeypair
  <2> HIDE DEF kp1
  <2>5. SameKeypair(kp, kp1)
    BY <2>1, <2>3, <2>4, Zenon DEF SameKeypair
  <2>6. NoiseInv(WithSendKeypair(n, p, kp1))
    BY <1>0, <1>1, <2>3, <2>5, WithSendKeypairInv, Zenon DEF kp
  <2> HIDE DEF q, n
  <2> QED BY <1>0, <1>1, <1>5, <2>2, <2>6, LocalStep, ZenonT(40) DEF KeypairAges
<1>6. CASE device_remove_peer(d, p)
  <2>1. device_add_peer_io(d) \in PeerIO /\ Len(device_add_peer_io(d).staged) <= PEER_QUEUE_SIZE
    BY SessionAssumption, ZeroAttempts DEF device_add_peer_io, PeerIO
  <2>2. NoiseInv(peer_teardown_noise(n, p))
    BY <1>0, <1>1, TeardownInv, Zenon
  <2>3. /\ noise' = [noise EXCEPT ![d] = peer_teardown_noise(n, p)]
        /\ io' = [io EXCEPT ![d][p] = device_add_peer_io(d)]
        /\ resets' \in Nat
    BY <1>1, <1>6 DEF device_remove_peer
  <2> HIDE DEF n, q
  <2> QED BY <1>0, <1>1, <1>6, <2>1, <2>2, <2>3, LocalStep, Zenon DEF device_remove_peer
<1> QED BY <1>3, <1>4, <1>5, <1>6, Zenon

\* device_add_peer preserves SessionInv.
LEMMA AddPeerStep ==
  ASSUME SessionInv, NEW d \in Device, NEW p \in Peer, device_add_peer(d, p)
  PROVE  SessionInv'
<1> DEFINE n1 == [noise[d] EXCEPT !.peers = @ \cup {p}]
<1>1. device_add_peer_io(d) \in PeerIO /\ Len(device_add_peer_io(d).staged) <= PEER_QUEUE_SIZE
  BY SessionAssumption, ZeroAttempts DEF device_add_peer_io, PeerIO
<1>2. NoiseInv(noise[d]) /\ resets \in Nat /\ delivered \in [Packet -> Nat]
  BY ContextTypes, Zenon
<1>3. NoiseInv(n1)
  BY <1>2, AddPeerInv, Zenon
<1>4. noise' = [noise EXCEPT ![d] = n1] /\ io' = [io EXCEPT ![d][p] = device_add_peer_io(d)]
  BY Zenon DEF device_add_peer
<1> HIDE DEF n1
<1> QED BY <1>1, <1>2, <1>3, <1>4, LocalStep, Zenon DEF device_add_peer

\* A restart preserves SessionInv.
LEMMA RestartStep ==
  ASSUME SessionInv, NEW d \in Device, Restart(d)
  PROVE  SessionInv'
<1> DEFINE q == device_add_peer_io(d)
           n == noise_init(Peer \ {d})
<1>1. q \in PeerIO /\ Len(q.staged) <= PEER_QUEUE_SIZE
  BY SessionAssumption, ZeroAttempts DEF device_add_peer_io, PeerIO
<1>2. NoiseInv(n) /\ n \in NoiseState
  BY InitInv, Zenon DEF NoiseInv
<1>3. /\ noise' = [noise EXCEPT ![d] = n]
      /\ io' = [io EXCEPT ![d] = [p \in Peer |-> q]]
      /\ spinning' = spinning \ {d} /\ resets' = resets + 1
      /\ UNCHANGED <<net, ephemerals, initiations, unsent, delivered>>
  BY Zenon DEF Restart
<1> HIDE DEF q, n
<1>4. noise' \in [Device -> NoiseState] /\ \A e \in Device : NoiseInv(noise'[e])
  BY <1>2, <1>3, Zenon DEF SessionInv, TypeOK
<1>5. io' \in [Device -> [Peer -> PeerIO]]
  BY <1>1, <1>3, Zenon DEF SessionInv, TypeOK
<1>6. \A e \in Device, r \in Peer : Len(io'[e][r].staged) <= PEER_QUEUE_SIZE
  BY <1>1, <1>3, Zenon DEF SessionInv, TypeOK
<1> QED BY <1>3, <1>4, <1>5, <1>6 DEF SessionInv, TypeOK

\* SessionInv holds in every reachable state: one case per handler of device.c and timers.c.
THEOREM SessionInvariant == Spec => []SessionInv
<1>1. Init => SessionInv
  <2> SUFFICES ASSUME Init PROVE SessionInv
    BY Zenon
  <2>1. ASSUME NEW d \in Device
        PROVE  device_add_peer_io(d) \in PeerIO /\ Len(device_add_peer_io(d).staged) <= PEER_QUEUE_SIZE
    BY SessionAssumption, ZeroAttempts DEF device_add_peer_io, PeerIO
  <2>2. ASSUME NEW d \in Device PROVE NoiseInv(noise[d]) /\ noise[d] \in NoiseState
    <3>1. noise[d] = noise_init(Peer \ {d}) /\ Peer \ {d} \in SUBSET Peer
      BY Zenon DEF Init
    <3>2. NoiseInv(noise[d])
      BY <3>1, InitInv, Zenon
    <3> QED BY <3>2, Zenon DEF NoiseInv
  <2>3. noise \in [Device -> NoiseState]
    BY <2>2, Zenon DEF Init
  <2>4. io \in [Device -> [Peer -> PeerIO]]
    BY <2>1, Zenon DEF Init
  <2>5. \A d \in Device, p \in Peer : Len(io[d][p].staged) <= PEER_QUEUE_SIZE
    BY <2>1, Zenon DEF Init
  <2> QED BY <2>2, <2>3, <2>4, <2>5, Zenon DEF Init, SessionInv, TypeOK
<1>2. SessionInv /\ [Next]_vars => SessionInv'
  <2> SUFFICES ASSUME SessionInv, [Next]_vars PROVE SessionInv'
    BY Zenon
  <2>1. CASE UNCHANGED vars
    BY <2>1, Zenon DEF vars, SessionInv, TypeOK
  <2>2. ASSUME NEW d \in Device, NEW p \in noise[d].peers, PeerStep(d, p) PROVE SessionInv'
    <3>1. /\ p \in Peer /\ spinning \subseteq Device /\ resets \in Nat
          /\ unsent \subseteq Packet /\ delivered \in [Packet -> Nat]
      BY <2>2, Zenon DEF SessionInv, TypeOK, NoiseState
    <3>2. ASSUME NEW x \in Packet, SendPacket(d, p, x) PROVE SessionInv'
      <4>1. PICK i \in Picks(noise[d], p) :
              Commit(device_send_to_peer(Context(d, p), d, p, <<x>>, i), d, p)
        BY <3>2, Zenon DEF SendPacket
      <4>2. /\ spinning' \subseteq Device /\ resets' \in Nat
            /\ unsent' \subseteq Packet /\ delivered' \in [Packet -> Nat]
        BY <3>1, <3>2, Zenon DEF SendPacket
      <4> QED BY <4>1, <4>2, SendStep, Zenon
    <3>3. CASE SendKeepalive(d, p)
      <4>1. PICK i \in Picks(noise[d], p) :
              Commit(device_send_to_peer(Context(d, p), d, p, <<Keepalive>>, i), d, p)
        BY <3>3, Zenon DEF SendKeepalive
      <4>2. /\ spinning' \subseteq Device /\ resets' \in Nat
            /\ unsent' \subseteq Packet /\ delivered' \in [Packet -> Nat]
        BY <3>1, <3>3, Zenon DEF SendKeepalive
      <4> QED BY <4>1, <4>2, SendStep, Zenon
    <3>4. CASE CbRetransmitHandshake(d, p)
      BY <3>4, RetransmitStep, Zenon
    <3>5. CASE CbNewHandshake(d, p)
      BY <3>5, NewHandshakeStep, Zenon
    <3> QED BY <2>2, <3>2, <3>3, <3>4, <3>5, OtherPeerSteps, Zenon DEF PeerStep
  <2>3. ASSUME NEW d \in Device, NEW m \in net,
               HandleInitiation(d, m) \/ HandleResponse(d, m) \/ HandleTransport(d, m)
        PROVE  SessionInv'
    BY <2>3, InitiationStep, ResponseStep, TransportStep, Zenon
  <2>4. ASSUME NEW d \in Device, NEW p \in Peer, device_add_peer(d, p) PROVE SessionInv'
    BY <2>4, AddPeerStep, Zenon
  <2>5. ASSUME NEW d \in Device, Restart(d) PROVE SessionInv'
    BY <2>5, RestartStep, Zenon
  <2> QED BY <2>1, <2>2, <2>3, <2>4, <2>5, Zenon DEF Next, DeviceStep
<1> QED BY <1>1, <1>2, PTL DEF Spec

\* The state of every device stays well typed and no queue exceeds PEER_QUEUE_SIZE.
THEOREM TypeCorrect == Spec => []TypeOK
<1>1. SessionInv => TypeOK
  BY Zenon DEF SessionInv
<1> QED BY <1>1, SessionInvariant, PTL

\* IndexTableConsistent holds in every reachable state: no entry of the index table
\* leads handle_response or handle_transport to a freed peer or keypair, and every
\* keypair is found under its index.
THEOREM IndexTableCorrect == Spec => []IndexTableConsistent
<1>1. SessionInv => IndexTableConsistent
  <2> SUFFICES ASSUME SessionInv, NEW d \in Device
               PROVE  LET n == noise[d]
                      IN  /\ \A i \in Index :
                               /\ n.table[i].type # "free" => n.table[i].peer \in n.peers
                               /\ n.table[i].type = "handshake" => n.hs[n.table[i].peer].local_index = i
                               /\ n.table[i].type = "keypair" =>
                                    \E kp \in Keypairs(n, n.table[i].peer) :
                                       kp.local_index = i /\ kp.key = n.table[i].keypair
                          /\ \A p \in Peer : \A kp \in Keypairs(n, p) :
                               /\ kp.local_index \in Index
                               /\ n.table[kp.local_index] = [type |-> "keypair", peer |-> p, keypair |-> kp.key]
    BY Zenon DEF IndexTableConsistent
  <2> DEFINE n == noise[d]
  <2>1. NoiseInv(n) /\ n.peers \subseteq Peer
    BY Zenon DEF SessionInv, TypeOK, NoiseState
  <2> HIDE DEF n
  <2>2. ASSUME NEW p \in Peer, NEW kp \in Keypairs(n, p)
        PROVE  /\ kp.local_index \in Index
               /\ n.table[kp.local_index] = [type |-> "keypair", peer |-> p, keypair |-> kp.key]
    <3>1. PeerOK(n, p)
      BY <2>1, Zenon DEF NoiseInv
    <3>2. kp # NoKeypair /\ Registered(n, kp, p)
      BY <2>2, <3>1, Zenon DEF Keypairs, Exists, PeerOK
    <3> QED BY <3>2, Zenon DEF Registered, KeypairEntry
  <2>3. ASSUME NEW i \in Index
        PROVE  /\ n.table[i].type # "free" => n.table[i].peer \in n.peers
               /\ n.table[i].type = "handshake" => n.hs[n.table[i].peer].local_index = i
               /\ n.table[i].type = "keypair" =>
                    \E kp \in Keypairs(n, n.table[i].peer) :
                       kp.local_index = i /\ kp.key = n.table[i].keypair
    <3>1. EntryOK(n, i)
      BY <2>1, Zenon DEF NoiseInv
    <3>2. /\ n.table[i].type # "free" => n.table[i].peer \in n.peers
          /\ n.table[i].type = "handshake" => n.hs[n.table[i].peer].local_index = i
      BY <3>1, Zenon DEF EntryOK
    <3>3. ASSUME n.table[i].type = "keypair"
          PROVE  \E kp \in Keypairs(n, n.table[i].peer) :
                   kp.local_index = i /\ kp.key = n.table[i].keypair
      <4>1. PICK kp \in Keypairs(n, n.table[i].peer) : kp.local_index = i
        <5>1. \E kp \in {n.current[n.table[i].peer], n.next[n.table[i].peer], n.prev[n.table[i].peer]} :
                kp # NoKeypair /\ kp.local_index = i
          BY <3>1, <3>3, Zenon DEF EntryOK
        <5> QED BY <5>1, Zenon DEF Keypairs, Exists
      <4>2. n.table[i].peer \in Peer
        BY <2>1, <3>2, <3>3, Zenon
      <4>3. kp.key = n.table[i].keypair
        <5>1. n.table[kp.local_index] = [type |-> "keypair", peer |-> n.table[i].peer, keypair |-> kp.key]
          BY <2>2, <4>1, <4>2, Zenon
        <5> QED BY <4>1, <5>1
      <4> QED BY <4>1, <4>3, Zenon
    <3> QED BY <3>2, <3>3, Zenon
  <2> QED BY <2>2, <2>3, Zenon DEF n
<1> QED BY <1>1, SessionInvariant, PTL
=============================================================================

--------------------------- MODULE KeypairProofs ---------------------------
(***************************************************************************)
(* The invariants of the keypairs and packets of module Session, and what  *)
(* keeps them: the two keypairs of a handshake agree, a responder's is     *)
(* current only after a message of the initiator, no nonce is used twice,  *)
(* and a packet is in one place.                                           *)
(*                                                                         *)
(* The invariants are operators on the noise states nz, the datagrams nt   *)
(* and the number e of ephemerals, so that they can be followed through    *)
(* the operators of one handler.  Most of a handler is quiet: it forgets   *)
(* keypairs, or changes their age, nonce and replay filter only forwards.  *)
(***************************************************************************)
EXTENDS Session, NoiseProofs

\* The handshake of peer p waits for the response to its initiation.
Pending(n, p) == n.hs[p].state = "INITIATION_CREATED"

\* The response that both keypairs of a handshake come from, seen from the
\* holder d of one of them.
ResponseFor(d, p, kp) ==
  IF kp.is_initiator
  THEN [type |-> "response", to |-> d, from |-> p, sender |-> kp.remote_index,
        receiver |-> kp.local_index, init_eph |-> kp.key[1], eph |-> kp.key[2]]
  ELSE [type |-> "response", to |-> p, from |-> d, sender |-> kp.local_index,
        receiver |-> kp.remote_index, init_eph |-> kp.key[1], eph |-> kp.key[2]]

\* The ephemerals in datagrams have been generated; the first one is 1, so that no
\* session has the key of NoKeypair.
NetBounded(nt, e) ==
  /\ \A m \in nt : m.type = "initiation" => m.eph <= e
  /\ \A m \in nt : m.type = "response" => 0 < m.eph /\ m.eph <= e /\ m.init_eph <= e
  /\ \A m \in nt : m.type = "transport" => m.key[1] <= e /\ m.key[2] <= e

\* So have those of the handshakes; and no device is its own peer.
LocalBounded(nz, e) ==
  \A d \in Device : /\ d \notin nz[d].peers
                    /\ \A p \in Peer : nz[d].hs[p].local_ephemeral <= e

\* A responder generates an ephemeral for one response.
ResponsesUnique(nt) ==
  \A m1, m2 \in nt :
    m1.type = "response" /\ m2.type = "response" /\ m1.eph = m2.eph => m1 = m2

\* Every keypair comes from a response that was sent.
KeypairsDerived(nz, nt) ==
  \A d \in Device, p \in Peer : \A kp \in Keypairs(nz[d], p) : ResponseFor(d, p, kp) \in nt

\* The ephemeral of a pending handshake has led to no keypair of an initiator yet,
\* hence to no message of one, and no other handshake has it.
EphemeralUnused(nz, nt) ==
  \A d \in Device, p \in Peer : Pending(nz[d], p) =>
    LET e == nz[d].hs[p].local_ephemeral
    IN  /\ \A m \in nt : m.type = "transport" /\ m.by_initiator => m.key[1] # e
        /\ \A b \in Device, q \in Peer :
             /\ \A kp \in Keypairs(nz[b], q) : kp.is_initiator => kp.key[1] # e
             /\ Pending(nz[b], q) /\ nz[b].hs[q].local_ephemeral = e => b = d /\ q = p

\* The nonces of the messages sent with a keypair lie below its counter.
NoncesAhead(nz, nt) ==
  \A d \in Device, p \in Peer : \A kp \in Keypairs(nz[d], p) : \A m \in nt :
    m.type = "transport" /\ m.key = kp.key /\ m.by_initiator = kp.is_initiator
    => m.counter < kp.send_nonce

\* NonceUnique, of the datagrams nt.
NoncesUnique(nt) ==
  \A m1, m2 \in nt :
    /\ m1.type = "transport" /\ m2.type = "transport"
    /\ m1.key = m2.key /\ m1.by_initiator = m2.by_initiator /\ m1.counter = m2.counter
    => m1 = m2

\* The sessions of a responder are not newer than the last timestamp it accepted.
Timestamps(nz) ==
  \A d \in Device, p \in Peer : \A kp \in Keypairs(nz[d], p) :
    ~kp.is_initiator => kp.key[1] <= nz[d].hs[p].last_timestamp

\* CurrentIsConfirmed, of the noise states nz and the datagrams nt.
Confirmed(nz, nt) ==
  \A d \in Device, p \in Peer :
    LET kp == nz[d].current[p]
    IN  Exists(kp) /\ ~kp.is_initiator =>
          \E m \in nt : m.type = "transport" /\ m.key = kp.key /\ m.by_initiator

\* The datagram m has the packet x.
Carries(m, x) == m.type = "transport" /\ m.packet = x

\* A packet was delivered at most once; if it was, its counter is in the replay
\* filter of the keypair that received it, for as long as that exists, and that
\* keypair will not be derived again.
Delivered(nz, nt, dl) ==
  /\ \A x \in Packet : dl[x] <= 1 /\ (dl[x] = 1 => \E m \in nt : Carries(m, x))
  /\ \A m \in nt : m.type = "transport" /\ m.packet \in Packet /\ dl[m.packet] = 1 =>
       \A d \in Device, p \in Peer :
         /\ \A kp \in Keypairs(nz[d], p) :
              kp.key = m.key /\ kp.is_initiator # m.by_initiator => m.counter \in kp.replay
         /\ Pending(nz[d], p) /\ ~m.by_initiator => nz[d].hs[p].local_ephemeral # m.key[1]

\* What is true of the keypairs and handshakes of all devices, nz, given the datagrams
\* nt ever sent, the number e of ephemerals and the deliveries dl.
KeysInv(nz, nt, e, dl) ==
  /\ NetBounded(nt, e) /\ LocalBounded(nz, e) /\ ResponsesUnique(nt)
  /\ KeypairsDerived(nz, nt) /\ EphemeralUnused(nz, nt)
  /\ NoncesAhead(nz, nt) /\ NoncesUnique(nt)
  /\ Timestamps(nz) /\ Confirmed(nz, nt) /\ Delivered(nz, nt, dl)

----------------------------------------------------------------------------
(* Quiet changes of one device *)

\* k1 is k0, later.
Successor(k0, k1) ==
  /\ k1.key = k0.key /\ k1.is_initiator = k0.is_initiator
  /\ k1.local_index = k0.local_index /\ k1.remote_index = k0.remote_index
  /\ k0.send_nonce <= k1.send_nonce /\ k0.replay \subseteq k1.replay

\* From n to m no keypair of p is new, no handshake with p begins, the timestamp of p
\* is forgotten only with all keypairs, and a keypair becomes current only at the
\* initiator.
QuietFor(n, m, p) ==
  /\ \A k1 \in Keypairs(m, p) : \E k0 \in Keypairs(n, p) : Successor(k0, k1)
  /\ Pending(m, p) => Pending(n, p) /\ m.hs[p].local_ephemeral = n.hs[p].local_ephemeral
  /\ m.hs[p].local_ephemeral \in {0, n.hs[p].local_ephemeral}
  /\ Keypairs(m, p) = {} \/ n.hs[p].last_timestamp <= m.hs[p].last_timestamp
  /\ Exists(m.current[p]) /\ ~m.current[p].is_initiator =>
       /\ Exists(n.current[p]) /\ ~n.current[p].is_initiator
       /\ m.current[p].key = n.current[p].key

\* From n to m nothing begins, for any peer.
Quiet(n, m) == \A p \in Peer : QuietFor(n, m, p)

\* The keypairs of m are those of n, up to their counters and ages.
Inherits(n, m) ==
  \A p \in Peer : \A k1 \in Keypairs(m, p) : \E k0 \in Keypairs(n, p) :
    k1.key = k0.key /\ k1.is_initiator = k0.is_initiator

\* NewerInitiationWins, from the noise state n of a device to m.
NewerOnly(n, m) ==
  \A p \in Peer : \A old \in Keypairs(n, p), new \in Keypairs(m, p) :
    ~old.is_initiator /\ ~new.is_initiator
      /\ (\A kp \in Keypairs(n, p) : kp.key # new.key)
    => new.key[1] > old.key[1]

\* Nothing is newer where nothing changes.
LEMMA NewerSelf ==
  ASSUME NEW n PROVE NewerOnly(n, n)
BY Zenon DEF NewerOnly

\* A later change that makes no keypair keeps NewerOnly.
LEMMA NewerKept ==
  ASSUME NEW n, NEW m, NEW m2, NewerOnly(n, m), Inherits(m, m2) PROVE NewerOnly(n, m2)
<1> SUFFICES ASSUME NEW p \in Peer, NEW old \in Keypairs(n, p), NEW new \in Keypairs(m2, p),
                    ~old.is_initiator, ~new.is_initiator, \A kp \in Keypairs(n, p) : kp.key # new.key
             PROVE  new.key[1] > old.key[1]
  BY Zenon DEF NewerOnly
<1>1. PICK k0 \in Keypairs(m, p) : new.key = k0.key /\ new.is_initiator = k0.is_initiator
  BY Zenon DEF Inherits
<1>2. ~k0.is_initiator /\ \A kp \in Keypairs(n, p) : kp.key # k0.key
  BY <1>1, Zenon
<1>3. k0.key[1] > old.key[1]
  BY <1>2, Zenon DEF NewerOnly
<1> QED BY <1>1, <1>3, Zenon

\* A quiet change makes no keypair.
LEMMA QuietInherits ==
  ASSUME NEW n, NEW m, Quiet(n, m) PROVE Inherits(n, m)
BY Zenon DEF Quiet, QuietFor, Successor, Inherits

\* The keypairs of a peer are well typed.
LEMMA KeypairsType ==
  ASSUME NEW n \in NoiseState, NEW p \in Peer
  PROVE  Keypairs(n, p) \subseteq Keypair
BY DEF Keypairs, NoiseState

\* A quiet change of one device preserves KeysInv.
LEMMA QuietKeys ==
  ASSUME NEW nz \in [Device -> NoiseState], NEW nt \in SUBSET Message, NEW e \in Nat,
         NEW dl \in [Packet -> Nat],
         NEW d \in Device, NEW m \in NoiseState, d \notin m.peers,
         KeysInv(nz, nt, e, dl), Quiet(nz[d], m)
  PROVE  KeysInv([nz EXCEPT ![d] = m], nt, e, dl)
<1> DEFINE ny == [nz EXCEPT ![d] = m]
<1>0. NetBounded(nt, e) /\ ResponsesUnique(nt) /\ NoncesUnique(nt)
  BY Zenon DEF KeysInv
<1>1. /\ ny \in [Device -> NoiseState]
      /\ \A b \in Device : ny[b] = IF b = d THEN m ELSE nz[b]
  BY Zenon
<1> HIDE DEF ny
<1>2. ASSUME NEW b \in Device, NEW p \in Peer PROVE QuietFor(nz[b], ny[b], p)
  <2>1. CASE b = d
    BY <1>1, <2>1, Zenon DEF Quiet
  <2>2. CASE b # d
    <3>1. ny[b] = nz[b] /\ nz[b] \in NoiseState
      BY <1>1, <2>2, Zenon
    <3>2. /\ nz[b].hs[p] \in Handshake
          /\ \A kp \in Keypairs(nz[b], p) : kp \in Keypair
      BY <3>1, KeypairsType, Zenon DEF NoiseState
    <3>3. \A kp \in Keypairs(nz[b], p) : Successor(kp, kp)
      BY <3>2 DEF Successor, Keypair
    <3> QED BY <3>1, <3>2, <3>3 DEF QuietFor, Handshake
  <2> QED BY <2>1, <2>2, Zenon
<1>3. LocalBounded(ny, e)
  <2>1. ASSUME NEW b \in Device, NEW p \in Peer PROVE ny[b].hs[p].local_ephemeral <= e
    BY <1>2 DEF QuietFor, KeysInv, LocalBounded
  <2> QED BY <1>1, <2>1, Zenon DEF KeysInv, LocalBounded
<1>4. ASSUME NEW b \in Device, NEW p \in Peer, NEW k1 \in Keypairs(ny[b], p)
      PROVE  \E k0 \in Keypairs(nz[b], p) : Successor(k0, k1) /\ k0 \in Keypair /\ k1 \in Keypair
  BY <1>1, <1>2, KeypairsType DEF QuietFor
<1>5. KeypairsDerived(ny, nt)
  <2> SUFFICES ASSUME NEW b \in Device, NEW p \in Peer, NEW k1 \in Keypairs(ny[b], p)
               PROVE  ResponseFor(b, p, k1) \in nt
    BY Zenon DEF KeypairsDerived
  <2>1. PICK k0 \in Keypairs(nz[b], p) : Successor(k0, k1)
    BY <1>4, Zenon
  <2>2. ResponseFor(b, p, k0) \in nt
    BY Zenon DEF KeysInv, KeypairsDerived
  <2> QED BY <2>1, <2>2, Zenon DEF Successor, ResponseFor
<1>6. EphemeralUnused(ny, nt)
  <2> SUFFICES ASSUME NEW b \in Device, NEW p \in Peer, Pending(ny[b], p)
               PROVE  LET x == ny[b].hs[p].local_ephemeral
                      IN  /\ \A s \in nt : s.type = "transport" /\ s.by_initiator => s.key[1] # x
                          /\ \A c \in Device, q \in Peer :
                               /\ \A kp \in Keypairs(ny[c], q) : kp.is_initiator => kp.key[1] # x
                               /\ Pending(ny[c], q) /\ ny[c].hs[q].local_ephemeral = x => c = b /\ q = p
    BY Zenon DEF EphemeralUnused
  <2> DEFINE x == ny[b].hs[p].local_ephemeral
  <2>1. Pending(nz[b], p) /\ x = nz[b].hs[p].local_ephemeral
    BY <1>2, Zenon DEF QuietFor
  <2> HIDE DEF x
  <2>2. /\ \A s \in nt : s.type = "transport" /\ s.by_initiator => s.key[1] # x
        /\ \A c \in Device, q \in Peer :
             /\ \A kp \in Keypairs(nz[c], q) : kp.is_initiator => kp.key[1] # x
             /\ Pending(nz[c], q) /\ nz[c].hs[q].local_ephemeral = x => c = b /\ q = p
    BY <2>1, Zenon DEF KeysInv, EphemeralUnused
  <2>3. ASSUME NEW c \in Device, NEW q \in Peer, NEW k1 \in Keypairs(ny[c], q), k1.is_initiator
        PROVE  k1.key[1] # x
    BY <1>4, <2>2, <2>3 DEF Successor
  <2>4. ASSUME NEW c \in Device, NEW q \in Peer, Pending(ny[c], q), ny[c].hs[q].local_ephemeral = x
        PROVE  c = b /\ q = p
    BY <1>2, <2>2, <2>4, Zenon DEF QuietFor
  <2> QED BY <2>2, <2>3, <2>4, Zenon DEF x
<1>7. NoncesAhead(ny, nt)
  <2> SUFFICES ASSUME NEW b \in Device, NEW p \in Peer, NEW k1 \in Keypairs(ny[b], p), NEW s \in nt,
                      s.type = "transport", s.key = k1.key, s.by_initiator = k1.is_initiator
               PROVE  s.counter < k1.send_nonce
    BY Zenon DEF NoncesAhead
  <2>1. PICK k0 \in Keypairs(nz[b], p) : Successor(k0, k1) /\ k0 \in Keypair /\ k1 \in Keypair
    BY <1>4, Zenon
  <2>2. s.counter < k0.send_nonce
    BY <2>1, Zenon DEF KeysInv, NoncesAhead, Successor
  <2>3. s.counter \in Nat
    BY Zenon DEF Message, Initiation, Response, Transport
  <2> QED BY <2>1, <2>2, <2>3 DEF Successor, Keypair
<1>8. Timestamps(ny)
  <2> SUFFICES ASSUME NEW b \in Device, NEW p \in Peer, NEW k1 \in Keypairs(ny[b], p), ~k1.is_initiator
               PROVE  k1.key[1] <= ny[b].hs[p].last_timestamp
    BY Zenon DEF Timestamps
  <2>1. PICK k0 \in Keypairs(nz[b], p) : Successor(k0, k1) /\ k0 \in Keypair /\ k1 \in Keypair
    BY <1>4, Zenon
  <2>2. k0.key[1] <= nz[b].hs[p].last_timestamp
    BY <2>1, Zenon DEF KeysInv, Timestamps, Successor
  <2>3. nz[b].hs[p].last_timestamp <= ny[b].hs[p].last_timestamp
    BY <1>2, Zenon DEF QuietFor
  <2>4. /\ nz[b].hs[p].last_timestamp \in Nat /\ ny[b].hs[p].last_timestamp \in Nat
        /\ k1.key = k0.key /\ k1.key[1] \in Nat
    BY <1>1, <2>1 DEF NoiseState, Handshake, Successor, Keypair, Key
  <2> QED BY <2>2, <2>3, <2>4
<1>9. Confirmed(ny, nt)
  <2>1. ASSUME NEW b \in Device, NEW p \in Peer,
               Exists(ny[b].current[p]), ~ny[b].current[p].is_initiator
        PROVE  \E s \in nt : s.type = "transport" /\ s.key = ny[b].current[p].key /\ s.by_initiator
    <3>1. /\ Exists(nz[b].current[p]) /\ ~nz[b].current[p].is_initiator
          /\ ny[b].current[p].key = nz[b].current[p].key
      BY <1>2, <2>1, Zenon DEF QuietFor
    <3>2. \E s \in nt : s.type = "transport" /\ s.key = nz[b].current[p].key /\ s.by_initiator
      BY <3>1, Zenon DEF KeysInv, Confirmed
    <3> QED BY <3>1, <3>2, Zenon
  <2> QED BY <2>1, Zenon DEF Confirmed
<1>10. Delivered(ny, nt, dl)
  <2>1. ASSUME NEW s \in nt, s.type = "transport", s.packet \in Packet, dl[s.packet] = 1,
               NEW b \in Device, NEW p \in Peer
        PROVE  /\ \A kp \in Keypairs(ny[b], p) :
                    kp.key = s.key /\ kp.is_initiator # s.by_initiator => s.counter \in kp.replay
               /\ Pending(ny[b], p) /\ ~s.by_initiator => ny[b].hs[p].local_ephemeral # s.key[1]
    <3>1. /\ \A kp \in Keypairs(nz[b], p) :
               kp.key = s.key /\ kp.is_initiator # s.by_initiator => s.counter \in kp.replay
          /\ Pending(nz[b], p) /\ ~s.by_initiator => nz[b].hs[p].local_ephemeral # s.key[1]
      BY <2>1, Zenon DEF KeysInv, Delivered
    <3>2. ASSUME NEW k1 \in Keypairs(ny[b], p), k1.key = s.key, k1.is_initiator # s.by_initiator
          PROVE  s.counter \in k1.replay
      BY <1>4, <3>1, <3>2 DEF Successor
    <3>3. Pending(ny[b], p) /\ ~s.by_initiator => ny[b].hs[p].local_ephemeral # s.key[1]
      BY <1>2, <3>1, Zenon DEF QuietFor
    <3> QED BY <3>2, <3>3, Zenon
  <2> QED BY <2>1, Zenon DEF KeysInv, Delivered
<1> QED BY <1>0, <1>3, <1>5, <1>6, <1>7, <1>8, <1>9, <1>10, Zenon DEF KeysInv, ny

----------------------------------------------------------------------------
(* Keypairs of one handshake *)

\* Datagrams have the fields of their type.
LEMMA MessageTypes ==
  ASSUME NEW m \in Message
  PROVE  /\ m.type = "initiation" => m \in Initiation
         /\ m.type = "response" => m \in Response
         /\ m.type = "transport" => m \in Transport
         /\ m.type \in {"initiation", "response", "transport"}
BY Zenon DEF Message, Initiation, Response, Transport

\* Two keypairs of a peer with one index are the same keypair.
LEMMA SameIndex ==
  ASSUME NEW n, NoiseInv(n), NEW p \in Peer, NEW k1 \in Keypairs(n, p), NEW k2 \in Keypairs(n, p),
         k1.local_index = k2.local_index
  PROVE  k1 = k2 /\ p \in n.peers
BY Zenon DEF NoiseInv, PeerOK, Apart, Registered, Keypairs, Exists

\* A key is held once in each of its two roles.
LEMMA SameHolder ==
  ASSUME NEW nz \in [Device -> NoiseState], \A b \in Device : NoiseInv(nz[b]),
         NEW nt \in SUBSET Message, ResponsesUnique(nt), KeypairsDerived(nz, nt),
         NEW d \in Device, NEW p \in Peer, NEW k1 \in Keypairs(nz[d], p),
         NEW b \in Device, NEW q \in Peer, NEW k2 \in Keypairs(nz[b], q),
         k1.key = k2.key, k1.is_initiator = k2.is_initiator
  PROVE  d = b /\ p = q /\ k1 = k2
<1> DEFINE r1 == ResponseFor(d, p, k1)
           r2 == ResponseFor(b, q, k2)
<1>1. r1 \in nt /\ r2 \in nt
  BY Zenon DEF KeypairsDerived
<1>2. r1.type = "response" /\ r2.type = "response" /\ r1.eph = r2.eph
  BY Zenon DEF ResponseFor
<1>3. r1 = r2
  BY <1>1, <1>2, Zenon DEF ResponsesUnique
<1>4. d = b /\ p = q /\ k1.local_index = k2.local_index
  <2>1. CASE k1.is_initiator
    <3>1. r1.to = d /\ r1.from = p /\ r1.receiver = k1.local_index
      BY <2>1, Zenon DEF ResponseFor
    <3>2. r2.to = b /\ r2.from = q /\ r2.receiver = k2.local_index
      BY <2>1, Zenon DEF ResponseFor
    <3> QED BY <1>3, <3>1, <3>2, Zenon
  <2>2. CASE ~k1.is_initiator
    <3>1. r1.to = p /\ r1.from = d /\ r1.sender = k1.local_index
      BY <2>2, Zenon DEF ResponseFor
    <3>2. r2.to = q /\ r2.from = b /\ r2.sender = k2.local_index
      BY <2>2, Zenon DEF ResponseFor
    <3> QED BY <1>3, <3>1, <3>2, Zenon
  <2> QED BY <2>1, <2>2, Zenon
<1> QED BY <1>4, SameIndex, Zenon

\* The two holders of a key have opposite roles and each other's index.
LEMMA OtherHolder ==
  ASSUME NEW nz, NEW nt, ResponsesUnique(nt), KeypairsDerived(nz, nt),
         NEW d \in Device, NEW p \in Peer, NEW k1 \in Keypairs(nz[d], p),
         NEW b \in Device, NEW q \in Peer, NEW k2 \in Keypairs(nz[b], q),
         k1.key = k2.key, k1.is_initiator, ~k2.is_initiator
  PROVE  d = q /\ p = b /\ k1.local_index = k2.remote_index /\ k1.remote_index = k2.local_index
<1> DEFINE r1 == ResponseFor(d, p, k1)
           r2 == ResponseFor(b, q, k2)
<1>1. r1 \in nt /\ r2 \in nt
  BY Zenon DEF KeypairsDerived
<1>2. r1.type = "response" /\ r2.type = "response" /\ r1.eph = r2.eph
  BY Zenon DEF ResponseFor
<1>3. r1 = r2
  BY <1>1, <1>2, Zenon DEF ResponsesUnique
<1>4. r1.to = d /\ r1.from = p /\ r1.receiver = k1.local_index /\ r1.sender = k1.remote_index
  BY Zenon DEF ResponseFor
<1>5. r2.to = q /\ r2.from = b /\ r2.receiver = k2.remote_index /\ r2.sender = k2.local_index
  BY Zenon DEF ResponseFor
<1> QED BY <1>3, <1>4, <1>5, Zenon

\* The keypairs of one peer have different keys.
LEMMA KeysOfPeer ==
  ASSUME NEW nz \in [Device -> NoiseState], \A b \in Device : NoiseInv(nz[b]),
         NEW nt \in SUBSET Message, NEW e \in Nat, LocalBounded(nz, e),
         ResponsesUnique(nt), KeypairsDerived(nz, nt),
         NEW d \in Device, NEW p \in Peer, NEW k1 \in Keypairs(nz[d], p), NEW k2 \in Keypairs(nz[d], p),
         k1.key = k2.key
  PROVE  k1 = k2
<1>1. k1.is_initiator \in BOOLEAN /\ k2.is_initiator \in BOOLEAN
  BY KeypairsType DEF Keypair
<1>2. p # d
  BY SameIndex DEF LocalBounded
<1>3. CASE k1.is_initiator = k2.is_initiator
  BY <1>3, SameHolder
<1>4. CASE k1.is_initiator /\ ~k2.is_initiator
  BY <1>2, <1>4, OtherHolder
<1>5. CASE ~k1.is_initiator /\ k2.is_initiator
  BY <1>2, <1>5, OtherHolder
<1> QED BY <1>1, <1>3, <1>4, <1>5, Zenon

\* Keys consist of ephemerals that were generated.
LEMMA KeyBounded ==
  ASSUME NEW nz, NEW nt, NEW e, NetBounded(nt, e), KeypairsDerived(nz, nt),
         NEW d \in Device, NEW p \in Peer, NEW kp \in Keypairs(nz[d], p)
  PROVE  kp.key[1] <= e /\ kp.key[2] <= e
<1> DEFINE r == ResponseFor(d, p, kp)
<1>1. r \in nt
  BY Zenon DEF KeypairsDerived
<1>2. r.type = "response" /\ r.init_eph = kp.key[1] /\ r.eph = kp.key[2]
  BY Zenon DEF ResponseFor
<1> HIDE DEF r
<1> QED BY <1>1, <1>2, Zenon DEF NetBounded

----------------------------------------------------------------------------
(* What else a handler does to sessions *)

\* What EphemeralUnused says of one handshake.
LEMMA UnusedKey ==
  ASSUME NEW nz, NEW nt, EphemeralUnused(nz, nt), NEW b \in Device, NEW r \in Peer, Pending(nz[b], r)
  PROVE  /\ \A s \in nt : s.type = "transport" /\ s.by_initiator => s.key[1] # nz[b].hs[r].local_ephemeral
         /\ \A c \in Device, q \in Peer :
              /\ \A kp \in Keypairs(nz[c], q) : kp.is_initiator => kp.key[1] # nz[b].hs[r].local_ephemeral
              /\ Pending(nz[c], q) /\ nz[c].hs[q].local_ephemeral = nz[b].hs[r].local_ephemeral
                   => c = b /\ q = r
BY Zenon DEF EphemeralUnused

\* What Confirmed says of one peer.
LEMMA ConfirmedCurrent ==
  ASSUME NEW nz, NEW nt, Confirmed(nz, nt), NEW b \in Device, NEW q \in Peer,
         Exists(nz[b].current[q]), ~nz[b].current[q].is_initiator
  PROVE  \E s \in nt : s.type = "transport" /\ s.key = nz[b].current[q].key /\ s.by_initiator
BY Zenon DEF Confirmed

\* The ephemeral key of a handshake has been made.
LEMMA LocalEphemeral ==
  ASSUME NEW nz \in [Device -> NoiseState], NEW nt, NEW e, NEW dl, KeysInv(nz, nt, e, dl),
         NEW b \in Device, NEW q \in Peer
  PROVE  nz[b].hs[q].local_ephemeral <= e /\ nz[b].hs[q].local_ephemeral \in Nat
<1>1. LocalBounded(nz, e) /\ nz[b] \in NoiseState
  BY Zenon DEF KeysInv
<1>2. nz[b].hs[q].local_ephemeral <= e
  BY <1>1, Zenon DEF LocalBounded
<1>3. nz[b].hs[q] \in Handshake
  BY <1>1, Zenon DEF NoiseState
<1>4. nz[b].hs[q].local_ephemeral \in Nat
  BY ONLY <1>3, Zenon DEF Handshake
<1> QED BY <1>2, <1>4, Zenon

\* A handshake of d with p gets a fresh ephemeral.
LEMMA FreshEphemeral ==
  ASSUME NEW nz \in [Device -> NoiseState], NEW nt \in SUBSET Message, NEW e \in Nat,
         NEW dl \in [Packet -> Nat], NEW d \in Device, NEW p \in Peer, NEW m \in NoiseState,
         KeysInv(nz, nt, e, dl), m.peers = nz[d].peers,
         \A q \in Peer : /\ Keypairs(m, q) = Keypairs(nz[d], q)
                         /\ m.current[q] = nz[d].current[q]
                         /\ m.hs[q].last_timestamp = nz[d].hs[q].last_timestamp
                         /\ q # p => m.hs[q] = nz[d].hs[q],
         m.hs[p].local_ephemeral = e + 1
  PROVE  KeysInv([nz EXCEPT ![d] = m], nt, e + 1, dl)
<1> DEFINE ny == [nz EXCEPT ![d] = m]
<1>1. /\ ny \in [Device -> NoiseState]
      /\ \A b \in Device : ny[b] = IF b = d THEN m ELSE nz[b]
  BY Zenon
<1> HIDE DEF ny
<1>2. \A b \in Device, q \in Peer :
        /\ Keypairs(ny[b], q) = Keypairs(nz[b], q)
        /\ ny[b].current[q] = nz[b].current[q]
        /\ ny[b].peers = nz[b].peers
        /\ ny[b].hs[q].last_timestamp = nz[b].hs[q].last_timestamp
        /\ \/ ny[b].hs[q] = nz[b].hs[q] /\ ~(b = d /\ q = p)
           \/ b = d /\ q = p /\ ny[b].hs[q].local_ephemeral = e + 1
  <2> SUFFICES ASSUME NEW b \in Device, NEW q \in Peer
               PROVE  /\ Keypairs(ny[b], q) = Keypairs(nz[b], q)
                      /\ ny[b].current[q] = nz[b].current[q]
                      /\ ny[b].peers = nz[b].peers
                      /\ ny[b].hs[q].last_timestamp = nz[b].hs[q].last_timestamp
                      /\ \/ ny[b].hs[q] = nz[b].hs[q] /\ ~(b = d /\ q = p)
                         \/ b = d /\ q = p /\ ny[b].hs[q].local_ephemeral = e + 1
    BY Zenon
  <2>1. CASE b = d
    BY <1>1, <2>1, Zenon
  <2>2. CASE b # d
    BY <1>1, <2>2, Zenon
  <2> QED BY <2>1, <2>2, Zenon
<1>3. NetBounded(nt, e + 1)
  <2>1. \A s \in nt : /\ s.type = "initiation" => s.eph \in Nat
                      /\ s.type = "response" => s.eph \in Nat /\ s.init_eph \in Nat
                      /\ s.type = "transport" => s.key[1] \in Nat /\ s.key[2] \in Nat
    BY MessageTypes DEF Initiation, Response, Transport, Key
  <2> QED BY <2>1 DEF KeysInv, NetBounded
<1>4. LocalBounded(ny, e + 1)
  <2>1. ASSUME NEW b \in Device, NEW q \in Peer PROVE ny[b].hs[q].local_ephemeral <= e + 1
    <3>1. nz[b].hs[q].local_ephemeral <= e /\ nz[b].hs[q].local_ephemeral \in Nat
      BY LocalEphemeral, Zenon
    <3> QED BY <1>2, <3>1
  <2>2. \A b \in Device : b \notin ny[b].peers
    BY <1>1, Zenon DEF KeysInv, LocalBounded
  <2> QED BY <2>1, <2>2, Zenon DEF LocalBounded
<1>5. KeypairsDerived(ny, nt) /\ NoncesAhead(ny, nt) /\ Timestamps(ny)
  BY <1>2 DEF KeysInv, KeypairsDerived, NoncesAhead, Timestamps
<1>6. Confirmed(ny, nt)
  BY <1>2 DEF KeysInv, Confirmed
<1>7. \A s \in nt : s.type = "transport" => s.key[1] # e + 1
  <2>1. \A s \in nt : s.type = "transport" => s.key[1] <= e /\ s.key[1] \in Nat
    BY MessageTypes, Zenon DEF KeysInv, NetBounded, Transport, Key
  <2> QED BY <2>1
<1>8. \A b \in Device, q \in Peer : \A kp \in Keypairs(nz[b], q) : kp.key[1] # e + 1
  <2>1. ASSUME NEW b \in Device, NEW q \in Peer, NEW kp \in Keypairs(nz[b], q)
        PROVE  kp.key[1] <= e /\ kp.key[1] \in Nat
    BY KeyBounded, KeypairsType DEF KeysInv, Keypair, Key
  <2> QED BY <2>1
<1>9. \A b \in Device, q \in Peer : nz[b].hs[q].local_ephemeral # e + 1
  <2>1. ASSUME NEW b \in Device, NEW q \in Peer
        PROVE  nz[b].hs[q].local_ephemeral # e + 1
    <3>1. nz[b].hs[q].local_ephemeral <= e /\ nz[b].hs[q].local_ephemeral \in Nat
      BY LocalEphemeral, Zenon
    <3> QED BY <3>1
  <2> QED BY <2>1, Zenon
<1>10. EphemeralUnused(ny, nt)
  <2> SUFFICES ASSUME NEW b \in Device, NEW r \in Peer, Pending(ny[b], r)
               PROVE  LET x == ny[b].hs[r].local_ephemeral
                      IN  /\ \A s \in nt : s.type = "transport" /\ s.by_initiator => s.key[1] # x
                          /\ \A c \in Device, q \in Peer :
                               /\ \A kp \in Keypairs(ny[c], q) : kp.is_initiator => kp.key[1] # x
                               /\ Pending(ny[c], q) /\ ny[c].hs[q].local_ephemeral = x => c = b /\ q = r
    BY Zenon DEF EphemeralUnused
  <2>1. CASE b = d /\ r = p
    <3>1. ny[b].hs[r].local_ephemeral = e + 1
      BY <1>2, <2>1, Zenon
    <3>2. \A c \in Device, q \in Peer : ny[c].hs[q].local_ephemeral = e + 1 => c = d /\ q = p
      BY <1>2, <1>9
    <3> QED BY <1>2, <1>7, <1>8, <2>1, <3>1, <3>2
  <2>2. CASE ~(b = d /\ r = p)
    <3>1. ny[b].hs[r] = nz[b].hs[r] /\ Pending(nz[b], r)
      BY <1>2, <2>2, Zenon DEF Pending
    <3>2. /\ \A s \in nt : s.type = "transport" /\ s.by_initiator => s.key[1] # nz[b].hs[r].local_ephemeral
          /\ \A c \in Device, q \in Peer :
               /\ \A kp \in Keypairs(nz[c], q) :
                    kp.is_initiator => kp.key[1] # nz[b].hs[r].local_ephemeral
               /\ Pending(nz[c], q) /\ nz[c].hs[q].local_ephemeral = nz[b].hs[r].local_ephemeral
                    => c = b /\ q = r
      BY <3>1, Zenon DEF KeysInv, EphemeralUnused
    <3>3. ASSUME NEW c \in Device, NEW q \in Peer, Pending(ny[c], q),
                 ny[c].hs[q].local_ephemeral = ny[b].hs[r].local_ephemeral
          PROVE  c = b /\ q = r
      <4>1. ny[c].hs[q] = nz[c].hs[q]
        BY <1>2, <1>9, <3>1, <3>3
      <4> QED BY <3>1, <3>2, <3>3, <4>1 DEF Pending
    <3> QED BY <1>2, <3>1, <3>2, <3>3
  <2> QED BY <2>1, <2>2, Zenon
<1>11. Delivered(ny, nt, dl)
  <2>1. ASSUME NEW s \in nt, s.type = "transport", s.packet \in Packet, dl[s.packet] = 1,
               NEW b \in Device, NEW q \in Peer
        PROVE  /\ \A kp \in Keypairs(ny[b], q) :
                    kp.key = s.key /\ kp.is_initiator # s.by_initiator => s.counter \in kp.replay
               /\ Pending(ny[b], q) /\ ~s.by_initiator => ny[b].hs[q].local_ephemeral # s.key[1]
    <3>1. /\ \A kp \in Keypairs(nz[b], q) :
               kp.key = s.key /\ kp.is_initiator # s.by_initiator => s.counter \in kp.replay
          /\ Pending(nz[b], q) /\ ~s.by_initiator => nz[b].hs[q].local_ephemeral # s.key[1]
      BY <2>1, Zenon DEF KeysInv, Delivered
    <3> QED BY ONLY <1>2, <1>7, <2>1, <3>1 DEF Pending
  <2> QED BY <2>1, Zenon DEF KeysInv, Delivered
<1> QED BY <1>3, <1>4, <1>5, <1>6, <1>10, <1>11, Zenon DEF KeysInv, ny

\* An initiation is sent.
LEMMA InitiationSent ==
  ASSUME NEW nz, NEW nt \in SUBSET Message, NEW e \in Nat, NEW dl,
         KeysInv(nz, nt, e, dl), NEW s \in Initiation, s.eph <= e
  PROVE  KeysInv(nz, nt \cup {s}, e, dl)
<1> DEFINE nu == nt \cup {s}
<1>1. s.type = "initiation"
  BY Zenon DEF Initiation
<1>2. \A r \in nu : r \in nt \/ (r = s /\ r.type = "initiation")
  BY <1>1, Zenon
<1>3. nt \subseteq nu
  BY Zenon
<1> HIDE DEF nu
<1>4. NetBounded(nu, e) /\ ResponsesUnique(nu) /\ NoncesUnique(nu)
  BY <1>2, Zenon DEF KeysInv, NetBounded, ResponsesUnique, NoncesUnique
<1>5. KeypairsDerived(nz, nu) /\ Confirmed(nz, nu)
  BY <1>3, Zenon DEF KeysInv, KeypairsDerived, Confirmed
<1>6. NoncesAhead(nz, nu) /\ EphemeralUnused(nz, nu)
  BY <1>2, Zenon DEF KeysInv, NoncesAhead, EphemeralUnused
<1>7. Delivered(nz, nu, dl)
  BY <1>2, <1>3, Zenon DEF KeysInv, Delivered
<1> QED BY <1>4, <1>5, <1>6, <1>7, Zenon DEF KeysInv, nu

\* A response with a fresh ephemeral is sent.
LEMMA ResponseSent ==
  ASSUME NEW nz \in [Device -> NoiseState], NEW nt \in SUBSET Message, NEW e \in Nat, NEW dl,
         KeysInv(nz, nt, e, dl), NEW s \in Response, s.init_eph <= e, s.eph = e + 1
  PROVE  KeysInv(nz, nt \cup {s}, e + 1, dl)
<1> DEFINE nu == nt \cup {s}
<1>1. s.type = "response" /\ s.init_eph \in Nat
  BY Zenon DEF Response
<1>2. \A r \in nu : r \in nt \/ (r = s /\ r.type = "response")
  BY <1>1, Zenon
<1>3. nt \subseteq nu
  BY Zenon
<1> HIDE DEF nu
<1>4. \A r \in nt : /\ r.type = "initiation" => r.eph <= e /\ r.eph \in Nat
                    /\ r.type = "response" => /\ 0 < r.eph /\ r.eph <= e /\ r.eph \in Nat
                                              /\ r.init_eph <= e /\ r.init_eph \in Nat
                    /\ r.type = "transport" => /\ r.key[1] <= e /\ r.key[1] \in Nat
                                               /\ r.key[2] <= e /\ r.key[2] \in Nat
  BY MessageTypes, Zenon DEF KeysInv, NetBounded, Initiation, Response, Transport, Key
<1>5. NetBounded(nu, e + 1)
  BY <1>1, <1>2, <1>4 DEF NetBounded
<1>6. ResponsesUnique(nu)
  <2>1. \A r \in nt : r.type = "response" => r.eph # s.eph
    BY <1>4
  <2> QED BY <1>2, <2>1, Zenon DEF KeysInv, ResponsesUnique
<1>7. NoncesUnique(nu)
  BY <1>2, Zenon DEF KeysInv, NoncesUnique
<1>8. LocalBounded(nz, e + 1)
  <2>1. \A b \in Device, q \in Peer : nz[b].hs[q].local_ephemeral \in Nat
    BY DEF NoiseState, Handshake
  <2> QED BY <2>1 DEF KeysInv, LocalBounded
<1>9. KeypairsDerived(nz, nu) /\ Confirmed(nz, nu)
  BY <1>3, Zenon DEF KeysInv, KeypairsDerived, Confirmed
<1>10. NoncesAhead(nz, nu) /\ EphemeralUnused(nz, nu)
  BY <1>2, Zenon DEF KeysInv, NoncesAhead, EphemeralUnused
<1>11. Delivered(nz, nu, dl)
  BY <1>2, <1>3, Zenon DEF KeysInv, Delivered
<1> QED BY <1>5, <1>6, <1>7, <1>8, <1>9, <1>10, <1>11, Zenon DEF KeysInv, nu

\* From n to m, device d begins the session with p that kp belongs to.
Begins(n, m, p, kp) ==
  /\ m.peers = n.peers
  /\ \A q \in Peer : q # p => /\ Keypairs(m, q) = Keypairs(n, q)
                              /\ m.current[q] = n.current[q]
                              /\ m.hs[q] = n.hs[q]
  /\ Keypairs(m, p) \subseteq Keypairs(n, p) \cup {kp}
  /\ m.hs[p].state = "ZEROED" /\ m.hs[p].local_ephemeral = 0
  /\ n.hs[p].last_timestamp <= m.hs[p].last_timestamp
  /\ Exists(m.current[p]) /\ ~m.current[p].is_initiator => m.current[p] = n.current[p]
  /\ ~kp.is_initiator => kp.key[1] <= m.hs[p].last_timestamp

\* The key of kp is new to its holder, who is d: no message was sent with it in this
\* role, no packet received, and no other handshake leads to it.
NewKey(nz, nt, dl, d, p, kp) ==
  /\ ResponseFor(d, p, kp) \in nt
  /\ \A s \in nt : ~(s.type = "transport" /\ s.key = kp.key /\ s.by_initiator = kp.is_initiator)
  /\ kp.is_initiator => \A b \in Device, q \in Peer :
       Pending(nz[b], q) /\ ~(b = d /\ q = p) => nz[b].hs[q].local_ephemeral # kp.key[1]
  /\ \A s \in nt : s.type = "transport" /\ s.packet \in Packet /\ dl[s.packet] = 1
                    => ~(s.key = kp.key /\ s.by_initiator # kp.is_initiator)

\* A session begins.
LEMMA NewSession ==
  ASSUME NEW nz \in [Device -> NoiseState], NEW nt \in SUBSET Message, NEW e \in Nat,
         NEW dl \in [Packet -> Nat], NEW d \in Device, NEW p \in Peer, NEW m \in NoiseState,
         NEW kp \in Keypair, KeysInv(nz, nt, e, dl),
         Begins(nz[d], m, p, kp), NewKey(nz, nt, dl, d, p, kp)
  PROVE  KeysInv([nz EXCEPT ![d] = m], nt, e, dl)
<1> DEFINE ny == [nz EXCEPT ![d] = m]
<1>0. NetBounded(nt, e) /\ ResponsesUnique(nt) /\ NoncesUnique(nt)
  BY Zenon DEF KeysInv
<1>1. /\ ny \in [Device -> NoiseState]
      /\ \A b \in Device : ny[b] = IF b = d THEN m ELSE nz[b]
  BY Zenon
<1> HIDE DEF ny
<1>2. ASSUME NEW b \in Device, NEW q \in Peer, ~(b = d /\ q = p)
      PROVE  /\ Keypairs(ny[b], q) = Keypairs(nz[b], q)
             /\ ny[b].current[q] = nz[b].current[q]
             /\ ny[b].hs[q] = nz[b].hs[q]
  <2>1. CASE b = d
    BY <1>1, <1>2, <2>1, Zenon DEF Begins
  <2>2. CASE b # d
    BY <1>1, <2>2, Zenon
  <2> QED BY <2>1, <2>2, Zenon
<1>3. ny[d] = m /\ Keypairs(ny[d], p) \subseteq Keypairs(nz[d], p) \cup {kp}
  BY <1>1, Zenon DEF Begins
<1>4. ASSUME NEW b \in Device, NEW q \in Peer, Pending(ny[b], q)
      PROVE  Pending(nz[b], q) /\ ny[b].hs[q] = nz[b].hs[q] /\ ~(b = d /\ q = p)
  <2>1. ~(b = d /\ q = p)
    BY <1>3, <1>4, Zenon DEF Begins, Pending
  <2> QED BY <1>2, <1>4, <2>1, Zenon DEF Pending
<1>5. ASSUME NEW b \in Device, NEW q \in Peer, NEW k \in Keypairs(ny[b], q)
      PROVE  k \in Keypairs(nz[b], q) \/ (b = d /\ q = p /\ k = kp)
  BY <1>2, <1>3, Zenon
<1>6. LocalBounded(ny, e)
  <2>1. ASSUME NEW b \in Device, NEW q \in Peer PROVE ny[b].hs[q].local_ephemeral <= e
    <3>1. nz[b].hs[q].local_ephemeral <= e /\ nz[b].hs[q].local_ephemeral \in Nat
      BY LocalEphemeral, Zenon
    <3>2. m.hs[p].local_ephemeral = 0
      BY Zenon DEF Begins
    <3> QED BY <1>2, <1>3, <3>1, <3>2
  <2>2. \A b \in Device : b \notin nz[b].peers
    BY Zenon DEF KeysInv, LocalBounded
  <2>3. \A b \in Device : b \notin ny[b].peers
    BY <1>1, <2>2, Zenon DEF Begins
  <2> QED BY <2>1, <2>3, Zenon DEF LocalBounded
<1>7. KeypairsDerived(ny, nt)
  <2>1. ASSUME NEW b \in Device, NEW q \in Peer, NEW k \in Keypairs(ny[b], q)
        PROVE  ResponseFor(b, q, k) \in nt
    BY <1>5 DEF KeysInv, KeypairsDerived, NewKey
  <2> QED BY <2>1, Zenon DEF KeypairsDerived
<1>8. NoncesAhead(ny, nt)
  <2>1. ASSUME NEW b \in Device, NEW q \in Peer, NEW k \in Keypairs(ny[b], q), NEW s \in nt,
               s.type = "transport", s.key = k.key, s.by_initiator = k.is_initiator
        PROVE  s.counter < k.send_nonce
    BY <1>5, <2>1, Zenon DEF KeysInv, NoncesAhead, NewKey
  <2> QED BY <2>1, Zenon DEF NoncesAhead
<1>9. Timestamps(ny)
  <2>1. ASSUME NEW k \in Keypairs(nz[d], p), ~k.is_initiator PROVE k.key[1] <= ny[d].hs[p].last_timestamp
    <3>1. k.key[1] <= nz[d].hs[p].last_timestamp
      BY <2>1, Zenon DEF KeysInv, Timestamps
    <3>2. k.key[1] \in Nat /\ nz[d].hs[p].last_timestamp \in Nat /\ m.hs[p].last_timestamp \in Nat
      <4>1. nz[d] \in NoiseState /\ k \in Keypair
        BY KeypairsType, Zenon
      <4> QED BY <4>1, SMTT(20), Zenon DEF Keypair, Key, NoiseState, Handshake
    <3>3. nz[d].hs[p].last_timestamp <= m.hs[p].last_timestamp
      BY Zenon DEF Begins
    <3> QED BY <1>3, <3>1, <3>2, <3>3
  <2>2. ASSUME NEW b \in Device, NEW q \in Peer, NEW k \in Keypairs(ny[b], q), ~k.is_initiator
        PROVE  k.key[1] <= ny[b].hs[q].last_timestamp
    <3>1. CASE b = d /\ q = p
      BY <1>3, <1>5, <2>1, <2>2, <3>1, Zenon DEF Begins
    <3>2. CASE ~(b = d /\ q = p)
      BY <1>2, <2>2, <3>2, Zenon DEF KeysInv, Timestamps
    <3> QED BY <3>1, <3>2, Zenon
  <2> QED BY <2>2, Zenon DEF Timestamps
<1>10. Confirmed(ny, nt)
  <2>1. ASSUME NEW b \in Device, NEW q \in Peer,
               Exists(ny[b].current[q]), ~ny[b].current[q].is_initiator
        PROVE  \E s \in nt : s.type = "transport" /\ s.key = ny[b].current[q].key /\ s.by_initiator
    <3>1. ny[b].current[q] = nz[b].current[q]
      BY <1>2, <1>3, <2>1, Zenon DEF Begins
    <3>2. Confirmed(nz, nt)
      BY Zenon DEF KeysInv
    <3>3. Exists(nz[b].current[q]) /\ ~nz[b].current[q].is_initiator
      BY <2>1, <3>1, Zenon
    <3>4. \E s \in nt : s.type = "transport" /\ s.key = nz[b].current[q].key /\ s.by_initiator
      BY ONLY <3>2, <3>3, b \in Device, q \in Peer, ConfirmedCurrent
    <3> QED BY <3>1, <3>4, Zenon
  <2> QED BY <2>1, Zenon DEF Confirmed
<1>11. EphemeralUnused(ny, nt)
  <2> SUFFICES ASSUME NEW b \in Device, NEW r \in Peer, Pending(ny[b], r)
               PROVE  LET x == ny[b].hs[r].local_ephemeral
                      IN  /\ \A s \in nt : s.type = "transport" /\ s.by_initiator => s.key[1] # x
                          /\ \A c \in Device, q \in Peer :
                               /\ \A k \in Keypairs(ny[c], q) : k.is_initiator => k.key[1] # x
                               /\ Pending(ny[c], q) /\ ny[c].hs[q].local_ephemeral = x => c = b /\ q = r
    BY Zenon DEF EphemeralUnused
  <2> DEFINE x == ny[b].hs[r].local_ephemeral
  <2>1. Pending(nz[b], r) /\ x = nz[b].hs[r].local_ephemeral /\ ~(b = d /\ r = p)
    BY <1>4, Zenon
  <2> HIDE DEF x
  <2>2. /\ \A s \in nt : s.type = "transport" /\ s.by_initiator => s.key[1] # x
        /\ \A c \in Device, q \in Peer :
             /\ \A k \in Keypairs(nz[c], q) : k.is_initiator => k.key[1] # x
             /\ Pending(nz[c], q) /\ nz[c].hs[q].local_ephemeral = x => c = b /\ q = r
    <3>1. EphemeralUnused(nz, nt)
      BY Zenon DEF KeysInv
    <3>2. /\ \A s \in nt : s.type = "transport" /\ s.by_initiator => s.key[1] # nz[b].hs[r].local_ephemeral
          /\ \A c \in Device, q \in Peer :
               /\ \A k \in Keypairs(nz[c], q) : k.is_initiator => k.key[1] # nz[b].hs[r].local_ephemeral
               /\ Pending(nz[c], q) /\ nz[c].hs[q].local_ephemeral = nz[b].hs[r].local_ephemeral
                    => c = b /\ q = r
      BY ONLY <2>1, <3>1, UnusedKey, Zenon
    <3> QED BY <2>1, <3>2, Zenon
  <2>3. ASSUME NEW c \in Device, NEW q \in Peer, NEW k \in Keypairs(ny[c], q), k.is_initiator
        PROVE  k.key[1] # x
    <3>1. CASE k \in Keypairs(nz[c], q)
      BY <2>2, <2>3, <3>1, Zenon
    <3>2. CASE c = d /\ q = p /\ k = kp
      BY <2>1, <2>3, <3>2, Zenon DEF NewKey
    <3> QED BY <1>5, <3>1, <3>2, Zenon
  <2>4. ASSUME NEW c \in Device, NEW q \in Peer, Pending(ny[c], q), ny[c].hs[q].local_ephemeral = x
        PROVE  c = b /\ q = r
    BY <1>4, <2>2, <2>4, Zenon
  <2> QED BY <2>2, <2>3, <2>4, Zenon DEF x
<1>12. Delivered(ny, nt, dl)
  <2>1. ASSUME NEW s \in nt, s.type = "transport", s.packet \in Packet, dl[s.packet] = 1,
               NEW b \in Device, NEW q \in Peer
        PROVE  /\ \A k \in Keypairs(ny[b], q) :
                    k.key = s.key /\ k.is_initiator # s.by_initiator => s.counter \in k.replay
               /\ Pending(ny[b], q) /\ ~s.by_initiator => ny[b].hs[q].local_ephemeral # s.key[1]
    <3>1. /\ \A k \in Keypairs(nz[b], q) :
               k.key = s.key /\ k.is_initiator # s.by_initiator => s.counter \in k.replay
          /\ Pending(nz[b], q) /\ ~s.by_initiator => nz[b].hs[q].local_ephemeral # s.key[1]
      BY <2>1, Zenon DEF KeysInv, Delivered
    <3>2. ASSUME NEW k \in Keypairs(ny[b], q), k.key = s.key, k.is_initiator # s.by_initiator
          PROVE  s.counter \in k.replay
      BY <1>5, <2>1, <3>1, <3>2, Zenon DEF NewKey
    <3>3. Pending(ny[b], q) /\ ~s.by_initiator => ny[b].hs[q].local_ephemeral # s.key[1]
      BY <1>4, <3>1, Zenon
    <3> QED BY <3>2, <3>3, Zenon
  <2> QED BY <2>1, Zenon DEF KeysInv, Delivered
<1> QED BY <1>0, <1>6, <1>7, <1>8, <1>9, <1>10, <1>11, <1>12, Zenon DEF KeysInv, ny

\* The messages msgs have nonces from lo on that the keypair kp has used up, and
\* their packets are new.
Batch(msgs, kp, lo, nt, dl) ==
  /\ \A s \in msgs : /\ s.key = kp.key /\ s.by_initiator = kp.is_initiator
                     /\ lo <= s.counter /\ s.counter < kp.send_nonce
                     /\ s.packet \in Packet => dl[s.packet] = 0
  /\ \A s1, s2 \in msgs : s1.counter = s2.counter => s1 = s2
  /\ \A s \in nt : s.type = "transport" /\ s.key = kp.key /\ s.by_initiator = kp.is_initiator
                    => s.counter < lo

\* A batch of messages is sent.
LEMMA TransportsSent ==
  ASSUME NEW nz \in [Device -> NoiseState], \A b \in Device : NoiseInv(nz[b]),
         NEW nt \in SUBSET Message, NEW e \in Nat,
         NEW dl \in [Packet -> Nat], NEW d \in Device, NEW p \in Peer, NEW kp \in Keypairs(nz[d], p),
         KeysInv(nz, nt, e, dl), NEW lo \in Nat, NEW msgs \in SUBSET Transport,
         Batch(msgs, kp, lo, nt, dl)
  PROVE  KeysInv(nz, nt \cup msgs, e, dl)
<1> USE DEF Batch
<1> DEFINE nu == nt \cup msgs
<1>1. \A s \in msgs : s.type = "transport" /\ s.counter \in Nat
  BY Zenon DEF Transport
<1>2. \A r \in nu : r \in nt \/ r \in msgs
  BY Zenon
<1>3. nt \subseteq nu
  BY Zenon
<1> HIDE DEF nu
<1>4. kp.key[1] <= e /\ kp.key[2] <= e
  BY KeyBounded, Zenon DEF KeysInv
<1>5. NetBounded(nu, e)
  BY <1>1, <1>2, <1>4, Zenon DEF KeysInv, NetBounded
<1>6. ResponsesUnique(nu)
  BY <1>1, <1>2, Zenon DEF KeysInv, ResponsesUnique
<1>7. KeypairsDerived(nz, nu) /\ Confirmed(nz, nu)
  BY <1>3, Zenon DEF KeysInv, KeypairsDerived, Confirmed
<1>8. EphemeralUnused(nz, nu)
  <2>1. ASSUME NEW b \in Device, NEW q \in Peer, Pending(nz[b], q), NEW s \in nu,
               s.type = "transport", s.by_initiator
        PROVE  s.key[1] # nz[b].hs[q].local_ephemeral
    <3>1. CASE s \in nt
      BY <2>1, <3>1, Zenon DEF KeysInv, EphemeralUnused
    <3>2. CASE s \in msgs
      <4>1. EphemeralUnused(nz, nt)
        BY Zenon DEF KeysInv
      <4>2. s.key = kp.key /\ s.by_initiator = kp.is_initiator
        BY <3>2, Zenon
      <4>3. kp.is_initiator => kp.key[1] # nz[b].hs[q].local_ephemeral
        BY ONLY <2>1, <4>1, b \in Device, q \in Peer, d \in Device, p \in Peer,
                kp \in Keypairs(nz[d], p), UnusedKey
      <4> QED BY <2>1, <4>2, <4>3, Zenon
    <3> QED BY <1>2, <3>1, <3>2, Zenon
  <2> QED BY <2>1 DEF KeysInv, EphemeralUnused
<1>9. NoncesAhead(nz, nu)
  <2>1. ASSUME NEW b \in Device, NEW q \in Peer, NEW k \in Keypairs(nz[b], q), NEW s \in nu,
               s.type = "transport", s.key = k.key, s.by_initiator = k.is_initiator
        PROVE  s.counter < k.send_nonce
    <3>1. CASE s \in nt
      BY <2>1, <3>1, Zenon DEF KeysInv, NoncesAhead
    <3>2. CASE s \in msgs
      <4>1. k.key = kp.key /\ k.is_initiator = kp.is_initiator
        BY <2>1, <3>2, Zenon
      <4>2. k = kp
        BY <4>1, SameHolder DEF KeysInv
      <4> QED BY <3>2, <4>2, Zenon
    <3> QED BY <1>2, <3>1, <3>2, Zenon
  <2> QED BY <2>1, Zenon DEF NoncesAhead
<1>10. NoncesUnique(nu)
  <2>1. ASSUME NEW s1 \in nu, NEW s2 \in nu, s1.type = "transport", s2.type = "transport",
               s1.key = s2.key, s1.by_initiator = s2.by_initiator, s1.counter = s2.counter
        PROVE  s1 = s2
    <3>0. \A s \in nt : s.type = "transport" => s.counter \in Nat
      BY MessageTypes DEF Transport
    <3>1. CASE s1 \in nt /\ s2 \in nt
      BY <2>1, <3>1, Zenon DEF KeysInv, NoncesUnique
    <3>2. CASE s1 \in msgs /\ s2 \in msgs
      BY <2>1, <3>2
    <3>3. CASE s1 \in nt /\ s2 \in msgs
      BY <1>1, <2>1, <3>0, <3>3
    <3>4. CASE s1 \in msgs /\ s2 \in nt
      BY <1>1, <2>1, <3>0, <3>4
    <3> QED BY <1>2, <3>1, <3>2, <3>3, <3>4, Zenon
  <2> QED BY <2>1, Zenon DEF NoncesUnique
<1>11. Delivered(nz, nu, dl)
  <2>1. \A x \in Packet : dl[x] <= 1 /\ (dl[x] = 1 => \E s \in nu : Carries(s, x))
    BY <1>3, Zenon DEF KeysInv, Delivered
  <2>2. \A s \in nu : s.packet \in Packet /\ dl[s.packet] = 1 => s \in nt
    BY <1>2
  <2> QED BY <2>1, <2>2, Zenon DEF KeysInv, Delivered
<1> QED BY <1>5, <1>6, <1>7, <1>8, <1>9, <1>10, <1>11, Zenon DEF KeysInv, nu

----------------------------------------------------------------------------
(* Where a packet is *)

\* A packet is handed out, staged or sent, and that once.
PacketsApart(q, nt, us) ==
  /\ \A s \in nt, x \in us : ~Carries(s, x)
  /\ \A s1, s2 \in nt : \A x \in Packet : Carries(s1, x) /\ Carries(s2, x) => s1 = s2
  /\ \A d \in Device, p \in Peer : \A k \in DOMAIN q[d][p].staged :
       LET x == q[d][p].staged[k]
       IN  /\ x \notin us
           /\ \A s \in nt : ~Carries(s, x)
           /\ \A b \in Device, r \in Peer : \A j \in DOMAIN q[b][r].staged :
                q[b][r].staged[j] = x => b = d /\ r = p /\ j = k

\* Packet x is nowhere.
Fresh(x, q, nt, us) ==
  /\ x \notin us
  /\ \A s \in nt : ~Carries(s, x)
  /\ \A d \in Device, p \in Peer : \A j \in DOMAIN q[d][p].staged : q[d][p].staged[j] # x

\* The packets of xs are in the hand of a handler and nowhere else.
InHand(xs, q, nt, us) ==
  \A k \in DOMAIN xs : xs[k] \in Packet =>
    /\ Fresh(xs[k], q, nt, us)
    /\ \A j \in DOMAIN xs : xs[j] = xs[k] => j = k

\* Packets may be dropped, and handshake messages sent.
LEMMA ApartLess ==
  ASSUME NEW q, NEW nt, NEW us, PacketsApart(q, nt, us),
         NEW q2, \A d \in Device, p \in Peer : q2[d][p].staged \in {<<>>, q[d][p].staged},
         NEW nu, \A s \in nu : s \in nt \/ s.type # "transport",
         NEW uu \in SUBSET us
  PROVE  PacketsApart(q2, nu, uu)
<1>1. \A s \in nu, x \in uu : ~Carries(s, x)
  BY Zenon DEF PacketsApart, Carries
<1>2. \A s1, s2 \in nu : \A x \in Packet : Carries(s1, x) /\ Carries(s2, x) => s1 = s2
  BY Zenon DEF PacketsApart, Carries
<1>3. ASSUME NEW d \in Device, NEW p \in Peer, NEW k \in DOMAIN q2[d][p].staged
      PROVE  q2[d][p].staged = q[d][p].staged
  BY <1>3
<1>4. ASSUME NEW d \in Device, NEW p \in Peer, NEW k \in DOMAIN q2[d][p].staged
      PROVE  LET x == q2[d][p].staged[k]
             IN  /\ x \notin uu
                 /\ \A s \in nu : ~Carries(s, x)
                 /\ \A b \in Device, r \in Peer : \A j \in DOMAIN q2[b][r].staged :
                      q2[b][r].staged[j] = x => b = d /\ r = p /\ j = k
  <2> DEFINE x == q2[d][p].staged[k]
  <2>1. x = q[d][p].staged[k] /\ k \in DOMAIN q[d][p].staged
    BY ONLY <1>3, Zenon
  <2> HIDE DEF x
  <2>2. /\ x \notin us
        /\ \A s \in nt : ~Carries(s, x)
        /\ \A b \in Device, r \in Peer : \A j \in DOMAIN q[b][r].staged :
             q[b][r].staged[j] = x => b = d /\ r = p /\ j = k
    BY <2>1 DEF PacketsApart
  <2>3. \A s \in nu : ~Carries(s, x)
    BY <2>2, Zenon DEF Carries
  <2>4. ASSUME NEW b \in Device, NEW r \in Peer, NEW j \in DOMAIN q2[b][r].staged,
               q2[b][r].staged[j] = x
        PROVE  b = d /\ r = p /\ j = k
    BY ONLY <1>3, <2>2, <2>4
  <2> QED BY <2>2, <2>3, <2>4, Zenon DEF x
<1> QED BY <1>1, <1>2, <1>4, Zenon DEF PacketsApart

\* A packet in the hand is staged.
LEMMA ApartStaged ==
  ASSUME NEW q \in [Device -> [Peer -> PeerIO]], NEW nt, NEW us, PacketsApart(q, nt, us),
         NEW x \in Packet, Fresh(x, q, nt, us),
         NEW d \in Device, NEW p \in Peer,
         NEW q2, q2[d][p].staged = Append(q[d][p].staged, x),
         \A b \in Device, r \in Peer : ~(b = d /\ r = p) => q2[b][r].staged = q[b][r].staged
  PROVE  PacketsApart(q2, nt, us)
<1>0. q[d][p].staged \in Seq(Packet)
  BY Zenon DEF PeerIO
<1>1. /\ x \notin us
      /\ \A s \in nt : ~Carries(s, x)
      /\ \A b \in Device, r \in Peer : \A j \in DOMAIN q[b][r].staged : q[b][r].staged[j] # x
  BY Zenon DEF Fresh
<1> DEFINE l == Len(q[d][p].staged) + 1
<1>2. /\ DOMAIN q2[d][p].staged = 1 .. l /\ DOMAIN q[d][p].staged = 1 .. l - 1 /\ l \in Nat
      /\ q2[d][p].staged[l] = x
      /\ \A j \in 1 .. l - 1 : q2[d][p].staged[j] = q[d][p].staged[j]
  BY <1>0
<1> HIDE DEF l
<1>3. ASSUME NEW b \in Device, NEW r \in Peer, NEW j \in DOMAIN q2[b][r].staged
      PROVE  \/ j \in DOMAIN q[b][r].staged /\ q2[b][r].staged[j] = q[b][r].staged[j]
             \/ b = d /\ r = p /\ j = l /\ q2[b][r].staged[j] = x
  <2>1. CASE b = d /\ r = p
    BY ONLY <1>2, <2>1
  <2>2. CASE ~(b = d /\ r = p)
    BY <2>2, Zenon
  <2> QED BY ONLY <2>1, <2>2, Zenon
<1>4. ASSUME NEW b \in Device, NEW r \in Peer, NEW k \in DOMAIN q2[b][r].staged
      PROVE  LET y == q2[b][r].staged[k]
             IN  /\ y \notin us
                 /\ \A s \in nt : ~Carries(s, y)
                 /\ \A c \in Device, t \in Peer : \A j \in DOMAIN q2[c][t].staged :
                      q2[c][t].staged[j] = y => c = b /\ t = r /\ j = k
  <2>1. CASE b = d /\ r = p /\ k = l /\ q2[b][r].staged[k] = x
    <3>1. ASSUME NEW c \in Device, NEW t \in Peer, NEW j \in DOMAIN q2[c][t].staged,
                 q2[c][t].staged[j] = x
          PROVE  c = b /\ t = r /\ j = k
      BY ONLY <1>1, <1>3, <2>1, <3>1
    <3> QED BY ONLY <1>1, <2>1, <3>1, Zenon
  <2>2. CASE k \in DOMAIN q[b][r].staged /\ q2[b][r].staged[k] = q[b][r].staged[k]
    <3> DEFINE y == q[b][r].staged[k]
    <3>1. /\ y \notin us
          /\ \A s \in nt : ~Carries(s, y)
          /\ \A c \in Device, t \in Peer : \A j \in DOMAIN q[c][t].staged :
               q[c][t].staged[j] = y => c = b /\ t = r /\ j = k
      BY <2>2 DEF PacketsApart
    <3>2. y # x
      BY ONLY <1>1, <2>2, Zenon
    <3> HIDE DEF y
    <3>3. ASSUME NEW c \in Device, NEW t \in Peer, NEW j \in DOMAIN q2[c][t].staged,
                 q2[c][t].staged[j] = y
          PROVE  c = b /\ t = r /\ j = k
      BY ONLY <1>3, <3>1, <3>2, <3>3, Zenon
    <3>4. q2[b][r].staged[k] = y
      BY <2>2, Zenon DEF y
    <3> QED BY ONLY <3>1, <3>3, <3>4, Zenon
  <2> QED BY <1>3, <2>1, <2>2, Zenon
<1> QED BY <1>4, Zenon DEF PacketsApart

\* Packets in the hand are sent, each in one message.
LEMMA ApartSent ==
  ASSUME NEW q, NEW nt, NEW us, PacketsApart(q, nt, us),
         NEW xs, InHand(xs, q, nt, us), NEW msgs,
         \A s \in msgs : \E k \in DOMAIN xs : s.packet = xs[k],
         \A s1, s2 \in msgs : \A k \in DOMAIN xs :
           (\A j \in DOMAIN xs : xs[j] = xs[k] => j = k)
           /\ s1.packet = xs[k] /\ s2.packet = xs[k] => s1 = s2,
         \A y \in us : y \in Packet,
         \A d \in Device, p \in Peer : \A k \in DOMAIN q[d][p].staged : q[d][p].staged[k] \in Packet
  PROVE  PacketsApart(q, nt \cup msgs, us)
<1>1. ASSUME NEW s \in msgs, NEW x \in Packet, Carries(s, x)
      PROVE  /\ x \notin us
             /\ \A r \in nt : ~Carries(r, x)
             /\ \A d \in Device, p \in Peer : \A j \in DOMAIN q[d][p].staged : q[d][p].staged[j] # x
             /\ \A r \in msgs : Carries(r, x) => r = s
  <2>1. PICK k \in DOMAIN xs : xs[k] = x
    BY <1>1, Zenon DEF Carries
  <2>2. /\ x \notin us
        /\ \A r \in nt : ~Carries(r, x)
        /\ \A d \in Device, p \in Peer : \A j \in DOMAIN q[d][p].staged : q[d][p].staged[j] # x
        /\ \A j \in DOMAIN xs : xs[j] = x => j = k
    BY <2>1 DEF InHand, Fresh
  <2>3. ASSUME NEW r \in msgs, Carries(r, x) PROVE r = s
    BY <1>1, <2>1, <2>2, <2>3 DEF Carries
  <2> QED BY ONLY <2>2, <2>3, Zenon
<1> QED BY <1>1 DEF PacketsApart

\* The staged packets are taken out of the queue.
LEMMA ApartTaken ==
  ASSUME NEW q, NEW nt, NEW us, PacketsApart(q, nt, us), NEW d \in Device, NEW p \in Peer,
         NEW q2, q2[d][p].staged = <<>>,
         \A b \in Device, r \in Peer : ~(b = d /\ r = p) => q2[b][r].staged = q[b][r].staged
  PROVE  InHand(q[d][p].staged, q2, nt, us)
<1> DEFINE xs == q[d][p].staged
<1> SUFFICES ASSUME NEW k \in DOMAIN xs
             PROVE  /\ xs[k] \notin us
                    /\ \A s \in nt : ~Carries(s, xs[k])
                    /\ \A b \in Device, r \in Peer : \A j \in DOMAIN q2[b][r].staged :
                         q2[b][r].staged[j] # xs[k]
                    /\ \A j \in DOMAIN xs : xs[j] = xs[k] => j = k
  BY Zenon DEF InHand, Fresh
<1>1. /\ xs[k] \notin us
      /\ \A s \in nt : ~Carries(s, xs[k])
      /\ \A b \in Device, r \in Peer : \A j \in DOMAIN q[b][r].staged :
           q[b][r].staged[j] = xs[k] => b = d /\ r = p /\ j = k
  BY DEF PacketsApart
<1>2. ASSUME NEW b \in Device, NEW r \in Peer, NEW j \in DOMAIN q2[b][r].staged
      PROVE  q2[b][r].staged[j] # xs[k]
  <2>1. ~(b = d /\ r = p)
    BY <1>2
  <2> QED BY <1>1, <1>2, <2>1
<1> QED BY <1>1, <1>2
=============================================================================

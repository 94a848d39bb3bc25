------------------------------ MODULE Session ------------------------------
(***************************************************************************)
(* WireGuard sessions between devices: the handlers of device.c and the    *)
(* timer callbacks of timers.c over the noise state of module Noise, with  *)
(* a network that loses, duplicates and reorders datagrams.  All of this   *)
(* runs on the main event loop of a process, so a handler is one step.     *)
(*                                                                         *)
(* Time is abstracted: a timer that is armed may fire, a keypair may age,  *)
(* a rate limit may lapse.  timer_send_keepalive and the persistent        *)
(* keepalive are not tracked: a keepalive may be sent in any state.  The   *)
(* flood limit of noise_consume_initiation is a lost datagram, and an      *)
(* AEAD or MAC failure is a datagram that no handler accepts.              *)
(***************************************************************************)
EXTENDS Noise, Sequences

CONSTANTS Configured,       \* devices whose configuration has the endpoints of their peers
          Packet,           \* IP packets handed to device_send_to_peer, each once
          Keepalive,        \* the empty packet
          PEER_QUEUE_SIZE,
          MAX_TIMER_HANDSHAKES,
          MaxInitiations,   \* bound: initiations created, over all devices
          MaxNonce,         \* bound: messages sent on a keypair
          MaxResets,        \* bound: restarts and peer removals
          Ages              \* bound: the limits that keypairs pass

ASSUME SessionAssumption ==
  /\ Configured \subseteq Peer
  /\ Keepalive \notin Packet
  /\ PEER_QUEUE_SIZE \in Nat \ {0}
  /\ MAX_TIMER_HANDSHAKES \in Nat
  /\ MaxInitiations \in Nat
  /\ MaxNonce \in Nat
  /\ MaxResets \in Nat
  /\ Ages \subseteq {"rekey", "reject"}

\* A device is named by its public key.
Device == Peer

VARIABLES
  noise,        \* noise[d]: noise state of device d
  io,           \* io[d][p]: staged packets, endpoint and timers of peer p of d
  spinning,     \* devices whose event loop is caught in the loop of handle_initiation
  net,          \* the datagrams ever sent
  ephemerals,   \* ephemeral keys generated so far; also the clock
  initiations,  \* initiations created so far
  resets,       \* restarts and removals so far
  unsent,       \* packets not handed to a device yet
  delivered     \* delivered[x]: how often packet x came out of handle_transport

vars == <<noise, io, spinning, net, ephemerals, initiations, resets, unsent, delivered>>

Attempts == 0..MAX_TIMER_HANDSHAKES

\* staged_pkts, endpoint_len # 0, which timers are armed, handshake_attempts.
\* timer_zero_key_material is "due" when it was armed with a timeout of 0.
PeerIO ==
  [staged : Seq(Packet), endpoint : BOOLEAN, retransmit : BOOLEAN,
   new_handshake : BOOLEAN, zero : {"off", "armed", "due"}, attempts : Attempts]

Initiation == [type : {"initiation"}, to : Device, from : Device, sender : Index, eph : Nat]
Response   == [type : {"response"}, to : Device, from : Device, sender : Index,
               receiver : Index \cup {NoIndex}, init_eph : Nat, eph : Nat]
Transport  == [type : {"transport"}, to : Device, receiver : Index \cup {NoIndex}, key : Key,
               by_initiator : BOOLEAN, counter : Nat, packet : Packet \cup {Keepalive}]
Message    == Initiation \cup Response \cup Transport

TypeOK ==
  /\ noise \in [Device -> NoiseState]
  /\ io \in [Device -> [Peer -> PeerIO]]
  /\ \A d \in Device, p \in Peer : Len(io[d][p].staged) <= PEER_QUEUE_SIZE
  /\ spinning \subseteq Device
  /\ net \subseteq Message
  /\ ephemerals \in Nat /\ initiations \in Nat /\ resets \in Nat
  /\ unsent \subseteq Packet
  /\ delivered \in [Packet -> Nat]

device_add_peer_io(d) ==
  [staged |-> <<>>, endpoint |-> d \in Configured, retransmit |-> FALSE,
   new_handshake |-> FALSE, zero |-> "off", attempts |-> 0]

\* Every device has every other one as a peer.
Init ==
  /\ noise = [d \in Device |-> noise_init(Peer \ {d})]
  /\ io = [d \in Device |-> [p \in Peer |-> device_add_peer_io(d)]]
  /\ spinning = {}
  /\ net = {}
  /\ ephemerals = 0 /\ initiations = 0 /\ resets = 0
  /\ unsent = Packet
  /\ delivered = [x \in Packet |-> 0]

----------------------------------------------------------------------------
(* Sending, as operators on a context: the noise state n of the device, the *)
(* state q of the peer, the datagrams sent, and the two counters.           *)

Context(d, p) ==
  [n |-> noise[d], q |-> io[d][p], out |-> {}, e |-> ephemerals, inits |-> initiations]

peer_stage_packet(q, x) ==
  IF x = Keepalive \/ Len(q.staged) = PEER_QUEUE_SIZE THEN q
  ELSE [q EXCEPT !.staged = Append(@, x)]

\* device_initiate_handshake_inner with index i picked; the retransmit timer
\* only starts when the initiation could be sent somewhere.
device_initiate_handshake_inner(c, d, p, force, i) ==
  IF c.n.hs[p].sent_recently /\ ~force THEN c
  ELSE LET n1  == [c.n EXCEPT !.hs[p].sent_recently = TRUE]
           n2  == noise_create_initiation(n1, p, i, c.e + 1)
           c1  == [c EXCEPT !.n = n2, !.e = @ + 1, !.inits = @ + 1]
           msg == [type |-> "initiation", to |-> p, from |-> d, sender |-> i, eph |-> c.e + 1]
       IN  IF i = NoIndex \/ ~c.q.endpoint THEN c1
           ELSE [c1 EXCEPT !.out = @ \cup {msg}, !.q.retransmit = TRUE]

timers_handshake_begin(c, d, p, i) ==
  IF c.q.retransmit THEN c
  ELSE device_initiate_handshake_inner(c, d, p, FALSE, i)

TransportMsg(kp, p, k, x) ==
  [type |-> "transport", to |-> p, receiver |-> kp.remote_index, key |-> kp.key,
   by_initiator |-> kp.is_initiator, counter |-> kp.send_nonce + k, packet |-> x]

\* device_send_to_peer for the packets of the sequence xs, one after the other.
\* Without an endpoint the nonce is used up and the packet is dropped.
device_send_to_peer(c, d, p, xs, i) ==
  LET kp   == SendKeypair(c.n, p)
      sent == [c EXCEPT !.n = WithSendKeypair(@, p, [kp EXCEPT !.send_nonce = @ + Len(xs)]),
                        !.out = @ \cup (IF c.q.endpoint
                                        THEN {TransportMsg(kp, p, k - 1, xs[k]) : k \in DOMAIN xs}
                                        ELSE {})]
      staged == [c EXCEPT !.q = peer_stage_packet(@, xs[1])]
  IN  CASE ~Exists(kp)         -> device_initiate_handshake_inner(staged, d, p, FALSE, i)
        [] kp.age = "reject"   -> timers_handshake_begin(staged, d, p, i)
        [] kp.age = "rekey"    -> timers_handshake_begin(sent, d, p, i)
        [] OTHER               -> sent

\* The handshake succeeded: no retransmission, a rekey and an erasure to come.
timers_handshake_complete(q) ==
  [q EXCEPT !.attempts = 0, !.retransmit = FALSE, !.new_handshake = TRUE, !.zero = "armed"]

\* Each packet that the flush loop takes out of the queue is staged again when
\* the keypair for sending is past its limits, so the loop has no end.
FlushSpins(c, p) == c.q.staged # <<>> /\ SendKeypair(c.n, p).age = "reject"


\* The loop over the staged packets: each one leaves the queue and is sent.
FlushStaged(c, d, p, i) ==
  CASE c.q.staged = <<>>  -> c
    [] FlushSpins(c, p)   -> timers_handshake_begin(c, d, p, i)
    [] OTHER -> device_send_to_peer([c EXCEPT !.q.staged = <<>>], d, p, c.q.staged, i)

\* What a handler of device d leaves behind.
Commit(c, d, p) ==
  /\ c.inits <= MaxInitiations
  /\ SendKeypair(c.n, p).send_nonce <= MaxNonce
  /\ noise' = [noise EXCEPT ![d] = c.n]
  /\ io' = [io EXCEPT ![d][p] = c.q]
  /\ net' = net \cup c.out
  /\ ephemerals' = c.e
  /\ initiations' = c.inits

----------------------------------------------------------------------------
(* Packets from the local side *)

\* device_send_ip_packet routes x to peer p.
SendPacket(d, p, x) ==
  /\ x \in unsent
  /\ \E i \in Picks(noise[d], p) :
       Commit(device_send_to_peer(Context(d, p), d, p, <<x>>, i), d, p)
  /\ unsent' = unsent \ {x}
  /\ UNCHANGED <<spinning, resets, delivered>>

\* device_send_keepalive, from cb_send_keepalive or cb_persistent_keepalive.
SendKeepalive(d, p) ==
  /\ \E i \in Picks(noise[d], p) :
       Commit(device_send_to_peer(Context(d, p), d, p, <<Keepalive>>, i), d, p)
  /\ UNCHANGED <<spinning, resets, unsent, delivered>>

----------------------------------------------------------------------------
(* Datagrams from the network *)

\* Mutant: an initiation with the last timestamp is accepted again.
NotReplayedOrEqual(h, e) == e >= h.last_timestamp

\* The replay protection of noise_consume_initiation (tai64n_after).
NotReplayed(h, e) == e > h.last_timestamp

\* handle_initiation: consume, learn the endpoint, respond, begin the session,
\* flush the staged packets.
HandleInitiation(d, m) ==
  LET p  == m.from
      n1 == noise_consume_initiation(noise[d], p, m.sender, m.eph)
      q1 == [io[d][p] EXCEPT !.endpoint = TRUE]
  IN  /\ m.type = "initiation" /\ m.to = d
      /\ p \in noise[d].peers
      /\ NotReplayed(noise[d].hs[p], m.eph)
      /\ \E j \in Picks(n1, p) :
           LET e   == ephemerals + 1
               n2  == noise_create_response(n1, p, j, e)
               msg == [type |-> "response", to |-> p, from |-> d, sender |-> j,
                       receiver |-> m.sender, init_eph |-> m.eph, eph |-> e]
               c1  == [n |-> n2, q |-> q1, out |-> {}, e |-> ephemerals, inits |-> initiations]
               n3  == noise_begin_session(n2, p)
               c2  == [n |-> n3, q |-> timers_handshake_complete(q1), out |-> {msg},
                       e |-> e, inits |-> initiations]
           IN  IF j = NoIndex
               THEN Commit(c1, d, p) /\ UNCHANGED spinning
               ELSE \E i \in Picks(n3, p) :
                      /\ Commit(FlushStaged(c2, d, p, i), d, p)
                      /\ spinning' = IF FlushSpins(c2, p) THEN spinning \cup {d} ELSE spinning
      /\ UNCHANGED <<resets, unsent, delivered>>

\* handle_response: consume, learn the endpoint, begin the session, flush the
\* staged packets or confirm the session with a keepalive.
HandleResponse(d, m) ==
  LET entry == noise[d].table[m.receiver]
      p  == entry.peer
      n2 == noise_begin_session(noise_consume_response(noise[d], p, m.sender, m.eph), p)
      q1 == timers_handshake_complete([io[d][p] EXCEPT !.endpoint = TRUE])
      c  == [n |-> n2, q |-> q1, out |-> {}, e |-> ephemerals, inits |-> initiations]
  IN  /\ m.type = "response" /\ m.to = d
      /\ m.receiver \in Index /\ entry.type = "handshake"
      /\ noise[d].hs[p].state = "INITIATION_CREATED"
      /\ noise[d].hs[p].local_ephemeral = m.init_eph /\ p = m.from
      /\ \E i \in Picks(n2, p) :
           Commit(IF q1.staged = <<>> THEN device_send_to_peer(c, d, p, <<Keepalive>>, i)
                  ELSE FlushStaged(c, d, p, i), d, p)
      /\ UNCHANGED <<spinning, resets, unsent, delivered>>

\* The keypair an entry of the index table points to.
KeypairOf(n, entry) ==
  LET kps == {n.current[entry.peer], n.next[entry.peer], n.prev[entry.peer]}
  IN  CHOOSE kp \in kps : kp.key = entry.keypair

Accepted(kp, k, counter) ==
  IF Exists(kp) /\ kp.key = k THEN [kp EXCEPT !.replay = @ \cup {counter}] ELSE kp

\* The received counter is recorded in the keypair with key k of peer p.
replay_commit(n, p, k, counter) ==
  [n EXCEPT !.current[p] = Accepted(@, k, counter),
            !.next[p] = Accepted(@, k, counter),
            !.prev[p] = Accepted(@, k, counter)]

\* handle_transport: replay check, decryption, replay commit, rotation of the
\* keypairs, roaming, delivery.
HandleTransport(d, m) ==
  LET entry == noise[d].table[m.receiver]
      p  == entry.peer
      kp == KeypairOf(noise[d], entry)
      n1 == replay_commit(noise[d], p, kp.key, m.counter)
  IN  /\ m.type = "transport" /\ m.to = d
      /\ m.receiver \in Index /\ entry.type = "keypair"
      /\ m.counter \notin kp.replay
      /\ kp.key = m.key /\ kp.is_initiator # m.by_initiator
      /\ noise' = [noise EXCEPT ![d] = IF Exists(n1.next[p]) /\ n1.next[p].key = kp.key
                                       THEN ConfirmNext(n1, p) ELSE n1]
      /\ io' = [io EXCEPT ![d][p].endpoint = TRUE]
      /\ delivered' = IF m.packet = Keepalive THEN delivered
                      ELSE [delivered EXCEPT ![m.packet] = @ + 1]
      /\ UNCHANGED <<spinning, net, ephemerals, initiations, resets, unsent>>

----------------------------------------------------------------------------
(* Timers *)

\* Mutant: the timer is only stopped.
timers_zero_key_material_later(q) == q

timers_zero_key_material(q) == [q EXCEPT !.zero = "due"]

\* Mutant: one attempt too many.
CbRetransmitHandshake_once_more(d, p) ==
  LET c0 == [Context(d, p) EXCEPT !.n.hs[p].sent_recently = FALSE]
      c1 == [c0 EXCEPT !.q.attempts = @ + 1]
  IN  /\ io[d][p].retransmit
      /\ IF io[d][p].attempts > MAX_TIMER_HANDSHAKES
         THEN Commit([c0 EXCEPT !.q = timers_zero_key_material(
                                  [@ EXCEPT !.retransmit = FALSE, !.attempts = 0])], d, p)
         ELSE \E i \in Picks(noise[d], p) :
                Commit(device_initiate_handshake_inner(c1, d, p, TRUE, i), d, p)
      /\ UNCHANGED <<spinning, resets, unsent, delivered>>

\* cb_retransmit_handshake fires no earlier than REKEY_TIMEOUT_MS after the
\* last initiation.
CbRetransmitHandshake(d, p) ==
  LET c0 == [Context(d, p) EXCEPT !.n.hs[p].sent_recently = FALSE]
      c1 == [c0 EXCEPT !.q.attempts = @ + 1]
  IN  /\ io[d][p].retransmit
      /\ IF io[d][p].attempts >= MAX_TIMER_HANDSHAKES
         THEN Commit([c0 EXCEPT !.q = timers_zero_key_material(
                                  [@ EXCEPT !.retransmit = FALSE, !.attempts = 0])], d, p)
         ELSE \E i \in Picks(noise[d], p) :
                Commit(device_initiate_handshake_inner(c1, d, p, TRUE, i), d, p)
      /\ UNCHANGED <<spinning, resets, unsent, delivered>>

CbNewHandshake(d, p) ==
  LET c == [Context(d, p) EXCEPT !.q.new_handshake = FALSE]
  IN  /\ io[d][p].new_handshake
      /\ \E i \in Picks(noise[d], p) :
           Commit(device_initiate_handshake_inner(c, d, p, FALSE, i), d, p)
      /\ UNCHANGED <<spinning, resets, unsent, delivered>>

CbZeroKeyMaterial(d, p) ==
  /\ io[d][p].zero # "off"
  /\ noise' = [noise EXCEPT ![d] = cb_zero_key_material_noise(@, p)]
  /\ io' = [io EXCEPT ![d][p].zero = "off"]
  /\ UNCHANGED <<spinning, net, ephemerals, initiations, resets, unsent, delivered>>

\* REKEY_TIMEOUT_MS pass since the last initiation.
RateLimitLapses(d, p) ==
  /\ noise[d].hs[p].sent_recently
  /\ noise' = [noise EXCEPT ![d].hs[p].sent_recently = FALSE]
  /\ UNCHANGED <<io, spinning, net, ephemerals, initiations, resets, unsent, delivered>>

\* The keypair used for sending passes one of its limits.
KeypairAges(d, p, age) ==
  LET kp == SendKeypair(noise[d], p)
  IN  /\ Exists(kp)
      /\ kp.age # age /\ kp.age # "reject"
      /\ noise' = [noise EXCEPT ![d] = WithSendKeypair(@, p, [kp EXCEPT !.age = age])]
      /\ UNCHANGED <<io, spinning, net, ephemerals, initiations, resets, unsent, delivered>>

----------------------------------------------------------------------------
(* Configuration and restart *)

device_remove_peer(d, p) ==
  /\ resets < MaxResets
  /\ noise' = [noise EXCEPT ![d] = peer_teardown_noise(@, p)]
  /\ io' = [io EXCEPT ![d][p] = device_add_peer_io(d)]
  /\ resets' = resets + 1
  /\ UNCHANGED <<spinning, net, ephemerals, initiations, unsent, delivered>>

device_add_peer(d, p) ==
  /\ p \notin noise[d].peers /\ p # d
  /\ noise' = [noise EXCEPT ![d].peers = @ \cup {p}]
  /\ io' = [io EXCEPT ![d][p] = device_add_peer_io(d)]
  /\ UNCHANGED <<spinning, net, ephemerals, initiations, resets, unsent, delivered>>

\* The process ends and is started again: nothing is persisted.
Restart(d) ==
  /\ resets < MaxResets
  /\ noise' = [noise EXCEPT ![d] = noise_init(Peer \ {d})]
  /\ io' = [io EXCEPT ![d] = [p \in Peer |-> device_add_peer_io(d)]]
  /\ spinning' = spinning \ {d}
  /\ resets' = resets + 1
  /\ UNCHANGED <<net, ephemerals, initiations, unsent, delivered>>

\* A step of the event loop of d for one of its peers.
PeerStep(d, p) ==
  \/ \E x \in Packet : SendPacket(d, p, x)
  \/ SendKeepalive(d, p)
  \/ CbRetransmitHandshake(d, p)
  \/ CbNewHandshake(d, p)
  \/ CbZeroKeyMaterial(d, p)
  \/ RateLimitLapses(d, p)
  \/ \E age \in Ages : KeypairAges(d, p, age)
  \/ device_remove_peer(d, p)

DeviceStep(d) ==
  \/ \E p \in noise[d].peers : PeerStep(d, p)
  \/ \E m \in net : HandleInitiation(d, m) \/ HandleResponse(d, m) \/ HandleTransport(d, m)
  \/ \E p \in Peer : device_add_peer(d, p)

Next ==
  \E d \in Device :
    \/ d \notin spinning /\ DeviceStep(d)
    \/ Restart(d)

Spec == Init /\ [][Next]_vars

----------------------------------------------------------------------------
(* Properties *)

Keypairs(n, p) == {kp \in {n.current[p], n.next[p], n.prev[p]} : Exists(kp)}

\* The index table and the peers agree: an occupied slot leads to the handshake
\* of a configured peer that holds this index or to a keypair this peer still
\* has (no handler follows an entry into freed memory), and every keypair is
\* found under its index by handle_transport, whatever handshakes, rotations,
\* zeroings, removals and restarts came in between.
IndexTableConsistent ==
  \A d \in Device :
    LET n == noise[d]
    IN  /\ \A i \in Index :
             /\ n.table[i].type # "free" => n.table[i].peer \in n.peers
             /\ n.table[i].type = "handshake" => n.hs[n.table[i].peer].local_index = i
             /\ n.table[i].type = "keypair" =>
                  \E kp \in Keypairs(n, n.table[i].peer) :
                     kp.local_index = i /\ kp.key = n.table[i].keypair
        /\ \A p \in Peer : \A kp \in Keypairs(n, p) :
             /\ kp.local_index \in Index
             /\ n.table[kp.local_index] = [type |-> "keypair", peer |-> p, keypair |-> kp.key]

\* Two devices that hold keypairs from the same handshake agree on it: one is
\* the initiator, and each sends to the index under which the other receives.
KeyAgreement ==
  \A d, p \in Device : \A k1 \in Keypairs(noise[d], p), k2 \in Keypairs(noise[p], d) :
    d # p /\ k1.key = k2.key =>
      /\ k1.is_initiator # k2.is_initiator
      /\ k1.local_index = k2.remote_index
      /\ k1.remote_index = k2.local_index

\* handle_transport makes a responder's keypair current only on a message of
\* the initiator, so a current keypair was derived by both sides: there is a
\* message under it from the initiator, or its holder is the initiator.
CurrentIsConfirmed ==
  \A d \in Device, p \in Peer :
    LET kp == noise[d].current[p]
    IN  Exists(kp) /\ ~kp.is_initiator =>
          \E m \in net : m.type = "transport" /\ m.key = kp.key /\ m.by_initiator

\* device_send_to_peer never encrypts two packets with one key and nonce, even
\* across rotations, flushes and restarts.
NonceUnique ==
  \A m1, m2 \in net :
    /\ m1.type = "transport" /\ m2.type = "transport"
    /\ m1.key = m2.key /\ m1.by_initiator = m2.by_initiator /\ m1.counter = m2.counter
    => m1 = m2

\* handle_transport delivers a packet at most once, although datagrams are
\* duplicated and replayed and keypairs move from next to current to prev.
DeliveredAtMostOnce == \A x \in Packet : delivered[x] <= 1

\* A replayed initiation never starts a session: when a responder replaces one of
\* its sessions with a peer, the new one comes from a later initiation
\* (noise_consume_initiation compares timestamps, and neither the end of a
\* handshake nor the erasure of keys forgets the last one).
NewerInitiationWins ==
  [][\A d \in Device, p \in Peer :
       \A old \in Keypairs(noise[d], p), new \in Keypairs(noise'[d], p) :
         ~old.is_initiator /\ ~new.is_initiator
           /\ (\A kp \in Keypairs(noise[d], p) : kp.key # new.key)
         => new.key[1] > old.key[1]]_vars

\* Key material never outlives its erasure timer: while a peer has a keypair,
\* timer_zero_key_material is armed (timers_handshake_complete).
KeyMaterialHasDeadline ==
  \A d \in Device : \A p \in noise[d].peers :
    Keypairs(noise[d], p) # {} => io[d][p].zero # "off"

\* A session is always on its way to be replaced: while a peer with an endpoint
\* has a keypair to send with, a rekey is scheduled, a handshake is being
\* retransmitted, or the handshake was given up and the keys are about to go.
RekeyScheduled ==
  \A d \in Device : \A p \in noise[d].peers :
    Exists(SendKeypair(noise[d], p)) /\ io[d][p].endpoint =>
      io[d][p].new_handshake \/ io[d][p].retransmit \/ io[d][p].zero = "due"


\* handle_initiation comes to its end: "Send any queued packets" is a loop that
\* terminates.
FlushTerminates == spinning = {}
=============================================================================

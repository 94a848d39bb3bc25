------------------------------- MODULE Noise -------------------------------
(***************************************************************************)
(* The session state that noise.c keeps for one device: the table of       *)
(* receiver indices, and for every peer its handshake and its three        *)
(* keypairs.  The operations of noise.c (and the two places of device.c    *)
(* and timers.c that free keypairs) are operators from noise state to      *)
(* noise state; module Session applies them from the handlers.             *)
(*                                                                         *)
(* Cryptography is symbolic.  An ephemeral key is a natural number that is *)
(* never generated twice and doubles as the TAI64N time of its creation;   *)
(* the keys derived from a handshake are the pair <<initiator's ephemeral, *)
(* responder's ephemeral>>.  An index stands for a 32-bit index together   *)
(* with its table slot: a pick takes any index whose slot is not occupied. *)
(***************************************************************************)
EXTENDS Naturals

CONSTANTS Peer,     \* public keys
          Index,    \* non-zero receiver indices
          NoIndex,  \* index 0
          NoPeer    \* the null peer pointer

ASSUME NoiseAssumption ==
  /\ NoIndex \notin Index
  /\ NoPeer \notin Peer

Key   == Nat \X Nat
NoKey == <<0, 0>>

HandshakeState == {"ZEROED", "INITIATION_CREATED", "INITIATION_CONSUMED",
                   "RESPONSE_CREATED", "RESPONSE_CONSUMED"}

\* wg_handshake_t.  sent_recently: last_sent_handshake_ms is less than
\* REKEY_TIMEOUT_MS ago.
Handshake ==
  [state : HandshakeState, local_index : Index \cup {NoIndex},
   remote_index : Index \cup {NoIndex}, local_ephemeral : Nat,
   remote_ephemeral : Nat, last_timestamp : Nat, sent_recently : BOOLEAN]

\* wg_keypair_t.  replay: the counters already accepted (module Replay has the
\* window); age: "rekey" from REKEY_AFTER_MESSAGES on, "reject" once the
\* keypair is REJECT_AFTER_TIME_MS old or has used REJECT_AFTER_MESSAGES nonces.
Keypair ==
  [key : Key, is_initiator : BOOLEAN, local_index : Index \cup {NoIndex},
   remote_index : Index \cup {NoIndex}, send_nonce : Nat, replay : SUBSET Nat,
   age : {"fresh", "rekey", "reject"}]

NoKeypair ==
  [key |-> NoKey, is_initiator |-> FALSE, local_index |-> NoIndex,
   remote_index |-> NoIndex, send_nonce |-> 0, replay |-> {}, age |-> "fresh"]

\* index_entry_t, with occupied[slot] folded into type.
Entry ==
  [type : {"free", "handshake", "keypair"}, peer : Peer \cup {NoPeer}, keypair : Key]

FreeEntry == [type |-> "free", peer |-> NoPeer, keypair |-> NoKey]

\* The noise state of a device: the configured peers, the index table, and per
\* peer the handshake and the current, next and previous keypair.
NoiseState ==
  [peers : SUBSET Peer, table : [Index -> Entry], hs : [Peer -> Handshake],
   current : [Peer -> Keypair], next : [Peer -> Keypair], prev : [Peer -> Keypair]]

Exists(kp) == kp # NoKeypair

----------------------------------------------------------------------------
(* The index table *)

noise_handshake_init ==
  [state |-> "ZEROED", local_index |-> NoIndex, remote_index |-> NoIndex,
   local_ephemeral |-> 0, remote_ephemeral |-> 0, last_timestamp |-> 0,
   sent_recently |-> FALSE]

\* noise_handshake_clear: everything transient goes; last_timestamp stays.
noise_handshake_clear(h) ==
  [noise_handshake_init EXCEPT !.last_timestamp = h.last_timestamp]

index_table_delete(t, i) ==
  IF i \in Index THEN [t EXCEPT ![i] = FreeEntry] ELSE t

\* What pick_random_index may return: any unoccupied index, or 0 on a full table.
pick_random_index(t) ==
  LET free == {i \in Index : t[i].type = "free"}
  IN  IF free = {} THEN {NoIndex} ELSE free

index_table_new_for_handshake(t, p, i) ==
  IF i = NoIndex THEN t
  ELSE [t EXCEPT ![i] = [type |-> "handshake", peer |-> p, keypair |-> NoKey]]

index_table_swap_keypair(t, i, k) ==
  IF i \in Index /\ t[i].type # "free"
  THEN [t EXCEPT ![i] = [type |-> "keypair", peer |-> t[i].peer, keypair |-> k]]
  ELSE t

\* The indices that the next allocation for p may get: both create functions
\* first delete the index the handshake still holds.
Picks(n, p) == pick_random_index(index_table_delete(n.table, n.hs[p].local_index))

----------------------------------------------------------------------------
(* Handshake messages; e is the ephemeral generated, i the index picked *)

\* Mutant: the index of an earlier initiation is not given back.
noise_create_initiation_leaks(n, p, i, e) ==
  [n EXCEPT !.table = index_table_new_for_handshake(@, p, i),
            !.hs[p] = [@ EXCEPT !.local_ephemeral = e,
                                !.local_index = i,
                                !.state = "INITIATION_CREATED"]]

\* On a full table the ephemeral is already overwritten when the call fails.
noise_create_initiation(n, p, i, e) ==
  LET t == index_table_delete(n.table, n.hs[p].local_index)
      h == [n.hs[p] EXCEPT !.local_ephemeral = e]
  IN  [n EXCEPT !.table = index_table_new_for_handshake(t, p, i),
                !.hs[p] = IF i = NoIndex THEN h
                          ELSE [h EXCEPT !.local_index = i,
                                         !.state = "INITIATION_CREATED"]]

noise_consume_initiation(n, p, sender, e) ==
  [n EXCEPT !.hs[p] = [@ EXCEPT !.remote_ephemeral = e,
                                !.remote_index = sender,
                                !.last_timestamp = e,
                                !.state = "INITIATION_CONSUMED"]]

\* Mutant: the handshake keeps the index of its own earlier initiation.
noise_create_response_keeps_index(n, p, i, e) ==
  LET j == IF n.hs[p].local_index = NoIndex THEN i ELSE n.hs[p].local_index
  IN  [n EXCEPT !.table = index_table_new_for_handshake(@, p, j),
                !.hs[p] = IF j = NoIndex THEN @
                          ELSE [@ EXCEPT !.local_index = j,
                                         !.local_ephemeral = e,
                                         !.state = "RESPONSE_CREATED"]]

\* On a full table the handshake stays INITIATION_CONSUMED, without an index.
noise_create_response(n, p, i, e) ==
  LET t == index_table_delete(n.table, n.hs[p].local_index)
  IN  [n EXCEPT !.table = index_table_new_for_handshake(t, p, i),
                !.hs[p] = IF i = NoIndex THEN [@ EXCEPT !.local_index = NoIndex]
                          ELSE [@ EXCEPT !.local_index = i,
                                         !.local_ephemeral = e,
                                         !.state = "RESPONSE_CREATED"]]

\* The handshake's chain_key now depends on the responder's ephemeral.
noise_consume_response(n, p, sender, e) ==
  [n EXCEPT !.hs[p] = [@ EXCEPT !.remote_ephemeral = e,
                                !.remote_index = sender,
                                !.state = "RESPONSE_CONSUMED"]]

\* The keypair that a finished handshake yields.
NewKeypair(h) ==
  [NoKeypair EXCEPT
     !.key = IF h.state = "RESPONSE_CONSUMED"
             THEN <<h.local_ephemeral, h.remote_ephemeral>>
             ELSE <<h.remote_ephemeral, h.local_ephemeral>>,
     !.is_initiator = (h.state = "RESPONSE_CONSUMED"),
     !.local_index  = h.local_index,
     !.remote_index = h.remote_index]

\* Mutant: the responder uses the new keypair at once.
noise_begin_session_unconfirmed(n, p) ==
  LET kp == NewKeypair(n.hs[p])
      t0 == index_table_swap_keypair(n.table, n.hs[p].local_index, kp.key)
      t1 == index_table_delete(t0, n.next[p].local_index)
  IN  [n EXCEPT !.table = index_table_delete(t1, n.prev[p].local_index),
                !.hs[p] = noise_handshake_clear(@),
                !.prev[p] = n.current[p],
                !.current[p] = kp,
                !.next[p] = NoKeypair]

\* noise_begin_session: register the keypair under the handshake's index, clear
\* the handshake, rotate the keypairs and free the ones that drop out.
noise_begin_session(n, p) ==
  LET kp  == NewKeypair(n.hs[p])
      cur == n.current[p]
      nxt == n.next[p]
      prv == n.prev[p]
      t0  == index_table_swap_keypair(n.table, n.hs[p].local_index, kp.key)
      m   == [n EXCEPT !.hs[p] = noise_handshake_clear(@)]
  IN  IF kp.is_initiator
      THEN LET t1 == IF Exists(nxt) THEN index_table_delete(t0, cur.local_index) ELSE t0
           IN  [m EXCEPT !.table = index_table_delete(t1, prv.local_index),
                         !.prev[p] = IF Exists(nxt) THEN nxt ELSE cur,
                         !.current[p] = kp,
                         !.next[p] = NoKeypair]
      ELSE LET t1 == index_table_delete(t0, nxt.local_index)
           IN  [m EXCEPT !.table = index_table_delete(t1, prv.local_index),
                         !.next[p] = kp,
                         !.prev[p] = NoKeypair]

----------------------------------------------------------------------------
(* Keypairs in use and their end *)

\* The keypair that device_send_to_peer encrypts with.
SendKeypair(n, p) == IF Exists(n.current[p]) THEN n.current[p] ELSE n.next[p]

WithSendKeypair(n, p, kp) ==
  IF Exists(n.current[p]) THEN [n EXCEPT !.current[p] = kp]
  ELSE [n EXCEPT !.next[p] = kp]

\* Mutant: the confirmed keypair starts to count its nonces again.
ConfirmNextFreshNonce(n, p) ==
  [n EXCEPT !.table = index_table_delete(@, n.prev[p].local_index),
            !.prev[p] = n.current[p],
            !.current[p] = [n.next[p] EXCEPT !.send_nonce = 0],
            !.next[p] = NoKeypair]

\* Mutant: the confirmed keypair starts with an empty replay window.
ConfirmNextResetsReplay(n, p) ==
  [n EXCEPT !.table = index_table_delete(@, n.prev[p].local_index),
            !.prev[p] = n.current[p],
            !.current[p] = [n.next[p] EXCEPT !.replay = {}],
            !.next[p] = NoKeypair]

\* The rotation of handle_transport: the first message on the next keypair
\* confirms it.
ConfirmNext(n, p) ==
  [n EXCEPT !.table = index_table_delete(@, n.prev[p].local_index),
            !.prev[p] = n.current[p],
            !.current[p] = n.next[p],
            !.next[p] = NoKeypair]

\* Mutant: the unconfirmed keypair is forgotten.
DropKeysForgetsNext(n, p) ==
  LET t1 == index_table_delete(n.table, n.current[p].local_index)
      t2 == index_table_delete(t1, n.prev[p].local_index)
  IN  [n EXCEPT !.table = index_table_delete(t2, n.hs[p].local_index),
                !.current[p] = NoKeypair,
                !.prev[p] = NoKeypair]

\* keypair_free on all three keypairs and index_table_delete on the handshake,
\* as cb_zero_key_material and peer_teardown do.
DropKeys(n, p) ==
  LET t1 == index_table_delete(n.table, n.current[p].local_index)
      t2 == index_table_delete(t1, n.next[p].local_index)
      t3 == index_table_delete(t2, n.prev[p].local_index)
  IN  [n EXCEPT !.table = index_table_delete(t3, n.hs[p].local_index),
                !.current[p] = NoKeypair,
                !.next[p] = NoKeypair,
                !.prev[p] = NoKeypair]

cb_zero_key_material_noise(n, p) ==
  [DropKeys(n, p) EXCEPT !.hs[p] = noise_handshake_clear(@)]

\* peer_teardown frees the peer; a peer added later under the same public key
\* starts from noise_handshake_init.
peer_teardown_noise(n, p) ==
  [DropKeys(n, p) EXCEPT !.hs[p] = noise_handshake_init, !.peers = @ \ {p}]

noise_init(ps) ==
  [peers   |-> ps,
   table   |-> [i \in Index |-> FreeEntry],
   hs      |-> [p \in Peer |-> noise_handshake_init],
   current |-> [p \in Peer |-> NoKeypair],
   next    |-> [p \in Peer |-> NoKeypair],
   prev    |-> [p \in Peer |-> NoKeypair]]
=============================================================================

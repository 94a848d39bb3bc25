----------------------------- MODULE TcpWorker -----------------------------
(***************************************************************************)
(* tcp_worker.c: the main event loop and the worker thread of the SOCKS5   *)
(* mode exchange IP packets through two rings of nodes from a shared pool, *)
(* each with its own lock, and wake each other with uv_async_send.         *)
(*                                                                         *)
(* The code has every function twice, once per direction.  Here a thread t *)
(* consumes ring[t] and produces into the ring of the other thread:        *)
(* ring["worker"] is worker->inbound, ring["main"] is worker->outbound.    *)
(* A step is what a thread does between two points where the other thread  *)
(* can interfere: a critical section, a uv_async_send, a node handed on.   *)
(*                                                                         *)
(* A free list is the set of its nodes: which node is at the head is any   *)
(* choice.  uv_async_send coalesces: a handle is pending or not, and the   *)
(* flag is cleared before the callback runs.                               *)
(***************************************************************************)
EXTENDS Naturals, Sequences, FiniteSets

CONSTANTS Node,                   \* pool_nodes
          NoNode,
          Packet,                 \* payloads
          Client,                 \* SOCKS5 clients that have not got a connection
          TCP_WORKER_QUEUE_CAP,
          TCP_WORKER_BATCH_LIMIT,
          CACHE_MAX,              \* 64: nodes in a thread's free list
          CACHE_KEEP,             \* 32: nodes that stay there when it overflows
          GRAB,                   \* 32: nodes taken from the shared free list at once
          CanStop                 \* whether tcp_worker_stop may be called

ASSUME TcpWorkerAssumption ==
  /\ IsFiniteSet(Node) /\ NoNode \notin Node
  /\ Packet # {}
  /\ TCP_WORKER_QUEUE_CAP \in Nat \ {0}
  /\ TCP_WORKER_BATCH_LIMIT \in Nat \ {0}
  /\ CACHE_MAX \in Nat /\ CACHE_KEEP \in 0 .. CACHE_MAX
  /\ GRAB \in 1 .. CACHE_MAX + 1
  /\ CanStop \in BOOLEAN

Thread == {"main", "worker"}
Other(t) == IF t = "main" THEN "worker" ELSE "main"

VARIABLES
  free,            \* free_list
  cache,           \* main_free_list, worker_free_list
  count,           \* main_free_count, worker_free_count
  ring,            \* outbound, inbound
  data,            \* data[n]: the packet in node n
  pending,         \* main_async, worker_async: sent and not yet delivered
  pc,              \* where the thread is
  caller,          \* where a thread in tcp_worker_enqueue_* returns to
  hand,            \* msg of tcp_worker_enqueue_*
  batch,           \* batch[i..n-1] of drain_*_batch
  processed,       \* packets the running callback has taken so far
  more,            \* *more of drain_*_batch
  got,             \* the last packet the thread processed
  stop_requested,
  clients          \* clients open at the worker without a TCP connection

pool    == <<free, cache, count>>
drain   == <<batch, processed, more>>
vars    == <<free, cache, count, ring, data, pending, pc, caller, hand, batch,
             processed, more, got, stop_requested, clients>>

\* packet_ring_t.  Slots that are not in use hold NoNode.
Slot == 0 .. TCP_WORKER_QUEUE_CAP - 1
PacketRing == [slots : [Slot -> Node \cup {NoNode}], head : Slot, len : 0 .. TCP_WORKER_QUEUE_CAP]

PC == {"starting", "poll", "push", "undo", "signal", "drain", "process", "input", "resend",
       "stopping", "joining", "stopped", "exiting", "exited"}

TypeOK ==
  /\ free \subseteq Node
  /\ cache \in [Thread -> SUBSET Node]
  /\ count \in [Thread -> 0 .. CACHE_MAX]
  /\ ring \in [Thread -> PacketRing]
  /\ data \in [Node -> Packet]
  /\ pending \in [Thread -> BOOLEAN]
  /\ pc \in [Thread -> PC]
  /\ caller \in [Thread -> {"poll", "input", "exiting"}]
  /\ hand \in [Thread -> Node \cup {NoNode}]
  /\ batch \in [Thread -> Seq(Node)]
  /\ processed \in [Thread -> 0 .. TCP_WORKER_BATCH_LIMIT]
  /\ more \in [Thread -> BOOLEAN]
  /\ got \in [Thread -> Packet]
  /\ stop_requested \in BOOLEAN
  /\ clients \subseteq Client

\* tcp_worker_start, up to the wait for the thread.
Init ==
  /\ free = Node
  /\ cache = [t \in Thread |-> {}]
  /\ count = [t \in Thread |-> 0]
  /\ ring = [t \in Thread |-> [slots |-> [s \in Slot |-> NoNode], head |-> 0, len |-> 0]]
  /\ data = [n \in Node |-> CHOOSE x \in Packet : TRUE]
  /\ pending = [t \in Thread |-> FALSE]
  /\ pc = [t \in Thread |-> "starting"]
  /\ caller = [t \in Thread |-> "poll"]
  /\ hand = [t \in Thread |-> NoNode]
  /\ batch = [t \in Thread |-> <<>>]
  /\ processed = [t \in Thread |-> 0]
  /\ more = [t \in Thread |-> FALSE]
  /\ got = [t \in Thread |-> CHOOSE x \in Packet : TRUE]
  /\ stop_requested = FALSE
  /\ clients = {}

----------------------------------------------------------------------------
(* The pool and the rings *)

\* pool_acquire_main and pool_acquire_worker hand out n: from the thread's own
\* list, or from the shared list together with up to GRAB - 1 nodes for the own list.
pool_acquire(t, n) ==
  \/ /\ n \in cache[t]
     /\ cache' = [cache EXCEPT ![t] = @ \ {n}]
     /\ count' = [count EXCEPT ![t] = @ - 1]
     /\ UNCHANGED free
  \/ /\ cache[t] = {}
     /\ \E g \in SUBSET free :
          /\ n \in g
          /\ Cardinality(g) = GRAB \/ (Cardinality(g) < GRAB /\ g = free)
          /\ cache' = [cache EXCEPT ![t] = g \ {n}]
          /\ count' = [count EXCEPT ![t] = Cardinality(g) - 1]
          /\ free' = free \ g

\* Mutant: one node too many on the thread's own list.
pool_release_off_by_one(t, n) ==
  \/ /\ count[t] <= CACHE_MAX
     /\ cache' = [cache EXCEPT ![t] = @ \cup {n}]
     /\ count' = [count EXCEPT ![t] = @ + 1]
     /\ UNCHANGED free
  \/ /\ count[t] > CACHE_MAX
     /\ \E keep \in SUBSET cache[t] :
          /\ Cardinality(keep) = CACHE_KEEP
          /\ cache' = [cache EXCEPT ![t] = keep]
          /\ count' = [count EXCEPT ![t] = CACHE_KEEP]
          /\ free' = free \cup (cache[t] \ keep) \cup {n}

\* Mutant: the node that overflows the list is lost.
pool_release_forgets(t, n) ==
  \/ /\ count[t] < CACHE_MAX
     /\ cache' = [cache EXCEPT ![t] = @ \cup {n}]
     /\ count' = [count EXCEPT ![t] = @ + 1]
     /\ UNCHANGED free
  \/ /\ ~(count[t] < CACHE_MAX)
     /\ \E keep \in SUBSET cache[t] :
          /\ Cardinality(keep) = CACHE_KEEP
          /\ cache' = [cache EXCEPT ![t] = keep]
          /\ count' = [count EXCEPT ![t] = CACHE_KEEP]
          /\ free' = free \cup (cache[t] \ keep)

\* pool_release_main and pool_release_worker: onto the thread's own list; when
\* that is full, CACHE_KEEP of its nodes stay and the others go back with n.
pool_release(t, n) ==
  \/ /\ count[t] < CACHE_MAX
     /\ cache' = [cache EXCEPT ![t] = @ \cup {n}]
     /\ count' = [count EXCEPT ![t] = @ + 1]
     /\ UNCHANGED free
  \/ /\ ~(count[t] < CACHE_MAX)
     /\ \E keep \in SUBSET cache[t] :
          /\ Cardinality(keep) = CACHE_KEEP
          /\ cache' = [cache EXCEPT ![t] = keep]
          /\ count' = [count EXCEPT ![t] = CACHE_KEEP]
          /\ free' = free \cup (cache[t] \ keep) \cup {n}

\* The slot i places after the head.  The capacity is a power of two, so the
\* mask of the code is a remainder.
SlotAt(r, i) == (r.head + i) % TCP_WORKER_QUEUE_CAP

\* ring_push below the capacity.
ring_push(r, n) ==
  [slots |-> [r.slots EXCEPT ![SlotAt(r, r.len)] = n], head |-> r.head, len |-> r.len + 1]

\* k times ring_pop.
ring_pop(r, k) ==
  [slots |-> [s \in Slot |-> IF \E i \in 0 .. k - 1 : s = SlotAt(r, i) THEN NoNode ELSE r.slots[s]],
   head  |-> SlotAt(r, k),
   len   |-> r.len - k]

\* The nodes that k times ring_pop return.
Popped(r, k) == [i \in 1 .. k |-> r.slots[SlotAt(r, i - 1)]]

----------------------------------------------------------------------------
(* tcp_worker_enqueue_inbound (main) and tcp_worker_enqueue_outbound (worker) *)

\* The main thread enqueues from handle_transport; the worker from callbacks of
\* its loop, from tcpstack_input while it drains, and while its loop winds down
\* as long as a client is there.
MayEnqueue(t) ==
  \/ pc[t] = "poll"
  \/ t = "worker" /\ pc[t] = "input"
  \/ t = "worker" /\ pc[t] = "exiting" /\ clients # {}

\* Acquire a node and fill it.  Without a node the call fails and changes nothing.
Enqueue(t, n, x) ==
  /\ MayEnqueue(t)
  /\ pool_acquire(t, n)
  /\ data' = [data EXCEPT ![n] = x]
  /\ hand' = [hand EXCEPT ![t] = n]
  /\ caller' = [caller EXCEPT ![t] = pc[t]]
  /\ pc' = [pc EXCEPT ![t] = "push"]
  /\ UNCHANGED <<ring, pending, drain, got, stop_requested, clients>>

\* Mutant: was_empty is taken after the push.
Wakes_after(r) == r.len + 1 = 0

\* was_empty: the push has to be followed by a wake-up.
Wakes(r) == r.len = 0

\* The critical section around ring_push.
Push(t) ==
  LET r == ring[Other(t)]
  IN  /\ pc[t] = "push"
      /\ \/ /\ r.len = TCP_WORKER_QUEUE_CAP
            /\ pc' = [pc EXCEPT ![t] = "undo"]
            /\ UNCHANGED <<ring, hand>>
         \/ /\ r.len < TCP_WORKER_QUEUE_CAP
            /\ ring' = [ring EXCEPT ![Other(t)] = ring_push(r, hand[t])]
            /\ hand' = [hand EXCEPT ![t] = NoNode]
            /\ pc' = [pc EXCEPT ![t] = IF Wakes(r) THEN "signal" ELSE caller[t]]
      /\ UNCHANGED <<pool, data, pending, caller, drain, got, stop_requested, clients>>

\* The ring was full: the packet is dropped.
Undo(t) ==
  /\ pc[t] = "undo"
  /\ pool_release(t, hand[t])
  /\ hand' = [hand EXCEPT ![t] = NoNode]
  /\ pc' = [pc EXCEPT ![t] = caller[t]]
  /\ UNCHANGED <<ring, data, pending, caller, drain, got, stop_requested, clients>>

\* uv_async_send to the consumer, outside of the lock.
Signal(t) ==
  /\ pc[t] = "signal"
  /\ pending' = [pending EXCEPT ![Other(t)] = TRUE]
  /\ pc' = [pc EXCEPT ![t] = caller[t]]
  /\ UNCHANGED <<pool, ring, data, caller, hand, drain, got, stop_requested, clients>>

----------------------------------------------------------------------------
(* main_async_cb and worker_async_cb *)

\* libuv delivers the pending wake-up.
Wake(t) ==
  /\ pc[t] = "poll" /\ pending[t]
  /\ pending' = [pending EXCEPT ![t] = FALSE]
  /\ processed' = [processed EXCEPT ![t] = 0]
  /\ more' = [more EXCEPT ![t] = FALSE]
  /\ pc' = [pc EXCEPT ![t] = "drain"]
  /\ UNCHANGED <<pool, ring, data, caller, hand, batch, got, stop_requested, clients>>

\* How many packets the next critical section takes.
BatchSize(t) ==
  LET left == TCP_WORKER_BATCH_LIMIT - processed[t]
  IN  IF ring[t].len < left THEN ring[t].len ELSE left

\* Mutant: every node is put in front of the ones before.
DrainBatch_reversed(t) ==
  LET k == BatchSize(t)
  IN  /\ pc[t] = "drain"
      /\ batch' = [batch EXCEPT ![t] = [i \in 1 .. k |-> Popped(ring[t], k)[k + 1 - i]]]
      /\ ring' = [ring EXCEPT ![t] = ring_pop(@, k)]
      /\ more' = [more EXCEPT ![t] = ring[t].len - k > 0]
      /\ pc' = [pc EXCEPT ![t] = IF k = 0 THEN "resend" ELSE "process"]
      /\ UNCHANGED <<pool, data, pending, caller, hand, processed, got, stop_requested, clients>>

\* Mutant: only one of the two copies of the function sets *more.
DrainBatch_forgets_more(t) ==
  LET k == BatchSize(t)
  IN  /\ pc[t] = "drain"
      /\ batch' = [batch EXCEPT ![t] = Popped(ring[t], k)]
      /\ ring' = [ring EXCEPT ![t] = ring_pop(@, k)]
      /\ more' = [more EXCEPT ![t] = t = "worker" /\ ring[t].len - k > 0]
      /\ pc' = [pc EXCEPT ![t] = IF k = 0 THEN "resend" ELSE "process"]
      /\ UNCHANGED <<pool, data, pending, caller, hand, processed, got, stop_requested, clients>>

\* The critical section of drain_*_batch.
DrainBatch(t) ==
  LET k == BatchSize(t)
  IN  /\ pc[t] = "drain"
      /\ batch' = [batch EXCEPT ![t] = Popped(ring[t], k)]
      /\ ring' = [ring EXCEPT ![t] = ring_pop(@, k)]
      /\ more' = [more EXCEPT ![t] = ring[t].len - k > 0]
      /\ pc' = [pc EXCEPT ![t] = IF k = 0 THEN "resend" ELSE "process"]
      /\ UNCHANGED <<pool, data, pending, caller, hand, processed, got, stop_requested, clients>>

\* device_send_ip_packet_local or tcpstack_input reads the packet.
Process(t) ==
  /\ pc[t] = "process"
  /\ got' = [got EXCEPT ![t] = data[Head(batch[t])]]
  /\ pc' = [pc EXCEPT ![t] = "input"]
  /\ UNCHANGED <<pool, ring, data, pending, caller, hand, drain, stop_requested, clients>>

\* The packet is done with; its node goes back to the pool.
Release(t) ==
  /\ pc[t] = "input"
  /\ pool_release(t, Head(batch[t]))
  /\ batch' = [batch EXCEPT ![t] = Tail(@)]
  /\ processed' = [processed EXCEPT ![t] = @ + 1]
  /\ pc' = [pc EXCEPT ![t] = IF Tail(batch[t]) # <<>> THEN "process"
                             ELSE IF processed'[t] < TCP_WORKER_BATCH_LIMIT THEN "drain"
                             ELSE "resend"]
  /\ UNCHANGED <<ring, data, pending, caller, hand, more, got, stop_requested, clients>>

\* stop_requested is a plain int that the other thread writes: the worker may
\* still read 0 until it has taken the wake-up sent after the write.
StopSeen ==
  IF stop_requested /\ (pending["worker"] \/ pc["main"] = "stopping") THEN BOOLEAN
  ELSE {stop_requested}

\* The end of the callback: wake up again if packets are left.  A worker that
\* sees stop_requested stops listening, frees the TCP stack, closes
\* worker_async and leaves the first uv_run.
Resend(t) ==
  /\ pc[t] = "resend"
  /\ \/ /\ t = "main" \/ FALSE \in StopSeen
        /\ pc' = [pc EXCEPT ![t] = "poll"]
        /\ pending' = [pending EXCEPT ![t] = @ \/ more[t]]
     \/ /\ t = "worker" /\ TRUE \in StopSeen
        /\ pc' = [pc EXCEPT ![t] = "exiting"]
        /\ pending' = [pending EXCEPT ![t] = FALSE]
  /\ UNCHANGED <<pool, ring, data, caller, hand, drain, got, stop_requested, clients>>

----------------------------------------------------------------------------
(* The life of the worker thread *)

\* tcp_worker_thread up to signal_ready: it runs its loop, or one of the
\* initialisations failed and it returns.
WorkerStarts ==
  /\ pc["worker"] = "starting"
  /\ \E next \in {"poll", "exited"} : pc' = [pc EXCEPT !["worker"] = next]
  /\ UNCHANGED <<pool, ring, data, pending, caller, hand, drain, got, stop_requested, clients>>

\* The main thread saw started: tcp_worker_start returns 0, or joins the thread,
\* frees everything and returns -1.
StartReturns ==
  /\ pc["main"] = "starting" /\ pc["worker"] # "starting"
  /\ pc' = [pc EXCEPT !["main"] = IF pc["worker"] = "exited" THEN "stopped" ELSE "poll"]
  /\ UNCHANGED <<pool, ring, data, pending, caller, hand, drain, got, stop_requested, clients>>

\* on_connection, while the listener is open.
Accept(c) ==
  /\ pc["worker"] = "poll" /\ c \notin clients
  /\ clients' = clients \cup {c}
  /\ UNCHANGED <<pool, ring, data, pending, pc, caller, hand, drain, got, stop_requested>>

\* The client disconnects, or gets its TCP connection, which tcpstack_free or the
\* retransmission limit will end.
Leave(c) ==
  /\ pc["worker"] \in {"poll", "exiting"} /\ c \in clients
  /\ clients' = clients \ {c}
  /\ UNCHANGED <<pool, ring, data, pending, pc, caller, hand, drain, got, stop_requested>>

\* tcp_worker_stop from device_stop, up to the write of stop_requested.
Stop ==
  /\ CanStop /\ pc["main"] = "poll"
  /\ stop_requested' = TRUE
  /\ pc' = [pc EXCEPT !["main"] = "stopping"]
  /\ UNCHANGED <<pool, ring, data, pending, caller, hand, drain, got, clients>>

\* Mutant: the worker is not woken up.
StopSignal_forgotten ==
  /\ pc["main"] = "stopping"
  /\ pc' = [pc EXCEPT !["main"] = "joining"]
  /\ UNCHANGED <<pool, ring, data, pending, caller, hand, drain, got, stop_requested, clients>>

\* uv_async_send(&worker->worker_async).
StopSignal ==
  /\ pc["main"] = "stopping"
  /\ pending' = [pending EXCEPT !["worker"] = TRUE]
  /\ pc' = [pc EXCEPT !["main"] = "joining"]
  /\ UNCHANGED <<pool, ring, data, caller, hand, drain, got, stop_requested, clients>>

\* The second uv_run of tcp_worker_thread returns when no handle is left, the
\* ones of clients included.
Exit ==
  /\ pc["worker"] = "exiting" /\ clients = {}
  /\ pc' = [pc EXCEPT !["worker"] = "exited"]
  /\ UNCHANGED <<pool, ring, data, pending, caller, hand, drain, got, stop_requested, clients>>

\* uv_thread_join returns; main_async, the pool and the worker are freed.
Join ==
  /\ pc["main"] = "joining" /\ pc["worker"] = "exited"
  /\ pc' = [pc EXCEPT !["main"] = "stopped"]
  /\ UNCHANGED <<pool, ring, data, pending, caller, hand, drain, got, stop_requested, clients>>

----------------------------------------------------------------------------

\* Nothing is left to do: tcp_worker_start failed or tcp_worker_stop returned.
Terminated == pc["main"] = "stopped" /\ UNCHANGED vars

ThreadStep(t) ==
  \/ Push(t) \/ Undo(t) \/ Signal(t)
  \/ Wake(t) \/ DrainBatch(t) \/ Process(t) \/ Release(t) \/ Resend(t)

LifeStep == WorkerStarts \/ StartReturns \/ StopSignal \/ Exit \/ Join

Next ==
  \/ \E t \in Thread : ThreadStep(t) \/ \E n \in Node, x \in Packet : Enqueue(t, n, x)
  \/ LifeStep \/ Stop \/ Terminated
  \/ \E c \in Client : Accept(c) \/ Leave(c)

Spec == Init /\ [][Next]_vars

\* A thread goes on with what it has begun.  The loop gets to a pending wake-up
\* however many other callbacks it runs, and tcpstack_input returns however
\* many packets it sends.  Nothing makes a client leave.
Fairness ==
  /\ \A t \in Thread : WF_vars(ThreadStep(t)) /\ SF_vars(Wake(t)) /\ SF_vars(Release(t))
  /\ WF_vars(LifeStep)

FairSpec == Spec /\ Fairness

----------------------------------------------------------------------------
(* Properties *)

Enqueueing(t) == pc[t] \in {"push", "undo", "signal"}

\* Thread t is inside drain_*_batch, possibly in a call from tcpstack_input.
Processing(t) == pc[t] \in {"process", "input"} \/ (Enqueueing(t) /\ caller[t] = "input")

\* The packet at the head of the batch has been read.
HeadRead(t) == Processing(t) /\ pc[t] # "process"

\* The nodes of direction t in the order in which they will be processed.
Line(t) == batch[t] \o Popped(ring[t], ring[t].len)

Location == {<<"free", "pool">>} \cup ({"cache", "line", "hand"} \X Thread)

At(l) ==
  CASE l[1] = "free"  -> free
    [] l[1] = "cache" -> cache[l[2]]
    [] l[1] = "line"  -> {Line(l[2])[i] : i \in DOMAIN Line(l[2])}
    [] l[1] = "hand"  -> {hand[l[2]]} \ {NoNode}

\* No node of the pool is lost or in two places, whichever of the two threads
\* acquired it and whichever released it: it is in one free list, in the hand
\* of an enqueueing thread, or once in one of the two directions.  The count of a
\* thread's free list is the number of its nodes, so that the walk of pool_release
\* over the first 32 nodes of a full list never meets its end.
NodesAccounted ==
  /\ \A n \in Node : Cardinality({l \in Location : n \in At(l)}) = 1
  /\ \A t \in Thread : \A i, j \in DOMAIN Line(t) : Line(t)[i] = Line(t)[j] => i = j
  /\ \A t \in Thread : count[t] = Cardinality(cache[t])

\* Packets in ring[t] will be seen: a wake-up is pending or about to be sent, or
\* the consumer will look at the ring again before it goes back to its loop, or
\* the worker has left its loop for good.
WillBeSeen(t) ==
  \/ pending[t]
  \/ pc[Other(t)] = "signal"
  \/ pc[t] = "drain"
  \/ Processing(t) /\ (more[t] \/ processed[t] + Len(batch[t]) < TCP_WORKER_BATCH_LIMIT)
  \/ pc[t] = "resend" /\ more[t]
  \/ pc[t] \in {"exiting", "exited"}
  \/ Enqueueing(t) /\ caller[t] = "exiting"

\* No wake-up is lost, although uv_async_send comes after the unlock, is only
\* sent for an empty ring, and coalesces.
NoLostWakeup == \A t \in Thread : ring[t].len > 0 => WillBeSeen(t)

\* The packets of direction t that are still to be read.
Queue(t) ==
  LET line == IF HeadRead(t) THEN Tail(Line(t)) ELSE Line(t)
  IN  [i \in DOMAIN line |-> data[line[i]]]

Inbound == INSTANCE PacketQueue WITH
  queue <- Queue("worker"), got <- got["worker"],
  Limit <- TCP_WORKER_QUEUE_CAP + TCP_WORKER_BATCH_LIMIT
Outbound == INSTANCE PacketQueue WITH
  queue <- Queue("main"), got <- got["main"],
  Limit <- TCP_WORKER_QUEUE_CAP + TCP_WORKER_BATCH_LIMIT

\* Packets that tcp_worker_enqueue_inbound accepted reach tcpstack_input, and those
\* that tcp_worker_enqueue_outbound accepted reach the main loop, unchanged, in
\* order and once.
PacketsInOrder == Inbound!Spec /\ Outbound!Spec

\* Unless the worker is stopped, every accepted packet is processed, in both
\* directions, although wake-ups coalesce and are only sent for an empty ring.
PacketsProcessed == <>stop_requested \/ (Inbound!Progress /\ Outbound!Progress)

Stopped == pc["main"] = "stopped"

\* tcp_worker_stop returns unless a client without a TCP connection stays for ever.
StopWaitsForClients == stop_requested ~> (Stopped \/ [](clients # {}))
=============================================================================

-------------------------- MODULE TcpWorkerProofs --------------------------
(***************************************************************************)
(* The type invariant and NoLostWakeup of module TcpWorker in every        *)
(* reachable state, for any capacity, batch limit, pool and list sizes.    *)
(***************************************************************************)
EXTENDS TcpWorker, FiniteSetTheorems, TLAPS

\* The slots in use hold nodes.
RingOK(r) == \A i \in 0 .. r.len - 1 : r.slots[SlotAt(r, i)] \in Node

\* The locals of a thread fit the place where it is.
ThreadOK(t) ==
  /\ pc[t] \in {"push", "undo"} => hand[t] \in Node
  /\ Processing(t) => /\ batch[t] # <<>>
                      /\ processed[t] + Len(batch[t]) <= TCP_WORKER_BATCH_LIMIT
  /\ pc[t] = "drain" => processed[t] < TCP_WORKER_BATCH_LIMIT

\* The inductive invariant.
WorkerInv ==
  /\ TypeOK
  /\ \A t \in Thread : RingOK(ring[t]) /\ ThreadOK(t) /\ Cardinality(cache[t]) <= count[t]
  /\ NoLostWakeup

\* A remainder below twice the divisor: the wrap-around of ring_push and ring_pop.
LEMMA ModSmall ==
  ASSUME NEW c \in Nat \ {0}, NEW a \in Nat, a < c + c
  PROVE  a % c = IF a < c THEN a ELSE a - c
<1>1. CASE a < c
  BY <1>1
<1>2. CASE a >= c
  BY <1>2
<1> QED BY <1>1, <1>2

\* The slot i places after the head, without a remainder.
LEMMA SlotAtValue ==
  ASSUME NEW r \in PacketRing, NEW i \in 0 .. TCP_WORKER_QUEUE_CAP
  PROVE  /\ SlotAt(r, i) \in Slot
         /\ SlotAt(r, i) = IF r.head + i < TCP_WORKER_QUEUE_CAP THEN r.head + i
                           ELSE r.head + i - TCP_WORKER_QUEUE_CAP
<1>1. /\ r.head \in Nat /\ r.head < TCP_WORKER_QUEUE_CAP /\ TCP_WORKER_QUEUE_CAP \in Nat \ {0}
  BY TcpWorkerAssumption DEF PacketRing, Slot
<1>2. r.head + i \in Nat /\ r.head + i < TCP_WORKER_QUEUE_CAP + TCP_WORKER_QUEUE_CAP
  BY <1>1
<1>3. SlotAt(r, i) = IF r.head + i < TCP_WORKER_QUEUE_CAP THEN r.head + i
                     ELSE r.head + i - TCP_WORKER_QUEUE_CAP
  BY <1>1, <1>2, ModSmall DEF SlotAt
<1> QED BY <1>1, <1>2, <1>3 DEF Slot

\* Different places of a ring are different slots.
LEMMA SlotsDiffer ==
  ASSUME NEW r \in PacketRing, NEW i \in 0 .. TCP_WORKER_QUEUE_CAP - 1,
         NEW j \in 0 .. TCP_WORKER_QUEUE_CAP - 1, i # j
  PROVE  SlotAt(r, i) # SlotAt(r, j)
<1> DEFINE c == TCP_WORKER_QUEUE_CAP
           at(x) == IF r.head + x < c THEN r.head + x ELSE r.head + x - c
<1>1. c \in Nat \ {0} /\ r.head \in 0 .. c - 1
  BY TcpWorkerAssumption, Zenon DEF PacketRing, Slot
<1>2. SlotAt(r, i) = at(i) /\ SlotAt(r, j) = at(j)
  BY <1>1, SlotAtValue
<1> QED BY <1>1, <1>2

\* ring_push below the capacity adds a node behind the others.
LEMMA PushSlots ==
  ASSUME NEW r \in PacketRing, r.len < TCP_WORKER_QUEUE_CAP, NEW n \in Node
  PROVE  /\ ring_push(r, n) \in PacketRing /\ ring_push(r, n).len = r.len + 1
         /\ ring_push(r, n).slots[SlotAt(ring_push(r, n), r.len)] = n
         /\ \A i \in 0 .. r.len - 1 : ring_push(r, n).slots[SlotAt(ring_push(r, n), i)] = r.slots[SlotAt(r, i)]
<1> DEFINE q == ring_push(r, n)
<1>1. r.len \in 0 .. TCP_WORKER_QUEUE_CAP - 1 /\ TCP_WORKER_QUEUE_CAP \in Nat \ {0}
  BY TcpWorkerAssumption DEF PacketRing
<1>2. SlotAt(r, r.len) \in Slot
  BY <1>1, SlotAtValue
<1>3. /\ q \in PacketRing /\ q.head = r.head /\ q.len = r.len + 1
      /\ \A s \in Slot : q.slots[s] = IF s = SlotAt(r, r.len) THEN n ELSE r.slots[s]
  <2> DEFINE s0 == SlotAt(r, r.len)
             f  == [r.slots EXCEPT ![s0] = n]
  <2>1. r.slots \in [Slot -> Node \cup {NoNode}] /\ r.head \in Slot
    BY Zenon DEF PacketRing
  <2>2. f \in [Slot -> Node \cup {NoNode}] /\ \A s \in Slot : f[s] = IF s = s0 THEN n ELSE r.slots[s]
    BY <1>2, <2>1, Zenon
  <2>3. q = [slots |-> f, head |-> r.head, len |-> r.len + 1]
    BY Zenon DEF ring_push
  <2>4. r.len + 1 \in 0 .. TCP_WORKER_QUEUE_CAP
    BY <1>1
  <2> HIDE DEF q, f
  <2> QED BY <2>1, <2>2, <2>3, <2>4, Zenon DEF PacketRing
<1> HIDE DEF q
<1>4. \A i \in 0 .. r.len : SlotAt(q, i) = SlotAt(r, i)
  BY <1>3, Zenon DEF SlotAt
<1>5. q.slots[SlotAt(q, r.len)] = n
  BY <1>1, <1>2, <1>3, <1>4
<1>6. ASSUME NEW i \in 0 .. r.len - 1 PROVE q.slots[SlotAt(q, i)] = r.slots[SlotAt(r, i)]
  <2>1. i \in 0 .. TCP_WORKER_QUEUE_CAP - 1 /\ i \in 0 .. TCP_WORKER_QUEUE_CAP /\ i # r.len /\ i \in 0 .. r.len
    BY <1>1
  <2>2. SlotAt(r, i) \in Slot
    BY <2>1, SlotAtValue, Zenon
  <2>3. SlotAt(r, i) # SlotAt(r, r.len)
    BY <1>1, <2>1, SlotsDiffer, Zenon
  <2> QED BY <1>3, <1>4, <2>1, <2>2, <2>3, Zenon
<1> QED BY <1>3, <1>5, <1>6, Zenon DEF q

\* ring_pop leaves the other nodes, in their order.
LEMMA PopSlots ==
  ASSUME NEW r \in PacketRing, NEW k \in 0 .. r.len
  PROVE  /\ ring_pop(r, k) \in PacketRing /\ ring_pop(r, k).len = r.len - k
         /\ \A i \in 0 .. r.len - k - 1 :
              ring_pop(r, k).slots[SlotAt(ring_pop(r, k), i)] = r.slots[SlotAt(r, k + i)]
<1> DEFINE q == ring_pop(r, k)
<1>1. /\ r.len \in 0 .. TCP_WORKER_QUEUE_CAP /\ TCP_WORKER_QUEUE_CAP \in Nat \ {0}
      /\ k \in 0 .. TCP_WORKER_QUEUE_CAP
  BY TcpWorkerAssumption DEF PacketRing
<1>2. SlotAt(r, k) \in Slot
  BY <1>1, SlotAtValue, Zenon
<1>3. q \in PacketRing /\ q.head = SlotAt(r, k) /\ q.len = r.len - k
  BY <1>1, <1>2 DEF ring_pop, PacketRing
<1>4. \A s \in Slot : (\A i \in 0 .. k - 1 : s # SlotAt(r, i)) => q.slots[s] = r.slots[s]
  BY Zenon DEF ring_pop
<1> HIDE DEF q
<1>5. ASSUME NEW i \in 0 .. r.len - k - 1 PROVE q.slots[SlotAt(q, i)] = r.slots[SlotAt(r, k + i)]
  <2>1. i \in 0 .. TCP_WORKER_QUEUE_CAP /\ k + i \in 0 .. TCP_WORKER_QUEUE_CAP - 1
    BY <1>1
  <2> DEFINE c == TCP_WORKER_QUEUE_CAP
             at(h, x) == IF h + x < c THEN h + x ELSE h + x - c
  <2>a. c \in Nat \ {0} /\ r.head \in 0 .. c - 1 /\ q.head \in 0 .. c - 1
    BY <1>1, <1>3, Zenon DEF PacketRing, Slot
  <2>b. /\ SlotAt(q, i) = at(q.head, i) /\ SlotAt(r, k + i) = at(r.head, k + i)
        /\ SlotAt(r, k + i) \in Slot /\ q.head = at(r.head, k)
    BY <1>1, <1>3, <2>1, SlotAtValue
  <2>2. SlotAt(q, i) = SlotAt(r, k + i) /\ SlotAt(r, k + i) \in Slot
    BY <1>1, <2>1, <2>a, <2>b
  <2>3. ASSUME NEW j \in 0 .. k - 1 PROVE SlotAt(r, k + i) # SlotAt(r, j)
    <3>1. j \in 0 .. TCP_WORKER_QUEUE_CAP - 1 /\ k + i # j
      BY <1>1
    <3> QED BY <2>1, <3>1, SlotsDiffer, Zenon
  <2> QED BY <1>4, <2>2, <2>3, Zenon
<1> QED BY <1>3, <1>5, Zenon DEF q

\* ring_push below the capacity keeps nodes in all slots in use.
LEMMA PushOK ==
  ASSUME NEW r \in PacketRing, RingOK(r), r.len < TCP_WORKER_QUEUE_CAP, NEW n \in Node
  PROVE  ring_push(r, n) \in PacketRing /\ RingOK(ring_push(r, n)) /\ ring_push(r, n).len = r.len + 1
<1> DEFINE q == ring_push(r, n)
<1>1. /\ q \in PacketRing /\ q.len = r.len + 1 /\ q.slots[SlotAt(q, r.len)] = n
      /\ \A i \in 0 .. r.len - 1 : q.slots[SlotAt(q, i)] = r.slots[SlotAt(r, i)]
  BY PushSlots, Zenon
<1> HIDE DEF q
<1>2. ASSUME NEW i \in 0 .. q.len - 1 PROVE q.slots[SlotAt(q, i)] \in Node
  <2>1. r.len \in Nat
    BY DEF PacketRing
  <2>2. i = r.len \/ i \in 0 .. r.len - 1
    BY <1>1, <2>1
  <2> QED BY <1>1, <2>2, Zenon DEF RingOK
<1> QED BY <1>1, <1>2, Zenon DEF RingOK, q

\* ring_pop returns nodes, and keeps nodes in the slots that stay in use.
LEMMA PopOK ==
  ASSUME NEW r \in PacketRing, RingOK(r), NEW k \in 0 .. r.len
  PROVE  /\ ring_pop(r, k) \in PacketRing /\ RingOK(ring_pop(r, k))
         /\ ring_pop(r, k).len = r.len - k
         /\ Popped(r, k) \in Seq(Node) /\ Len(Popped(r, k)) = k
<1> DEFINE q == ring_pop(r, k)
<1>1. /\ q \in PacketRing /\ q.len = r.len - k
      /\ \A i \in 0 .. r.len - k - 1 : q.slots[SlotAt(q, i)] = r.slots[SlotAt(r, k + i)]
  BY PopSlots, Zenon
<1> HIDE DEF q
<1>2. r.len \in Nat /\ k \in Nat
  BY DEF PacketRing
<1>3. ASSUME NEW i \in 0 .. q.len - 1 PROVE q.slots[SlotAt(q, i)] \in Node
  <2>1. k + i \in 0 .. r.len - 1 /\ i \in 0 .. r.len - k - 1
    BY <1>1, <1>2
  <2> QED BY <1>1, <2>1, Zenon DEF RingOK
<1>6. Popped(r, k) \in Seq(Node) /\ Len(Popped(r, k)) = k
  <2>1. \A i \in 1 .. k : i - 1 \in 0 .. r.len - 1
    BY <1>2
  <2>2. \A i \in 1 .. k : r.slots[SlotAt(r, i - 1)] \in Node
    BY <2>1, Zenon DEF RingOK
  <2> QED BY <1>2, <2>2 DEF Popped
<1> QED BY <1>1, <1>3, <1>6, Zenon DEF RingOK, q

\* pool_acquire keeps the free lists well typed and their counts large enough.
LEMMA AcquireOK ==
  ASSUME WorkerInv, NEW t \in Thread, NEW n \in Node, pool_acquire(t, n)
  PROVE  /\ free' \subseteq Node /\ cache' \in [Thread -> SUBSET Node]
         /\ count' \in [Thread -> 0 .. CACHE_MAX]
         /\ \A u \in Thread : Cardinality(cache'[u]) <= count'[u]
<1>1. /\ free \subseteq Node /\ cache \in [Thread -> SUBSET Node]
      /\ count \in [Thread -> 0 .. CACHE_MAX] /\ CACHE_MAX \in Nat /\ GRAB \in 1 .. CACHE_MAX + 1
      /\ IsFiniteSet(Node) /\ \A u \in Thread : Cardinality(cache[u]) <= count[u]
  BY TcpWorkerAssumption, Zenon DEF WorkerInv, TypeOK
<1>2. CASE /\ n \in cache[t]
           /\ cache' = [cache EXCEPT ![t] = @ \ {n}]
           /\ count' = [count EXCEPT ![t] = @ - 1]
           /\ UNCHANGED free
  <2>1. IsFiniteSet(cache[t]) /\ Cardinality(cache[t]) \in Nat
    BY <1>1, FS_Subset, FS_CardinalityType, Zenon
  <2>2. Cardinality(cache[t] \ {n}) = Cardinality(cache[t]) - 1 /\ Cardinality(cache[t] \ {n}) \in Nat
    BY <1>2, <2>1, FS_RemoveElement, FS_CardinalityType, Zenon
  <2>3. cache' \in [Thread -> SUBSET Node] /\ cache'[t] = cache[t] \ {n}
    BY <1>1, <1>2, Zenon
  <2>4. count' \in [Thread -> 0 .. CACHE_MAX] /\ count'[t] = count[t] - 1
    BY <1>1, <1>2, <2>1, <2>2
  <2>5. \A u \in Thread : u # t => cache'[u] = cache[u] /\ count'[u] = count[u]
    BY <1>1, <1>2, Zenon
  <2>6. Cardinality(cache'[t]) <= count'[t]
    BY <1>1, <2>1, <2>2, <2>3, <2>4
  <2> QED BY <1>1, <1>2, <2>3, <2>4, <2>5, <2>6, Zenon
<1>3. CASE /\ cache[t] = {}
           /\ \E g \in SUBSET free :
                /\ n \in g
                /\ Cardinality(g) = GRAB \/ (Cardinality(g) < GRAB /\ g = free)
                /\ cache' = [cache EXCEPT ![t] = g \ {n}]
                /\ count' = [count EXCEPT ![t] = Cardinality(g) - 1]
                /\ free' = free \ g
  <2>1. PICK g \in SUBSET free :
                /\ n \in g
                /\ Cardinality(g) = GRAB \/ (Cardinality(g) < GRAB /\ g = free)
                /\ cache' = [cache EXCEPT ![t] = g \ {n}]
                /\ count' = [count EXCEPT ![t] = Cardinality(g) - 1]
                /\ free' = free \ g
    BY <1>3, Zenon
  <2>2. IsFiniteSet(g) /\ Cardinality(g) \in Nat
    BY <1>1, FS_Subset, FS_CardinalityType, Zenon
  <2>3. Cardinality(g \ {n}) = Cardinality(g) - 1 /\ Cardinality(g \ {n}) \in Nat
    BY <2>1, <2>2, FS_RemoveElement, FS_CardinalityType, Zenon
  <2>4. Cardinality(g) - 1 \in 0 .. CACHE_MAX
    BY <1>1, <2>1, <2>2, <2>3
  <2>5. /\ cache' \in [Thread -> SUBSET Node] /\ cache'[t] = g \ {n}
        /\ count' \in [Thread -> 0 .. CACHE_MAX] /\ count'[t] = Cardinality(g) - 1
    BY <1>1, <2>1, <2>4, Zenon
  <2>6. \A u \in Thread : u # t => cache'[u] = cache[u] /\ count'[u] = count[u]
    BY <1>1, <2>1, Zenon
  <2>7. Cardinality(cache'[t]) <= count'[t]
    BY <2>3, <2>4, <2>5
  <2> QED BY <1>1, <2>1, <2>5, <2>6, <2>7, Zenon
<1> QED BY <1>2, <1>3, Zenon DEF pool_acquire

\* pool_release keeps the free lists well typed and their counts large enough.
LEMMA ReleaseOK ==
  ASSUME WorkerInv, NEW t \in Thread, NEW n \in Node, pool_release(t, n)
  PROVE  /\ free' \subseteq Node /\ cache' \in [Thread -> SUBSET Node]
         /\ count' \in [Thread -> 0 .. CACHE_MAX]
         /\ \A u \in Thread : Cardinality(cache'[u]) <= count'[u]
<1>1. /\ free \subseteq Node /\ cache \in [Thread -> SUBSET Node]
      /\ count \in [Thread -> 0 .. CACHE_MAX] /\ CACHE_MAX \in Nat /\ CACHE_KEEP \in 0 .. CACHE_MAX
      /\ IsFiniteSet(Node) /\ \A u \in Thread : Cardinality(cache[u]) <= count[u]
  BY TcpWorkerAssumption, Zenon DEF WorkerInv, TypeOK
<1>2. CASE /\ count[t] < CACHE_MAX
           /\ cache' = [cache EXCEPT ![t] = @ \cup {n}]
           /\ count' = [count EXCEPT ![t] = @ + 1]
           /\ UNCHANGED free
  <2>1. IsFiniteSet(cache[t]) /\ Cardinality(cache[t]) \in Nat
    BY <1>1, FS_Subset, FS_CardinalityType, Zenon
  <2>2. Cardinality(cache[t] \cup {n}) <= Cardinality(cache[t]) + 1
        /\ Cardinality(cache[t] \cup {n}) \in Nat
    <3> DEFINE a == Cardinality(cache[t] \cup {n})
               b == Cardinality(cache[t])
    <3>1. a = IF n \in cache[t] THEN b ELSE b + 1
      BY <2>1, FS_AddElement, Zenon
    <3> HIDE DEF a
    <3>2. a <= b + 1 /\ a \in Nat
      BY <2>1, <3>1
    <3> QED BY <3>2, Zenon DEF a
  <2>3. cache' \in [Thread -> SUBSET Node] /\ cache'[t] = cache[t] \cup {n}
    BY <1>1, <1>2, Zenon
  <2>4. count' \in [Thread -> 0 .. CACHE_MAX] /\ count'[t] = count[t] + 1
    BY <1>1, <1>2
  <2>5. \A u \in Thread : u # t => cache'[u] = cache[u] /\ count'[u] = count[u]
    BY <1>1, <1>2, Zenon
  <2>6. Cardinality(cache'[t]) <= count'[t]
    BY <1>1, <2>1, <2>2, <2>3, <2>4
  <2> QED BY <1>1, <1>2, <2>3, <2>4, <2>5, <2>6, Zenon
<1>3. CASE \E keep \in SUBSET cache[t] :
             /\ Cardinality(keep) = CACHE_KEEP
             /\ cache' = [cache EXCEPT ![t] = keep]
             /\ count' = [count EXCEPT ![t] = CACHE_KEEP]
             /\ free' = free \cup (cache[t] \ keep) \cup {n}
  <2>1. PICK keep \in SUBSET cache[t] :
             /\ Cardinality(keep) = CACHE_KEEP
             /\ cache' = [cache EXCEPT ![t] = keep]
             /\ count' = [count EXCEPT ![t] = CACHE_KEEP]
             /\ free' = free \cup (cache[t] \ keep) \cup {n}
    BY <1>3, Zenon
  <2>2. cache[t] \subseteq Node
    BY <1>1, Zenon
  <2>3. cache' \in [Thread -> SUBSET Node] /\ cache'[t] = keep
    BY <1>1, <2>1, <2>2, Zenon
  <2>4. count' \in [Thread -> 0 .. CACHE_MAX] /\ count'[t] = CACHE_KEEP
    BY <1>1, <2>1, Zenon
  <2>5. \A u \in Thread : u # t => cache'[u] = cache[u] /\ count'[u] = count[u]
    BY <1>1, <2>1, Zenon
  <2>6. free' \subseteq Node
    BY <1>1, <2>1, <2>2, Zenon
  <2>7. Cardinality(cache'[t]) <= count'[t]
    BY <1>1, <2>1, <2>3, <2>4
  <2> QED BY <1>1, <2>3, <2>4, <2>5, <2>6, <2>7, Zenon
<1> QED BY <1>2, <1>3, Zenon DEF pool_release

\* Acquiring and filling a node preserves WorkerInv.
LEMMA EnqueueStep ==
  ASSUME WorkerInv, NEW t \in Thread, NEW n \in Node, NEW x \in Packet, Enqueue(t, n, x)
  PROVE  WorkerInv'
<1> USE DEF Thread, Other
<1>1. /\ free' \subseteq Node /\ cache' \in [Thread -> SUBSET Node]
      /\ count' \in [Thread -> 0 .. CACHE_MAX]
      /\ \A u \in Thread : Cardinality(cache'[u]) <= count'[u]
  BY AcquireOK, Zenon DEF Enqueue
<1>2. TypeOK'
  BY <1>1, Zenon DEF WorkerInv, TypeOK, Enqueue, MayEnqueue, PC, drain
<1>3. ASSUME NEW u \in Thread PROVE RingOK(ring[u])' /\ ThreadOK(u)'
  BY Zenon DEF WorkerInv, TypeOK, RingOK, SlotAt, ThreadOK, Processing, Enqueueing, Enqueue, MayEnqueue, drain
<1>4. NoLostWakeup'
  BY DEF WorkerInv, TypeOK, NoLostWakeup, WillBeSeen, Processing, Enqueueing, Enqueue, MayEnqueue, drain
<1> QED BY <1>1, <1>2, <1>3, <1>4, Zenon DEF WorkerInv

\* The critical section of an enqueue preserves WorkerInv: a push on an empty ring
\* leaves the wake-up to come, a push on any other ring relies on the one that is
\* already on its way.
LEMMA PushStep ==
  ASSUME WorkerInv, NEW t \in Thread, Push(t)
  PROVE  WorkerInv'
<1> USE DEF Thread, Other
<1> DEFINE r == ring[Other(t)]
<1>1. r \in PacketRing /\ RingOK(r) /\ hand[t] \in Node
  BY Zenon DEF WorkerInv, TypeOK, ThreadOK, Push
<1>2. CASE r.len = TCP_WORKER_QUEUE_CAP /\ pc' = [pc EXCEPT ![t] = "undo"] /\ UNCHANGED <<ring, hand>>
  <2>1. TypeOK'
    BY <1>2, Zenon DEF WorkerInv, TypeOK, Push, PC, drain, pool
  <2>2. ASSUME NEW u \in Thread PROVE RingOK(ring[u])' /\ ThreadOK(u)'
    BY <1>2, Zenon DEF WorkerInv, TypeOK, RingOK, SlotAt, ThreadOK, Processing, Enqueueing, Push, drain
  <2>3. NoLostWakeup'
    BY <1>2 DEF WorkerInv, TypeOK, NoLostWakeup, WillBeSeen, Processing, Enqueueing, Push, drain
  <2> QED BY <2>1, <2>2, <2>3, Zenon DEF WorkerInv, Push, pool
<1>3. CASE /\ r.len < TCP_WORKER_QUEUE_CAP
           /\ ring' = [ring EXCEPT ![Other(t)] = ring_push(r, hand[t])]
           /\ hand' = [hand EXCEPT ![t] = NoNode]
           /\ pc' = [pc EXCEPT ![t] = IF Wakes(r) THEN "signal" ELSE caller[t]]
  <2> DEFINE q == ring_push(r, hand[t])
  <2>1. q \in PacketRing /\ RingOK(q) /\ q.len = r.len + 1
    BY <1>1, <1>3, PushOK, Zenon
  <2> HIDE DEF q
  <2>2. /\ ring' \in [Thread -> PacketRing] /\ ring'[Other(t)] = q
        /\ \A u \in Thread : u # Other(t) => ring'[u] = ring[u]
    BY <1>3, <2>1, Zenon DEF WorkerInv, TypeOK, q
  <2>3. TypeOK'
    BY <1>3, <2>2 DEF WorkerInv, TypeOK, Push, PC, drain, pool
  <2>4. \A u \in Thread : RingOK(ring'[u])
    BY <2>1, <2>2, Zenon DEF WorkerInv
  <2>5. ASSUME NEW u \in Thread PROVE ThreadOK(u)'
    BY <1>3, Zenon DEF WorkerInv, TypeOK, ThreadOK, Processing, Enqueueing, Push, drain
  <2>6. NoLostWakeup'
    <3>1. r.len \in Nat
      BY <1>1 DEF PacketRing
    <3>2. ASSUME NEW u \in Thread, ring'[u].len > 0 PROVE WillBeSeen(u)'
      <4>1. CASE u = t
        <5>1. ring[u].len > 0
          BY <2>2, <3>2, <4>1, Zenon
        <5>2. WillBeSeen(u)
          BY <5>1, Zenon DEF WorkerInv, NoLostWakeup
        <5> QED BY <1>3, <4>1, <5>2, Zenon DEF WorkerInv, TypeOK, WillBeSeen, Processing, Enqueueing, Push, drain
      <4>2. CASE u # t /\ r.len = 0
        BY <1>3, <4>2 DEF WorkerInv, TypeOK, WillBeSeen, Wakes
      <4>3. CASE u # t /\ r.len > 0
        <5>1. WillBeSeen(u)
          BY <4>3, Zenon DEF WorkerInv, NoLostWakeup
        <5> QED BY <1>3, <4>3, <5>1, Zenon DEF WorkerInv, TypeOK, WillBeSeen, Processing, Enqueueing, Push, drain
      <4> QED BY <3>1, <4>1, <4>2, <4>3
    <3> QED BY <3>2, Zenon DEF NoLostWakeup
  <2> QED BY <2>3, <2>4, <2>5, <2>6, Zenon DEF WorkerInv, Push, pool
<1> QED BY <1>2, <1>3, Zenon DEF Push

\* Dropping a packet preserves WorkerInv.
LEMMA UndoStep ==
  ASSUME WorkerInv, NEW t \in Thread, Undo(t)
  PROVE  WorkerInv'
<1> USE DEF Thread, Other
<1>0. hand[t] \in Node
  BY Zenon DEF WorkerInv, ThreadOK, Undo
<1>1. /\ free' \subseteq Node /\ cache' \in [Thread -> SUBSET Node]
      /\ count' \in [Thread -> 0 .. CACHE_MAX]
      /\ \A u \in Thread : Cardinality(cache'[u]) <= count'[u]
  BY <1>0, ReleaseOK, Zenon DEF Undo
<1>2. TypeOK'
  BY <1>1, Zenon DEF WorkerInv, TypeOK, Undo, PC, drain
<1>3. ASSUME NEW u \in Thread PROVE RingOK(ring[u])' /\ ThreadOK(u)'
  BY Zenon DEF WorkerInv, TypeOK, RingOK, SlotAt, ThreadOK, Processing, Enqueueing, Undo, drain
<1>4. NoLostWakeup'
  BY DEF WorkerInv, TypeOK, NoLostWakeup, WillBeSeen, Processing, Enqueueing, Undo, drain
<1> QED BY <1>1, <1>2, <1>3, <1>4, Zenon DEF WorkerInv

\* uv_async_send to the consumer preserves WorkerInv.
LEMMA SignalStep ==
  ASSUME WorkerInv, NEW t \in Thread, Signal(t)
  PROVE  WorkerInv'
<1> USE DEF Thread, Other
<1>1. TypeOK'
  BY DEF WorkerInv, TypeOK, Signal, PC, drain, pool
<1>2. ASSUME NEW u \in Thread PROVE RingOK(ring[u])' /\ ThreadOK(u)'
  BY Zenon DEF WorkerInv, TypeOK, RingOK, SlotAt, ThreadOK, Processing, Enqueueing, Signal, drain
<1>3. NoLostWakeup'
  BY DEF WorkerInv, TypeOK, NoLostWakeup, WillBeSeen, Processing, Enqueueing, Signal, drain
<1> QED BY <1>1, <1>2, <1>3, Zenon DEF WorkerInv, Signal, pool

\* The start of a callback, which clears the pending flag, preserves WorkerInv.
LEMMA WakeStep ==
  ASSUME WorkerInv, NEW t \in Thread, Wake(t)
  PROVE  WorkerInv'
<1> USE DEF Thread, Other
<1>0. TCP_WORKER_BATCH_LIMIT \in Nat \ {0}
  BY TcpWorkerAssumption, Zenon
<1>1. TypeOK'
  BY <1>0 DEF WorkerInv, TypeOK, Wake, PC, pool
<1>2. ASSUME NEW u \in Thread PROVE RingOK(ring[u])' /\ ThreadOK(u)'
  BY <1>0 DEF WorkerInv, TypeOK, RingOK, SlotAt, ThreadOK, Processing, Enqueueing, Wake
<1>3. NoLostWakeup'
  BY DEF WorkerInv, TypeOK, NoLostWakeup, WillBeSeen, Processing, Enqueueing, Wake
<1> QED BY <1>1, <1>2, <1>3, Zenon DEF WorkerInv, Wake, pool

\* The critical section of drain_*_batch preserves WorkerInv: packets that stay in
\* the ring are recorded in *more.
LEMMA DrainStep ==
  ASSUME WorkerInv, NEW t \in Thread, DrainBatch(t)
  PROVE  WorkerInv'
<1> USE DEF Thread, Other
<1> DEFINE r == ring[t]
           k == BatchSize(t)
           q == ring_pop(r, k)
           b == Popped(r, k)
<1>1. /\ r \in PacketRing /\ RingOK(r) /\ r.len \in Nat /\ processed[t] \in Nat
      /\ processed[t] < TCP_WORKER_BATCH_LIMIT /\ TCP_WORKER_BATCH_LIMIT \in Nat
  BY TcpWorkerAssumption DEF WorkerInv, TypeOK, ThreadOK, DrainBatch, PacketRing
<1>2. k \in 0 .. r.len /\ processed[t] + k <= TCP_WORKER_BATCH_LIMIT /\ (k = 0 => r.len = 0)
  BY <1>1 DEF BatchSize
<1>3. /\ q \in PacketRing /\ RingOK(q) /\ q.len = r.len - k
      /\ b \in Seq(Node) /\ Len(b) = k
  BY <1>1, <1>2, PopOK, Zenon
<1>4. /\ pc[t] = "drain"
      /\ batch' = [batch EXCEPT ![t] = b]
      /\ ring' = [ring EXCEPT ![t] = q]
      /\ more' = [more EXCEPT ![t] = r.len - k > 0]
      /\ pc' = [pc EXCEPT ![t] = IF k = 0 THEN "resend" ELSE "process"]
      /\ UNCHANGED <<pool, data, pending, caller, hand, processed, got, stop_requested, clients>>
  BY Zenon DEF DrainBatch
<1> HIDE DEF r, k, q, b
<1>5. TypeOK'
  BY <1>3, <1>4 DEF WorkerInv, TypeOK, PC, pool
<1>6. /\ ring'[t] = q /\ batch'[t] = b /\ more'[t] = (r.len - k > 0)
      /\ pc'[t] = IF k = 0 THEN "resend" ELSE "process"
      /\ \A u \in Thread : u # t => /\ ring'[u] = ring[u] /\ batch'[u] = batch[u]
                                  /\ more'[u] = more[u] /\ pc'[u] = pc[u]
  BY <1>4, Zenon DEF WorkerInv, TypeOK
<1>7. ASSUME NEW u \in Thread PROVE RingOK(ring'[u])
  BY <1>3, <1>6, Zenon DEF WorkerInv
<1>8. ASSUME NEW u \in Thread PROVE ThreadOK(u)'
  <2>1. CASE u = t
    <3>1. k > 0 => b # <<>>
      BY <1>3
    <3> QED BY <1>2, <1>3, <1>4, <1>6, <2>1, <3>1 DEF ThreadOK, Processing, Enqueueing
  <2>2. CASE u # t
    BY <1>4, <1>6, <2>2 DEF WorkerInv, ThreadOK, Processing, Enqueueing
  <2> QED BY <2>1, <2>2, Zenon
<1>9. ASSUME NEW u \in Thread, ring'[u].len > 0 PROVE WillBeSeen(u)'
  <2>1. CASE u = t
    BY <1>1, <1>2, <1>3, <1>6, <1>9, <2>1, Zenon DEF WillBeSeen, Processing
  <2>2. CASE u # t
    <3>1. WillBeSeen(u)
      BY <1>6, <1>9, <2>2, Zenon DEF WorkerInv, NoLostWakeup
    <3> QED BY <1>4, <1>6, <2>2, <3>1, Zenon DEF WillBeSeen, Processing, Enqueueing
  <2> QED BY <2>1, <2>2, Zenon
<1> QED BY <1>4, <1>5, <1>7, <1>8, <1>9, Zenon DEF WorkerInv, NoLostWakeup, pool

\* Reading a packet preserves WorkerInv.
LEMMA ProcessStep ==
  ASSUME WorkerInv, NEW t \in Thread, Process(t)
  PROVE  WorkerInv'
<1> USE DEF Thread, Other
<1>0. Head(batch[t]) \in Node
  BY DEF WorkerInv, TypeOK, ThreadOK, Processing, Process
<1>1. TypeOK'
  <2>1. pc' \in [Thread -> PC]
    BY Zenon DEF WorkerInv, TypeOK, Process, PC
  <2>2. got' \in [Thread -> Packet]
    BY <1>0, Zenon DEF WorkerInv, TypeOK, Process
  <2> QED BY <2>1, <2>2, Zenon DEF WorkerInv, TypeOK, Process, drain, pool
<1>2. ASSUME NEW u \in Thread PROVE RingOK(ring[u])' /\ ThreadOK(u)'
  BY Zenon DEF WorkerInv, TypeOK, RingOK, SlotAt, ThreadOK, Processing, Enqueueing, Process, drain
<1>3. NoLostWakeup'
  BY Zenon DEF WorkerInv, TypeOK, NoLostWakeup, WillBeSeen, Processing, Enqueueing, Process, drain
<1> QED BY <1>1, <1>2, <1>3, Zenon DEF WorkerInv, Process, pool

\* Releasing a packet preserves WorkerInv: a callback leaves its loop only at the
\* batch limit, and then *more says what is left.
LEMMA ReleaseStep ==
  ASSUME WorkerInv, NEW t \in Thread, Release(t)
  PROVE  WorkerInv'
<1> USE DEF Thread, Other
<1> DEFINE b == batch[t]
           p == processed[t]
<1>0. /\ b \in Seq(Node) /\ b # <<>> /\ p \in Nat /\ p + Len(b) <= TCP_WORKER_BATCH_LIMIT
      /\ TCP_WORKER_BATCH_LIMIT \in Nat /\ pc[t] = "input"
  BY TcpWorkerAssumption DEF WorkerInv, TypeOK, ThreadOK, Processing, Release
<1>1. /\ Head(b) \in Node /\ Tail(b) \in Seq(Node) /\ Len(Tail(b)) = Len(b) - 1
      /\ Len(b) \in Nat /\ Len(b) >= 1 /\ (Tail(b) = <<>> <=> Len(b) = 1)
  <2> HIDE DEF b, p
  <2>2. Len(b) \in Nat /\ Len(b) >= 1
    BY <1>0
  <2>1. Head(b) \in Node /\ Tail(b) \in Seq(Node) /\ Len(Tail(b)) = Len(b) - 1 /\ Len(b) \in Nat
    BY <1>0, <2>2
  <2>3. \A s \in Seq(Node) : s = <<>> <=> Len(s) = 0
    OBVIOUS
  <2>4. Tail(b) = <<>> <=> Len(b) = 1
    <3> DEFINE c == Tail(b)
    <3>1. c \in Seq(Node) /\ Len(c) = Len(b) - 1
      BY <2>1, Zenon
    <3> HIDE DEF c
    <3>2. c = <<>> <=> Len(c) = 0
      BY <2>3, <3>1, Zenon
    <3>3. Len(c) = 0 <=> Len(b) = 1
      BY <2>2, <3>1
    <3> QED BY <3>2, <3>3, Zenon DEF c
  <2> QED BY <2>1, <2>2, <2>4, Zenon
<1>2. /\ free' \subseteq Node /\ cache' \in [Thread -> SUBSET Node]
      /\ count' \in [Thread -> 0 .. CACHE_MAX]
      /\ \A u \in Thread : Cardinality(cache'[u]) <= count'[u]
  BY <1>1, ReleaseOK, Zenon DEF Release
<1>3. /\ batch' = [batch EXCEPT ![t] = Tail(b)]
      /\ processed' = [processed EXCEPT ![t] = p + 1]
      /\ pc' = [pc EXCEPT ![t] = IF Tail(b) # <<>> THEN "process"
                                 ELSE IF processed'[t] < TCP_WORKER_BATCH_LIMIT THEN "drain"
                                 ELSE "resend"]
      /\ UNCHANGED <<ring, data, pending, caller, hand, more, got, stop_requested, clients>>
  BY Zenon DEF Release
<1> HIDE DEF b, p
<1>4. TypeOK'
  <2>1. batch' \in [Thread -> Seq(Node)] /\ processed' \in [Thread -> 0 .. TCP_WORKER_BATCH_LIMIT]
    BY <1>0, <1>1, <1>3, SMTT(20), Zenon DEF WorkerInv, TypeOK
  <2> QED BY <1>2, <1>3, <2>1, SMTT(20), Zenon DEF WorkerInv, TypeOK, PC
<1>5. /\ batch'[t] = Tail(b) /\ processed'[t] = p + 1
      /\ pc'[t] = IF Tail(b) # <<>> THEN "process"
                  ELSE IF p + 1 < TCP_WORKER_BATCH_LIMIT THEN "drain" ELSE "resend"
      /\ \A u \in Thread : u # t => /\ batch'[u] = batch[u] /\ processed'[u] = processed[u]
                                  /\ pc'[u] = pc[u]
  BY <1>3, Zenon DEF WorkerInv, TypeOK
<1>6. ASSUME NEW u \in Thread PROVE RingOK(ring[u])'
  BY <1>3, Zenon DEF WorkerInv, RingOK, SlotAt
<1>7. ASSUME NEW u \in Thread PROVE ThreadOK(u)'
  <2>1. CASE u = t
    BY <1>0, <1>1, <1>5, <2>1 DEF ThreadOK, Processing, Enqueueing
  <2>2. CASE u # t
    BY <1>3, <1>5, <2>2, Zenon DEF WorkerInv, ThreadOK, Processing, Enqueueing
  <2> QED BY <2>1, <2>2, Zenon
<1>8. ASSUME NEW u \in Thread, ring'[u].len > 0 PROVE WillBeSeen(u)'
  <2>1. WillBeSeen(u)
    BY <1>3, <1>8, Zenon DEF WorkerInv, NoLostWakeup
  <2>2. CASE u = t
    <3>1. Len(batch'[t]) = Len(b) - 1 /\ processed'[t] + Len(batch'[t]) = p + Len(b)
      BY <1>0, <1>1, <1>5
    <3>2. \/ pending[t] \/ pc[Other(t)] = "signal" \/ more[t]
          \/ p + Len(b) < TCP_WORKER_BATCH_LIMIT
      BY <1>0, <2>1, <2>2, Zenon DEF WillBeSeen, Processing, Enqueueing, b, p
    <3> QED BY <1>0, <1>1, <1>3, <1>5, <2>2, <3>1, <3>2, Zenon DEF WillBeSeen, Processing
  <2>3. CASE u # t
    BY <1>0, <1>3, <1>5, <2>1, <2>3, Zenon DEF WillBeSeen, Processing, Enqueueing
  <2> QED BY <2>2, <2>3, Zenon
<1> QED BY <1>2, <1>4, <1>6, <1>7, <1>8, Zenon DEF WorkerInv, NoLostWakeup

\* The end of a callback preserves WorkerInv.
LEMMA ResendStep ==
  ASSUME WorkerInv, NEW t \in Thread, Resend(t)
  PROVE  WorkerInv'
<1> USE DEF Thread, Other
<1>1. TypeOK'
  <2>1. pending' \in [Thread -> BOOLEAN] /\ pc' \in [Thread -> PC]
    <3>1. (pending[t] \/ more[t]) \in BOOLEAN
      BY Zenon
    <3> HIDE DEF Thread
    <3>2. \A v \in BOOLEAN : [pending EXCEPT ![t] = v] \in [Thread -> BOOLEAN]
      BY Zenon DEF WorkerInv, TypeOK
    <3>3. \A v \in PC : [pc EXCEPT ![t] = v] \in [Thread -> PC]
      BY Zenon DEF WorkerInv, TypeOK
    <3>4. "poll" \in PC /\ "exiting" \in PC
      BY Zenon DEF PC
    <3> QED BY <3>1, <3>2, <3>3, <3>4, Zenon DEF Resend
  <2> QED BY <2>1, Zenon DEF WorkerInv, TypeOK, Resend, drain, pool
<1>2. ASSUME NEW u \in Thread PROVE RingOK(ring[u])' /\ ThreadOK(u)'
  BY Zenon DEF WorkerInv, TypeOK, RingOK, SlotAt, ThreadOK, Processing, Enqueueing, Resend, drain
<1>3. ASSUME NEW u \in Thread, ring'[u].len > 0
      PROVE  WillBeSeen(u)'
  <2>1. ring' = ring /\ caller' = caller /\ batch' = batch /\ processed' = processed /\ more' = more
    BY Zenon DEF Resend, drain
  <2>2. WillBeSeen(u)
    BY <1>3, <2>1, Zenon DEF WorkerInv, NoLostWakeup
  <2>3. CASE u = t
    <3>1. pending[t] \/ more[t] \/ pc[Other(t)] = "signal"
      BY <2>2, <2>3, Zenon DEF WillBeSeen, Processing, Enqueueing, Resend
    <3>2. pc'[t] = "exiting" \/ (pending'[t] <=> pending[t] \/ more[t])
      BY Zenon DEF Resend, WorkerInv, TypeOK
    <3>3. pc'[Other(t)] = pc[Other(t)]
      BY Zenon DEF Resend, WorkerInv, TypeOK
    <3> QED BY <2>3, <3>1, <3>2, <3>3, Zenon DEF WillBeSeen
  <2>4. CASE u # t
    <3>1. pc'[u] = pc[u] /\ pending'[u] = pending[u] /\ pc[Other(u)] # "signal"
      BY <2>4, Zenon DEF Resend, WorkerInv, TypeOK
    <3> QED BY <2>1, <2>2, <3>1, Zenon DEF WillBeSeen, Processing, Enqueueing
  <2> QED BY <2>3, <2>4, Zenon
<1> QED BY <1>1, <1>2, <1>3, Zenon DEF WorkerInv, NoLostWakeup, Resend, pool

\* Start, stop, exit and join of the worker, and its clients, preserve WorkerInv.
LEMMA LifeSteps ==
  ASSUME WorkerInv, LifeStep \/ Stop \/ (\E c \in Client : Accept(c) \/ Leave(c))
  PROVE  WorkerInv'
<1> USE DEF Thread, Other, LifeStep, WorkerStarts, StartReturns, StopSignal, Exit, Join, Stop,
            Accept, Leave
<1>1. TypeOK'
  <2>1. pc' \in [Thread -> PC]
    BY DEF WorkerInv, TypeOK, PC
  <2>2. pending' \in [Thread -> BOOLEAN] /\ stop_requested' \in BOOLEAN /\ clients' \subseteq Client
    BY Zenon DEF WorkerInv, TypeOK
  <2>3. UNCHANGED <<free, cache, count, ring, data, caller, hand, batch, processed, more, got>>
    BY Zenon DEF drain, pool
  <2> QED BY <2>1, <2>2, <2>3, Zenon DEF WorkerInv, TypeOK
<1>2. ASSUME NEW u \in Thread PROVE RingOK(ring[u])' /\ ThreadOK(u)'
  BY Zenon DEF WorkerInv, TypeOK, RingOK, SlotAt, ThreadOK, Processing, Enqueueing, drain
<1>3. NoLostWakeup'
  BY DEF WorkerInv, TypeOK, NoLostWakeup, WillBeSeen, Processing, Enqueueing, drain
<1>4. UNCHANGED <<cache, count>>
  BY Zenon DEF pool
<1> QED BY <1>1, <1>2, <1>3, <1>4, Zenon DEF WorkerInv

\* WorkerInv holds in every reachable state: one case per step of the two threads.
THEOREM WorkerInvariant == Spec => []WorkerInv
<1>1. ASSUME Init PROVE WorkerInv
  <2>1. TypeOK
    <3>1. (CHOOSE x \in Packet : TRUE) \in Packet
      BY TcpWorkerAssumption, Zenon
    <3>2. data \in [Node -> Packet] /\ got \in [Thread -> Packet]
      BY <1>1, <3>1, Zenon DEF Init
    <3>3. ring \in [Thread -> PacketRing]
      BY <1>1, TcpWorkerAssumption DEF Init, PacketRing, Slot
    <3>4. <<>> \in Seq(Node) /\ 0 \in 0 .. CACHE_MAX /\ 0 \in 0 .. TCP_WORKER_BATCH_LIMIT
      BY TcpWorkerAssumption
    <3>5. /\ count \in [Thread -> 0 .. CACHE_MAX] /\ batch \in [Thread -> Seq(Node)]
          /\ processed \in [Thread -> 0 .. TCP_WORKER_BATCH_LIMIT]
      BY <1>1, <3>4, Zenon DEF Init
    <3>6. /\ pc \in [Thread -> PC] /\ caller \in [Thread -> {"poll", "input", "exiting"}]
      BY <1>1, Zenon DEF Init, PC
    <3>7. pending \in [Thread -> BOOLEAN] /\ more \in [Thread -> BOOLEAN] /\ stop_requested \in BOOLEAN
      BY <1>1, Zenon DEF Init
    <3>8. /\ free \subseteq Node /\ cache \in [Thread -> SUBSET Node]
          /\ hand \in [Thread -> Node \cup {NoNode}] /\ clients \subseteq Client
      BY <1>1, Zenon DEF Init
    <3> QED BY <3>2, <3>3, <3>5, <3>6, <3>7, <3>8, Zenon DEF TypeOK
  <2>2. \A t \in Thread : RingOK(ring[t]) /\ ThreadOK(t) /\ Cardinality(cache[t]) <= count[t]
    BY <1>1, FS_EmptySet DEF Init, RingOK, ThreadOK, Processing, Enqueueing
  <2>3. NoLostWakeup
    BY <1>1 DEF Init, NoLostWakeup
  <2> QED BY <2>1, <2>2, <2>3, Zenon DEF WorkerInv
<1>2. WorkerInv /\ [Next]_vars => WorkerInv'
  <2> SUFFICES ASSUME WorkerInv, [Next]_vars PROVE WorkerInv'
    BY Zenon
  <2>1. CASE UNCHANGED vars \/ Terminated
    BY <2>1, Zenon DEF vars, Terminated, WorkerInv, TypeOK, RingOK, SlotAt, ThreadOK, Processing,
                Enqueueing, NoLostWakeup, WillBeSeen, Other
  <2>2. ASSUME NEW t \in Thread, ThreadStep(t) PROVE WorkerInv'
    BY <2>2, PushStep, UndoStep, SignalStep, WakeStep, DrainStep, ProcessStep, ReleaseStep,
       ResendStep, Zenon DEF ThreadStep
  <2>3. ASSUME NEW t \in Thread, NEW n \in Node, NEW x \in Packet, Enqueue(t, n, x)
        PROVE  WorkerInv'
    BY <2>3, EnqueueStep, Zenon
  <2>4. CASE LifeStep \/ Stop \/ (\E c \in Client : Accept(c) \/ Leave(c))
    BY <2>4, LifeSteps, Zenon
  <2> QED BY <2>1, <2>2, <2>3, <2>4, Zenon DEF Next
<1>3. Init => WorkerInv
  BY <1>1, Zenon
<1> QED BY <1>2, <1>3, PTL DEF Spec

\* The state of tcp_worker.c stays well typed: the rings never hold more than their
\* capacity and the free list counts stay between 0 and their limit.
THEOREM WorkerTypeCorrect == Spec => []TypeOK
<1>1. WorkerInv => TypeOK
  BY Zenon DEF WorkerInv
<1> QED BY <1>1, WorkerInvariant, PTL

\* No wake-up is lost between main loop and worker, for all capacities and batch
\* limits: a ring with packets always has a wake-up or a look at it ahead.
THEOREM WakeupsNotLost == Spec => []NoLostWakeup
<1>1. WorkerInv => NoLostWakeup
  BY Zenon DEF WorkerInv
<1> QED BY <1>1, WorkerInvariant, PTL
=============================================================================

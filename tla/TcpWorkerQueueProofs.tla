------------------------ MODULE TcpWorkerQueueProofs ------------------------
(***************************************************************************)
(* No packet node is lost or used twice, and each direction of the         *)
(* exchange between main loop and worker is a bounded queue, for any       *)
(* capacity, batch limit, pool and list sizes.                             *)
(*                                                                         *)
(* A ring is read as the sequence of its nodes: ring_push appends to it    *)
(* and ring_pop takes a prefix.  Every step of a thread moves nodes from   *)
(* one place to another, so the places keep partitioning the pool.  A node *)
(* that is acquired is then in neither direction, and filling it changes   *)
(* no packet that is still to be read.                                     *)
(***************************************************************************)
EXTENDS TcpWorkerProofs, SequenceTheorems

\* The nodes of a ring in the order in which ring_pop returns them.
Items(r) == Popped(r, r.len)

\* The places f partition the nodes of the pool.
Partition(f) == \A n \in Node : \E l \in Location : \A m \in Location : n \in f[m] <=> m = l

\* The nodes at each place.
Places == [l \in Location |-> At(l)]

\* g is f after the nodes N went from place a to place b.
Moved(f, g, a, b, N) ==
  /\ N \subseteq f[a] /\ g[a] = f[a] \ N /\ g[b] = f[b] \cup N
  /\ \A l \in Location \ {a, b} : g[l] = f[l]

\* No element of s occurs twice.
NoRepeat(s) == \A i, j \in DOMAIN s : s[i] = s[j] => i = j

\* A thread holds a node, or a batch, only where the code does.
HoldsOK(t) ==
  /\ pc[t] \notin {"push", "undo"} => hand[t] = NoNode
  /\ ~Processing(t) => batch[t] = <<>>

\* The inductive invariant of the accounting.
AccountInv ==
  /\ WorkerInv
  /\ Partition(Places)
  /\ \A t \in Thread : HoldsOK(t) /\ NoRepeat(Line(t)) /\ count[t] = Cardinality(cache[t])

----------------------------------------------------------------------------
(* Rings as sequences *)

\* The nodes of a ring form a sequence of its length.
LEMMA ItemsSeq ==
  ASSUME NEW r \in PacketRing, RingOK(r)
  PROVE  /\ Items(r) \in Seq(Node) /\ Len(Items(r)) = r.len
         /\ \A i \in 1 .. r.len : Items(r)[i] = r.slots[SlotAt(r, i - 1)]
<1>1. r.len \in 0 .. r.len /\ r.len \in Nat
  BY DEF PacketRing
<1>2. Popped(r, r.len) \in Seq(Node) /\ Len(Popped(r, r.len)) = r.len
  BY <1>1, PopOK
<1> QED BY <1>1, <1>2, Zenon DEF Items, Popped

\* ring_push appends.
LEMMA PushItems ==
  ASSUME NEW r \in PacketRing, RingOK(r), r.len < TCP_WORKER_QUEUE_CAP, NEW n \in Node
  PROVE  Items(ring_push(r, n)) = Append(Items(r), n)
<1> DEFINE q == ring_push(r, n)
           a == Items(r)
           b == Items(q)
<1>1. r.len \in Nat
  BY DEF PacketRing
<1>2. /\ q \in PacketRing /\ RingOK(q) /\ q.len = r.len + 1 /\ q.slots[SlotAt(q, r.len)] = n
      /\ \A i \in 0 .. r.len - 1 : q.slots[SlotAt(q, i)] = r.slots[SlotAt(r, i)]
  BY PushSlots, PushOK
<1> HIDE DEF q
<1>3. /\ a \in Seq(Node) /\ Len(a) = r.len
      /\ \A i \in 1 .. r.len : a[i] = r.slots[SlotAt(r, i - 1)]
  BY ItemsSeq, Zenon
<1>4. /\ b \in Seq(Node) /\ Len(b) = r.len + 1
      /\ \A i \in 1 .. r.len + 1 : b[i] = q.slots[SlotAt(q, i - 1)]
  BY <1>2, ItemsSeq, Zenon
<1> HIDE DEF a, b
<1>5. ASSUME NEW i \in 1 .. r.len PROVE b[i] = a[i]
  <2>1. i - 1 \in 0 .. r.len - 1 /\ i \in 1 .. r.len + 1
    BY <1>1
  <2> QED BY <1>2, <1>3, <1>4, <2>1, Zenon
<1>6. b[r.len + 1] = n
  <2>1. r.len + 1 \in 1 .. r.len + 1 /\ (r.len + 1) - 1 = r.len
    BY <1>1
  <2> QED BY <1>2, <1>4, <2>1, Zenon
<1>7. b = Append(a, n)
  BY <1>1, <1>3, <1>4, <1>5, <1>6
<1> QED BY <1>7, Zenon DEF a, b, q

\* ring_pop takes a prefix and leaves the rest.
LEMMA PopItems ==
  ASSUME NEW r \in PacketRing, RingOK(r), NEW k \in 0 .. r.len
  PROVE  Popped(r, k) \o Items(ring_pop(r, k)) = Items(r)
<1> DEFINE q == ring_pop(r, k)
           a == Items(r)
           b == Items(q)
           c == Popped(r, k)
<1>1. r.len \in Nat /\ k \in Nat
  BY DEF PacketRing
<1>2. /\ q \in PacketRing /\ RingOK(q) /\ q.len = r.len - k /\ c \in Seq(Node) /\ Len(c) = k
      /\ \A i \in 0 .. r.len - k - 1 : q.slots[SlotAt(q, i)] = r.slots[SlotAt(r, k + i)]
  BY PopSlots, PopOK, Zenon
<1>3. \A i \in 1 .. k : c[i] = r.slots[SlotAt(r, i - 1)]
  BY Zenon DEF Popped
<1> HIDE DEF q, c
<1>4. /\ a \in Seq(Node) /\ Len(a) = r.len
      /\ \A i \in 1 .. r.len : a[i] = r.slots[SlotAt(r, i - 1)]
  BY ItemsSeq, Zenon
<1>5. /\ b \in Seq(Node) /\ Len(b) = r.len - k
      /\ \A i \in 1 .. r.len - k : b[i] = q.slots[SlotAt(q, i - 1)]
  BY <1>2, ItemsSeq, Zenon
<1> HIDE DEF a, b
<1>7. /\ c \o b \in Seq(Node) /\ Len(c \o b) = k + (r.len - k)
      /\ \A i \in 1 .. k + (r.len - k) : (c \o b)[i] = IF i <= k THEN c[i] ELSE b[i - k]
  <2>1. /\ c \o b \in Seq(Node) /\ Len(c \o b) = Len(c) + Len(b)
        /\ \A i \in 1 .. Len(c) + Len(b) : (c \o b)[i] = IF i <= Len(c) THEN c[i] ELSE b[i - Len(c)]
    BY <1>2, <1>5, ConcatProperties, Zenon
  <2> QED BY <1>2, <1>5, <2>1, Zenon
<1>6. ASSUME NEW i \in 1 .. r.len PROVE (c \o b)[i] = a[i]
  <2>0. i \in 1 .. k + (r.len - k)
    BY <1>1
  <2>1. CASE i <= k
    BY <1>1, <1>3, <1>4, <1>7, <2>0, <2>1
  <2>2. CASE i > k
    <3>1. i - k \in 1 .. r.len - k /\ i - k - 1 \in 0 .. r.len - k - 1 /\ k + (i - k - 1) = i - 1
      BY <1>1, <2>2
    <3>2. (c \o b)[i] = b[i - k]
      BY <1>1, <1>7, <2>0, <2>2
    <3> QED BY <1>2, <1>4, <1>5, <3>1, <3>2, Zenon
  <2>3. i <= k \/ i > k
    BY <1>1
  <2> QED BY <2>1, <2>2, <2>3, Zenon
<1>8. c \o b = a
  <2>1. Len(c \o b) = r.len
    BY <1>1, <1>7
  <2>2. Len(c \o b) = Len(a) /\ \A i \in 1 .. Len(c \o b) : (c \o b)[i] = a[i]
    BY <1>4, <1>6, <2>1
  <2> QED BY <1>4, <1>7, <2>2, SeqEqual, Zenon
<1> QED BY <1>8, Zenon DEF a, b, c, q

----------------------------------------------------------------------------
(* Sequences without repetition *)

\* Appending an element that does not occur.
LEMMA NoRepeatAppend ==
  ASSUME NEW s \in Seq(Node), NoRepeat(s), NEW n \in Node, \A i \in DOMAIN s : s[i] # n
  PROVE  NoRepeat(Append(s, n))
<1> DEFINE u == Append(s, n)
<1>1. /\ u \in Seq(Node) /\ Len(u) = Len(s) + 1 /\ u[Len(s) + 1] = n
      /\ \A i \in 1 .. Len(s) : u[i] = s[i]
  BY AppendProperties
<1> HIDE DEF u
<1>2. DOMAIN u = 1 .. Len(s) + 1 /\ DOMAIN s = 1 .. Len(s) /\ Len(s) \in Nat
  BY <1>1
<1>3. ASSUME NEW i \in 1 .. Len(s) + 1, NEW j \in 1 .. Len(s) + 1, u[i] = u[j] PROVE i = j
  <2>1. /\ i \in 1 .. Len(s) \/ i = Len(s) + 1
        /\ j \in 1 .. Len(s) \/ j = Len(s) + 1
    BY <1>2
  <2> QED BY <1>1, <1>2, <1>3, <2>1, Zenon DEF NoRepeat
<1> QED BY <1>2, <1>3, Zenon DEF NoRepeat, u

\* The tail has no repetition, and the first element is not in it.
LEMMA NoRepeatTail ==
  ASSUME NEW s \in Seq(Node), NoRepeat(s), s # <<>>
  PROVE  /\ NoRepeat(Tail(s))
         /\ {Tail(s)[i] : i \in DOMAIN Tail(s)} = {s[i] : i \in DOMAIN s} \ {Head(s)}
<1> DEFINE u == Tail(s)
<1>1. /\ u \in Seq(Node) /\ Len(u) = Len(s) - 1
      /\ \A i \in 1 .. Len(u) : u[i] = s[i + 1]
  BY HeadTailProperties, Zenon
<1>2. Len(s) \in Nat /\ Len(s) >= 1 /\ Head(s) = s[1]
  OBVIOUS
<1> HIDE DEF u
<1>3. DOMAIN u = 1 .. Len(s) - 1 /\ DOMAIN s = 1 .. Len(s)
  BY <1>1
<1>4. \A i \in 1 .. Len(s) - 1 : u[i] = s[i + 1] /\ i + 1 \in 1 .. Len(s) /\ i + 1 # 1
  BY <1>1, <1>2
<1>5. NoRepeat(u)
  <2>1. ASSUME NEW i \in 1 .. Len(s) - 1, NEW j \in 1 .. Len(s) - 1, u[i] = u[j] PROVE i = j
    <3>1. s[i + 1] = s[j + 1] /\ i + 1 \in DOMAIN s /\ j + 1 \in DOMAIN s
      BY <1>3, <1>4, <2>1, Zenon
    <3>2. i + 1 = j + 1
      BY <3>1, Zenon DEF NoRepeat
    <3> QED BY <1>2, <3>2
  <2> QED BY <1>3, <2>1, Zenon DEF NoRepeat
<1>6. ASSUME NEW i \in DOMAIN u PROVE u[i] # Head(s) /\ \E j \in DOMAIN s : u[i] = s[j]
  <2>1. u[i] = s[i + 1] /\ i + 1 \in DOMAIN s /\ i + 1 # 1 /\ 1 \in DOMAIN s
    <3>1. i \in 1 .. Len(s) - 1
      BY <1>3, Zenon
    <3>2. u[i] = s[i + 1] /\ i + 1 \in 1 .. Len(s) /\ i + 1 # 1
      BY <1>4, <3>1, Zenon
    <3>3. 1 \in 1 .. Len(s)
      BY <1>2
    <3> QED BY <1>3, <3>2, <3>3, Zenon
  <2>2. s[i + 1] # s[1]
    BY <2>1, Zenon DEF NoRepeat
  <2> QED BY <1>2, <2>1, <2>2, Zenon
<1>7. ASSUME NEW j \in DOMAIN s, s[j] # Head(s) PROVE \E i \in DOMAIN u : s[j] = u[i]
  <2>1. j - 1 \in 1 .. Len(s) - 1 /\ (j - 1) + 1 = j
    BY <1>2, <1>3, <1>7
  <2> QED BY <1>3, <1>4, <2>1, Zenon
<1>8. {u[i] : i \in DOMAIN u} = {s[i] : i \in DOMAIN s} \ {Head(s)}
  BY <1>6, <1>7
<1> QED BY <1>5, <1>8, Zenon DEF u

\* The elements of a sequence to which n was appended.
LEMMA AppendElements ==
  ASSUME NEW s \in Seq(Node), NEW n \in Node
  PROVE  {Append(s, n)[i] : i \in DOMAIN Append(s, n)} = {s[i] : i \in DOMAIN s} \cup {n}
<1> DEFINE u == Append(s, n)
<1>1. /\ u \in Seq(Node) /\ Len(u) = Len(s) + 1 /\ u[Len(s) + 1] = n
      /\ \A i \in 1 .. Len(s) : u[i] = s[i]
  BY AppendProperties
<1> HIDE DEF u
<1>2. DOMAIN u = 1 .. Len(s) + 1 /\ DOMAIN s = 1 .. Len(s) /\ Len(s) \in Nat
  BY <1>1
<1>3. ASSUME NEW i \in DOMAIN u PROVE u[i] = n \/ \E j \in DOMAIN s : u[i] = s[j]
  <2>1. i \in 1 .. Len(s) \/ i = Len(s) + 1
    BY <1>2
  <2> QED BY <1>1, <1>2, <2>1, Zenon
<1>4. ASSUME NEW j \in DOMAIN s PROVE \E i \in DOMAIN u : u[i] = s[j]
  BY <1>1, <1>2
<1>5. \E i \in DOMAIN u : u[i] = n
  BY <1>1, <1>2
<1>6. {u[i] : i \in DOMAIN u} = {s[i] : i \in DOMAIN s} \cup {n}
  BY <1>3, <1>4, <1>5
<1> QED BY <1>6, Zenon DEF u

----------------------------------------------------------------------------
(* Nodes that move *)

\* Moving nodes from one place to another keeps the partition.
LEMMA MovedPartition ==
  ASSUME NEW f, NEW g, NEW a \in Location, NEW b \in Location, a # b, NEW N,
         Partition(f), Moved(f, g, a, b, N)
  PROVE  Partition(g)
<1> SUFFICES ASSUME NEW n \in Node
             PROVE  \E l \in Location : \A m \in Location : n \in g[m] <=> m = l
  BY Zenon DEF Partition
<1>1. PICK l \in Location : \A m \in Location : n \in f[m] <=> m = l
  BY Zenon DEF Partition
<1>2. CASE n \in N
  <2>1. l = a
    BY <1>1, <1>2, Zenon DEF Moved
  <2>2. \A m \in Location : n \in g[m] <=> m = b
    BY <1>1, <1>2, <2>1, Zenon DEF Moved
  <2> QED BY <2>2, Zenon
<1>3. CASE n \notin N
  <2>1. \A m \in Location : n \in g[m] <=> m = l
    BY <1>1, <1>3, Zenon DEF Moved
  <2> QED BY <2>1, Zenon
<1> QED BY <1>2, <1>3, Zenon

\* A node is in one place only.
LEMMA OnePlace ==
  ASSUME NEW f, Partition(f), NEW n \in Node, NEW a \in Location, NEW b \in Location, n \in f[a], n \in f[b]
  PROVE  a = b
<1>1. PICK l \in Location : \A m \in Location : n \in f[m] <=> m = l
  BY Zenon DEF Partition
<1> QED BY <1>1, Zenon

\* The places by name.
Named ==
  /\ <<"free", "pool">> \in Location /\ Places[<<"free", "pool">>] = free
  /\ \A t \in Thread : /\ <<"cache", t>> \in Location /\ Places[<<"cache", t>>] = cache[t]
                       /\ <<"line", t>> \in Location
                       /\ Places[<<"line", t>>] = {Line(t)[i] : i \in DOMAIN Line(t)}
                       /\ <<"hand", t>> \in Location /\ Places[<<"hand", t>>] = {hand[t]} \ {NoNode}
  /\ \A l \in Location : \/ l = <<"free", "pool">>
                         \/ \E t \in Thread : l \in {<<"cache", t>>, <<"line", t>>, <<"hand", t>>}

\* The places are the free list of the pool, and for each thread its own free list, its
\* direction and its hand.
LEMMA PlaceNames == Named
<1>1. /\ <<"free", "pool">> \in Location
      /\ \A t \in Thread : <<"cache", t>> \in Location /\ <<"line", t>> \in Location /\ <<"hand", t>> \in Location
      /\ \A l \in Location : \/ l = <<"free", "pool">>
                             \/ \E t \in Thread : l \in {<<"cache", t>>, <<"line", t>>, <<"hand", t>>}
  BY DEF Location
<1>2. At(<<"free", "pool">>) = free
  BY Zenon DEF At
<1>3. ASSUME NEW t \in Thread
      PROVE  /\ At(<<"cache", t>>) = cache[t]
             /\ At(<<"line", t>>) = {Line(t)[i] : i \in DOMAIN Line(t)}
             /\ At(<<"hand", t>>) = {hand[t]} \ {NoNode}
  BY Zenon DEF At
<1> QED BY <1>1, <1>2, <1>3, Zenon DEF Places, Named

\* The same in the next state.
LEMMA PlaceNamesNext == Named'
BY PlaceNames, PTL

\* The names of the places differ.
LEMMA PlacesDiffer ==
  ASSUME NEW t \in Thread, NEW u \in Thread
  PROVE  /\ <<"free", "pool">> \notin {<<"cache", t>>, <<"line", t>>, <<"hand", t>>}
         /\ <<"cache", t>> \notin {<<"line", u>>, <<"hand", u>>} /\ <<"line", t>> # <<"hand", u>>
         /\ t # u => /\ <<"cache", t>> # <<"cache", u>> /\ <<"line", t>> # <<"line", u>>
                     /\ <<"hand", t>> # <<"hand", u>>
BY Zenon

\* Places whose part of the state stays.
LEMMA PlacesKept ==
  ASSUME NEW u \in Thread
  PROVE  /\ Line(u)' = Line(u) => Places'[<<"line", u>>] = Places[<<"line", u>>]
         /\ cache'[u] = cache[u] => Places'[<<"cache", u>>] = Places[<<"cache", u>>]
         /\ hand'[u] = hand[u] => Places'[<<"hand", u>>] = Places[<<"hand", u>>]
<1> DEFINE f == Places
           g == Places'
<1>1. /\ f[<<"line", u>>] = {Line(u)[i] : i \in DOMAIN Line(u)} /\ f[<<"cache", u>>] = cache[u]
      /\ f[<<"hand", u>>] = {hand[u]} \ {NoNode}
  BY PlaceNames, Zenon DEF Named
<1>2. /\ g[<<"line", u>>] = {Line(u)'[i] : i \in DOMAIN Line(u)'} /\ g[<<"cache", u>>] = cache'[u]
      /\ g[<<"hand", u>>] = {hand'[u]} \ {NoNode}
  BY PlaceNamesNext, Zenon DEF Named
<1> HIDE DEF f, g
<1>3. /\ Line(u)' = Line(u) => g[<<"line", u>>] = f[<<"line", u>>]
      /\ cache'[u] = cache[u] => g[<<"cache", u>>] = f[<<"cache", u>>]
      /\ hand'[u] = hand[u] => g[<<"hand", u>>] = f[<<"hand", u>>]
  BY <1>1, <1>2
<1> QED BY <1>3, Zenon DEF f, g

\* What is on its way in direction t.
LEMMA LineSeq ==
  ASSUME WorkerInv, NEW t \in Thread
  PROVE  /\ Line(t) = batch[t] \o Items(ring[t])
         /\ batch[t] \in Seq(Node) /\ Items(ring[t]) \in Seq(Node) /\ Len(Items(ring[t])) = ring[t].len
         /\ Line(t) \in Seq(Node) /\ Len(Line(t)) = Len(batch[t]) + ring[t].len
         /\ \A i \in 1 .. Len(batch[t]) : Line(t)[i] = batch[t][i]
<1>1. ring[t] \in PacketRing /\ RingOK(ring[t]) /\ batch[t] \in Seq(Node)
  BY Zenon DEF WorkerInv, TypeOK
<1>2. Items(ring[t]) \in Seq(Node) /\ Len(Items(ring[t])) = ring[t].len
  BY <1>1, ItemsSeq, Zenon
<1>3. Line(t) = batch[t] \o Items(ring[t])
  BY Zenon DEF Line, Items
<1> DEFINE b == batch[t]
           c == Items(ring[t])
<1>4. b \in Seq(Node) /\ c \in Seq(Node)
  BY <1>1, <1>2, Zenon
<1> HIDE DEF b, c
<1>5. /\ b \o c \in Seq(Node) /\ Len(b \o c) = Len(b) + Len(c)
      /\ \A i \in 1 .. Len(b) + Len(c) : (b \o c)[i] = IF i <= Len(b) THEN b[i] ELSE c[i - Len(b)]
  BY <1>4, ConcatProperties, Zenon
<1>6. \A i \in 1 .. Len(b) : (b \o c)[i] = b[i]
  BY <1>4, <1>5
<1> QED BY <1>1, <1>2, <1>3, <1>5, <1>6, Zenon DEF b, c

----------------------------------------------------------------------------
(* The pool *)

\* An acquired node was in a free list and is now in the hand of the thread.
LEMMA AcquireAccounted ==
  ASSUME AccountInv, NEW t \in Thread, NEW n \in Node, pool_acquire(t, n), hand[t] = NoNode,
         hand' = [hand EXCEPT ![t] = n], \A u \in Thread : Line(u)' = Line(u)
  PROVE  /\ Partition(Places)'
         /\ \A u \in Thread : count'[u] = Cardinality(cache'[u])
         /\ n \in free \/ n \in cache[t]
<1> DEFINE f == Places
           g == Places'
           F == <<"free", "pool">>
           C == <<"cache", t>>
           H == <<"hand", t>>
<1>1. /\ free \subseteq Node /\ cache \in [Thread -> SUBSET Node] /\ hand \in [Thread -> Node \cup {NoNode}]
      /\ count \in [Thread -> 0 .. CACHE_MAX] /\ IsFiniteSet(Node) /\ NoNode \notin Node
      /\ Partition(Places) /\ \A u \in Thread : count[u] = Cardinality(cache[u])
  BY TcpWorkerAssumption, Zenon DEF AccountInv, WorkerInv, TypeOK
<1>2. /\ F \in Location /\ C \in Location /\ H \in Location /\ F # C /\ F # H /\ C # H
      /\ f[F] = free /\ f[C] = cache[t] /\ f[H] = {} /\ g[F] = free' /\ g[C] = cache'[t] /\ g[H] = {n}
  <2>1. hand'[t] = n
    BY <1>1, Zenon
  <2>2. F \in Location /\ C \in Location /\ H \in Location
    BY PlaceNames, Zenon DEF Named
  <2>3. f[F] = free /\ f[C] = cache[t] /\ f[H] = {hand[t]} \ {NoNode}
    BY PlaceNames, Zenon DEF Named
  <2>4. g[F] = free' /\ g[C] = cache'[t] /\ g[H] = {hand'[t]} \ {NoNode}
    BY PlaceNamesNext, Zenon DEF Named
  <2>5. F # C /\ F # H /\ C # H
    BY PlacesDiffer, Zenon
  <2> HIDE DEF f, g, F, C, H
  <2>6. f[H] = {} /\ g[H] = {n}
    BY <1>1, <2>1, <2>3, <2>4, Zenon
  <2> QED BY <2>2, <2>3, <2>4, <2>5, <2>6, Zenon
<1>3. ASSUME NEW l \in Location \ {F, C, H}, \A u \in Thread : u # t => cache'[u] = cache[u]
      PROVE  g[l] = f[l]
  <2>1. \A u \in Thread : u # t => hand'[u] = hand[u]
    BY <1>1, Zenon
  <2>2. PICK u \in Thread : l \in {<<"cache", u>>, <<"line", u>>, <<"hand", u>>}
    BY PlaceNames, Zenon DEF Named
  <2>3. CASE l = <<"line", u>>
    BY <2>3, PlacesKept, Zenon
  <2>4. CASE l = <<"cache", u>>
    <3>1. cache'[u] = cache[u]
      BY <1>3, <2>4, Zenon
    <3> QED BY <2>4, <3>1, PlacesKept, Zenon
  <2>5. CASE l = <<"hand", u>>
    <3>1. hand'[u] = hand[u]
      BY <1>3, <2>1, <2>5, Zenon
    <3> QED BY <2>5, <3>1, PlacesKept, Zenon
  <2> QED BY <2>2, <2>3, <2>4, <2>5, Zenon
<1>4. CASE /\ n \in cache[t]
           /\ cache' = [cache EXCEPT ![t] = @ \ {n}]
           /\ count' = [count EXCEPT ![t] = @ - 1]
           /\ UNCHANGED free
  <2>1. /\ cache'[t] = cache[t] \ {n} /\ \A u \in Thread : u # t => cache'[u] = cache[u]
        /\ count'[t] = count[t] - 1 /\ \A u \in Thread : u # t => count'[u] = count[u]
    BY <1>1, <1>4, Zenon
  <2>2. Cardinality(cache[t] \ {n}) = Cardinality(cache[t]) - 1
    BY <1>1, <1>4, FS_Subset, FS_RemoveElement
  <2>3. Moved(f, g, C, H, {n})
    BY <1>2, <1>3, <1>4, <2>1, Zenon DEF Moved
  <2>4. Partition(g)
    BY <1>1, <1>2, <2>3, MovedPartition, Zenon
  <2> QED BY <1>1, <1>4, <2>1, <2>2, <2>4, Zenon
<1>5. CASE /\ cache[t] = {}
           /\ \E x \in SUBSET free :
                /\ n \in x
                /\ Cardinality(x) = GRAB \/ (Cardinality(x) < GRAB /\ x = free)
                /\ cache' = [cache EXCEPT ![t] = x \ {n}]
                /\ count' = [count EXCEPT ![t] = Cardinality(x) - 1]
                /\ free' = free \ x
  <2>1. PICK x \in SUBSET free :
                /\ n \in x
                /\ cache' = [cache EXCEPT ![t] = x \ {n}]
                /\ count' = [count EXCEPT ![t] = Cardinality(x) - 1]
                /\ free' = free \ x
    BY <1>5, Zenon
  <2>2. /\ cache'[t] = x \ {n} /\ \A u \in Thread : u # t => cache'[u] = cache[u]
        /\ count'[t] = Cardinality(x) - 1 /\ \A u \in Thread : u # t => count'[u] = count[u]
    BY <1>1, <2>1, Zenon
  <2>3. Cardinality(x \ {n}) = Cardinality(x) - 1
    BY <1>1, <2>1, FS_Subset, FS_RemoveElement, Zenon
  <2> DEFINE h == [l \in Location |-> IF l = F THEN free \ x ELSE IF l = C THEN x ELSE f[l]]
  <2>4. h[F] = free \ x /\ h[C] = x /\ \A l \in Location \ {F, C} : h[l] = f[l]
    BY <1>2, Zenon
  <2> HIDE DEF h
  <2>5. Moved(f, h, F, C, x)
    BY <1>2, <1>5, <2>4, Zenon DEF Moved
  <2>6. Partition(h)
    BY <1>1, <1>2, <2>5, MovedPartition, Zenon
  <2>7. Moved(h, g, C, H, {n})
    BY <1>2, <1>3, <2>1, <2>2, <2>4, Zenon DEF Moved
  <2>8. Partition(g)
    BY <1>2, <2>6, <2>7, MovedPartition, Zenon
  <2> QED BY <1>1, <2>1, <2>2, <2>3, <2>8, Zenon
<1> QED BY <1>4, <1>5, Zenon DEF pool_acquire

\* A released node goes from place a, a hand or a direction, to a free list; when
\* the list of the thread overflows, other nodes go with it.
LEMMA ReleaseAccounted ==
  ASSUME AccountInv, NEW t \in Thread, NEW n \in Node, pool_release(t, n),
         NEW a \in Location, a[1] \in {"line", "hand"}, n \in Places[a], Places'[a] = Places[a] \ {n},
         \A l \in Location : l # a /\ l[1] \in {"line", "hand"} => Places'[l] = Places[l]
  PROVE  Partition(Places)' /\ \A u \in Thread : count'[u] = Cardinality(cache'[u])
<1> DEFINE f == Places
           g == Places'
           F == <<"free", "pool">>
           C == <<"cache", t>>
<1>1. /\ free \subseteq Node /\ cache \in [Thread -> SUBSET Node]
      /\ count \in [Thread -> 0 .. CACHE_MAX] /\ IsFiniteSet(Node)
      /\ Partition(Places) /\ \A u \in Thread : count[u] = Cardinality(cache[u])
  BY TcpWorkerAssumption, Zenon DEF AccountInv, WorkerInv, TypeOK
<1>2. /\ F \in Location /\ C \in Location /\ F # C /\ a # F /\ a # C
      /\ f[F] = free /\ f[C] = cache[t] /\ g[F] = free' /\ g[C] = cache'[t]
  <2>1. F \in Location /\ C \in Location
    BY PlaceNames, Zenon DEF Named
  <2>2. f[F] = free /\ f[C] = cache[t]
    BY PlaceNames, Zenon DEF Named
  <2>3. g[F] = free' /\ g[C] = cache'[t]
    BY PlaceNamesNext, Zenon DEF Named
  <2>4. F # C /\ a # F /\ a # C
    OBVIOUS
  <2> QED BY <2>1, <2>2, <2>3, <2>4, Zenon
<1>3. ASSUME NEW l \in Location \ {F, C, a}, \A u \in Thread : u # t => cache'[u] = cache[u]
      PROVE  g[l] = f[l]
  <2>1. PICK u \in Thread : l \in {<<"cache", u>>, <<"line", u>>, <<"hand", u>>}
    BY PlaceNames, Zenon DEF Named
  <2>2. CASE l = <<"cache", u>>
    <3>1. cache'[u] = cache[u]
      BY <1>3, <2>2, Zenon
    <3> QED BY <2>2, <3>1, PlacesKept, Zenon
  <2>3. CASE l # <<"cache", u>>
    BY <2>1, <2>3, Zenon
  <2> QED BY <2>2, <2>3, Zenon
<1>4. n \notin cache[t]
  BY <1>1, <1>2, OnePlace, Zenon
<1>5. CASE /\ count[t] < CACHE_MAX
           /\ cache' = [cache EXCEPT ![t] = @ \cup {n}]
           /\ count' = [count EXCEPT ![t] = @ + 1]
           /\ UNCHANGED free
  <2>1. /\ cache'[t] = cache[t] \cup {n} /\ \A u \in Thread : u # t => cache'[u] = cache[u]
        /\ count'[t] = count[t] + 1 /\ \A u \in Thread : u # t => count'[u] = count[u]
    BY <1>1, <1>5, Zenon
  <2>2. IsFiniteSet(cache[t])
    BY <1>1, FS_Subset, Zenon
  <2>3. Cardinality(cache[t] \cup {n}) = Cardinality(cache[t]) + 1
    BY <1>4, <2>2, FS_AddElement, Zenon
  <2>4. Moved(f, g, a, C, {n})
    BY <1>2, <1>3, <1>5, <2>1, Zenon DEF Moved
  <2>5. Partition(g)
    BY <1>1, <1>2, <2>4, MovedPartition, Zenon
  <2> QED BY <1>1, <2>1, <2>3, <2>5, Zenon
<1>6. CASE \E keep \in SUBSET cache[t] :
             /\ Cardinality(keep) = CACHE_KEEP
             /\ cache' = [cache EXCEPT ![t] = keep]
             /\ count' = [count EXCEPT ![t] = CACHE_KEEP]
             /\ free' = free \cup (cache[t] \ keep) \cup {n}
  <2>1. PICK keep \in SUBSET cache[t] :
             /\ Cardinality(keep) = CACHE_KEEP
             /\ cache' = [cache EXCEPT ![t] = keep]
             /\ count' = [count EXCEPT ![t] = CACHE_KEEP]
             /\ free' = free \cup (cache[t] \ keep) \cup {n}
    BY <1>6, Zenon
  <2>2. /\ cache'[t] = keep /\ \A u \in Thread : u # t => cache'[u] = cache[u]
        /\ count'[t] = CACHE_KEEP /\ \A u \in Thread : u # t => count'[u] = count[u]
    BY <1>1, <2>1, Zenon
  <2> DEFINE h == [l \in Location |-> IF l = F THEN free \cup {n} ELSE IF l = a THEN f[a] \ {n} ELSE f[l]]
  <2>3. h[F] = free \cup {n} /\ h[a] = f[a] \ {n} /\ \A l \in Location \ {F, a} : h[l] = f[l]
    BY <1>2, Zenon
  <2> HIDE DEF h
  <2>4. Moved(f, h, a, F, {n})
    BY <1>2, <2>3, Zenon DEF Moved
  <2>5. Partition(h)
    BY <1>1, <1>2, <2>4, MovedPartition, Zenon
  <2>6. Moved(h, g, C, F, cache[t] \ keep)
    BY <1>2, <1>3, <2>1, <2>2, <2>3, Zenon DEF Moved
  <2>7. Partition(g)
    BY <1>2, <2>5, <2>6, MovedPartition, Zenon
  <2> QED BY <1>1, <2>1, <2>2, <2>7, Zenon
<1> QED BY <1>5, <1>6, Zenon DEF pool_release

----------------------------------------------------------------------------
(* What a step does to the two directions *)

\* Appending to the second of two sequences.
LEMMA ConcatAppend ==
  ASSUME NEW s \in Seq(Node), NEW u \in Seq(Node), NEW n \in Node
  PROVE  s \o Append(u, n) = Append(s \o u, n)
<1> DEFINE z == <<n>>
<1>1. z \in Seq(Node) /\ s \o u \in Seq(Node)
  BY ConcatProperties
<1>2. Append(u, n) = u \o z /\ Append(s \o u, n) = (s \o u) \o z
  BY <1>1, AppendIsConcat, Zenon
<1> HIDE DEF z
<1>3. (s \o u) \o z = s \o (u \o z)
  BY <1>1, ConcatAssociative
<1> QED BY <1>2, <1>3, Zenon

\* The tail of two sequences is in the first of them.
LEMMA ConcatTail ==
  ASSUME NEW s \in Seq(Node), NEW u \in Seq(Node), s # <<>>
  PROVE  s \o u # <<>> /\ Head(s \o u) = Head(s) /\ Tail(s \o u) = Tail(s) \o u
<1> DEFINE w == s \o u
           v == Tail(s)
           x == v \o u
           y == Tail(w)
<1>1. Len(s) \in Nat /\ Len(u) \in Nat /\ Len(s) >= 1
  OBVIOUS
<1>2. /\ w \in Seq(Node) /\ Len(w) = Len(s) + Len(u)
      /\ \A i \in 1 .. Len(s) + Len(u) : w[i] = IF i <= Len(s) THEN s[i] ELSE u[i - Len(s)]
  BY ConcatProperties, Zenon
<1>3. v \in Seq(Node) /\ Len(v) = Len(s) - 1 /\ \A i \in 1 .. Len(v) : v[i] = s[i + 1]
  BY HeadTailProperties, Zenon
<1> HIDE DEF w, v
<1>4. w # <<>> /\ Head(w) = Head(s)
  <2>1. w[1] = s[1]
    BY <1>1, <1>2
  <2> QED BY <1>1, <1>2, <2>1
<1>5. y \in Seq(Node) /\ Len(y) = Len(w) - 1 /\ \A i \in 1 .. Len(y) : y[i] = w[i + 1]
  BY <1>2, <1>4, HeadTailProperties, Zenon
<1>6. /\ x \in Seq(Node) /\ Len(x) = Len(v) + Len(u)
      /\ \A i \in 1 .. Len(v) + Len(u) : x[i] = IF i <= Len(v) THEN v[i] ELSE u[i - Len(v)]
  BY <1>3, ConcatProperties, Zenon
<1> HIDE DEF x, y
<1>7. Len(x) = Len(y) /\ Len(x) = Len(s) + Len(u) - 1
  BY <1>1, <1>2, <1>3, <1>5, <1>6
<1>8. ASSUME NEW i \in 1 .. Len(s) + Len(u) - 1 PROVE x[i] = y[i]
  <2>1. y[i] = IF i + 1 <= Len(s) THEN s[i + 1] ELSE u[(i + 1) - Len(s)]
    BY <1>1, <1>2, <1>5, <1>7
  <2>2. x[i] = IF i <= Len(s) - 1 THEN s[i + 1] ELSE u[i - (Len(s) - 1)]
    BY <1>1, <1>3, <1>6, <1>7
  <2>3. (i + 1 <= Len(s) <=> i <= Len(s) - 1) /\ (i + 1) - Len(s) = i - (Len(s) - 1)
    BY <1>1
  <2> QED BY <2>1, <2>2, <2>3
<1>9. x = y
  <2>1. \A i \in 1 .. Len(x) : x[i] = y[i]
    BY <1>7, <1>8, Zenon
  <2> QED BY <1>5, <1>6, <1>7, <2>1, SeqEqual, Zenon
<1> QED BY <1>4, <1>9, Zenon DEF w, v, x, y

\* A direction in the next state.
LEMMA LineNext == \A u \in Thread : Line(u)' = batch'[u] \o Items(ring'[u])
BY Zenon DEF Line, Items

\* Both directions stay when rings and batches do.
LEMMA LinesKept ==
  ASSUME UNCHANGED <<ring, batch>>, NEW u \in Thread
  PROVE  Line(u)' = Line(u)
BY Zenon DEF Line, Popped, SlotAt

\* A push below the capacity appends the node to the direction of the other thread.
LEMMA PushLine ==
  ASSUME WorkerInv, NEW t \in Thread, pc[t] = "push", ring[Other(t)].len < TCP_WORKER_QUEUE_CAP,
         ring' = [ring EXCEPT ![Other(t)] = ring_push(ring[Other(t)], hand[t])], batch' = batch
  PROVE  /\ Line(Other(t))' = Append(Line(Other(t)), hand[t])
         /\ Line(t)' = Line(t)
<1> DEFINE o == Other(t)
           r == ring[o]
           q == ring_push(r, hand[t])
<1>1. o \in Thread /\ o # t
  BY Zenon DEF Other, Thread
<1>2. r \in PacketRing /\ RingOK(r) /\ hand[t] \in Node /\ ring \in [Thread -> PacketRing]
  BY <1>1, Zenon DEF WorkerInv, TypeOK, ThreadOK
<1>3. ring'[o] = q /\ ring'[t] = ring[t]
  BY <1>1, <1>2, Zenon
<1>4. Items(q) = Append(Items(r), hand[t])
  BY <1>2, PushItems, Zenon
<1>5. batch[o] \in Seq(Node) /\ Items(r) \in Seq(Node) /\ Line(o) = batch[o] \o Items(r)
  BY <1>1, LineSeq, Zenon
<1>6. Line(o)' = batch[o] \o Items(q)
  BY <1>1, <1>3, LineNext, Zenon
<1>7. Line(t)' = Line(t)
  BY <1>3, LineNext, Zenon DEF Line, Items
<1> HIDE DEF o, r, q
<1>8. batch[o] \o Append(Items(r), hand[t]) = Append(batch[o] \o Items(r), hand[t])
  BY <1>2, <1>5, ConcatAppend, Zenon
<1>9. Line(o)' = Append(Line(o), hand[t])
  BY <1>4, <1>5, <1>6, <1>8, Zenon
<1> QED BY <1>7, <1>9, Zenon DEF o

\* drain_*_batch moves nodes from the ring to the batch, which is empty then.
LEMMA DrainLine ==
  ASSUME WorkerInv, NEW t \in Thread, HoldsOK(t), DrainBatch(t), NEW u \in Thread
  PROVE  Line(u)' = Line(u)
<1> DEFINE r == ring[t]
           k == BatchSize(t)
           q == ring_pop(r, k)
           b == Popped(r, k)
<1>1. /\ r \in PacketRing /\ RingOK(r) /\ r.len \in Nat /\ processed[t] \in Nat
      /\ processed[t] < TCP_WORKER_BATCH_LIMIT /\ TCP_WORKER_BATCH_LIMIT \in Nat
  BY TcpWorkerAssumption DEF WorkerInv, TypeOK, ThreadOK, DrainBatch, PacketRing
<1>2. k \in 0 .. r.len
  BY <1>1 DEF BatchSize
<1>3. batch[t] = <<>>
  BY Zenon DEF HoldsOK, Processing, Enqueueing, DrainBatch
<1>4. /\ batch' = [batch EXCEPT ![t] = b] /\ ring' = [ring EXCEPT ![t] = q]
  BY Zenon DEF DrainBatch
<1>5. b \o Items(q) = Items(r)
  BY <1>1, <1>2, PopItems, Zenon
<1> HIDE DEF r, k, q, b
<1>6. /\ batch'[t] = b /\ ring'[t] = q
      /\ u # t => batch'[u] = batch[u] /\ ring'[u] = ring[u]
  BY <1>4, Zenon DEF WorkerInv, TypeOK
<1>7. CASE u = t
  <2>1. Line(t)' = b \o Items(q)
    BY <1>6, LineNext, Zenon
  <2>2. Line(t) = <<>> \o Items(r) /\ Items(r) \in Seq(Node)
    BY <1>3, LineSeq, Zenon DEF r
  <2>3. <<>> \o Items(r) = Items(r)
    BY <2>2, ConcatEmptySeq, Zenon
  <2> QED BY <1>5, <1>7, <2>1, <2>2, <2>3, Zenon
<1>8. CASE u # t
  BY <1>6, <1>8, Zenon DEF Line, Popped, SlotAt
<1> QED BY <1>7, <1>8, Zenon

\* A released node is the first one of its direction.
LEMMA ReleaseLine ==
  ASSUME WorkerInv, NEW t \in Thread, Release(t)
  PROVE  /\ Line(t) \in Seq(Node) /\ Line(t) # <<>> /\ Head(Line(t)) = Head(batch[t])
         /\ Line(t)' = Tail(Line(t))
         /\ \A u \in Thread : u # t => Line(u)' = Line(u)
<1>1. batch[t] # <<>> /\ batch[t] \in Seq(Node) /\ batch \in [Thread -> Seq(Node)]
  BY Zenon DEF WorkerInv, TypeOK, ThreadOK, Processing, Release
<1>2. Items(ring[t]) \in Seq(Node) /\ Line(t) = batch[t] \o Items(ring[t]) /\ Line(t) \in Seq(Node)
  BY LineSeq, Zenon
<1>3. /\ batch'[t] = Tail(batch[t]) /\ \A u \in Thread : u # t => batch'[u] = batch[u]
      /\ \A u \in Thread : ring'[u] = ring[u]
  BY <1>1, Zenon DEF Release
<1>4. Line(t)' = Tail(batch[t]) \o Items(ring[t])
  BY <1>3, LineNext, Zenon
<1>5. ASSUME NEW u \in Thread, u # t PROVE Line(u)' = Line(u)
  BY <1>3, <1>5, LineNext, Zenon DEF Line, Items
<1>6. /\ batch[t] \o Items(ring[t]) # <<>> /\ Head(batch[t] \o Items(ring[t])) = Head(batch[t])
      /\ Tail(batch[t] \o Items(ring[t])) = Tail(batch[t]) \o Items(ring[t])
  BY <1>1, <1>2, ConcatTail, Zenon
<1> QED BY <1>2, <1>4, <1>5, <1>6, Zenon

----------------------------------------------------------------------------
(* Every step keeps the account *)

\* Nothing moves: the free lists and hands stay, and so do the two directions.
LEMMA NothingMoves ==
  ASSUME AccountInv, UNCHANGED <<free, cache, count, hand>>, \A u \in Thread : Line(u)' = Line(u)
  PROVE  /\ Partition(Places)'
         /\ \A u \in Thread : NoRepeat(Line(u))' /\ count'[u] = Cardinality(cache'[u])
<1>1. ASSUME NEW l \in Location PROVE Places'[l] = Places[l]
  <2>1. CASE l = <<"free", "pool">>
    <3>1. Places[<<"free", "pool">>] = free
      BY PlaceNames, Zenon DEF Named
    <3>2. Places'[<<"free", "pool">>] = free'
      BY PlaceNamesNext, Zenon DEF Named
    <3> QED BY <2>1, <3>1, <3>2, Zenon
  <2>2. ASSUME NEW u \in Thread, l \in {<<"cache", u>>, <<"line", u>>, <<"hand", u>>}
        PROVE  Places'[l] = Places[l]
    BY <2>2, PlacesKept, Zenon
  <2> QED BY <2>1, <2>2, PlaceNames, Zenon DEF Named
<1>2. Partition(Places')
  BY <1>1, Zenon DEF AccountInv, Partition
<1>3. ASSUME NEW u \in Thread PROVE NoRepeat(Line(u)')
  BY Zenon DEF AccountInv
<1>4. \A u \in Thread : count'[u] = Cardinality(cache'[u])
  BY Zenon DEF AccountInv
<1> QED BY <1>2, <1>3, <1>4, Zenon

\* Acquiring and filling a node.
LEMMA EnqueueAccount ==
  ASSUME AccountInv, NEW t \in Thread, NEW n \in Node, NEW x \in Packet, Enqueue(t, n, x)
  PROVE  AccountInv'
<1>1. WorkerInv'
  BY EnqueueStep, Zenon DEF AccountInv
<1>2. /\ hand' = [hand EXCEPT ![t] = n] /\ pc' = [pc EXCEPT ![t] = "push"] /\ pool_acquire(t, n)
      /\ caller' = [caller EXCEPT ![t] = pc[t]] /\ MayEnqueue(t) /\ UNCHANGED <<ring, batch>>
  BY Zenon DEF Enqueue, drain
<1>3. hand[t] = NoNode
  BY <1>2 DEF AccountInv, HoldsOK, MayEnqueue
<1>4. \A u \in Thread : Line(u)' = Line(u)
  BY <1>2, LinesKept, Zenon
<1>5. Partition(Places)' /\ \A u \in Thread : count'[u] = Cardinality(cache'[u])
  BY <1>2, <1>3, <1>4, AcquireAccounted, Zenon
<1>6. ASSUME NEW u \in Thread PROVE NoRepeat(Line(u)')
  BY <1>4, Zenon DEF AccountInv
<1>7. ASSUME NEW u \in Thread PROVE HoldsOK(u)'
  BY <1>2, Zenon DEF AccountInv, HoldsOK, WorkerInv, TypeOK, Processing, Enqueueing, MayEnqueue
<1> QED BY <1>1, <1>5, <1>6, <1>7, Zenon DEF AccountInv

\* The critical section of an enqueue.
LEMMA PushAccount ==
  ASSUME AccountInv, NEW t \in Thread, Push(t)
  PROVE  AccountInv'
<1> DEFINE o == Other(t)
<1>0. o \in Thread /\ o # t /\ Thread = {t, o}
  BY Zenon DEF Other, Thread
<1>1. WorkerInv' /\ WorkerInv
  BY PushStep, Zenon DEF AccountInv
<1>2. /\ pc[t] = "push" /\ UNCHANGED <<free, cache, count, batch, caller>> /\ hand[t] \in Node
      /\ hand \in [Thread -> Node \cup {NoNode}] /\ NoNode \notin Node
      /\ caller \in [Thread -> {"poll", "input", "exiting"}] /\ pc \in [Thread -> PC]
  BY <1>1, TcpWorkerAssumption, Zenon DEF Push, pool, drain, WorkerInv, TypeOK, ThreadOK
<1>3. CASE pc' = [pc EXCEPT ![t] = "undo"] /\ UNCHANGED <<ring, hand>>
  <2>1. \A u \in Thread : Line(u)' = Line(u)
    BY <1>2, <1>3, LinesKept, Zenon
  <2>2. /\ Partition(Places)'
        /\ \A u \in Thread : NoRepeat(Line(u))' /\ count'[u] = Cardinality(cache'[u])
    BY <1>2, <1>3, <2>1, NothingMoves, Zenon
  <2>3. ASSUME NEW u \in Thread PROVE HoldsOK(u)'
    BY <1>2, <1>3, Zenon DEF AccountInv, HoldsOK, Processing, Enqueueing
  <2> QED BY <1>1, <2>2, <2>3, Zenon DEF AccountInv
<1>4. CASE /\ ring[o].len < TCP_WORKER_QUEUE_CAP
           /\ ring' = [ring EXCEPT ![o] = ring_push(ring[o], hand[t])]
           /\ hand' = [hand EXCEPT ![t] = NoNode]
           /\ pc' = [pc EXCEPT ![t] = IF Wakes(ring[o]) THEN "signal" ELSE caller[t]]
  <2> DEFINE f == Places
             g == Places'
             H == <<"hand", t>>
             L == <<"line", o>>
             s == Line(o)
  <2>1. Line(o)' = Append(s, hand[t]) /\ Line(t)' = Line(t)
    BY <1>1, <1>2, <1>4, PushLine, Zenon
  <2>2. s \in Seq(Node) /\ NoRepeat(s) /\ Partition(f)
    BY <1>0, <1>1, LineSeq, Zenon DEF AccountInv
  <2>3. H \in Location /\ L \in Location /\ H # L /\ f[H] = {hand[t]} \ {NoNode} /\ f[L] = {s[i] : i \in DOMAIN s}
    <3>1. H # L
      BY <1>0, PlacesDiffer, Zenon
    <3> QED BY <1>0, <3>1, PlaceNames, Zenon DEF Named
  <2>4. g[H] = {hand'[t]} \ {NoNode} /\ g[L] = {Line(o)'[i] : i \in DOMAIN Line(o)'}
    BY <1>0, PlaceNamesNext, Zenon DEF Named
  <2> HIDE DEF o, s, f, g, H, L
  <2>5. f[H] = {hand[t]} /\ g[H] = {} /\ hand'[o] = hand[o]
    BY <1>0, <1>2, <1>4, <2>3, <2>4, Zenon
  <2>6. g[L] = f[L] \cup {hand[t]}
    <3>1. g[L] = {Append(s, hand[t])[i] : i \in DOMAIN Append(s, hand[t])}
      BY <2>1, <2>4, Zenon
    <3>2. {Append(s, hand[t])[i] : i \in DOMAIN Append(s, hand[t])} = {s[i] : i \in DOMAIN s} \cup {hand[t]}
      BY <1>2, <2>2, AppendElements, Zenon
    <3> QED BY <2>3, <3>1, <3>2, Zenon
  <2>7. ASSUME NEW l \in Location \ {H, L} PROVE g[l] = f[l]
    <3>1. CASE l = <<"free", "pool">>
      <4>1. f[<<"free", "pool">>] = free
        BY PlaceNames, Zenon DEF Named, f
      <4>2. g[<<"free", "pool">>] = free'
        BY PlaceNamesNext, Zenon DEF Named, g
      <4> QED BY <1>2, <3>1, <4>1, <4>2, Zenon
    <3>2. ASSUME NEW u \in Thread, l \in {<<"cache", u>>, <<"line", u>>, <<"hand", u>>} PROVE g[l] = f[l]
      <4>1. CASE u = t
        BY <1>2, <2>1, <3>2, <4>1, PlacesKept, Zenon DEF f, g, H
      <4>2. CASE u = o
        BY <1>0, <1>2, <2>5, <3>2, <4>2, PlacesKept DEF f, g, L
      <4> QED BY <1>0, <4>1, <4>2, Zenon
    <3> QED BY <3>1, <3>2, PlaceNames, Zenon DEF Named
  <2>8. Partition(g)
    <3>1. Moved(f, g, H, L, {hand[t]})
      BY <2>5, <2>6, <2>7, Zenon DEF Moved
    <3> QED BY <2>2, <2>3, <3>1, MovedPartition, Zenon
  <2>9. NoRepeat(Append(s, hand[t]))
    <3>1. hand[t] \notin f[L]
      BY <1>2, <2>2, <2>3, <2>5, OnePlace, Zenon
    <3>2. \A i \in DOMAIN s : s[i] # hand[t]
      BY <2>3, <3>1, Zenon
    <3> QED BY <1>2, <2>2, <3>2, NoRepeatAppend, Zenon
  <2>10. ASSUME NEW u \in Thread PROVE NoRepeat(Line(u)')
    BY <1>0, <2>1, <2>9, Zenon DEF AccountInv
  <2>11. ASSUME NEW u \in Thread PROVE HoldsOK(u)'
    <3>1. hand'[t] = NoNode /\ pc'[t] \in {"signal", "poll", "input", "exiting"}
      BY <1>2, <1>4, Zenon
    <3>2. pc'[t] = "signal" \/ pc'[t] = caller[t]
      BY <1>2, <1>4, Zenon
    <3>3. u # t => pc'[u] = pc[u] /\ hand'[u] = hand[u]
      BY <1>2, <1>4, Zenon
    <3> QED BY <1>2, <3>1, <3>2, <3>3, Zenon DEF AccountInv, HoldsOK, Processing, Enqueueing
  <2> QED BY <1>1, <1>2, <2>8, <2>10, <2>11, Zenon DEF AccountInv, g
<1> QED BY <1>3, <1>4, Zenon DEF Push

\* A node released from place a of thread t, when no other node moves but to and
\* from free lists.
LEMMA ReleasedFrom ==
  ASSUME AccountInv, NEW t \in Thread, NEW n \in Node, pool_release(t, n),
         NEW a \in {<<"line", t>>, <<"hand", t>>}, n \in Places[a], Places'[a] = Places[a] \ {n},
         \A u \in Thread : a # <<"line", u>> => Line(u)' = Line(u),
         \A u \in Thread : a # <<"hand", u>> => hand'[u] = hand[u]
  PROVE  Partition(Places)' /\ \A u \in Thread : count'[u] = Cardinality(cache'[u])
<1>1. a \in Location /\ a[1] \in {"line", "hand"}
  <2>1. <<"line", t>> \in Location /\ <<"hand", t>> \in Location
    BY PlaceNames, Zenon DEF Named
  <2> QED BY ONLY <2>1, a \in {<<"line", t>>, <<"hand", t>>}
<1>2. ASSUME NEW l \in Location, l # a, l[1] \in {"line", "hand"} PROVE Places'[l] = Places[l]
  <2>1. PICK u \in Thread : l \in {<<"line", u>>, <<"hand", u>>}
    BY <1>2, PlaceNames DEF Named
  <2> QED BY <1>2, <2>1, PlacesKept, Zenon
<1> QED BY <1>1, <1>2, ReleaseAccounted

\* Dropping a packet.
LEMMA UndoAccount ==
  ASSUME AccountInv, NEW t \in Thread, Undo(t)
  PROVE  AccountInv'
<1> DEFINE n == hand[t]
           H == <<"hand", t>>
<1>1. WorkerInv' /\ WorkerInv
  BY UndoStep, Zenon DEF AccountInv
<1>2. /\ pc[t] = "undo" /\ UNCHANGED <<ring, batch, caller>> /\ n \in Node /\ pool_release(t, n)
      /\ hand' = [hand EXCEPT ![t] = NoNode] /\ pc' = [pc EXCEPT ![t] = caller[t]]
      /\ hand \in [Thread -> Node \cup {NoNode}] /\ NoNode \notin Node
      /\ caller \in [Thread -> {"poll", "input", "exiting"}] /\ pc \in [Thread -> PC]
  BY <1>1, TcpWorkerAssumption, Zenon DEF Undo, drain, WorkerInv, TypeOK, ThreadOK
<1>3. \A u \in Thread : Line(u)' = Line(u)
  BY <1>2, LinesKept, Zenon
<1>4. Places[H] = {n} /\ Places'[H] = {}
  <2>1. Places[H] = {hand[t]} \ {NoNode}
    BY PlaceNames, Zenon DEF Named
  <2>2. Places'[H] = {hand'[t]} \ {NoNode}
    BY PlaceNamesNext, Zenon DEF Named
  <2> HIDE DEF H
  <2> QED BY <1>2, <2>1, <2>2, Zenon
<1>5. Partition(Places)' /\ \A u \in Thread : count'[u] = Cardinality(cache'[u])
  <2>1. \A u \in Thread : H # <<"hand", u>> => hand'[u] = hand[u]
    BY <1>2, Zenon
  <2>2. H \in {<<"line", t>>, <<"hand", t>>} /\ n \in Places[H] /\ Places'[H] = Places[H] \ {n}
    BY <1>4, Zenon
  <2> HIDE DEF n, H
  <2> QED BY <1>2, <1>3, <2>1, <2>2, ReleasedFrom, Zenon
<1>6. ASSUME NEW u \in Thread PROVE NoRepeat(Line(u)')
  BY <1>3, Zenon DEF AccountInv
<1>7. ASSUME NEW u \in Thread PROVE HoldsOK(u)'
  BY <1>2, Zenon DEF AccountInv, HoldsOK, Processing, Enqueueing
<1> QED BY <1>1, <1>5, <1>6, <1>7, Zenon DEF AccountInv

\* Taking packets from the ring.
LEMMA DrainAccount ==
  ASSUME AccountInv, NEW t \in Thread, DrainBatch(t)
  PROVE  AccountInv'
<1>1. WorkerInv' /\ WorkerInv
  BY DrainStep, Zenon DEF AccountInv
<1>2. \A u \in Thread : Line(u)' = Line(u)
  BY <1>1, DrainLine, Zenon DEF AccountInv
<1>3. UNCHANGED <<free, cache, count, hand>>
  BY Zenon DEF DrainBatch, pool
<1>4. Partition(Places)' /\ \A u \in Thread : NoRepeat(Line(u))' /\ count'[u] = Cardinality(cache'[u])
  BY <1>2, <1>3, NothingMoves, Zenon
<1>5. ASSUME NEW u \in Thread PROVE HoldsOK(u)'
  <2> DEFINE k == BatchSize(t)
  <2>1. /\ pc[t] = "drain" /\ hand' = hand /\ caller' = caller
        /\ batch' = [batch EXCEPT ![t] = Popped(ring[t], k)]
        /\ pc' = [pc EXCEPT ![t] = IF k = 0 THEN "resend" ELSE "process"]
    BY Zenon DEF DrainBatch
  <2>2. k = 0 => Popped(ring[t], k) = <<>>
    BY DEF Popped
  <2> HIDE DEF k
  <2>3. CASE u = t
    BY <1>1, <2>1, <2>2, <2>3, Zenon DEF AccountInv, WorkerInv, TypeOK, HoldsOK, Processing, Enqueueing
  <2>4. CASE u # t
    BY <1>1, <2>1, <2>4, Zenon DEF AccountInv, WorkerInv, TypeOK, HoldsOK, Processing, Enqueueing
  <2> QED BY <2>3, <2>4, Zenon
<1> QED BY <1>1, <1>4, <1>5, Zenon DEF AccountInv

\* A processed packet goes back to the pool.
LEMMA ReleaseAccount ==
  ASSUME AccountInv, NEW t \in Thread, Release(t)
  PROVE  AccountInv'
<1> DEFINE n == Head(batch[t])
           L == <<"line", t>>
           s == Line(t)
<1>1. WorkerInv' /\ WorkerInv
  BY ReleaseStep, Zenon DEF AccountInv
<1>2. /\ s \in Seq(Node) /\ s # <<>> /\ Head(s) = n /\ Line(t)' = Tail(s)
      /\ \A u \in Thread : u # t => Line(u)' = Line(u)
  BY <1>1, ReleaseLine, Zenon
<1>3. NoRepeat(s)
  BY Zenon DEF AccountInv
<1>4. NoRepeat(Tail(s)) /\ {Tail(s)[i] : i \in DOMAIN Tail(s)} = {s[i] : i \in DOMAIN s} \ {Head(s)}
  BY <1>2, <1>3, NoRepeatTail, Zenon
<1>5. n \in Node /\ n \in {s[i] : i \in DOMAIN s}
  <2> HIDE DEF n, s
  <2>1. Head(s) = s[1] /\ 1 \in DOMAIN s /\ Head(s) \in Node
    BY <1>2
  <2> QED BY <1>2, <2>1, Zenon
<1>6. n \in Places[L] /\ Places'[L] = Places[L] \ {n}
  <2>1. Places[L] = {s[i] : i \in DOMAIN s}
    BY PlaceNames, Zenon DEF Named
  <2>2. Places'[L] = {Line(t)'[i] : i \in DOMAIN Line(t)'}
    BY PlaceNamesNext, Zenon DEF Named
  <2>3. Places'[L] = {Tail(s)[i] : i \in DOMAIN Tail(s)}
    BY <1>2, <2>2, Zenon
  <2> QED BY <1>2, <1>4, <1>5, <2>1, <2>3, Zenon
<1>7. Partition(Places)' /\ \A u \in Thread : count'[u] = Cardinality(cache'[u])
  <2>1. \A u \in Thread : L # <<"line", u>> => Line(u)' = Line(u)
    BY <1>2, Zenon
  <2>2. pool_release(t, n) /\ \A u \in Thread : hand'[u] = hand[u]
    BY Zenon DEF Release
  <2>3. L \in {<<"line", t>>, <<"hand", t>>}
    BY Zenon
  <2> HIDE DEF n, L
  <2> QED BY <1>5, <1>6, <2>1, <2>2, <2>3, ReleasedFrom, Zenon
<1>8. ASSUME NEW u \in Thread PROVE NoRepeat(Line(u)')
  BY <1>2, <1>4, Zenon DEF AccountInv
<1>9. ASSUME NEW u \in Thread PROVE HoldsOK(u)'
  <2>1. /\ pc[t] = "input" /\ hand' = hand /\ caller' = caller
        /\ batch' = [batch EXCEPT ![t] = Tail(batch[t])]
        /\ pc' = [pc EXCEPT ![t] = IF Tail(batch[t]) # <<>> THEN "process"
                                   ELSE IF processed'[t] < TCP_WORKER_BATCH_LIMIT THEN "drain"
                                   ELSE "resend"]
    BY Zenon DEF Release
  <2>2. CASE u = t
    BY <1>1, <2>1, <2>2, Zenon DEF AccountInv, WorkerInv, TypeOK, HoldsOK, Processing, Enqueueing
  <2>3. CASE u # t
    BY <1>1, <2>1, <2>3, Zenon DEF AccountInv, WorkerInv, TypeOK, HoldsOK, Processing, Enqueueing
  <2> QED BY <2>2, <2>3, Zenon
<1> QED BY <1>1, <1>7, <1>8, <1>9 DEF AccountInv

\* Signals, callbacks that start and end, the reading of a packet, and the life of
\* worker and clients move no node.
LEMMA QuietAccount ==
  ASSUME AccountInv,
         \/ \E t \in Thread : Signal(t) \/ Wake(t) \/ Process(t) \/ Resend(t)
         \/ LifeStep \/ Stop \/ (\E c \in Client : Accept(c) \/ Leave(c))
  PROVE  AccountInv'
<1>1. WorkerInv'
  BY SignalStep, WakeStep, ProcessStep, ResendStep, LifeSteps, Zenon DEF AccountInv
<1>2. UNCHANGED <<free, cache, count, hand, ring, batch, caller>>
  BY Zenon DEF Signal, Wake, Process, Resend, LifeStep, WorkerStarts, StartReturns, StopSignal, Exit, Join,
         Stop, Accept, Leave, pool, drain
<1>3. \A u \in Thread : Line(u)' = Line(u)
  BY <1>2, LinesKept, Zenon
<1>4. Partition(Places)' /\ \A u \in Thread : NoRepeat(Line(u))' /\ count'[u] = Cardinality(cache'[u])
  BY <1>2, <1>3, NothingMoves, Zenon
<1>5. ASSUME NEW u \in Thread PROVE HoldsOK(u)'
  <2>0. caller \in [Thread -> {"poll", "input", "exiting"}] /\ pc \in [Thread -> PC]
    BY Zenon DEF AccountInv, WorkerInv, TypeOK
  <2>1. /\ pc[u] \notin {"push", "undo"} => pc'[u] \notin {"push", "undo"}
        /\ Processing(u) => Processing(u)'
    <3>1. ASSUME NEW t \in Thread, Signal(t)
          PROVE  /\ pc[u] \notin {"push", "undo"} => pc'[u] \notin {"push", "undo"}
                 /\ Processing(u) => Processing(u)'
      BY <1>2, <2>0, <3>1, Zenon DEF Signal, Processing, Enqueueing
    <3>2. ASSUME NEW t \in Thread, Wake(t) \/ Process(t) \/ Resend(t)
          PROVE  /\ pc[u] \notin {"push", "undo"} => pc'[u] \notin {"push", "undo"}
                 /\ Processing(u) => Processing(u)'
      <4>1. pc'[t] \in {"drain", "input", "poll", "exiting"} /\ (pc[t] = "process" => pc'[t] = "input")
        BY <2>0, <3>2, Zenon DEF Wake, Process, Resend
      <4>2. pc[t] \in {"poll", "process", "resend"} /\ (u # t => pc'[u] = pc[u])
        BY <2>0, <3>2, Zenon DEF Wake, Process, Resend
      <4> QED BY <1>2, <4>1, <4>2, Zenon DEF Processing, Enqueueing
    <3>3. CASE LifeStep \/ Stop \/ (\E c \in Client : Accept(c) \/ Leave(c))
      <4>1. \/ pc'[u] = pc[u]
            \/ /\ pc[u] \in {"starting", "poll", "stopping", "exiting", "joining"}
               /\ pc'[u] \in {"poll", "exited", "stopped", "stopping", "joining"}
        BY <2>0, <3>3, Zenon DEF LifeStep, WorkerStarts, StartReturns, StopSignal, Exit, Join, Stop, Accept, Leave
      <4> QED BY <1>2, <4>1, Zenon DEF Processing, Enqueueing
    <3> QED BY <3>1, <3>2, <3>3, Zenon
  <2>2. pc[u] \in {"push", "undo"} => pc'[u] = pc[u]
    BY Zenon DEF AccountInv, WorkerInv, TypeOK, Signal, Wake, Process, Resend, LifeStep, WorkerStarts,
           StartReturns, StopSignal, Exit, Join, Stop, Accept, Leave
  <2> QED BY <1>2, <2>1, <2>2, Zenon DEF AccountInv, HoldsOK
<1> QED BY <1>1, <1>4, <1>5, Zenon DEF AccountInv

\* The account is kept by every step.
LEMMA StepAccount ==
  ASSUME AccountInv, [Next]_vars
  PROVE  AccountInv'
<1>1. CASE UNCHANGED vars \/ Terminated
  <2>1. UNCHANGED vars
    BY <1>1, Zenon DEF Terminated
  <2>2. UNCHANGED <<free, cache, count, hand, ring, batch, caller, pc>>
    BY <2>1, Zenon DEF vars
  <2>3. WorkerInv'
    BY <2>1, Zenon DEF vars, AccountInv, WorkerInv, TypeOK, RingOK, SlotAt, ThreadOK, Processing,
                       Enqueueing, NoLostWakeup, WillBeSeen, Other
  <2>4. \A u \in Thread : Line(u)' = Line(u)
    BY <2>2, LinesKept, Zenon
  <2>5. Partition(Places)' /\ \A u \in Thread : NoRepeat(Line(u))' /\ count'[u] = Cardinality(cache'[u])
    BY <2>2, <2>4, NothingMoves, Zenon
  <2>6. \A u \in Thread : HoldsOK(u)'
    BY <2>2, Zenon DEF AccountInv, HoldsOK, Processing, Enqueueing
  <2> QED BY <2>3, <2>5, <2>6 DEF AccountInv
<1>2. ASSUME NEW t \in Thread, ThreadStep(t) PROVE AccountInv'
  BY <1>2, PushAccount, UndoAccount, DrainAccount, ReleaseAccount, QuietAccount, Zenon DEF ThreadStep
<1>3. ASSUME NEW t \in Thread, NEW n \in Node, NEW x \in Packet, Enqueue(t, n, x) PROVE AccountInv'
  BY <1>3, EnqueueAccount, Zenon
<1>4. CASE LifeStep \/ Stop \/ (\E c \in Client : Accept(c) \/ Leave(c))
  BY <1>4, QuietAccount, Zenon
<1> QED BY <1>1, <1>2, <1>3, <1>4, Zenon DEF Next

\* AccountInv holds in every reachable state.
THEOREM AccountInvariant == Spec => []AccountInv
<1>1. ASSUME Init, WorkerInv PROVE AccountInv
  <2>1. ASSUME NEW t \in Thread PROVE Line(t) = <<>>
    <3>1. batch[t] = <<>> /\ ring[t].len = 0
      BY <1>1, Zenon DEF Init
    <3>2. Popped(ring[t], 0) = <<>>
      BY DEF Popped
    <3>3. <<>> \o <<>> = <<>>
      BY EmptySeq, ConcatEmptySeq, Zenon
    <3> QED BY <3>1, <3>2, <3>3, Zenon DEF Line
  <2>2. ASSUME NEW n \in Node, NEW m \in Location PROVE n \in Places[m] <=> m = <<"free", "pool">>
    <3>1. Places[<<"free", "pool">>] = Node
      BY <1>1, PlaceNames, Zenon DEF Init, Named
    <3>2. ASSUME NEW t \in Thread, m \in {<<"cache", t>>, <<"line", t>>, <<"hand", t>>}
          PROVE  Places[m] = {} /\ m # <<"free", "pool">>
      <4>1. Places[<<"cache", t>>] = cache[t] /\ cache[t] = {}
        BY <1>1, PlaceNames, Zenon DEF Init, Named
      <4>2. Places[<<"hand", t>>] = {hand[t]} \ {NoNode} /\ hand[t] = NoNode
        BY <1>1, PlaceNames, Zenon DEF Init, Named
      <4>3. Places[<<"line", t>>] = {Line(t)[i] : i \in DOMAIN Line(t)}
        BY PlaceNames, Zenon DEF Named
      <4>4. {Line(t)[i] : i \in DOMAIN Line(t)} = {}
        BY <2>1
      <4> QED BY <3>2, <4>1, <4>2, <4>3, <4>4, PlacesDiffer
    <3> QED BY <3>1, <3>2, PlaceNames, Zenon DEF Named
  <2>3. Partition(Places)
    <3>1. <<"free", "pool">> \in Location
      BY PlaceNames, Zenon DEF Named
    <3> QED BY <2>2, <3>1, Zenon DEF Partition
  <2>4. ASSUME NEW t \in Thread PROVE HoldsOK(t) /\ count[t] = Cardinality(cache[t])
    BY <1>1, FS_EmptySet, Zenon DEF Init, HoldsOK
  <2>5. ASSUME NEW t \in Thread PROVE NoRepeat(Line(t))
    BY <2>1 DEF NoRepeat
  <2> QED BY <1>1, <2>3, <2>4, <2>5 DEF AccountInv
<1>2. Init /\ WorkerInv => AccountInv
  BY <1>1, Zenon
<1>3. AccountInv /\ [Next]_vars => AccountInv'
  BY StepAccount, Zenon
<1> QED BY <1>2, <1>3, WorkerInvariant, PTL DEF Spec

\* No node of the pool of tcp_worker.c is lost or in two places, whichever thread
\* acquires and whichever releases it, and each thread's count is the length of its
\* list, for all pool sizes, capacities, batch limits and list limits.
THEOREM NodesAreAccounted == Spec => []NodesAccounted
<1>1. ASSUME AccountInv PROVE NodesAccounted
  <2>1. ASSUME NEW n \in Node PROVE Cardinality({l \in Location : n \in At(l)}) = 1
    <3>1. PICK l \in Location : \A m \in Location : n \in Places[m] <=> m = l
      BY <1>1, Zenon DEF AccountInv, Partition
    <3>2. {m \in Location : n \in At(m)} = {l}
      BY <3>1, Zenon DEF Places
    <3> QED BY <3>2, FS_Singleton, Zenon
  <2>2. \A t \in Thread : \A i, j \in DOMAIN Line(t) : Line(t)[i] = Line(t)[j] => i = j
    BY <1>1, Zenon DEF AccountInv, NoRepeat
  <2>3. \A t \in Thread : count[t] = Cardinality(cache[t])
    BY <1>1, Zenon DEF AccountInv
  <2> QED BY <2>1, <2>2, <2>3 DEF NodesAccounted
<1>2. AccountInv => NodesAccounted
  BY <1>1, Zenon
<1> QED BY <1>2, AccountInvariant, PTL

----------------------------------------------------------------------------
(* Each direction is a queue of packets *)

\* The packets in the nodes s when the nodes hold d.
Contents(d, s) == [i \in DOMAIN s |-> d[s[i]]]

\* The nodes of direction t that are still to be read.
Unread(t) == IF HeadRead(t) THEN Tail(Line(t)) ELSE Line(t)

\* A direction has room for a ring and a batch.
Limit == TCP_WORKER_QUEUE_CAP + TCP_WORKER_BATCH_LIMIT

\* What a step does to direction t: nothing, one packet more, or one packet read.
Stays(t) == Queue(t)' = Queue(t) /\ got'[t] = got[t]
Puts(t) ==
  /\ Len(Queue(t)) < Limit
  /\ \E x \in Packet : Queue(t)' = Append(Queue(t), x)
  /\ got'[t] = got[t]
Takes(t) == Queue(t) # <<>> /\ got'[t] = Head(Queue(t)) /\ Queue(t)' = Tail(Queue(t))
QueueStep(t) == Stays(t) \/ Puts(t) \/ Takes(t)

\* The packets of a sequence of nodes.
LEMMA ContentsSeq ==
  ASSUME NEW d \in [Node -> Packet], NEW s \in Seq(Node)
  PROVE  /\ Contents(d, s) \in Seq(Packet) /\ Len(Contents(d, s)) = Len(s)
         /\ \A i \in 1 .. Len(s) : Contents(d, s)[i] = d[s[i]]
BY DEF Contents

\* One node more is one packet more.
LEMMA ContentsAppend ==
  ASSUME NEW d \in [Node -> Packet], NEW s \in Seq(Node), NEW n \in Node
  PROVE  Contents(d, Append(s, n)) = Append(Contents(d, s), d[n])
<1> DEFINE u == Append(s, n)
           c == Contents(d, s)
           e == Contents(d, u)
<1>1. u \in Seq(Node) /\ Len(u) = Len(s) + 1 /\ u[Len(s) + 1] = n /\ \A i \in 1 .. Len(s) : u[i] = s[i]
  BY AppendProperties
<1>2. c \in Seq(Packet) /\ Len(c) = Len(s) /\ \A i \in 1 .. Len(s) : c[i] = d[s[i]]
  BY ContentsSeq
<1> HIDE DEF u
<1>3. e \in Seq(Packet) /\ Len(e) = Len(s) + 1 /\ \A i \in 1 .. Len(s) + 1 : e[i] = d[u[i]]
  BY <1>1, ContentsSeq
<1> HIDE DEF c, e
<1>4. e = Append(c, d[n])
  BY <1>1, <1>2, <1>3
<1> QED BY <1>4, Zenon DEF u, c, e

\* One node less is one packet less.
LEMMA ContentsTail ==
  ASSUME NEW d \in [Node -> Packet], NEW s \in Seq(Node), s # <<>>
  PROVE  /\ Contents(d, s) # <<>> /\ Head(Contents(d, s)) = d[Head(s)]
         /\ Contents(d, Tail(s)) = Tail(Contents(d, s))
<1> DEFINE u == Tail(s)
           c == Contents(d, s)
           e == Contents(d, u)
<1>1. /\ u \in Seq(Node) /\ Len(u) = Len(s) - 1 /\ \A i \in 1 .. Len(u) : u[i] = s[i + 1]
      /\ Len(s) \in Nat /\ Len(s) >= 1 /\ Head(s) = s[1]
  OBVIOUS
<1>2. c \in Seq(Packet) /\ Len(c) = Len(s) /\ \A i \in 1 .. Len(s) : c[i] = d[s[i]]
  BY ContentsSeq, Zenon
<1> HIDE DEF u
<1>3. e \in Seq(Packet) /\ Len(e) = Len(u) /\ \A i \in 1 .. Len(u) : e[i] = d[u[i]]
  BY <1>1, ContentsSeq, Zenon
<1> HIDE DEF c, e
<1>4. c # <<>> /\ Head(c) = d[Head(s)]
  BY <1>1, <1>2
<1>5. e = Tail(c)
  <2>1. /\ Tail(c) \in Seq(Packet) /\ Len(Tail(c)) = Len(c) - 1
        /\ \A i \in 1 .. Len(Tail(c)) : Tail(c)[i] = c[i + 1]
    BY <1>2, <1>4
  <2>2. Len(e) = Len(Tail(c)) /\ \A i \in 1 .. Len(e) : e[i] = Tail(c)[i]
    BY <1>1, <1>2, <1>3, <2>1
  <2> QED BY <1>3, <2>1, <2>2, SeqEqual, Zenon
<1> QED BY <1>4, <1>5, Zenon DEF u, c, e

\* Filling a node that is not in the sequence changes none of its packets.
LEMMA ContentsKept ==
  ASSUME NEW d \in [Node -> Packet], NEW s \in Seq(Node), NEW n \in Node, NEW x \in Packet,
         \A i \in DOMAIN s : s[i] # n
  PROVE  Contents([d EXCEPT ![n] = x], s) = Contents(d, s)
BY DEF Contents

\* The queue of a direction before and after a step.
LEMMA QueueContents ==
  ASSUME NEW t \in Thread
  PROVE  /\ Queue(t) = Contents(data, Unread(t)) /\ Queue(t)' = Contents(data', Unread(t)')
         /\ Unread(t)' = IF HeadRead(t)' THEN Tail(Line(t)') ELSE Line(t)'
BY Zenon DEF Queue, Contents, Unread

\* What is still to be read is part of what is on its way.
LEMMA UnreadSeq ==
  ASSUME WorkerInv, NEW t \in Thread
  PROVE  /\ Unread(t) \in Seq(Node) /\ Len(Unread(t)) <= Len(Line(t)) /\ Len(Line(t)) \in Nat
         /\ \A i \in DOMAIN Unread(t) : \E j \in DOMAIN Line(t) : Unread(t)[i] = Line(t)[j]
         /\ Processing(t) => Line(t) # <<>>
<1> DEFINE s == Line(t)
<1>1. s \in Seq(Node) /\ Len(s) = Len(batch[t]) + ring[t].len /\ batch[t] \in Seq(Node) /\ ring[t].len \in Nat
  BY LineSeq DEF WorkerInv, TypeOK, PacketRing
<1>2. Processing(t) => Len(batch[t]) > 0
  BY <1>1 DEF WorkerInv, ThreadOK
<1> HIDE DEF s
<1>3. Processing(t) => s # <<>>
  BY <1>1, <1>2
<1>4. CASE HeadRead(t)
  <2>1. Unread(t) = Tail(s) /\ s # <<>>
    BY <1>3, <1>4, Zenon DEF Unread, HeadRead, s
  <2>2. Tail(s) \in Seq(Node) /\ Len(Tail(s)) = Len(s) - 1 /\ \A i \in 1 .. Len(s) - 1 : Tail(s)[i] = s[i + 1]
    BY <1>1, <2>1
  <2>3. Len(s) \in Nat /\ DOMAIN s = 1 .. Len(s) /\ DOMAIN Tail(s) = 1 .. Len(s) - 1
    BY <1>1, <2>2
  <2>4. \A i \in 1 .. Len(s) - 1 : i + 1 \in DOMAIN s
    BY <2>3
  <2> QED BY <1>3, <2>1, <2>2, <2>3, <2>4 DEF s
<1>5. CASE ~HeadRead(t)
  <2>1. Unread(t) = s
    BY <1>5, Zenon DEF Unread, s
  <2> QED BY <1>1, <1>3, <2>1 DEF s
<1> QED BY <1>4, <1>5, Zenon

\* A step that changes neither the line of a direction nor what is read of it, and
\* fills no node of it, leaves its queue alone.
LEMMA QueueKept ==
  ASSUME NEW u \in Thread, Line(u)' = Line(u), HeadRead(u)' = HeadRead(u),
         Contents(data', Unread(u)) = Contents(data, Unread(u))
  PROVE  Queue(u)' = Queue(u)
<1>1. Unread(u)' = Unread(u)
  BY QueueContents, Zenon DEF Unread
<1> QED BY <1>1, QueueContents, Zenon

\* Acquiring and filling a node: it was in a free list, so it is in neither direction.
LEMMA EnqueueQueue ==
  ASSUME AccountInv, NEW t \in Thread, NEW n \in Node, NEW x \in Packet, Enqueue(t, n, x),
         NEW u \in Thread
  PROVE  Stays(u)
<1>1. /\ pool_acquire(t, n) /\ MayEnqueue(t) /\ UNCHANGED <<ring, batch, got>>
      /\ data' = [data EXCEPT ![n] = x] /\ caller' = [caller EXCEPT ![t] = pc[t]]
      /\ pc' = [pc EXCEPT ![t] = "push"]
  BY Zenon DEF Enqueue, drain
<1>2. Line(u)' = Line(u)
  BY <1>1, LinesKept, Zenon
<1>3. HeadRead(u)' = HeadRead(u)
  <2>1. pc \in [Thread -> PC] /\ caller \in [Thread -> {"poll", "input", "exiting"}]
    BY Zenon DEF AccountInv, WorkerInv, TypeOK
  <2>2. CASE u = t
    BY <1>1, <2>1, <2>2, Zenon DEF HeadRead, Processing, Enqueueing, MayEnqueue
  <2>3. CASE u # t
    BY <1>1, <2>1, <2>3, Zenon DEF HeadRead, Processing, Enqueueing
  <2> QED BY <2>2, <2>3, Zenon
<1>4. ASSUME NEW i \in DOMAIN Unread(u) PROVE Unread(u)[i] # n
  <2>1. n \in free \/ n \in cache[t]
    BY <1>1, Zenon DEF pool_acquire
  <2>2. PICK a \in Location : n \in Places[a] /\ a # <<"line", u>>
    <3>1. /\ Places[<<"free", "pool">>] = free /\ <<"free", "pool">> \in Location
          /\ Places[<<"cache", t>>] = cache[t] /\ <<"cache", t>> \in Location
      BY PlaceNames, Zenon DEF Named
    <3>2. <<"free", "pool">> # <<"line", u>> /\ <<"cache", t>> # <<"line", u>>
      BY PlacesDiffer, Zenon
    <3> QED BY <2>1, <3>1, <3>2, Zenon
  <2>3. PICK j \in DOMAIN Line(u) : Unread(u)[i] = Line(u)[j]
    BY UnreadSeq, Zenon DEF AccountInv
  <2>4. n \notin Places[<<"line", u>>] /\ <<"line", u>> \in Location
    <3>1. Partition(Places) /\ <<"line", u>> \in Location
      BY PlaceNames, Zenon DEF AccountInv, Named
    <3> QED BY <2>2, <3>1, OnePlace, Zenon
  <2>5. Places[<<"line", u>>] = {Line(u)[k] : k \in DOMAIN Line(u)}
    BY PlaceNames, Zenon DEF Named
  <2> QED BY <2>3, <2>4, <2>5, Zenon
<1>5. Contents(data', Unread(u)) = Contents(data, Unread(u))
  <2> DEFINE s == Unread(u)
  <2>1. data \in [Node -> Packet] /\ s \in Seq(Node)
    BY UnreadSeq, Zenon DEF AccountInv, WorkerInv, TypeOK
  <2>2. \A i \in DOMAIN s : s[i] # n
    BY <1>4, Zenon
  <2> HIDE DEF s
  <2>3. Contents([data EXCEPT ![n] = x], s) = Contents(data, s)
    BY <2>1, <2>2, ContentsKept, Zenon
  <2> QED BY <1>1, <2>3, Zenon DEF s
<1>6. got'[u] = got[u]
  BY <1>1, Zenon
<1> QED BY <1>2, <1>3, <1>5, <1>6, QueueKept, Zenon DEF Stays

\* An accepted packet is the last one of its direction, and the other direction stays.
LEMMA PushQueue ==
  ASSUME AccountInv, NEW t \in Thread, Push(t), NEW u \in Thread
  PROVE  Stays(u) \/ Puts(u)
<1> DEFINE r == ring[Other(t)]
           s == Unread(u)
<1>0. /\ pc \in [Thread -> PC] /\ caller \in [Thread -> {"poll", "input", "exiting"}]
      /\ data \in [Node -> Packet] /\ WorkerInv
  BY Zenon DEF AccountInv, WorkerInv, TypeOK
<1>1. pc[t] = "push" /\ data' = data /\ UNCHANGED <<batch, caller, got>>
  BY Zenon DEF Push, drain
<1>2. HeadRead(u)' = HeadRead(u)
  <2>1. pc'[t] \in {"undo", "signal"} \/ pc'[t] = caller[t]
    BY <1>0, Zenon DEF Push
  <2>2. CASE u = t
    BY <1>0, <1>1, <2>1, <2>2 DEF HeadRead, Processing, Enqueueing
  <2>3. CASE u # t
    <3>1. pc'[u] = pc[u]
      BY <1>0, <2>3, Zenon DEF Push
    <3> QED BY <1>1, <3>1, Zenon DEF HeadRead, Processing, Enqueueing
  <2> QED BY <2>2, <2>3, Zenon
<1>3. CASE UNCHANGED ring
  <2>1. Line(u)' = Line(u)
    BY <1>1, <1>3, LinesKept, Zenon
  <2> QED BY <1>1, <1>2, <2>1, QueueKept, Zenon DEF Stays
<1>4. CASE r.len < TCP_WORKER_QUEUE_CAP /\ ring' = [ring EXCEPT ![Other(t)] = ring_push(r, hand[t])]
  <2>1. Line(Other(t))' = Append(Line(Other(t)), hand[t]) /\ Line(t)' = Line(t)
    BY <1>0, <1>1, <1>4, PushLine, Zenon
  <2>2. CASE u = t
    BY <1>1, <1>2, <2>1, <2>2, QueueKept, Zenon DEF Stays
  <2>3. CASE u = Other(t)
    <3>1. s \in Seq(Node) /\ Len(s) <= Len(Line(u)) /\ hand[t] \in Node
      BY <1>0, <1>1, UnreadSeq, Zenon DEF WorkerInv, ThreadOK
    <3>2. Unread(u)' = Append(s, hand[t])
      <4>1. Line(u) \in Seq(Node) /\ (HeadRead(u) => Line(u) # <<>>)
        BY <1>0, LineSeq, UnreadSeq, Zenon DEF HeadRead
      <4>2. Line(u) # <<>> => Tail(Append(Line(u), hand[t])) = Append(Tail(Line(u)), hand[t])
        BY <3>1, <4>1
      <4> QED BY <1>2, <2>1, <2>3, <4>1, <4>2, QueueContents, Zenon DEF Unread
    <3>3. Queue(u)' = Append(Queue(u), data[hand[t]])
      BY <1>0, <1>1, <3>1, <3>2, QueueContents, ContentsAppend, Zenon
    <3>4. Len(Queue(u)) < Limit
      <4>1. Len(Queue(u)) = Len(s) /\ Len(s) \in Nat
        BY <1>0, <3>1, QueueContents, ContentsSeq
      <4>2. Len(Line(u)) = Len(batch[u]) + r.len /\ batch[u] \in Seq(Node) /\ r.len \in Nat
        BY <1>0, <2>3, LineSeq DEF WorkerInv, TypeOK, PacketRing
      <4>3. Len(batch[u]) <= TCP_WORKER_BATCH_LIMIT
        <5>1. CASE Processing(u)
          BY <1>0, <4>2, <5>1, TcpWorkerAssumption DEF WorkerInv, ThreadOK, TypeOK
        <5>2. CASE ~Processing(u)
          BY <5>2, TcpWorkerAssumption DEF AccountInv, HoldsOK
        <5> QED BY <5>1, <5>2, Zenon
      <4> QED BY <1>4, <3>1, <4>1, <4>2, <4>3, TcpWorkerAssumption DEF Limit
    <3>5. data[hand[t]] \in Packet /\ got'[u] = got[u]
      BY <1>0, <1>1, <3>1
    <3> QED BY <3>3, <3>4, <3>5 DEF Puts
  <2> QED BY <2>2, <2>3, Zenon DEF Thread, Other
<1> QED BY <1>3, <1>4, Zenon DEF Push

\* The packet that is read is the first one of its direction.
LEMMA ProcessQueue ==
  ASSUME AccountInv, NEW t \in Thread, Process(t), NEW u \in Thread
  PROVE  Stays(u) \/ Takes(u)
<1>0. /\ pc \in [Thread -> PC] /\ data \in [Node -> Packet] /\ got \in [Thread -> Packet] /\ WorkerInv
  BY Zenon DEF AccountInv, WorkerInv, TypeOK
<1>1. /\ pc[t] = "process" /\ pc' = [pc EXCEPT ![t] = "input"] /\ got' = [got EXCEPT ![t] = data[Head(batch[t])]]
      /\ UNCHANGED <<ring, batch, data, caller>>
  BY Zenon DEF Process, drain
<1>2. Line(u)' = Line(u)
  BY <1>1, LinesKept, Zenon
<1>3. CASE u = t
  <2> DEFINE s == Line(u)
             b == batch[u]
  <2>1. ~HeadRead(u) /\ HeadRead(u)' /\ Processing(u)
    BY <1>0, <1>1, <1>3, Zenon DEF HeadRead, Processing
  <2>2. /\ b \in Seq(Node) /\ b # <<>> /\ Items(ring[u]) \in Seq(Node) /\ s = b \o Items(ring[u])
        /\ s \in Seq(Node)
    BY <1>0, <2>1, LineSeq, Zenon DEF WorkerInv, ThreadOK
  <2>3. s # <<>> /\ Head(s) = Head(b)
    BY <2>2, ConcatTail, Zenon
  <2>4. Queue(u) = Contents(data, s) /\ Queue(u)' = Contents(data, Tail(s))
    BY <1>1, <1>2, <2>1, QueueContents, Zenon DEF Unread
  <2>5. got'[u] = data[Head(b)]
    BY <1>0, <1>1, <1>3, Zenon
  <2> HIDE DEF s, b
  <2>6. /\ Contents(data, s) # <<>> /\ Head(Contents(data, s)) = data[Head(s)]
        /\ Contents(data, Tail(s)) = Tail(Contents(data, s))
    BY <1>0, <2>2, <2>3, ContentsTail, Zenon
  <2> QED BY <2>3, <2>4, <2>5, <2>6, Zenon DEF Takes
<1>4. CASE u # t
  <2>1. pc'[u] = pc[u] /\ got'[u] = got[u]
    BY <1>0, <1>1, <1>4, Zenon
  <2>2. HeadRead(u)' = HeadRead(u)
    BY <1>1, <2>1, Zenon DEF HeadRead, Processing, Enqueueing
  <2> QED BY <1>1, <1>2, <2>1, <2>2, QueueKept, Zenon DEF Stays
<1> QED BY <1>3, <1>4, Zenon

\* The node that is released was read already.
LEMMA ReleaseQueue ==
  ASSUME AccountInv, NEW t \in Thread, Release(t), NEW u \in Thread
  PROVE  Stays(u)
<1>0. pc \in [Thread -> PC] /\ WorkerInv
  BY Zenon DEF AccountInv, WorkerInv, TypeOK
<1>1. pc[t] = "input" /\ pc'[t] \in {"process", "drain", "resend"} /\ UNCHANGED <<data, caller, got>>
  BY <1>0, Zenon DEF Release
<1>2. Line(t)' = Tail(Line(t)) /\ (u # t => Line(u)' = Line(u))
  BY <1>0, ReleaseLine, Zenon
<1>3. CASE u = t
  <2>1. HeadRead(u) /\ ~HeadRead(u)'
    BY <1>1, <1>3, Zenon DEF HeadRead, Processing, Enqueueing
  <2>2. Unread(u)' = Unread(u)
    BY <1>2, <1>3, <2>1, QueueContents, Zenon DEF Unread
  <2> QED BY <1>1, <2>2, QueueContents, Zenon DEF Stays
<1>4. CASE u # t
  <2>1. pc'[u] = pc[u]
    BY <1>0, <1>4 DEF Release
  <2>2. HeadRead(u)' = HeadRead(u)
    BY <1>1, <2>1, Zenon DEF HeadRead, Processing, Enqueueing
  <2> QED BY <1>1, <1>2, <1>4, <2>2, QueueKept, Zenon DEF Stays
<1> QED BY <1>3, <1>4

\* What is read of the head is unchanged where the place of the thread changes
\* outside of the processing.
LEMMA HeadKept ==
  ASSUME NEW u \in Thread, caller'[u] = caller[u],
         \/ pc'[u] = pc[u]
         \/ pc[u] = "signal" /\ pc'[u] = caller[u] /\ caller[u] \in {"poll", "input", "exiting"}
         \/ pc[u] = "undo" /\ pc'[u] = caller[u] /\ caller[u] \in {"poll", "input", "exiting"}
         \/ /\ pc[u] \notin {"process", "input", "push", "undo", "signal"}
            /\ pc'[u] \notin {"input", "push", "undo", "signal"}
  PROVE  HeadRead(u)' = HeadRead(u)
BY Zenon DEF HeadRead, Processing, Enqueueing

\* The other steps leave both queues alone.
LEMMA OtherQueue ==
  ASSUME AccountInv, NEW u \in Thread,
         \/ \E t \in Thread : Undo(t) \/ Signal(t) \/ Wake(t) \/ DrainBatch(t) \/ Resend(t)
         \/ LifeStep \/ Stop \/ (\E c \in Client : Accept(c) \/ Leave(c))
  PROVE  Stays(u)
<1>0. /\ pc \in [Thread -> PC] /\ caller \in [Thread -> {"poll", "input", "exiting"}] /\ WorkerInv
      /\ HoldsOK(u)
  BY Zenon DEF AccountInv, WorkerInv, TypeOK
<1>1. UNCHANGED <<data, caller, got>> /\ (UNCHANGED <<ring, batch>> \/ \E t \in Thread : DrainBatch(t))
  <2>1. ASSUME NEW t \in Thread, Undo(t) \/ Signal(t) \/ Wake(t) \/ Resend(t)
        PROVE  UNCHANGED <<data, caller, got, ring, batch>>
    BY <2>1, Zenon DEF Undo, Signal, Wake, Resend, drain
  <2>2. ASSUME NEW t \in Thread, DrainBatch(t) PROVE UNCHANGED <<data, caller, got>>
    BY <2>2, Zenon DEF DrainBatch
  <2>3. CASE LifeStep \/ Stop \/ (\E c \in Client : Accept(c) \/ Leave(c))
    BY <2>3 DEF LifeStep, WorkerStarts, StartReturns, StopSignal, Exit, Join, Stop, Accept, Leave, drain
  <2> QED BY <2>1, <2>2, <2>3
<1>2. Line(u)' = Line(u)
  <2>1. ASSUME NEW t \in Thread, DrainBatch(t) PROVE Line(u)' = Line(u)
    <3>1. HoldsOK(t)
      BY Zenon DEF AccountInv
    <3> QED BY <1>0, <2>1, <3>1, DrainLine, Zenon
  <2>2. CASE UNCHANGED <<ring, batch>>
    BY <2>2, LinesKept, Zenon
  <2> QED BY <1>1, <2>1, <2>2, Zenon
<1>3. \/ pc'[u] = pc[u]
      \/ pc[u] = "signal" /\ pc'[u] = caller[u]
      \/ pc[u] = "undo" /\ pc'[u] = caller[u]
      \/ /\ pc[u] \notin {"process", "input", "push", "undo", "signal"}
         /\ pc'[u] \notin {"input", "push", "undo", "signal"}
  <2>1. ASSUME NEW t \in Thread, Undo(t) \/ Signal(t)
        PROVE  \/ pc'[u] = pc[u]
               \/ pc[u] \in {"signal", "undo"} /\ pc'[u] = caller[u]
    BY <1>0, <2>1, Zenon DEF Undo, Signal
  <2>2. ASSUME NEW t \in Thread, Wake(t) \/ DrainBatch(t) \/ Resend(t)
        PROVE  \/ pc'[u] = pc[u]
               \/ pc[u] \in {"poll", "drain", "resend"} /\ pc'[u] \in {"drain", "resend", "process", "poll", "exiting"}
    <3>1. ASSUME DrainBatch(t)
          PROVE  /\ pc[t] = "drain" /\ (u # t => pc'[u] = pc[u])
                 /\ pc'[t] \in {"resend", "process"}
      BY <1>0, <3>1, Zenon DEF DrainBatch
    <3>2. ASSUME Wake(t) \/ Resend(t)
          PROVE  /\ pc[t] \in {"poll", "resend"} /\ (u # t => pc'[u] = pc[u])
                 /\ pc'[t] \in {"drain", "poll", "exiting"}
      BY <1>0, <3>2, Zenon DEF Wake, Resend
    <3> QED BY <2>2, <3>1, <3>2, Zenon
  <2>3. CASE LifeStep \/ Stop \/ (\E c \in Client : Accept(c) \/ Leave(c))
    <3>1. \/ pc'[u] = pc[u]
          \/ /\ pc[u] \in {"starting", "poll", "stopping", "exiting", "joining"}
             /\ pc'[u] \in {"poll", "exited", "stopped", "stopping", "joining"}
      BY <1>0, <2>3, Zenon DEF LifeStep, WorkerStarts, StartReturns, StopSignal, Exit, Join, Stop, Accept, Leave
    <3> QED BY <3>1, Zenon
  <2> QED BY <2>1, <2>2, <2>3, Zenon
<1>4. HeadRead(u)' = HeadRead(u)
  <2>1. caller'[u] = caller[u] /\ caller[u] \in {"poll", "input", "exiting"}
    BY <1>0, <1>1, Zenon
  <2> QED BY <1>3, <2>1, HeadKept, Zenon
<1> QED BY <1>1, <1>2, <1>4, QueueKept, Zenon DEF Stays

\* Every step is a step of the queue of either direction, or leaves it alone.
LEMMA StepQueue ==
  ASSUME AccountInv, [Next]_vars, NEW u \in Thread
  PROVE  QueueStep(u)
<1>1. CASE UNCHANGED vars \/ Terminated
  <2>1. UNCHANGED vars
    BY <1>1, Zenon DEF Terminated
  <2>2. UNCHANGED <<ring, batch, data, got, pc, caller>>
    BY <2>1, Zenon DEF vars
  <2>3. Line(u)' = Line(u)
    BY <2>2, LinesKept, Zenon
  <2>4. HeadRead(u)' = HeadRead(u)
    BY <2>2, Zenon DEF HeadRead, Processing, Enqueueing
  <2> QED BY <2>2, <2>3, <2>4, QueueKept, Zenon DEF QueueStep, Stays
<1>2. ASSUME NEW t \in Thread, ThreadStep(t) PROVE QueueStep(u)
  BY <1>2, PushQueue, ProcessQueue, ReleaseQueue, OtherQueue, Zenon DEF ThreadStep, QueueStep
<1>3. ASSUME NEW t \in Thread, NEW n \in Node, NEW x \in Packet, Enqueue(t, n, x) PROVE QueueStep(u)
  BY <1>3, EnqueueQueue, Zenon DEF QueueStep
<1>4. CASE LifeStep \/ Stop \/ (\E c \in Client : Accept(c) \/ Leave(c))
  BY <1>4, OtherQueue, Zenon DEF QueueStep
<1> QED BY <1>1, <1>2, <1>3, <1>4, Zenon DEF Next

\* Both directions of the exchange implement PacketQueue: what
\* tcp_worker_enqueue_inbound and tcp_worker_enqueue_outbound accept is processed
\* unchanged, in order and once, and no more than the capacity of a ring and one
\* batch is under way, for all pool sizes, capacities, batch limits and list limits,
\* and whatever the worker thread does at its start and end.
THEOREM QueuesInOrder == Spec => PacketsInOrder
<1>1. ASSUME Init, NEW t \in Thread PROVE Queue(t) = <<>> /\ got[t] \in Packet
  <2>1. batch[t] = <<>> /\ ring[t].len = 0 /\ pc[t] = "starting"
    BY <1>1, Zenon DEF Init
  <2>2. got[t] \in Packet
    BY <1>1, TcpWorkerAssumption, Zenon DEF Init
  <2>3. Popped(ring[t], 0) = <<>>
    BY DEF Popped
  <2>4. <<>> \o <<>> = <<>>
    BY EmptySeq, ConcatEmptySeq
  <2>5. Line(t) = <<>>
    BY <2>1, <2>3, <2>4, Zenon DEF Line
  <2>6. ~HeadRead(t)
    BY <2>1, Zenon DEF HeadRead, Processing, Enqueueing
  <2>7. Queue(t) = Contents(data, <<>>)
    BY <2>5, <2>6, QueueContents, Zenon DEF Unread
  <2>8. Contents(data, <<>>) = <<>>
    BY DEF Contents
  <2> QED BY <2>2, <2>7, <2>8, Zenon
<1>2. Init => Inbound!Init /\ Outbound!Init
  <2>1. "worker" \in Thread /\ "main" \in Thread
    BY Zenon DEF Thread
  <2> QED BY <1>1, <2>1, Zenon DEF Inbound!Init, Outbound!Init
<1>3. AccountInv /\ [Next]_vars => [Inbound!Put \/ Inbound!Take]_(Inbound!vars)
  <2>1. "worker" \in Thread
    BY DEF Thread
  <2>2. ASSUME AccountInv, [Next]_vars PROVE Stays("worker") \/ Puts("worker") \/ Takes("worker")
    BY <2>1, <2>2, StepQueue DEF QueueStep
  <2> QED BY <2>2, Zenon DEF Stays, Puts, Takes, Limit, Inbound!Put, Inbound!Take, Inbound!vars
<1>4. AccountInv /\ [Next]_vars => [Outbound!Put \/ Outbound!Take]_(Outbound!vars)
  <2>1. "main" \in Thread
    BY Zenon DEF Thread
  <2>2. ASSUME AccountInv, [Next]_vars PROVE Stays("main") \/ Puts("main") \/ Takes("main")
    BY <2>1, <2>2, StepQueue, Zenon DEF QueueStep
  <2> QED BY <2>2, Zenon DEF Stays, Puts, Takes, Limit, Outbound!Put, Outbound!Take, Outbound!vars
<1> QED BY <1>2, <1>3, <1>4, AccountInvariant, PTL DEF Spec, PacketsInOrder, Inbound!Spec, Outbound!Spec
=============================================================================

---------------------------- MODULE ReplayProofs ----------------------------
(***************************************************************************)
(* The replay window of module Replay decides exactly, for every block size,*)
(* ring length and limit.  The invariant is about whole blocks: the ring holds*)
(* the last REPLAY_RING_BLOCKS blocks, the one of the last counter included up*)
(* to its end, because the counters above last in that block are admitted  *)
(* without clearing it.  The first lemmas are the arithmetic of a ring.    *)
(***************************************************************************)
EXTENDS Replay, TLAPS

\* A product with a natural number is monotone.
LEMMA ProductMonotone ==
  ASSUME NEW m \in Nat, NEW a \in Int, NEW b \in Int, a <= b
  PROVE  m * a <= m * b
  BY Z3

\* Quotient and remainder: how replay.c splits a counter, and a block number.
LEMMA DivMod ==
  ASSUME NEW n \in Nat, NEW m \in Nat \ {0}
  PROVE  /\ n \div m \in Nat
         /\ n % m \in 0 .. m - 1
         /\ n = m * (n \div m) + (n % m)
         /\ m * (n \div m) \in Nat
<1>1. n \div m \in Int /\ n % m \in 0 .. m - 1
  BY Z3
<1>2. n = m * (n \div m) + (n % m)
  BY Z3
<1> DEFINE q == n \div m
<1>3. q >= 0
  <2>1. SUFFICES ASSUME q <= -1 PROVE FALSE
    BY <1>1
  <2>2. m * q <= m * (-1)
    BY <2>1, <1>1, ProductMonotone
  <2>3. m * (-1) = -m /\ m * q \in Int
    BY <1>1, Z3
  <2> DEFINE p == m * q
  <2>4. p <= -m /\ p \in Int /\ n = p + (n % m)
    BY <2>2, <2>3, <1>2
  <2> HIDE DEF p
  <2> QED BY <2>4, <1>1
<1>4. m * q \in Nat
  BY <1>1, <1>3, Z3
<1> QED BY <1>1, <1>2, <1>3, <1>4

\* A larger counter is in the same block or a later one.
LEMMA DivMonotone ==
  ASSUME NEW m \in Nat \ {0}, NEW a \in Nat, NEW b \in Nat, a <= b
  PROVE  a \div m <= b \div m
<1> DEFINE qa == a \div m  qb == b \div m
<1>1. /\ qa \in Nat /\ qb \in Nat
      /\ a = m * qa + (a % m) /\ b = m * qb + (b % m)
      /\ a % m \in 0 .. m - 1 /\ b % m \in 0 .. m - 1
  BY DivMod
<1>2. SUFFICES ASSUME qb + 1 <= qa PROVE FALSE
  BY <1>1
<1>3. m * (qb + 1) <= m * qa
  BY <1>1, <1>2, ProductMonotone
<1>4. m * (qb + 1) = m * qb + m
  BY <1>1, Z3
<1> DEFINE pa == m * qa  pb == m * qb
<1>5. /\ pa \in Nat /\ pb \in Nat /\ pb + m <= pa
      /\ a = pa + (a % m) /\ b = pb + (b % m)
  BY <1>1, <1>3, <1>4, DivMod
<1> HIDE DEF pa, pb
<1> QED BY <1>1, <1>5

\* Two counters at most (k - 1) * m apart are in blocks less than k apart, so the
\* window of replay.h never asks the ring for a block it has reused.
LEMMA WindowSpansRing ==
  ASSUME NEW m \in Nat \ {0}, NEW k \in Nat \ {0}, NEW a \in Nat, NEW b \in Nat,
         a <= b, b - a <= (k - 1) * m
  PROVE  (b \div m) - (a \div m) < k
<1> DEFINE qa == a \div m  qb == b \div m
<1>1. /\ qa \in Nat /\ qb \in Nat
      /\ a = m * qa + (a % m) /\ b = m * qb + (b % m)
      /\ a % m \in 0 .. m - 1 /\ b % m \in 0 .. m - 1
  BY DivMod, Zenon
<1>2. SUFFICES ASSUME qa + k <= qb PROVE FALSE
  BY <1>1
<1>3. m * (qa + k) <= m * qb
  BY <1>1, <1>2, ProductMonotone
<1>4. m * (qa + k) = m * qa + m * k /\ (k - 1) * m = m * k - m /\ m * k \in Nat /\ m * qa \in Nat /\ m * qb \in Nat
  BY <1>1, Z3
<1> DEFINE pa == m * qa  pb == m * qb  pk == m * k
<1>5. /\ pa \in Nat /\ pb \in Nat /\ pk \in Nat /\ pa + pk <= pb
      /\ b - a <= pk - m
      /\ a = pa + (a % m) /\ b = pb + (b % m)
  BY <1>1, <1>3, <1>4
<1> HIDE DEF pa, pb, pk
<1> QED BY <1>1, <1>5

\* Two blocks of the window share a slot only if they are the same block.
LEMMA SlotsDistinct ==
  ASSUME NEW m \in Nat \ {0}, NEW a \in Nat, NEW b \in Nat,
         a <= b, b - a < m, a % m = b % m
  PROVE  a = b
<1> DEFINE qa == a \div m  qb == b \div m
<1>1. /\ qa \in Nat /\ qb \in Nat
      /\ a = m * qa + (a % m) /\ b = m * qb + (b % m)
  BY DivMod, Zenon
<1>2. m * qa \in Nat /\ m * qb \in Nat
  BY <1>1, Z3
<1>3. SUFFICES ASSUME qa + 1 <= qb PROVE FALSE
  BY <1>1, DivMonotone
<1>4. m * (qa + 1) <= m * qb
  BY <1>1, <1>3, ProductMonotone
<1>5. m * (qa + 1) = m * qa + m
  BY <1>1, Z3
<1>6. a % m \in 0 .. m - 1
  BY DivMod
<1> DEFINE pa == m * qa  pb == m * qb
<1>7. /\ pa \in Nat /\ pb \in Nat /\ pa + m <= pb
      /\ a = pa + (a % m) /\ b = pb + (b % m)
  BY <1>1, <1>2, <1>4, <1>5
<1> HIDE DEF pa, pb
<1> QED BY <1>6, <1>7

\* A full turn of the ring clears every slot: the cap on diff loses nothing.
LEMMA SlotsCovered ==
  ASSUME NEW m \in Nat \ {0}, NEW n \in Nat, NEW s \in 0 .. m - 1
  PROVE  \E b \in n + 1 .. n + m : b % m = s
<1> DEFINE q == n \div m
<1>1. q \in Nat /\ n = m * q + (n % m) /\ n % m \in 0 .. m - 1 /\ m * q \in Nat
  BY DivMod, Zenon
<1>2. \A k \in Nat : (m * k + s) % m = s
  BY Z3
<1>3. m * (q + 1) = m * q + m
  BY <1>1, Z3
<1>4. CASE s > n % m
  <2>1. m * q + s \in n + 1 .. n + m
    BY <1>1, <1>4
  <2> QED BY <2>1, <1>1, <1>2, SMTT(20)
<1>5. CASE s <= n % m
  <2>1. m * (q + 1) + s \in n + 1 .. n + m
    BY <1>1, <1>3, <1>5
  <2>2. (m * (q + 1) + s) % m = s
    BY <1>1, <1>2, SMTT(20)
  <2> DEFINE b == m * (q + 1) + s
  <2>3. b \in n + 1 .. n + m /\ b % m = s
    BY <2>1, <2>2
  <2> HIDE DEF b
  <2> QED BY <2>3, Zenon
<1> QED BY <1>1, <1>4, <1>5

\* Every bit of the blocks the ring stands for says whether its counter was accepted.
RingExact ==
  \A c \in Nat :
    /\ Block(c) <= Block(last)
    /\ Block(last) - Block(c) < REPLAY_RING_BLOCKS
    => (Bit(c) \in ring[Slot(Block(c))] <=> c \in accepted)

\* The inductive invariant of the replay window.
ReplayInv == TypeOK /\ (\A c \in accepted : c <= last) /\ RingExact

\* The block, the bit and the slot of a counter are in their ranges.
LEMMA BlockFacts ==
  ASSUME NEW c \in Nat
  PROVE  /\ Block(c) \in Nat
         /\ Bit(c) \in 0 .. REPLAY_BLOCK_BITS - 1
         /\ Slot(Block(c)) \in 0 .. REPLAY_RING_BLOCKS - 1
  BY DivMod, ReplayAssumption, Zenon DEF Block, Bit, Slot

\* A block and a bit determine the counter.
LEMMA CounterFromBits ==
  ASSUME NEW c \in Nat, NEW d \in Nat, Block(c) = Block(d), Bit(c) = Bit(d)
  PROVE  c = d
<1>1. c = REPLAY_BLOCK_BITS * (c \div REPLAY_BLOCK_BITS) + (c % REPLAY_BLOCK_BITS)
  BY DivMod, ReplayAssumption
<1>2. d = REPLAY_BLOCK_BITS * (d \div REPLAY_BLOCK_BITS) + (d % REPLAY_BLOCK_BITS)
  BY DivMod, ReplayAssumption
<1>3. c \div REPLAY_BLOCK_BITS = d \div REPLAY_BLOCK_BITS /\ c % REPLAY_BLOCK_BITS = d % REPLAY_BLOCK_BITS
  BY DEF Block, Bit
<1> QED BY <1>1, <1>2, <1>3, Zenon

\* Blocks are ordered as their counters are.
LEMMA BlockOrder ==
  ASSUME NEW c \in Nat, NEW d \in Nat, c <= d
  PROVE  Block(c) <= Block(d)
  BY DivMonotone, ReplayAssumption DEF Block

\* The invariant makes the answers of replay_check exact.
LEMMA WindowExactFromInv ==
  ReplayInv => WindowExact
<1> SUFFICES ASSUME ReplayInv, NEW c \in 0 .. Limit
             PROVE  replay_check(c) <=>
                      /\ c < Limit
                      /\ c \notin accepted
                      /\ c <= last => last - c <= REPLAY_WINDOW_SIZE
  BY DEF WindowExact
<1>1. c \in Nat /\ last \in Nat
  BY ReplayAssumption DEF ReplayInv, TypeOK
<1>2. CASE c <= last /\ last - c <= REPLAY_WINDOW_SIZE
  <2>1. Block(c) <= Block(last)
    BY <1>1, <1>2, BlockOrder
  <2>2. Block(last) - Block(c) < REPLAY_RING_BLOCKS
    BY <1>1, <1>2, WindowSpansRing, ReplayAssumption DEF Block, REPLAY_WINDOW_SIZE
  <2>3. Bit(c) \in ring[Slot(Block(c))] <=> c \in accepted
    BY <1>1, <2>1, <2>2 DEF ReplayInv, RingExact
  <2> QED BY <1>2, <2>3 DEF replay_check
<1>3. CASE c <= last /\ ~(last - c <= REPLAY_WINDOW_SIZE)
  BY <1>3 DEF replay_check
<1>4. CASE ~(c <= last)
  BY <1>4 DEF replay_check, ReplayInv
<1> QED BY <1>2, <1>3, <1>4

\* replay_commit preserves the invariant, in place and when the window moves.
LEMMA CommitStep ==
  ASSUME ReplayInv, NEW c \in 0 .. Limit - 1, replay_commit(c)
  PROVE  ReplayInv'
<1> DEFINE cleared == IF c > last THEN Cleared(c) ELSE {}
           moved   == [s \in DOMAIN ring |-> IF s \in cleared THEN {} ELSE ring[s]]
           W       == REPLAY_RING_BLOCKS
<1>1. c \in Nat /\ last \in Nat /\ W \in Nat \ {0}
  BY ReplayAssumption DEF ReplayInv, TypeOK
<1>2. /\ last' = IF c > last THEN c ELSE last
      /\ ring' = [moved EXCEPT ![Slot(Block(c))] = @ \cup {Bit(c)}]
      /\ accepted' = accepted \cup {c}
  BY DEF replay_commit
<1>3. last' \in Nat /\ c <= last' /\ last <= last'
  BY <1>1, <1>2
<1>4. /\ ring \in [0 .. W - 1 -> SUBSET (0 .. REPLAY_BLOCK_BITS - 1)]
      /\ moved \in [0 .. W - 1 -> SUBSET (0 .. REPLAY_BLOCK_BITS - 1)]
  BY DEF ReplayInv, TypeOK
<1>5. /\ Block(c) \in Nat /\ Bit(c) \in 0 .. REPLAY_BLOCK_BITS - 1
      /\ Slot(Block(c)) \in 0 .. W - 1 /\ Block(last) \in Nat
  BY <1>1, BlockFacts
<1>6. TypeOK'
  <2> HIDE DEF moved
  <2>1. ring' \in [0 .. W - 1 -> SUBSET (0 .. REPLAY_BLOCK_BITS - 1)]
    BY <1>2, <1>4, <1>5
  <2>2. accepted' \subseteq 0 .. Limit - 1
    BY <1>2 DEF ReplayInv, TypeOK
  <2> QED BY <1>3, <2>1, <2>2 DEF TypeOK
<1>7. \A d \in accepted' : d <= last'
  BY <1>1, <1>2, <1>3 DEF ReplayInv, TypeOK
<1>8. RingExact'
  <2> SUFFICES ASSUME NEW d \in Nat, Block(d) <= Block(last'), Block(last') - Block(d) < W
               PROVE  Bit(d) \in ring'[Slot(Block(d))] <=> d \in accepted'
    BY DEF RingExact, Block, Bit, Slot
  <2>1. /\ Block(d) \in Nat /\ Bit(d) \in 0 .. REPLAY_BLOCK_BITS - 1
        /\ Slot(Block(d)) \in 0 .. W - 1 /\ Block(last') \in Nat
    BY <1>3, BlockFacts
  <2>2. Block(c) <= Block(last') /\ Block(last) <= Block(last')
    BY <1>1, <1>3, BlockOrder
  <2>3. Bit(d) \in ring'[Slot(Block(d))] <=>
          \/ Bit(d) \in moved[Slot(Block(d))]
          \/ Slot(Block(d)) = Slot(Block(c)) /\ Bit(d) = Bit(c)
    <3> HIDE DEF moved
    <3> QED BY <1>2, <1>4, <1>5, <2>1
  <2>4. Bit(d) \in moved[Slot(Block(d))] <=>
          Slot(Block(d)) \notin cleared /\ Bit(d) \in ring[Slot(Block(d))]
    <3> HIDE DEF cleared
    <3> QED BY <1>4, <2>1
  <2>5. Block(last') - Block(c) < W
    <3>1. CASE c > last
      BY <3>1, <1>1, <1>2, <1>5
    <3>2. CASE c <= last
      <4>1. last - c <= REPLAY_WINDOW_SIZE
        BY <3>2 DEF replay_commit, replay_check
      <4>2. Block(last) - Block(c) < W
        BY <3>2, <4>1, <1>1, WindowSpansRing, ReplayAssumption, SMTT(20) DEF Block, REPLAY_WINDOW_SIZE
      <4>3. last' = last
        BY <3>2, <1>1, <1>2
      <4> QED BY <4>2, <4>3
    <3> QED BY <3>1, <3>2, <1>1
  <2>6. Slot(Block(d)) = Slot(Block(c)) /\ Bit(d) = Bit(c) <=> d = c
    <3>1. SUFFICES ASSUME Slot(Block(d)) = Slot(Block(c)), Bit(d) = Bit(c) PROVE d = c
      OBVIOUS
    <3>2. Block(d) % W = Block(c) % W
      BY <3>1 DEF Slot
    <3>3. CASE Block(d) <= Block(c)
      <4>1. Block(c) - Block(d) < W
        BY <2>1, <2>2, <1>1, <1>5
      <4>2. Block(d) = Block(c)
        BY <4>1, <3>2, <3>3, <2>1, <1>1, <1>5, SlotsDistinct
      <4> QED BY <4>2, <3>1, <1>1, CounterFromBits
    <3>4. CASE Block(c) <= Block(d)
      <4>1. Block(d) - Block(c) < W
        BY <2>1, <2>5, <1>1, <1>5
      <4>2. Block(d) = Block(c)
        BY <4>1, <3>2, <3>4, <2>1, <1>1, <1>5, SlotsDistinct
      <4> QED BY <4>2, <3>1, <1>1, CounterFromBits
    <3> QED BY <3>3, <3>4, <2>1, <1>5
  <2>7. Slot(Block(d)) \notin cleared /\ Bit(d) \in ring[Slot(Block(d))]
          <=> d \in accepted
    <3>1. CASE c <= last
      <4>1. last' = last /\ cleared = {}
        BY <3>1, <1>1, <1>2
      <4> HIDE DEF cleared
      <4> QED BY <4>1 DEF ReplayInv, RingExact
    <3>2. CASE c > last
      <4> DEFINE current == Block(last)
                 diff == IF Block(c) - current > W THEN W ELSE Block(c) - current
      <4>1. last' = c /\ cleared = {Slot(b) : b \in current + 1 .. current + diff}
        BY <3>2, <1>2 DEF Cleared
      <4>2. CASE Block(d) <= current
        <5>1. Slot(Block(d)) \notin cleared
          <6> SUFFICES ASSUME NEW b \in current + 1 .. current + diff,
                              Slot(Block(d)) = Slot(b)
                       PROVE  FALSE
            BY <4>1
          <6>1. b \in Nat /\ b <= Block(c) /\ Block(d) < b
            BY <4>2, <1>1, <1>5, <2>1
          <6>2. b - Block(d) < W
            BY <6>1, <4>1, <1>1, <1>5, <2>1
          <6>3. Block(d) % W = b % W
            BY DEF Slot
          <6> QED BY <6>1, <6>2, <6>3, <1>1, <2>1, SlotsDistinct
        <5>2. Block(last) - Block(d) < W
          BY <4>1, <2>2, <2>1, <1>1, <1>5
        <5> HIDE DEF cleared
        <5> QED BY <4>2, <5>1, <5>2 DEF ReplayInv, RingExact
      <4>3. CASE Block(d) > current
        <5>1. d \notin accepted
          <6> SUFFICES ASSUME d <= last PROVE FALSE
            BY DEF ReplayInv
          <6> QED BY <1>1, <4>3, <1>5, <2>1, BlockOrder
        <5>2. Slot(Block(d)) \in cleared
          <6>1. CASE Block(c) - current > W
            <7>1. \E b \in current + 1 .. current + W : b % W = Slot(Block(d))
              BY <1>1, <1>5, <2>1, SlotsCovered, Zenon
            <7>2. diff = W
              BY <6>1
            <7> QED BY <4>1, <7>1, <7>2 DEF Slot
          <6>2. CASE ~(Block(c) - current > W)
            <7>1. Block(d) \in current + 1 .. current + diff
              BY <6>2, <4>1, <4>3, <1>1, <1>5, <2>1
            <7> QED BY <4>1, <7>1
          <6> QED BY <6>1, <6>2
        <5> QED BY <5>1, <5>2
      <4> QED BY <4>2, <4>3, <1>5, <2>1
    <3> QED BY <3>1, <3>2, <1>1
  <2> QED BY <1>2, <2>3, <2>4, <2>6, <2>7
<1> QED BY <1>6, <1>7, <1>8 DEF ReplayInv

\* The invariant holds in every state of the filter.
THEOREM ReplayInvariant == Spec => []ReplayInv
<1>1. Init => ReplayInv
  <2> SUFFICES ASSUME Init PROVE ReplayInv
    OBVIOUS
  <2>1. TypeOK
    BY ReplayAssumption DEF Init, TypeOK
  <2>2. RingExact
    <3> SUFFICES ASSUME NEW c \in Nat PROVE Bit(c) \notin ring[Slot(Block(c))] /\ c \notin accepted
      BY DEF RingExact
    <3> QED BY BlockFacts DEF Init
  <2> QED BY <2>1, <2>2 DEF ReplayInv, Init
<1>2. ReplayInv /\ [Next]_vars => ReplayInv'
  <2> SUFFICES ASSUME ReplayInv, [Next]_vars PROVE ReplayInv'
    OBVIOUS
  <2>1. CASE Next
    <3>1. PICK c \in 0 .. Limit : replay_commit(c)
      BY <2>1 DEF Next
    <3>2. c \in 0 .. Limit - 1
      BY <3>1, ReplayAssumption DEF replay_commit, replay_check
    <3> QED BY <3>1, <3>2, CommitStep
  <2>2. CASE UNCHANGED vars
    BY <2>2 DEF vars, ReplayInv, TypeOK, RingExact, Block, Bit, Slot
  <2> QED BY <2>1, <2>2
<1> QED BY <1>1, <1>2, PTL DEF Spec

\* The window keeps its type, and no counter at or above the limit is accepted.
THEOREM ReplayTypeCorrect == Spec => []TypeOK
<1>1. ReplayInv => TypeOK
  BY DEF ReplayInv
<1> QED BY <1>1, ReplayInvariant, PTL

\* replay_check accepts exactly the new counters below the limit that are not more
\* than the window behind the last: no replay passes and no fresh packet in the
\* window is dropped, for every block size and ring length.
THEOREM WindowIsExact == Spec => []WindowExact
  BY WindowExactFromInv, ReplayInvariant, PTL

=============================================================================

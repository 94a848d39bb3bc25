------------------------------- MODULE Replay -------------------------------
(***************************************************************************)
(* replay.c: the sliding window that says which message counters of a      *)
(* keypair were received, a ring of blocks of bits.  A block of the ring   *)
(* is the set of the positions of its 1 bits.  Counters stay below limit,  *)
(* REJECT_AFTER_MESSAGES, so no 64-bit addition of the code wraps.         *)
(***************************************************************************)
EXTENDS Integers

CONSTANTS REPLAY_BLOCK_BITS,   \* 64
          REPLAY_RING_BLOCKS,  \* 128, a power of two: the mask is a remainder
          Limit                \* the limit argument, REJECT_AFTER_MESSAGES

ASSUME ReplayAssumption ==
  /\ REPLAY_BLOCK_BITS \in Nat \ {0}
  /\ REPLAY_RING_BLOCKS \in Nat \ {0}
  /\ Limit \in Nat

REPLAY_WINDOW_SIZE == (REPLAY_RING_BLOCKS - 1) * REPLAY_BLOCK_BITS

VARIABLES last,
          ring,
          accepted  \* history: the counters that replay_commit returned 1 for

vars == <<last, ring, accepted>>

Block(c) == c \div REPLAY_BLOCK_BITS
Bit(c)   == c % REPLAY_BLOCK_BITS
Slot(b)  == b % REPLAY_RING_BLOCKS

TypeOK ==
  /\ last \in Nat
  /\ ring \in [0 .. REPLAY_RING_BLOCKS - 1 -> SUBSET (0 .. REPLAY_BLOCK_BITS - 1)]
  /\ accepted \subseteq 0 .. Limit - 1

\* replay_reset, as noise_begin_session does for a new keypair.
Init ==
  /\ last = 0
  /\ ring = [s \in 0 .. REPLAY_RING_BLOCKS - 1 |-> {}]
  /\ accepted = {}

\* replay_check returns 1.
replay_check(c) ==
  /\ c < Limit
  /\ c <= last => /\ last - c <= REPLAY_WINDOW_SIZE
                  /\ Bit(c) \notin ring[Slot(Block(c))]

\* Mutant: the block of the new counter is not cleared.
Cleared_but_last(c) ==
  LET current == Block(last)
      diff    == IF Block(c) - current > REPLAY_RING_BLOCKS THEN REPLAY_RING_BLOCKS
                 ELSE Block(c) - current
  IN  {Slot(b) : b \in current + 1 .. current + diff - 1}

\* The slots that are cleared when the window moves forward to c.
Cleared(c) ==
  LET current == Block(last)
      diff    == IF Block(c) - current > REPLAY_RING_BLOCKS THEN REPLAY_RING_BLOCKS
                 ELSE Block(c) - current
  IN  {Slot(b) : b \in current + 1 .. current + diff}

\* replay_commit returns 1.
replay_commit(c) ==
  LET cleared == IF c > last THEN Cleared(c) ELSE {}
      moved   == [s \in DOMAIN ring |-> IF s \in cleared THEN {} ELSE ring[s]]
  IN  /\ replay_check(c)
      /\ last' = IF c > last THEN c ELSE last
      /\ ring' = [moved EXCEPT ![Slot(Block(c))] = @ \cup {Bit(c)}]
      /\ accepted' = accepted \cup {c}

\* Limit stands for the counters that are too large.
Next == \E c \in 0 .. Limit : replay_commit(c)

Spec == Init /\ [][Next]_vars

----------------------------------------------------------------------------
(* Properties *)

\* The filter decides as one that remembers every counter for ever, except that
\* it gives up on counters more than the window behind the last one: it never
\* accepts a counter twice and never drops a new one inside the window, however
\* far the window jumped and whatever the ring held before.
WindowExact ==
  \A c \in 0 .. Limit :
    replay_check(c) <=>
      /\ c < Limit
      /\ c \notin accepted
      /\ c <= last => last - c <= REPLAY_WINDOW_SIZE
=============================================================================

---------------------------- MODULE PacketQueue ----------------------------
(***************************************************************************)
(* What one direction of the exchange between main loop and worker         *)
(* promises: the packets that were accepted come out unchanged, in order   *)
(* and each once, and a bounded number of them is under way.               *)
(***************************************************************************)
EXTENDS Naturals, Sequences

CONSTANTS Packet, Limit

VARIABLES queue,  \* accepted and not yet processed
          got     \* the last packet processed

vars == <<queue, got>>

Init == queue = <<>> /\ got \in Packet

Put ==
  /\ Len(queue) < Limit
  /\ \E x \in Packet : queue' = Append(queue, x)
  /\ UNCHANGED got

Take ==
  /\ queue # <<>>
  /\ got' = Head(queue)
  /\ queue' = Tail(queue)

Spec == Init /\ [][Put \/ Take]_vars

\* Packets do not get stuck.
Progress == WF_vars(Take)
=============================================================================

----------------------------- MODULE MCSession -----------------------------
(* Two devices; indices are interchangeable. *)
EXTENDS Session, FiniteSets, TLC

IndexSymmetry == Permutations(Index)

\* Bound: a behaviour with a restart or a removal gets by with two indices and two
\* transport messages, the first ones on their keypairs; one without has them all.
Budget ==
  \/ resets = 0
  \/ /\ \A m \in net : m.type = "transport" => m.counter = 0
     /\ Cardinality({m \in net : m.type = "transport"}) <= 2
     /\ Cardinality({i \in Index : \/ \E d \in Device : noise[d].table[i].type # "free"
                                  \/ \E m \in net : m.type # "transport" /\ m.sender = i}) <= 2

MCDeviceStep(d) == d \notin spinning /\ DeviceStep(d) /\ Budget'

MCRestart(d) == Restart(d) /\ Budget'

MCNext == \E d \in Device : MCDeviceStep(d) \/ MCRestart(d)

MCSpec == Init /\ [][MCNext]_vars

\* Devices that stay up.
SteadyNext == \E d \in Device : d \notin spinning /\ DeviceStep(d)

SteadySpec == Init /\ [][SteadyNext]_vars
=============================================================================

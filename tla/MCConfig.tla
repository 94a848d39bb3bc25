------------------------------ MODULE MCConfig ------------------------------
EXTENDS Config

\* The memory and the peers' keys are interchangeable.
Symmetry == Permutations(Object) \cup Permutations(PublicKey)
=============================================================================

---------------------------- MODULE MCTcpWorker ----------------------------
EXTENDS TcpWorker, TLC

\* Nodes are interchangeable.
NodeSymmetry == Permutations(Node)
=============================================================================

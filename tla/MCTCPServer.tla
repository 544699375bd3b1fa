---------------------------- MODULE MCTCPServer ----------------------------
EXTENDS TCPServer, TLC
Symmetry == Permutations(Conns) \cup Permutations(Readers) \cup Permutations(Senders)
=============================================================================

---------------------------- MODULE MCAcpSessions ----------------------------
(* A small instance of AcpSessions for TLC: connections, sessions and       *)
(* handlers are interchangeable.                                            *)
EXTENDS AcpSessions, TLC

Symmetry == Permutations(Connections) \cup Permutations(Sessions) \cup Permutations(Requests)
=============================================================================

---------------------------- MODULE MCRuntimeStream ----------------------------
(* Instances of RuntimeStream for TLC.                                        *)
EXTENDS RuntimeStream
CONSTANTS d1, d2

\* One desktop loses two connections, so that a handover can fail; the other
\* loses its own only with the daemon.
MCMaxLinks == [d \in Desktop |-> IF d = d1 THEN 3 ELSE 1]
=============================================================================

--------------------------- MODULE MCStreamBridge ---------------------------
(* Instances of StreamBridge for TLC.                                      *)
EXTENDS StreamBridge, TLC

\* Readers are interchangeable.
Symmetry == Permutations(Reader)
=============================================================================

--------------------------- MODULE MCRuntimeMailbox ---------------------------
(* Instances of RuntimeMailbox for TLC.                                      *)
EXTENDS RuntimeMailbox, TLC
=============================================================================

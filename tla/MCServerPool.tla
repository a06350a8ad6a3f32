---------------------------- MODULE MCServerPool ----------------------------
(* Three threads, two slots, two processes, four calls.                     *)
EXTENDS ServerPool
=============================================================================

----------------------------- MODULE MCAcpDriver -----------------------------
(* Two prompts: a turn that is steered, and one before and after a change   *)
(* of the approval. One permission, where two prompts share a turn.         *)
EXTENDS AcpDriver

MCMaxPrompts == [p \in Provider |-> IF p = "fast" THEN 1 ELSE 2]
MCMaxAsks == [p \in Provider |-> IF p = "deerflow" THEN 0 ELSE 1]
=============================================================================

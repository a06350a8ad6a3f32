---------------------------- MODULE MCTaskStore ----------------------------
(* One task whose text grows, shrinks and changes, and another beside it.   *)
EXTENDS TaskStore, TLC

CONSTANTS s1, s2, b0, b1, b2

MCBody == <<{b0}, {b1, b2}>>
MCMaxMessages == s1 :> 2 @@ s2 :> 1

\* The versions of the second message are interchangeable.
Symmetry == Permutations({b1, b2})
=============================================================================

--------------------------- MODULE MCRunLifecycle ---------------------------
(* Instances of RunLifecycle for TLC.                                      *)
EXTENDS RunLifecycle

\* Run ids, conversations and connections are interchangeable.
Symmetry == Permutations(Run) \cup Permutations(Thread) \cup Permutations(Reader)
=============================================================================

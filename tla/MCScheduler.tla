---------------------------- MODULE MCScheduler ----------------------------
(* Instances of Scheduler for TLC.                                         *)
EXTENDS Scheduler, TLC
CONSTANT th

\* All tasks belong to one conversation: the case the serialisation is about.
MCThreadOf == [t \in Task |-> th]

\* Processes are interchangeable.
Symmetry == Permutations(Process)
=============================================================================

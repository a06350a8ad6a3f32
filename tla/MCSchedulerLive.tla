-------------------------- MODULE MCSchedulerLive --------------------------
(* Instances of SchedulerLive for TLC.                                     *)
EXTENDS SchedulerLive
CONSTANT th
MCThreadOf == [t \in Task |-> th]
=============================================================================

-------------------------- MODULE MCInstanceUpdater --------------------------
(* Instances of InstanceUpdater for TLC. *)
EXTENDS InstanceUpdater

MCIds == 1 .. 2
MCFaults == [e \in Events |-> IF e \in {"failure", "crash"} THEN 2 ELSE 1]

=============================================================================

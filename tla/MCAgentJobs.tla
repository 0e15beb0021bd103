----------------------------- MODULE MCAgentJobs -----------------------------
(* Instances of AgentJobs for TLC. *)
EXTENDS AgentJobs

MCItems == 1 .. 3
MCOnce == [e \in Events |-> 1]

=============================================================================

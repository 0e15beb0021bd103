-------------------------- MODULE MCActionsEngine --------------------------
(* Instances of ActionsEngine for TLC. *)
EXTENDS ActionsEngine

\* One workflow: two legs of a fail-fast matrix, and a job that needs both.
MCJobs == 1 .. 3
MCRunOf == [j \in Jobs |-> CHOOSE r \in Runs : TRUE]
MCNeeds == [j \in Jobs |-> IF j = 3 THEN {1, 2} ELSE {}]
MCLegs == [j \in Jobs |-> IF j = 3 THEN {} ELSE {1, 2} \ {j}]
\* The third job has the name of the first leg, hence its check.
MCContext == [j \in Jobs |-> IF j = 2 THEN 2 ELSE 1]
MCIf == [j \in Jobs |-> "success"]
MCFaults == [e \in Events |-> 1]

\* One job that may be cancelled.
MCAlone == [j \in Jobs |-> {}]
MCCancel == [e \in Events |-> IF e = "cancel" THEN 1 ELSE 0]

=============================================================================

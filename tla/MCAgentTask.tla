----------------------------- MODULE MCAgentTask -----------------------------
(* Instances of AgentTask for TLC. *)
EXTENDS AgentTask

\* "read" has the id of "test", and another name and arguments.
MCId == [c \in Calls |-> IF c = "read" THEN "test" ELSE c]
MCBatches == {<<"build">>, <<"test">>, <<"read", "build">>, <<"build", "test">>}
MCBudget == [e \in Events |-> 1]
MCTwoTasks == [MCBudget EXCEPT !["task"] = 2]

=============================================================================

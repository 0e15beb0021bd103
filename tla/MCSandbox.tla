------------------------------ MODULE MCSandbox ------------------------------
(* The instance of Sandbox for TLC: who asks for what, and what may go wrong. *)
EXTENDS Sandbox, TLC

CONSTANTS c1, c2

MCAsks == c1 :> {"command"} @@ c2 :> {"touch", "file", "command"}

Nothing == [e \in Events |-> 0]
MCBudgets == {[Nothing EXCEPT !["crash"] = 1, !["drift"] = 1, !["fault"] = 1],
              [Nothing EXCEPT !["access"] = 2, !["fault"] = 1],
              [Nothing EXCEPT !["lose"] = 1, !["fault"] = 1]}
=============================================================================

------------------------------- MODULE MCForge -------------------------------
(* Instances of Forge for TLC.  A behaviour is about pull requests, about deliveries, or
   has a little of both. *)
EXTENDS Forge

Nothing == [e \in Events |-> 0]
MCMerges == [Nothing EXCEPT !["ask"] = 3, !["push"] = 1, !["report"] = 2, !["target"] = 1]
MCStates == [Nothing EXCEPT !["ask"] = 3, !["state"] = 1, !["edit"] = 1, !["report"] = 1,
                            !["crash"] = 1]
MCBranch == [Nothing EXCEPT !["ask"] = 2, !["delete"] = 1, !["push"] = 1, !["report"] = 2]
MCOutbox == [Nothing EXCEPT !["hook"] = 1, !["push"] = 2, !["elsewhere"] = 1,
                            !["fault"] = 1, !["unhook"] = 1]
MCBoth == [Nothing EXCEPT !["ask"] = 2, !["hook"] = 1, !["push"] = 1, !["edit"] = 1, !["crash"] = 1]
MCBudgets == {MCMerges, MCStates, MCBranch, MCOutbox, MCBoth}

=============================================================================

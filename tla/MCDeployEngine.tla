--------------------------- MODULE MCDeployEngine ---------------------------
(* Instances of DeployEngine for TLC: which faults and requests may happen. *)
EXTENDS DeployEngine, TLC

Nothing == [e \in Events |-> 0]

MCNothing     == {Nothing}
MCToggle      == {[Nothing EXCEPT !["toggle"] = 2]}
MCCrashDocker == {[Nothing EXCEPT !["crash"] = 1, !["docker"] = 1]}
MCCrashLoss   == {[Nothing EXCEPT !["crash"] = 1, !["lose"] = 1]}
MCFaults      == MCCrashLoss \cup {[Nothing EXCEPT !["toggle"] = 1, !["db"] = 1],
                                   [Nothing EXCEPT !["toggle"] = 1, !["crash"] = 1],
                                   [Nothing EXCEPT !["delete"] = 1]}

RunSymmetry == Permutations(Runs)
=============================================================================

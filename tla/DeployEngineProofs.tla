------------------------- MODULE DeployEngineProofs -------------------------
(* Theorems about DeployEngine, for every set of callers, every number of  *)
(* deployments and every budget of faults the statements allow.            *)
EXTENDS DeployEngine, FiniteSetTheorems, WellFoundedInduction, TLAPS

(* ------------------------------- typing ------------------------------ *)

\* An UPDATE of a status keeps the table typed, also for an id without a row.
LEMMA SetStatusTyped ==
  ASSUME row \in [Deps -> [status : RowStatus, image : DepRef]],
         NEW d, NEW st \in RowStatus, SetStatus(d, st)
  PROVE  row' \in [Deps -> [status : RowStatus, image : DepRef]]
BY DEF SetStatus, RowStatus

LEMMA NoLocalsTyped == NoLocals \in Locals
BY ConstantsAssumption DEF NoLocals, Locals, DepRef

\* A step that touches one run keeps the runs typed if that run stays typed.
LEMMA OneRunTyped ==
  ASSUME RunTypes, NEW r \in Runs,
         active' \in Runs \cup {NoRun},
         pc' \in [Runs -> Pcs], run' \in [Runs -> Locals],
         \A s \in Runs : s # r => run'[s] = run[s] /\ pc'[s] = pc[s],
         pc'[r] \in Pipeline => run'[r].dep \in Deps,
         pc'[r] = "mark" => run'[r].inserted \in Deps
  PROVE  RunTypes'
BY DEF RunTypes

LEMMA FailTyped ==
  ASSUME RunTypes, NEW r \in Runs, pc[r] \in Pipeline, Fail(r), UNCHANGED active
  PROVE  RunTypes'
<1>1. pc' \in [Runs -> Pcs] /\ active' \in Runs \cup {NoRun}
  BY DEF RunTypes, Fail, Pcs, Registered, Pipeline, Settling
<1>2. run' \in [Runs -> Locals]
  BY DEF RunTypes, Fail, Locals
<1>3. \A s \in Runs : s # r => run'[s] = run[s] /\ pc'[s] = pc[s]
  BY DEF RunTypes, Fail
<1>4. run'[r].dep \in Deps /\ pc'[r] # "mark"
  BY DEF RunTypes, Fail, Locals
<1> QED
  BY <1>1, <1>2, <1>3, <1>4, OneRunTyped

LEMMA UnregisterTyped ==
  ASSUME RunTypes, NEW r \in Runs, Unregister(r)
  PROVE  RunTypes'
<1>1. pc' \in [Runs -> Pcs] /\ active' \in Runs \cup {NoRun}
  BY DEF RunTypes, Unregister, Pcs
<1>2. run' \in [Runs -> Locals]
  BY NoLocalsTyped DEF RunTypes, Unregister
<1>3. \A s \in Runs : s # r => run'[s] = run[s] /\ pc'[s] = pc[s]
  BY DEF RunTypes, Unregister
<1>4. pc'[r] \notin Pipeline /\ pc'[r] # "mark"
  BY DEF RunTypes, Unregister, Pipeline, BeforeSwap, Swapping, Settling
<1> QED
  BY <1>1, <1>2, <1>3, <1>4, OneRunTyped

\* A pipeline that only moves on.
LEMMA GotoTyped ==
  ASSUME RunTypes, NEW r \in Runs, NEW to \in Pipeline, pc[r] \in Pipeline,
         Goto(r, to), UNCHANGED <<active, run>>
  PROVE  RunTypes'
BY DEF RunTypes, Goto, Pipeline, BeforeSwap, Swapping, Settling, Pcs, Registered

LEMMA RunStepTyped ==
  ASSUME TypeOK, NEW r \in Runs, RunStep(r)
  PROVE  TypeOK'
<1> USE ConstantsAssumption DEF TypeOK
<1>1. CASE ReadService(r)
  <2>1. StoredTypes'
    BY <1>1 DEF ReadService, StoredTypes, RowStatus, InFlight, Services, Deps, DepRef, db, docker
  <2>2. RunTypes'
    <3>1. pc' \in [Runs -> Pcs] /\ active' \in Runs \cup {NoRun}
      BY <1>1 DEF ReadService, RunTypes, Goto, Pcs, Registered, RegisteringPcs, Pipeline, BeforeSwap
    <3>2. run' \in [Runs -> Locals]
      <4>1. \/ run' = [run EXCEPT ![r] = NoLocals]
            \/ run' = [run EXCEPT ![r].serving = svc.current # 0, ![r].manual = FALSE]
        BY <1>1 DEF ReadService
      <4>2. CASE run' = [run EXCEPT ![r] = NoLocals]
        BY <4>2, NoLocalsTyped DEF RunTypes
      <4>3. CASE run' = [run EXCEPT ![r].serving = svc.current # 0, ![r].manual = FALSE]
        <5> HIDE ConstantsAssumption DEF TypeOK
        <5>1. run \in [Runs -> Locals]
          BY DEF TypeOK, RunTypes
        <5>2. [run[r] EXCEPT !.serving = (svc.current # 0), !.manual = FALSE] \in Locals
          BY <5>1 DEF Locals
        <5>3. run' = [run EXCEPT ![r] = [run[r] EXCEPT !.serving = (svc.current # 0), !.manual = FALSE]]
          BY <4>3, <5>1
        <5> QED
          BY <5>1, <5>2, <5>3
      <4> QED
        BY <4>1, <4>2, <4>3
    <3>3. \A s \in Runs : s # r => run'[s] = run[s] /\ pc'[s] = pc[s]
      BY <1>1 DEF ReadService, RunTypes, Goto
    <3>4. pc'[r] \notin Pipeline /\ pc'[r] # "mark"
      BY <1>1 DEF ReadService, RunTypes, StoredTypes, Goto, Locals, Deps, Pipeline, BeforeSwap, Swapping, Settling
    <3> QED
      BY <3>1, <3>2, <3>3, <3>4, OneRunTyped
  <2>3. TaskTypes'
    BY <1>1 DEF ReadService, TaskTypes, tasks
  <2> QED
    BY <2>1, <2>2, <2>3
<1>2. CASE InsertRow(r)
  <2>1. StoredTypes'
    BY <1>2 DEF InsertRow, StoredTypes, RowStatus, InFlight, Services, Deps, DepRef, db, docker
  <2>2. RunTypes'
    <3>1. pc' \in [Runs -> Pcs] /\ active' \in Runs \cup {NoRun}
      BY <1>2 DEF InsertRow, RunTypes, Goto, Pcs, Registered, RegisteringPcs, Pipeline, BeforeSwap
    <3>2. run' \in [Runs -> Locals]
      BY <1>2, NoLocalsTyped DEF InsertRow, RunTypes, StoredTypes, Services, Locals, DepRef
    <3>3. \A s \in Runs : s # r => run'[s] = run[s] /\ pc'[s] = pc[s]
      BY <1>2 DEF InsertRow, RunTypes, Goto
    <3>4. pc'[r] \notin Pipeline /\ run'[r].inserted \in Deps
      BY <1>2 DEF InsertRow, RunTypes, StoredTypes, Goto, Locals, Deps, Pipeline, BeforeSwap, Swapping, Settling
    <3> QED
      BY <3>1, <3>2, <3>3, <3>4, OneRunTyped
  <2>3. TaskTypes'
    BY <1>2 DEF InsertRow, TaskTypes, tasks
  <2> QED
    BY <2>1, <2>2, <2>3
<1>3. CASE MarkDeploying(r)
  <2>1. StoredTypes'
    BY <1>3 DEF MarkDeploying, StoredTypes, RowStatus, InFlight, Services, Deps, DepRef, db, docker
  <2>2. RunTypes'
    <3>1. pc' \in [Runs -> Pcs] /\ active' \in Runs \cup {NoRun}
      BY <1>3 DEF MarkDeploying, RunTypes, Goto, Pcs, Registered, RegisteringPcs, Pipeline, BeforeSwap
    <3>2. run' \in [Runs -> Locals]
      BY <1>3, NoLocalsTyped DEF MarkDeploying, RunTypes, StoredTypes, Services, Locals, DepRef
    <3>3. \A s \in Runs : s # r => run'[s] = run[s] /\ pc'[s] = pc[s]
      BY <1>3 DEF MarkDeploying, RunTypes, Goto
    <3>4. pc'[r] # "mark" /\ run'[r].dep \in Deps
      BY <1>3 DEF MarkDeploying, RunTypes, StoredTypes, Goto, Locals, Deps, Pipeline, BeforeSwap, Swapping, Settling
    <3> QED
      BY <3>1, <3>2, <3>3, <3>4, OneRunTyped
  <2>3. TaskTypes'
    BY <1>3 DEF MarkDeploying, TaskTypes, tasks
  <2> QED
    BY <2>1, <2>2, <2>3
<1>4. CASE ReadFresh(r)
  <2>1. StoredTypes'
    BY <1>4 DEF ReadFresh, StoredTypes, RowStatus, InFlight, Services, Deps, DepRef, db, docker
  <2>2. RunTypes'
    <3>1. pc' \in [Runs -> Pcs] /\ active' \in Runs \cup {NoRun}
      BY <1>4 DEF ReadFresh, RunTypes, Goto, Pcs, Registered, RegisteringPcs, Pipeline, BeforeSwap
    <3>2. run' \in [Runs -> Locals]
      BY <1>4, NoLocalsTyped DEF ReadFresh, RunTypes, StoredTypes, Services, Locals, DepRef
    <3>3. \A s \in Runs : s # r => run'[s] = run[s] /\ pc'[s] = pc[s]
      BY <1>4 DEF ReadFresh, RunTypes, Goto
    <3>4. pc'[r] # "mark" /\ run'[r].dep \in Deps
      BY <1>4 DEF ReadFresh, RunTypes, StoredTypes, Goto, Locals, Deps, Pipeline, BeforeSwap, Swapping, Settling
    <3> QED
      BY <3>1, <3>2, <3>3, <3>4, OneRunTyped
  <2>3. TaskTypes'
    BY <1>4 DEF ReadFresh, TaskTypes, tasks
  <2> QED
    BY <2>1, <2>2, <2>3
<1>5. CASE UseStoredImage(r)
  <2>1. StoredTypes'
    BY <1>5 DEF UseStoredImage, StoredTypes, RunTypes, RowStatus, InFlight, Deps, DepRef, Locals, Pipeline, BeforeSwap, Swapping, Settling, db, docker
  <2>2. RunTypes'
    BY <1>5, GotoTyped DEF UseStoredImage, Pipeline, BeforeSwap, Swapping, Settling
  <2>3. TaskTypes'
    BY <1>5 DEF UseStoredImage, TaskTypes, tasks
  <2> QED
    BY <2>1, <2>2, <2>3
<1>6. CASE ResolveRef(r)
  <2>1. StoredTypes'
    BY <1>6 DEF ResolveRef, StoredTypes, RunTypes, RowStatus, InFlight, Deps, DepRef, Locals, Pipeline, BeforeSwap, Swapping, Settling, db, docker
  <2>2. RunTypes'
    BY <1>6, GotoTyped DEF ResolveRef, Pipeline, BeforeSwap, Swapping, Settling
  <2>3. TaskTypes'
    BY <1>6 DEF ResolveRef, TaskTypes, tasks
  <2> QED
    BY <2>1, <2>2, <2>3
<1>7. CASE MarkBuilding(r)
  <2>1. StoredTypes'
    BY <1>7 DEF MarkBuilding, StoredTypes, RunTypes, RowStatus, InFlight, Deps, DepRef, Locals, Pipeline, BeforeSwap, Swapping, Settling, db, docker
  <2>2. RunTypes'
    BY <1>7, GotoTyped DEF MarkBuilding, Pipeline, BeforeSwap, Swapping, Settling
  <2>3. TaskTypes'
    BY <1>7 DEF MarkBuilding, TaskTypes, tasks
  <2> QED
    BY <2>1, <2>2, <2>3
<1>8. CASE BuildImage(r)
  <2>1. StoredTypes'
    BY <1>8 DEF BuildImage, StoredTypes, RunTypes, Services, Locals, Deps, DepRef, Pipeline, BeforeSwap, Swapping, Settling, db, docker
  <2>2. RunTypes'
    BY <1>8, FailTyped, GotoTyped DEF BuildImage, Pipeline, BeforeSwap, Swapping, Settling
  <2>3. TaskTypes'
    BY <1>8 DEF BuildImage, TaskTypes, tasks
  <2> QED
    BY <2>1, <2>2, <2>3
<1>9. CASE MarkReleasing(r)
  <2>1. StoredTypes'
    <3>1. row' \in [Deps -> [status : RowStatus, image : DepRef]]
      BY <1>9, SetStatusTyped DEF MarkReleasing, StoredTypes, RunTypes, RowStatus, InFlight, Locals
    <3> QED
      BY <1>9, <3>1 DEF MarkReleasing, StoredTypes, docker
  <2>2. RunTypes'
    BY <1>9, GotoTyped DEF MarkReleasing, Pipeline, BeforeSwap, Swapping, Settling
  <2>3. TaskTypes'
    BY <1>9 DEF MarkReleasing, TaskTypes, tasks
  <2> QED
    BY <2>1, <2>2, <2>3
<1>10. CASE LaunchContainer(r)
  <2>1. StoredTypes'
    BY <1>10 DEF LaunchContainer, StoredTypes, RunTypes, Services, Locals, Deps, DepRef, Pipeline, BeforeSwap, Swapping, Settling, db, docker
  <2>2. RunTypes'
    BY <1>10, FailTyped, GotoTyped DEF LaunchContainer, Pipeline, BeforeSwap, Swapping, Settling
  <2>3. TaskTypes'
    BY <1>10 DEF LaunchContainer, TaskTypes, tasks
  <2> QED
    BY <2>1, <2>2, <2>3
<1>11. CASE StartProbe(r)
  <2>1. StoredTypes'
    BY <1>11 DEF StartProbe, StoredTypes, RunTypes, RowStatus, InFlight, Deps, DepRef, Locals, Pipeline, BeforeSwap, Swapping, Settling, db, docker
  <2>2. RunTypes'
    BY <1>11, GotoTyped DEF StartProbe, Pipeline, BeforeSwap, Swapping, Settling
  <2>3. TaskTypes'
    BY <1>11 DEF StartProbe, TaskTypes, tasks
  <2> QED
    BY <2>1, <2>2, <2>3
<1>12. CASE Healthy(r)
  <2>1. StoredTypes'
    BY <1>12 DEF Healthy, StoredTypes, RunTypes, RowStatus, InFlight, Deps, DepRef, Locals, Pipeline, BeforeSwap, Swapping, Settling, db, docker
  <2>2. RunTypes'
    BY <1>12, GotoTyped DEF Healthy, Pipeline, BeforeSwap, Swapping, Settling
  <2>3. TaskTypes'
    BY <1>12 DEF Healthy, TaskTypes, tasks
  <2> QED
    BY <2>1, <2>2, <2>3
<1>13. CASE RunFails(r)
  <2>1. StoredTypes'
    BY <1>13 DEF RunFails, StoredTypes, RunTypes, Services, Locals, Deps, DepRef, Pipeline, BeforeSwap, Swapping, Settling, db, docker
  <2>2. RunTypes'
    BY <1>13, FailTyped, GotoTyped DEF RunFails, Pipeline, BeforeSwap, Swapping, Settling
  <2>3. TaskTypes'
    BY <1>13 DEF RunFails, TaskTypes, tasks
  <2> QED
    BY <2>1, <2>2, <2>3
<1>14. CASE SwapDeployment(r)
  <2>1. StoredTypes'
    <3>1. row' \in [Deps -> [status : RowStatus, image : DepRef]]
      BY <1>14, SetStatusTyped DEF SwapDeployment, StoredTypes, RunTypes, RowStatus, InFlight, Locals
    <3> QED
      BY <1>14, <3>1 DEF SwapDeployment, StoredTypes, docker
  <2>2. RunTypes'
    BY <1>14, GotoTyped DEF SwapDeployment, Pipeline, BeforeSwap, Swapping, Settling
  <2>3. TaskTypes'
    BY <1>14 DEF SwapDeployment, TaskTypes, tasks
  <2> QED
    BY <2>1, <2>2, <2>3
<1>15. CASE SwapService(r)
  <2>1. StoredTypes'
    <3>1. run[r].dep \in DepRef
      BY <1>15 DEF RunTypes, Locals
    <3>2. 0 \in DepRef
      BY DEF DepRef
    <3>3. svc' = svc \/ svc' = [svc EXCEPT !.current = run[r].dep, !.status = "running",
                                          !.lastFailed = 0]
      BY <1>15 DEF SwapService
    <3>4. svc' \in Services
      BY <3>1, <3>2, <3>3 DEF StoredTypes, Services
    <3> QED
      BY <1>15, <3>4 DEF SwapService, StoredTypes, docker
  <2>2. RunTypes'
    BY <1>15, FailTyped, GotoTyped DEF SwapService, Pipeline, BeforeSwap, Swapping, Settling
  <2>3. TaskTypes'
    BY <1>15 DEF SwapService, TaskTypes, tasks
  <2> QED
    BY <2>1, <2>2, <2>3
<1>16. CASE SupersedePrevious(r)
  <2>1. StoredTypes'
    <3>1. row' \in [Deps -> [status : RowStatus, image : DepRef]]
      BY <1>16, SetStatusTyped DEF SupersedePrevious, StoredTypes, RunTypes, RowStatus, InFlight, Locals
    <3> QED
      BY <1>16, <3>1 DEF SupersedePrevious, StoredTypes, docker
  <2>2. RunTypes'
    BY <1>16, GotoTyped DEF SupersedePrevious, Pipeline, BeforeSwap, Swapping, Settling
  <2>3. TaskTypes'
    BY <1>16 DEF SupersedePrevious, TaskTypes, tasks
  <2> QED
    BY <2>1, <2>2, <2>3
<1>17. CASE Finish(r)
  <2>1. StoredTypes'
    BY <1>17 DEF Finish, StoredTypes, db, docker
  <2>2. RunTypes'
    BY <1>17, UnregisterTyped DEF Finish
  <2>3. TaskTypes'
    <3>1. run[r].dep \in Deps /\ run[r].prev \in DepRef
      BY <1>17 DEF Finish, RunTypes, Locals, Pipeline, Swapping
    <3>2. retire' \in SUBSET Deps /\ prune' \in SUBSET Deps
      BY <1>17, <3>1 DEF Finish, TaskTypes, Deps, DepRef
    <3> QED
      BY <1>17, <3>2 DEF Finish, TaskTypes
  <2> QED
    BY <2>1, <2>2, <2>3
<1>18. CASE SettleDeployment(r)
  <2>1. StoredTypes'
    <3>1. row' \in [Deps -> [status : RowStatus, image : DepRef]]
      BY <1>18, SetStatusTyped DEF SettleDeployment, StoredTypes, RunTypes, RowStatus, InFlight, Locals
    <3> QED
      BY <1>18, <3>1 DEF SettleDeployment, StoredTypes, docker
  <2>2. RunTypes'
    BY <1>18, GotoTyped DEF SettleDeployment, Pipeline, BeforeSwap, Swapping, Settling
  <2>3. TaskTypes'
    BY <1>18 DEF SettleDeployment, TaskTypes, tasks
  <2> QED
    BY <2>1, <2>2, <2>3
<1>19. CASE SettleService(r)
  <2>1. StoredTypes'
    BY <1>19 DEF SettleService, StoredTypes, RunTypes, Services, Locals, Deps, DepRef, Pipeline, BeforeSwap, Swapping, Settling, db, docker
  <2>2. RunTypes'
    BY <1>19, FailTyped, GotoTyped DEF SettleService, Pipeline, BeforeSwap, Swapping, Settling
  <2>3. TaskTypes'
    BY <1>19 DEF SettleService, TaskTypes, tasks
  <2> QED
    BY <2>1, <2>2, <2>3
<1>20. CASE SettleContainer(r)
  <2>1. StoredTypes'
    BY <1>20 DEF SettleContainer, StoredTypes, db
  <2>2. RunTypes'
    BY <1>20, GotoTyped DEF SettleContainer, Pipeline, BeforeSwap, Swapping, Settling
  <2>3. TaskTypes'
    BY <1>20 DEF SettleContainer, TaskTypes, Spend, Events, tasks
  <2> QED
    BY <2>1, <2>2, <2>3
<1>21. CASE Close(r)
  <2>1. StoredTypes'
    BY <1>21 DEF Close, StoredTypes, db, docker
  <2>2. RunTypes'
    BY <1>21, UnregisterTyped DEF Close
  <2>3. TaskTypes'
    BY <1>21 DEF Close, TaskTypes, RunTypes, Locals, Deps, DepRef, Pipeline, BeforeSwap, Swapping, Settling, tasks
  <2> QED
    BY <2>1, <2>2, <2>3
<1> QED
  BY <1>1, <1>2, <1>3, <1>4, <1>5, <1>6, <1>7, <1>8, <1>9, <1>10, <1>11,
     <1>12, <1>13, <1>14, <1>15, <1>16, <1>17, <1>18, <1>19, <1>20, <1>21
     DEF RunStep

LEMMA NoSweepTyped == NoSweep \in Sweeps
BY ConstantsAssumption DEF NoSweep, Sweeps, SweepPcs, DepRef

LEMMA SnapshotTyped ==
  ASSUME TypeOK, NEW s \in Sweepers, NEW to \in SweepPcs
  PROVE  Snapshot(s, to) \in Sweeps
BY DEF TypeOK, StoredTypes, TaskTypes, Snapshot, Sweeps, Services

LEMMA ReportTyped ==
  ASSUME TaskTypes, NEW s \in Sweepers,
         \/ Done(s)
         \/ \E st \in {"idle", "running", "stopped", "failed"} : Report(s, st)
         \/ \E how \in {"kick", "relaunch"} : Reconcile(s, how)
  PROVE  sweep' \in [Sweepers -> Sweeps]
<1>1. CASE Done(s)
  BY <1>1, NoSweepTyped DEF TaskTypes, Done
<1>2. ASSUME NEW st \in {"idle", "running", "stopped", "failed"}, Report(s, st)
      PROVE  sweep' \in [Sweepers -> Sweeps]
  <2>1. [NoSweep EXCEPT !.pc = "write", !.out = st] \in Sweeps
    BY NoSweepTyped DEF Sweeps, SweepPcs
  <2> QED
    BY <1>2, <2>1 DEF TaskTypes, Report
<1>3. ASSUME NEW how \in {"kick", "relaunch"}, Reconcile(s, how)
      PROVE  sweep' \in [Sweepers -> Sweeps]
  <2>1. sweep[s].current \in DepRef
    BY DEF TaskTypes, Sweeps
  <2>2. [NoSweep EXCEPT !.pc = how, !.current = sweep[s].current] \in Sweeps
    BY <2>1, NoSweepTyped DEF Sweeps, SweepPcs
  <2> QED
    BY <1>3, <2>2 DEF TaskTypes, Reconcile
<1> QED
  BY <1>1, <1>2, <1>3

LEMMA SweepServiceTyped ==
  ASSUME TypeOK, NEW s \in Sweepers, SweepService(s)
  PROVE  TypeOK'
<1> USE DEF TypeOK
<1>1. CASE SweepStopped(s)
  <2>1. sweep' \in [Sweepers -> Sweeps]
    BY <1>1, ReportTyped DEF SweepStopped
  <2> QED
    BY <1>1, <2>1 DEF SweepStopped, StopAndRemove, StoredTypes, RunTypes, TaskTypes, db, tasks
<1>2. CASE SweepIdle(s)
  <2>1. sweep' \in [Sweepers -> Sweeps]
    BY <1>2, ReportTyped DEF SweepIdle
  <2> QED
    BY <1>2, <2>1 DEF SweepIdle, StoredTypes, RunTypes, TaskTypes, db, docker, tasks
<1>3. CASE SweepInspect(s)
  <2>1. sweep' \in [Sweepers -> Sweeps]
    BY <1>3, ReportTyped DEF SweepInspect
  <2> QED
    BY <1>3, <2>1 DEF SweepInspect, StoredTypes, RunTypes, TaskTypes, db, docker, tasks
<1>4. CASE SweepRelaunch(s)
  <2>1. sweep' \in [Sweepers -> Sweeps]
    BY <1>4, ReportTyped DEF SweepRelaunch
  <2>2. ctr' \in [Deps -> {"none", "running", "exited"}]
    BY <1>4 DEF SweepRelaunch, StoredTypes
  <2>3. left' \in [Events -> Nat]
    BY <1>4 DEF SweepRelaunch, TaskTypes, Spend, Events
  <2> QED
    BY <1>4, <2>1, <2>2, <2>3 DEF SweepRelaunch, StoredTypes, RunTypes, TaskTypes, db, tasks
<1>5. CASE SweepKick(s)
  <2>1. sweep' \in [Sweepers -> Sweeps]
    BY <1>5, ReportTyped DEF SweepKick
  <2>2. ctr' \in [Deps -> {"none", "running", "exited"}]
    BY <1>5 DEF SweepKick, StoredTypes
  <2>3. left' \in [Events -> Nat]
    BY <1>5 DEF SweepKick, TaskTypes, Spend, Events
  <2> QED
    BY <1>5, <2>1, <2>2, <2>3 DEF SweepKick, StoredTypes, RunTypes, TaskTypes, db, tasks
<1>6. CASE SweepWrite(s)
  <2>1. sweep' \in [Sweepers -> Sweeps]
    BY <1>6, ReportTyped DEF SweepWrite
  <2>2. svc' \in Services
    BY <1>6 DEF SweepWrite, StoredTypes, TaskTypes, Services, Sweeps
  <2> QED
    BY <1>6, <2>1, <2>2 DEF SweepWrite, StoredTypes, RunTypes, TaskTypes, docker, tasks
<1> QED
  BY <1>1, <1>2, <1>3, <1>4, <1>5, <1>6 DEF SweepService

LEMMA TimerTyped ==
  ASSUME TypeOK, TimerTick \/ TimerStep
  PROVE  TypeOK'
<1> USE DEF TypeOK
<1> "timer" \in Sweepers
  BY DEF Sweepers
<1>1. CASE TimerTick
  <2>1. OwnedIds \in SUBSET DepRef
    BY DEF OwnedIds, RunTypes, Locals
  <2>2. [NoSweep EXCEPT !.pc = "select", !.owned = OwnedIds] \in Sweeps
    BY <2>1, NoSweepTyped DEF Sweeps, SweepPcs
  <2> QED
    BY <1>1, <2>2 DEF TimerTick, StoredTypes, RunTypes, TaskTypes, db, docker, tasks
<1>2. CASE SweepSelect
  <2> DEFINE found == {d \in Deps : row[d].status \in InFlight} \ sweep["timer"].owned
  <2>1. found \in SUBSET Deps
    OBVIOUS
  <2> HIDE DEF found
  <2>2. [sweep["timer"] EXCEPT !.pc = "fail", !.owned = {}, !.stuck = found] \in Sweeps
    BY <2>1 DEF TaskTypes, Sweeps, SweepPcs
  <2>3. sweep' = [sweep EXCEPT !["timer"] =
                   [sweep["timer"] EXCEPT !.pc = "fail", !.owned = {}, !.stuck = found]]
    BY <1>2 DEF SweepSelect, TaskTypes, found
  <2>4. sweep' \in [Sweepers -> Sweeps]
    BY <2>2, <2>3 DEF TaskTypes
  <2> QED
    BY <1>2, <2>4 DEF SweepSelect, StoredTypes, RunTypes, TaskTypes, db, docker, tasks
<1>3. ASSUME NEW d \in Deps, SweepFailRow(d)
      PROVE  TypeOK'
  <2>1. row' \in [Deps -> [status : RowStatus, image : DepRef]]
    BY <1>3, SetStatusTyped DEF SweepFailRow, StoredTypes, RowStatus
  <2>2. sweep' \in [Sweepers -> Sweeps]
    BY <1>3 DEF SweepFailRow, TaskTypes, Sweeps
  <2> QED
    BY <1>3, <2>1, <2>2 DEF SweepFailRow, StoredTypes, RunTypes, TaskTypes, docker, tasks
<1>4. CASE SweepServices
  <2>1. Snapshot("timer", "gate") \in Sweeps
    BY SnapshotTyped DEF SweepPcs
  <2> QED
    BY <1>4, <2>1 DEF SweepServices, StoredTypes, RunTypes, TaskTypes, db, docker, tasks
<1>5. CASE SweepGate
  <2>1. sweep' \in [Sweepers -> Sweeps]
    <3>1. \/ sweep' = [sweep EXCEPT !["timer"].pc = "svc"]
          \/ sweep' = [sweep EXCEPT !["timer"] = NoSweep]
      BY <1>5 DEF SweepGate
    <3>2. CASE sweep' = [sweep EXCEPT !["timer"].pc = "svc"]
      BY <3>2 DEF TaskTypes, Sweeps, SweepPcs
    <3>3. CASE sweep' = [sweep EXCEPT !["timer"] = NoSweep]
      BY <3>3, NoSweepTyped DEF TaskTypes
    <3> QED
      BY <3>1, <3>2, <3>3
  <2>2. left' \in [Events -> Nat]
    BY <1>5 DEF SweepGate, TaskTypes, Spend, Events
  <2> QED
    BY <1>5, <2>1, <2>2 DEF SweepGate, StoredTypes, RunTypes, TaskTypes, db, docker, tasks
<1> QED
  BY <1>1, <1>2, <1>3, <1>4, <1>5, SweepServiceTyped DEF TimerStep

LEMMA RequestTyped ==
  ASSUME TypeOK,
         \/ \E r \in Runs : Deploy(r) \/ Rollback(r) \/ DbFault(r)
         \/ Cancel \/ StopRead \/ StopWrite \/ StartRead \/ StartStep
         \/ (\E d \in Deps : DeleteRead(d)) \/ DeleteContainer \/ DeleteRow
  PROVE  TypeOK'
<1> USE DEF TypeOK
<1>1. ASSUME NEW r \in Runs, NEW manual \in BOOLEAN, NEW image \in DepRef,
             BeginStart(r, manual, image)
      PROVE  TypeOK'
  <2>1. [NoLocals EXCEPT !.manual = manual, !.reuse = image] \in Locals
    BY NoLocalsTyped DEF Locals
  <2>2. run' \in [Runs -> Locals] /\ pc' \in [Runs -> Pcs]
    BY <1>1, <2>1 DEF BeginStart, Goto, RunTypes, Pcs
  <2>3. \A s \in Runs : s # r => run'[s] = run[s] /\ pc'[s] = pc[s]
    BY <1>1 DEF BeginStart, Goto, RunTypes
  <2>4. pc'[r] \notin Pipeline /\ pc'[r] # "mark"
    BY <1>1 DEF BeginStart, Goto, RunTypes, Pipeline, BeforeSwap, Swapping, Settling
  <2>5. RunTypes'
    BY <1>1, <2>2, <2>3, <2>4, OneRunTyped DEF BeginStart, RunTypes
  <2> QED
    BY <1>1, <2>5 DEF BeginStart, StoredTypes, TaskTypes, db, docker, tasks
<1>2. ASSUME NEW r \in Runs, Deploy(r)
      PROVE  TypeOK'
  BY <1>1, <1>2, ConstantsAssumption DEF Deploy, DepRef
<1>3. ASSUME NEW r \in Runs, Rollback(r)
      PROVE  TypeOK'
  BY <1>1, <1>3 DEF Rollback, StoredTypes
<1>4. ASSUME NEW r \in Runs, DbFault(r)
      PROVE  TypeOK'
  <2>1. RunTypes'
    <3>1. ASSUME Goto(r, "idle"), NEW known \in {run[r].dep, run[r].inserted},
                 run' = [run EXCEPT ![r] = [NoLocals EXCEPT !.dep = known]]
          PROVE  RunTypes'
      <4>1. pc' \in [Runs -> Pcs] /\ run' \in [Runs -> Locals]
        BY <3>1, NoLocalsTyped DEF Goto, RunTypes, Pcs, Locals
      <4>2. \A s \in Runs : s # r => run'[s] = run[s] /\ pc'[s] = pc[s]
        BY <3>1 DEF Goto, RunTypes
      <4>3. pc'[r] \notin Pipeline /\ pc'[r] # "mark"
        BY <3>1 DEF Goto, RunTypes, Pipeline, BeforeSwap, Swapping, Settling
      <4> QED
        BY <1>4, <4>1, <4>2, <4>3, OneRunTyped DEF DbFault, RunTypes
    <3>2. CASE pc[r] \in {"adoptImage", "markBuild", "markRelease", "swapDep",
                          "swapSvc", "swapPrev"} /\ Fail(r)
      BY <1>4, <3>2, FailTyped DEF DbFault, Pipeline, BeforeSwap, Swapping
    <3>3. CASE pc[r] \in {"settleDep", "settleSvc"} /\ Goto(r, "close") /\ UNCHANGED run
      BY <1>4, <3>3, GotoTyped DEF DbFault, Pipeline, Settling
    <3> QED
      BY <1>4, <3>1, <3>2, <3>3 DEF DbFault
  <2> QED
    BY <1>4, <2>1 DEF DbFault, StoredTypes, TaskTypes, Spend, Events, db, docker, tasks
<1>5. CASE Cancel
  <2>1. run' \in [Runs -> Locals]
    BY <1>5 DEF Cancel, RunTypes, Locals
  <2>2. \A s \in Runs : run'[s].dep = run[s].dep /\ run'[s].inserted = run[s].inserted
    BY <1>5 DEF Cancel, RunTypes, Locals
  <2> QED
    BY <1>5, <2>1, <2>2 DEF Cancel, StoredTypes, RunTypes, TaskTypes, db, docker, tasks
<1>6. CASE StopRead
  <2>1. stop' \in Calls
    BY <1>6 DEF StopRead, StoredTypes, Services, Calls
  <2> QED
    BY <1>6, <2>1 DEF StopRead, StoredTypes, RunTypes, TaskTypes, Spend, Events, db, docker, tasks
<1>7. CASE StopWrite
  <2>1. svc' \in Services
    BY <1>7 DEF StopWrite, StoredTypes, Services
  <2>2. stop' \in Calls
    BY <1>7, ConstantsAssumption DEF StopWrite, NoCall, Calls, DepRef
  <2>3. retire' \in SUBSET Deps
    BY <1>7 DEF StopWrite, TaskTypes, Calls, Deps, DepRef
  <2> QED
    BY <1>7, <2>1, <2>2, <2>3 DEF StopWrite, StoredTypes, RunTypes, TaskTypes, docker
<1>8. CASE StartRead
  <2>1. Snapshot("start", "write0") \in Sweeps
    BY SnapshotTyped DEF Sweepers, SweepPcs
  <2>2. sweep' \in [Sweepers -> Sweeps]
    BY <1>8, <2>1 DEF StartRead, TaskTypes
  <2>3. left' \in [Events -> Nat]
    BY <1>8 DEF StartRead, TaskTypes, Spend, Events
  <2> QED
    BY <1>8, <2>2, <2>3 DEF StartRead, StoredTypes, RunTypes, TaskTypes, db, docker, tasks
<1>9. CASE StartStep
  <2>1. CASE StartWrite
    <3>1. svc' \in Services
      BY <2>1 DEF StartWrite, StoredTypes, Services
    <3>2. sweep' \in [Sweepers -> Sweeps]
      BY <2>1 DEF StartWrite, TaskTypes, Sweeps, SweepPcs
    <3> QED
      BY <2>1, <3>1, <3>2 DEF StartWrite, StoredTypes, RunTypes, TaskTypes, docker, tasks
  <2> QED
    BY <1>9, <2>1, SweepServiceTyped DEF StartStep, Sweepers
<1>10. ASSUME NEW d \in Deps, DeleteRead(d)
       PROVE  TypeOK'
  <2>1. del' \in Calls
    BY <1>10 DEF DeleteRead, Calls, Deps, DepRef
  <2> QED
    BY <1>10, <2>1 DEF DeleteRead, StoredTypes, RunTypes, TaskTypes, Spend, Events, db, docker, tasks
<1>11. CASE DeleteContainer
  <2>1. del' \in Calls
    BY <1>11 DEF DeleteContainer, TaskTypes, Calls
  <2>2. ctr' \in [Deps -> {"none", "running", "exited"}] /\ built' \in SUBSET DepRef
    BY <1>11 DEF DeleteContainer, StoredTypes
  <2> QED
    BY <1>11, <2>1, <2>2 DEF DeleteContainer, StoredTypes, RunTypes, TaskTypes, db, tasks
<1>12. CASE DeleteRow
  <2>1. del' \in Calls
    BY <1>12, ConstantsAssumption DEF DeleteRow, NoCall, Calls, DepRef
  <2>2. svc' \in Services
    <3>1. 0 \in DepRef
      BY ConstantsAssumption DEF DepRef
    <3> QED
      BY <1>12, <3>1 DEF DeleteRow, StoredTypes, Services
  <2>3. row' \in [Deps -> [status : RowStatus, image : DepRef]]
    <3>1. NoRow \in [status : RowStatus, image : DepRef]
      BY ConstantsAssumption DEF NoRow, RowStatus, DepRef
    <3> QED
      BY <1>12, <3>1 DEF DeleteRow, StoredTypes
  <2> QED
    BY <1>12, <2>1, <2>2, <2>3 DEF DeleteRow, StoredTypes, RunTypes, TaskTypes, docker, tasks
<1> QED
  BY <1>2, <1>3, <1>4, <1>5, <1>6, <1>7, <1>8, <1>9, <1>10, <1>11, <1>12

LEMMA EnvironmentTyped ==
  ASSUME TypeOK,
         \/ \E d \in Deps : RetireContainer(d) \/ PruneImages(d) \/ LoseContainer(d)
         \/ Crash \/ Restart \/ Listen
  PROVE  TypeOK'
<1> USE DEF TypeOK
<1>1. ASSUME NEW d \in Deps, RetireContainer(d)
      PROVE  TypeOK'
  BY <1>1 DEF RetireContainer, StopAndRemove, StoredTypes, RunTypes, TaskTypes, Spend,
              Events, db
<1>2. ASSUME NEW d \in Deps, PruneImages(d)
      PROVE  TypeOK'
  <2>1. built' \in SUBSET DepRef
    BY <1>2 DEF PruneImages, StoredTypes
  <2> QED
    BY <1>2, <2>1 DEF PruneImages, StoredTypes, RunTypes, TaskTypes, db
<1>3. ASSUME NEW d \in Deps, LoseContainer(d)
      PROVE  TypeOK'
  BY <1>3 DEF LoseContainer, StoredTypes, RunTypes, TaskTypes, Spend, Events, db, tasks
<1>4. CASE Crash
  <2>1. RunTypes'
    BY <1>4, NoLocalsTyped DEF Crash, RunTypes, Pcs, Pipeline, BeforeSwap, Swapping, Settling
  <2>2. stop' \in Calls /\ del' \in Calls
    BY <1>4, ConstantsAssumption DEF Crash, NoCall, Calls, DepRef
  <2>3. sweep' \in [Sweepers -> Sweeps]
    BY <1>4, NoSweepTyped DEF Crash
  <2> QED
    BY <1>4, <2>1, <2>2, <2>3 DEF Crash, StoredTypes, TaskTypes, Spend, Events, db, docker
<1>5. CASE Restart
  <2>1. [NoSweep EXCEPT !.pc = "select"] \in Sweeps
    BY NoSweepTyped DEF Sweeps, SweepPcs
  <2> QED
    BY <1>5, <2>1 DEF Restart, StoredTypes, RunTypes, TaskTypes, db, docker, tasks
<1>6. CASE Listen
  BY <1>6 DEF Listen, StoredTypes, RunTypes, TaskTypes, db, docker, tasks
<1> QED
  BY <1>1, <1>2, <1>3, <1>4, <1>5, <1>6

\* Every step of the engine, of its callers and of its environment keeps every
\* variable in its type; a registered pipeline always knows its deployment's id.
THEOREM TypeCorrect == Spec => []TypeOK
<1>1. Init => TypeOK
  <2> SUFFICES ASSUME Init PROVE TypeOK
    OBVIOUS
  <2>1. StoredTypes
    BY ConstantsAssumption DEF Init, StoredTypes, Services, DepRef, Deps, NoRow, RowStatus
  <2>2. RunTypes
    BY NoLocalsTyped DEF Init, RunTypes, Pcs, Pipeline, BeforeSwap, Swapping, Settling
  <2>3. TaskTypes
    BY NoSweepTyped, ConstantsAssumption DEF Init, TaskTypes, NoCall, Calls, DepRef
  <2> QED
    BY <2>1, <2>2, <2>3 DEF TypeOK
<1>2. TypeOK /\ [Next]_vars => TypeOK'
  <2> SUFFICES ASSUME TypeOK, [Next]_vars PROVE TypeOK'
    OBVIOUS
  <2>1. CASE Next
    BY <2>1, RunStepTyped, TimerTyped, RequestTyped, EnvironmentTyped DEF Next
  <2>2. CASE UNCHANGED vars
    BY <2>2 DEF vars, TypeOK, StoredTypes, RunTypes, TaskTypes, db, docker, tasks
  <2> QED
    BY <2>1, <2>2
<1> QED
  BY <1>1, <1>2, PTL DEF Spec

(* --------------------- whose deployment is whose --------------------- *)

LEMMA MineIsDeployment ==
  ASSUME TypeOK, NEW r \in Runs, pc[r] \in Holding
  PROVE  Mine(r) \in Deps
BY DEF TypeOK, RunTypes, Holding, Mine

LEMMA UnservedHolds == Unserved \subseteq Holding
BY DEF Unserved, Holding, Pipeline, Swapping

\* What a step must leave alone for the ownership of deployments to survive it.
LEMMA OwnershipKept ==
  ASSUME TypeOK, OwnershipInv, left'["db"] = 0, nextDep' = nextDep,
         svc'.current \in {0, svc.current},
         \A r \in Runs : pc'[r] \in Holding => pc[r] \in Holding /\ Mine(r)' = Mine(r),
         \A r \in Runs : pc'[r] \in Unserved => pc[r] \in Unserved,
         RegistrationHasOwner'
  PROVE  OwnershipInv'
<1>1. svc'.current < nextDep'
  BY ConstantsAssumption DEF TypeOK, StoredTypes, Services, OwnershipInv, DepRef
<1>2. \A r \in Runs : pc'[r] \in Holding => Mine(r)' < nextDep'
  BY DEF OwnershipInv
<1>3. \A r, s \in Runs :
        pc'[r] \in Holding /\ pc'[s] \in Holding /\ r # s => Mine(r)' # Mine(s)'
  BY DEF OwnershipInv
<1>4. ASSUME NEW r \in Runs, pc'[r] \in Unserved
      PROVE  Mine(r)' # svc'.current
  <2>1. Mine(r)' = Mine(r) /\ Mine(r) \in Deps /\ Mine(r) # svc.current
    BY <1>4, UnservedHolds, MineIsDeployment DEF OwnershipInv
  <2> QED
    BY <2>1 DEF Deps
<1> QED
  BY <1>1, <1>2, <1>3, <1>4 DEF OwnershipInv

\* A run that moves within its pipeline, or that ends, keeps what it holds.
LEMMA OwnershipOneRun ==
  ASSUME TypeOK, OwnershipInv, NEW r \in Runs, NEW to \in Pcs,
         pc' = [pc EXCEPT ![r] = to],
         left'["db"] = 0, nextDep' = nextDep, svc'.current = svc.current,
         \A s \in Runs : s # r => run'[s].dep = run[s].dep /\ run'[s].inserted = run[s].inserted,
         to \in Holding => pc[r] \in Holding /\ Mine(r)' = Mine(r),
         to \in Unserved => pc[r] \in Unserved,
         RegistrationHasOwner'
  PROVE  OwnershipInv'
<1>1. \A s \in Runs : s # r => pc'[s] = pc[s] /\ Mine(s)' = Mine(s)
  BY DEF TypeOK, RunTypes, Mine
<1>2. pc'[r] = to
  BY DEF TypeOK, RunTypes
<1> QED
  BY <1>1, <1>2, OwnershipKept

LEMMA OwnershipMove ==
  ASSUME TypeOK, OwnershipInv, NEW r \in Runs, NEW to \in Pipeline, pc[r] \in Pipeline,
         pc' = [pc EXCEPT ![r] = to], UNCHANGED <<active, nextDep>>,
         left'["db"] = 0, svc'.current = svc.current,
         \A s \in Runs : run'[s].dep = run[s].dep /\ run'[s].inserted = run[s].inserted,
         to \in Unserved => pc[r] \in Unserved
  PROVE  OwnershipInv'
<1>1. to \in Pcs /\ to # "mark" /\ pc[r] # "mark"
  BY DEF Pcs, Registered, Pipeline, BeforeSwap, Swapping, Settling
<1>2. Mine(r)' = Mine(r)
  BY <1>1 DEF Mine, TypeOK, RunTypes
<1>3. RegistrationHasOwner'
  BY DEF OwnershipInv, RegistrationHasOwner, TypeOK, RunTypes, Registered
<1> QED
  BY <1>1, <1>2, <1>3, OwnershipOneRun DEF Holding

LEMMA OwnershipFail ==
  ASSUME TypeOK, OwnershipInv, NEW r \in Runs, pc[r] \in Pipeline \cap Unserved, Fail(r),
         UNCHANGED <<active, nextDep, svc>>, left'["db"] = 0
  PROVE  OwnershipInv'
<1>1. \A s \in Runs : run'[s].dep = run[s].dep /\ run'[s].inserted = run[s].inserted
  BY DEF Fail, TypeOK, RunTypes, Locals
<1>2. "settleDep" \in Pipeline
  BY DEF Pipeline, Settling
<1> QED
  BY <1>1, <1>2, OwnershipMove DEF Fail

LEMMA OwnershipUnregister ==
  ASSUME TypeOK, OwnershipInv, NEW r \in Runs, Unregister(r),
         UNCHANGED <<nextDep, svc>>, left'["db"] = 0
  PROVE  OwnershipInv'
<1>1. RegistrationHasOwner'
  BY ConstantsAssumption DEF Unregister, OwnershipInv, RegistrationHasOwner, TypeOK, RunTypes
<1>2. "idle" \in Pcs /\ "idle" \notin Holding /\ "idle" \notin Unserved
  BY DEF Pcs, Holding, Unserved, Pipeline, BeforeSwap, Swapping, Settling
<1>3. \A s \in Runs : s # r => run'[s].dep = run[s].dep /\ run'[s].inserted = run[s].inserted
  BY DEF Unregister, TypeOK, RunTypes
<1> QED
  BY <1>1, <1>2, <1>3, OwnershipOneRun DEF Unregister

LEMMA OwnershipRegister ==
  ASSUME TypeOK, OwnershipInv, NEW r \in Runs,
         ReadService(r) \/ InsertRow(r) \/ MarkDeploying(r)
  PROVE  OwnershipInv'
<1> USE DEF OwnershipInv
<1>1. CASE ReadService(r)
  <2>1. \A s \in Runs : s # r => run'[s] = run[s]
    BY <1>1 DEF ReadService, TypeOK, RunTypes
  <2>2. CASE svc.desired = "stopped" /\ ~run[r].manual
    <3>1. RegistrationHasOwner'
      BY <1>1, <2>2 DEF ReadService, Goto, RegistrationHasOwner, TypeOK, RunTypes,
           Registered, RegisteringPcs, Pipeline, BeforeSwap, Swapping, Settling
    <3>2. "idle" \in Pcs /\ "idle" \notin Holding /\ "idle" \notin Unserved
      BY DEF Pcs, Holding, Unserved, Pipeline, BeforeSwap, Swapping, Settling
    <3> QED
      BY <1>1, <2>1, <2>2, <3>1, <3>2, OwnershipOneRun DEF ReadService, Goto, db
  <2>3. CASE ~(svc.desired = "stopped" /\ ~run[r].manual)
    <3>1. RegistrationHasOwner'
      BY <1>1, <2>3 DEF ReadService, Goto, RegistrationHasOwner, TypeOK, RunTypes,
           Registered, RegisteringPcs
    <3>2. "insert" \in Pcs /\ "insert" \notin Holding /\ "insert" \notin Unserved
      BY DEF Pcs, Registered, RegisteringPcs, Holding, Unserved, Pipeline, BeforeSwap,
             Swapping, Settling
    <3> QED
      BY <1>1, <2>1, <2>3, <3>1, <3>2, OwnershipOneRun DEF ReadService, Goto, db
  <2> QED
    BY <2>2, <2>3
<1>2. CASE InsertRow(r)
  <2>1. pc' = [pc EXCEPT ![r] = "mark"] /\ nextDep' = nextDep + 1 /\ UNCHANGED <<svc, active, left>>
    BY <1>2 DEF InsertRow, Goto
  <2>2. Mine(r)' = nextDep
    BY <1>2 DEF InsertRow, Goto, Mine, TypeOK, RunTypes, Locals
  <2>3. \A s \in Runs : s # r => pc'[s] = pc[s] /\ Mine(s)' = Mine(s)
    BY <1>2 DEF InsertRow, Goto, Mine, TypeOK, RunTypes
  <2>4. nextDep \in Int /\ svc.current \in Int
    BY DEF TypeOK, StoredTypes, Services, DepRef
  <2>5. \A s \in Runs : pc[s] \in Holding => Mine(s) \in Int
    BY MineIsDeployment DEF Deps
  <2>6. \A s \in Runs : pc'[s] \in Holding => Mine(s)' < nextDep'
    BY <2>1, <2>2, <2>3, <2>4, <2>5
  <2>7. \A s, t \in Runs :
          pc'[s] \in Holding /\ pc'[t] \in Holding /\ s # t => Mine(s)' # Mine(t)'
    BY <2>2, <2>3, <2>4, <2>5
  <2>8. \A s \in Runs : pc'[s] \in Unserved => Mine(s)' # svc'.current
    BY <2>1, <2>2, <2>3, <2>4
  <2>9. RegistrationHasOwner'
    BY <2>1 DEF RegistrationHasOwner, TypeOK, RunTypes, Registered, RegisteringPcs
  <2> QED
    BY <2>1, <2>4, <2>6, <2>7, <2>8, <2>9
<1>3. CASE MarkDeploying(r)
  <2>1. pc' = [pc EXCEPT ![r] = "fresh"] /\ svc'.current = svc.current
    BY <1>3 DEF MarkDeploying, Goto, TypeOK, StoredTypes, Services
  <2>2. Mine(r)' = Mine(r) /\ pc[r] \in Holding /\ pc[r] \in Unserved
    BY <1>3 DEF MarkDeploying, Goto, Mine, Holding, Unserved, TypeOK, RunTypes, Locals
  <2>3. \A s \in Runs : s # r => run'[s].dep = run[s].dep /\ run'[s].inserted = run[s].inserted
    BY <1>3 DEF MarkDeploying, TypeOK, RunTypes
  <2>4. RegistrationHasOwner'
    BY <1>3, <2>1 DEF MarkDeploying, RegistrationHasOwner, TypeOK, RunTypes, Registered,
           Pipeline, BeforeSwap
  <2>5. "fresh" \in Pcs
    BY DEF Pcs, Registered, Pipeline, BeforeSwap
  <2> QED
    BY <1>3, <2>1, <2>2, <2>3, <2>4, <2>5, OwnershipOneRun DEF MarkDeploying
<1> QED
  BY <1>1, <1>2, <1>3

LEMMA OwnershipSwapService ==
  ASSUME TypeOK, OwnershipInv, NEW r \in Runs, SwapService(r)
  PROVE  OwnershipInv'
<1>1. CASE row[run[r].dep].status = "none"
  BY <1>1, OwnershipFail DEF SwapService, OwnershipInv, Pipeline, Swapping, Unserved
<1>2. CASE row[run[r].dep].status # "none"
  <2> DEFINE to == IF run[r].prev \notin {0, run[r].dep} THEN "swapPrev" ELSE "finish"
  <2>1. pc' = [pc EXCEPT ![r] = to] /\ UNCHANGED <<run, active, nextDep, left>>
    BY <1>2 DEF SwapService, Goto
  <2>2. svc'.current = run[r].dep
    BY <1>2 DEF SwapService, TypeOK, StoredTypes, Services
  <2>3. pc[r] = "swapSvc" /\ pc[r] \in Holding /\ pc[r] \in Unserved /\ Mine(r) = run[r].dep
    BY DEF SwapService, Mine, Holding, Unserved, Pipeline, Swapping
  <2>4. pc'[r] = to /\ to \in Holding /\ to \notin Unserved /\ to # "mark"
    BY <2>1 DEF Holding, Unserved, Pipeline, Swapping, BeforeSwap, Settling, TypeOK, RunTypes
  <2>5. \A s \in Runs : Mine(s)' = Mine(s) /\ (s # r => pc'[s] = pc[s])
    BY <2>1, <2>3, <2>4 DEF Mine, TypeOK, RunTypes
  <2>6. RegistrationHasOwner'
    BY <2>1, <2>4 DEF OwnershipInv, RegistrationHasOwner, TypeOK, RunTypes, Registered, Holding
  <2>7. \A s \in Runs : pc'[s] \in Unserved => s # r /\ pc[s] \in Holding
    BY <2>4, <2>5, UnservedHolds
  <2>8. \A s \in Runs : pc'[s] \in Unserved => Mine(s)' # svc'.current
    BY <2>2, <2>3, <2>5, <2>7 DEF OwnershipInv
  <2>9. \A s \in Runs : pc'[s] \in Holding => pc[s] \in Holding
    BY <2>3, <2>5
  <2> QED
    BY <2>1, <2>2, <2>3, <2>5, <2>6, <2>8, <2>9 DEF OwnershipInv
<1> QED
  BY <1>1, <1>2

LEMMA OwnershipRunStep ==
  ASSUME TypeOK, OwnershipInv, NEW r \in Runs, RunStep(r)
  PROVE  OwnershipInv'
<1> USE DEF OwnershipInv, Pipeline, BeforeSwap, Swapping, Settling, Unserved, db
<1>1. CASE ReadService(r) \/ InsertRow(r) \/ MarkDeploying(r)
  BY <1>1, OwnershipRegister
<1>2. CASE ReadFresh(r)
  <2>1. \A s \in Runs : run'[s].dep = run[s].dep /\ run'[s].inserted = run[s].inserted
    BY <1>2 DEF ReadFresh, TypeOK, RunTypes, Locals
  <2> QED
    BY <1>2, <2>1, OwnershipMove DEF ReadFresh, Goto
<1>3. CASE UseStoredImage(r)
  BY <1>3, OwnershipMove DEF UseStoredImage, Goto
<1>4. CASE ResolveRef(r)
  BY <1>4, OwnershipMove DEF ResolveRef, Goto
<1>5. CASE MarkBuilding(r)
  BY <1>5, OwnershipMove DEF MarkBuilding, Goto
<1>6. CASE MarkReleasing(r)
  BY <1>6, OwnershipMove DEF MarkReleasing, Goto
<1>7. CASE StartProbe(r)
  BY <1>7, OwnershipMove DEF StartProbe, Goto
<1>8. CASE Healthy(r)
  BY <1>8, OwnershipMove DEF Healthy, Goto
<1>9. CASE SwapDeployment(r)
  BY <1>9, OwnershipMove DEF SwapDeployment, Goto
<1>10. CASE SupersedePrevious(r)
  BY <1>10, OwnershipMove DEF SupersedePrevious, Goto
<1>11. CASE SettleDeployment(r)
  BY <1>11, OwnershipMove DEF SettleDeployment, Goto
<1>12. CASE SettleContainer(r)
  BY <1>12, OwnershipMove DEF SettleContainer, Goto, Spend, TypeOK, TaskTypes, Events
<1>13. CASE BuildImage(r)
  BY <1>13, OwnershipMove, OwnershipFail DEF BuildImage, Goto
<1>14. CASE LaunchContainer(r)
  BY <1>14, OwnershipMove, OwnershipFail DEF LaunchContainer, Goto
<1>15. CASE RunFails(r)
  BY <1>15, OwnershipMove, OwnershipFail DEF RunFails, Goto
<1>16. CASE SwapService(r)
  BY <1>16, OwnershipSwapService
<1>17. CASE SettleService(r)
  <2>1. svc'.current = svc.current
    BY <1>17 DEF SettleService, TypeOK, StoredTypes, Services
  <2> QED
    BY <1>17, <2>1, OwnershipMove DEF SettleService, Goto
<1>18. CASE Finish(r)
  BY <1>18, OwnershipUnregister DEF Finish
<1>19. CASE Close(r)
  BY <1>19, OwnershipUnregister DEF Close
<1> QED
  BY <1>1, <1>2, <1>3, <1>4, <1>5, <1>6, <1>7, <1>8, <1>9, <1>10, <1>11, <1>12, <1>13, <1>14, <1>15, <1>16, <1>17, <1>18, <1>19 DEF RunStep

\* Sweeps, stops, starts, deletes and background tasks register no run and move none.
LEMMA OwnershipBystander ==
  ASSUME TypeOK, OwnershipInv, UNCHANGED <<active, pc, nextDep>>, left'["db"] = 0,
         svc'.current \in {0, svc.current},
         \A r \in Runs : run'[r].dep = run[r].dep /\ run'[r].inserted = run[r].inserted
  PROVE  OwnershipInv'
<1>1. RegistrationHasOwner'
  BY DEF OwnershipInv, RegistrationHasOwner
<1>2. \A r \in Runs : Mine(r)' = Mine(r)
  BY DEF Mine
<1> QED
  BY <1>1, <1>2, OwnershipKept

LEMMA OwnershipSweep ==
  ASSUME TypeOK, OwnershipInv, NEW s \in Sweepers, SweepService(s)
  PROVE  OwnershipInv'
<1>1. UNCHANGED <<active, pc, run, nextDep>>
  BY DEF SweepService, SweepStopped, SweepIdle, SweepInspect, SweepRelaunch, SweepKick,
         SweepWrite, db
<1>2. left'["db"] = 0
  BY DEF SweepService, SweepStopped, SweepIdle, SweepInspect, SweepRelaunch, SweepKick,
         SweepWrite, db, Spend, OwnershipInv, TypeOK, TaskTypes, Events
<1>3. svc'.current = svc.current
  BY DEF SweepService, SweepStopped, SweepIdle, SweepInspect, SweepRelaunch, SweepKick,
         SweepWrite, db, TypeOK, StoredTypes, Services
<1> QED
  BY <1>1, <1>2, <1>3, OwnershipBystander

LEMMA OwnershipNext ==
  ASSUME TypeOK, OwnershipInv, Next
  PROVE  OwnershipInv'
<1> USE DEF OwnershipInv
<1>1. ASSUME NEW r \in Runs, NEW manual, NEW image, BeginStart(r, manual, image)
      PROVE  OwnershipInv'
  <2>1. RegistrationHasOwner'
    BY <1>1 DEF BeginStart, RegistrationHasOwner
  <2>2. "read" \in Pcs /\ "read" \notin Holding /\ "read" \notin Unserved
    BY DEF Pcs, Holding, Unserved, Pipeline, BeforeSwap, Swapping, Settling
  <2>3. \A s \in Runs : s # r => run'[s].dep = run[s].dep /\ run'[s].inserted = run[s].inserted
    BY <1>1 DEF BeginStart, TypeOK, RunTypes
  <2> QED
    BY <1>1, <2>1, <2>2, <2>3, OwnershipOneRun DEF BeginStart, Goto, db
<1>2. ASSUME NEW r \in Runs, Deploy(r) \/ Rollback(r)
      PROVE  OwnershipInv'
  BY <1>1, <1>2 DEF Deploy, Rollback
<1>3. ASSUME NEW r \in Runs, DbFault(r)
      PROVE  OwnershipInv'
  BY <1>3 DEF DbFault, Spend
<1>4. CASE Cancel
  <2>1. \A s \in Runs : run'[s].dep = run[s].dep /\ run'[s].inserted = run[s].inserted
    BY <1>4 DEF Cancel, TypeOK, RunTypes, Locals
  <2> QED
    BY <1>4, <2>1, OwnershipBystander DEF Cancel, db
<1>5. CASE StopRead \/ StopWrite \/ StartRead \/ StartWrite
  <2>1. svc'.current = svc.current /\ left'["db"] = 0
    BY <1>5 DEF StopRead, StopWrite, StartRead, StartWrite, Spend, Events, TypeOK,
           StoredTypes, TaskTypes, Services, db
  <2> QED
    BY <1>5, <2>1, OwnershipBystander DEF StopRead, StopWrite, StartRead, StartWrite, db
<1>6. ASSUME NEW s \in Sweepers, SweepService(s)
      PROVE  OwnershipInv'
  BY <1>6, OwnershipSweep
<1>7. CASE TimerTick \/ SweepSelect \/ SweepServices
  BY <1>7, OwnershipBystander DEF TimerTick, SweepSelect, SweepServices, db
<1>8. ASSUME NEW d \in Deps, SweepFailRow(d)
      PROVE  OwnershipInv'
  BY <1>8, OwnershipBystander DEF SweepFailRow
<1>9. CASE SweepGate
  <2>1. left'["db"] = 0
    BY <1>9 DEF SweepGate, Spend, Events, TypeOK, TaskTypes
  <2> QED
    BY <1>9, <2>1, OwnershipBystander DEF SweepGate, db
<1>10. ASSUME NEW d \in Deps,
              DeleteRead(d) \/ RetireContainer(d) \/ PruneImages(d) \/ LoseContainer(d)
       PROVE  OwnershipInv'
  <2>1. left'["db"] = 0
    BY <1>10 DEF DeleteRead, RetireContainer, PruneImages, LoseContainer, Spend, Events,
           TypeOK, TaskTypes
  <2> QED
    BY <1>10, <2>1, OwnershipBystander
    DEF DeleteRead, RetireContainer, PruneImages, LoseContainer, db
<1>11. CASE DeleteContainer \/ DeleteRow
  <2>1. svc'.current \in {0, svc.current}
    BY <1>11 DEF DeleteContainer, DeleteRow, TypeOK, StoredTypes, Services, db
  <2> QED
    BY <1>11, <2>1, OwnershipBystander DEF DeleteContainer, DeleteRow, db
<1>12. CASE Crash
  <2>1. \A r \in Runs : pc'[r] \notin Holding /\ pc'[r] \notin Unserved
    BY <1>12 DEF Crash, Holding, Unserved, Pipeline, BeforeSwap, Swapping, Settling
  <2>2. RegistrationHasOwner' /\ left'["db"] = 0
    BY <1>12 DEF Crash, RegistrationHasOwner, Spend, Events, TypeOK, TaskTypes
  <2> QED
    BY <1>12, <2>1, <2>2, OwnershipKept DEF Crash, db
<1>13. CASE Restart \/ Listen
  BY <1>13, OwnershipBystander DEF Restart, Listen, db
<1> QED
  BY <1>2, <1>3, <1>4, <1>5, <1>6, <1>7, <1>8, <1>9, <1>10, <1>11, <1>12, <1>13,
     OwnershipRunStep
  DEF Next, StartStep, TimerStep, Sweepers

\* With no database fault in the budget, from any number of concurrent callers,
\* crashes, sweeps, cancellations, stops and deletes.
THEOREM OwnershipInvariant ==
  ASSUME \A b \in Budgets : b["db"] = 0
  PROVE  Spec => []OwnershipInv
<1>1. Init => OwnershipInv
  <2> SUFFICES ASSUME Init PROVE OwnershipInv
    OBVIOUS
  <2>1. \A r \in Runs : pc[r] \notin Holding /\ pc[r] \notin Unserved
    BY DEF Init, Holding, Unserved, Pipeline, BeforeSwap, Swapping, Settling
  <2> QED
    BY <2>1 DEF Init, OwnershipInv, RegistrationHasOwner
<1>2. TypeOK /\ OwnershipInv /\ [Next]_vars => OwnershipInv'
  <2> SUFFICES ASSUME TypeOK, OwnershipInv, [Next]_vars PROVE OwnershipInv'
    OBVIOUS
  <2>1. CASE UNCHANGED vars
    BY <2>1, OwnershipBystander DEF vars, db, OwnershipInv
  <2> QED
    BY <2>1, OwnershipNext
<1> QED
  BY <1>1, <1>2, TypeCorrect, PTL DEF Spec

\* "A failed build or release never touches the serving container" (head comment of
\* deployments.js): the run settleFailure cleans up after is never the release that
\* serves, however many callers got past the 409 test together.
THEOREM FallbackIsStructural ==
  ASSUME \A b \in Budgets : b["db"] = 0
  PROVE  Spec => []FailingRunNeverServes
<1>1. TypeOK /\ OwnershipInv => FailingRunNeverServes
  BY DEF OwnershipInv, FailingRunNeverServes, Mine, Unserved, Settling
<1> QED
  BY <1>1, TypeCorrect, OwnershipInvariant, PTL

\* activeRuns never keeps an entry whose run is over, so 409 is never permanent.
THEOREM NoLeakedRegistration ==
  ASSUME \A b \in Budgets : b["db"] = 0
  PROVE  Spec => []RegistrationHasOwner
<1>1. OwnershipInv => RegistrationHasOwner
  BY DEF OwnershipInv
<1> QED
  BY <1>1, OwnershipInvariant, PTL

(* ------------------------- who writes which row ----------------------- *)

\* A run writes the row of its own deployment, and at the swap the previous one's.
RunWrites(r, d) ==
  \/ /\ pc[r] \in Unswapped \ {"mark"} /\ d = run[r].dep
     /\ row'[d].status \in InFlight \cup {"live"}
  \/ pc[r] = "settleDep" /\ d = run[r].dep
  \/ pc[r] = "swapPrev" /\ d = run[r].prev /\ row'[d].status \in {"none", "superseded"}
  \/ pc[r] = "insert" /\ d = nextDep /\ row'[d].status = "queued"

\* The row an UPDATE of one id leaves: only that row changes, and a missing one stays so.
LEMMA SetStatusRow ==
  ASSUME TypeOK, NEW d, NEW st, SetStatus(d, st), NEW e \in Deps
  PROVE  /\ e # d => row'[e] = row[e]
         /\ e = d => row'[e].status = IF row[e].status = "none" THEN "none" ELSE st
         /\ row[e].status = "none" => row'[e].status = "none"
BY DEF SetStatus, TypeOK, StoredTypes

LEMMA RunStepRows ==
  ASSUME TypeOK, NEW r \in Runs, RunStep(r), NEW d \in Deps
  PROVE  \/ row'[d].status = row[d].status
         \/ row[d].status # "none" /\ RunWrites(r, d)
         \/ pc[r] = "insert" /\ RunWrites(r, d) /\ nextDep' = nextDep + 1
<1>1. CASE InsertRow(r)
  BY <1>1 DEF InsertRow, RunWrites, TypeOK, StoredTypes
<1>2. CASE UseStoredImage(r) \/ MarkBuilding(r)
  BY <1>2 DEF UseStoredImage, MarkBuilding, RunWrites, TypeOK, StoredTypes, Unswapped, Candidate,
     BeforeSwap, InFlight
<1>3. CASE MarkReleasing(r) \/ SwapDeployment(r)
  BY <1>3, SetStatusRow DEF MarkReleasing, SwapDeployment, RunWrites, Unswapped, Candidate,
     BeforeSwap, InFlight
<1>4. CASE SupersedePrevious(r)
  BY <1>4, SetStatusRow DEF SupersedePrevious, RunWrites
<1>5. CASE SettleDeployment(r)
  BY <1>5, SetStatusRow DEF SettleDeployment, RunWrites
<1>6. CASE \/ ReadService(r) \/ MarkDeploying(r) \/ ReadFresh(r) \/ ResolveRef(r) \/ BuildImage(r)
           \/ LaunchContainer(r) \/ StartProbe(r) \/ Healthy(r) \/ RunFails(r) \/ SwapService(r)
           \/ Finish(r) \/ SettleService(r) \/ SettleContainer(r) \/ Close(r)
  BY <1>6 DEF ReadService, MarkDeploying, ReadFresh, ResolveRef, BuildImage, LaunchContainer,
     StartProbe, Healthy, RunFails, SwapService, Finish, SettleService, SettleContainer, Close, db
<1> QED
  BY <1>1, <1>2, <1>3, <1>4, <1>5, <1>6 DEF RunStep

\* What any other step does to a row's status: the sweep fails it, a delete removes it.
LEMMA OtherRows ==
  ASSUME TypeOK, Next, \A r \in Runs : ~RunStep(r), NEW d \in Deps
  PROVE  \/ row'[d].status = row[d].status
         \/ row[d].status # "none" /\ row'[d].status = "failed"
         \/ row'[d].status = "none"
<1>1. ASSUME NEW r \in Runs, Deploy(r) \/ Rollback(r) \/ DbFault(r)
      PROVE  row' = row
  BY <1>1 DEF Deploy, Rollback, BeginStart, DbFault, db
<1>2. CASE Cancel \/ StopRead \/ StopWrite \/ StartRead \/ StartWrite
  BY <1>2 DEF Cancel, StopRead, StopWrite, StartRead, StartWrite, db
<1>3. ASSUME NEW s \in Sweepers, SweepService(s)
      PROVE  row' = row
  BY <1>3 DEF SweepService, SweepStopped, SweepIdle, SweepInspect, SweepRelaunch, SweepKick,
     SweepWrite, db
<1>4. CASE TimerTick \/ SweepSelect \/ SweepServices \/ SweepGate
  BY <1>4 DEF TimerTick, SweepSelect, SweepServices, SweepGate, db
<1>5. ASSUME NEW e \in Deps, SweepFailRow(e)
      PROVE  \/ row'[d].status = row[d].status
             \/ row[d].status # "none" /\ row'[d].status = "failed"
  BY <1>5, SetStatusRow DEF SweepFailRow
<1>6. ASSUME NEW e \in Deps,
             DeleteRead(e) \/ RetireContainer(e) \/ PruneImages(e) \/ LoseContainer(e)
      PROVE  row' = row
  BY <1>6 DEF DeleteRead, RetireContainer, PruneImages, LoseContainer, db
<1>7. CASE DeleteRow
  BY <1>7 DEF DeleteRow, NoRow, TypeOK, StoredTypes
<1>8. CASE DeleteContainer \/ Crash \/ Restart \/ Listen
  BY <1>8 DEF DeleteContainer, Crash, Restart, Listen, db
<1> QED
  BY <1>1, <1>2, <1>3, <1>4, <1>5, <1>6, <1>7, <1>8 DEF Next, StartStep, TimerStep, Sweepers

LEMMA RowWriters ==
  ASSUME TypeOK, [Next]_vars, NEW d \in Deps
  PROVE  \/ row'[d].status \in {row[d].status, "none"}
         \/ row[d].status # "none" /\ row'[d].status = "failed"
         \/ \E r \in Runs : /\ RunStep(r) /\ RunWrites(r, d)
                            /\ (row[d].status # "none" \/ (pc[r] = "insert" /\ nextDep' = nextDep + 1))
<1>1. CASE UNCHANGED vars
  BY <1>1 DEF vars, db
<1>2. ASSUME Next, \A r \in Runs : ~RunStep(r)
      PROVE  \/ row'[d].status \in {row[d].status, "none"}
             \/ row[d].status # "none" /\ row'[d].status = "failed"
  BY <1>2, OtherRows
<1>3. ASSUME NEW r \in Runs, RunStep(r)
      PROVE  \/ row'[d].status = row[d].status
             \/ /\ RunWrites(r, d)
                /\ \/ row[d].status # "none"
                   \/ pc[r] = "insert" /\ nextDep' = nextDep + 1
  BY <1>3, RunStepRows
<1>4. CASE \A r \in Runs : ~RunStep(r)
  BY <1>1, <1>2, <1>4
<1>5. CASE \E r \in Runs : RunStep(r)
  <2>1. PICK r \in Runs : RunStep(r)
    BY <1>5
  <2> QED
    BY <1>3, <2>1
<1> QED
  BY <1>4, <1>5

(* ---------------------- a row has one run at most --------------------- *)

LEMMA CandidateHolds == Unswapped \subseteq Candidate /\ Candidate \subseteq Holding
BY DEF Unswapped, Candidate, Holding, Pipeline, Swapping

\* Every id given out is below the sequence, which only grows.
LEMMA NextDepGrows ==
  ASSUME TypeOK, [Next]_vars
  PROVE  nextDep' \in {nextDep, nextDep + 1}
<1>1. CASE UNCHANGED vars
  BY <1>1 DEF vars, db
<1>2. ASSUME NEW r \in Runs, RunStep(r) PROVE nextDep' \in {nextDep, nextDep + 1}
  BY <1>2 DEF RunStep, ReadService, InsertRow, MarkDeploying, ReadFresh, UseStoredImage,
     ResolveRef, MarkBuilding, BuildImage, MarkReleasing, LaunchContainer, StartProbe,
     Healthy, RunFails, SwapDeployment, SwapService, SupersedePrevious, Finish,
     SettleDeployment, SettleService, SettleContainer, Close, db
<1>3. ASSUME NEW s \in Sweepers, SweepService(s) PROVE nextDep' = nextDep
  BY <1>3 DEF SweepService, SweepStopped, SweepIdle, SweepInspect, SweepRelaunch, SweepKick,
     SweepWrite, db
<1>4. ASSUME NEW r \in Runs, Deploy(r) \/ Rollback(r) \/ DbFault(r) PROVE nextDep' = nextDep
  BY <1>4 DEF Deploy, Rollback, BeginStart, DbFault, db
<1>5. CASE \/ Cancel \/ StopRead \/ StopWrite \/ StartRead \/ StartWrite
           \/ TimerTick \/ SweepSelect \/ SweepServices \/ SweepGate
           \/ DeleteContainer \/ DeleteRow \/ Crash \/ Restart \/ Listen
  BY <1>5 DEF Cancel, StopRead, StopWrite, StartRead, StartWrite, TimerTick, SweepSelect,
     SweepServices, SweepGate, DeleteContainer, DeleteRow, Crash, Restart, Listen, db
<1>6. ASSUME NEW d \in Deps,
             \/ SweepFailRow(d) \/ DeleteRead(d) \/ RetireContainer(d) \/ PruneImages(d)
             \/ LoseContainer(d)
      PROVE  nextDep' = nextDep
  BY <1>6 DEF SweepFailRow, DeleteRead, RetireContainer, PruneImages, LoseContainer, db
<1> QED
  BY <1>1, <1>2, <1>3, <1>4, <1>5, <1>6 DEF Next, StartStep, TimerStep, Sweepers

\* What a step does to the rows: none appears beyond the sequence, and no row that a
\* run has still to make 'live' is closed by anyone else.
LEMMA RowsTurn ==
  ASSUME TypeOK, TurnInv, [Next]_vars, NEW d \in Deps
  PROVE  /\ d >= nextDep' => row'[d].status = "none"
         /\ \A r \in Runs :
              pc[r] \in Unswapped /\ Mine(r) = d
                /\ row'[d].status \in {"cancelled", "superseded"} =>
                row[d].status = row'[d].status
<1>1. d >= nextDep' => row[d].status = "none"
  <2>1. nextDep \in Int /\ nextDep' \in {nextDep, nextDep + 1} /\ d \in Int
    BY NextDepGrows DEF TypeOK, StoredTypes, Deps
  <2>2. d >= nextDep' => d >= nextDep
    BY <2>1
  <2> QED
    BY <2>2 DEF TurnInv
<1>2. nextDep' = nextDep + 1 => ~(nextDep >= nextDep')
  BY DEF TypeOK, StoredTypes
<1>3. CASE row'[d].status \in {row[d].status, "none"}
  BY <1>1, <1>3
<1>4. CASE row[d].status # "none" /\ row'[d].status = "failed"
  BY <1>1, <1>4
<1>5. ASSUME NEW q \in Runs, RunWrites(q, d),
             \/ row[d].status # "none"
             \/ pc[q] = "insert" /\ nextDep' = nextDep + 1
      PROVE  /\ d >= nextDep' => row'[d].status = "none"
             /\ \A r \in Runs :
                  pc[r] \in Unswapped /\ Mine(r) = d
                    /\ row'[d].status \in {"cancelled", "superseded"} =>
                    row[d].status = row'[d].status
  <2>1. d >= nextDep' => row'[d].status = "none"
    BY <1>1, <1>2, <1>5 DEF RunWrites, Unswapped, Candidate, BeforeSwap
  <2>2. ASSUME NEW r \in Runs, pc[r] \in Unswapped, Mine(r) = d,
               row'[d].status \in {"cancelled", "superseded"}
        PROVE  FALSE
    <3>1. pc[r] \in Holding /\ pc[r] \in Candidate
      BY <2>2, CandidateHolds
    <3>2. CASE pc[q] = "settleDep" /\ d = run[q].dep
      <4>1. pc[q] \in Holding /\ Mine(q) = d /\ q # r
        BY <2>2, <3>2 DEF Holding, Pipeline, Settling, Mine, Unswapped, Candidate, BeforeSwap
      <4> QED
        BY <2>2, <3>1, <4>1 DEF TurnInv
    <3>3. CASE pc[q] = "swapPrev" /\ d = run[q].prev
      BY <2>2, <3>1, <3>3 DEF TurnInv
    <3> QED
      BY <1>5, <2>2, <3>2, <3>3 DEF RunWrites, InFlight
  <2>3. \A r \in Runs :
          pc[r] \in Unswapped /\ Mine(r) = d
            /\ row'[d].status \in {"cancelled", "superseded"} =>
            row[d].status = row'[d].status
    BY <2>2
  <2> QED
    BY <2>1, <2>3
<1>6. CASE \E q \in Runs : /\ RunStep(q) /\ RunWrites(q, d)
                            /\ (row[d].status # "none" \/ (pc[q] = "insert" /\ nextDep' = nextDep + 1))
  BY <1>5, <1>6
<1> QED
  BY <1>3, <1>4, <1>6, RowWriters

\* What a step must leave alone for TurnInv to survive it.
LEMMA TurnKept ==
  ASSUME TypeOK, TurnInv, [Next]_vars, nextDep' = nextDep, svc'.current \in {0, svc.current},
         \A r \in Runs : run'[r].prev \in {0, run[r].prev},
         \A r \in Runs : pc'[r] \in Holding => pc[r] \in Holding /\ Mine(r)' = Mine(r),
         \A r \in Runs : pc'[r] \in Candidate => pc[r] \in Candidate,
         \A r \in Runs : pc'[r] \in Unswapped => pc[r] \in Unswapped
  PROVE  TurnInv'
<1>1. \A r \in Runs : pc[r] \in Holding => Mine(r) \in Deps
  BY MineIsDeployment
<1>2. 0 \notin Deps /\ 0 < nextDep
  BY ConstantsAssumption DEF Deps, TypeOK, StoredTypes
<1>3. svc'.current < nextDep' /\ \A r \in Runs : run'[r].prev < nextDep'
  BY <1>2 DEF TurnInv
<1>4. \A d \in Deps : d >= nextDep' => row'[d].status = "none"
  BY RowsTurn
<1>5. /\ \A r \in Runs : pc'[r] \in Holding => Mine(r)' < nextDep'
      /\ \A r, s \in Runs :
           pc'[r] \in Holding /\ pc'[s] \in Holding /\ r # s => Mine(r)' # Mine(s)'
  BY DEF TurnInv
<1>6. ASSUME NEW r \in Runs, pc'[r] \in Candidate
      PROVE  Mine(r)' # svc'.current /\ \A s \in Runs : Mine(r)' # run'[s].prev
  <2>1. pc[r] \in Candidate /\ Mine(r)' = Mine(r) /\ Mine(r) \in Deps
    BY <1>1, <1>6, CandidateHolds
  <2> QED
    BY <1>2, <2>1 DEF TurnInv
<1>7. ASSUME NEW r \in Runs, pc'[r] \in Unswapped
      PROVE  row'[Mine(r)'].status \notin {"cancelled", "superseded"}
  <2>1. pc[r] \in Unswapped /\ Mine(r)' = Mine(r) /\ Mine(r) \in Deps
    BY <1>1, <1>7, CandidateHolds
  <2> QED
    BY <2>1, RowsTurn DEF TurnInv
<1> QED
  BY <1>3, <1>4, <1>5, <1>6, <1>7 DEF TurnInv

\* A run that moves on, or that ends.
LEMMA TurnOneRun ==
  ASSUME TypeOK, TurnInv, [Next]_vars, NEW r \in Runs, NEW to \in Pcs,
         pc' = [pc EXCEPT ![r] = to], nextDep' = nextDep, svc'.current = svc.current,
         \A s \in Runs : s # r => /\ run'[s].dep = run[s].dep
                                  /\ run'[s].inserted = run[s].inserted
                                  /\ run'[s].prev = run[s].prev,
         run'[r].prev \in {0, run[r].prev},
         to \in Holding => pc[r] \in Holding /\ Mine(r)' = Mine(r),
         to \in Candidate => pc[r] \in Candidate,
         to \in Unswapped => pc[r] \in Unswapped
  PROVE  TurnInv'
<1>1. \A s \in Runs : s # r => pc'[s] = pc[s] /\ Mine(s)' = Mine(s)
  BY DEF TypeOK, RunTypes, Mine
<1>2. pc'[r] = to
  BY DEF TypeOK, RunTypes
<1> QED
  BY <1>1, <1>2, TurnKept

LEMMA TurnMove ==
  ASSUME TypeOK, TurnInv, [Next]_vars, NEW r \in Runs, NEW to \in Pipeline,
         pc[r] \in Pipeline, pc' = [pc EXCEPT ![r] = to], nextDep' = nextDep,
         svc'.current = svc.current,
         \A s \in Runs : /\ run'[s].dep = run[s].dep
                         /\ run'[s].inserted = run[s].inserted
                         /\ run'[s].prev = run[s].prev,
         to \in Candidate => pc[r] \in Candidate,
         to \in Unswapped => pc[r] \in Unswapped
  PROVE  TurnInv'
<1>1. to \in Pcs /\ to # "mark" /\ pc[r] # "mark"
  BY DEF Pcs, Registered, Pipeline, BeforeSwap, Swapping, Settling
<1>2. Mine(r)' = Mine(r)
  BY <1>1 DEF Mine, TypeOK, RunTypes
<1> QED
  BY <1>1, <1>2, TurnOneRun DEF Holding

LEMMA TurnFail ==
  ASSUME TypeOK, TurnInv, [Next]_vars, NEW r \in Runs, pc[r] \in Pipeline, Fail(r),
         UNCHANGED <<nextDep, svc>>
  PROVE  TurnInv'
<1>1. \A s \in Runs : /\ run'[s].dep = run[s].dep /\ run'[s].inserted = run[s].inserted
                      /\ run'[s].prev = run[s].prev
  BY DEF Fail, TypeOK, RunTypes, Locals
<1>2. "settleDep" \in Pipeline /\ "settleDep" \notin Candidate /\ "settleDep" \notin Unswapped
  BY DEF Pipeline, Settling, Candidate, Unswapped, BeforeSwap
<1> QED
  BY <1>1, <1>2, TurnMove DEF Fail

\* A run that begins or ends holds nothing and remembers nothing.
LEMMA TurnClear ==
  ASSUME TypeOK, TurnInv, [Next]_vars, NEW r \in Runs, NEW to \in {"idle", "read", "insert"},
         pc' = [pc EXCEPT ![r] = to], UNCHANGED <<nextDep, svc>>,
         \A s \in Runs : s # r => run'[s] = run[s],
         run'[r].prev \in {0, run[r].prev}
  PROVE  TurnInv'
<1>1. to \in Pcs /\ to \notin Holding /\ to \notin Candidate /\ to \notin Unswapped
  BY DEF Pcs, Registered, RegisteringPcs, Holding, Candidate, Unswapped, Pipeline, BeforeSwap,
     Swapping, Settling
<1> QED
  BY <1>1, TurnOneRun

LEMMA TurnUnregister ==
  ASSUME TypeOK, TurnInv, [Next]_vars, NEW r \in Runs, Unregister(r), UNCHANGED <<nextDep, svc>>
  PROVE  TurnInv'
<1>1. run'[r].prev = 0 /\ \A s \in Runs : s # r => run'[s] = run[s]
  BY DEF Unregister, NoLocals, TypeOK, RunTypes
<1> QED
  BY <1>1, TurnClear DEF Unregister

LEMMA TurnInsert ==
  ASSUME TypeOK, TurnInv, [Next]_vars, NEW r \in Runs, InsertRow(r)
  PROVE  TurnInv'
<1>1. nextDep' = nextDep + 1 /\ nextDep \in Int /\ svc' = svc
  BY DEF InsertRow, TypeOK, StoredTypes
<1>2. nextDep \in Deps /\ row'[nextDep].status = "queued"
  BY ConstantsAssumption DEF InsertRow, TypeOK, StoredTypes, Deps
<1>3. Mine(r)' = nextDep /\ pc'[r] = "mark"
  BY DEF InsertRow, Goto, Mine, TypeOK, RunTypes, Locals
<1>4. \A s \in Runs : s # r => pc'[s] = pc[s] /\ Mine(s)' = Mine(s)
  BY DEF InsertRow, Goto, Mine, TypeOK, RunTypes
<1>5. \A s \in Runs : run'[s].prev = run[s].prev /\ run[s].prev \in Int
  BY DEF InsertRow, TypeOK, RunTypes, Locals, DepRef
<1>6. svc.current \in Int /\ \A s \in Runs : pc[s] \in Holding => Mine(s) \in Deps
  BY MineIsDeployment DEF TypeOK, StoredTypes, Services, DepRef
<1>7. svc'.current < nextDep' /\ \A s \in Runs : run'[s].prev < nextDep'
  BY <1>1, <1>5, <1>6 DEF TurnInv
<1>8. \A d \in Deps : d >= nextDep' => row'[d].status = "none"
  BY RowsTurn
<1>9. \A s \in Runs : pc'[s] \in Holding => Mine(s)' < nextDep'
  BY <1>1, <1>3, <1>4, <1>6 DEF TurnInv, Deps
<1>10. \A s, t \in Runs :
         pc'[s] \in Holding /\ pc'[t] \in Holding /\ s # t => Mine(s)' # Mine(t)'
  BY <1>1, <1>3, <1>4, <1>6 DEF TurnInv, Deps
<1>11. ASSUME NEW q \in Runs, pc'[q] \in Candidate
       PROVE  Mine(q)' # svc'.current /\ \A s \in Runs : Mine(q)' # run'[s].prev
  BY <1>1, <1>3, <1>4, <1>5, <1>6, <1>11 DEF TurnInv
<1>12. ASSUME NEW q \in Runs, pc'[q] \in Unswapped
       PROVE  row'[Mine(q)'].status \notin {"cancelled", "superseded"}
  <2>1. CASE q = r
    BY <1>2, <1>3, <2>1
  <2>2. CASE q # r
    <3>1. pc[q] \in Unswapped /\ Mine(q)' = Mine(q) /\ Mine(q) \in Deps
      BY <1>4, <1>6, <1>12, <2>2, CandidateHolds
    <3> QED
      BY <3>1, RowsTurn DEF TurnInv
  <2> QED
    BY <2>1, <2>2
<1> QED
  BY <1>7, <1>8, <1>9, <1>10, <1>11, <1>12 DEF TurnInv

LEMMA TurnRegister ==
  ASSUME TypeOK, TurnInv, [Next]_vars, NEW r \in Runs, ReadService(r) \/ MarkDeploying(r)
  PROVE  TurnInv'
<1>1. CASE ReadService(r)
  <2>1. \A s \in Runs : s # r => run'[s] = run[s]
    BY <1>1 DEF ReadService, TypeOK, RunTypes
  <2>2. run'[r].prev \in {0, run[r].prev}
    BY <1>1 DEF ReadService, NoLocals, TypeOK, RunTypes, Locals
  <2>3. pc' = [pc EXCEPT ![r] = "idle"] \/ pc' = [pc EXCEPT ![r] = "insert"]
    BY <1>1 DEF ReadService, Goto
  <2>4. UNCHANGED <<nextDep, svc>>
    BY <1>1 DEF ReadService, db
  <2> QED
    BY <2>1, <2>2, <2>3, <2>4, TurnClear
<1>2. CASE MarkDeploying(r)
  <2>1. pc' = [pc EXCEPT ![r] = "fresh"] /\ svc'.current = svc.current /\ nextDep' = nextDep
    BY <1>2 DEF MarkDeploying, Goto, TypeOK, StoredTypes, Services
  <2>2. Mine(r)' = Mine(r) /\ pc[r] \in Holding /\ pc[r] \in Candidate /\ pc[r] \in Unswapped
    BY <1>2 DEF MarkDeploying, Goto, Mine, Holding, Candidate, Unswapped, TypeOK, RunTypes, Locals
  <2>3. \A s \in Runs : /\ s # r => run'[s] = run[s]
                        /\ run'[s].prev = run[s].prev
    BY <1>2 DEF MarkDeploying, TypeOK, RunTypes, Locals
  <2>4. "fresh" \in Pcs
    BY DEF Pcs, Registered, Pipeline, BeforeSwap
  <2> QED
    BY <2>1, <2>2, <2>3, <2>4, TurnOneRun
<1> QED
  BY <1>1, <1>2

\* The release read as the previous one is the one serving, which no candidate holds.
LEMMA TurnFresh ==
  ASSUME TypeOK, TurnInv, [Next]_vars, NEW r \in Runs, ReadFresh(r)
  PROVE  TurnInv'
<1>1. /\ pc'[r] \in {"adoptImage", "resolve"} /\ pc[r] = "fresh"
      /\ UNCHANGED <<nextDep, svc, row>>
  BY DEF ReadFresh, Goto, db, TypeOK, RunTypes
<1>2. run'[r].prev = svc.current /\ Mine(r)' = Mine(r)
  BY <1>1 DEF ReadFresh, Mine, TypeOK, RunTypes, Locals
<1>3. \A s \in Runs : s # r => pc'[s] = pc[s] /\ Mine(s)' = Mine(s) /\ run'[s].prev = run[s].prev
  BY DEF ReadFresh, Goto, Mine, TypeOK, RunTypes
<1>4. pc[r] \in Holding /\ pc[r] \in Candidate /\ pc[r] \in Unswapped
  BY <1>1 DEF Holding, Candidate, Unswapped, Pipeline, BeforeSwap
<1>5. \A s \in Runs : /\ Mine(s)' = Mine(s)
                      /\ pc'[s] \in Holding => pc[s] \in Holding
                      /\ pc'[s] \in Candidate => pc[s] \in Candidate
                      /\ pc'[s] \in Unswapped => pc[s] \in Unswapped
                      /\ run'[s].prev \in {svc.current, run[s].prev}
  BY <1>2, <1>3, <1>4
<1> QED
  BY <1>1, <1>5 DEF TurnInv

LEMMA TurnSwapService ==
  ASSUME TypeOK, TurnInv, [Next]_vars, NEW r \in Runs, SwapService(r)
  PROVE  TurnInv'
<1>1. CASE row[run[r].dep].status = "none"
  BY <1>1, TurnFail DEF SwapService, Pipeline, Swapping
<1>2. CASE row[run[r].dep].status # "none"
  <2>1. UNCHANGED <<run, nextDep, row>> /\ svc'.current = run[r].dep
    BY <1>2 DEF SwapService, TypeOK, StoredTypes, Services
  <2>2. pc[r] = "swapSvc" /\ pc[r] \in Holding /\ Mine(r) = run[r].dep
    BY DEF SwapService, Mine, Holding, Pipeline, Swapping
  <2>3. pc'[r] \in {"swapPrev", "finish"} /\ \A s \in Runs : s # r => pc'[s] = pc[s]
    BY <1>2 DEF SwapService, Goto, TypeOK, RunTypes
  <2>4. pc'[r] \notin Candidate /\ pc'[r] \notin Unswapped
    BY <2>3 DEF Candidate, Unswapped, BeforeSwap
  <2>5. \A s \in Runs : /\ Mine(s)' = Mine(s)
                        /\ pc'[s] \in Holding => pc[s] \in Holding
                        /\ pc'[s] \in Candidate => pc[s] \in Candidate /\ s # r
                        /\ pc'[s] \in Unswapped => pc[s] \in Unswapped
    BY <2>1, <2>2, <2>3, <2>4 DEF Mine
  <2>6. \A s \in Runs : pc'[s] \in Candidate => Mine(s)' # svc'.current
    BY <2>1, <2>2, <2>5, CandidateHolds DEF TurnInv
  <2>7. svc'.current < nextDep'
    BY <2>1, <2>2 DEF TurnInv
  <2> QED
    BY <2>1, <2>5, <2>6, <2>7 DEF TurnInv
<1> QED
  BY <1>1, <1>2

LEMMA TurnRunStep ==
  ASSUME TypeOK, TurnInv, [Next]_vars, NEW r \in Runs, RunStep(r)
  PROVE  TurnInv'
<1> USE DEF Pipeline, BeforeSwap, Swapping, Settling, Candidate, Unswapped, db
<1>1. CASE ReadService(r) \/ InsertRow(r) \/ MarkDeploying(r) \/ ReadFresh(r)
  BY <1>1, TurnRegister, TurnInsert, TurnFresh
<1>2. CASE UseStoredImage(r) \/ ResolveRef(r)
  BY <1>2, TurnMove DEF UseStoredImage, ResolveRef, Goto
<1>3. CASE MarkBuilding(r) \/ MarkReleasing(r)
  BY <1>3, TurnMove DEF MarkBuilding, MarkReleasing, Goto
<1>4. CASE StartProbe(r) \/ Healthy(r)
  BY <1>4, TurnMove DEF StartProbe, Healthy, Goto
<1>5. CASE SwapDeployment(r)
  BY <1>5, TurnMove DEF SwapDeployment, Goto
<1>6. CASE SupersedePrevious(r)
  BY <1>6, TurnMove DEF SupersedePrevious, Goto
<1>7. CASE SettleDeployment(r)
  BY <1>7, TurnMove DEF SettleDeployment, Goto
<1>8. CASE SettleContainer(r)
  BY <1>8, TurnMove DEF SettleContainer, Goto
<1>9. CASE BuildImage(r)
  BY <1>9, TurnMove, TurnFail DEF BuildImage, Goto
<1>10. CASE LaunchContainer(r)
  BY <1>10, TurnMove, TurnFail DEF LaunchContainer, Goto
<1>11. CASE RunFails(r)
  BY <1>11, TurnFail DEF RunFails
<1>12. CASE SwapService(r)
  BY <1>12, TurnSwapService
<1>13. CASE SettleService(r)
  <2>1. svc'.current = svc.current
    BY <1>13 DEF SettleService, TypeOK, StoredTypes, Services
  <2> QED
    BY <1>13, <2>1, TurnMove DEF SettleService, Goto
<1>14. CASE Finish(r) \/ Close(r)
  BY <1>14, TurnUnregister DEF Finish, Close
<1> QED
  BY <1>1, <1>2, <1>3, <1>4, <1>5, <1>6, <1>7, <1>8, <1>9, <1>10, <1>11, <1>12, <1>13, <1>14
  DEF RunStep

\* Sweeps, stops, starts, deletes and background tasks move no run.
LEMMA TurnBystander ==
  ASSUME TypeOK, TurnInv, [Next]_vars, UNCHANGED <<pc, nextDep>>,
         svc'.current \in {0, svc.current},
         \A r \in Runs : /\ run'[r].dep = run[r].dep /\ run'[r].inserted = run[r].inserted
                         /\ run'[r].prev = run[r].prev
  PROVE  TurnInv'
<1>1. \A r \in Runs : Mine(r)' = Mine(r)
  BY DEF Mine
<1> QED
  BY <1>1, TurnKept

LEMMA TurnNext ==
  ASSUME TypeOK, TurnInv, [Next]_vars
  PROVE  TurnInv'
<1>1. CASE UNCHANGED vars
  BY <1>1, TurnBystander DEF vars, db
<1>2. ASSUME NEW r \in Runs, NEW manual, NEW image, BeginStart(r, manual, image)
      PROVE  TurnInv'
  <2>1. run'[r].prev = 0 /\ \A s \in Runs : s # r => run'[s] = run[s]
    BY <1>2 DEF BeginStart, NoLocals, TypeOK, RunTypes
  <2> QED
    BY <1>2, <2>1, TurnClear DEF BeginStart, Goto, db
<1>3. ASSUME NEW r \in Runs, Deploy(r) \/ Rollback(r)
      PROVE  TurnInv'
  BY <1>2, <1>3 DEF Deploy, Rollback
<1>4. ASSUME NEW r \in Runs, RunStep(r)
      PROVE  TurnInv'
  BY <1>4, TurnRunStep
<1>5. ASSUME NEW r \in Runs, DbFault(r)
      PROVE  TurnInv'
  <2>1. UNCHANGED <<nextDep, svc>>
    BY <1>5 DEF DbFault, db
  <2>2. ASSUME Goto(r, "idle"), NEW known \in {run[r].dep, run[r].inserted},
               run' = [run EXCEPT ![r] = [NoLocals EXCEPT !.dep = known]]
        PROVE  TurnInv'
    <3>1. run'[r].prev = 0 /\ \A s \in Runs : s # r => run'[s] = run[s]
      BY <2>2 DEF NoLocals, TypeOK, RunTypes
    <3> QED
      BY <2>1, <2>2, <3>1, TurnClear DEF Goto
  <2>3. CASE Fail(r) /\ pc[r] \in {"adoptImage", "markBuild", "markRelease", "swapDep",
                                  "swapSvc", "swapPrev"}
    BY <2>1, <2>3, TurnFail DEF Pipeline, BeforeSwap, Swapping
  <2>4. CASE pc[r] \in {"settleDep", "settleSvc"} /\ Goto(r, "close") /\ UNCHANGED run
    BY <2>1, <2>4, TurnMove
    DEF Goto, Pipeline, Settling, BeforeSwap, Swapping, Candidate, Unswapped
  <2> QED
    BY <1>5, <2>2, <2>3, <2>4 DEF DbFault
<1>6. CASE Cancel
  <2>1. \A r \in Runs : /\ run'[r].dep = run[r].dep /\ run'[r].inserted = run[r].inserted
                        /\ run'[r].prev = run[r].prev
    BY <1>6 DEF Cancel, TypeOK, RunTypes, Locals
  <2> QED
    BY <1>6, <2>1, TurnBystander DEF Cancel, db
<1>7. CASE StopRead \/ StopWrite \/ StartRead \/ StartWrite
  <2>1. svc'.current = svc.current
    BY <1>7 DEF StopRead, StopWrite, StartRead, StartWrite, TypeOK, StoredTypes, Services, db
  <2> QED
    BY <1>7, <2>1, TurnBystander DEF StopRead, StopWrite, StartRead, StartWrite, db
<1>8. ASSUME NEW s \in Sweepers, SweepService(s)
      PROVE  TurnInv'
  <2>1. UNCHANGED <<pc, run, nextDep>> /\ svc'.current = svc.current
    BY <1>8 DEF SweepService, SweepStopped, SweepIdle, SweepInspect, SweepRelaunch, SweepKick,
       SweepWrite, db, TypeOK, StoredTypes, Services
  <2> QED
    BY <2>1, TurnBystander
<1>9. CASE TimerTick \/ SweepSelect \/ SweepServices \/ SweepGate
  BY <1>9, TurnBystander DEF TimerTick, SweepSelect, SweepServices, SweepGate, db
<1>10. ASSUME NEW d \in Deps,
              \/ SweepFailRow(d) \/ DeleteRead(d) \/ RetireContainer(d) \/ PruneImages(d)
              \/ LoseContainer(d)
       PROVE  TurnInv'
  BY <1>10, TurnBystander
  DEF SweepFailRow, DeleteRead, RetireContainer, PruneImages, LoseContainer, db
<1>11. CASE DeleteContainer \/ DeleteRow
  <2>1. svc'.current \in {0, svc.current}
    BY <1>11 DEF DeleteContainer, DeleteRow, TypeOK, StoredTypes, Services, db
  <2> QED
    BY <1>11, <2>1, TurnBystander DEF DeleteContainer, DeleteRow, db
<1>12. CASE Crash
  <2>1. \A r \in Runs : /\ pc'[r] \notin Holding /\ pc'[r] \notin Candidate
                        /\ pc'[r] \notin Unswapped /\ run'[r].prev = 0
    BY <1>12 DEF Crash, NoLocals, Holding, Candidate, Unswapped, Pipeline, BeforeSwap,
       Swapping, Settling
  <2> QED
    BY <1>12, <2>1, TurnKept DEF Crash, db
<1>13. CASE Restart \/ Listen
  BY <1>13, TurnBystander DEF Restart, Listen, db
<1> QED
  BY <1>1, <1>3, <1>4, <1>5, <1>6, <1>7, <1>8, <1>9, <1>10, <1>11, <1>12, <1>13
  DEF Next, StartStep, TimerStep, Sweepers

\* Every deployment row is advanced by one run at most, and neither the service nor any
\* run remembers a deployment that is still to have its turn: with any number of callers
\* past the 409 test, rejected queries, crashes, deletes and sweeps.
THEOREM TurnInvariant == Spec => []TurnInv
<1>1. Init => TurnInv
  <2> SUFFICES ASSUME Init PROVE TurnInv
    OBVIOUS
  <2>1. \A r \in Runs : /\ pc[r] \notin Holding /\ pc[r] \notin Candidate
                        /\ pc[r] \notin Unswapped /\ run[r].prev = 0
    BY DEF Init, NoLocals, Holding, Candidate, Unswapped, Pipeline, BeforeSwap, Swapping, Settling
  <2> QED
    BY <2>1 DEF Init, TurnInv, NoRow
<1>2. TypeOK /\ TurnInv /\ [Next]_vars => TurnInv'
  BY TurnNext
<1> QED
  BY <1>1, <1>2, TypeCorrect, PTL DEF Spec

\* A deployment that was cancelled or superseded is over whatever interleaves: no late
\* pipeline, rollback, restart or sweep brings its row back; one marked failed comes
\* back at the hands of its own run only.
THEOREM NothingRevives == Spec => NeverRevives
<1> DEFINE Kept(d) ==
      row'[d].status \in InFlight \cup {"live"} =>
        /\ row[d].status \notin {"cancelled", "superseded"}
        /\ row[d].status = "failed" =>
             \E r \in Runs : run[r].dep = d /\ pc[r] \in Pipeline
<1>1. TypeOK /\ TurnInv /\ [Next]_vars => \A d \in Deps : Kept(d)
  <2> SUFFICES ASSUME TypeOK, TurnInv, [Next]_vars, NEW d \in Deps,
                      row'[d].status \in InFlight \cup {"live"}
               PROVE  /\ row[d].status \notin {"cancelled", "superseded"}
                      /\ row[d].status = "failed" =>
                           \E r \in Runs : run[r].dep = d /\ pc[r] \in Pipeline
    OBVIOUS
  <2>1. CASE row'[d].status = row[d].status
    BY <2>1 DEF InFlight
  <2>2. ASSUME NEW r \in Runs, pc[r] \in Unswapped \ {"mark"}, d = run[r].dep
        PROVE  /\ row[d].status \notin {"cancelled", "superseded"}
               /\ pc[r] \in Pipeline
    BY <2>2 DEF TurnInv, Mine, Unswapped, Candidate, Pipeline, Swapping
  <2>3. ASSUME NEW r \in Runs, pc[r] = "settleDep", d = run[r].dep, RunStep(r)
        PROVE  row'[d].status \in {"none", "cancelled", "failed"}
    BY <2>3, SetStatusRow
    DEF RunStep, ReadService, InsertRow, MarkDeploying, ReadFresh, UseStoredImage,
        ResolveRef, MarkBuilding, BuildImage, MarkReleasing, LaunchContainer, StartProbe,
        Healthy, RunFails, SwapDeployment, SwapService, SupersedePrevious, Finish,
        SettleDeployment, SettleService, SettleContainer, Close, TypeOK, RunTypes, Locals
  <2>4. d = nextDep => row[d].status = "none"
    BY DEF TurnInv, Deps
  <2> QED
    BY <2>1, <2>2, <2>3, <2>4, RowWriters DEF RunWrites, InFlight
<1> QED
  BY <1>1, TypeCorrect, TurnInvariant, PTL DEF Spec, NeverRevives

(***************************************************************************)
(* The blue/green guarantee: as long as nobody stops or deletes, no        *)
(* container is lost and the database answers, the release the proxy       *)
(* routes to is running, for every number of concurrent callers,           *)
(* deployments, crashes and Docker faults.                                 *)
(***************************************************************************)

(* ------------------ nobody has stopped, deletes or kills --------------- *)

SameToggles == left'["toggle"] = left["toggle"]

\* Stops and starts are only ever used up.
ToggleInv == Budgets # {} /\ \A b \in Budgets : left["toggle"] <= b["toggle"]

LEMMA TogglesSpent ==
  ASSUME TypeOK, [Next]_vars
  PROVE  left'["toggle"] <= left["toggle"]
<1>1. left["toggle"] \in Int
  BY DEF TypeOK, TaskTypes, Events
<1>2. left' = left \/ \E e \in Events : left' = [left EXCEPT ![e] = @ - 1]
  <2>1. CASE UNCHANGED vars
    BY <2>1 DEF vars
  <2>2. ASSUME NEW r \in Runs, RunStep(r)
        PROVE  left' = left \/ Spend("docker")
    BY <2>2 DEF RunStep, ReadService, InsertRow, MarkDeploying, ReadFresh, UseStoredImage,
       ResolveRef, MarkBuilding, BuildImage, MarkReleasing, LaunchContainer, StartProbe,
       Healthy, RunFails, SwapDeployment, SwapService, SupersedePrevious, Finish,
       SettleDeployment, SettleService, SettleContainer, Close
  <2>3. ASSUME NEW s \in Sweepers, SweepService(s)
        PROVE  left' = left \/ Spend("docker")
    BY <2>3 DEF SweepService, SweepStopped, SweepIdle, SweepInspect, SweepRelaunch, SweepKick,
       SweepWrite
  <2>4. ASSUME NEW r \in Runs, Deploy(r) \/ Rollback(r) \/ DbFault(r)
        PROVE  left' = left \/ Spend("db")
    BY <2>4 DEF Deploy, Rollback, BeginStart, DbFault
  <2>5. CASE \/ Cancel \/ StopRead \/ StopWrite \/ StartRead \/ StartWrite
             \/ TimerTick \/ SweepSelect \/ SweepServices \/ SweepGate
             \/ DeleteContainer \/ DeleteRow \/ Crash \/ Restart \/ Listen
    BY <2>5 DEF Cancel, StopRead, StopWrite, StartRead, StartWrite, TimerTick, SweepSelect,
       SweepServices, SweepGate, DeleteContainer, DeleteRow, Crash, Restart, Listen, Spend, Events
  <2>6. ASSUME NEW d \in Deps,
               \/ SweepFailRow(d) \/ DeleteRead(d) \/ RetireContainer(d) \/ PruneImages(d)
               \/ LoseContainer(d)
        PROVE  left' = left \/ \E e \in Events : left' = [left EXCEPT ![e] = @ - 1]
    BY <2>6
    DEF SweepFailRow, DeleteRead, RetireContainer, PruneImages, LoseContainer, Spend, Events
  <2> QED
    BY <2>1, <2>2, <2>3, <2>4, <2>5, <2>6 DEF Next, StartStep, TimerStep, Sweepers, Spend, Events
<1> QED
  BY <1>1, <1>2 DEF TypeOK, TaskTypes, Events

\* No stopService or startService call has been made yet.
Untoggled == \E b \in Budgets : left["toggle"] = b["toggle"]

\* While nobody has called stopService or startService, the step is not such a call.
LEMMA UntoggledBefore ==
  ASSUME TypeOK, TypeOK', ToggleInv, [Next]_vars,
         \A b, c \in Budgets : b["toggle"] = c["toggle"]
  PROVE  ToggleInv' /\ (Untoggled' => Untoggled /\ SameToggles)
<1>1. left["toggle"] \in Int /\ left'["toggle"] \in Int
  BY DEF TypeOK, TaskTypes, Events
<1>2. \A b \in Budgets : b["toggle"] \in Int
  BY ConstantsAssumption DEF Events
<1>3. left'["toggle"] <= left["toggle"]
  BY TogglesSpent
<1> QED
  BY <1>1, <1>2, <1>3 DEF ToggleInv, Untoggled, SameToggles

LEMMA UndisturbedRunStep ==
  ASSUME TypeOK, Undisturbed, NEW r \in Runs, RunStep(r)
  PROVE  Undisturbed'
<1>1. svc'.desired = svc.desired
  BY DEF RunStep, ReadService, InsertRow, MarkDeploying, ReadFresh, UseStoredImage,
     ResolveRef, MarkBuilding, BuildImage, MarkReleasing, LaunchContainer, StartProbe,
     Healthy, RunFails, SwapDeployment, SwapService, SupersedePrevious, Finish,
     SettleDeployment, SettleService, SettleContainer, Close, db, TypeOK, StoredTypes, Services
<1>2. UNCHANGED <<sweep, stop, del>>
  BY DEF RunStep, ReadService, InsertRow, MarkDeploying, ReadFresh, UseStoredImage,
     ResolveRef, MarkBuilding, BuildImage, MarkReleasing, LaunchContainer, StartProbe,
     Healthy, RunFails, SwapDeployment, SwapService, SupersedePrevious, Finish,
     SettleDeployment, SettleService, SettleContainer, Close
<1>3. left' = left \/ left' = [left EXCEPT !["docker"] = @ - 1]
  BY DEF RunStep, ReadService, InsertRow, MarkDeploying, ReadFresh, UseStoredImage,
     ResolveRef, MarkBuilding, BuildImage, MarkReleasing, LaunchContainer, StartProbe,
     Healthy, RunFails, SwapDeployment, SwapService, SupersedePrevious, Finish,
     SettleDeployment, SettleService, SettleContainer, Close, Spend
<1> QED
  BY <1>1, <1>2, <1>3 DEF Undisturbed, TypeOK, TaskTypes, Events

LEMMA UndisturbedSweep ==
  ASSUME TypeOK, Undisturbed, TimerTick \/ TimerStep
  PROVE  Undisturbed'
<1> USE DEF Undisturbed
<1>1. sweep \in [Sweepers -> Sweeps] /\ "timer" \in Sweepers /\ "start" \in Sweepers
  BY DEF TypeOK, TaskTypes, Sweepers
<1>2. sweep'["start"] = sweep["start"]
  BY <1>1 DEF TimerTick, TimerStep, SweepSelect, SweepFailRow, SweepServices, SweepGate,
     SweepService, SweepStopped, SweepIdle, SweepInspect, SweepRelaunch, SweepKick,
     SweepWrite, Report, Done, Reconcile
<1>3. sweep'["timer"].desired = "running"
  <2>0. NoSweep.desired = "running"
    BY DEF NoSweep
  <2>1. CASE TimerTick \/ SweepGate
    <3>1. CASE TimerTick
      <4>1. sweep'["timer"] = [NoSweep EXCEPT !.pc = "select", !.owned = OwnedIds]
        BY <1>1, <3>1 DEF TimerTick
      <4> QED
        BY <4>1 DEF NoSweep
    <3>2. CASE SweepGate
      <4>1. sweep'["timer"] = NoSweep \/ sweep' = [sweep EXCEPT !["timer"].pc = "svc"]
        BY <1>1, <3>2 DEF SweepGate
      <4> QED
        BY <1>1, <2>0, <4>1 DEF Sweeps
    <3> QED
      BY <2>1, <3>1, <3>2
  <2>2. CASE SweepSelect
    BY <1>1, <2>2 DEF SweepSelect, Sweeps
  <2>3. ASSUME NEW d \in Deps, SweepFailRow(d)
        PROVE  sweep'["timer"].desired = "running"
    BY <1>1, <2>3 DEF SweepFailRow, Sweeps
  <2>4. CASE SweepServices
    BY <1>1, <2>4 DEF SweepServices, Snapshot, Sweeps
  <2>5. CASE SweepService("timer")
    <3>1. \/ Done("timer") \/ Report("timer", "stopped") \/ Report("timer", "idle")
          \/ Report("timer", "running") \/ Report("timer", "failed")
          \/ Reconcile("timer", "kick") \/ Reconcile("timer", "relaunch")
      BY <2>5 DEF SweepService, SweepStopped, SweepIdle, SweepInspect, SweepRelaunch,
         SweepKick, SweepWrite
    <3>2. ASSUME NEW st, Report("timer", st)
          PROVE  sweep'["timer"].desired = "running"
      <4>1. sweep'["timer"] = [NoSweep EXCEPT !.pc = "write", !.out = st]
        BY <1>1, <3>2 DEF Report
      <4> QED
        BY <4>1 DEF NoSweep
    <3>3. ASSUME NEW how, Reconcile("timer", how)
          PROVE  sweep'["timer"].desired = "running"
      <4>1. sweep'["timer"] = [NoSweep EXCEPT !.pc = how, !.current = sweep["timer"].current]
        BY <1>1, <3>3 DEF Reconcile
      <4> QED
        BY <4>1 DEF NoSweep
    <3> QED
      BY <1>1, <2>0, <3>1, <3>2, <3>3 DEF Done
  <2> QED
    BY <2>1, <2>2, <2>3, <2>4, <2>5 DEF TimerStep
<1>4. svc'.desired = svc.desired /\ UNCHANGED <<stop, del>>
  BY DEF TimerTick, TimerStep, SweepSelect, SweepFailRow, SweepServices, SweepGate,
     SweepService, SweepStopped, SweepIdle, SweepInspect, SweepRelaunch, SweepKick,
     SweepWrite, db, TypeOK, StoredTypes, Services
<1>5. left' = left \/ left' = [left EXCEPT !["docker"] = @ - 1]
  BY DEF TimerTick, TimerStep, SweepSelect, SweepFailRow, SweepServices, SweepGate,
     SweepService, SweepStopped, SweepIdle, SweepInspect, SweepRelaunch, SweepKick,
     SweepWrite, Spend
<1> QED
  BY <1>2, <1>3, <1>4, <1>5 DEF TypeOK, TaskTypes, Events

\* Under Undisturbed only these steps are left.
LEMMA UndisturbedSteps ==
  ASSUME TypeOK, OwnershipInv, Undisturbed, Next, SameToggles
  PROVE  \/ \E r \in Runs : Deploy(r) \/ Rollback(r) \/ RunStep(r)
         \/ Cancel \/ TimerTick \/ TimerStep
         \/ \E d \in Deps : RetireContainer(d) \/ PruneImages(d)
         \/ Crash \/ Restart \/ Listen
<1>1. ~StartStep
  BY DEF Undisturbed, StartStep, StartWrite, SweepService, SweepStopped, SweepIdle,
     SweepInspect, SweepRelaunch, SweepKick, SweepWrite
<1>2. ~StopRead /\ ~StopWrite /\ ~StartRead
  BY DEF Undisturbed, StopRead, StopWrite, StartRead, Spend, SameToggles, TypeOK, TaskTypes, Events
<1>3. ~DeleteContainer /\ ~DeleteRow
  BY DEF Undisturbed, DeleteContainer, DeleteRow
<1>4. \A d \in Deps : ~DeleteRead(d) /\ ~LoseContainer(d)
  BY DEF Undisturbed, DeleteRead, LoseContainer, Spend
<1>5. \A r \in Runs : ~DbFault(r)
  BY DEF OwnershipInv, DbFault, Spend
<1> QED
  BY <1>1, <1>2, <1>3, <1>4, <1>5 DEF Next

LEMMA UndisturbedNext ==
  ASSUME TypeOK, OwnershipInv, Undisturbed, Next, SameToggles
  PROVE  Undisturbed'
<1>1. ASSUME NEW r \in Runs, Deploy(r) \/ Rollback(r)
      PROVE  Undisturbed'
  BY <1>1 DEF Undisturbed, Deploy, Rollback, BeginStart, db
<1>2. ASSUME NEW r \in Runs, RunStep(r)
      PROVE  Undisturbed'
  BY <1>2, UndisturbedRunStep
<1>3. CASE Cancel
  BY <1>3 DEF Undisturbed, Cancel, db
<1>4. CASE TimerTick \/ TimerStep
  BY <1>4, UndisturbedSweep
<1>5. ASSUME NEW d \in Deps, RetireContainer(d) \/ PruneImages(d)
      PROVE  Undisturbed'
  BY <1>5 DEF Undisturbed, RetireContainer, PruneImages, Spend, db, TypeOK, TaskTypes, Events
<1>6. CASE Crash
  BY <1>6 DEF Undisturbed, Crash, Spend, db, NoCall, NoSweep, Sweepers, TypeOK, TaskTypes, Events
<1>7. CASE Restart \/ Listen
  BY <1>7 DEF Undisturbed, Restart, Listen, NoSweep, db, Sweepers, TypeOK, TaskTypes
<1> QED
  BY <1>1, <1>2, <1>3, <1>4, <1>5, <1>6, <1>7, UndisturbedSteps

(* ------------------- previous and retired deployments ----------------- *)

\* What a step must leave alone for RetireInv to survive it.
LEMMA RetireKept ==
  ASSUME TypeOK, OwnershipInv, RetireInv, nextDep' = nextDep, svc'.current = svc.current,
         retire' \subseteq retire,
         \A r \in Runs : run'[r].prev \in {0, run[r].prev},
         \A r \in Runs : pc'[r] \in Unserved => pc[r] \in Unserved /\ Mine(r)' = Mine(r),
         \A r \in Runs : pc'[r] \in {"swapPrev", "finish"} =>
                           run'[r].prev = 0 \/ pc[r] \in {"swapPrev", "finish"}
  PROVE  RetireInv'
<1>1. \A s \in Runs : pc[s] \in Unserved => Mine(s) \in Deps
  BY UnservedHolds, MineIsDeployment
<1>2. 0 \notin Deps /\ nextDep \in Int /\ 0 < nextDep
  BY ConstantsAssumption DEF Deps, TypeOK, StoredTypes
<1>3. ASSUME NEW r \in Runs
      PROVE  /\ run'[r].prev < nextDep'
             /\ \A s \in Runs : pc'[s] \in Unserved => Mine(s)' # run'[r].prev
             /\ pc'[r] \in {"swapPrev", "finish"} =>
                  run'[r].prev = 0 \/ run'[r].prev # svc'.current
  BY <1>1, <1>2 DEF RetireInv
<1>4. \A d \in retire' :
        /\ d < nextDep' /\ d # svc'.current
        /\ \A s \in Runs : pc'[s] \in Unserved => Mine(s)' # d
  BY DEF RetireInv
<1> QED
  BY <1>3, <1>4 DEF RetireInv

LEMMA RetireMove ==
  ASSUME TypeOK, OwnershipInv, RetireInv, NEW r \in Runs, NEW to \in Pipeline,
         pc[r] \in Pipeline, pc' = [pc EXCEPT ![r] = to],
         nextDep' = nextDep, svc'.current = svc.current, retire' \subseteq retire,
         \A s \in Runs : /\ run'[s].dep = run[s].dep /\ run'[s].inserted = run[s].inserted
                         /\ run'[s].prev = run[s].prev,
         to \in Unserved => pc[r] \in Unserved,
         to \in {"swapPrev", "finish"} => pc[r] \in {"swapPrev", "finish"}
  PROVE  RetireInv'
<1>1. pc'[r] = to /\ to # "mark" /\ pc[r] # "mark"
  BY DEF TypeOK, RunTypes, Pipeline, BeforeSwap, Swapping, Settling
<1>2. \A s \in Runs : s # r => pc'[s] = pc[s]
  BY DEF TypeOK, RunTypes
<1>3. \A s \in Runs : Mine(s)' = Mine(s)
  BY <1>1, <1>2 DEF Mine
<1> QED
  BY <1>1, <1>2, <1>3, RetireKept

LEMMA RetireFail ==
  ASSUME TypeOK, OwnershipInv, RetireInv, NEW r \in Runs, pc[r] \in Pipeline \cap Unserved,
         Fail(r), UNCHANGED <<nextDep, svc, retire>>
  PROVE  RetireInv'
<1>1. \A s \in Runs : /\ run'[s].dep = run[s].dep /\ run'[s].inserted = run[s].inserted
                      /\ run'[s].prev = run[s].prev
  BY DEF Fail, TypeOK, RunTypes, Locals
<1>2. "settleDep" \in Pipeline
  BY DEF Pipeline, Settling
<1> QED
  BY <1>1, <1>2, RetireMove DEF Fail

\* A run that begins or ends: it holds nothing and remembers nothing.
LEMMA RetireClear ==
  ASSUME TypeOK, OwnershipInv, RetireInv, NEW r \in Runs,
         pc'[r] \notin Holding, run'[r].prev = 0,
         \A s \in Runs : s # r => pc'[s] = pc[s] /\ run'[s] = run[s],
         UNCHANGED <<nextDep, svc, retire>>
  PROVE  RetireInv'
<1>1. \A s \in Runs : s # r => Mine(s)' = Mine(s)
  BY DEF Mine
<1>2. pc'[r] \notin Unserved /\ pc'[r] \notin {"swapPrev", "finish"}
  BY UnservedHolds DEF Holding, Pipeline, Swapping
<1> QED
  BY <1>1, <1>2, RetireKept

LEMMA RetireSwapService ==
  ASSUME TypeOK, OwnershipInv, RetireInv, NEW r \in Runs, SwapService(r)
  PROVE  RetireInv'
<1>1. CASE row[run[r].dep].status = "none"
  BY <1>1, RetireFail DEF SwapService, Pipeline, Swapping, Unserved, tasks
<1>2. CASE row[run[r].dep].status # "none"
  <2>1. UNCHANGED <<run, nextDep, retire>> /\ svc'.current = run[r].dep
    BY <1>2 DEF SwapService, tasks, TypeOK, StoredTypes, Services
  <2>2. pc[r] = "swapSvc" /\ pc[r] \in Unserved /\ Mine(r) = run[r].dep
    BY DEF SwapService, Mine, Unserved
  <2>3. pc'[r] \in {"swapPrev", "finish"} /\ \A s \in Runs : s # r => pc'[s] = pc[s]
    BY <1>2 DEF SwapService, Goto, TypeOK, RunTypes
  <2>4. \A s \in Runs : Mine(s)' = Mine(s)
    BY <2>1, <2>2, <2>3 DEF Mine
  <2>5. \A s \in Runs : pc'[s] \in Unserved => pc[s] \in Unserved
    BY <2>2, <2>3
  <2>6. \A s \in Runs : run[s].prev # run[r].dep
    BY <2>2 DEF RetireInv
  <2>7. \A d \in retire : d # run[r].dep
    BY <2>2 DEF RetireInv
  <2> QED
    BY <2>1, <2>4, <2>5, <2>6, <2>7 DEF RetireInv
<1> QED
  BY <1>1, <1>2

LEMMA RetireRegister ==
  ASSUME TypeOK, OwnershipInv, RetireInv, NEW r \in Runs,
         ReadService(r) \/ InsertRow(r) \/ MarkDeploying(r) \/ ReadFresh(r)
  PROVE  RetireInv'
<1>1. CASE ReadService(r)
  <2>1. \A s \in Runs : s # r => pc'[s] = pc[s] /\ run'[s] = run[s]
    BY <1>1 DEF ReadService, Goto, TypeOK, RunTypes
  <2>2. pc'[r] \in {"idle", "insert"} /\ run'[r].prev \in {0, run[r].prev}
    BY <1>1 DEF ReadService, Goto, NoLocals, TypeOK, RunTypes, Locals
  <2>3. pc'[r] \notin Unserved /\ pc'[r] \notin {"swapPrev", "finish"}
    BY <2>2 DEF Unserved, BeforeSwap, Settling
  <2>4. \A s \in Runs : s # r => Mine(s)' = Mine(s)
    BY <2>1 DEF Mine
  <2> QED
    BY <1>1, <2>1, <2>2, <2>3, <2>4, RetireKept DEF ReadService, db, tasks
<1>2. CASE InsertRow(r)
  <2>1. pc' = [pc EXCEPT ![r] = "mark"] /\ nextDep' = nextDep + 1 /\ UNCHANGED <<svc, retire>>
    BY <1>2 DEF InsertRow, Goto, tasks
  <2>2. Mine(r)' = nextDep /\ pc'[r] = "mark"
    BY <1>2 DEF InsertRow, Goto, Mine, TypeOK, RunTypes, Locals
  <2>3. \A s \in Runs : s # r => pc'[s] = pc[s] /\ Mine(s)' = Mine(s)
    BY <1>2 DEF InsertRow, Goto, Mine, TypeOK, RunTypes
  <2>4. \A s \in Runs : run'[s].prev = run[s].prev
    BY <1>2 DEF InsertRow, TypeOK, RunTypes, Locals
  <2>5. nextDep \in Int /\ \A s \in Runs : run[s].prev \in Int
    BY DEF TypeOK, StoredTypes, RunTypes, Locals, DepRef
  <2>6. \A d \in retire : d \in Int
    BY DEF TypeOK, TaskTypes, Deps
  <2>7. ASSUME NEW q \in Runs
        PROVE  /\ run'[q].prev < nextDep'
               /\ \A s \in Runs : pc'[s] \in Unserved => Mine(s)' # run'[q].prev
               /\ pc'[q] \in {"swapPrev", "finish"} =>
                    run'[q].prev = 0 \/ run'[q].prev # svc'.current
    BY <2>1, <2>2, <2>3, <2>4, <2>5 DEF RetireInv
  <2>8. \A d \in retire' :
          /\ d < nextDep' /\ d # svc'.current
          /\ \A s \in Runs : pc'[s] \in Unserved => Mine(s)' # d
    BY <2>1, <2>2, <2>3, <2>5, <2>6 DEF RetireInv
  <2> QED
    BY <2>7, <2>8 DEF RetireInv
<1>3. CASE MarkDeploying(r)
  <2>1. pc' = [pc EXCEPT ![r] = "fresh"] /\ svc'.current = svc.current /\ pc[r] \in Unserved
    BY <1>3 DEF MarkDeploying, Goto, Unserved, TypeOK, StoredTypes, Services
  <2>2. Mine(r)' = Mine(r)
    BY <1>3 DEF MarkDeploying, Goto, Mine, TypeOK, RunTypes, Locals
  <2>3. \A s \in Runs : s # r => pc'[s] = pc[s] /\ Mine(s)' = Mine(s)
    BY <1>3 DEF MarkDeploying, Goto, Mine, TypeOK, RunTypes
  <2>4. \A s \in Runs : run'[s].prev = run[s].prev
    BY <1>3 DEF MarkDeploying, TypeOK, RunTypes, Locals
  <2>5. pc'[r] = "fresh"
    BY <2>1 DEF TypeOK, RunTypes
  <2> QED
    BY <1>3, <2>1, <2>2, <2>3, <2>4, <2>5, RetireKept DEF MarkDeploying, tasks
<1>4. CASE ReadFresh(r)
  <2>1. /\ pc'[r] \in {"adoptImage", "resolve"} /\ pc[r] \in Unserved
        /\ UNCHANGED <<nextDep, svc, retire>>
    BY <1>4 DEF ReadFresh, Goto, Unserved, BeforeSwap, tasks, db, TypeOK, RunTypes
  <2>2. run'[r].prev = svc.current /\ Mine(r)' = Mine(r)
    BY <1>4, <2>1 DEF ReadFresh, Mine, TypeOK, RunTypes, Locals
  <2>3. \A s \in Runs : s # r => pc'[s] = pc[s] /\ Mine(s)' = Mine(s) /\ run'[s].prev = run[s].prev
    BY <1>4 DEF ReadFresh, Goto, Mine, TypeOK, RunTypes
  <2>4. \A s \in Runs : pc'[s] \in Unserved => pc[s] \in Unserved /\ Mine(s)' = Mine(s)
    BY <2>1, <2>2, <2>3
  <2>5. svc.current < nextDep /\ \A s \in Runs : pc[s] \in Unserved => Mine(s) # svc.current
    BY DEF OwnershipInv
  <2> QED
    BY <2>1, <2>2, <2>3, <2>4, <2>5 DEF RetireInv
<1> QED
  BY <1>1, <1>2, <1>3, <1>4

LEMMA RetireFinish ==
  ASSUME TypeOK, OwnershipInv, RetireInv, NEW r \in Runs, Finish(r)
  PROVE  RetireInv'
<1>1. run'[r].prev = 0 /\ pc'[r] = "idle" /\ UNCHANGED <<nextDep, svc>>
  BY DEF Finish, Unregister, NoLocals, db, TypeOK, RunTypes
<1>2. \A s \in Runs : s # r => pc'[s] = pc[s] /\ run'[s] = run[s]
  BY DEF Finish, Unregister, TypeOK, RunTypes
<1>3. \A s \in Runs : pc'[s] \in Unserved => pc[s] \in Unserved /\ Mine(s)' = Mine(s)
  BY <1>1, <1>2 DEF Mine, Unserved, BeforeSwap, Settling
<1>4. \A s \in Runs : pc[s] \in Unserved => Mine(s) # 0
  BY UnservedHolds, MineIsDeployment DEF Deps
<1>5. 0 < nextDep
  BY ConstantsAssumption DEF TypeOK, StoredTypes
<1>6. retire' \subseteq retire \cup {run[r].prev} /\ (run[r].prev = 0 => retire' \subseteq retire)
  BY DEF Finish
<1>7. pc[r] = "finish"
  BY DEF Finish
<1>8. \A d \in retire' :
        /\ d < nextDep' /\ d # svc'.current
        /\ \A s \in Runs : pc'[s] \in Unserved => Mine(s)' # d
  BY <1>1, <1>3, <1>6, <1>7 DEF RetireInv
<1>9. ASSUME NEW q \in Runs
      PROVE  /\ run'[q].prev < nextDep'
             /\ \A s \in Runs : pc'[s] \in Unserved => Mine(s)' # run'[q].prev
             /\ pc'[q] \in {"swapPrev", "finish"} =>
                  run'[q].prev = 0 \/ run'[q].prev # svc'.current
  BY <1>1, <1>2, <1>3, <1>4, <1>5 DEF RetireInv
<1> QED
  BY <1>8, <1>9 DEF RetireInv

LEMMA RetireRunStep ==
  ASSUME TypeOK, OwnershipInv, RetireInv, NEW r \in Runs, RunStep(r)
  PROVE  RetireInv'
<1> USE DEF Pipeline, BeforeSwap, Swapping, Settling, Unserved, db, tasks
<1>1. CASE ReadService(r) \/ InsertRow(r) \/ MarkDeploying(r) \/ ReadFresh(r)
  BY <1>1, RetireRegister
<1>2. CASE UseStoredImage(r)
  BY <1>2, RetireMove DEF UseStoredImage, Goto
<1>3. CASE ResolveRef(r)
  BY <1>3, RetireMove DEF ResolveRef, Goto
<1>4. CASE MarkBuilding(r)
  BY <1>4, RetireMove DEF MarkBuilding, Goto
<1>5. CASE MarkReleasing(r)
  BY <1>5, RetireMove DEF MarkReleasing, Goto
<1>6. CASE StartProbe(r)
  BY <1>6, RetireMove DEF StartProbe, Goto
<1>7. CASE Healthy(r)
  BY <1>7, RetireMove DEF Healthy, Goto
<1>8. CASE SwapDeployment(r)
  BY <1>8, RetireMove DEF SwapDeployment, Goto
<1>9. CASE SupersedePrevious(r)
  BY <1>9, RetireMove DEF SupersedePrevious, Goto
<1>10. CASE SettleDeployment(r)
  BY <1>10, RetireMove DEF SettleDeployment, Goto
<1>11. CASE SettleContainer(r)
  BY <1>11, RetireMove DEF SettleContainer, Goto
<1>12. CASE BuildImage(r)
  BY <1>12, RetireMove, RetireFail DEF BuildImage, Goto
<1>13. CASE LaunchContainer(r)
  BY <1>13, RetireMove, RetireFail DEF LaunchContainer, Goto
<1>14. CASE RunFails(r)
  BY <1>14, RetireFail DEF RunFails
<1>15. CASE SwapService(r)
  BY <1>15, RetireSwapService
<1>16. CASE SettleService(r)
  <2>1. svc'.current = svc.current
    BY <1>16 DEF SettleService, TypeOK, StoredTypes, Services
  <2> QED
    BY <1>16, <2>1, RetireMove DEF SettleService, Goto
<1>17. CASE Finish(r)
  BY <1>17, RetireFinish
<1>18. CASE Close(r)
  <2>1. pc'[r] = "idle" /\ run'[r].prev = 0
    BY <1>18 DEF Close, Unregister, NoLocals, TypeOK, RunTypes
  <2>2. \A s \in Runs : s # r => pc'[s] = pc[s] /\ run'[s] = run[s]
    BY <1>18 DEF Close, Unregister, TypeOK, RunTypes
  <2> QED
    BY <1>18, <2>1, <2>2, RetireClear DEF Close, Holding
<1> QED
  BY <1>1, <1>2, <1>3, <1>4, <1>5, <1>6, <1>7, <1>8, <1>9, <1>10, <1>11, <1>12, <1>13,
     <1>14, <1>15, <1>16, <1>17, <1>18 DEF RunStep

LEMMA RetireNext ==
  ASSUME TypeOK, OwnershipInv, Undisturbed, RetireInv, Next, SameToggles
  PROVE  RetireInv'
<1>1. ASSUME NEW r \in Runs, NEW manual, NEW image, BeginStart(r, manual, image)
      PROVE  RetireInv'
  <2>1. pc'[r] = "read" /\ run'[r].prev = 0
    BY <1>1 DEF BeginStart, Goto, NoLocals, TypeOK, RunTypes
  <2>2. \A s \in Runs : s # r => pc'[s] = pc[s] /\ run'[s] = run[s]
    BY <1>1 DEF BeginStart, Goto, TypeOK, RunTypes
  <2> QED
    BY <1>1, <2>1, <2>2, RetireClear
    DEF BeginStart, db, tasks, Holding, Pipeline, BeforeSwap, Swapping, Settling
<1>2. ASSUME NEW r \in Runs, Deploy(r) \/ Rollback(r)
      PROVE  RetireInv'
  BY <1>1, <1>2 DEF Deploy, Rollback
<1>3. ASSUME NEW r \in Runs, RunStep(r)
      PROVE  RetireInv'
  BY <1>3, RetireRunStep
<1>4. CASE Cancel
  <2>1. \A s \in Runs : /\ run'[s].dep = run[s].dep /\ run'[s].inserted = run[s].inserted
                        /\ run'[s].prev = run[s].prev
    BY <1>4 DEF Cancel, TypeOK, RunTypes, Locals
  <2>2. \A s \in Runs : Mine(s)' = Mine(s)
    BY <1>4, <2>1 DEF Cancel, Mine
  <2> QED
    BY <1>4, <2>1, <2>2, RetireKept DEF Cancel, db, tasks
<1>5. CASE TimerTick \/ TimerStep
  <2>1. UNCHANGED <<pc, run, nextDep, retire>> /\ svc'.current = svc.current
    BY <1>5 DEF TimerTick, TimerStep, SweepSelect, SweepFailRow, SweepServices, SweepGate,
       SweepService, SweepStopped, SweepIdle, SweepInspect, SweepRelaunch, SweepKick,
       SweepWrite, db, tasks, TypeOK, StoredTypes, Services
  <2>2. \A s \in Runs : Mine(s)' = Mine(s)
    BY <2>1 DEF Mine
  <2> QED
    BY <2>1, <2>2, RetireKept
<1>6. ASSUME NEW d \in Deps, RetireContainer(d) \/ PruneImages(d)
      PROVE  RetireInv'
  <2>1. \A s \in Runs : Mine(s)' = Mine(s)
    BY <1>6 DEF RetireContainer, PruneImages, Mine
  <2> QED
    BY <1>6, <2>1, RetireKept DEF RetireContainer, PruneImages, db
<1>7. CASE Crash
  <2>1. \A s \in Runs : pc'[s] = "idle" /\ run'[s].prev = 0
    BY <1>7 DEF Crash, NoLocals
  <2> QED
    BY <1>7, <2>1, RetireKept DEF Crash, db, Unserved, BeforeSwap, Settling
<1>8. CASE Restart \/ Listen
  <2>1. \A s \in Runs : Mine(s)' = Mine(s)
    BY <1>8 DEF Restart, Listen, Mine
  <2> QED
    BY <1>8, <2>1, RetireKept DEF Restart, Listen, db, tasks
<1> QED
  BY <1>2, <1>3, <1>4, <1>5, <1>6, <1>7, <1>8, UndisturbedSteps

(* ----------------------- containers that run -------------------------- *)

\* A running container keeps running unless it is retired, or removed by the run
\* that launched it.
LEMMA RunningPersists ==
  ASSUME TypeOK, OwnershipInv, Undisturbed, Next, SameToggles, NEW d \in Deps, ctr[d] = "running",
         d \notin retire,
         \A r \in Runs : pc[r] \in Settling => run[r].dep # d
  PROVE  ctr'[d] = "running"
<1>1. ctr \in [Deps -> {"none", "running", "exited"}]
  BY DEF TypeOK, StoredTypes
<1>2. ASSUME NEW r \in Runs, Deploy(r) \/ Rollback(r)
      PROVE  ctr'[d] = "running"
  BY <1>2 DEF Deploy, Rollback, BeginStart, docker
<1>3. ASSUME NEW r \in Runs, RunStep(r)
      PROVE  ctr'[d] = "running"
  <2>1. CASE LaunchContainer(r)
    BY <1>1, <2>1 DEF LaunchContainer
  <2>2. CASE SettleContainer(r)
    BY <1>1, <2>2 DEF SettleContainer, Settling
  <2>3. CASE ~LaunchContainer(r) /\ ~SettleContainer(r)
    BY <1>3, <2>3 DEF RunStep, ReadService, InsertRow, MarkDeploying, ReadFresh,
       UseStoredImage, ResolveRef, MarkBuilding, BuildImage, MarkReleasing, StartProbe,
       Healthy, RunFails, SwapDeployment, SwapService, SupersedePrevious, Finish,
       SettleDeployment, SettleService, Close, docker
  <2> QED
    BY <2>1, <2>2, <2>3
<1>4. CASE TimerTick \/ TimerStep
  <2>1. CASE SweepRelaunch("timer") \/ SweepKick("timer")
    BY <1>1, <2>1 DEF SweepRelaunch, SweepKick
  <2>2. CASE SweepStopped("timer")
    BY <2>2 DEF SweepStopped, Undisturbed
  <2> QED
    BY <1>4, <2>1, <2>2 DEF TimerTick, TimerStep, SweepSelect, SweepFailRow, SweepServices,
       SweepGate, SweepService, SweepIdle, SweepInspect, SweepWrite, docker
<1>5. ASSUME NEW e \in Deps, RetireContainer(e) \/ PruneImages(e)
      PROVE  ctr'[d] = "running"
  BY <1>1, <1>5 DEF RetireContainer, PruneImages, StopAndRemove
<1>6. CASE Cancel \/ Crash \/ Restart \/ Listen
  BY <1>6 DEF Cancel, Crash, Restart, Listen, docker
<1> QED
  BY <1>2, <1>3, <1>4, <1>5, <1>6, UndisturbedSteps

Probing == {"health", "probe", "swapDep", "swapSvc"}

\* A run enters the health loop with its container running, and only a run that
\* was in it stays in it.
LEMMA CandidateRunsNext ==
  ASSUME TypeOK, OwnershipInv, Undisturbed, RetireInv, CandidateRuns, Next, SameToggles
  PROVE  CandidateRuns'
<1> SUFFICES ASSUME NEW q \in Runs, pc'[q] \in Probing
             PROVE  ctr'[run'[q].dep] = "running"
  BY DEF CandidateRuns, Probing
<1>1. ASSUME pc[q] \in Probing, run'[q].dep = run[q].dep
      PROVE  ctr'[run'[q].dep] = "running"
  <2>1. pc[q] \in Holding /\ pc[q] \in Unserved /\ pc[q] \notin Settling /\ Mine(q) = run[q].dep
    BY <1>1 DEF Probing, Holding, Unserved, Pipeline, BeforeSwap, Swapping, Settling, Mine
  <2>2. run[q].dep \in Deps
    BY <2>1, MineIsDeployment
  <2>3. \A r \in Runs : pc[r] \in Settling => run[r].dep # run[q].dep
    <3> SUFFICES ASSUME NEW r \in Runs, pc[r] \in Settling
                 PROVE  run[r].dep # run[q].dep
      OBVIOUS
    <3>1. pc[r] \in Holding /\ Mine(r) = run[r].dep /\ r # q
      BY <2>1 DEF Holding, Pipeline, Settling, Mine
    <3> QED
      BY <2>1, <3>1 DEF OwnershipInv
  <2>4. run[q].dep \notin retire
    BY <2>1 DEF RetireInv
  <2>5. ctr[run[q].dep] = "running"
    BY <1>1 DEF CandidateRuns, Probing
  <2> QED
    BY <1>1, <2>2, <2>3, <2>4, <2>5, RunningPersists
<1>2. CASE LaunchContainer(q)
  BY <1>2 DEF LaunchContainer, Fail, Goto, Probing, TypeOK, RunTypes, StoredTypes, Pipeline, BeforeSwap
<1>3. ASSUME NEW r \in Runs, RunStep(r), ~LaunchContainer(q)
      PROVE  pc[q] \in Probing /\ run'[q].dep = run[q].dep
  <2> USE <1>3 DEF Probing, TypeOK, RunTypes, Locals
  <2>1. CASE r # q
    BY <2>1 DEF RunStep, ReadService, InsertRow, MarkDeploying, ReadFresh,
       UseStoredImage, ResolveRef, MarkBuilding, BuildImage, MarkReleasing, LaunchContainer,
       StartProbe, Healthy, RunFails, SwapDeployment, SwapService, SupersedePrevious, Finish,
       SettleDeployment, SettleService, SettleContainer, Close, Goto, Fail, Unregister
  <2>2. CASE r = q
    BY <2>2 DEF RunStep, ReadService, InsertRow, MarkDeploying, ReadFresh,
       UseStoredImage, ResolveRef, MarkBuilding, BuildImage, MarkReleasing,
       StartProbe, Healthy, RunFails, SwapDeployment, SwapService, SupersedePrevious, Finish,
       SettleDeployment, SettleService, SettleContainer, Close, Goto, Fail, Unregister
  <2> QED
    BY <2>1, <2>2
<1>4. ASSUME NEW r \in Runs, Deploy(r) \/ Rollback(r)
      PROVE  pc[q] \in Probing /\ run'[q].dep = run[q].dep
  BY <1>4 DEF Deploy, Rollback, BeginStart, Goto, Probing, TypeOK, RunTypes
<1>5. CASE Cancel
  BY <1>1, <1>5 DEF Cancel, TypeOK, RunTypes, Locals
<1>6. CASE TimerTick \/ TimerStep
  BY <1>1, <1>6 DEF TimerTick, TimerStep, SweepSelect, SweepFailRow, SweepServices, SweepGate,
       SweepService, SweepStopped, SweepIdle, SweepInspect, SweepRelaunch, SweepKick, SweepWrite
<1>7. ASSUME NEW e \in Deps, RetireContainer(e) \/ PruneImages(e)
      PROVE  ctr'[run'[q].dep] = "running"
  BY <1>1, <1>7 DEF RetireContainer, PruneImages
<1>8. CASE Crash
  BY <1>8 DEF Crash, Probing
<1>9. CASE Restart \/ Listen
  BY <1>1, <1>9 DEF Restart, Listen
<1> QED
  BY <1>1, <1>2, <1>3, <1>4, <1>5, <1>6, <1>7, <1>8, <1>9, UndisturbedSteps

\* Only SwapService changes the serving release.
LEMMA OnlySwapSwitches ==
  ASSUME TypeOK, BlueGreenInv, Next, SameToggles, \A r \in Runs : ~SwapService(r)
  PROVE  svc'.current = svc.current
<1> USE DEF TypeOK, StoredTypes, Services, db, BlueGreenInv
<1>1. ASSUME NEW r \in Runs, Deploy(r) \/ Rollback(r)
      PROVE  svc'.current = svc.current
  BY <1>1 DEF Deploy, Rollback, BeginStart
<1>2. ASSUME NEW r \in Runs, RunStep(r)
      PROVE  svc'.current = svc.current
  BY <1>2 DEF RunStep, ReadService, InsertRow, MarkDeploying, ReadFresh,
     UseStoredImage, ResolveRef, MarkBuilding, BuildImage, MarkReleasing, LaunchContainer,
     StartProbe, Healthy, RunFails, SwapDeployment, SupersedePrevious, Finish,
     SettleDeployment, SettleService, SettleContainer, Close
<1>3. CASE TimerTick \/ TimerStep
  BY <1>3 DEF TimerTick, TimerStep, SweepSelect, SweepFailRow, SweepServices, SweepGate,
     SweepService, SweepStopped, SweepIdle, SweepInspect, SweepRelaunch, SweepKick, SweepWrite
<1>4. ASSUME NEW e \in Deps, RetireContainer(e) \/ PruneImages(e)
      PROVE  svc'.current = svc.current
  BY <1>4 DEF RetireContainer, PruneImages
<1>5. CASE Cancel \/ Crash \/ Restart \/ Listen
  BY <1>5 DEF Cancel, Crash, Restart, Listen
<1> QED
  BY <1>1, <1>2, <1>3, <1>4, <1>5, UndisturbedSteps

LEMMA NeverDarkNext ==
  ASSUME TypeOK, BlueGreenInv, Next, SameToggles
  PROVE  NeverDark'
<1> USE DEF BlueGreenInv
<1>1. svc.current \in DepRef
  BY DEF TypeOK, StoredTypes, Services
<1>2. CASE svc'.current = svc.current
  <2> SUFFICES ASSUME svc.current # 0 PROVE ctr'[svc.current] = "running"
    BY <1>2 DEF NeverDark
  <2>1. svc.current \in Deps /\ ctr[svc.current] = "running"
    BY <1>1 DEF NeverDark, Deps, DepRef
  <2>2. svc.current \notin retire
    BY DEF RetireInv
  <2>3. \A r \in Runs : pc[r] \in Settling => run[r].dep # svc.current
    BY DEF OwnershipInv, Unserved, Settling, Mine
  <2> QED
    BY <2>1, <2>2, <2>3, RunningPersists
<1>3. ASSUME NEW r \in Runs, SwapService(r)
      PROVE  NeverDark'
  <2>1. CASE row[run[r].dep].status = "none"
    BY <1>2, <1>3, <2>1 DEF SwapService
  <2>2. CASE row[run[r].dep].status # "none"
    BY <1>3, <2>2 DEF SwapService, CandidateRuns, NeverDark, docker, TypeOK, StoredTypes, Services
  <2> QED
    BY <2>1, <2>2
<1>4. (\A r \in Runs : ~SwapService(r)) => svc'.current = svc.current
  BY OnlySwapSwitches
<1> QED
  BY <1>2, <1>3, <1>4

\* The inductive invariant of the blue/green swap, until somebody stops the service.
THEOREM BlueGreenInvariant ==
  ASSUME \A b \in Budgets, e \in {"db", "lose", "delete"} : b[e] = 0,
         \A b, c \in Budgets : b["toggle"] = c["toggle"]
  PROVE  Spec => [](ToggleInv /\ (Untoggled => BlueGreenInv))
<1> DEFINE Rest == Undisturbed /\ RetireInv /\ CandidateRuns /\ NeverDark
<1>1. Init => ToggleInv /\ (Untoggled => Rest)
  <2> SUFFICES ASSUME Init PROVE ToggleInv /\ Rest
    OBVIOUS
  <2>1. Undisturbed
    BY DEF Init, Undisturbed, NoCall, NoSweep, Sweepers
  <2>2. RetireInv
    BY DEF Init, RetireInv, NoLocals, Unserved, BeforeSwap, Settling
  <2>3. CandidateRuns /\ NeverDark
    BY DEF Init, CandidateRuns, NeverDark
  <2>4. ToggleInv
    <3>1. \A b \in Budgets : b["toggle"] \in Int
      BY ConstantsAssumption DEF Events
    <3> QED
      BY <3>1 DEF Init, ToggleInv
  <2> QED
    BY <2>1, <2>2, <2>3, <2>4
<1>2. TypeOK /\ BlueGreenInv /\ [Next]_vars /\ SameToggles => Rest'
  <2> SUFFICES ASSUME TypeOK, BlueGreenInv, [Next]_vars, SameToggles
               PROVE  Rest'
    OBVIOUS
  <2>1. CASE Next
    BY <2>1, UndisturbedNext, RetireNext, CandidateRunsNext, NeverDarkNext DEF BlueGreenInv
  <2>2. CASE UNCHANGED vars
    BY <2>2 DEF vars, db, docker, tasks, BlueGreenInv, Undisturbed, RetireInv, CandidateRuns,
       NeverDark, Mine
  <2> QED
    BY <2>1, <2>2
<1>3. OwnershipInv /\ Rest => BlueGreenInv
  BY DEF BlueGreenInv
<1>4. BlueGreenInv => Rest
  BY DEF BlueGreenInv
<1> HIDE DEF Rest
<1>5. TypeOK /\ TypeOK' /\ OwnershipInv /\ ToggleInv /\ (Untoggled => Rest) /\ [Next]_vars
        => (ToggleInv /\ (Untoggled => Rest))'
  <2> SUFFICES ASSUME TypeOK, TypeOK', OwnershipInv, ToggleInv, Untoggled => Rest, [Next]_vars
               PROVE  ToggleInv' /\ (Untoggled' => Rest')
    OBVIOUS
  <2>1. ToggleInv' /\ (Untoggled' => Untoggled /\ SameToggles)
    BY UntoggledBefore
  <2> QED
    BY <1>2, <1>3, <2>1
<1>6. Spec => []OwnershipInv
  BY OwnershipInvariant
<1> QED
  BY <1>1, <1>3, <1>5, <1>6, TypeCorrect, PTL DEF Spec

\* With no stop or start in any budget, none has ever been made.
LEMMA NeverToggled ==
  ASSUME \A b \in Budgets : b["toggle"] = 0
  PROVE  TypeOK /\ ToggleInv => Untoggled
<1> SUFFICES ASSUME TypeOK, ToggleInv PROVE Untoggled
  OBVIOUS
<1>1. PICK b \in Budgets : TRUE
  BY DEF ToggleInv
<1>2. left["toggle"] \in Nat /\ left["toggle"] <= 0
  BY <1>1 DEF TypeOK, TaskTypes, Events, ToggleInv
<1>3. left["toggle"] = b["toggle"]
  BY <1>1, <1>2
<1> QED
  BY <1>1, <1>3 DEF Untoggled

LEMMA BlueGreenAlways ==
  ASSUME \A b \in Budgets, e \in {"db", "toggle", "lose", "delete"} : b[e] = 0
  PROVE  Spec => [](ToggleInv /\ Untoggled /\ BlueGreenInv)
<1>1. TypeOK /\ ToggleInv => Untoggled
  BY NeverToggled
<1>2. Spec => [](ToggleInv /\ (Untoggled => BlueGreenInv))
  BY BlueGreenInvariant
<1> QED
  BY <1>1, <1>2, TypeCorrect, PTL

\* Zero downtime: the release the proxy routes to is running in every state, however
\* many deploys, rollbacks, cancellations, crashes, restarts and sweeps interleave.
THEOREM BlueGreen ==
  ASSUME \A b \in Budgets, e \in {"db", "toggle", "lose", "delete"} : b[e] = 0
  PROVE  Spec => []NeverDark
<1>1. BlueGreenInv => NeverDark
  BY DEF BlueGreenInv
<1> QED
  BY <1>1, BlueGreenAlways, PTL

\* Every step of the engine is a turnover of containers or a switch to a release that
\* runs already.
LEMMA ReleaseNext ==
  ASSUME TypeOK, BlueGreenInv, BlueGreenInv', TypeOK', [Next]_vars, SameToggles
  PROVE  [Release!Next]_(Release!vars)
<1> DEFINE Up == {d \in Deps : ctr[d] = "running"}
<1>1. svc.current \in DepRef
  BY DEF TypeOK, StoredTypes, Services
<1>2. svc.current # 0 => svc.current \in Up
  BY <1>1 DEF BlueGreenInv, NeverDark, Deps, DepRef
<1>3. CASE svc'.current = svc.current
  <2>1. svc'.current # 0 => svc'.current \in Up'
    BY <1>1, <1>3 DEF BlueGreenInv, NeverDark, Deps, DepRef
  <2>2. Release!Turnover
    BY <1>3, <2>1 DEF Release!Turnover
  <2> QED
    BY <2>2 DEF Release!Next
<1>4. CASE Next /\ svc'.current # svc.current
  <2>1. PICK r \in Runs : SwapService(r)
    BY <1>4, OnlySwapSwitches
  <2> DEFINE d == run[r].dep
  <2>2. UNCHANGED docker /\ svc'.current = d
    BY <1>4, <2>1 DEF SwapService, TypeOK, StoredTypes, Services
  <2>3. pc[r] = "swapSvc"
    BY <2>1 DEF SwapService
  <2>4. d \in Deps /\ ctr[d] = "running"
    BY <2>3 DEF BlueGreenInv, CandidateRuns, TypeOK, RunTypes, Pipeline, Swapping
  <2>5. Release!Switch(d)
    BY <1>2, <1>4, <2>2, <2>4 DEF Release!Switch, docker
  <2> QED
    BY <2>4, <2>5 DEF Release!Next
<1>5. CASE UNCHANGED vars
  BY <1>3, <1>5 DEF vars, db
<1> QED
  BY <1>3, <1>4, <1>5

\* The engine implements the release switch: for any number of callers, crashes, Docker
\* faults and sweeps, requests go from a running release to another running one.
THEOREM ReleaseRefinement ==
  ASSUME \A b \in Budgets, e \in {"db", "toggle", "lose", "delete"} : b[e] = 0
  PROVE  Spec => SwitchesReleases
<1>1. Init => Release!Init
  BY DEF Init, Release!Init
<1>2. TypeOK /\ (ToggleInv /\ Untoggled /\ BlueGreenInv) /\ TypeOK'
        /\ (ToggleInv /\ Untoggled /\ BlueGreenInv)' /\ [Next]_vars
        => [Release!Next]_(Release!vars)
  BY ReleaseNext, UntoggledBefore
<1> QED
  BY <1>1, <1>2, TypeCorrect, BlueGreenAlways, PTL DEF Spec, SwitchesReleases, Release!Spec

(* --------------------------- rows that stay --------------------------- *)

\* What a step does to one run: it moves within its pipeline, begins it with a row of its
\* own, or leaves it.
LEMMA RunStepHolds ==
  ASSUME TypeOK, NEW r \in Runs, RunStep(r), NEW s \in Runs
  PROVE  /\ pc'[s] \in Holding => (pc[s] \in Holding /\ Mine(s)' = Mine(s)) \/ InsertRow(s)
         /\ pc'[s] \in Settling => (pc[s] \in Settling /\ run'[s].out = run[s].out) \/ Fail(s)
<1> USE DEF Holding, Pipeline, BeforeSwap, Swapping, Settling
<1>1. CASE s # r
  <2>1. pc'[s] = pc[s] /\ run'[s] = run[s]
    BY <1>1 DEF TypeOK, RunTypes, RunStep, ReadService, InsertRow, MarkDeploying, ReadFresh,
       UseStoredImage, ResolveRef, MarkBuilding, BuildImage, MarkReleasing, LaunchContainer,
       StartProbe, Healthy, RunFails, SwapDeployment, SwapService, SupersedePrevious, Finish,
       SettleDeployment, SettleService, SettleContainer, Close, Goto, Fail, Unregister
  <2> QED
    BY <2>1 DEF Mine
<1>2. CASE s = r
  <2> USE <1>2 DEF Goto, Mine, TypeOK, RunTypes
  <2>1. CASE ReadService(r) \/ Finish(r) \/ Close(r)
    BY <2>1 DEF ReadService, Finish, Close, Unregister
  <2>2. CASE InsertRow(r)
    BY <2>2 DEF InsertRow
  <2>3. CASE MarkDeploying(r)
    BY <2>3 DEF MarkDeploying, Locals
  <2>4. CASE ReadFresh(r)
    BY <2>4 DEF ReadFresh, Locals
  <2>5. CASE \/ UseStoredImage(r) \/ ResolveRef(r) \/ MarkBuilding(r) \/ MarkReleasing(r)
             \/ StartProbe(r) \/ Healthy(r) \/ SwapDeployment(r) \/ SupersedePrevious(r)
             \/ SettleDeployment(r) \/ SettleService(r) \/ SettleContainer(r)
    BY <2>5 DEF UseStoredImage, ResolveRef, MarkBuilding, MarkReleasing, StartProbe, Healthy,
       SwapDeployment, SupersedePrevious, SettleDeployment, SettleService, SettleContainer
  <2>6. ASSUME Fail(r), pc[r] \in Pipeline
        PROVE  pc'[r] \in Holding /\ pc[r] \in Holding /\ Mine(r)' = Mine(r)
    BY <2>6 DEF Fail, Locals
  <2>7. CASE BuildImage(r) \/ LaunchContainer(r) \/ RunFails(r)
    BY <2>6, <2>7 DEF BuildImage, LaunchContainer, RunFails
  <2>8. CASE SwapService(r)
    BY <2>6, <2>8 DEF SwapService
  <2> QED
    BY <2>1, <2>2, <2>3, <2>4, <2>5, <2>7, <2>8 DEF RunStep
<1> QED
  BY <1>1, <1>2

LEMMA StepHolds ==
  ASSUME TypeOK, [Next]_vars, NEW s \in Runs
  PROVE  /\ pc'[s] \in Holding => (pc[s] \in Holding /\ Mine(s)' = Mine(s)) \/ InsertRow(s)
         /\ pc'[s] \in Settling => (pc[s] \in Settling /\ run'[s].out = run[s].out) \/ Fail(s)
<1>1. ASSUME UNCHANGED pc, run'[s].dep = run[s].dep, run'[s].inserted = run[s].inserted,
             run'[s].out = run[s].out
      PROVE  /\ pc'[s] \in Holding => pc[s] \in Holding /\ Mine(s)' = Mine(s)
             /\ pc'[s] \in Settling => pc[s] \in Settling /\ run'[s].out = run[s].out
  BY <1>1 DEF Mine
<1>2. CASE UNCHANGED vars
  BY <1>1, <1>2 DEF vars
<1>3. ASSUME NEW r \in Runs, RunStep(r)
      PROVE  /\ pc'[s] \in Holding => (pc[s] \in Holding /\ Mine(s)' = Mine(s)) \/ InsertRow(s)
             /\ pc'[s] \in Settling => (pc[s] \in Settling /\ run'[s].out = run[s].out) \/ Fail(s)
  BY <1>3, RunStepHolds
<1>4. ASSUME NEW r \in Runs, Deploy(r) \/ Rollback(r)
      PROVE  /\ pc'[s] \in Holding => pc[s] \in Holding /\ Mine(s)' = Mine(s)
             /\ pc'[s] \in Settling => pc[s] \in Settling /\ run'[s].out = run[s].out
  BY <1>4 DEF Deploy, Rollback, BeginStart, Goto, TypeOK, RunTypes, Mine, Holding, Pipeline,
     BeforeSwap, Swapping, Settling
<1>5. ASSUME NEW r \in Runs, DbFault(r)
      PROVE  /\ pc'[s] \in Holding => pc[s] \in Holding /\ Mine(s)' = Mine(s)
             /\ pc'[s] \in Settling => (pc[s] \in Settling /\ run'[s].out = run[s].out) \/ Fail(s)
  <2> USE DEF TypeOK, RunTypes, Mine, Holding, Pipeline, BeforeSwap, Swapping, Settling
  <2>1. CASE s # r
    BY <1>5, <2>1 DEF DbFault, Goto, Fail
  <2>2. CASE s = r
    <3>1. CASE Goto(r, "idle")
      BY <2>2, <3>1 DEF Goto
    <3>2. CASE Fail(r) /\ pc[r] \in {"adoptImage", "markBuild", "markRelease", "swapDep",
                                    "swapSvc", "swapPrev"}
      BY <2>2, <3>2 DEF Fail, Locals
    <3>3. CASE pc[r] \in {"settleDep", "settleSvc"} /\ Goto(r, "close") /\ UNCHANGED run
      BY <2>2, <3>3 DEF Goto
    <3> QED
      BY <1>5, <3>1, <3>2, <3>3 DEF DbFault
  <2> QED
    BY <2>1, <2>2
<1>6. CASE Cancel
  <2>1. /\ run'[s].dep = run[s].dep /\ run'[s].inserted = run[s].inserted
        /\ run'[s].out = run[s].out
    BY <1>6 DEF Cancel, TypeOK, RunTypes, Locals
  <2> QED
    BY <1>1, <1>6, <2>1 DEF Cancel
<1>7. ASSUME NEW q \in Sweepers, SweepService(q)
      PROVE  UNCHANGED <<pc, run>>
  BY <1>7 DEF SweepService, SweepStopped, SweepIdle, SweepInspect, SweepRelaunch, SweepKick,
     SweepWrite
<1>8. CASE \/ StopRead \/ StopWrite \/ StartRead \/ StartWrite \/ TimerTick \/ SweepSelect
           \/ SweepServices \/ SweepGate \/ DeleteContainer \/ DeleteRow \/ Restart \/ Listen
  BY <1>1, <1>8 DEF StopRead, StopWrite, StartRead, StartWrite, TimerTick, SweepSelect,
     SweepServices, SweepGate, DeleteContainer, DeleteRow, Restart, Listen
<1>9. ASSUME NEW d \in Deps,
             \/ SweepFailRow(d) \/ DeleteRead(d) \/ RetireContainer(d) \/ PruneImages(d)
             \/ LoseContainer(d)
      PROVE  UNCHANGED <<pc, run>>
  BY <1>9 DEF SweepFailRow, DeleteRead, RetireContainer, PruneImages, LoseContainer
<1>10. CASE Crash
  BY <1>10 DEF Crash, Holding, Pipeline, BeforeSwap, Swapping, Settling
<1> QED
  BY <1>1, <1>2, <1>3, <1>4, <1>5, <1>6, <1>7, <1>8, <1>9, <1>10
  DEF Next, StartStep, TimerStep, Sweepers

\* As nobody deletes, a row that exists stays.
LEMMA RowsStay ==
  ASSUME TypeOK, RowedInv, [Next]_vars, NEW d \in Deps, row[d].status # "none"
  PROVE  row'[d].status # "none"
<1>1. CASE row' = row
  BY <1>1
<1>2. ASSUME NEW r \in Runs, RunStep(r)
      PROVE  row'[d].status # "none"
  <2>1. CASE InsertRow(r) \/ UseStoredImage(r) \/ MarkBuilding(r)
    BY <2>1 DEF InsertRow, UseStoredImage, MarkBuilding, TypeOK, StoredTypes
  <2>2. CASE MarkReleasing(r) \/ SwapDeployment(r) \/ SupersedePrevious(r)
    BY <2>2, SetStatusRow DEF MarkReleasing, SwapDeployment, SupersedePrevious
  <2>3. CASE SettleDeployment(r)
    <3>1. run[r].out # "none"
      BY <2>3 DEF SettleDeployment, RowedInv, Settling
    <3> QED
      BY <2>3, <3>1, SetStatusRow DEF SettleDeployment
  <2> QED
    BY <1>1, <1>2, <2>1, <2>2, <2>3
    DEF RunStep, ReadService, MarkDeploying, ReadFresh, ResolveRef, BuildImage,
        LaunchContainer, StartProbe, Healthy, RunFails, SwapService, Finish, SettleService,
        SettleContainer, Close, db
<1>3. ASSUME Next, \A r \in Runs : ~RunStep(r)
      PROVE  row'[d].status # "none"
  <2>1. ~DeleteRow
    BY DEF RowedInv, DeleteRow
  <2>2. ASSUME NEW e \in Deps, SweepFailRow(e)
        PROVE  row'[d].status # "none"
    BY <2>2, SetStatusRow DEF SweepFailRow
  <2>3. ASSUME NEW r \in Runs, Deploy(r) \/ Rollback(r) \/ DbFault(r)
        PROVE  row' = row
    BY <2>3 DEF Deploy, Rollback, BeginStart, DbFault, db
  <2>4. ASSUME NEW s \in Sweepers, SweepService(s)
        PROVE  row' = row
    BY <2>4 DEF SweepService, SweepStopped, SweepIdle, SweepInspect, SweepRelaunch, SweepKick,
       SweepWrite, db
  <2>5. CASE \/ Cancel \/ StopRead \/ StopWrite \/ StartRead \/ StartWrite
             \/ TimerTick \/ SweepSelect \/ SweepServices \/ SweepGate
             \/ DeleteContainer \/ Crash \/ Restart \/ Listen
    BY <1>1, <2>5 DEF Cancel, StopRead, StopWrite, StartRead, StartWrite, TimerTick, SweepSelect,
       SweepServices, SweepGate, DeleteContainer, Crash, Restart, Listen, db
  <2>6. ASSUME NEW e \in Deps,
               DeleteRead(e) \/ RetireContainer(e) \/ PruneImages(e) \/ LoseContainer(e)
        PROVE  row' = row
    BY <2>6 DEF DeleteRead, RetireContainer, PruneImages, LoseContainer, db
  <2> QED
    BY <1>1, <1>3, <2>1, <2>2, <2>3, <2>4, <2>5, <2>6 DEF Next, StartStep, TimerStep, Sweepers
<1> QED
  BY <1>1, <1>2, <1>3 DEF vars, db

LEMMA RowedNext ==
  ASSUME TypeOK, RowedInv, [Next]_vars
  PROVE  RowedInv'
<1>1. del'.pc = "idle" /\ left'["delete"] = 0
  <2> USE DEF RowedInv, TypeOK, TaskTypes, Events
  <2>1. CASE UNCHANGED vars
    BY <2>1 DEF vars
  <2>2. ASSUME NEW r \in Runs, RunStep(r)
        PROVE  del'.pc = "idle" /\ left'["delete"] = 0
    <3>1. del' = del /\ (left' = left \/ left' = [left EXCEPT !["docker"] = @ - 1])
      BY <2>2 DEF RunStep, ReadService, InsertRow, MarkDeploying, ReadFresh, UseStoredImage,
         ResolveRef, MarkBuilding, BuildImage, MarkReleasing, LaunchContainer, StartProbe,
         Healthy, RunFails, SwapDeployment, SwapService, SupersedePrevious, Finish,
         SettleDeployment, SettleService, SettleContainer, Close, Spend
    <3> QED
      BY <3>1
  <2>3. ASSUME NEW s \in Sweepers, SweepService(s)
        PROVE  del'.pc = "idle" /\ left'["delete"] = 0
    <3>1. del' = del /\ (left' = left \/ left' = [left EXCEPT !["docker"] = @ - 1])
      BY <2>3 DEF SweepService, SweepStopped, SweepIdle, SweepInspect, SweepRelaunch, SweepKick,
         SweepWrite, Spend
    <3> QED
      BY <3>1
  <2>4. ASSUME NEW r \in Runs, Deploy(r) \/ Rollback(r) \/ DbFault(r)
        PROVE  del'.pc = "idle" /\ left'["delete"] = 0
    BY <2>4 DEF Deploy, Rollback, BeginStart, DbFault, Spend
  <2>5. CASE \/ Cancel \/ StopRead \/ StopWrite \/ StartRead \/ StartWrite
             \/ TimerTick \/ SweepSelect \/ SweepServices \/ SweepGate \/ Restart \/ Listen
    BY <2>5 DEF Cancel, StopRead, StopWrite, StartRead, StartWrite, TimerTick, SweepSelect,
       SweepServices, SweepGate, Restart, Listen, Spend
  <2>6. CASE Crash
    BY <2>6 DEF Crash, Spend, NoCall
  <2>7. ~DeleteContainer /\ ~DeleteRow /\ \A d \in Deps : ~DeleteRead(d)
    BY DEF DeleteContainer, DeleteRow, DeleteRead, Spend
  <2>8. ASSUME NEW d \in Deps,
               SweepFailRow(d) \/ RetireContainer(d) \/ PruneImages(d) \/ LoseContainer(d)
        PROVE  del'.pc = "idle" /\ left'["delete"] = 0
    BY <2>8 DEF SweepFailRow, RetireContainer, PruneImages, LoseContainer, Spend
  <2> QED
    BY <2>1, <2>2, <2>3, <2>4, <2>5, <2>6, <2>7, <2>8 DEF Next, StartStep, TimerStep, Sweepers
<1>2. ASSUME NEW s \in Runs, pc'[s] \in Holding
      PROVE  row'[Mine(s)'].status # "none"
  <2>1. CASE pc[s] \in Holding /\ Mine(s)' = Mine(s)
    <3>1. Mine(s) \in Deps /\ row[Mine(s)].status # "none"
      BY <2>1, MineIsDeployment DEF RowedInv
    <3> QED
      BY <2>1, <3>1, RowsStay
  <2>2. CASE InsertRow(s)
    <3>1. nextDep \in Deps
      BY <2>2 DEF InsertRow, TypeOK, StoredTypes, Deps
    <3>2. Mine(s)' = nextDep
      BY <2>2 DEF InsertRow, Goto, Mine, TypeOK, RunTypes, Locals
    <3> QED
      BY <2>2, <3>1, <3>2 DEF InsertRow, TypeOK, StoredTypes
  <2> QED
    BY <1>2, <2>1, <2>2, StepHolds
<1>3. ASSUME NEW s \in Runs, pc'[s] \in Settling
      PROVE  run'[s].out # "none"
  <2>1. Fail(s) => run'[s].out # "none"
    BY DEF Fail, TypeOK, RunTypes, Locals
  <2> QED
    BY <1>3, <2>1, StepHolds DEF RowedInv
<1> QED
  BY <1>1, <1>2, <1>3 DEF RowedInv

\* With no delete in the budget, every run has a row to report in until it has ended.
THEOREM RowsKept ==
  ASSUME \A b \in Budgets : b["delete"] = 0
  PROVE  Spec => []RowedInv
<1>1. Init => RowedInv
  BY DEF Init, RowedInv, NoCall, Holding, Pipeline, BeforeSwap, Swapping, Settling
<1>2. TypeOK /\ RowedInv /\ [Next]_vars => RowedInv'
  BY RowedNext
<1> QED
  BY <1>1, <1>2, TypeCorrect, PTL DEF Spec

(* ----------------------- images that are retained ---------------------- *)

\* The last of a set of deployments: they are well ordered from above.
LEMMA LastOf ==
  ASSUME NEW S, S \subseteq DepRef, S # {}
  PROVE  \E x \in S : \A y \in S : y <= x
<1> DEFINE Down == {MaxDeps - y : y \in S}
<1>1. MaxDeps \in Nat
  BY ConstantsAssumption
<1>2. Down \subseteq Nat /\ Down # {}
  BY <1>1 DEF DepRef
<1>3. PICK m \in Down : \A k \in Down : ~(<<k, m>> \in OpToRel(<, Nat))
  BY <1>2, WFMin, NatLessThanWellFounded, Zenon
<1>4. \A k \in Down : ~(k < m)
  BY <1>2, <1>3 DEF OpToRel
<1>5. PICK x \in S : m = MaxDeps - x
  BY <1>3
<1>6. ASSUME NEW y \in S
      PROVE  y <= x
  <2>1. ~(MaxDeps - y < MaxDeps - x)
    BY <1>4, <1>5
  <2> QED
    BY <1>1, <2>1 DEF DepRef
<1> QED
  BY <1>6

\* Sets of image tags are finite, so that more tags are at least as many.
LEMMA TagsCount ==
  ASSUME NEW S, S \subseteq DepRef, NEW T, T \subseteq S
  PROVE  /\ Cardinality(S) \in Nat /\ Cardinality(T) \in Nat
         /\ Cardinality(T) <= Cardinality(S)
<1>1. IsFiniteSet(DepRef)
  BY ConstantsAssumption, FS_Interval DEF DepRef
<1>2. IsFiniteSet(S) /\ IsFiniteSet(T)
  BY <1>1, FS_Subset
<1> QED
  BY <1>2, FS_Subset, FS_CardinalityType

\* A prune leaves the keepImages newest tags, so that an image it takes, or one taken
\* before, still has that many newer ones.
LEMMA PruneRetains ==
  ASSUME TypeOK, NEW d \in Deps, PruneImages(d), NEW i \in DepRef,
         Cardinality(Newer(i)) >= KeepImages
  PROVE  Cardinality(Newer(i)') >= KeepImages
<1> DEFINE Kept == {j \in Newer(i) : Cardinality(Newer(j)) < KeepImages}
<1>1. KeepImages \in Nat /\ built \subseteq DepRef
  BY ConstantsAssumption DEF TypeOK, StoredTypes
<1>2. Kept \subseteq Newer(i)' /\ Newer(i)' \subseteq DepRef
  BY <1>1 DEF PruneImages, Newer
<1>3. Newer(i) \subseteq DepRef
  BY <1>1 DEF Newer
<1>4. Cardinality(Kept) >= KeepImages
  <2>1. CASE Newer(i) \subseteq Kept
    <3>1. Kept = Newer(i)
      BY <2>1
    <3> HIDE DEF Kept
    <3> QED
      BY <3>1
  <2>2. CASE ~(Newer(i) \subseteq Kept)
    <3>1. PICK x \in Newer(i) \ Kept : \A y \in Newer(i) \ Kept : y <= x
      BY <1>3, <2>2, LastOf
    <3>2. Newer(x) \subseteq Kept
      <4>1. ASSUME NEW y \in Newer(x)
            PROVE  y \in Newer(i) /\ ~(y <= x)
        BY <1>1, <3>1, <4>1 DEF Newer, DepRef
      <4> QED
        BY <3>1, <4>1
    <3>3. Cardinality(Newer(x)) >= KeepImages
      <4>1. Cardinality(Newer(x)) \in Nat
        BY <1>1, TagsCount DEF Newer
      <4> QED
        BY <1>1, <3>1, <4>1
    <3>4. Kept \subseteq DepRef
      BY <1>3
    <3> HIDE DEF Kept
    <3>5. /\ Cardinality(Kept) \in Nat /\ Cardinality(Newer(x)) \in Nat
          /\ Cardinality(Newer(x)) <= Cardinality(Kept)
      BY <3>2, <3>4, TagsCount
    <3> QED
      BY <1>1, <3>3, <3>5
  <2> QED
    BY <2>1, <2>2
<1> HIDE DEF Kept
<1>5. /\ Cardinality(Kept) \in Nat /\ Cardinality(Newer(i)') \in Nat
      /\ Cardinality(Kept) <= Cardinality(Newer(i)')
  BY <1>2, TagsCount
<1> QED
  BY <1>1, <1>4, <1>5

\* Who takes tags: a prune, and otherwise a delete only.
LEMMA TagWriters ==
  ASSUME RowedInv, Next
  PROVE  built \subseteq built' \/ \E d \in Deps : PruneImages(d)
<1>1. ASSUME NEW r \in Runs, Deploy(r) \/ Rollback(r) \/ DbFault(r)
      PROVE  built' = built
  BY <1>1 DEF Deploy, Rollback, BeginStart, DbFault, docker
<1>2. ASSUME NEW r \in Runs, RunStep(r)
      PROVE  built \subseteq built'
  BY <1>2 DEF RunStep, ReadService, InsertRow, MarkDeploying, ReadFresh, UseStoredImage,
     ResolveRef, MarkBuilding, BuildImage, MarkReleasing, LaunchContainer, StartProbe,
     Healthy, RunFails, SwapDeployment, SwapService, SupersedePrevious, Finish,
     SettleDeployment, SettleService, SettleContainer, Close, docker
<1>3. ASSUME NEW s \in Sweepers, SweepService(s)
      PROVE  built' = built
  BY <1>3 DEF SweepService, SweepStopped, SweepIdle, SweepInspect, SweepRelaunch, SweepKick,
     SweepWrite, docker
<1>4. CASE \/ Cancel \/ StopRead \/ StopWrite \/ StartRead \/ StartWrite
           \/ TimerTick \/ SweepSelect \/ SweepServices \/ SweepGate
           \/ Crash \/ Restart \/ Listen
  BY <1>4 DEF Cancel, StopRead, StopWrite, StartRead, StartWrite, TimerTick, SweepSelect,
     SweepServices, SweepGate, Crash, Restart, Listen, docker
<1>5. ASSUME NEW d \in Deps,
             SweepFailRow(d) \/ DeleteRead(d) \/ RetireContainer(d) \/ LoseContainer(d)
      PROVE  built' = built
  BY <1>5 DEF SweepFailRow, DeleteRead, RetireContainer, LoseContainer, docker
<1>6. ~DeleteContainer /\ ~DeleteRow
  BY DEF RowedInv, DeleteContainer, DeleteRow
<1> QED
  BY <1>1, <1>2, <1>3, <1>4, <1>5, <1>6 DEF Next, StartStep, TimerStep, Sweepers

\* While nobody deletes, an image is missing only if keepImages newer ones are there.
LEMMA RetainedStays ==
  ASSUME TypeOK, TypeOK', RowedInv, Next, NEW i \in DepRef, Retained(i)
  PROVE  Retained(i)'
<1>1. built \subseteq DepRef /\ built' \subseteq DepRef
  BY DEF TypeOK, StoredTypes
<1>2. KeepImages \in Nat
  BY ConstantsAssumption
<1>3. CASE built \subseteq built'
  <2>1. Newer(i) \subseteq Newer(i)' /\ Newer(i)' \subseteq DepRef
    BY <1>1, <1>3 DEF Newer
  <2>2. /\ Cardinality(Newer(i)) \in Nat /\ Cardinality(Newer(i)') \in Nat
        /\ Cardinality(Newer(i)) <= Cardinality(Newer(i)')
    BY <2>1, TagsCount
  <2> QED
    BY <1>2, <1>3, <2>2 DEF Retained
<1>4. ASSUME NEW d \in Deps, PruneImages(d)
      PROVE  Retained(i)'
  <2>1. CASE Cardinality(Newer(i)) >= KeepImages
    BY <1>4, <2>1, PruneRetains DEF Retained
  <2>2. CASE ~(Cardinality(Newer(i)) >= KeepImages)
    <3>1. Newer(i) \subseteq DepRef
      BY <1>1 DEF Newer
    <3>2. Cardinality(Newer(i)) \in Nat
      BY <3>1, TagsCount
    <3>3. Cardinality(Newer(i)) < KeepImages /\ i \in built
      BY <1>2, <2>2, <3>2 DEF Retained
    <3> QED
      BY <1>4, <3>3 DEF PruneImages, Retained, Newer
  <2> QED
    BY <2>1, <2>2
<1> QED
  BY <1>3, <1>4, TagWriters

\* Who writes image_tag: the run that adopts a stored image, or builds one.
LEMMA ImageWriters ==
  ASSUME TypeOK, RowedInv, Next, NEW d \in Deps
  PROVE  \/ row'[d].image = row[d].image
         \/ d = nextDep
         \/ \E r \in Runs : (UseStoredImage(r) \/ MarkBuilding(r)) /\ d = run[r].dep
<1>1. ASSUME NEW e, NEW st, SetStatus(e, st)
      PROVE  row'[d].image = row[d].image
  BY <1>1 DEF SetStatus, TypeOK, StoredTypes
<1>2. ASSUME NEW r \in Runs, RunStep(r), ~UseStoredImage(r), ~MarkBuilding(r)
      PROVE  row'[d].image = row[d].image \/ d = nextDep
  <2>1. CASE InsertRow(r)
    BY <2>1 DEF InsertRow, TypeOK, StoredTypes
  <2>2. CASE MarkReleasing(r) \/ SwapDeployment(r) \/ SupersedePrevious(r) \/ SettleDeployment(r)
    BY <1>1, <2>2 DEF MarkReleasing, SwapDeployment, SupersedePrevious, SettleDeployment
  <2> QED
    BY <1>2, <2>1, <2>2
    DEF RunStep, ReadService, MarkDeploying, ReadFresh, ResolveRef, BuildImage,
        LaunchContainer, StartProbe, Healthy, RunFails, SwapService, Finish, SettleService,
        SettleContainer, Close, db
<1>3. ASSUME NEW r \in Runs, UseStoredImage(r) \/ MarkBuilding(r), d # run[r].dep
      PROVE  row'[d].image = row[d].image
  BY <1>3 DEF UseStoredImage, MarkBuilding, TypeOK, StoredTypes
<1>4. ASSUME NEW r \in Runs, Deploy(r) \/ Rollback(r) \/ DbFault(r)
      PROVE  row' = row
  BY <1>4 DEF Deploy, Rollback, BeginStart, DbFault, db
<1>5. ASSUME NEW s \in Sweepers, SweepService(s)
      PROVE  row' = row
  BY <1>5 DEF SweepService, SweepStopped, SweepIdle, SweepInspect, SweepRelaunch, SweepKick,
     SweepWrite, db
<1>6. ASSUME NEW e \in Deps, SweepFailRow(e)
      PROVE  row'[d].image = row[d].image
  BY <1>1, <1>6 DEF SweepFailRow
<1>7. ASSUME NEW e \in Deps,
             DeleteRead(e) \/ RetireContainer(e) \/ PruneImages(e) \/ LoseContainer(e)
      PROVE  row' = row
  BY <1>7 DEF DeleteRead, RetireContainer, PruneImages, LoseContainer, db
<1>8. CASE \/ Cancel \/ StopRead \/ StopWrite \/ StartRead \/ StartWrite
           \/ TimerTick \/ SweepSelect \/ SweepServices \/ SweepGate
           \/ Crash \/ Restart \/ Listen
  BY <1>8 DEF Cancel, StopRead, StopWrite, StartRead, StartWrite, TimerTick, SweepSelect,
     SweepServices, SweepGate, Crash, Restart, Listen, db
<1>9. ~DeleteContainer /\ ~DeleteRow
  BY DEF RowedInv, DeleteContainer, DeleteRow
<1> QED
  BY <1>2, <1>3, <1>4, <1>5, <1>6, <1>7, <1>8, <1>9 DEF Next, StartStep, TimerStep, Sweepers

\* The image of a deployment that a run holds, or that serves, is written by that run only.
LEMMA HeldImageStays ==
  ASSUME TypeOK, RowedInv, Next, NEW d \in Deps, d < nextDep,
         \A r \in Runs : pc[r] \in {"adoptImage", "markBuild"} => run[r].dep # d
  PROVE  row'[d].image = row[d].image
<1>1. d # nextDep
  BY DEF Deps, TypeOK, StoredTypes
<1>2. \A r \in Runs : UseStoredImage(r) \/ MarkBuilding(r) => run[r].dep # d
  BY DEF UseStoredImage, MarkBuilding
<1> QED
  BY <1>1, <1>2, ImageWriters

\* A run that the step does not move keeps what it has of its image.
LEMMA BystanderImaged ==
  ASSUME TypeOK, TypeOK', TurnInv, RowedInv, Next, NEW s \in Runs, Imaged(s),
         pc'[s] = pc[s], run'[s].dep = run[s].dep, run'[s].reuse = run[s].reuse
  PROVE  Imaged(s)'
<1> DEFINE d == run[s].dep
<1>1. CASE pc[s] \in {"build", "markRelease", "launch", "health", "probe", "swapDep", "swapSvc"}
  <2>1. pc[s] \in Holding /\ Mine(s) = d /\ pc[s] \notin {"adoptImage", "markBuild"}
    BY <1>1 DEF Holding, Pipeline, BeforeSwap, Swapping, Mine
  <2>2. d \in Deps /\ d < nextDep
    BY <2>1, MineIsDeployment DEF TurnInv
  <2>3. ASSUME NEW r \in Runs, pc[r] \in {"adoptImage", "markBuild"}
        PROVE  run[r].dep # d
    <3>1. pc[r] \in Holding /\ Mine(r) = run[r].dep /\ r # s
      BY <2>1, <2>3 DEF Holding, Pipeline, BeforeSwap, Mine
    <3> QED
      BY <2>1, <3>1 DEF TurnInv
  <2>4. row'[d].image = row[d].image
    BY <2>2, <2>3, HeldImageStays
  <2>5. ASSUME pc[s] \in {"health", "probe", "swapDep", "swapSvc"}
        PROVE  Retained(row[d].image)'
    <3>1. PICK i : i = row[d].image
      OBVIOUS
    <3>2. i \in DepRef /\ Retained(i)
      BY <2>2, <2>5, <3>1 DEF Imaged, TypeOK, StoredTypes
    <3>3. Retained(i)'
      BY <3>2, RetainedStays
    <3> QED
      BY <2>4, <3>1, <3>3
  <2> QED
    BY <2>4, <2>5 DEF Imaged
<1>2. CASE pc[s] \notin {"build", "markRelease", "launch", "health", "probe", "swapDep", "swapSvc"}
  BY <1>2 DEF Imaged
<1> QED
  BY <1>1, <1>2

\* The run that moves: it adopts or builds an image, launches from it, and swaps to it.
LEMMA MoverImaged ==
  ASSUME TypeOK, RowedInv, NEW r \in Runs, Imaged(r), RunStep(r)
  PROVE  Imaged(r)'
<1> DEFINE d == run[r].dep
<1> USE DEF TypeOK, RunTypes, Goto
<1>1. CASE \/ ReadService(r) \/ InsertRow(r) \/ MarkDeploying(r) \/ SupersedePrevious(r)
           \/ Finish(r) \/ SettleDeployment(r) \/ SettleService(r) \/ SettleContainer(r) \/ Close(r)
  <2>1. pc'[r] \in {"idle", "insert", "mark", "fresh", "finish", "settleSvc", "settleCtr", "close"}
    BY <1>1 DEF ReadService, InsertRow, MarkDeploying, SupersedePrevious, Finish,
       SettleDeployment, SettleService, SettleContainer, Close, Unregister
  <2> QED
    BY <2>1 DEF Imaged
<1>2. CASE Fail(r)
  BY <1>2 DEF Fail, Imaged
<1>3. CASE ReadFresh(r)
  <2>1. run'[r].reuse = run[r].reuse /\ pc'[r] = IF run[r].reuse # 0 THEN "adoptImage" ELSE "resolve"
    BY <1>3 DEF ReadFresh, Locals
  <2> QED
    BY <2>1 DEF Imaged
<1>4. pc[r] \in Pipeline => d \in Deps
  OBVIOUS
<1>5. CASE UseStoredImage(r)
  <2>1. d \in Deps /\ row[d].status # "none"
    BY <1>4, <1>5 DEF UseStoredImage, Pipeline, BeforeSwap, RowedInv, Holding, Mine
  <2>2. row'[d].image = run[r].reuse /\ pc'[r] = "launch" /\ run' = run /\ run[r].reuse # 0
    BY <1>5, <2>1 DEF UseStoredImage, Imaged, StoredTypes
  <2> QED
    BY <2>2 DEF Imaged
<1>6. CASE ResolveRef(r)
  BY <1>6 DEF ResolveRef, Imaged
<1>7. CASE MarkBuilding(r)
  <2>1. d \in Deps /\ row[d].status # "none"
    BY <1>4, <1>7 DEF MarkBuilding, Pipeline, BeforeSwap, RowedInv, Holding, Mine
  <2>2. row'[d].image = d /\ pc'[r] = "build" /\ run' = run /\ run[r].reuse = 0
    BY <1>7, <2>1 DEF MarkBuilding, Imaged, StoredTypes
  <2> QED
    BY <2>2 DEF Imaged
<1>8. CASE BuildImage(r) /\ ~Fail(r)
  <2>1. pc'[r] = "markRelease" /\ run' = run /\ row' = row /\ pc[r] = "build"
    BY <1>8 DEF BuildImage, db
  <2> QED
    BY <2>1 DEF Imaged
<1>9. CASE MarkReleasing(r)
  <2>1. pc'[r] = "launch" /\ run' = run /\ pc[r] = "markRelease" /\ d \in Deps
    BY <1>4, <1>9 DEF MarkReleasing, Pipeline, BeforeSwap
  <2>2. row'[d].image = row[d].image
    BY <1>9, <2>1 DEF MarkReleasing, SetStatus, StoredTypes
  <2> QED
    BY <2>1, <2>2 DEF Imaged
<1>10. CASE LaunchContainer(r) /\ ~Fail(r)
  <2>1. pc'[r] = "health" /\ run' = run /\ row' = row /\ built' = built /\ pc[r] = "launch"
    BY <1>10 DEF LaunchContainer, db
  <2>2. row[d].image \in built
    BY <1>10, <2>1 DEF LaunchContainer, Imaged
  <2> QED
    BY <2>1, <2>2 DEF Imaged, Retained
<1>11. CASE StartProbe(r) \/ Healthy(r)
  <2>1. /\ pc'[r] \in {"probe", "swapDep"} /\ pc[r] \in {"health", "probe"}
        /\ run' = run /\ row' = row /\ built' = built
    BY <1>11 DEF StartProbe, Healthy, db, docker
  <2> QED
    BY <2>1 DEF Imaged, Retained, Newer
<1>12. CASE SwapDeployment(r)
  <2>1. /\ pc'[r] = "swapSvc" /\ pc[r] = "swapDep" /\ run' = run /\ built' = built /\ d \in Deps
    BY <1>4, <1>12 DEF SwapDeployment, docker, Pipeline, Swapping
  <2>2. row'[d].image = row[d].image
    BY <1>12, <2>1 DEF SwapDeployment, SetStatus, StoredTypes
  <2> QED
    BY <2>1, <2>2 DEF Imaged, Retained, Newer
<1>13. CASE SwapService(r) /\ ~Fail(r)
  <2>1. pc'[r] \in {"swapPrev", "finish"}
    BY <1>13 DEF SwapService
  <2> QED
    BY <2>1 DEF Imaged
<1> QED
  BY <1>1, <1>2, <1>3, <1>5, <1>6, <1>7, <1>8, <1>9, <1>10, <1>11, <1>12, <1>13
  DEF RunStep, RunFails

\* A run that is not the one to move is where it was.
LEMMA OthersStay ==
  ASSUME TypeOK, NEW r \in Runs, RunStep(r), NEW s \in Runs, s # r
  PROVE  pc'[s] = pc[s] /\ run'[s] = run[s]
BY DEF TypeOK, RunTypes, RunStep, ReadService, InsertRow, MarkDeploying, ReadFresh,
   UseStoredImage, ResolveRef, MarkBuilding, BuildImage, MarkReleasing, LaunchContainer,
   StartProbe, Healthy, RunFails, SwapDeployment, SwapService, SupersedePrevious, Finish,
   SettleDeployment, SettleService, SettleContainer, Close, Goto, Fail, Unregister

\* Only the second UPDATE of a swap names another release, as long as nobody deletes.
LEMMA SwapSwitches ==
  ASSUME TypeOK, RowedInv, Next, \A r \in Runs : ~SwapService(r)
  PROVE  svc'.current = svc.current
<1> USE DEF TypeOK, StoredTypes, Services, db
<1>1. ASSUME NEW r \in Runs, Deploy(r) \/ Rollback(r) \/ DbFault(r)
      PROVE  svc' = svc
  BY <1>1 DEF Deploy, Rollback, BeginStart, DbFault
<1>2. ASSUME NEW r \in Runs, RunStep(r)
      PROVE  svc'.current = svc.current
  BY <1>2 DEF RunStep, ReadService, InsertRow, MarkDeploying, ReadFresh,
     UseStoredImage, ResolveRef, MarkBuilding, BuildImage, MarkReleasing, LaunchContainer,
     StartProbe, Healthy, RunFails, SwapDeployment, SupersedePrevious, Finish,
     SettleDeployment, SettleService, SettleContainer, Close
<1>3. ASSUME NEW s \in Sweepers, SweepService(s)
      PROVE  svc'.current = svc.current
  BY <1>3 DEF SweepService, SweepStopped, SweepIdle, SweepInspect, SweepRelaunch, SweepKick,
     SweepWrite
<1>4. CASE \/ Cancel \/ StopRead \/ StopWrite \/ StartRead \/ StartWrite
           \/ TimerTick \/ SweepSelect \/ SweepServices \/ SweepGate
           \/ Crash \/ Restart \/ Listen
  BY <1>4 DEF Cancel, StopRead, StopWrite, StartRead, StartWrite, TimerTick, SweepSelect,
     SweepServices, SweepGate, Crash, Restart, Listen
<1>5. ASSUME NEW d \in Deps,
             \/ SweepFailRow(d) \/ DeleteRead(d) \/ RetireContainer(d) \/ PruneImages(d)
             \/ LoseContainer(d)
      PROVE  svc' = svc
  BY <1>5 DEF SweepFailRow, DeleteRead, RetireContainer, PruneImages, LoseContainer
<1>6. ~DeleteContainer /\ ~DeleteRow
  BY DEF RowedInv, DeleteContainer, DeleteRow
<1> QED
  BY <1>1, <1>2, <1>3, <1>4, <1>5, <1>6 DEF Next, StartStep, TimerStep, Sweepers

LEMMA ServingImageNext ==
  ASSUME TypeOK, TypeOK', TurnInv, RowedInv, ImageInv, Next
  PROVE  ServingImageRetained'
<1>1. ASSUME svc'.current = svc.current, svc.current # 0
      PROVE  Retained(row[svc.current].image)' /\ row'[svc.current].image = row[svc.current].image
  <2>1. svc.current \in Deps /\ svc.current < nextDep
    BY <1>1 DEF TypeOK, StoredTypes, Services, Deps, DepRef, TurnInv
  <2>2. ASSUME NEW r \in Runs, pc[r] \in {"adoptImage", "markBuild"}
        PROVE  run[r].dep # svc.current
    BY <2>2 DEF TurnInv, Candidate, BeforeSwap, Mine
  <2>3. row'[svc.current].image = row[svc.current].image
    BY <2>1, <2>2, HeldImageStays
  <2>4. PICK i : i = row[svc.current].image
    OBVIOUS
  <2>5. i \in DepRef /\ Retained(i)
    BY <1>1, <2>1, <2>4 DEF ImageInv, ServingImageRetained, TypeOK, StoredTypes
  <2>6. Retained(i)'
    BY <2>5, RetainedStays
  <2> QED
    BY <1>1, <2>3, <2>4, <2>6
<1>2. ASSUME NEW r \in Runs, SwapService(r), svc'.current # svc.current
      PROVE  ServingImageRetained'
  <2>1. svc'.current = run[r].dep /\ row' = row /\ built' = built /\ pc[r] = "swapSvc"
    BY <1>2 DEF SwapService, docker, TypeOK, StoredTypes, Services
  <2>2. Retained(row[run[r].dep].image)
    BY <2>1 DEF ImageInv, Imaged
  <2> QED
    BY <2>1, <2>2 DEF ServingImageRetained, Retained, Newer
<1>3. svc'.current = svc.current => ServingImageRetained'
  BY <1>1 DEF ServingImageRetained
<1> QED
  BY <1>2, <1>3, SwapSwitches

LEMMA ImageNext ==
  ASSUME TypeOK, TypeOK', TurnInv, RowedInv, ImageInv, Next
  PROVE  ImageInv'
<1>1. ServingImageRetained'
  BY ServingImageNext
<1>2. ASSUME NEW s \in Runs, pc'[s] = pc[s], run'[s].dep = run[s].dep,
             run'[s].reuse = run[s].reuse
      PROVE  Imaged(s)'
  BY <1>2, BystanderImaged DEF ImageInv
<1>3. ASSUME NEW r \in Runs, RunStep(r), NEW s \in Runs
      PROVE  Imaged(s)'
  BY <1>2, <1>3, MoverImaged, OthersStay DEF ImageInv
<1>4. ASSUME NEW r \in Runs, Deploy(r) \/ Rollback(r) \/ DbFault(r), NEW s \in Runs
      PROVE  Imaged(s)'
  <2>1. CASE s # r
    <3>1. pc'[s] = pc[s] /\ run'[s] = run[s]
      BY <1>4, <2>1 DEF Deploy, Rollback, BeginStart, DbFault, Goto, Fail, TypeOK, RunTypes
    <3> QED
      BY <1>2, <3>1
  <2>2. CASE s = r
    <3>1. pc'[r] \in {"read", "idle", "settleDep", "close"}
      BY <1>4 DEF Deploy, Rollback, BeginStart, DbFault, Goto, Fail, TypeOK, RunTypes
    <3> QED
      BY <2>2, <3>1 DEF Imaged
  <2> QED
    BY <2>1, <2>2
<1>5. ASSUME Cancel, NEW s \in Runs
      PROVE  Imaged(s)'
  <2>1. pc'[s] = pc[s] /\ run'[s].dep = run[s].dep /\ run'[s].reuse = run[s].reuse
    BY <1>5 DEF Cancel, TypeOK, RunTypes, Locals
  <2> QED
    BY <1>2, <2>1
<1>6. ASSUME NEW q \in Sweepers, SweepService(q), NEW s \in Runs
      PROVE  Imaged(s)'
  <2>1. UNCHANGED <<pc, run>>
    BY <1>6 DEF SweepService, SweepStopped, SweepIdle, SweepInspect, SweepRelaunch, SweepKick,
       SweepWrite
  <2> QED
    BY <1>2, <2>1
<1>7. ASSUME NEW d \in Deps,
             \/ SweepFailRow(d) \/ DeleteRead(d) \/ RetireContainer(d) \/ PruneImages(d)
             \/ LoseContainer(d),
             NEW s \in Runs
      PROVE  Imaged(s)'
  <2>1. UNCHANGED <<pc, run>>
    BY <1>7 DEF SweepFailRow, DeleteRead, RetireContainer, PruneImages, LoseContainer
  <2> QED
    BY <1>2, <2>1
<1>8. ASSUME \/ StopRead \/ StopWrite \/ StartRead \/ StartWrite \/ TimerTick \/ SweepSelect
             \/ SweepServices \/ SweepGate \/ Restart \/ Listen,
             NEW s \in Runs
      PROVE  Imaged(s)'
  <2>1. UNCHANGED <<pc, run>>
    BY <1>8 DEF StopRead, StopWrite, StartRead, StartWrite, TimerTick, SweepSelect,
       SweepServices, SweepGate, Restart, Listen
  <2> QED
    BY <1>2, <2>1
<1>9. ASSUME Crash, NEW s \in Runs
      PROVE  Imaged(s)'
  BY <1>9 DEF Crash, Imaged
<1>10. ~DeleteContainer /\ ~DeleteRow
  BY DEF RowedInv, DeleteContainer, DeleteRow
<1>11. \A s \in Runs : Imaged(s)'
  BY <1>3, <1>4, <1>5, <1>6, <1>7, <1>8, <1>9, <1>10 DEF Next, StartStep, TimerStep, Sweepers
<1> QED
  BY <1>1, <1>11 DEF ImageInv

\* While nobody deletes a deployment, retention alone takes the image of a candidate being
\* probed or of the release that serves: concurrent deploys and prunes, rollbacks, stops,
\* crashes and failing calls included.
THEOREM ImagesInvariant ==
  ASSUME \A b \in Budgets : b["delete"] = 0
  PROVE  Spec => []ImageInv
<1>1. Init => ImageInv
  BY DEF Init, ImageInv, Imaged, ServingImageRetained
<1>2. TypeOK /\ TypeOK' /\ TurnInv /\ RowedInv /\ ImageInv /\ [Next]_vars => ImageInv'
  <2> SUFFICES ASSUME TypeOK, TypeOK', TurnInv, RowedInv, ImageInv, [Next]_vars
               PROVE  ImageInv'
    OBVIOUS
  <2>1. CASE Next
    BY <2>1, ImageNext
  <2>2. CASE UNCHANGED vars
    BY <2>2 DEF vars, db, docker, ImageInv, Imaged, ServingImageRetained, Retained, Newer
  <2> QED
    BY <2>1, <2>2
<1>3. Spec => []RowedInv
  BY RowsKept
<1> QED
  BY <1>1, <1>2, <1>3, TypeCorrect, TurnInvariant, PTL DEF Spec

\* The release that serves can be recreated after a reboot unless keepImages newer images
\* are stored, whatever prunes, deploys, rollbacks, stops, crashes and faults interleave.
THEOREM ServingImageSafe ==
  ASSUME \A b \in Budgets : b["delete"] = 0
  PROVE  Spec => []ServingImageRetained
<1>1. ImageInv => ServingImageRetained
  BY DEF ImageInv
<1> QED
  BY <1>1, ImagesInvariant, PTL

=============================================================================

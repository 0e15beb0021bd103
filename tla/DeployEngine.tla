---------------------------- MODULE DeployEngine ----------------------------
(***************************************************************************)
(* The deployment engine (backend/src/lib/deployments.js) seen from one    *)
(* service; services share nothing but the sweep's loop.                   *)
(*                                                                         *)
(* nixre-core is one Node process: code between two awaits is one step,    *)
(* and every await is a point where another request, the sweep timer or a  *)
(* background task may run.  pc[r] is the await at which one call of       *)
(* startDeployment, and the pipeline it launches, is suspended.  Postgres  *)
(* (svc, row) and Docker (built, ctr) survive a crash; everything else is  *)
(* process memory.                                                         *)
(***************************************************************************)
EXTENDS Integers, FiniteSets

CONSTANTS
  Runs,         \* calls of startDeployment that may be in progress at once
  NoRun,        \* activeRuns has no entry for the service
  MaxDeps,      \* bound: deployment rows ever inserted
  KeepImages,   \* keepImages: stored images a prune leaves
  TimerSweeps,  \* whether the 60 s sweep timer runs in this instance
  Budgets       \* bound: how often each fault or operator request happens, one of several

Events == {"crash", "db", "docker", "lose", "toggle", "delete"}

ASSUME ConstantsAssumption ==
  /\ NoRun \notin Runs
  /\ MaxDeps \in Nat /\ KeepImages \in Nat
  /\ TimerSweeps \in BOOLEAN
  /\ Budgets \subseteq [Events -> Nat]

Deps == 1 .. MaxDeps
DepRef == 0 .. MaxDeps          \* 0 is SQL's NULL

InFlight == {"queued", "building", "releasing"}
RowStatus == InFlight \cup {"live", "superseded", "failed", "cancelled", "none"}
Services == [desired : {"running", "stopped"},
             status : {"idle", "deploying", "running", "stopped", "failed"},
             current : DepRef, lastFailed : DepRef]

VARIABLES
  phase,    \* the core process: "down", "boot" (before listen), "up"
  svc,      \* deploy_services row
  row,      \* deployments rows; status "none": never inserted, or deleted
  nextDep,  \* BIGSERIAL of the deployments table
  built,    \* deployments whose image tag Docker holds
  ctr,      \* the container named after each deployment
  active,   \* activeRuns.get(service)
  pc,       \* where each startDeployment call or its pipeline is suspended
  run,      \* its locals and its activeRuns entry
  sweep,    \* the sweep timer's run and the one startService makes
  stop,     \* a stopService call
  del,      \* a deleteDeployment call
  retire,   \* retireOldContainer tasks waiting out the drain
  prune,    \* pruneServiceImages tasks, by the deployment that launched them
  left      \* what is left of the budget

db == <<svc, row, nextDep>>
docker == <<built, ctr>>
tasks == <<retire, prune>>
vars == <<phase, db, docker, active, pc, run, sweep, stop, del, tasks, left>>

(* ------------------------------ locals ------------------------------ *)

RegisteringPcs == {"insert", "mark"}
BeforeSwap == {"fresh", "adoptImage", "resolve", "markBuild", "build",
               "markRelease", "launch", "health", "probe"}
Swapping == {"swapDep", "swapSvc", "swapPrev", "finish"}
Settling == {"settleDep", "settleSvc", "settleCtr"}
Pipeline == BeforeSwap \cup Swapping \cup Settling \cup {"close"}
Registered == RegisteringPcs \cup Pipeline
Pcs == {"idle", "read"} \cup Registered

NoLocals == [dep |-> 0, inserted |-> 0, cancelled |-> FALSE, reuse |-> 0,
             prev |-> 0, serving |-> FALSE, out |-> "none", manual |-> FALSE]
Locals == [dep : DepRef, inserted : DepRef, cancelled : BOOLEAN,
           reuse : DepRef, prev : DepRef, serving : BOOLEAN,
           out : {"none", "failed", "cancelled"}, manual : BOOLEAN]

Sweepers == {"timer", "start"}
SweepPcs == {"idle", "select", "fail", "gate", "write0", "svc", "relaunch",
             "kick", "write"}
NoSweep == [pc |-> "idle", owned |-> {}, stuck |-> {}, desired |-> "running",
            current |-> 0, status |-> "idle", out |-> "idle"]
Sweeps == [pc : SweepPcs, owned : SUBSET DepRef, stuck : SUBSET Deps,
           desired : {"running", "stopped"}, current : DepRef,
           status : {"idle", "deploying", "running", "stopped", "failed"},
           out : {"idle", "running", "stopped", "failed"}]

NoCall == [pc |-> "idle", dep |-> 0]
Calls == [pc : {"idle", "write", "ctr", "row"}, dep : DepRef]

NoRow == [status |-> "none", image |-> 0]

StoredTypes ==
  /\ phase \in {"down", "boot", "up"}
  /\ svc \in Services
  /\ row \in [Deps -> [status : RowStatus, image : DepRef]]
  /\ nextDep \in 1 .. (MaxDeps + 1)
  /\ built \in SUBSET DepRef
  /\ ctr \in [Deps -> {"none", "running", "exited"}]

RunTypes ==
  /\ active \in Runs \cup {NoRun}
  /\ pc \in [Runs -> Pcs]
  /\ run \in [Runs -> Locals]
  /\ \A r \in Runs : pc[r] \in Pipeline => run[r].dep \in Deps
  /\ \A r \in Runs : pc[r] = "mark" => run[r].inserted \in Deps

TaskTypes ==
  /\ sweep \in [Sweepers -> Sweeps]
  /\ stop \in Calls /\ del \in Calls
  /\ retire \in SUBSET Deps /\ prune \in SUBSET Deps
  /\ left \in [Events -> Nat]

TypeOK == StoredTypes /\ RunTypes /\ TaskTypes

Init ==
  /\ phase = "up"
  /\ svc = [desired |-> "running", status |-> "idle", current |-> 0,
            lastFailed |-> 0]
  /\ row = [d \in Deps |-> NoRow]
  /\ nextDep = 1
  /\ built = {}
  /\ ctr = [d \in Deps |-> "none"]
  /\ active = NoRun
  /\ pc = [r \in Runs |-> "idle"]
  /\ run = [r \in Runs |-> NoLocals]
  /\ sweep = [s \in Sweepers |-> NoSweep]
  /\ stop = NoCall /\ del = NoCall
  /\ retire = {} /\ prune = {}
  /\ left \in Budgets

(* ------------------------------ helpers ----------------------------- *)

Goto(r, to) == pc' = [pc EXCEPT ![r] = to]

\* The catch block of runPipeline: whether the run was cancelled is read once,
\* when the error arrives.
Fail(r) ==
  /\ pc' = [pc EXCEPT ![r] = "settleDep"]
  /\ run' = [run EXCEPT ![r].out =
               IF run[r].cancelled THEN "cancelled" ELSE "failed"]

\* Mutant: no finally, the entry stays.
UnregisterForgotten(r) ==
  /\ pc' = [pc EXCEPT ![r] = "idle"]
  /\ run' = [run EXCEPT ![r] = NoLocals]
  /\ UNCHANGED active

\* finally: the entry is removed only by the run that still owns it.
Unregister(r) ==
  /\ active' = IF active = r THEN NoRun ELSE active
  /\ pc' = [pc EXCEPT ![r] = "idle"]
  /\ run' = [run EXCEPT ![r] = NoLocals]

\* UPDATE deployments SET status = st WHERE id = d: no effect on a deleted row.
SetStatus(d, st) ==
  row' = [row EXCEPT ![d].status = IF row[d].status = "none" THEN "none" ELSE st]

Spend(e) == left[e] > 0 /\ left' = [left EXCEPT ![e] = @ - 1]

\* docker stop, then docker rm without force: stop is an error for a container
\* that is not running, and the catch leaves such a container where it is.
StopAndRemove(d) ==
  ctr' = [ctr EXCEPT ![d] = IF ctr[d] = "running" THEN "none" ELSE ctr[d]]

(* ------------------- startDeployment, up to the launch --------------- *)

\* The 409 test, made before the first await.  The bound on rows is here.
BeginStart(r, manual, image) ==
  /\ phase = "up" /\ pc[r] = "idle" /\ active = NoRun
  /\ nextDep + Cardinality({s \in Runs : pc[s] \in {"read", "insert"}}) <= MaxDeps
  /\ Goto(r, "read")
  /\ run' = [run EXCEPT ![r] = [NoLocals EXCEPT !.manual = manual, !.reuse = image]]
  /\ UNCHANGED <<phase, db, docker, active, sweep, stop, del, tasks, left>>

\* A manual deploy, or one made by a push, a redeploy or an Actions job.
Deploy(r) == \E manual \in BOOLEAN : BeginStart(r, manual, 0)

\* rollback reads the source row, then calls startDeployment.
Rollback(r) ==
  \E d \in Deps :
    /\ row[d].status # "none" /\ d # svc.current
    /\ row[d].image # 0
    /\ BeginStart(r, FALSE, row[d].image)

\* The service row is back: register, without looking at activeRuns again.
ReadService(r) ==
  /\ pc[r] = "read"
  /\ IF svc.desired = "stopped" /\ ~run[r].manual
     THEN /\ Goto(r, "idle")
          /\ run' = [run EXCEPT ![r] = NoLocals]
          /\ UNCHANGED active
     ELSE /\ active' = r
          /\ Goto(r, "insert")
          /\ run' = [run EXCEPT ![r].serving = svc.current # 0, ![r].manual = FALSE]
  /\ UNCHANGED <<phase, db, docker, sweep, stop, del, tasks, left>>

\* The row exists from here on; the entry still says deployment 0.
InsertRow(r) ==
  /\ pc[r] = "insert"
  /\ nextDep <= MaxDeps
  /\ row' = [row EXCEPT ![nextDep] = [status |-> "queued", image |-> 0]]
  /\ nextDep' = nextDep + 1
  /\ run' = [run EXCEPT ![r].inserted = nextDep]
  /\ Goto(r, "mark")
  /\ UNCHANGED <<phase, svc, docker, active, sweep, stop, del, tasks, left>>

MarkDeploying(r) ==
  /\ pc[r] = "mark"
  /\ run' = [run EXCEPT ![r].dep = run[r].inserted]
  /\ svc' = [svc EXCEPT !.status = "deploying"]
  /\ Goto(r, "fresh")
  /\ UNCHANGED <<phase, row, nextDep, docker, active, sweep, stop, del, tasks, left>>

\* Mutant: the request itself marks the row, while the pipeline goes on.
CancelMarksRow ==
  /\ phase = "up" /\ active # NoRun
  /\ pc[active] \in Pipeline /\ ~run[active].cancelled
  /\ run' = [run EXCEPT ![active].cancelled = TRUE]
  /\ SetStatus(run[active].dep, "cancelled")
  /\ UNCHANGED <<phase, svc, nextDep, docker, active, pc, sweep, stop, del, tasks, left>>

Cancel ==
  /\ phase = "up" /\ active # NoRun
  /\ pc[active] # "idle" /\ ~run[active].cancelled
  /\ run' = [run EXCEPT ![active].cancelled = TRUE]
  /\ UNCHANGED <<phase, db, docker, active, pc, sweep, stop, del, tasks, left>>

(* ---------------------------- runPipeline ---------------------------- *)

ReadFresh(r) ==
  /\ pc[r] = "fresh"
  /\ run' = [run EXCEPT ![r].prev = svc.current]
  /\ Goto(r, IF run[r].reuse # 0 THEN "adoptImage" ELSE "resolve")
  /\ UNCHANGED <<phase, db, docker, active, sweep, stop, del, tasks, left>>

UseStoredImage(r) ==
  LET d == run[r].dep IN
  /\ pc[r] = "adoptImage"
  /\ row' = IF row[d].status = "none" THEN row
            ELSE [row EXCEPT ![d] = [status |-> "releasing", image |-> run[r].reuse]]
  /\ Goto(r, "launch")
  /\ UNCHANGED <<phase, svc, nextDep, docker, active, run, sweep, stop, del, tasks, left>>

ResolveRef(r) ==
  /\ pc[r] = "resolve" /\ ~run[r].cancelled
  /\ Goto(r, "markBuild")
  /\ UNCHANGED <<phase, db, docker, active, run, sweep, stop, del, tasks, left>>

\* image_tag is written before the image exists.
MarkBuilding(r) ==
  LET d == run[r].dep IN
  /\ pc[r] = "markBuild"
  /\ row' = IF row[d].status = "none" THEN row
            ELSE [row EXCEPT ![d] = [status |-> "building", image |-> d]]
  /\ Goto(r, "build")
  /\ UNCHANGED <<phase, svc, nextDep, docker, active, run, sweep, stop, del, tasks, left>>

\* docker build may finish although the run was cancelled meanwhile.
BuildImage(r) ==
  /\ pc[r] = "build"
  /\ built' = built \cup {run[r].dep}
  /\ IF run[r].cancelled THEN Fail(r) ELSE Goto(r, "markRelease") /\ UNCHANGED run
  /\ UNCHANGED <<phase, db, ctr, active, sweep, stop, del, tasks, left>>

MarkReleasing(r) ==
  /\ pc[r] = "markRelease"
  /\ SetStatus(run[r].dep, "releasing")
  /\ Goto(r, "launch")
  /\ UNCHANGED <<phase, svc, nextDep, docker, active, run, sweep, stop, del, tasks, left>>

\* createContainer needs the image; start may fail after create succeeded.
\* The name is free: a deployment id is never used twice.
LaunchContainer(r) ==
  LET d == run[r].dep
      image == IF run[r].reuse # 0 THEN run[r].reuse ELSE d
  IN
  /\ pc[r] = "launch" /\ image \in built /\ ctr[d] = "none"
  /\ \/ ctr' = [ctr EXCEPT ![d] = "running"] /\ Goto(r, "health") /\ UNCHANGED run
     \/ ctr' = [ctr EXCEPT ![d] = "exited"] /\ Fail(r)
  /\ UNCHANGED <<phase, db, built, active, sweep, stop, del, tasks, left>>

\* Mutant: the health loop does not look for a cancellation.
StartProbeUnchecked(r) ==
  /\ pc[r] = "health"
  /\ Goto(r, "probe")
  /\ UNCHANGED <<phase, db, docker, active, run, sweep, stop, del, tasks, left>>

\* Each round of the health loop looks for a cancellation, then probes.
StartProbe(r) ==
  /\ pc[r] = "health" /\ ~run[r].cancelled
  /\ Goto(r, "probe")
  /\ UNCHANGED <<phase, db, docker, active, run, sweep, stop, del, tasks, left>>

\* A probe under way when the run is cancelled may still answer.
Healthy(r) ==
  /\ pc[r] = "probe" /\ ctr[run[r].dep] = "running"
  /\ Goto(r, "swapDep")
  /\ UNCHANGED <<phase, db, docker, active, run, sweep, stop, del, tasks, left>>

\* Mutant: a cancellation is also looked for after the swap.
RunFailsLate(r) ==
  /\ pc[r] \in {"fresh", "resolve", "build", "launch", "health", "probe", "swapPrev"}
  /\ Fail(r)
  /\ UNCHANGED <<phase, db, docker, active, sweep, stop, del, tasks, left>>

\* No docker, no such ref, a failed build, no image, a container that never
\* answers, or a cancellation noticed at one of these awaits.
RunFails(r) ==
  /\ pc[r] \in {"fresh", "resolve", "build", "launch", "health", "probe"}
  /\ Fail(r)
  /\ UNCHANGED <<phase, db, docker, active, sweep, stop, del, tasks, left>>

(* ------------------------------ the swap ----------------------------- *)

\* Mutant: the old container goes before the new one is served.
SwapDeploymentStopsOld(r) ==
  /\ pc[r] = "swapDep"
  /\ SetStatus(run[r].dep, "live")
  /\ ctr' = [d \in Deps |-> IF d = run[r].prev THEN "none" ELSE ctr[d]]
  /\ Goto(r, "swapSvc")
  /\ UNCHANGED <<phase, svc, nextDep, built, active, run, sweep, stop, del, tasks, left>>

SwapDeployment(r) ==
  /\ pc[r] = "swapDep"
  /\ SetStatus(run[r].dep, "live")
  /\ Goto(r, "swapSvc")
  /\ UNCHANGED <<phase, svc, nextDep, docker, active, run, sweep, stop, del, tasks, left>>

\* current_deployment_id is a foreign key: the update throws when the row is gone.
SwapService(r) ==
  LET d == run[r].dep IN
  /\ pc[r] = "swapSvc"
  /\ IF row[d].status = "none"
     THEN Fail(r) /\ UNCHANGED svc
     ELSE /\ svc' = [svc EXCEPT !.current = d, !.status = "running", !.lastFailed = 0]
          /\ Goto(r, IF run[r].prev \notin {0, d} THEN "swapPrev" ELSE "finish")
          /\ UNCHANGED run
  /\ UNCHANGED <<phase, row, nextDep, docker, active, sweep, stop, del, tasks, left>>

SupersedePrevious(r) ==
  /\ pc[r] = "swapPrev"
  /\ SetStatus(run[r].prev, "superseded")
  /\ Goto(r, "finish")
  /\ UNCHANGED <<phase, svc, nextDep, docker, active, run, sweep, stop, del, tasks, left>>

\* Mutant: the release to retire is read after the swap.
FinishRetiresCurrent(r) ==
  /\ pc[r] = "finish"
  /\ retire' = retire \cup {svc.current}
  /\ prune' = prune \cup {run[r].dep}
  /\ Unregister(r)
  /\ UNCHANGED <<phase, db, docker, sweep, stop, del, left>>

\* The old container and old images are left to background tasks.
Finish(r) ==
  /\ pc[r] = "finish"
  /\ retire' = retire \cup ({run[r].prev} \ {0, run[r].dep})
  /\ prune' = prune \cup {run[r].dep}
  /\ Unregister(r)
  /\ UNCHANGED <<phase, db, docker, sweep, stop, del, left>>

(* ---------------------------- settleFailure -------------------------- *)

SettleDeployment(r) ==
  /\ pc[r] = "settleDep"
  /\ SetStatus(run[r].dep, run[r].out)
  /\ Goto(r, "settleSvc")
  /\ UNCHANGED <<phase, svc, nextDep, docker, active, run, sweep, stop, del, tasks, left>>

\* Whether the service was serving was read when the deploy was requested.
\* last_failed_deployment_id is a foreign key too; its error is swallowed and
\* ends the handler.
SettleService(r) ==
  LET failed == run[r].out = "failed" IN
  /\ pc[r] = "settleSvc"
  /\ IF failed /\ row[run[r].dep].status = "none"
     THEN Goto(r, "close") /\ UNCHANGED svc
     ELSE /\ svc' = [svc EXCEPT
               !.status = IF run[r].serving THEN "running"
                          ELSE IF failed THEN "failed" ELSE "idle",
               !.lastFailed = IF failed THEN run[r].dep ELSE @]
          /\ Goto(r, "settleCtr")
  /\ UNCHANGED <<phase, row, nextDep, docker, active, run, sweep, stop, del, tasks, left>>

\* Mutant: a cancelled run leaves its candidate container.
SettleContainerFailedOnly(r) ==
  /\ pc[r] = "settleCtr"
  /\ ctr' = [ctr EXCEPT ![run[r].dep] = IF run[r].out = "failed" THEN "none" ELSE @]
  /\ Goto(r, "close")
  /\ UNCHANGED <<phase, db, built, active, run, sweep, stop, del, tasks, left>>

\* removeContainerIfExists: forced, and silent when Docker is down.
SettleContainer(r) ==
  /\ pc[r] = "settleCtr"
  /\ \/ ctr' = [ctr EXCEPT ![run[r].dep] = "none"] /\ UNCHANGED left
     \/ Spend("docker") /\ UNCHANGED ctr
  /\ Goto(r, "close")
  /\ UNCHANGED <<phase, db, built, active, run, sweep, stop, del, tasks>>

Close(r) ==
  /\ pc[r] = "close"
  /\ Unregister(r)
  /\ UNCHANGED <<phase, db, docker, sweep, stop, del, tasks, left>>

\* A query of this run throws.  Before the pipeline is launched the error goes
\* to the caller and nothing removes the entry, which names the deployment if the
\* INSERT has answered; in settleFailure it is swallowed.
DbFault(r) ==
  /\ Spend("db")
  /\ \/ /\ pc[r] \in {"read", "fresh"} \cup RegisteringPcs
        /\ Goto(r, "idle")
        /\ \E known \in {run[r].dep, run[r].inserted} :
             run' = [run EXCEPT ![r] = [NoLocals EXCEPT !.dep = known]]
     \/ /\ pc[r] \in {"adoptImage", "markBuild", "markRelease", "swapDep",
                      "swapSvc", "swapPrev"}
        /\ Fail(r)
     \/ /\ pc[r] \in {"settleDep", "settleSvc"}
        /\ Goto(r, "close") /\ UNCHANGED run
  /\ UNCHANGED <<phase, db, docker, active, sweep, stop, del, tasks>>

RunStep(r) ==
  \/ ReadService(r) \/ InsertRow(r) \/ MarkDeploying(r)
  \/ ReadFresh(r) \/ UseStoredImage(r) \/ ResolveRef(r) \/ MarkBuilding(r)
  \/ BuildImage(r) \/ MarkReleasing(r) \/ LaunchContainer(r)
  \/ StartProbe(r) \/ Healthy(r) \/ RunFails(r)
  \/ SwapDeployment(r) \/ SwapService(r) \/ SupersedePrevious(r) \/ Finish(r)
  \/ SettleDeployment(r) \/ SettleService(r) \/ SettleContainer(r) \/ Close(r)

(* ----------------------- stopService, startService ------------------- *)

StopRead ==
  /\ phase = "up" /\ stop.pc = "idle" /\ svc.desired = "running"
  /\ Spend("toggle")
  /\ stop' = [pc |-> "write", dep |-> svc.current]
  /\ UNCHANGED <<phase, db, docker, active, pc, run, sweep, del, tasks>>

StopWrite ==
  /\ stop.pc = "write"
  /\ svc' = [svc EXCEPT !.desired = "stopped", !.status = "stopped"]
  /\ retire' = retire \cup ({stop.dep} \ {0})
  /\ stop' = NoCall
  /\ UNCHANGED <<phase, row, nextDep, docker, active, pc, run, sweep, del, prune, left>>

\* The row startService hands to sweepService is the one read here.
Snapshot(s, to) ==
  [sweep[s] EXCEPT !.pc = to, !.desired = svc.desired,
                   !.current = svc.current, !.status = svc.status]

StartRead ==
  /\ phase = "up" /\ sweep["start"].pc = "idle" /\ svc.desired = "stopped"
  /\ Spend("toggle")
  /\ sweep' = [sweep EXCEPT !["start"] = Snapshot("start", "write0")]
  /\ UNCHANGED <<phase, db, docker, active, pc, run, stop, del, tasks>>

StartWrite ==
  /\ sweep["start"].pc = "write0"
  /\ svc' = [svc EXCEPT !.desired = "running"]
  /\ sweep' = [sweep EXCEPT !["start"].pc = "svc"]
  /\ UNCHANGED <<phase, row, nextDep, docker, active, pc, run, stop, del, tasks, left>>

(* -------------------------------- sweep ------------------------------ *)

\* The entries' deployment ids are collected before the query is sent.
OwnedIds == IF active = NoRun THEN {} ELSE {run[active].dep}

TimerTick ==
  /\ TimerSweeps /\ phase = "up" /\ sweep["timer"].pc = "idle"
  /\ sweep' = [sweep EXCEPT !["timer"] =
                 [NoSweep EXCEPT !.pc = "select", !.owned = OwnedIds]]
  /\ UNCHANGED <<phase, db, docker, active, pc, run, stop, del, tasks, left>>

\* Mutant: rows being released are not looked for.
SweepSelectNoReleasing ==
  LET t == sweep["timer"] IN
  /\ t.pc = "select"
  /\ sweep' = [sweep EXCEPT !["timer"].pc = "fail", !["timer"].owned = {},
       !["timer"].stuck = {d \in Deps : row[d].status \in {"queued", "building"}} \ t.owned]
  /\ UNCHANGED <<phase, db, docker, active, pc, run, stop, del, tasks, left>>

SweepSelect ==
  LET t == sweep["timer"] IN
  /\ t.pc = "select"
  /\ sweep' = [sweep EXCEPT !["timer"].pc = "fail",
                 !["timer"].owned = {},
                 !["timer"].stuck = {d \in Deps : row[d].status \in InFlight} \ t.owned]
  /\ UNCHANGED <<phase, db, docker, active, pc, run, stop, del, tasks, left>>

\* 'Interrupted by restart': the update does not test the status again.
SweepFailRow(d) ==
  /\ sweep["timer"].pc = "fail" /\ d \in sweep["timer"].stuck
  /\ SetStatus(d, "failed")
  /\ sweep' = [sweep EXCEPT !["timer"].stuck = @ \ {d}]
  /\ UNCHANGED <<phase, svc, nextDep, docker, active, pc, run, stop, del, tasks, left>>

\* SELECT all services; this one's turn in the loop comes later.
SweepServices ==
  /\ sweep["timer"].pc = "fail" /\ sweep["timer"].stuck = {}
  /\ sweep' = [sweep EXCEPT !["timer"] = Snapshot("timer", "gate")]
  /\ UNCHANGED <<phase, db, docker, active, pc, run, stop, del, tasks, left>>

\* Skipped while a deploy is registered, or while Docker is down.
SweepGate ==
  /\ sweep["timer"].pc = "gate"
  /\ \/ active = NoRun /\ sweep' = [sweep EXCEPT !["timer"].pc = "svc"] /\ UNCHANGED left
     \/ active # NoRun /\ sweep' = [sweep EXCEPT !["timer"] = NoSweep] /\ UNCHANGED left
     \/ Spend("docker") /\ sweep' = [sweep EXCEPT !["timer"] = NoSweep]
  /\ UNCHANGED <<phase, db, docker, active, pc, run, stop, del, tasks>>

(* ---------------------------- sweepService --------------------------- *)
(* t is the sweep's copy of the service row, as old as its snapshot.      *)

Report(s, status) ==
  sweep' = [sweep EXCEPT ![s] = [NoSweep EXCEPT !.pc = "write", !.out = status]]
Done(s) == sweep' = [sweep EXCEPT ![s] = NoSweep]

Reconcile(s, how) ==
  sweep' = [sweep EXCEPT ![s] = [NoSweep EXCEPT !.pc = how, !.current = sweep[s].current]]

\* Mutant: a stopped service only has its status corrected.
SweepStoppedStatusOnly(s) ==
  LET t == sweep[s] IN
  /\ t.pc = "svc" /\ t.desired = "stopped"
  /\ IF t.status # "stopped" THEN Report(s, "stopped") ELSE Done(s)
  /\ UNCHANGED <<phase, db, docker, active, pc, run, stop, del, tasks, left>>

SweepStopped(s) ==
  LET t == sweep[s] IN
  /\ t.pc = "svc" /\ t.desired = "stopped"
  /\ IF t.current # 0 THEN StopAndRemove(t.current) ELSE UNCHANGED ctr
  /\ IF t.status # "stopped" THEN Report(s, "stopped") ELSE Done(s)
  /\ UNCHANGED <<phase, db, built, active, pc, run, stop, del, tasks, left>>

SweepIdle(s) ==
  LET t == sweep[s] IN
  /\ t.pc = "svc" /\ t.desired = "running" /\ t.current = 0
  /\ IF t.status = "running" THEN Report(s, "idle") ELSE Done(s)
  /\ UNCHANGED <<phase, db, docker, active, pc, run, stop, del, tasks, left>>

\* Read the release's row, then inspect its container.
SweepInspect(s) ==
  LET t == sweep[s] IN
  /\ t.pc = "svc" /\ t.desired = "running" /\ t.current # 0
  /\ IF row[t.current].status = "none" THEN Report(s, "idle")
     ELSE IF ctr[t.current] # "none" THEN Reconcile(s, "kick")
     ELSE IF row[t.current].image # 0 THEN Reconcile(s, "relaunch")
     ELSE Report(s, "idle")
  /\ UNCHANGED <<phase, db, docker, active, pc, run, stop, del, tasks, left>>

\* Recreate the container from the stored image; an existing one, a missing
\* image or a start that fails makes the service 'failed'.
SweepRelaunch(s) ==
  LET c == sweep[s].current
      able == ctr[c] = "none" /\ row[c].image \in built
  IN
  /\ sweep[s].pc = "relaunch"
  /\ \/ /\ ctr' = [ctr EXCEPT ![c] = IF able THEN "running" ELSE ctr[c]]
        /\ Report(s, IF able THEN "running" ELSE "failed")
        /\ UNCHANGED left
     \/ /\ able /\ Spend("docker")
        /\ ctr' = [ctr EXCEPT ![c] = "exited"]
        /\ Report(s, "failed")
  /\ UNCHANGED <<phase, db, built, active, pc, run, stop, del, tasks>>

\* Mutant: a container that is not running is reported, not started.
SweepKickReportOnly(s) ==
  /\ sweep[s].pc = "kick"
  /\ Report(s, IF ctr[sweep[s].current] = "running" THEN "running" ELSE "stopped")
  /\ UNCHANGED <<phase, db, docker, active, pc, run, stop, del, tasks, left>>

\* Network reconciliation may fail; otherwise start what is not running and
\* report what Docker says then.
SweepKick(s) ==
  LET c == sweep[s].current IN
  /\ sweep[s].pc = "kick"
  /\ \/ /\ ctr' = [ctr EXCEPT ![c] = IF ctr[c] = "exited" THEN "running" ELSE ctr[c]]
        /\ Report(s, IF ctr[c] = "none" THEN "stopped" ELSE "running")
        /\ UNCHANGED left
     \/ Spend("docker") /\ Report(s, "failed") /\ UNCHANGED ctr
  /\ UNCHANGED <<phase, db, built, active, pc, run, stop, del, tasks>>

SweepWrite(s) ==
  /\ sweep[s].pc = "write"
  /\ svc' = [svc EXCEPT !.status = sweep[s].out]
  /\ Done(s)
  /\ UNCHANGED <<phase, row, nextDep, docker, active, pc, run, stop, del, tasks, left>>

SweepService(s) ==
  \/ SweepStopped(s) \/ SweepIdle(s) \/ SweepInspect(s)
  \/ SweepRelaunch(s) \/ SweepKick(s) \/ SweepWrite(s)

TimerStep ==
  \/ SweepSelect \/ (\E d \in Deps : SweepFailRow(d)) \/ SweepServices
  \/ SweepGate \/ SweepService("timer")

StartStep == StartWrite \/ SweepService("start")

(* ------------------ deleteDeployment, background tasks ---------------- *)

DeleteRead(d) ==
  /\ phase = "up" /\ del.pc = "idle" /\ Spend("delete")
  /\ row[d].status # "none" /\ d # svc.current
  /\ del' = [pc |-> "ctr", dep |-> d]
  /\ UNCHANGED <<phase, db, docker, active, pc, run, sweep, stop, tasks>>

DeleteContainer ==
  /\ del.pc = "ctr"
  /\ ctr' = [ctr EXCEPT ![del.dep] = "none"]
  /\ built' = built \ {del.dep}
  /\ del' = [del EXCEPT !.pc = "row"]
  /\ UNCHANGED <<phase, db, active, pc, run, sweep, stop, tasks, left>>

\* Both references of the service row are ON DELETE SET NULL.
DeleteRow ==
  /\ del.pc = "row"
  /\ row' = [row EXCEPT ![del.dep] = NoRow]
  /\ svc' = [svc EXCEPT !.current = IF @ = del.dep THEN 0 ELSE @,
                          !.lastFailed = IF @ = del.dep THEN 0 ELSE @]
  /\ del' = NoCall
  /\ UNCHANGED <<phase, nextDep, docker, active, pc, run, sweep, stop, tasks, left>>

RetireContainer(d) ==
  /\ d \in retire
  /\ retire' = retire \ {d}
  /\ \/ StopAndRemove(d) /\ UNCHANGED left
     \/ Spend("docker") /\ UNCHANGED ctr
  /\ UNCHANGED <<phase, db, built, active, pc, run, sweep, stop, del, prune>>

Newer(i) == {j \in built : j > i}

\* Mutant: the tags are sorted the wrong way round.
PruneNewest(d) ==
  /\ d \in prune
  /\ prune' = prune \ {d}
  /\ built' = {i \in built : Cardinality({j \in built : j < i}) < KeepImages \/ i = d}
  /\ UNCHANGED <<phase, db, ctr, active, pc, run, sweep, stop, del, retire, left>>

\* Newest first, keepImages are kept, and the pruning deployment's own tag.  The
\* removal is forced: it unties a tag also while a container runs from the image.
PruneImages(d) ==
  /\ d \in prune
  /\ prune' = prune \ {d}
  /\ built' = {i \in built : Cardinality(Newer(i)) < KeepImages \/ i = d}
  /\ UNCHANGED <<phase, db, ctr, active, pc, run, sweep, stop, del, retire, left>>

(* --------------------------- the environment ------------------------- *)

Crash ==
  /\ phase # "down" /\ Spend("crash")
  /\ phase' = "down"
  /\ active' = NoRun
  /\ pc' = [r \in Runs |-> "idle"] /\ run' = [r \in Runs |-> NoLocals]
  /\ sweep' = [s \in Sweepers |-> NoSweep]
  /\ stop' = NoCall /\ del' = NoCall
  /\ retire' = {} /\ prune' = {}
  /\ UNCHANGED <<db, docker>>

\* The boot sweep runs before the server listens.
Restart ==
  /\ phase = "down"
  /\ phase' = "boot"
  /\ sweep' = [sweep EXCEPT !["timer"] = [NoSweep EXCEPT !.pc = "select"]]
  /\ UNCHANGED <<db, docker, active, pc, run, stop, del, tasks, left>>

Listen ==
  /\ phase = "boot" /\ sweep["timer"].pc = "idle"
  /\ phase' = "up"
  /\ UNCHANGED <<db, docker, active, pc, run, sweep, stop, del, tasks, left>>

\* A host reboot, an operator or the app itself takes a container down.
LoseContainer(d) ==
  /\ ctr[d] = "running" /\ Spend("lose")
  /\ \E now \in {"none", "exited"} : ctr' = [ctr EXCEPT ![d] = now]
  /\ UNCHANGED <<phase, db, built, active, pc, run, sweep, stop, del, tasks>>

Next ==
  \/ \E r \in Runs : Deploy(r) \/ Rollback(r) \/ RunStep(r) \/ DbFault(r)
  \/ Cancel
  \/ StopRead \/ StopWrite \/ StartRead \/ StartStep
  \/ TimerTick \/ TimerStep
  \/ \E d \in Deps : DeleteRead(d) \/ RetireContainer(d) \/ PruneImages(d) \/ LoseContainer(d)
  \/ DeleteContainer \/ DeleteRow
  \/ Crash \/ Restart \/ Listen

Spec == Init /\ [][Next]_vars

\* Every await of a started call ends (builds, probes and drains have time
\* limits), the process is restarted by its supervisor, the timer keeps firing.
Fairness ==
  /\ \A r \in Runs : WF_vars(RunStep(r))
  /\ WF_vars(StopWrite) /\ WF_vars(StartStep)
  /\ WF_vars(Restart \/ Listen \/ TimerTick \/ TimerStep)   \* one after the other
  /\ \A d \in Deps : WF_vars(RetireContainer(d))

LiveSpec == Spec /\ Fairness

(* ----------------------------- properties ---------------------------- *)

\* A run being settled is never the one serving: what settleFailure removes and
\* marks failed is the candidate ("fallback is structural", deployments.js).
FailingRunNeverServes ==
  \A r \in Runs : pc[r] \in Settling => run[r].dep # svc.current

\* An entry of activeRuns always belongs to a run that is still going, so the
\* service cannot answer 409 for ever.
RegistrationHasOwner == active # NoRun => pc[active] \in Registered

\* The 409 of startDeployment: one service never has two runs.
OneRunAtATime ==
  \A r, s \in Runs : pc[r] \in Registered /\ pc[s] \in Registered => r = s

\* While nobody stops the service and nothing kills its containers, the release
\* the proxy routes to is running, whatever deploys, cancels, failures, crashes
\* and sweeps do: the swap comes after the probe, the retirement after the swap.
NeverDark == svc.current # 0 => ctr[svc.current] = "running"

\* While nobody stops the service and nothing kills its containers, the engine is the
\* switch ReleaseSwitch describes: requests only ever go from one running release to
\* another one that already runs beside it.
Release == INSTANCE ReleaseSwitch
             WITH Releases <- Deps, serving <- svc.current,
                  up <- {d \in Deps : ctr[d] = "running"}

SwitchesReleases == Release!Spec

\* A row with a final status returns to life at no hands but one: the sweep may
\* mark the row of a run it takes for dead 'failed', and that run carries on.
NeverRevives ==
  [][\A d \in Deps :
       row'[d].status \in InFlight \cup {"live"} =>
         /\ row[d].status \notin {"cancelled", "superseded"}
         /\ row[d].status = "failed" =>
              \E r \in Runs : run[r].dep = d /\ pc[r] \in Pipeline]_vars

Quiet ==
  /\ \A r \in Runs : pc[r] = "idle"
  /\ \A s \in Sweepers : sweep[s].pc = "idle"
  /\ stop.pc = "idle" /\ del.pc = "idle" /\ retire = {}

\* Outside the swap's own steps a row is 'live' only if it is being served; with nothing
\* in progress, only the serving release has a container.
OnlyServingLives ==
  /\ (\A r \in Runs : pc[r] \notin {"swapSvc", "swapPrev"}) =>
       \A d \in Deps : row[d].status = "live" => d = svc.current
  /\ Quiet => \A d \in Deps : ctr[d] # "none" => d = svc.current

\* Nothing but retention takes an image: keepImages newer ones are stored.
Retained(i) == i \in built \/ Cardinality(Newer(i)) >= KeepImages

\* The image the serving release would be recreated from after a reboot is stored, or
\* keepImages newer ones are: a rollback serves an old image, and nothing spares it.
ServingImageRetained == svc.current # 0 => Retained(row[svc.current].image)

\* A run whose cancellation is registered before the last probe is sent ends
\* with its row 'cancelled'.
CancelTakesEffect ==
  \A r \in Runs, d \in Deps :
    (/\ run[r].cancelled /\ run[r].dep = d
     /\ pc[r] \in BeforeSwap \ {"probe"}) ~> row[d].status = "cancelled"

\* The entry a rejected query has left behind names this deployment, so that every
\* sweep takes its row for a run's.
Leaked(d) == active # NoRun /\ pc[active] = "idle" /\ run[active].dep = d

\* Every deployment ends: no row stays queued, building or releasing, even when the
\* process that ran it died, unless its entry has leaked and until the next restart.
RowsSettle ==
  \A d \in Deps : row[d].status \in InFlight ~> row[d].status \notin InFlight \/ Leaked(d)

Running == IF svc.current = 0 THEN FALSE ELSE ctr[svc.current] = "running"
Startable ==
  IF svc.current = 0 THEN FALSE
  ELSE svc.desired = "running" /\ row[svc.current].image \in built

\* A service told to stop ends without a running release, even if a deploy
\* finished meanwhile and whatever failed, unless a rejected query has left its
\* entry in activeRuns, which makes every sweep pass it over.
StopHonoured == <>[](svc.desired = "stopped" /\ RegistrationHasOwner) => <>[]~Running

\* A released service that should run, and whose image is stored, ends up running
\* and reported so, whatever was lost (boot autostart), with the same exception.
SelfHeals ==
  <>[](Startable /\ RegistrationHasOwner) => <>[](Running /\ svc.status = "running")

(* ------------------------ inductive invariants ----------------------- *)

Holding == {"mark"} \cup Pipeline
Unserved == {"mark"} \cup BeforeSwap \cup {"swapDep", "swapSvc"} \cup Settling
Mine(r) == IF pc[r] = "mark" THEN run[r].inserted ELSE run[r].dep

\* Without database faults: every run has a deployment of its own, and until its
\* swap that deployment is not the one serving.
OwnershipInv ==
  /\ left["db"] = 0
  /\ svc.current < nextDep
  /\ \A r \in Runs : pc[r] \in Holding => Mine(r) < nextDep
  /\ \A r, s \in Runs :
       pc[r] \in Holding /\ pc[s] \in Holding /\ r # s => Mine(r) # Mine(s)
  /\ \A r \in Runs : pc[r] \in Unserved => Mine(r) # svc.current
  /\ RegistrationHasOwner

\* Nobody has stopped the service, and nobody deletes or kills.
Undisturbed ==
  /\ left["lose"] = 0 /\ left["delete"] = 0
  /\ svc.desired = "running"
  /\ stop.pc = "idle" /\ del.pc = "idle"
  /\ sweep["start"].pc = "idle" /\ sweep["timer"].desired = "running"

\* A deployment remembered as the previous one, or waiting to be retired, has
\* had its turn: no run still to be served holds it, and it does not serve.
RetireInv ==
  /\ \A r \in Runs :
       /\ run[r].prev < nextDep
       /\ \A s \in Runs : pc[s] \in Unserved => Mine(s) # run[r].prev
       /\ pc[r] \in {"swapPrev", "finish"} => run[r].prev = 0 \/ run[r].prev # svc.current
  /\ \A d \in retire :
       /\ d < nextDep /\ d # svc.current
       /\ \A s \in Runs : pc[s] \in Unserved => Mine(s) # d

CandidateRuns ==
  \A r \in Runs : pc[r] \in {"health", "probe", "swapDep", "swapSvc"} =>
                    ctr[run[r].dep] = "running"

\* Nobody deletes: the row a run holds exists until it is settled.
RowedInv ==
  /\ left["delete"] = 0 /\ del.pc = "idle"
  /\ \A r \in Runs : pc[r] \in Holding => row[Mine(r)].status # "none"
  /\ \A r \in Runs : pc[r] \in Settling => run[r].out # "none"

\* The image a release runs from stays in its row, and only retention takes it.
Imaged(r) ==
  /\ pc[r] = "adoptImage" => run[r].reuse # 0
  /\ pc[r] \in {"resolve", "markBuild", "build", "markRelease"} => run[r].reuse = 0
  /\ pc[r] \in {"build", "markRelease", "launch"} =>
       row[run[r].dep].image = IF run[r].reuse # 0 THEN run[r].reuse ELSE run[r].dep
  /\ pc[r] \in {"health", "probe", "swapDep", "swapSvc"} =>
       Retained(row[run[r].dep].image)

ImageInv ==
  /\ ServingImageRetained
  /\ \A r \in Runs : Imaged(r)

BlueGreenInv ==
  OwnershipInv /\ Undisturbed /\ RetireInv /\ CandidateRuns /\ NeverDark

\* A run that has still to make its deployment the serving one, and one that has not
\* even made its row 'live'.
Candidate == {"mark"} \cup BeforeSwap \cup {"swapDep", "swapSvc"}
Unswapped == Candidate \ {"swapSvc"}

\* Whatever fails, every row has one run at most that advances it, and neither the
\* service nor any run remembers a deployment that has still to have its turn.
TurnInv ==
  /\ svc.current < nextDep
  /\ \A d \in Deps : d >= nextDep => row[d].status = "none"
  /\ \A r \in Runs : run[r].prev < nextDep
  /\ \A r \in Runs : pc[r] \in Holding => Mine(r) < nextDep
  /\ \A r, s \in Runs :
       pc[r] \in Holding /\ pc[s] \in Holding /\ r # s => Mine(r) # Mine(s)
  /\ \A r \in Runs : pc[r] \in Candidate =>
       Mine(r) # svc.current /\ \A s \in Runs : Mine(r) # run[s].prev
  /\ \A r \in Runs : pc[r] \in Unswapped =>
       row[Mine(r)].status \notin {"cancelled", "superseded"}

=============================================================================

--------------------------- MODULE InstanceUpdater ---------------------------
(***************************************************************************)
(* The host worker that updates the instance it serves (scripts/updater):  *)
(* requests the core forwards to it (server.mjs), the update itself        *)
(* (engine.mjs) and what it does to the host (driver.mjs).                 *)
(*                                                                         *)
(* Two revisions are told apart, the one that runs first and the reviewed  *)
(* one.  The worker keeps its jobs in memory and saves them to state.json; *)
(* the world it changes is the core container, SSH, the database, the      *)
(* checkout with its UI, and maintenance.json, which makes the core refuse *)
(* writes.                                                                 *)
(***************************************************************************)
EXTENDS Integers, Sequences, SequencesExt

CONSTANTS
  Ids,     \* request ids
  Budget   \* bound: how often each fault happens

\* failure: a step of the driver throws; fault: a save is rejected; crash: the worker
\* dies; power: the host does.
Events == {"failure", "fault", "crash", "power"}

ASSUME ConstantsAssumption == Budget \in [Events -> Nat]

VARIABLES
  up,        \* the worker runs
  jobs,      \* its jobs, oldest first
  disk,      \* state.json
  busy,      \* the request whose job is being saved for the first time
  run,       \* where the operation of each job is, and the outcome it will record
  poisoned,  \* `saving` is a rejected promise: no later save succeeds
  world,     \* the host
  work,      \* what goes on in the core
  raced,     \* history: what the guard does not count, there when it counted or come since
  left       \* what is left of Budget

vars == <<up, jobs, disk, busy, run, poisoned, world, work, raced, left>>

Revision == {"old", "new"}
Active == {"checking", "running", "recovery_required"}
Status == Active \cup {"checked", "failed", "succeeded"}
Job == [id : Ids,
        operation : {"check", "apply"},
        status : Status,
        available : BOOLEAN,     \* plan.available
        quiesced : BOOLEAN,
        database : {"unchanged", "uncertain", "committed"}]
NewJob(id, operation) ==
  [id |-> id, operation |-> operation,
   status |-> IF operation = "apply" THEN "running" ELSE "checking",
   available |-> FALSE, quiesced |-> FALSE, database |-> "unchanged"]

World == [core : Revision \cup {"off"},
          image : Revision,                  \* of the core's container
          ssh : BOOLEAN,
          database : Revision,
          migration : {"no", "running", "committed", "rolled back"},
          release : Revision,                \* checkout and UI
          maintenance : BOOLEAN,             \* maintenance.json exists
          leftover : BOOLEAN]                \* history: a cleanup that failed left it behind
Instance(rev) == [core |-> rev, image |-> rev, ssh |-> TRUE, database |-> rev,
                  migration |-> "no", release |-> rev, maintenance |-> FALSE,
                  leftover |-> FALSE]

Tasks == {"agent", "deployment"}    \* what the guard counts
Uncounted == {"request", "ci"}

Saving == {"quiesce", "uncertain", "record"}
Resuming == {"resume", "resume ssh"}
Steps == {"prepare", "guard", "count", "stop", "stop ssh", "final", "migrate",
          "migrating", "activate", "health", "publish", "start ssh"}
Pcs == {"none", "plan", "catch", "cleanup", "settle"} \cup Saving \cup Resuming \cup Steps
Outcomes == {"checked", "failed", "succeeded", "recovery_required"}
NoRun == [pc |-> "none", outcome |-> "failed"]

TypeOK ==
  /\ up \in BOOLEAN /\ poisoned \in BOOLEAN
  /\ jobs \in Seq(Job) /\ disk \in Seq(Job)
  /\ busy \subseteq Ids
  /\ run \in [Ids -> [pc : Pcs, outcome : Outcomes]]
  /\ world \in World
  /\ work \subseteq Tasks \cup Uncounted /\ raced \subseteq Uncounted
  /\ left \in [Events -> Nat]

Init ==
  /\ up = TRUE /\ poisoned = FALSE /\ raced = {}
  /\ jobs = <<>> /\ disk = <<>>
  /\ busy = {}
  /\ run = [id \in Ids |-> NoRun]
  /\ world = Instance("old")
  /\ work = {}
  /\ left = Budget

(* ------------------------------ helpers ----------------------------- *)

Spend(e) == left[e] > 0 /\ left' = [left EXCEPT ![e] = @ - 1]
Known(id) == \E n \in DOMAIN jobs : jobs[n].id = id
JobOf(id) == jobs[CHOOSE n \in DOMAIN jobs : jobs[n].id = id]
InFlight == {id \in Ids : run[id].pc # "none"}
AnyActive(s) == \E n \in DOMAIN s : s[n].status \in Active

SetJob(job) ==
  jobs' = [n \in DOMAIN jobs |-> IF jobs[n].id = job.id THEN job ELSE jobs[n]]
Goto(id, pc) == run' = [run EXCEPT ![id].pc = pc]
Ends(id, outcome) == run' = [run EXCEPT ![id] = [pc |-> "cleanup", outcome |-> outcome]]
CoreOff == /\ world' = [world EXCEPT !.core = "off"]
           /\ work' = {}

(* --------------------- requests to the control socket ----------------- *)

\* A repeated id is answered with its job; anything else refused changes nothing.
Accept(id, operation) ==
  /\ up /\ busy = {} /\ ~Known(id)
  /\ InFlight = {} /\ ~AnyActive(jobs)
  /\ operation = "apply" =>
       jobs # <<>> /\ Last(jobs).status = "checked" /\ Last(jobs).available
  /\ jobs' = Append(jobs, NewJob(id, operation))
  /\ busy' = {id}
  /\ UNCHANGED <<up, disk, run, poisoned, world, work, raced, left>>

Begin(id) ==
  /\ id \in busy /\ ~poisoned
  /\ disk' = jobs /\ busy' = {}
  /\ Goto(id, IF JobOf(id).operation = "apply" THEN "prepare" ELSE "plan")
  /\ UNCHANGED <<up, jobs, poisoned, world, work, raced, left>>

\* The save is rejected: 400, and the job stays in memory.
AcceptFault(id) ==
  /\ id \in busy
  /\ \/ poisoned /\ UNCHANGED left
     \/ Spend("fault")
  /\ poisoned' = TRUE /\ busy' = {}
  /\ UNCHANGED <<up, jobs, disk, run, world, work, raced>>

\* POST /shutdown, before the worker is replaced.
Shutdown ==
  /\ up /\ busy = {} /\ InFlight = {} /\ ~AnyActive(jobs)
  /\ up' = FALSE /\ jobs' = <<>>
  /\ UNCHANGED <<disk, busy, run, poisoned, world, work, raced, left>>

Plan(id) ==
  /\ run[id].pc = "plan"
  /\ \E outcome \in {"checked", "failed"} :
       run' = [run EXCEPT ![id] = [pc |-> "settle", outcome |-> outcome]]
  /\ SetJob([JobOf(id) EXCEPT !.available = world.release = "old"])
  /\ UNCHANGED <<up, disk, busy, poisoned, world, work, raced, left>>

(* ----------------------------- the update ----------------------------- *)

\* Recheck, candidate images, first backup, rehearsal: production is not touched.
Prepare(id) ==
  /\ run[id].pc = "prepare"
  /\ Goto(id, "guard")
  /\ UNCHANGED <<up, jobs, disk, busy, poisoned, world, work, raced, left>>

\* Mutant: writes are not paused before the activity is counted.
GuardLeavesOpen(id) ==
  /\ run[id].pc = "guard"
  /\ Goto(id, "count")
  /\ UNCHANGED <<up, jobs, disk, busy, poisoned, world, work, raced, left>>

Guard(id) ==
  /\ run[id].pc = "guard"
  /\ world' = [world EXCEPT !.maintenance = TRUE]
  /\ Goto(id, "count")
  /\ UNCHANGED <<up, jobs, disk, busy, poisoned, work, raced, left>>

\* Agents and deployments are counted; CI runs are not.
GuardCounts(id) ==
  /\ run[id].pc = "count"
  /\ IF work \cap Tasks # {}
     THEN Goto(id, "catch") /\ UNCHANGED jobs
     ELSE Goto(id, "quiesce") /\ SetJob([JobOf(id) EXCEPT !.quiesced = TRUE])
  /\ raced' = work \cap Uncounted
  /\ UNCHANGED <<up, disk, busy, poisoned, world, work, left>>

\* `await save()`: what memory says becomes durable before the next command.
Save(id) ==
  /\ run[id].pc \in Saving /\ ~poisoned
  /\ disk' = jobs
  /\ Goto(id, CASE run[id].pc = "quiesce" -> "stop"
                [] run[id].pc = "uncertain" -> "migrate"
                [] OTHER -> IF JobOf(id).database = "committed" THEN "activate" ELSE "catch")
  /\ UNCHANGED <<up, jobs, busy, poisoned, world, work, raced, left>>

StopCore(id) ==
  /\ run[id].pc = "stop"
  /\ CoreOff
  /\ Goto(id, "stop ssh")
  /\ UNCHANGED <<up, jobs, disk, busy, poisoned, raced, left>>

StopSsh(id) ==
  /\ run[id].pc = "stop ssh"
  /\ world' = [world EXCEPT !.ssh = FALSE]
  /\ Goto(id, "final")
  /\ UNCHANGED <<up, jobs, disk, busy, poisoned, work, raced, left>>

FinalBackup(id) ==
  /\ run[id].pc = "final"
  /\ SetJob([JobOf(id) EXCEPT !.database = "uncertain"])
  /\ Goto(id, "uncertain")
  /\ UNCHANGED <<up, disk, busy, poisoned, world, work, raced, left>>

MigrationStarts(id) ==
  /\ run[id].pc = "migrate"
  /\ world' = [world EXCEPT !.migration = "running"]
  /\ Goto(id, "migrating")
  /\ UNCHANGED <<up, jobs, disk, busy, poisoned, work, raced, left>>

\* The migration container: one transaction, which outlives the worker.
MigrationEnds ==
  /\ world.migration = "running"
  /\ \/ world' = [world EXCEPT !.migration = "committed", !.database = "new"]
     \/ world' = [world EXCEPT !.migration = "rolled back"]
  /\ UNCHANGED <<up, jobs, disk, busy, run, poisoned, work, raced, left>>

\* A verified report, or a lost one (Throws): then the database stays 'uncertain'.
MigrationReported(id) ==
  /\ run[id].pc = "migrating" /\ world.migration \in {"committed", "rolled back"}
  /\ SetJob([JobOf(id) EXCEPT !.database =
       IF world.migration = "committed" THEN "committed" ELSE "unchanged"])
  /\ Goto(id, "record")
  /\ UNCHANGED <<up, disk, busy, poisoned, world, work, raced, left>>

Activate(id) ==
  /\ run[id].pc = "activate"
  /\ world' = [world EXCEPT !.core = "new", !.image = "new"]
  /\ Goto(id, "health")
  /\ UNCHANGED <<up, jobs, disk, busy, poisoned, work, raced, left>>

Health(id) ==
  /\ run[id].pc = "health"
  /\ Goto(id, "publish")
  /\ UNCHANGED <<up, jobs, disk, busy, poisoned, world, work, raced, left>>

Publish(id) ==
  /\ run[id].pc = "publish"
  /\ world' = [world EXCEPT !.release = "new"]
  /\ Goto(id, "start ssh")
  /\ UNCHANGED <<up, jobs, disk, busy, poisoned, work, raced, left>>

StartSsh(id) ==
  /\ run[id].pc \in {"start ssh", "resume ssh"}
  /\ world' = [world EXCEPT !.ssh = TRUE]
  /\ Ends(id, IF run[id].pc = "start ssh" THEN "succeeded" ELSE "failed")
  /\ UNCHANGED <<up, jobs, disk, busy, poisoned, work, raced, left>>

\* A step throws, or a save of it is rejected.  Nothing is rolled back here.
Throws(id) ==
  /\ run[id].pc \in Steps \cup Saving \cup Resuming
  /\ \/ run[id].pc \notin Saving /\ Spend("failure") /\ UNCHANGED poisoned
     \/ Spend("fault") /\ poisoned' = TRUE
  /\ IF run[id].pc \in Resuming THEN Ends(id, "recovery_required") ELSE Goto(id, "catch")
  /\ UNCHANGED <<up, jobs, disk, busy, world, work, raced>>

\* Mutant: previous services are restored whatever happened to the database.
CatchRollsBack(id) ==
  /\ run[id].pc = "catch"
  /\ IF ~JobOf(id).quiesced THEN Ends(id, "failed")
     ELSE IF poisoned THEN Ends(id, "recovery_required") ELSE Goto(id, "resume")
  /\ UNCHANGED <<up, jobs, disk, busy, poisoned, world, work, raced, left>>

\* Mutant: a failed update is recorded as failed, services stopped or not.
CatchFails(id) ==
  /\ run[id].pc = "catch"
  /\ IF JobOf(id).quiesced /\ JobOf(id).database = "unchanged" /\ ~poisoned
     THEN Goto(id, "resume") ELSE Ends(id, "failed")
  /\ UNCHANGED <<up, jobs, disk, busy, poisoned, world, work, raced, left>>

\* Nothing stopped yet: failed.  Database unchanged: the previous services come back.
\* Otherwise everything stays stopped for the operator.
Catch(id) ==
  /\ run[id].pc = "catch"
  /\ IF ~JobOf(id).quiesced THEN Ends(id, "failed") /\ UNCHANGED <<world, work, left>>
     ELSE IF JobOf(id).database = "unchanged"
     THEN /\ IF poisoned THEN Ends(id, "recovery_required") ELSE Goto(id, "resume")
          /\ UNCHANGED <<world, work, left>>
     ELSE /\ Ends(id, "recovery_required")
          /\ \/ /\ world' = [world EXCEPT !.core = "off", !.ssh = FALSE]
                /\ work' = {} /\ UNCHANGED left
             \/ Spend("failure") /\ UNCHANGED <<world, work>>
  /\ UNCHANGED <<up, jobs, disk, busy, poisoned, raced>>

ResumeOld(id) ==
  /\ run[id].pc = "resume"
  /\ world' = [world EXCEPT !.core = "old", !.image = "old"]
  /\ Goto(id, "resume ssh")
  /\ UNCHANGED <<up, jobs, disk, busy, poisoned, work, raced, left>>

\* Writes are open again, unless the operator has to recover, or the file cannot be removed:
\* the error of a cleanup is only a warning in the record.
Cleanup(id) ==
  /\ run[id].pc = "cleanup"
  /\ \/ /\ world' = [world EXCEPT !.maintenance = @ /\ run[id].outcome = "recovery_required",
                                 !.leftover = @ /\ run[id].outcome = "recovery_required"]
        /\ UNCHANGED left
     \/ /\ run[id].outcome # "recovery_required" /\ Spend("failure")
        /\ world' = [world EXCEPT !.leftover = @ \/ world.maintenance]
  /\ Goto(id, "settle")
  /\ UNCHANGED <<up, jobs, disk, busy, poisoned, work, raced>>

Settle(id) ==
  /\ run[id].pc = "settle" /\ ~poisoned
  /\ SetJob([JobOf(id) EXCEPT !.status = run[id].outcome])
  /\ disk' = jobs'
  /\ run' = [run EXCEPT ![id] = NoRun]
  /\ UNCHANGED <<up, busy, poisoned, world, work, raced, left>>

(* ------------------------ crashes and recovery ------------------------ *)

Die == /\ up' = FALSE
       /\ jobs' = <<>> /\ busy' = {}
       /\ run' = [id \in Ids |-> NoRun]
       /\ poisoned' = FALSE

\* A last save that is rejected closes the servers: the process ends.
SettleFault(id) ==
  /\ run[id].pc = "settle"
  /\ \/ poisoned /\ UNCHANGED left
     \/ Spend("fault")
  /\ Die
  /\ UNCHANGED <<disk, world, work, raced>>

Crash ==
  /\ up /\ Spend("crash")
  /\ Die
  /\ UNCHANGED <<disk, world, work, raced>>

\* Docker restarts every container (`restart: always`), a stopped one too.  The file
\* that guard wrote may not have reached the disk.
PowerLoss ==
  /\ Spend("power")
  /\ Die
  /\ \E kept \in BOOLEAN :
       world' = [world EXCEPT !.core = world.image, !.ssh = TRUE,
                   !.migration = IF @ = "running" THEN "rolled back" ELSE @,
                   !.maintenance = @ /\ kept]
  /\ work' = {}
  /\ UNCHANGED <<disk, raced>>

\* Mutant: the write pause is not established again.
BootOpen ==
  /\ ~up /\ up' = TRUE
  /\ disk' = [n \in DOMAIN disk |-> IF disk[n].status \in {"checking", "running"}
                                    THEN [disk[n] EXCEPT !.status = "recovery_required"] ELSE disk[n]]
  /\ jobs' = disk'
  /\ UNCHANGED <<busy, run, poisoned, world, work, raced, left>>

\* Mutant: interrupted jobs are left as they are.
BootAsSaved ==
  /\ ~up /\ up' = TRUE
  /\ jobs' = disk
  /\ UNCHANGED <<disk, busy, run, poisoned, world, work, raced, left>>

\* recoverInterrupted; no command is repeated, only the write pause is.
Boot ==
  /\ ~up /\ up' = TRUE
  /\ disk' = [n \in DOMAIN disk |-> IF disk[n].status \in {"checking", "running"}
                                    THEN [disk[n] EXCEPT !.status = "recovery_required"] ELSE disk[n]]
  /\ jobs' = disk'
  /\ world' = [world EXCEPT !.maintenance = @ \/ \E n \in DOMAIN disk' :
                 /\ disk'[n].status = "recovery_required"
                 /\ disk'[n].quiesced \/ disk'[n].database # "unchanged"]
  /\ UNCHANGED <<busy, run, poisoned, work, raced, left>>

\* External: the operator repairs the instance with the worker stopped, verifies it, and
\* runs --ack-recovery.
AckRecovery ==
  /\ ~up /\ AnyActive(disk) /\ world.migration # "running"
  /\ disk' = [n \in DOMAIN disk |-> IF disk[n].status \in Active
                                    THEN [disk[n] EXCEPT !.status = "failed"] ELSE disk[n]]
  /\ world' = Instance(world.database)
  /\ UNCHANGED <<up, jobs, busy, run, poisoned, work, raced, left>>

(* ------------------------- work in the core --------------------------- *)

Serving == world.core # "off"

\* updateMaintenance looks once, when the request comes in.
RequestPasses ==
  /\ Serving /\ ~world.maintenance
  /\ work' = work \cup {"request"}
  /\ UNCHANGED <<up, jobs, disk, busy, run, poisoned, world, raced, left>>

\* It starts an agent, a deployment or a CI run; a CI run may deploy, too.
WorkStarts ==
  /\ \/ "request" \in work /\ \E w \in Tasks \cup {"ci"} : work' = (work \ {"request"}) \cup {w}
     \/ "ci" \in work /\ work' = work \cup {"deployment"}
  /\ UNCHANGED <<up, jobs, disk, busy, run, poisoned, world, raced, left>>

\* The schedule timer of the core (or its security scan) starts a CI run, writes paused or
\* not: only requests are refused.
ScheduleTick ==
  /\ Serving
  /\ work' = work \cup {"ci"} /\ raced' = raced \cup {"ci"}
  /\ UNCHANGED <<up, jobs, disk, busy, run, poisoned, world, left>>

WorkEnds ==
  /\ \E w \in work : work' = work \ {w}
  /\ UNCHANGED <<up, jobs, disk, busy, run, poisoned, world, raced, left>>

OpStep(id) ==
  \/ Begin(id) \/ Plan(id)
  \/ Prepare(id) \/ Guard(id) \/ GuardCounts(id) \/ Save(id) \/ StopCore(id) \/ StopSsh(id)
  \/ FinalBackup(id) \/ MigrationStarts(id) \/ MigrationReported(id)
  \/ Activate(id) \/ Health(id) \/ Publish(id) \/ StartSsh(id)
  \/ Catch(id) \/ ResumeOld(id) \/ Cleanup(id) \/ Settle(id) \/ SettleFault(id)

Next ==
  \/ \E id \in Ids :
       \/ \E operation \in {"check", "apply"} : Accept(id, operation)
       \/ OpStep(id) \/ AcceptFault(id) \/ Throws(id)
  \/ MigrationEnds
  \/ Shutdown \/ Crash \/ PowerLoss \/ Boot \/ AckRecovery
  \/ RequestPasses \/ WorkStarts \/ ScheduleTick \/ WorkEnds

Spec == Init /\ [][Next]_vars

\* Every command of the driver has a time limit, PostgreSQL ends a transaction, and
\* systemd restarts the worker.
LiveSpec ==
  /\ Spec
  /\ \A id \in Ids : WF_vars(OpStep(id))
  /\ WF_vars(MigrationEnds) /\ WF_vars(Boot)

(* ----------------------------- properties ---------------------------- *)

\* While the worker runs, a core that is not of the database's revision takes no
\* writes, whichever command failed, whenever worker or host died.
WritesPaused == up /\ Serving /\ world.core # world.database => world.maintenance

\* The worker starts the previous core only on a database that is unchanged and stays
\* so: a lost COMMIT response or a restart never leads to a blind rollback.
NoBlindRollback ==
  [][up /\ up' /\ world.core = "off" /\ world'.core = "old" =>
       world.database = "old" /\ world.migration # "running"]_vars

\* What the last record says is how the instance is: after 'succeeded' everything is of
\* the new revision, after 'failed' everything is of one revision, as before the update or
\* as the operator left it, and it is open for writes, unless removing maintenance.json
\* failed, which the worker does not take for a failure.
OutcomeIsTrue ==
  up /\ InFlight = {} /\ disk # <<>> /\ Last(disk).operation = "apply" =>
    /\ Last(disk).status \in {"succeeded", "failed"} =>
         /\ world.ssh /\ \A part \in {"image", "database", "release"} : world[part] = world.core
         /\ world.maintenance => world.leftover
    /\ Last(disk).status = "succeeded" => world.core = "new" /\ world.migration = "committed"

\* The update stops no agent, except one started by a request that had passed before writes
\* were paused, and no deployment, except one started by such a request, by a CI run that
\* went on then or by one a timer of the core has started since.
NoWorkCut ==
  [][up /\ up' /\ Serving /\ world'.core = "off" =>
       /\ "agent" \in work => "request" \in raced
       /\ "deployment" \in work => raced # {}]_vars

\* Every accepted operation is recorded as settled, crashes included.
OperationsSettle ==
  \A id \in Ids :
    (\E n \in DOMAIN disk : disk[n].id = id /\ disk[n].status \in {"checking", "running"}) ~>
    (\E n \in DOMAIN disk : disk[n].id = id /\ disk[n].status \notin {"checking", "running"})

=============================================================================

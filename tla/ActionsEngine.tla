---------------------------- MODULE ActionsEngine ---------------------------
(***************************************************************************)
(* The CI engine (backend/src/lib/actions.js): runs, their jobs and the    *)
(* concurrency slots all runs of the instance share.                       *)
(*                                                                         *)
(* As in DeployEngine one action is the code between two awaits: the       *)
(* continuation after one await, and the effect of the next call it waits  *)
(* for.  An UPDATE ... RETURNING takes effect in one action and its row    *)
(* replaces the in-memory one (job.row) only in the next: mem and dbJob    *)
(* differ in between, and that is where the engine's races live.           *)
(***************************************************************************)
EXTENDS Integers, FiniteSets

CONSTANTS
  Runs,         \* workflow runs
  Jobs,         \* their matrix-expanded jobs, numbered in creation order
  RunOf,        \* the run of a job
  Needs,        \* the jobs, all legs included, that a job's `needs` names
  Legs,         \* the other legs of a job's fail-fast matrix
  Soft,         \* jobs with continue-on-error
  Cond,         \* the job-level `if`
  Context,      \* statusContext of a job: jobs of one name share it, in a run and its reruns
  Concurrency,  \* NIXRE_ACTIONS_CONCURRENCY
  Budget        \* bound: how often each fault or request happens

\* fault: Postgres rejects a query, or Docker does not remove a container.
Events == {"cancel", "crash", "fault"}

ASSUME ConstantsAssumption ==
  /\ Jobs \subseteq Nat \ {0} /\ IsFiniteSet(Jobs)
  /\ Runs \cap Jobs = {}
  /\ RunOf \in [Jobs -> Runs]
  /\ Needs \in [Jobs -> SUBSET Jobs] /\ Legs \in [Jobs -> SUBSET Jobs]
  /\ \A j \in Jobs : \A k \in Needs[j] \cup Legs[j] : RunOf[k] = RunOf[j] /\ k # j
  /\ Soft \subseteq Jobs
  /\ Cond \in [Jobs -> {"success", "always", "failure", "invalid"}]
  /\ Concurrency \in Nat \ {0}
  /\ Budget \in [Events -> Nat]

Conclusions == {"success", "failure", "cancelled", "skipped"}
Row == [st : {"none", "queued", "running", "completed"},
        con : Conclusions \cup {"none"}]
NoRow == [st |-> "none", con |-> "none"]
Queued == [st |-> "queued", con |-> "none"]
InProgress == [st |-> "running", con |-> "none"]
Completed(con) == [st |-> "completed", con |-> con]

\* A row of commit_statuses, the last report for its context, and the job that made it.
Checks == {Context[j] : j \in Jobs}
NoCheck == [state |-> "none", of |-> 0]
CheckRow == [state : {"pending", "success", "failure", "error"}, of : Jobs]

VARIABLES
  phase,    \* "up", "down", or the step of the boot sweep
  dbRun,    \* workflow_runs
  dbJob,    \* workflow_jobs
  status,   \* commit_statuses of the commit, by context
  box,      \* jobs whose container exists
  mem,      \* job.row
  ret,      \* the row an UPDATE of runJob returned, not yet assigned to job.row
  pc,       \* the await at which a job's runJob is suspended
  ctl,      \* job.controller
  out,      \* jobStatus
  enq,      \* jobs with job.enqueued
  ready,    \* jobs waiting for a slot (a FIFO in the code)
  running,  \* slots taken
  st,       \* per run: is it in `active`, and the flags of its state object
  make,     \* createRun of a run, and the last job it handled
  skip,     \* the loop of cancel (per run) or of fail-fast (per job)
  swept,    \* jobs the boot sweep has closed and not yet reported
  left      \* what is left of Budget

db == <<dbRun, dbJob, status>>
slots == <<enq, ready, running, pc>>
job == <<mem, ret, ctl, out>>
vars == <<phase, db, box, job, slots, st, make, skip, swept, left>>

Pcs == {"idle", "secrets", "running", "runMark", "setup", "steps", "exec",
        "saved", "finish", "report", "reported", "failFast"}
Flags == [live : BOOLEAN, cancelled : BOOLEAN, started : BOOLEAN,
          fin : {"open", "closing", "closed", "lost"}]
NoFlags == [live |-> FALSE, cancelled |-> FALSE, started |-> FALSE, fin |-> "open"]
MakePcs == {"idle", "row", "job", "status", "abort", "abortJob", "abortStatus"}
NoMake == [pc |-> "idle", at |-> 0]
NoSkip == [pc |-> "idle", at |-> 0]
Skippers == Runs \cup Jobs

ChecksTyped ==
  /\ status \in [Checks -> CheckRow \cup {NoCheck}]
  /\ \A c \in Checks : status[c] # NoCheck => Context[status[c].of] = c

StoredTypes ==
  /\ phase \in {"up", "down", "runs", "statuses"}
  /\ dbRun \in [Runs -> Row] /\ dbJob \in [Jobs -> Row]
  /\ ChecksTyped
  /\ box \in SUBSET Jobs /\ swept \in SUBSET Jobs

JobTypes ==
  /\ mem \in [Jobs -> Row] /\ ret \in [Jobs -> Row]
  /\ ctl \in [Jobs -> {"none", "live", "aborted"}]
  /\ out \in [Jobs -> Conclusions \cup {"none"}]

SlotTypes ==
  /\ pc \in [Jobs -> Pcs]
  /\ enq \in SUBSET Jobs /\ ready \in SUBSET Jobs
  /\ running \in Int

RunTypes ==
  /\ st \in [Runs -> Flags]
  /\ make \in [Runs -> [pc : MakePcs, at : Jobs \cup {0}]]
  /\ \A r \in Runs : make[r].pc \in {"job", "abortJob"} => make[r].at \in Jobs
  /\ skip \in [Skippers -> [pc : {"idle", "update", "status"}, at : Jobs \cup {0}]]
  /\ \A x \in Skippers : skip[x].pc = "update" => skip[x].at \in Jobs
  /\ left \in [Events -> Nat]

TypeOK == StoredTypes /\ JobTypes /\ SlotTypes /\ RunTypes

InitMemory ==
  /\ mem = [j \in Jobs |-> NoRow] /\ ret = [j \in Jobs |-> NoRow]
  /\ pc = [j \in Jobs |-> "idle"]
  /\ ctl = [j \in Jobs |-> "none"] /\ out = [j \in Jobs |-> "none"]
  /\ enq = {} /\ ready = {} /\ running = 0
  /\ st = [r \in Runs |-> NoFlags]
  /\ make = [r \in Runs |-> NoMake]
  /\ skip = [x \in Skippers |-> NoSkip]

Init ==
  /\ phase = "up"
  /\ dbRun = [r \in Runs |-> NoRow] /\ dbJob = [j \in Jobs |-> NoRow]
  /\ status = [c \in Checks |-> NoCheck]
  /\ box = {} /\ swept = {}
  /\ InitMemory
  /\ left = Budget

(* ------------------------------ helpers ----------------------------- *)

Busy == {j \in Jobs : pc[j] # "idle"}                 \* runJob calls under way
JobsOf(r) == {j \in Jobs : RunOf[j] = r}
Present(r) == {j \in JobsOf(r) : mem[j].st # "none"}   \* state.jobs, so far
First(S) == CHOOSE j \in S : \A k \in S : j <= k
\* Mutant: a job that waits for its slot does not hold the run open.
NoneRunning(r) == \A j \in Present(r) : mem[j].st # "running"
AllCompleted(r) == \A j \in Present(r) : mem[j].st = "completed"
\* setStatus: the report replaces whatever there was for the context.
Tell(j, state) == status' = [status EXCEPT ![Context[j]] = [state |-> state, of |-> j]]
Spend(e) == left[e] > 0 /\ left' = [left EXCEPT ![e] = @ - 1]

\* Mutant: cancelled jobs are forgotten.
VerdictWithoutCancelled(r, flags) ==
  LET failed == {j \in Present(r) : mem[j].con = "failure"} \ Soft IN
  IF flags[r].cancelled THEN "cancelled"
  ELSE IF failed # {} THEN "failure"
  ELSE IF \A j \in Present(r) : mem[j].con = "skipped" THEN "skipped"
  ELSE "success"

Verdict(r, flags) ==
  LET failed == {j \in Present(r) : mem[j].con = "failure"} \ Soft IN
  IF flags[r].cancelled THEN "cancelled"
  ELSE IF failed # {} THEN "failure"
  ELSE IF \E j \in Present(r) : mem[j].con = "cancelled" THEN "cancelled"
  ELSE IF \A j \in Present(r) : mem[j].con = "skipped" THEN "skipped"
  ELSE "success"

\* `needs` folded over all legs: failure, then cancelled, then skipped wins.
NeedResult(k) == IF k \in Soft /\ mem[k].con = "failure" THEN "success" ELSE mem[k].con

\* Mutant: the last leg's result replaces the others'.
WorstOfLastLeg(j) ==
  LET needed == Needs[j] \cap Present(RunOf[j]) IN
  IF needed = {} THEN "success"
  ELSE NeedResult(CHOOSE k \in needed : \A l \in needed : l <= k)

Worst(j) ==
  LET results == {NeedResult(k) : k \in Needs[j] \cap Present(RunOf[j])} IN
  IF "failure" \in results THEN "failure"
  ELSE IF "cancelled" \in results THEN "cancelled"
  ELSE IF results \ {"success"} # {} THEN "skipped"
  ELSE "success"

\* The job-level `if`, which a cancelled run does not evaluate.
Wanted(j) ==
  /\ ~st[RunOf[j]].cancelled
  /\ Cond[j] = "always" \/ Cond[j] = Worst(j)

Colour(con) ==
  CASE con \in {"success", "skipped"} -> "success"
    [] con = "cancelled" -> "error"
    [] OTHER -> "failure"

(* ------------------------ advance, pump, finishRun ------------------- *)

\* Mutant: a job whose answer from the database is late is queued again.
EligibleAgain(r) ==
  {j \in Present(r) :
     /\ mem[j].st = "queued" /\ j \notin ready
     /\ \A k \in Needs[j] \cap Present(r) : mem[k].st = "completed"}

Eligible(r) ==
  {j \in Present(r) :
     /\ mem[j].st = "queued" /\ j \notin enq
     /\ \A k \in Needs[j] \cap Present(r) : mem[k].st = "completed"}

\* pump: as many waiting jobs as there are free slots begin their runJob.
Pump(queue, busy, ended) ==
  \E S \in SUBSET queue :
    /\ busy + Cardinality(S) <= Concurrency
    /\ S = queue \/ busy + Cardinality(S) = Concurrency
    /\ ready' = queue \ S
    /\ running' = busy + Cardinality(S)
    /\ pc' = [j \in Jobs |-> IF j \in S THEN "secrets"
                             ELSE IF j \in ended THEN "idle" ELSE pc[j]]

\* finishRun up to its only await; `finishing` lets it happen once.
FinishRun(r, flags) ==
  IF AllCompleted(r) /\ flags[r].fin = "open"
  THEN /\ dbRun' = [dbRun EXCEPT ![r] = Completed(Verdict(r, flags))]
       /\ st' = [flags EXCEPT ![r].fin = "closing"]
  ELSE UNCHANGED dbRun /\ st' = flags

\* advance(state), after the runJob calls in ended have given up their slots and
\* with the runs' flags as they are by then.
Advance(r, ended, flags) ==
  /\ enq' = enq \cup Eligible(r)
  /\ Pump(ready \cup Eligible(r), running - Cardinality(ended), ended)
  /\ FinishRun(r, flags)

JobEnds(j) == Advance(RunOf[j], {j}, st)

CloseRun(r) ==
  /\ st[r].fin = "closing"
  /\ st' = [st EXCEPT ![r] = [@ EXCEPT !.fin = "closed", !.live = FALSE, !.started = TRUE]]
  /\ UNCHANGED <<phase, db, box, job, slots, make, skip, swept, left>>

\* Its query is rejected, applied or not: nobody removes the run from `active` or
\* closes it again.
CloseFault(r) ==
  /\ st[r].fin = "closing" /\ Spend("fault")
  /\ st' = [st EXCEPT ![r].fin = "lost"]
  /\ \E row \in {dbRun[r], IF st[r].started THEN InProgress ELSE Queued} :
       dbRun' = [dbRun EXCEPT ![r] = row]
  /\ UNCHANGED <<phase, dbJob, status, box, job, slots, make, skip, swept>>

(* ------------------------------ createRun ---------------------------- *)

Rest(r) == {j \in JobsOf(r) : j > make[r].at}

NewRun(r) ==
  /\ phase = "up" /\ dbRun[r] = NoRow
  /\ dbRun' = [dbRun EXCEPT ![r] = Queued]
  /\ make' = [make EXCEPT ![r].pc = "row"]
  /\ UNCHANGED <<phase, dbJob, status, box, job, slots, st, skip, swept, left>>

Enter(r) == [st EXCEPT ![r].live = @ \/ make[r].pc = "row"]   \* active.set

MakeJob(r) ==
  /\ make[r].pc \in {"row", "status"} /\ Rest(r) # {}
  /\ st' = Enter(r)
  /\ dbJob' = [dbJob EXCEPT ![First(Rest(r))] = Queued]
  /\ make' = [make EXCEPT ![r] = [pc |-> "job", at |-> First(Rest(r))]]
  /\ UNCHANGED <<phase, dbRun, status, box, job, slots, skip, swept, left>>

JobMade(r) ==
  /\ make[r].pc = "job"
  /\ mem' = [mem EXCEPT ![make[r].at] = Queued]
  /\ Tell(make[r].at, "pending")
  /\ make' = [make EXCEPT ![r].pc = "status"]
  /\ UNCHANGED <<phase, dbRun, dbJob, box, ret, ctl, out, slots, st, skip, swept, left>>

AllMade(r) ==
  /\ make[r].pc = "status" /\ Rest(r) = {}
  /\ Advance(r, {}, st)
  /\ make' = [make EXCEPT ![r] = NoMake]
  /\ UNCHANGED <<phase, dbJob, status, box, job, skip, swept, left>>

\* A matrix built from an expression, or a rejected query.
MakeFails(r) ==
  /\ \/ make[r].pc \in {"row", "status"} /\ UNCHANGED left
     \/ make[r].pc \in {"row", "job", "status"} /\ Spend("fault")
  /\ st' = [st EXCEPT ![r].live = FALSE]
  /\ dbRun' = [dbRun EXCEPT ![r] = Completed("failure")]
  /\ make' = [make EXCEPT ![r] = [pc |-> "abort", at |-> 0]]
  /\ UNCHANGED <<phase, dbJob, status, box, job, slots, skip, swept>>

\* The jobs made so far are closed one by one; job.row is not updated.
AbortJob(r) ==
  LET rest == Rest(r) \cap Present(r) IN
  /\ make[r].pc \in {"abort", "abortStatus"}
  /\ IF rest = {} THEN make' = [make EXCEPT ![r] = NoMake] /\ UNCHANGED dbJob
     ELSE /\ dbJob' = [dbJob EXCEPT ![First(rest)] = Completed("skipped")]
          /\ make' = [make EXCEPT ![r] = [pc |-> "abortJob", at |-> First(rest)]]
  /\ UNCHANGED <<phase, dbRun, status, box, job, slots, st, skip, swept, left>>

AbortStatus(r) ==
  /\ make[r].pc = "abortJob"
  /\ Tell(make[r].at, "error")
  /\ make' = [make EXCEPT ![r].pc = "abortStatus"]
  /\ UNCHANGED <<phase, dbRun, dbJob, box, job, slots, st, skip, swept, left>>

MakeStep(r) ==
  MakeJob(r) \/ JobMade(r) \/ AllMade(r) \/ AbortJob(r) \/ AbortStatus(r)

(* ------------------------------- runJob ------------------------------ *)

Goto(j, to) == pc' = [pc EXCEPT ![j] = to] /\ UNCHANGED <<enq, ready, running>>
Adopt(j) == mem' = [mem EXCEPT ![j] = ret[j]]      \* job.row = await updateJob(...)

\* Secrets are loaded: give up, skip, or claim the job as running.
Decide(j) ==
  LET cancelled == st[RunOf[j]].cancelled IN
  /\ pc[j] = "secrets"
  /\ IF mem[j].st = "completed"
     THEN JobEnds(j) /\ UNCHANGED <<dbJob, job>>
     ELSE /\ UNCHANGED <<dbRun, st, mem>>
          /\ IF Wanted(j)
             THEN /\ ctl' = [ctl EXCEPT ![j] = "live"]
                  /\ dbJob' = [dbJob EXCEPT ![j] = [@ EXCEPT !.st = "running"]]
                  /\ ret' = [ret EXCEPT ![j] = dbJob'[j]]
                  /\ Goto(j, "running") /\ UNCHANGED out
             ELSE /\ out' = [out EXCEPT ![j] = IF cancelled THEN "cancelled"
                                               ELSE IF Cond[j] = "invalid" THEN "failure"
                                               ELSE "skipped"]
                  /\ Goto(j, "finish") /\ UNCHANGED <<dbJob, ret, ctl>>
  /\ UNCHANGED <<phase, status, box, make, skip, swept, left>>

\* The first job of a run also marks the run as running.
MarkRun(j) ==
  LET r == RunOf[j] IN
  /\ pc[j] = "running"
  /\ Adopt(j)
  /\ IF st[r].started
     THEN Tell(j, "pending") /\ Goto(j, "setup") /\ UNCHANGED dbRun
     ELSE /\ dbRun' = [dbRun EXCEPT ![r].st = "running"]
          /\ Goto(j, "runMark") /\ UNCHANGED status
  /\ UNCHANGED <<phase, dbJob, box, ret, ctl, out, st, make, skip, swept, left>>

RunMarked(j) ==
  /\ pc[j] = "runMark"
  /\ st' = [st EXCEPT ![RunOf[j]].started = TRUE]
  /\ Tell(j, "pending")
  /\ Goto(j, "setup")
  /\ UNCHANGED <<phase, dbRun, dbJob, box, job, make, skip, swept, left>>

\* What an interrupted or failed wait can mean: an abort is a cancellation, or a
\* failure when the job's time limit made it.
Stopped(j) == IF ctl[j] = "aborted" THEN {"cancelled", "failure"} ELSE {"failure"}

\* runner.start leaves no container behind when it throws.
StartBox(j) ==
  /\ pc[j] = "setup"
  /\ \/ box' = box \cup {j} /\ Goto(j, "steps") /\ UNCHANGED out
     \/ \E o \in Stopped(j) : out' = [out EXCEPT ![j] = o] /\ Goto(j, "finish") /\ UNCHANGED box
  /\ UNCHANGED <<phase, db, mem, ret, ctl, st, make, skip, swept, left>>

\* finally: the container goes; a failed removal is ignored.
Remove(j) ==
  \/ box' = box \ {j} /\ UNCHANGED left
  \/ Spend("fault") /\ UNCHANGED box

\* One step stands for all: an aborted job runs no further step.
StepStart(j) ==
  /\ pc[j] = "steps"
  /\ IF ctl[j] = "aborted"
     THEN /\ \E o \in Stopped(j) : out' = [out EXCEPT ![j] = o]
          /\ Remove(j) /\ Goto(j, "finish") /\ UNCHANGED ret
     ELSE /\ ret' = [ret EXCEPT ![j] = dbJob[j]]
          /\ Goto(j, "exec") /\ UNCHANGED <<out, box, left>>
  /\ UNCHANGED <<phase, db, mem, ctl, st, make, skip, swept>>

\* The step's command, or the deployment it waits for, ends.
StepEnd(j) ==
  /\ pc[j] = "exec"
  /\ Adopt(j)
  /\ \E o \in {"success"} \cup Stopped(j) : out' = [out EXCEPT ![j] = o]
  /\ ret' = [ret EXCEPT ![j] = dbJob[j]]
  /\ Goto(j, "saved")
  /\ UNCHANGED <<phase, db, box, ctl, st, make, skip, swept, left>>

Destroy(j) ==
  /\ pc[j] = "saved"
  /\ Adopt(j)
  /\ Remove(j)
  /\ Goto(j, "finish")
  /\ UNCHANGED <<phase, db, ret, ctl, out, st, make, skip, swept>>

FinishJob(j) ==
  /\ pc[j] = "finish"
  /\ dbJob' = [dbJob EXCEPT ![j] = Completed(out[j])]
  /\ ret' = [ret EXCEPT ![j] = Completed(out[j])]
  /\ Goto(j, "report")
  /\ UNCHANGED <<phase, dbRun, status, box, mem, ctl, out, st, make, skip, swept, left>>

\* Mutant: a failure that does not fail the run is reported green.
ReportSoftGreen(j) ==
  /\ pc[j] = "report"
  /\ Adopt(j)
  /\ Tell(j, IF j \in Soft THEN "success" ELSE Colour(out[j]))
  /\ Goto(j, "reported")
  /\ UNCHANGED <<phase, dbRun, dbJob, box, ret, ctl, out, st, make, skip, swept, left>>

Report(j) ==
  /\ pc[j] = "report"
  /\ Adopt(j)
  /\ Tell(j, Colour(out[j]))
  /\ Goto(j, "reported")
  /\ UNCHANGED <<phase, dbRun, dbJob, box, ret, ctl, out, st, make, skip, swept, left>>

\* A rejected query outside the container's try block ends runJob at once; the
\* job is then left as it is.
JobFault(j) ==
  /\ pc[j] \in {"secrets", "running", "runMark", "setup", "finish", "report", "reported"}
  /\ Spend("fault")
  /\ JobEnds(j)
  /\ UNCHANGED <<phase, dbJob, status, box, job, make, skip, swept>>

(* ---------------------- cancel, fail-fast, skipQueued ----------------- *)

Scope(x) == IF x \in Runs THEN Present(x) ELSE Legs[x] \cap Present(RunOf[x])

\* The loop goes on after job `at`: it aborts what is not queued until it meets a
\* queued job, which it takes out of the queue and closes; fail-fast aborts the
\* controllers of queued jobs as well, and passes over completed ones.
LoopOn(x, at, flags) ==
  LET later == {k \in Scope(x) : k > at}
      queued == {k \in later : mem[k].st = "queued"}
      reached == IF queued = {} THEN later ELSE {k \in later : k <= First(queued)}
      stopped == IF x \in Runs THEN reached \ queued
                 ELSE {k \in reached : mem[k].st # "completed"}
  IN
  /\ ctl' = [k \in Jobs |-> IF k \in stopped /\ ctl[k] = "live" THEN "aborted" ELSE ctl[k]]
  /\ IF queued = {}
     THEN /\ skip' = [skip EXCEPT ![x] = NoSkip]
          /\ IF x \in Runs THEN Advance(x, {}, flags) ELSE JobEnds(x)
          /\ UNCHANGED dbJob
     ELSE LET q == First(queued) IN
          /\ skip' = [skip EXCEPT ![x] = [pc |-> "update", at |-> q]]
          /\ enq' = enq \cup {q} /\ ready' = ready \ {q}
          /\ dbJob' = [dbJob EXCEPT ![q] = Completed("cancelled")]
          /\ pc' = IF x \in Runs THEN pc ELSE [pc EXCEPT ![x] = "failFast"]
          /\ st' = flags
          /\ UNCHANGED <<running, dbRun>>

\* Bound: one call at a time for each run.
Cancel(r) ==
  /\ phase = "up" /\ st[r].live /\ skip[r].pc = "idle" /\ Spend("cancel")
  /\ LoopOn(r, 0, [st EXCEPT ![r].cancelled = TRUE])
  /\ UNCHANGED <<phase, status, box, mem, ret, out, make, swept>>

\* A job that ran and failed stops the other legs of its matrix.
JobOver(j) ==
  /\ pc[j] = "reported"
  /\ IF out[j] = "failure" /\ ctl[j] # "none"
     THEN LoopOn(j, 0, st)
     ELSE JobEnds(j) /\ UNCHANGED <<dbJob, ctl, skip>>
  /\ UNCHANGED <<phase, status, box, mem, ret, out, make, swept, left>>

\* Mutant: the row skipQueued gets back is dropped.
SkipAdoptNothing(x) ==
  /\ skip[x].pc = "update"
  /\ Tell(skip[x].at, "error")
  /\ skip' = [skip EXCEPT ![x].pc = "status"]
  /\ UNCHANGED <<phase, dbRun, dbJob, box, job, slots, st, make, swept, left>>

SkipAdopt(x) ==
  LET q == skip[x].at IN
  /\ skip[x].pc = "update"
  /\ mem' = [mem EXCEPT ![q] = Completed("cancelled")]
  /\ Tell(q, "error")
  /\ skip' = [skip EXCEPT ![x].pc = "status"]
  /\ UNCHANGED <<phase, dbRun, dbJob, box, ret, ctl, out, slots, st, make, swept, left>>

SkipNext(x) ==
  /\ skip[x].pc = "status"
  /\ LoopOn(x, skip[x].at, st)
  /\ UNCHANGED <<phase, status, box, mem, ret, out, make, swept, left>>

\* A rejected query ends the loop: cancel answers 500, runJob ends.
SkipFault(x) ==
  /\ skip[x].pc # "idle" /\ Spend("fault")
  /\ skip' = [skip EXCEPT ![x] = NoSkip]
  /\ IF x \in Runs THEN UNCHANGED <<slots, dbRun, st>> ELSE JobEnds(x)
  /\ UNCHANGED <<phase, dbJob, status, box, job, make, swept>>

(* --------------------------- crash and boot -------------------------- *)

Crash ==
  /\ phase # "down" /\ Spend("crash")
  /\ phase' = "down" /\ swept' = {}
  /\ mem' = [j \in Jobs |-> NoRow] /\ ret' = [j \in Jobs |-> NoRow]
  /\ pc' = [j \in Jobs |-> "idle"]
  /\ ctl' = [j \in Jobs |-> "none"] /\ out' = [j \in Jobs |-> "none"]
  /\ enq' = {} /\ ready' = {} /\ running' = 0
  /\ st' = [r \in Runs |-> NoFlags]
  /\ make' = [r \in Runs |-> NoMake]
  /\ skip' = [x \in Skippers |-> NoSkip]
  /\ UNCHANGED <<db, box>>

Open(rows, S) == {x \in S : rows[x].st \in {"queued", "running"}}
Interrupt(rows, S) ==
  [x \in S |-> IF x \in Open(rows, S) THEN Completed("failure") ELSE rows[x]]

\* The boot sweep: all unfinished jobs, then all unfinished runs, ...
SweepJobs ==
  /\ phase = "down"
  /\ phase' = "runs"
  /\ swept' = Open(dbJob, Jobs)
  /\ dbJob' = Interrupt(dbJob, Jobs)
  /\ UNCHANGED <<dbRun, status, box, job, slots, st, make, skip, left>>

SweepRuns ==
  /\ phase = "runs"
  /\ phase' = "statuses"
  /\ dbRun' = Interrupt(dbRun, Runs)
  /\ UNCHANGED <<dbJob, status, box, job, slots, st, make, skip, swept, left>>

\* The server listens even when the sweep fails.
SweepFault ==
  /\ phase \in {"down", "runs"} /\ Spend("fault")
  /\ phase' = "up" /\ swept' = {}
  /\ UNCHANGED <<db, box, job, slots, st, make, skip>>

\* ... then the commit statuses of those jobs, each failure ignored, ...
SweepStatus(j) ==
  /\ phase = "statuses" /\ j \in swept
  /\ swept' = swept \ {j}
  /\ \/ Tell(j, "error") /\ UNCHANGED left
     \/ Spend("fault") /\ UNCHANGED status
  /\ UNCHANGED <<phase, dbRun, dbJob, box, job, slots, st, make, skip>>

\* ... then the containers no job owns, as far as Docker removes them.  The server
\* listens after that.
CleanBoxes ==
  /\ phase = "statuses" /\ swept = {}
  /\ phase' = "up"
  /\ \/ box' = {} /\ UNCHANGED left
     \/ Spend("fault") /\ UNCHANGED box
  /\ UNCHANGED <<db, job, slots, st, make, skip, swept>>

JobStep(j) ==
  \/ Decide(j) \/ MarkRun(j) \/ RunMarked(j) \/ StartBox(j) \/ StepStart(j)
  \/ StepEnd(j) \/ Destroy(j) \/ FinishJob(j) \/ Report(j) \/ JobOver(j)

BootStep ==
  SweepJobs \/ SweepRuns \/ (\E j \in Jobs : SweepStatus(j)) \/ CleanBoxes

Next ==
  \/ \E r \in Runs : NewRun(r) \/ MakeStep(r) \/ MakeFails(r) \/ Cancel(r)
                    \/ CloseRun(r) \/ CloseFault(r)
  \/ \E j \in Jobs : JobStep(j) \/ JobFault(j)
  \/ \E x \in Skippers : SkipAdopt(x) \/ SkipNext(x) \/ SkipFault(x)
  \/ Crash \/ BootStep \/ SweepFault

Spec == Init /\ [][Next]_vars

\* Every await ends: queries answer, jobs have a time limit, the process is
\* restarted by its supervisor.  Nothing forces a run to be created or cancelled.
\* A run is a finite number of steps, so it is enough that the engine goes on.
EngineStep ==
  \/ \E r \in Runs : MakeStep(r) \/ CloseRun(r)
  \/ \E j \in Jobs : JobStep(j)
  \/ \E x \in Skippers : SkipAdopt(x) \/ SkipNext(x)
  \/ BootStep

LiveSpec == Spec /\ WF_vars(EngineStep)

(* ----------------------------- properties ---------------------------- *)

Unused(e) == left[e] = Budget[e]

\* The counter `running` is the number of runJob calls under way, and never above
\* the concurrency limit, whatever is cancelled, skipped or rejected.
SlotsCounted == running = Cardinality(Busy) /\ running <= Concurrency

\* The slots are the pool SlotPool describes: a job gets one once per process, and no
\* slot is free while a job waits.
Pool == INSTANCE SlotPool
          WITH Slots <- Concurrency, seen <- enq, waiting <- ready, taken <- Busy

TakesTurns == Pool!Spec

\* A job whose `if` cannot turn it away while its run is not cancelled.
NeverSkipped(k) == Cond[k] = "always" \/ (Cond[k] = "success" /\ Needs[k] = {})

\* A run concluded 'success' has no job that failed or was cancelled, in the
\* database and not only in the engine's memory.  (The loop of a failed leg that may fail
\* can close the row of a leg that is just being skipped.)
GreenRunIsGreen ==
  \A r \in Runs : dbRun[r] = Completed("success") =>
    \A j \in JobsOf(r) :
      \/ dbJob[j] \in {Completed("success"), Completed("skipped")}
      \/ j \in Soft /\ dbJob[j] = Completed("failure")
      \/ /\ dbJob[j] = Completed("cancelled") /\ ~NeverSkipped(j)
         /\ \E k \in Soft : j \in Legs[k]

\* A green check, which the merge gate reads, was never given by a job that failed or
\* has not ended, however the reports of the jobs that share its context interleave.  (A
\* cancellation may turn the row of a job that is just being skipped into 'cancelled'
\* under its green check.)
GreenCheckIsTrue ==
  \A c \in Checks : status[c].state = "success" =>
    dbJob[status[c].of].st = "completed" /\ dbJob[status[c].of].con # "failure"

\* A job with the default `if` has a container only after everything it needs succeeded,
\* whatever races closed those jobs; and, unless a removal failed, no container is left
\* over from an earlier process or from a job that ended once the server listens.  (A leg
\* that may fail and whose `if` raises an error counts as a success without running: a
\* fail-fast loop can close its row meanwhile.)
BoxesJustified ==
  \A j \in box :
    /\ Cond[j] = "success" =>
         \A k \in Needs[j] :
           \/ dbJob[k] = Completed("success")
           \/ k \in Soft /\ dbJob[k] = Completed("failure")
           \/ /\ dbJob[k] = Completed("cancelled") /\ k \in Soft /\ Cond[k] = "invalid"
              /\ \E x \in Jobs : k \in Legs[x]
    /\ phase = "up" /\ Unused("fault") => pc[j] \in {"steps", "exec", "saved"}

\* While no query is rejected, every run that nobody cancels ends, even when the process
\* that ran it died; and a cancelled run is closed in the end, each of its jobs having
\* given its slot back, unless the process dies.
RunsClose ==
  /\ [](Unused("cancel") /\ Unused("fault")) =>
       \A r \in Runs : dbRun[r].st \in {"queued", "running"} ~> dbRun[r].st = "completed"
  /\ \A r \in Runs : st[r].cancelled ~>
       \/ phase = "down" \/ ~Unused("fault")
       \/ st[r].fin = "closed" /\ \A j \in JobsOf(r) : pc[j] = "idle"

\* While no query is rejected the row of a run that has ended is never written again,
\* unless the run was cancelled: a job or createRun may then be late and change it.
EndedRunStays ==
  [][\A r \in Runs :
       /\ dbRun[r].con \in {"success", "failure", "skipped"}
       /\ ~st[r].cancelled /\ left'["fault"] = Budget["fault"]
       => dbRun'[r] = dbRun[r]]_vars

\* Cancelling stops what is running: a run that was cancelled and closed has no
\* job left in a container.
CancelStops ==
  \A j \in box : dbRun[RunOf[j]] # Completed("cancelled")

(* ------------------------ inductive invariants ----------------------- *)

\* A job enters the queue once, and is then waiting, running or over; only a running
\* job has a fail-fast loop.
SlotInv ==
  /\ SlotsCounted
  /\ Busy \subseteq enq /\ ready \subseteq enq
  /\ ready \cap Busy = {}
  /\ \A j \in Jobs : skip[j].pc # "idle" => pc[j] = "failFast"

\* No slot is free while a job waits.
NoIdleSlot == ready = {} \/ running = Concurrency

\* The report of a job, while it is the last one for its context.
Said(j) == IF status[Context[j]].of = j THEN status[Context[j]].state ELSE "none"

\* A job row nobody has made yet.
Untouched(k) ==
  mem[k].st = "none" /\ dbJob[k].st = "none" /\ Said(k) = "none" /\ k \notin enq

\* createRun makes each row once, and only loops over jobs of its own run.
MakeInv ==
  /\ \A k \in Jobs : dbRun[RunOf[k]] = NoRow => Untouched(k)
  /\ \A r \in Runs :
       /\ make[r].pc # "idle" => dbRun[r] # NoRow
       /\ make[r].pc \in {"job", "abortJob"} => RunOf[make[r].at] = r
       /\ make[r].pc \in {"row", "job", "status"} =>
            \A k \in JobsOf(r) : k > make[r].at => Untouched(k)
  /\ \A x \in Skippers : skip[x].pc = "update" => skip[x].at \in enq
  /\ \A k \in swept : dbJob[k].st # "none"

\* A green check is written once, by a job whose row was completed before, and such
\* a job never runs again.
CheckOf(j) ==
  /\ pc[j] = "report" =>
       dbJob[j].st = "completed" /\ (dbJob[j].con = "failure" => out[j] = "failure")
  /\ Said(j) = "success" =>
       /\ dbJob[j].st = "completed" /\ dbJob[j].con # "failure"
       /\ pc[j] \in {"idle", "reported", "failFast"}
       /\ j \notin ready /\ (j \in enq \/ mem[j].st # "queued")

CheckInv == \A j \in Jobs : CheckOf(j)

=============================================================================

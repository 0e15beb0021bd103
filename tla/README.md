# Nixre: a verification project

Nixre is a self-hosted forge: git hosting, pull requests, deployments, CI and
an assistant that works in sandboxes, in one Node.js process (`backend/src`,
"nixre-core") over PostgreSQL and Docker, and a second process on the host that
updates the first (`scripts/updater`). This directory models the parts that run
concurrently with themselves, in TLA+; TLC checks them on small instances, and
TLAPS proves the most important invariants for every instance. Paths and line
numbers refer to `src/backend/src` unless they begin with `scripts` or `docs`.

## 1. The system and its parts

One event loop runs everything in the core. Code between two `await`s is
atomic; every `await` (a query, a Docker call, a probe, a timer) is a point
where any other request, timer or background job may run, where the call may
fail, and where the process may die. There are no transactions around the
sequences below, and no lock but in-memory `Map`s and flags. So each hard
behaviour has the same shape: a value read or a flag tested before an `await`
and used after it.

| Part | State | Operations | What makes it correct |
|---|---|---|---|
| Deployment engine, `lib/deployments.js` | rows `deploy_services`, `deployments`; containers and images in Docker; `activeRuns` in memory | deploy (manual, by push, by workflow), rollback, cancel, stop, start, delete, the pipeline (build, release, probe, swap), the timer sweep, boot | the serving release keeps running; a failing release never touches it; one row is live; every deployment ends; a stop holds; what is lost comes back |
| Actions triggers, `lib/actions.js`, `lib/workflowSpec.js`, `routes/internal.js` | refs, workflow files of a commit, `pull_requests`; the schedule cache and the last minute in memory | a push, a pull request, dispatch, rerun, the cron tick | an event starts what its filters let through, once; every open head is tested; a schedule fires once |
| Actions (CI) engine, `lib/actions.js`, `actionsStore.js`, `actionsDrivers.js` | rows `workflow_runs`, `workflow_jobs`, `commit_statuses`; job containers; `active`, `ready`, `running` in memory | create a run, advance, pump, run a job, fail-fast, cancel, boot sweep | slots are never leaked or doubled; needs hold; a green run or check is really green; every run closes; no container is left |
| Pull requests and merge gate, `routes/pullreq.js`, `lib/commitStatus.js`, `git/repo.js` | `pull_requests`, `commit_statuses`, `repos.require_checks`, the two branches | open, close, reopen, merge, report a status, change settings | a merged pull request is in its target; only a green head lands |
| Webhooks, `lib/webhooks.js` | `repo_webhooks`, `webhook_deliveries` | fire, sweep, send, create and delete a hook | each delivery ends accepted, refused or given up |
| Agent jobs, `lib/agentJobs.js` | the conversation row with its `run_queue`; `jobs`, `startLocks` in memory | start, follow-up, steer, withdraw, stop, the driver, the boot sweep, workspace operations | one job per conversation; no prompt lost or answered twice; a stop ends the job |
| Agent task, `lib/agentControl.js`, `agentLoop.js` | `agent_task_state` (thread, journal), approvals in memory, the one bash of a sandbox | a round, a tool call, approval, stop, resume, recovery | a call is carried out at most once; the model is never told what did not happen |
| Agent sandbox, `lib/agentSandbox.js` | the container and volume of a conversation, its token; `shells`, `lastActivity`, `containerLifecycles` in memory | wake, use, the sweep (policy, access, idle, expiry), boot | work is done in a synced workspace; nobody's work is cut by the idle clock; who has lost access has no running container |
| Instance updater, `scripts/updater/*.mjs`, `lib/instanceUpdater.js`, `db/migrate.js` | `state.json`, jobs in memory; core, SSH, database, checkout, `maintenance.json` | check, apply, the steps of an update, rollback, recovery, shutdown | no writes on a database of the other revision; no blind rollback; the record says what is |
| Security scan, `lib/securityScanRun.js` | scan rows, a running flag | tick, scan, boot sweep | the flag is released; due scans run once |
| Deploy proxy and bus, `lib/deployProxy.js`, `deployBus.js` | a cache of routes, a log buffer | route, subscribe | a request reaches the serving release |
| Rate limits, instance settings | counters per window, a cached row | consume, refresh | the limit holds at the window's edge |
| Git layer, accounts, issues, workspaces, AI providers, domains, UI | the database and git | requests and answers | ordinary request/response code |

**Interactions.** The post-receive hook of a push posts to
`/internal/push-event`, which queues webhooks, then calls `maybeAutoDeploy`,
then `onPush`; opening and reopening a pull request call `onPullRequest`; a
workflow step `nixre/deploy` calls `startDeployment` and polls its row;
finished jobs write commit statuses, which the merge gate reads; a turn of an
agent job runs the task controller, whose tools use the sandbox; the updater's
worker counts agents and deployments before it stops the core, and the core
refuses writes while `maintenance.json` says so. At boot, `server.js` runs the
stale-run sweep, sandboxes, deployments, actions and scans in this order.

**Hard behaviours.** Two requests that both pass a test made before an `await`;
a swap made of three UPDATEs; a sweep that works on copies of rows; an
in-memory row that lags behind the database row; a JSON column that is read,
changed and written back by four functions; cancellations between a claim and
its answer; a side effect between two records of a journal; a timeout whose
late answer is taken for the next one; a gate read before what it guards
changes; a COMMIT whose response is lost; rejected queries in code without a
transaction; a crash at any `await`; containers that outlive the process.
`PROJECT.json` lists them as hazards, each at its line, with the properties
that cover it.

## 2. Modules

    DeployEngine              one service: pipeline, callers, sweep, boot, Docker
      ReleaseSwitch           what it promises: the serving release runs and is
                              replaced only by one that runs beside it
      DeployEngineProofs      types, ownership of deployments, fallback, rows that
                              are over stay over; the blue/green swap: zero downtime,
                              the images it can be recreated from
    Workflows                 filters, matrices, needs: the pure part of CI
      Triggers                what creates runs: pushes, pull requests, clock
        TriggersProofs        filters, pushes run once, heads tested, schedules,
                              needs and matrices, jobs as written
    ActionsEngine             workflow runs, jobs, slots, cancellation, boot sweep
      SlotPool                what it promises its jobs: a fixed number of slots,
                              each job taken once, no slot idle while one waits
      ActionsProofs           types, slots, SlotPool; who gave a green check, what a
                              green run stands for; needs and containers; ended runs
    Forge                     pull requests, the merge gate, webhook deliveries
      ForgeProofs             merged has landed, only green lands
    AgentJobs                 one conversation: queue, driver, stop, operations
      AgentJobsProofs         running rows owned, operations excluded, stops final,
                              no prompt lost
    AgentTask                 one task: rounds, journal, approvals, the shell
      AgentTaskProofs         at most once, the thread is true
    Sandbox                   one container: wakes, shells, the sweeper
      SandboxProofs           work in a synced workspace, spared by the sweep
    InstanceUpdater           the worker, the update, the host
      InstanceUpdaterProofs   writes paused, no blind rollback, no work cut, true
                              records

Each of DeployEngine, Triggers, ActionsEngine, Forge, AgentJobs, AgentTask, Sandbox
and InstanceUpdater has an `MC` module with its budgets and small constants.

**Refinement.** `ReleaseSwitch` and `SlotPool` are abstract specifications,
instantiated in the detailed modules: `serving` is `current_deployment_id` and
`up` the deployments whose container runs (`SwitchesReleases`); `seen`,
`waiting` and `taken` are the jobs ever enqueued, `ready`, and the jobs a
`runJob` call works on (`TakesTurns`). TLC checks both as PROPERTY of a run
and TLAPS proves them. `Workflows` states the pure algorithms twice: as the
code computes them (`pushMatches`, `expandMatrix`, `jobOrder`), and by what
they are to compute (`PushDue`, `MatrixJobs`, `Acyclic`); the properties of
`Triggers` compare the two on every file of the instance, and `OrderFindsCycles`, `ExpandsAsWritten` and the lemmas
on filters prove it for every file.

**Composition.** `Triggers` creates the runs that `ActionsEngine` executes (its
constants are what a queued run of `Triggers` holds; `JobsAsWritten` shows that
their needs are acyclic, which `ActionsEngine` assumes), and
`ActionsEngine` writes the statuses that `Forge` takes as reports. `AgentJobs`
shows that a conversation has one turn at a time, which `AgentTask` builds on.
`Sandbox` gives the shell whose markers and timeouts `AgentTask` models.
`Forge` composes pull requests with webhooks, `InstanceUpdater` the worker with
the core it pauses.

**Granularity.** An action is the code from one `await` to the next: it applies
what the last call returned, does the synchronous work, and takes the effect of
the next call. A program counter per activity (`pc[r]` of a pipeline, `pc[j]`
of a `runJob`, `make`, `skip`, `sweep`, `stop`, `del`, `req`, `fire`, `job.pc`,
`turn.pc`, `run[id].pc`, `calls[i].pc`, `ticks[t].pc`) is named after the
pending `await`. In-memory values that lag behind the database (`prev`,
`serving`, the copies in `sweep`, `job.row`, the row a request has read) are
variables of their own.

**Faults.** A budget says how often each event happens: a crash, a rejected
query (`db`, `fault`), a failing Docker call (`docker`), a git call that fails
(`git`), a container lost from outside (`lose`), a power loss (`power`), and
each kind of request. Where one run takes several budgets (`Budgets`,
`Scenes`), a behaviour starts with one of them. An event with budget 0 does not
happen; the proofs hold for every budget unless they say otherwise.

**History variables.** Some states are only wrong because of how they arose, and
some properties except a race that is known to go wrong. These races are
recorded in variables no action reads: `torn`, `shifted`, `stale`, `raced`,
`ran`, `got`, `opened`, `visited`, `mishap`, and some fields: `of` of a commit status is the
job that reported it, `leftover` of `world` a maintenance file that a failed cleanup has left, `here` of the calls
of `Sandbox` and `same` of its sweep follow a container's identity, `withdrawn` of
`drop` in AgentJobs the prompts whose withdrawal was accepted.

### DeployEngine

| State | Code |
|---|---|
| `svc`, `row`, `nextDep` | the row of `deploy_services`, the rows of `deployments` and their sequence |
| `built`, `ctr` | image tags and the container of each deployment, in Docker |
| `active`, `pc`, `run` | `activeRuns` of the service; each call of `startDeployment` with its locals and `runPipeline` |
| `sweep` | the timer's `sweep()` and the `sweepService` call of `startService`, each with its copies of rows |
| `stop`, `del`, `retire`, `prune` | `stopService`, `deleteDeployment`, drains and prunes under way |

`BeginStart` to `MarkDeploying` are `startDeployment`; `ReadFresh` to `Healthy`
the build, launch and probe; `SwapDeployment`, `SwapService`,
`SupersedePrevious`, `Finish` the swap; `Fail`, `Settle*`, `Close` the catch
and `settleFailure`; `Sweep*` the sweep; `Crash`, `Restart`, `Listen` the
process. Abstractions: one service (services share nothing but the sweep, which
takes them one at a time); `docker stop` and `docker rm` are one step; so are the
queries of one prune and the two reads of a rollback; the network
reconciliation of a running container is folded into `SweepKick`; a stop of a
container that is not running is an error and leaves it in place, as
`stopContainerQuiet` does; the timer's sweep does not overlap itself (a sweep
takes less than its period).

### Workflows, Triggers

| State | Code |
|---|---|
| `scene`, `tip` | git: the workflow files of each commit, the branches and tags |
| `pull` | `pull_requests.state` |
| `calls` | `onPush` and `onPullRequest` calls, from the push or the row that causes them |
| `ticks`, `now`, `lastScheduleMinute`, `scheduleCache` | `scheduleTick` calls, the clock, and what the engine keeps between them |
| `runs` | `workflow_runs` with their jobs, a bag: two equal runs count twice |

`Push` is git with its hook; `StartPush`, `CreateOne`, `FindPulls`, `NextPull`
are `onPush` and the `onPullRequest` calls in it; `StartPull` one that a pull
request was opened or reopened for; `Tick`, `TickHead`, `TickLoad`, `TickRun`,
`TickNext` are `scheduleTick`. What a commit contains never changes, so its
reads (`changedFiles`, `discover`) are part of the action that needs them, and
each may fail. A pattern is the set of names its glob matches, with its `!`; a
cron expression the set of minutes it matches; `file.valid` stands for the YAML,
the steps and the events being well formed. What a loop still has to go through
(`todo`, `repos`) is a set, taken in the order of the code: files by their place
in the sorted directory (`Foremost`), repositories by their id (`AtRepo`). A run that could not be created
completely is `failed`, one that reports an unusable file `invalid`.

In `Workflows` the jobs of a matrix are a function from where they come from (a choice of
one place in every axis, or the place of an include) to their values, so that two
equal combinations stay two jobs; the order in which the code lists them is left out. `assign` is
`Object.assign`. `visitOne` is the inner function of `jobOrder`, whose recursion is a function
of the levels still below it: every level marks a job, so the number of jobs is enough, which
`OrderFindsCycles` proves.

### ActionsEngine

| State | Code |
|---|---|
| `dbRun`, `dbJob`, `status` | `workflow_runs`, `workflow_jobs`, `commit_statuses` of the commit: the last report for each context, and the job that made it |
| `mem`, `ret` | `job.row`, and the row an UPDATE has returned but no continuation has assigned yet |
| `pc`, `ctl`, `out` | the await of each `runJob`, `job.controller`, `jobStatus` |
| `enq`, `ready`, `running` | `job.enqueued`, the queue, the slots taken |
| `st` | whether the run is in `active`, and `cancelled`, `run.started`, `finishing` |
| `make`, `skip` | `createRun` under way; the loops of `cancel` and of fail-fast |
| `box`, `swept` | job containers; jobs the boot sweep has closed and not yet reported |

`Advance` is the code's `advance`: `Eligible` jobs are queued, `Pump` starts as
many as there are free slots, and `FinishRun` closes the run when all its jobs
are completed. It is part of every action the code calls it in. Abstractions:
`ready` is a set instead of a FIFO (the model allows every order); one step
stands for all steps of a job; a time limit is an abort with conclusion
`failure`; the deploy step is a step; the awaits of one cleanup (destroy, log
flush) are one; one cancel call per run at a time. A query that is rejected
before it took effect is the same fault one await earlier, or, at the last
await, the same as one rejected after it. `Cond` gives the job-level `if` its
status function; its text is not evaluated. `Context` is `statusContext`: any jobs may
share one, of one run (legs whose names are the same) or of several (reruns), and the code
lets the last report win.

### Forge

| State | Code |
|---|---|
| `tip`, `next`, `target` | the source branch and its commits; the target branch with the commits it contains |
| `status`, `required` | `commit_statuses` by commit and context; `repos.require_checks` |
| `pr`, `req` | `pull_requests.state`; requests with what they have read |
| `row`, `hooks`, `fire`, `news` | `webhook_deliveries`, `repo_webhooks`, `fireWebhooks` and `sweep` calls, push events to be reported |

`Open*` is the creation, `MergeRead` to `MergeRecord` a merge: row, head, gate,
clone, push, UPDATE. `FireBegin`, `Insert`, `Select`, `Send`, `Write` are
`fireWebhooks` and the `sweep` it ends with. The pull requests share one pair of branches,
which is where they interact; a merge in the clone is conflict-free or the
request is answered; a squash adds the changes but no ancestor.

### AgentJobs

| State | Code |
|---|---|
| `row` | the conversation: `run_status`, `run_queue`, which prompts its messages hold |
| `job` | the entry of `jobs` and where its `driveJob` is suspended |
| `req` | each prompt's request (`startJob` or `enqueue`) with the row it has read |
| `stop`, `drop`, `op` | `stopJob`, `dequeue`, a workspace operation under way |

`Start*` is `startJobUnlocked` behind the start lock; `Enqueue*` and `Dequeue*`
the queue's read-modify-writes, on a sequence of prompts in which the code finds
its item by position (`Places`); `DriveBegins`, `TurnMarks`, `Steer*`,
`TurnEnds`, `PopFollowup`, `NextTurn`, `CloseJob`, `JobGone` the driver;
`SweepStaleRuns` the boot. What a turn says is left out (AgentTask); text
that a crash loses within the 500 ms before a flush is too.

### AgentTask

| State | Code |
|---|---|
| `task` | the `agent_task_state` row: saved thread, journal, outputs, status |
| `turn` | the agent loop: its thread, the calls of the round, the call at hand |
| `waiting`, `answer` | approvals in memory; a decision between its UPDATE and `resolve` |
| `shell` | the persistent bash: commands it owes an answer to, what core has read |

`BeginRound`, `ModelCalls`, `SaveCalls`, `NextCall` are the loop; `LookUp` to
`Completed` the controller's `execute`; `Send`, `BashFinishes`, `Drain`,
`TimesOut`, `ShellExits` the shell; `StartTask`, `ResumeTask` (with `Recovered`,
the code's `recoverThread`) and `Boot` the rest. `mutateTaskState` serialises
its read-modify-writes, so each is one action. A call is an id with a name and
arguments; `Id` says which calls have one id, and `Records` what the journal holds under it.
`execute` compares name and arguments of a record (in the JSON text, whose key order jsonb does not
keep: the same call may be refused too), `recoverThread` does not: a reply it takes from another
call's record is `mistaken`.

### Sandbox

| State | Code |
|---|---|
| `ctr` | the container in Docker: its state, its policy, whether its workspace was synced after its last start, the age of its `nixre.lastActivity` label |
| `pat` | the token in the volume is the one in `tokens` |
| `mem` | the age of `lastActivity`: none, fresh, idle (`IDLE_MS`), expired (`VOLUME_TTL_MS`) |
| `line` | the queue of `withContainerLifecycle` |
| `call`, `sweep` | the requests and the sweep, from their place in line to the end of their use |
| `bash`, `shell` | the bash streams core holds, and the one in `shells` |

`Authorize` to `Abandon` are `ensureRunningContainer` with `syncRepo`; `Ready`
its return and the choice of what to do in the container; `Spawn`, `UseEnds`,
`BashExits` the shells and one-shot execs; `Sweep*` one row of the sweeper's
list. Abstractions: one conversation and one sweep at a time (a row waits in the
same line as any request); `inspect` and `stop` of `stopContainerByName` are one
step; the queries and Docker calls of `containerPolicy` and `createContainer`
are one each; a policy is `ok`, `old` or, with another volume, `foreign`.
`Later` lets time pass only while nothing runs in the container: a command has
120 s, the idle clock 15 minutes (a file written through `dockerExec` has no limit
in core; it is taken to need less).

### InstanceUpdater

| State | Code |
|---|---|
| `jobs`, `disk`, `poisoned` | the worker's jobs, `state.json`, and whether its chain of saves is rejected |
| `busy`, `run` | the job being accepted; where each operation is and the outcome it will record |
| `world` | core, image tags, SSH, database, a migration under way, checkout, `maintenance.json` |
| `work`, `raced` | what goes on in the core; of that, what the guard does not count and what a timer has started since |

`Accept`, `Begin`, `Shutdown` are the requests; `Prepare`, `Guard`,
`GuardCounts`, `StopCore`, `FinalBackup`, `Migration*`, `Activate`, `Health`,
`Publish`, `StartSsh` the update; `Throws`, `Catch`, `ResumeOld` its failure;
`Cleanup`, `Settle` its end; `Boot` with `recoverInterrupted` and `AckRecovery`
what follows a crash. `RequestPasses` is the middleware that refuses writes, `ScheduleTick` the
timers it does not stop. The checks before the guard are one step: they change
nothing the core sees. Two revisions stand for all: an update only knows the
one that runs and the one that was reviewed.

## 3. Runs

| Run | Instance | Shows |
|---|---|---|
| DeployRace | 2 concurrent callers, 2 deployments, timer, 1 crash, 1 Docker fault; 2.1 M states | `FailingRunNeverServes`, `RegistrationHasOwner`, `NeverDark`, `SwitchesReleases` |
| DeploySerial | 1 caller, 3 deployments, rollbacks, 2 stop/starts, no timer; 0.4 M | `OnlyServingLives`, `ServingImageRetained`, `CancelTakesEffect` |
| DeployHeal | 1 caller, 2 deployments, timer; a crash and a lost container, or a stop or start with a crash or a database fault, or a delete; 1.2 M | `RowsSettle`, `SelfHeals`, `NeverRevives`, `StopHonoured` |
| DeployTwice | 2 callers, no fault | violates `OneRunAtATime` |
| Triggers | 2 repositories, 3 commits, 2 tags; scenes for filters, matrices, needs, pull requests, the clock, each fault; 1.5 M | `PushesRun`, `HeadIsTested`, `JobsAsWritten`, `SchedulesFireOnce` |
| ActionsRuns | 1 run of 3 jobs, two of which share a status context, 2 slots, one cancellation, one fault, one crash; 0.8 M | `GreenRunIsGreen`, `GreenCheckIsTrue`, `BoxesJustified`, `TakesTurns`, `RunsClose`, `EndedRunStays` |
| ActionsCancel | 1 run of 1 job, one cancellation | violates `CancelStops` |
| Forge | 2 pull requests, 3 commits, 2 checks, 2 requests and 2 fires at a time, 2 deliveries of at most 2 attempts; five budgets; 1.3 M | `MergedHasLanded`, `MergedGreen`, `DeliveriesSettle` |
| AgentJobs | 3 prompts, one a steer; one each of stop, withdrawal, operation, crash, provider failure, rejected flush; 0.9 M | `RunningHasJob`, `QueueExact`, `OpExcludesJob`, `StopEndsJob`, `FollowupsAnswered` |
| AgentTask | 2 tasks, 3 calls of which 2 are commands and 2 have one id, rounds of 1 or 2 calls; one stop, timeout, crash; 1.2 M | `AtMostOnce`, `RepliesTrue`, `StopEndsTurn` |
| Sandbox | 2 requests at a time (commands; a touch, a file, a command), 2 shells; a crash and a changed policy, or two changes of access, or a lost container, each with one failing call; 1.1 M | `ReadyWhenUsed`, `SweepSparesWork`, `RevokedStops` |
| InstanceUpdater | 2 requests, timers; two failing steps, two crashes, a rejected save, a power loss; 0.25 M | `WritesPaused`, `NoBlindRollback`, `OutcomeIsTrue`, `NoWorkCut`, `OperationsSettle` |

**Bounds.** Two deployments are the smallest history with a swap that replaces
something; three let a rollback and a prune reach behind the previous one
(`KeepImages = 1`). Two callers are what it takes to pass the 409 test
together; the proofs remove the bound. The three jobs of ActionsRuns are the
smallest workflow with a matrix (1 and 2, fail-fast, 2 with continue-on-error),
a job that needs all legs (3), and more jobs than slots at some moment. In
Triggers each scene is as small as its question: two pushes of one branch
race one pull request through opening, closing and reopening; two pull requests
share a branch; three minutes let a schedule change while ticks overlap; its
files have every kind of filter, axis, include, exclude and need, cycles
and limits (`MaxJobs`, `MaxMatrix` are 4 for the code's 64) included. Three prompts
are one that starts the job, one that is queued and one that crosses them; two
tasks let a second one meet what the first left behind; two requests are the
check and the update it allows, and two failures let the cleanup fail after the step that
ended the update.
Two merges with a
push in between need three commits. The deploy runs share one crash with one
other fault, because the code's recovery is idle between faults; ActionsRuns,
AgentJobs, AgentTask and InstanceUpdater have one event of each kind in any
order (the updater two failures and crashes). Two requests are what it takes to open two shells, or to wait in line behind
a wake; the second change of access opens what the first has closed. Deadlock is
checked in Sandbox, which has no last step; elsewhere every model ends when its budgets,
rows and requests are used up, and an update may wait for the operator.

**Fairness.** Nothing is assumed of users, callers, models or operators: no
request, decision or fault has to happen.

| Module | Weak fairness of | Because |
|---|---|---|
| DeployEngine | each step of a started call, the sweep with the boot it follows, drains | builds, probes and drains have time limits, queries and Docker calls answer or fail, the supervisor restarts the container (`restart: always`), `setInterval` fires again |
| ActionsEngine | the engine as a whole | jobs have a time limit and a run is a finite number of steps; no fairness between jobs is needed |
| Forge | each sweep, each retry delay | queries answer, `guardedFetch` has a time limit, time passes; that sweeps recur is a hypothesis of `DeliveriesSettle`, since only events start them |
| AgentJobs | the driver, each request, the boot sweep | queries answer and a turn ends (the provider's stream has an idle limit) |
| AgentTask | the loop, bash, `resolve` | queries and tools answer, a command ends or times out; not that anybody approves |
| Sandbox | each request's wake, the sweep, the boot | queries and Docker answer, `setInterval` fires again, the supervisor restarts core; not that a use ends |
| InstanceUpdater | each operation, the migration, the worker's boot | every command of the driver has a time limit, PostgreSQL ends a transaction, systemd restarts the worker |

**Findings.** Two runs end in a counterexample to something the repository
says of itself; the traces are short, and each is a sequence of legal calls:

1. *Two pipelines of one service* (DeployTwice). The 409 test
   (`deployments.js:116`) and the registration (129) are separated by `await
   getService`.
2. *A cancelled job runs on* (ActionsCancel). The cancellation arrives between
   the UPDATE that claims a job (`actions.js:643`) and its answer: the job is
   closed as cancelled and runs its steps to the end.

**Other behaviours TLC shows**, which are hypotheses or exceptions of the
properties, or weaken them:

*Deployments.* A rejected third UPDATE of the swap (`deployments.js:342`) sends
the serving release to `settleFailure`, which removes its container, against the
promise of lines 6-7. `startService` sweeps with the row it read before writing
`desired_state` (244-252), so a start can stop; the timer repairs it. After a
crash in mid-swap, or when two runs swap, two rows can say `live`. The sweep may
mark the row of a run that is just inserting it "Interrupted by restart", until
the run overwrites it. A rejected INSERT leaves the `activeRuns` entry: every
later deploy is refused until a restart, and the sweep passes over the service,
also when it is to be stopped or brought back. When the INSERT has answered and the UPDATE
after it (141) is rejected, the entry names the new row, and every sweep takes that
row for a run's: it stays `queued` until a restart. `RowsSettle` excepts that row,
`SelfHeals` and `StopHonoured` assume that no entry has leaked.
`deleteDeployment` can remove a release that became current after its test.
A rollback serves an old image under its old tag. `pruneServiceImages` removes all
but the newest tags by force (697; `deleteDeployment` too, 223), which unties a tag
also while a container runs from the image: after a rollback past `keepImages` newer
images the release runs on, but the image it would be recreated from after a reboot
is gone. TLC shows it, so `ServingImageRetained` says only that nothing else takes
that image. `status =
'deploying'` survives a crash during a first deploy. A sweep that copied the
rows before a swap may relaunch the retired container (`OnlyServingLives` is
checked without the timer).

*Triggers.* A webhook INSERT that is rejected answers 500 before auto-deploy and
Actions (`internal.js:96-99`), although the comment at 101 says that webhook
failures must not block deploys. A `listDir` that fails passes for a missing
directory, and `scheduleTick` keeps that answer until the head moves. A rejected
`createRun` ends the loop it is in: later workflows, the pull requests of the
push, the other repositories of the tick; nothing retries them, and the minute
is spent before the repositories are listed. A restart within a minute runs that minute's
schedules again. When a push falls between a pull request's row and its kick,
both start a run for one head. Runs share a commit status context when their
workflow, event and job have the same names (two files of one name, two pull
requests of one head, matrix legs that show the same values): the last
report wins, against `docs/actions.md:141`. A matrix that is an expression
is accepted by the parser and fails in `createRun`.

*Actions.* A check is the last report for its context, which need not be the worst: a
leg, a rerun or a later job of the same name that succeeds covers the failure of
another (`GreenCheckIsTrue` speaks of the job that gave the green). A green run can have
a cancelled leg, when the fail-fast loop of a leg that may fail closes the row of one whose
`if` is just skipping it (TLC: `Soft = {1}`, leg 2 with `if: failure()`); and a job can
run after a cancelled one, when the `if` of a leg that may fail raises an error, which counts as
success (TLC: `Soft = {1, 2}`, leg 2 invalid). `GreenRunIsGreen` and `BoxesJustified` name these
exceptions. A late `updateRun('running')` reopens the row of a run that a
cancellation has closed (`EndedRunStays` and `RunsClose` except cancelled runs);
a crash between a job's conclusion and its commit status leaves a check
`pending` for ever, since the boot sweep reports unfinished jobs only; a
rejected query in `runJob` leaves its run open until a restart.

*Pull requests.* The gate reads the head's statuses and the merge clones the
branch afterwards (`pullreq.js:307-322`), so what lands can be a commit no check
has seen, against `docs/actions.md:143`; the settings' PATCH writes back the
`require_checks` it read earlier; a source branch that is gone when the head is
resolved skips the gate. A close that crosses a merge is overwritten. Two pull
requests of the same branches can be open together, after a reopen or two
racing creations.

*Webhooks.* Overlapping sweeps send a delivery twice, and each writes the
attempt count it had read, so more than five sends are possible
(`README.md:100` of the repository says up to five) and a late failure
overwrites a success. Nothing but events sweeps: a retry waits for the next
event. A crash before `fireWebhooks` inserts its rows loses the announcement; one between
the push of a merge and its UPDATE leaves the pull request open but landed.

*Agent jobs.* Overlapping read-modify-writes of `run_queue` lose or resurrect
prompts (`torn`); a crash loses an item that was popped and not yet flushed; a
stop that arrives between two turns aborts a controller that is replaced
(`agentJobs.js:508-512`); a workspace operation is admitted between a start's
test (579) and its attach (621), against `docs/agent-task-controls.md:22`; a
follow-up queued after the last pop waits for the next start. The UPDATE of a stop
may come after the job's last flush: the row then says `stopping` without a job, until
the next start (which tests `running` and `jobs` only, 580) or stop (660).
`RunningHasJob` therefore speaks of `running`.

*Agent tasks.* A `start` whose process dies before its first `saveThread` is
resumed on the thread of the task before (`stale`). A command that outlives its
120 s limit runs on in the one bash, and its marker answers the next command
(`shifted`). After a crash between the saving of a round and the look at one of its
calls, `recoverThread` answers a call whose id was used before with the output of the
earlier call, whatever its arguments (`mistaken`), although `execute` would have refused it
(`agentControl.js:167`).

*Sandboxes.* When core dies between `start` and the end of `syncRepo`
(`agentSandbox.js:473-476`) the next request finds a running container and uses it
unsynced (`half`); so it does after a stop that Docker refused, which is only
logged (`unstopped`); and a sweep whose `inspect` fails with anything but 404
revokes the token of whatever container has taken the place of its row (`blind`).
Each lasts until the container is next started. When a shell is replaced, the late
end of the old stream takes the new shell out of `shells` (502), and two first
commands at once both open one. After a restart of core the idle clock starts from
the label, which is as old as the container, so a container in use over the restart
is stopped at the first sweep that finds nobody in it. A volume is never removed:
`removeVolumeByName` runs before the container that refers to it is removed, and
Docker refuses, although `docs/agent-task-controls.md:28` says that sandbox volume
expiry applies.

*Updater.* A save that is rejected when a job is accepted (`scripts/updater/
server.mjs:108`) leaves a `running` job without an operation: every later request
answers 409, and a shutdown is refused, until the worker restarts. A crash
between the cleanup and the last save reports a successful update as
`recovery_required`. After a power loss with an unflushed `maintenance.json`
the core serves writes until the worker boots (`WritesPaused` holds while the
worker runs). CI runs are not counted by the guard and may be cut; they may also be
started while writes are paused, by the schedule timer (`server.js:285`), which no middleware
sees, and the deploy step of such a run (`actions.js:840`) starts a deployment that is cut
(the exception of `NoWorkCut`). When the removal of `maintenance.json` fails in the
cleanup, the update is recorded as succeeded or failed with a `cleanupWarning`
(`engine.mjs:75`), and the core refuses writes until somebody removes the file
(`leftover`, the exception of `OutcomeIsTrue`).

## 4. Theorems

All are proved for every value of the constants that the assumptions of the
module allow, from nothing but those assumptions.

| Theorem | States |
|---|---|
| DeployEngineProofs `TypeCorrect` | `Spec => []TypeOK` |
| DeployEngineProofs `OwnershipInvariant` | without database faults, `[]OwnershipInv` |
| DeployEngineProofs `FallbackIsStructural` | without database faults, `[]FailingRunNeverServes` |
| DeployEngineProofs `NoLeakedRegistration` | without database faults, `[]RegistrationHasOwner` |
| DeployEngineProofs `TurnInvariant` | `Spec => []TurnInv` |
| DeployEngineProofs `NothingRevives` | `Spec => NeverRevives` |
| DeployEngineProofs `BlueGreenInvariant` | unharmed (no database fault, delete or lost container), `[](ToggleInv /\ (Untoggled => BlueGreenInv))` |
| DeployEngineProofs `BlueGreen` | unharmed, no stop or start, `[]NeverDark` |
| DeployEngineProofs `ReleaseRefinement` | unharmed, no stop or start, `Spec => SwitchesReleases` |
| DeployEngineProofs `RowsKept` | no delete, `[]RowedInv` |
| DeployEngineProofs `ImagesInvariant` | no delete, `[]ImageInv` |
| DeployEngineProofs `ServingImageSafe` | no delete, `[]ServingImageRetained` |
| TriggersProofs `TypeCorrect` | `Spec => []TypeOK` |
| TriggersProofs `HeadsInvariant` | `Spec => [](TypedInv /\ HeadsInv)` |
| TriggersProofs `HeadsAreTested` | `Spec => []HeadIsTested` |
| TriggersProofs `PushInvariant` | `Spec => [](TypedInv /\ PushInv)` |
| TriggersProofs `PushesAreRun` | `Spec => []PushesRun` |
| TriggersProofs `ScheduleInvariant` | `Spec => [](TypedInv /\ ScheduleInv /\ ReachedInv)` |
| TriggersProofs `SchedulesFire` | `Spec => []SchedulesFireOnce` |
| TriggersProofs `OrderFindsCycles` | `jobOrder(jobs).cycle <=> ~Acyclic(jobs)`, for every list of jobs whose needs are among them |
| TriggersProofs `ExpandsAsWritten` | `expandMatrix(matrix) = MatrixJobs(matrix)`, for every matrix whose includes are a list |
| TriggersProofs `WrittenInvariant` | `Spec => [](TypedInv /\ WrittenInv)` |
| TriggersProofs `JobsAreWritten` | `Spec => []JobsAsWritten` |
| ActionsProofs `TypeCorrect` | `Spec => []TypeOK` |
| ActionsProofs `SlotInvariant` | `Spec => []SlotInv` |
| ActionsProofs `SlotsBounded` | `Spec => []SlotsCounted` |
| ActionsProofs `SlotsUsed` | `Spec => []NoIdleSlot` |
| ActionsProofs `PoolRefinement` | `Spec => TakesTurns` |
| ActionsProofs `ChecksInvariant` | `Spec => [](MakeInv /\ CheckInv)` |
| ActionsProofs `GreenChecks` | `Spec => []GreenCheckIsTrue` |
| ActionsProofs `RowsInvariant` | `Spec => [](RowsInv /\ GreenInv /\ BootInv)` |
| ActionsProofs `GreenRuns` | `Spec => []GreenRunIsGreen` |
| ActionsProofs `NeedsInvariant` | `Spec => [](NeedInv /\ BoxInv)` |
| ActionsProofs `ContainersJustified` | `Spec => []BoxesJustified` |
| ActionsProofs `EndedRows` | `Spec => EndedRunStays` |
| AgentJobsProofs `JobInvariant` | `Spec => []JobInv` |
| AgentJobsProofs `RunningIsOwned` | `Spec => []RunningHasJob` |
| AgentJobsProofs `OperationsExcludeJobs` | `Spec => []OpExcludesJob` |
| AgentJobsProofs `StopIsFinal` | `Spec => StopEndsJob` |
| AgentJobsProofs `TypeCorrect` | `Spec => [](TypeOK /\ Prompted)` |
| AgentJobsProofs `QueueInvariant` | `Spec => []QueueInv` |
| AgentJobsProofs `NothingLost` | `Spec => []QueueExact` |
| AgentTaskProofs `TypeCorrect` | `Spec => []TypeOK` |
| AgentTaskProofs `CarriedOutOnce` | `Spec => []AtMostOnce` |
| AgentTaskProofs `ThreadIsTrue` | `Spec => []RepliesTrue` |
| ForgeProofs `MergedIsInTarget` | `Spec => []MergedHasLanded` |
| ForgeProofs `GateHolds` | `Spec => MergedGreen` |
| InstanceUpdaterProofs `UpdaterInvariant` | `Spec => []UpdaterInv` |
| InstanceUpdaterProofs `WritesArePaused` | `Spec => []WritesPaused` |
| InstanceUpdaterProofs `NoRollbackIsBlind` | `Spec => NoBlindRollback` |
| InstanceUpdaterProofs `NothingIsCut` | `Spec => NoWorkCut` |
| InstanceUpdaterProofs `RecordsAreTrue` | `Spec => []OutcomeIsTrue` |
| SandboxProofs `SandboxInvariant` | `Spec => []SandboxInv` |
| SandboxProofs `UsedWhenReady` | `Spec => []ReadyWhenUsed` |
| SandboxProofs `WorkIsSpared` | `Spec => []SweepSparesWork` |

*Fallback.* `FailingRunNeverServes` is not inductive: a settling run has to be
known not to be the serving one from before it failed. `OwnershipInv` says that
runs hold distinct deployments below the sequence, and that a run before its
second swap step holds one that does not serve. It survives two callers past
the 409 test, because what protects the serving release is the fresh row of
each run, not the test. It needs the absence of database faults: a rejected
third UPDATE of the swap is the step that breaks it.

*Zero downtime.* `NeverDark` needs three more facts. A run that has launched
keeps a running container until it is served (`CandidateRuns`); whoever is to
be retired has already served, and no run that may still be served holds it
(`RetireInv`); and nobody stops, deletes or kills (`Undisturbed`, which the
hypotheses make invariant until the first stop or start, `Untoggled`). Crashes, Docker faults, cancellations, rollbacks
and sweeps remain in the theorem. `ReleaseRefinement` follows: only the second
UPDATE of a swap moves `current_deployment_id`, at that point `CandidateRuns`
says that both releases run, and every other step leaves the serving release
up by `NeverDark` before and after it.

*Rows that are over.* `NeverRevives` has no hypothesis: rejected queries, deletes and
callers past the 409 test included. `TurnInv` carries it: two runs never hold one row,
a run before its swap holds a row that no service and no other run remembers as
current or previous, and that row is not cancelled or superseded. The UPDATEs that
supersede name a remembered row, so they cannot hit a row in flight.

*Images.* `ServingImageRetained` needs to know what a run is about to serve: `ImageInv` says
where the image of a candidate is named at each step (`Imaged`), and that from its launch on
that image is stored or `KeepImages` newer ones are. A prune keeps that disjunction: it spares the newest,
so when it takes an image, `KeepImages` newer ones remain, and a later prune takes none of
those without leaving as many. Stops, rejected queries, crashes and lost containers do not touch
it. Only a delete takes images otherwise, hence the hypothesis.

*Pushes.* `PushInv` says, of each push that nothing has failed for, that its runs are exactly
those of the entries it is past (`Exact`, which counts a run that is there twice), and that
what it still has to go through is the rest of what is due. That the entries the code selects are
those that are due is a fact about the filters: `LastMatchWins` shows that the loop of
`matchPatterns` computes `Admits`, `PushFilters` that `pushMatches` computes `PushDue` whenever
a file does not give a filter together with its `-ignore`, which `parseWorkflow` refuses.

*Heads.* `HeadsInv`: the head of an open pull request has a run of each workflow that asks for
no types or paths, or a call exists that will start it (`WillTest`): it has the entry in its
loop, has the pull request on its list, or is yet to look. Each interleaving then leaves
one of the two behind: a push before the row is written leaves its commit for
`StartPull` to read, one after it is itself the call that will find the row.

*Schedules.* `MinutesInv` says that no two ticks are for one minute, because the minute is
taken before the first `await`; so only the tick itself writes the runs of its minute.
`TickGood` says what it has done: nothing in the repositories to come, and in the one it is at exactly
the entries it is past. `CacheInv`, that what is cached is what the commit it is kept for schedules:
a push only ever deletes an entry, and a read that failed is excluded by the property.
`Reached`, that each repository is ahead of the tick, visited, or was empty: a
repository that was empty can only have got its default branch by a push (`Births`).

*Jobs of a run.* TLAPS knows of a recursive function only that it is CHOSEn, so `Loop` and `VisitsAll`
first show, from a least counterexample (`UpTo`), that the functions of `jobOrder` exist. `Explores`
then says what visits with n levels below them do when fewer than n jobs are not yet being
visited: whoever is done needs only jobs that are done (`Rooted`), and when it throws, each job
being visited needs another one of them (`Linked`), a set that `Acyclic` forbids. `ExpandsAsWritten` has the
same shape: after n includes each combination has, for every added key, the value of the last of
them that fits it and gives the key (`Extended`), and whether an include fits cannot change, since only keys
outside the axes are written over. `WrittenInv` ties runs to files: an entry
in the hands of a call, of a tick or in the cache is a file of the very commit it is held for (`EntryOf`), and
its error is one of its contents unless git has failed; the cache is used for the commit
it was filled for only (`Fresh`), and `onPullRequest` for the repository of its pull request (`CallFrom`).
It needs no hypothesis: restarts and faults included, it holds in every reachable state.

*Slots.* `running` equals the number of busy jobs only if no job is started
twice, so `SlotInv` says that the queue, the busy jobs and the rest are
disjoint, and that every job that has ever been queued is in `enq`; `Eligible`
then only adds new ones. A fail-fast loop belongs to a busy job. That no slot
stays idle (`NoIdleSlot`) is inductive with it: a slot becomes free only at the
end of a `runJob`, and a job becomes eligible only in `advance`, and both call
`pump`. With `SlotInv` this gives `PoolRefinement`, where a step of the engine
is a `Turn` of the pool, a `Restart`, or leaves its three variables alone.

*Green checks.* A check is written after the row, by the job itself. The
danger is a later writer of that row: a second run of the job, a skip, the boot sweep.
`CheckOf` says that a job whose green report is the last of its context (`Said`) is past that
report, not waiting, and either queued once or no longer `queued` in memory, so no `advance` takes
it up again; `MakeInv` says that `createRun` only touches rows nobody has made. Another job's
report for the same context ends what `Said` says of this one, so nothing is assumed of `Context`.

*Green runs.* `finishRun` concludes from memory what it stores beside rows that may be
older or newer. `RowOf` states, for each await of a `runJob`, how the row in memory, the row
an UPDATE has returned and the row in the database agree; `Made`, that no job is
queued before all are made. One disagreement is real: a fail-fast loop that works on
its list while a leg's `if` is skipping it closes that leg as `cancelled` under a
result that says skipped (`Overtaken`), which only happens to a leg whose `if` can turn it
away (`NeverSkipped` excludes the others). `GreenInv` is what remains of a green run:
its rows are final (`Shut`) and are success, skipped, a tolerated failure, or overtaken.

*Needs and containers.* `NeedInv`: what a job in a container needs is shut and met, from
`RowOf` at the moment the job was queued, where an overtaken leg that may fail and whose `if` raised an
error counts as met. `BoxInv` is the half about leftovers: while no removal was rejected,
every container belongs to a job that is executing.

*Ended runs.* Two writers come late: the UPDATE that marks a run as running at its first
job, and the boot sweep. `StartInv` says that a run which has not been marked has no job
that was stopped, closed or concluded by another (`Fresh`), so it cannot have ended; `DoneInv`,
that a run which has ended is not concluded again (`Concluded`); `ClaimInv`, that loops stay
within their run. A cancelled run is excepted because there the late UPDATE wins.

*Jobs.* `RunningHasJob`, of rows that say `running`, rests on the start lock: `OneStart` says that a single
request is between its read and its write, so no other start can take the job
away under a row it has just marked. `EndIsFlushed` says that a job about to
leave the map has written its row, unless the flush was rejected; `StopHolds`
that an aborted driver is not between two turns, where the controller would be
replaced; `OpSawNone` that an admitted operation saw no job.

*The queue.* `QueueInv` holds until two writers of `run_queue` overlap, a stop or a crash.
Until then the queue names no prompt twice (`Distinct`), so that finding an item by its
position and removing it is removing the prompt; the transcript of the driver is the row's
(`JobRow`); a start that read no running job has the row's messages in hand (`StartRow`); and
every prompt is where its request is (`Placed`): unseen, queued, or taken, never two of
them. The lemmas on `Append`, `RemoveAt` and `Places` say what each writer does to these.

*At most once.* `OnceInv`: a call without a record in the journal has not been
carried out, and the call at hand is recorded `started` before its turn comes.
A repeated id, a resume or a second approval then finds a record, and since `LookUp` takes up
no call whose id has a record, of the calls of one id one is carried out. `TruthInv`
adds, for `RepliesTrue`, what each reply of the thread says of the journal and
where the answer of the command at hand is: in bash, in core's buffer or given. The
`mistaken` replies of a recovery are for calls that have no record of their own, hence were not carried out.

*Merges.* A merge lands by a push that git refuses when the target has moved
since the clone, so `MergeInv` only has to carry, from the clone to the UPDATE,
that what was cloned holds what the pull request was opened with. `GateInv` says that
a request past the gate either raced or has read a head whose statuses are
still green; a push, a report or a deletion sets `raced` of every request that
has read them (`Race`).

*Updates.* `UpdaterInv` is a map of the update: for each place of the worker
(`Place`), which core runs, what the database is, whether writes are paused,
and what `state.json` says. `NoBlindRollback` follows from the places where the
previous core is started, `WritesPaused` from `Paused`. `NothingIsCut` needs
`Quiet` beside it: between the guard's count and the stop of the core nothing
can start an agent but a request that had passed before the pause, nor a deployment but such a request
or a CI run, one that went on at the count or one of the schedule timer, all of which `raced` records.
`OutcomeIsTrue` speaks of rest, so `TruthInv` says when the instance is whole (`Whole`) while
nothing unfinished is on record, what a stored success implies, and which services each place
of an operation has stopped or brought back (`Upright`); a maintenance file that is there at rest
is one that a cleanup could not remove.

*Sandboxes.* Everything rests on the line of `withContainerLifecycle`: who is past the wait
is first in it (`LineInv`), so that wakes and sweeps exclude each other; uses do not wait in
line. `CallInv` says what a wake has found or done at each await, and that a wake which
changes the container has nobody working in it; `RunningInv`, that a running container is
synced, has its token and its shell, is being woken, or had one of the mishaps the property
names; `SweepInv`, that a sweep about to stop has found nobody, and what it still knows of
the container when it is no longer the one it has listed. After a crash `DownInv` says what memory is left.

The invariants the proofs use (`SlotInv`, `NoIdleSlot`, `MakeInv`, `CheckInv`, `RowsInv`,
`GreenInv`, `BootInv`, `NeedInv`, `BoxInv`, `EndInv`, `OwnershipInv`, `TurnInv`, `BlueGreenInv`,
`RowedInv`, `ImageInv`, `JobInv`, `QueueInv`, `OnceInv`, both `TruthInv`, `MergeInv`,
`GateInv`, `UpdaterInv`, `SandboxInv`, `HeadsInv`, `PushInv`, `ScheduleInv`, `ReachedInv` and `WrittenInv`) were also model-checked on the instances above, under
their hypotheses. Left to TLC is
liveness (`RowsSettle`, `SelfHeals`, `StopHonoured`, `CancelTakesEffect`, `RunsClose`,
`FollowupsAnswered`, `StopEndsTurn`, `OperationsSettle`, `DeliveriesSettle`, `RevokedStops`), which
TLAPS does not prove. Every invariant and every action property of a passing run is a theorem,
some under the hypotheses the table names, except `OnlyServingLives`: it holds with one caller and
no timer, which is less than the code always has, so it is only model-checked.

## 5. Plan

1. A composition of the two engines through the deploy step: a workflow job
   that starts a deployment, polls its row and cancels it when aborted
   (`actions.js:848` cancels whatever deployment is active by then).
2. The commit statuses between ActionsEngine and Forge: what the gate reads while
   jobs that share a context report.
3. SecurityScan: its flag, which is set before an INSERT outside the `try`, and
   its tick; the rest of the task controller (proposals, checkpoints, spending).

## 6. Not modelled

Expressions, step fields, YAML and the text of globs and crons; logs, masking,
metrics and uptime probes; image builds and Docker options; the proxy; the
security scan; proposals, checkpoints, verification, browser checks and
spending of agent tasks; validation and formatting in the routes; git storage,
accounts, issues, providers, domains and the browser client. They are sequential
request/response code, calls to outside services or pure functions of their
input, and the browser client holds no state the server relies on; the parts
named in the plan come first.

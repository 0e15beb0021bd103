-------------------------------- MODULE Forge --------------------------------
(***************************************************************************)
(* Pull requests with the merge gate (routes/pullreq.js, lib/commitStatus, *)
(* git/repo.js mergeBranches) and the webhook deliveries that pushes and   *)
(* pull requests cause (lib/webhooks.js, routes/internal.js).              *)
(*                                                                         *)
(* The pull requests of one pair of branches of one repository.  Nothing   *)
(* here holds a lock: one action is the code between two awaits.           *)
(***************************************************************************)
EXTENDS Integers, FiniteSets

CONSTANTS
  Prs,         \* pull request numbers 1, 2, ...
  Tips,        \* bound: commits of the source branch, 1, 2, ...: each contains those before
  Contexts,    \* commit status contexts
  Requests,    \* bound: API requests under way
  Fires,       \* bound: fireWebhooks calls under way
  Hooks,       \* webhooks of the repository
  Deliveries,  \* bound: rows of webhook_deliveries, 1, 2, ...
  MaxAttempts, \* MAX_ATTEMPTS
  Limit,       \* LIMIT of sweep's query
  Budgets      \* bound: how often each of Events happens in a behaviour, one of several

\* push, target: to either branch; ask: a pull request is opened or merged; state: closed or
\* reopened; edit: settings; elsewhere: another repository has an event.
Events == {"push", "delete", "report", "target", "edit", "state", "ask", "hook", "unhook",
           "elsewhere", "fault", "crash"}

ASSUME ConstantsAssumption ==
  /\ Prs \subseteq Nat \ {0} /\ IsFiniteSet(Prs)
  /\ Tips \subseteq Nat \ {0} /\ IsFiniteSet(Tips)
  /\ Deliveries \subseteq Nat \ {0} /\ IsFiniteSet(Deliveries)
  /\ MaxAttempts \in Nat \ {0} /\ Limit \in Nat \ {0}
  /\ Budgets \subseteq [Events -> Nat]

VARIABLES
  tip,      \* the source branch, 0 when it does not exist
  next,     \* its last commit so far
  target,   \* the target branch: ver changes with every push; anc: the source commits that
            \* are its ancestors; has: those whose changes it holds (a squash adds no ancestor)
  status,   \* commit_statuses
  required, \* repos.require_checks
  pr,       \* pull_requests.state
  opened,   \* history: the source branch when the pull request was opened
  req,      \* requests under way
  row,      \* webhook_deliveries
  got,      \* history: deliveries the receiver has accepted
  hooks,    \* repo_webhooks
  fire,     \* fireWebhooks and sweep calls under way
  news,     \* push events that the post-receive hook still has to report
  left      \* what is left of the budget

repo == <<tip, next, target, status, required>>
pulls == <<pr, opened, req>>
outbox == <<row, got, hooks, fire>>
vars == <<repo, pulls, outbox, news, left>>

States == {"absent", "pending", "success", "failure"}
Methods == {"merge", "squash"}
Heads == Tips \cup {0}

Pcs == {"idle", "number", "insert", "edit", "gate", "checks", "merge", "clone", "push",
        "record", "announce"}
Request == [pc : Pcs, pr : Prs \cup {0}, required : BOOLEAN, head : Heads,
            method : Methods, ver : Nat, src : Heads,
            raced : BOOLEAN]  \* history: branch or checks changed since head was read
NoRequest == [pc |-> "idle", pr |-> 0, required |-> FALSE, head |-> 0,
              method |-> "merge", ver |-> 0, src |-> 0, raced |-> FALSE]

Row == [hook : Hooks, attempts : Nat, ok : BOOLEAN, refused : BOOLEAN,
        retry : {"none", "due", "later"}]

\* A fire inserts a row per hook, then sweeps: todo holds hooks, or the rows it read
\* (delivery and attempts); answer is what the one it is at came to.
FirePcs == {"idle", "insert", "select", "send", "write"}
Fire == [pc : FirePcs, hooks : SUBSET Hooks, todo : SUBSET (Deliveries \X Nat),
         at : (Deliveries \X Nat) \cup {<<0, 0>>}, answer : {"none", "ok", "failed", "refused"}]
NoFire == [pc |-> "idle", hooks |-> {}, todo |-> {}, at |-> <<0, 0>>, answer |-> "none"]

TypeOK ==
  /\ tip \in Heads /\ next \in Heads
  /\ target \in [ver : Nat, anc : Heads, has : Heads]
  /\ status \in [Tips -> [Contexts -> States]]
  /\ required \in BOOLEAN
  /\ pr \in [Prs -> {"none", "open", "closed", "merged"}]
  /\ opened \in [Prs -> Heads]
  /\ req \in [Requests -> Request]
  /\ DOMAIN row \subseteq Deliveries /\ \A d \in DOMAIN row : row[d] \in Row
  /\ got \subseteq Deliveries
  /\ hooks \subseteq Hooks
  /\ fire \in [Fires -> Fire]
  /\ news \in Nat
  /\ left \in [Events -> Nat]

Init ==
  /\ tip \in Tips /\ (\A c \in Tips : tip <= c) /\ next = tip
  /\ target = [ver |-> 0, anc |-> 0, has |-> 0]
  /\ status = [c \in Tips |-> [x \in Contexts |-> "absent"]]
  /\ required = TRUE
  /\ pr = [n \in Prs |-> "none"] /\ opened = [n \in Prs |-> 0]
  /\ req = [r \in Requests |-> NoRequest]
  /\ row = [d \in {} |-> 0] /\ got = {} /\ hooks = {}
  /\ fire = [f \in Fires |-> NoFire]
  /\ news = 0
  /\ left \in Budgets

(* ------------------------------ helpers ----------------------------- *)

Spend(e) == left[e] > 0 /\ left' = [left EXCEPT ![e] = @ - 1]
At(r, pc) == req[r].pc = pc
Answered(r) == req' = [req EXCEPT ![r] = NoRequest]
Goto(r, pc) == req' = [req EXCEPT ![r] = [NoRequest EXCEPT !.pc = pc, !.pr = req[r].pr]]

\* Requests that hold what they have read of the source branch and its checks.
Race == req' = [r \in Requests |-> [req[r] EXCEPT !.raced =
                  @ \/ req[r].pc \in {"checks", "merge", "clone", "push"}]]

\* Mutant: a check that has not ended does not count.
CombinedStateEnded(checks) ==
  IF \A x \in Contexts : checks[x] \in {"absent", "pending"} THEN "none"
  ELSE IF \E x \in Contexts : checks[x] = "failure" THEN "failure" ELSE "success"

\* combinedState of the rows of one commit.
CombinedState(checks) ==
  IF \A x \in Contexts : checks[x] = "absent" THEN "none"
  ELSE IF \E x \in Contexts : checks[x] = "failure" THEN "failure"
  ELSE IF \E x \in Contexts : checks[x] = "pending" THEN "pending"
  ELSE "success"

\* Every status of the commit is green, and there is one.
Green(c) ==
  /\ \A x \in Contexts : status[c][x] \in {"absent", "success"}
  /\ \E x \in Contexts : status[c][x] = "success"

(* ------------------------ the repository and its CI ------------------- *)

\* A push to the source branch, which may not have existed, and its hook.
Push(c) ==
  /\ c > next /\ \A b \in Tips : b > next => c <= b
  /\ tip' = c /\ next' = c
  /\ Race
  /\ news' = news + 1 /\ Spend("push")
  /\ UNCHANGED <<target, status, required, pr, opened, outbox>>

DeleteBranch ==
  /\ tip # 0 /\ Spend("delete")
  /\ tip' = 0
  /\ Race
  /\ UNCHANGED <<next, target, status, required, pr, opened, outbox, news>>

\* Somebody else's push to the target branch.
PushTarget ==
  /\ Spend("target")
  /\ target' = [target EXCEPT !.ver = @ + 1]
  /\ UNCHANGED <<tip, next, status, required, pulls, outbox, news>>

\* setStatus, by the CI engine or over the API.
Report(c, x, state) ==
  /\ c <= next /\ state # "absent" /\ Spend("report")
  /\ status' = [status EXCEPT ![c][x] = state]
  /\ Race
  /\ UNCHANGED <<tip, next, target, required, pr, opened, outbox, news>>

(* ------------------------- settings of the repository ----------------- *)

\* PATCH reads the row; what the body does not name is written back as read.
EditRead(r) ==
  /\ At(r, "idle") /\ Spend("edit")
  /\ \E b \in BOOLEAN : req' = [req EXCEPT ![r] = [NoRequest EXCEPT !.pc = "edit", !.required = b]]
  /\ UNCHANGED <<repo, pr, opened, outbox, news>>

EditWrite(r) ==
  /\ At(r, "edit")
  /\ required' = req[r].required
  /\ Answered(r)
  /\ UNCHANGED <<tip, next, target, status, pr, opened, outbox, news, left>>

(* ---------------------------- pull requests --------------------------- *)

\* Both branches exist and no pull request for them is open.
OpenRead(r) ==
  /\ At(r, "idle") /\ tip # 0 /\ Spend("ask")
  /\ \A n \in Prs : pr[n] # "open"
  /\ req' = [req EXCEPT ![r].pc = "number"]
  /\ UNCHANGED <<repo, pr, opened, outbox, news>>

OpenNumber(r, n) ==
  /\ At(r, "number")
  /\ pr[n] = "none" /\ \A m \in Prs : m < n => pr[m] # "none"
  /\ req' = [req EXCEPT ![r] = [@ EXCEPT !.pc = "insert", !.pr = n]]
  /\ UNCHANGED <<repo, pr, opened, outbox, news, left>>

\* UNIQUE (repo_id, number) refuses the second of two.
OpenInsert(r) ==
  LET n == req[r].pr IN
  /\ At(r, "insert")
  /\ \/ /\ pr[n] = "none"
        /\ pr' = [pr EXCEPT ![n] = "open"] /\ opened' = [opened EXCEPT ![n] = tip]
        /\ Goto(r, "announce")
     \/ pr[n] # "none" /\ Answered(r) /\ UNCHANGED <<pr, opened>>
  /\ UNCHANGED <<repo, outbox, news, left>>

\* Closes or reopens; a merged one stays merged.
SetState(n, state) ==
  /\ pr[n] \notin {"none", "merged", state} /\ Spend("state")
  /\ pr' = [pr EXCEPT ![n] = state]
  /\ UNCHANGED <<repo, opened, req, outbox, news>>

(* -------------------------------- merge ------------------------------- *)

\* The rows of the repository and of the pull request.
MergeRead(r, n, method) ==
  /\ At(r, "idle") /\ pr[n] = "open" /\ Spend("ask")
  /\ req' = [req EXCEPT ![r] = [NoRequest EXCEPT !.pc = IF required THEN "gate" ELSE "merge",
               !.pr = n, !.required = required, !.method = method]]
  /\ UNCHANGED <<repo, pr, opened, outbox, news>>

\* resolveRef; without a branch there is nothing to check.
MergeHead(r) ==
  /\ At(r, "gate")
  /\ req' = [req EXCEPT ![r].pc = IF tip = 0 THEN "merge" ELSE "checks", ![r].head = tip]
  /\ UNCHANGED <<repo, pr, opened, outbox, news, left>>

MergeChecks(r) ==
  /\ At(r, "checks")
  /\ IF CombinedState(status[req[r].head]) = "success"
     THEN req' = [req EXCEPT ![r].pc = "merge"] ELSE Answered(r)
  /\ UNCHANGED <<repo, pr, opened, outbox, news, left>>

\* mergeBranches: missing_branch, alreadyMerged, or a clone.
MergeBegin(r) ==
  /\ At(r, "merge")
  /\ IF tip = 0 THEN Answered(r)
     ELSE IF tip <= target.anc THEN Goto(r, "record")
     ELSE req' = [req EXCEPT ![r].pc = "clone"]
  /\ UNCHANGED <<repo, pr, opened, outbox, news, left>>

\* Clone and fetch both branches as they are now, and merge.  What the target has already
\* gives no commit; the rest may conflict.
MergeClone(r) ==
  /\ At(r, "clone")
  /\ LET landed == IF req[r].method = "merge" THEN target.anc ELSE target.has IN
     \/ Answered(r)
     \/ tip # 0 /\ tip <= landed /\ Goto(r, "record")
     \/ /\ tip > landed
        /\ req' = [req EXCEPT ![r] = [@ EXCEPT !.pc = "push", !.ver = target.ver, !.src = tip]]
  /\ UNCHANGED <<repo, pr, opened, outbox, news, left>>

\* Mutant: the answer of git push is not looked at.
MergePushUnchecked(r) ==
  /\ At(r, "push")
  /\ IF target.ver # req[r].ver THEN UNCHANGED <<target, news>>
     ELSE /\ target' = [ver |-> target.ver + 1, has |-> req[r].src,
                        anc |-> IF req[r].method = "merge" THEN req[r].src ELSE target.anc]
          /\ news' = news + 1
  /\ Goto(r, "record")
  /\ UNCHANGED <<tip, next, status, required, pr, opened, outbox, left>>

\* git push, refused when the target has moved since the fetch.
MergePush(r) ==
  /\ At(r, "push")
  /\ IF target.ver # req[r].ver THEN Answered(r) /\ UNCHANGED <<target, news>>
     ELSE /\ target' = [ver |-> target.ver + 1, has |-> req[r].src,
                        anc |-> IF req[r].method = "merge" THEN req[r].src ELSE target.anc]
          /\ news' = news + 1
          /\ Goto(r, "record")
  /\ UNCHANGED <<tip, next, status, required, pr, opened, outbox, left>>

\* UPDATE ... SET state = 'merged' WHERE id, whatever the state is by now.
MergeRecord(r) ==
  /\ At(r, "record")
  /\ pr' = [pr EXCEPT ![req[r].pr] = "merged"]
  /\ Goto(r, "announce")
  /\ UNCHANGED <<repo, opened, outbox, news, left>>

(* ----------------------- fireWebhooks and sweep ----------------------- *)

Fired(f, state) == fire' = [fire EXCEPT ![f] = state]

\* The hooks of an event are read: none, and nothing is swept either.
FireBegin(f) ==
  /\ fire[f].pc = "idle"
  /\ Fired(f, IF hooks = {} THEN NoFire ELSE [NoFire EXCEPT !.pc = "insert", !.hooks = hooks])
  /\ UNCHANGED <<row, got, hooks>>

\* A pull request event; the request has been answered.
FireRequest(f, r) ==
  /\ At(r, "announce") /\ Answered(r)
  /\ FireBegin(f)
  /\ UNCHANGED <<repo, pr, opened, news, left>>

\* POST /internal/push-event.
FirePush(f) ==
  /\ news > 0 /\ news' = news - 1
  /\ FireBegin(f)
  /\ UNCHANGED <<repo, pulls, left>>

\* An event of another repository, whose rows are not modelled, sweeps these as well.
FireElsewhere(f) ==
  /\ fire[f].pc = "idle"
  /\ left["elsewhere"] > 0 /\ UNCHANGED left   \* as often as you like, or never
  /\ Fired(f, [NoFire EXCEPT !.pc = "select"])
  /\ UNCHANGED <<repo, pulls, row, got, hooks, news>>

\* INSERT, one row per hook; a hook deleted meanwhile fails the call.
Insert(f) ==
  /\ fire[f].pc = "insert"
  /\ \/ /\ fire[f].hooks = {}
        /\ Fired(f, [fire[f] EXCEPT !.pc = "select"]) /\ UNCHANGED row
     \/ \E h \in fire[f].hooks :
          IF h \notin hooks THEN Fired(f, NoFire) /\ UNCHANGED row
          ELSE \E d \in Deliveries \ DOMAIN row :
                 /\ \A e \in Deliveries : e < d => e \in DOMAIN row
                 /\ row' = [e \in DOMAIN row \cup {d} |->
                      IF e \in DOMAIN row THEN row[e]
                      ELSE [hook |-> h, attempts |-> 0, ok |-> FALSE, refused |-> FALSE,
                            retry |-> "due"]]
                 /\ Fired(f, [fire[f] EXCEPT !.hooks = @ \ {h}])
  /\ UNCHANGED <<repo, pulls, got, hooks, news, left>>

Due == {d \in DOMAIN row : row[d].retry = "due" /\ row[d].hook \in hooks}

\* SELECT ... LIMIT, in no particular order.
Select(f) ==
  /\ fire[f].pc = "select"
  /\ \E S \in SUBSET Due :
       /\ S = Due \/ Cardinality(S) = Limit
       /\ Cardinality(S) <= Limit
       /\ Fired(f, IF S = {} THEN NoFire
                   ELSE [fire[f] EXCEPT !.pc = "send",
                           !.todo = {<<d, row[d].attempts>> : d \in S}])
  /\ UNCHANGED <<repo, pulls, row, got, hooks, news, left>>

\* guardedFetch.
Send(f) ==
  /\ fire[f].pc = "send"
  /\ \E item \in fire[f].todo, answer \in {"ok", "failed", "refused"} :
       /\ Fired(f, [fire[f] EXCEPT !.pc = "write", !.todo = @ \ {item}, !.at = item,
                                   !.answer = answer])
       /\ got' = IF answer = "ok" THEN got \cup {item[1]} ELSE got
  /\ UNCHANGED <<repo, pulls, row, hooks, news, left>>

Finished(answer, attempts) == answer \in {"ok", "refused"} \/ attempts >= MaxAttempts

After(f) == IF fire[f].todo = {} THEN NoFire
            ELSE [fire[f] EXCEPT !.pc = "send", !.at = <<0, 0>>, !.answer = "none"]

\* Mutant: after its last attempt a delivery is retried still.
WriteForever(f) ==
  LET d == fire[f].at[1]   attempts == fire[f].at[2] + 1   answer == fire[f].answer IN
  /\ fire[f].pc = "write"
  /\ row' = [e \in DOMAIN row |-> IF e # d THEN row[e] ELSE
       [row[e] EXCEPT !.attempts = IF attempts > MaxAttempts THEN MaxAttempts ELSE attempts,
          !.ok = answer = "ok", !.refused = answer = "refused",
          !.retry = IF answer \in {"ok", "refused"} THEN "none" ELSE "later"]]
  /\ Fired(f, After(f))
  /\ UNCHANGED <<repo, pulls, got, hooks, news, left>>

\* The UPDATE counts from the attempts the sweep had read, and touches no deleted row.
Write(f) ==
  LET d == fire[f].at[1]   attempts == fire[f].at[2] + 1   answer == fire[f].answer IN
  /\ fire[f].pc = "write"
  /\ row' = [e \in DOMAIN row |-> IF e # d THEN row[e] ELSE
       [row[e] EXCEPT !.attempts = attempts,
          !.ok = answer = "ok", !.refused = answer = "refused",
          !.retry = IF Finished(answer, attempts) THEN "none" ELSE "later"]]
  /\ Fired(f, After(f))
  /\ UNCHANGED <<repo, pulls, got, hooks, news, left>>

\* A rejected query ends the call; rows it has not come to stay due.
FireFault(f) ==
  /\ fire[f].pc # "idle" /\ Spend("fault")
  /\ Fired(f, NoFire)
  /\ UNCHANGED <<repo, pulls, row, got, hooks, news>>

\* RETRY_DELAYS_MS have passed.
Elapse(d) ==
  /\ d \in DOMAIN row /\ row[d].retry = "later"
  /\ row' = [row EXCEPT ![d].retry = "due"]
  /\ UNCHANGED <<repo, pulls, got, hooks, fire, news, left>>

Hook(h) ==
  /\ h \notin hooks /\ Spend("hook")
  /\ hooks' = hooks \cup {h}
  /\ UNCHANGED <<repo, pulls, row, got, fire, news>>

\* DELETE of a webhook cascades to its deliveries.
Unhook(h) ==
  /\ h \in hooks /\ Spend("unhook")
  /\ hooks' = hooks \ {h}
  /\ row' = [d \in {e \in DOMAIN row : row[e].hook # h} |-> row[d]]
  /\ UNCHANGED <<repo, pulls, got, fire, news>>

\* Requests, fires and unreported pushes are lost; a restart has nothing to repair.
Crash ==
  /\ Spend("crash")
  /\ req' = [r \in Requests |-> NoRequest] /\ fire' = [f \in Fires |-> NoFire]
  /\ news' = 0
  /\ UNCHANGED <<repo, pr, opened, row, got, hooks>>

RequestStep(r) ==
  \/ EditRead(r) \/ EditWrite(r) \/ OpenRead(r) \/ OpenInsert(r)
  \/ \E n \in Prs : OpenNumber(r, n) \/ \E m \in Methods : MergeRead(r, n, m)
  \/ MergeHead(r) \/ MergeChecks(r) \/ MergeBegin(r) \/ MergeClone(r) \/ MergePush(r)
  \/ MergeRecord(r)

SweepStep(f) == Insert(f) \/ Select(f) \/ Send(f) \/ Write(f)

Next ==
  \/ \E c \in Tips : Push(c) \/ \E x \in Contexts, s \in States : Report(c, x, s)
  \/ DeleteBranch \/ PushTarget \/ Crash
  \/ \E n \in Prs, s \in {"open", "closed"} : SetState(n, s)
  \/ \E r \in Requests : RequestStep(r) \/ \E f \in Fires : FireRequest(f, r)
  \/ \E f \in Fires : FirePush(f) \/ FireElsewhere(f) \/ FireFault(f) \/ SweepStep(f)
  \/ \E d \in Deliveries : Elapse(d)
  \/ \E h \in Hooks : Hook(h) \/ Unhook(h)

Spec == Init /\ [][Next]_vars

\* A query is answered, a fetch answered or timed out, and time passes.
LiveSpec ==
  /\ Spec
  /\ \A f \in Fires : WF_vars(SweepStep(f))
  /\ \A d \in Deliveries : WF_vars(Elapse(d))

(* ----------------------------- properties ---------------------------- *)

\* Under required checks a merge lands only what is green, unless the source branch or a
\* check changed between its reading of the head and its push.
MergedGreen ==
  [][\A r \in Requests :
       At(r, "push") /\ target' # target /\ req'[r].pc = "record" =>
         \/ ~req[r].required \/ req[r].raced
         \/ Green(req[r].src)]_vars

\* A pull request is only called merged when the target holds what it was opened with,
\* whatever other merges, pushes and a crash came in between.
MergedHasLanded ==
  \A n \in Prs : pr[n] = "merged" => target.has >= opened[n]

\* A delivery that is over was accepted by its receiver, refused, or tried MaxAttempts times.
Settled(d) ==
  /\ row[d].retry = "none"
  /\ IF row[d].ok THEN d \in got ELSE row[d].refused \/ row[d].attempts >= MaxAttempts

\* While events keep coming, every delivery is deleted with its hook or settled as it
\* says, however sweeps overlap and whatever they read before.
DeliveriesSettle ==
  []<>(\E f \in Fires : fire[f].pc = "select") =>
    \A d \in Deliveries : []<>(d \notin DOMAIN row \/ Settled(d))

=============================================================================

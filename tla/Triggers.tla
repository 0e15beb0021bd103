------------------------------ MODULE Triggers ------------------------------
(***************************************************************************)
(* What makes the Actions engine create runs (lib/actions.js: onPush,      *)
(* onPullRequest, dispatch, rerun, scheduleTick): pushes reported by the   *)
(* post-receive hook (routes/internal.js), pull requests opened and        *)
(* reopened (routes/pullreq.js), requests, and the clock.                  *)
(*                                                                         *)
(* The calls run in the background and interleave at their awaits: one     *)
(* action is the code between two of them.  What a commit contains never   *)
(* changes, so reads of it are part of the action that needs them.         *)
(***************************************************************************)
EXTENDS Workflows, Bags

CONSTANTS
  Repos,      \* ids of repositories: listRepos returns them in order
  Branches,   \* names of branches; "main" is the default one
  Tags,       \* names of tags
  Pulls,      \* pull requests: [repo, source, target] by number
  Commits,    \* bound: 1, 2, ...: a commit's parent is the one before it
  Touched,    \* the files a commit changes
  Ticks,      \* bound: calls of scheduleTick under way
  MaxMinute,  \* bound: the clock
  Scenes      \* bound: the workflow files of each commit, the branches there are at first, where
              \* pushes move which refs, and how often each of Events happens

Events == {"push", "open", "close", "reopen", "dispatch", "rerun", "minute", "tick",
           "db", "git", "crash"}

PatternLists == Seq([not : BOOLEAN, hits : SUBSET STRING])

IsSequence(s) == s \in Seq(ToSet(s))

\* The workflow files of a directory: no two have one path, their filters are lists of patterns,
\* their jobs, and what each needs and includes, are lists.
Directory(files) ==
  /\ DOMAIN files \subseteq Nat
  /\ \A i, j \in DOMAIN files : files[i].path = files[j].path => i = j
  /\ \A i \in DOMAIN files : \A event \in DOMAIN files[i].on \cap {"push", "pull_request"} :
       \A kind \in DOMAIN files[i].on[event] \ {"types"} : files[i].on[event][kind] \in PatternLists
  /\ \A i \in DOMAIN files :
       /\ IsSequence(files[i].jobs)
       /\ \A job \in ToSet(files[i].jobs) : IsSequence(job.needs) /\ IsSequence(job.matrix.include)

ASSUME TriggersAssumption ==
  /\ Repos \subseteq Nat \ {0} /\ Commits \subseteq Nat \ {0} /\ MaxMinute \in Nat \ {0}
  /\ IsFiniteSet(Repos) /\ IsFiniteSet(Commits)
  /\ "main" \in Branches /\ 1 \in Commits
  /\ \A c \in Commits : Touched[c] \subseteq STRING
  /\ \A p \in DOMAIN Pulls : Pulls[p] \in [repo : Repos, source : Branches, target : Branches]
  /\ \A s \in Scenes :
       /\ s.branches \in [Repos -> SUBSET Branches] /\ s.left \in [Events -> Nat]
       /\ \A r \in Repos, c \in Commits :
            /\ DOMAIN s.tree[r][c] \subseteq Nat
            /\ \A d \in DOMAIN s.tree[r][c] : Directory(s.tree[r][c][d])

VARIABLES
  scene,              \* the scene: tree gives, for each repository, commit and directory of
                      \* WORKFLOW_DIRS, its workflow files in the order of their paths
  tip,                \* branches and tags: commits, 0 when there is none
  pull,               \* pull_requests.state
  calls,              \* onPush and onPullRequest calls, in the order of their causes
  ticks,              \* scheduleTick calls
  now,                \* the minute
  lastScheduleMinute, \* 0: null
  scheduleCache,      \* per repository <<>>, or <<[sha, entries]>>
  runs,               \* workflow_runs with their workflow_jobs, each with how often it is there
  visited,            \* history: [minute, repo, sha] of repositories a scheduleTick was done with
  left                \* what is left of the budget

git == <<scene, tip>>
clock == <<ticks, now, lastScheduleMinute, visited>>
vars == <<git, pull, calls, clock, scheduleCache, runs, left>>

Refs == [kind : {"heads"}, name : Branches] \cup [kind : {"tags"}, name : Tags]
Branch(r, b) == tip[r][[kind |-> "heads", name |-> b]]

Idle == [pc |-> "idle", minute |-> 0, repos |-> {}, sha |-> 0, todo |-> {}]

Init ==
  /\ scene \in Scenes
  /\ left = scene.left
  /\ tip = [r \in Repos |-> [f \in Refs |->
             IF f.kind = "heads" /\ f.name \in scene.branches[r] THEN 1 ELSE 0]]
  /\ pull = [p \in DOMAIN Pulls |-> "none"]
  /\ calls = <<>>
  /\ ticks = [t \in Ticks |-> Idle]
  /\ now = 1 /\ lastScheduleMinute = 0
  /\ scheduleCache = [r \in Repos |-> <<>>]
  /\ runs = EmptyBag
  /\ visited = {}

(* ------------------------------ helpers ------------------------------ *)

Spend(e) == left[e] > 0 /\ left' = [left EXCEPT ![e] = @ - 1]
Pays(fault) == IF fault THEN Spend("git") ELSE UNCHANGED left

\* git diff: no commit undoes what another changed.
Between(a, b) == UNION {Touched[c] : c \in {c \in Commits : a < c /\ c <= b}}
Changed(a, b) == Between(a, b) \cup Between(b, a)
ChangedSinceBase(a, b) == Between(a, b)

\* The files of the first directory that has any, each with its place.  A directory that cannot
\* be read passes for one that is not there; a file that cannot be read is an error of that file.
discover(r, sha, gone, unread) ==
  LET dirs == scene.tree[r][sha]
      usable == {d \in DOMAIN dirs : d \notin gone /\ dirs[d] # <<>>}
      files == dirs[Min(usable)]
  IN IF usable = {} THEN {}
     ELSE {[at |-> i, file |-> files[i], error |-> i \in unread \/ ~parseWorkflow(files[i])] :
             i \in DOMAIN files}

Entries(r, sha) == discover(r, sha, {}, {})

\* What reading the changed files and the workflows may come to; a diff that fails leaves
\* the changed files unknown.
Reads(r, sha, diff) ==
  LET Read(changed, found, fault) == [changed |-> changed, found |-> found, fault |-> fault]
  IN {Read(diff, Entries(r, sha), FALSE), Read(<<>>, Entries(r, sha), TRUE)}
     \cup {Read(diff, discover(r, sha, {d}, {}), TRUE) : d \in DOMAIN scene.tree[r][sha]}
     \cup {Read(diff, discover(r, sha, {}, {e.at}), TRUE) : e \in Entries(r, sha)}

\* The entries that the loops of onPush, onPullRequest and scheduleTick do not pass over.
pushTodo(found, ref, changed) ==
  {e \in found :
     e.error \/ ("push" \in DOMAIN e.file.on /\ pushMatches(e.file.on["push"], ref, changed))}

pullTodo(found, action, base, changed) ==
  {e \in found :
     /\ ~e.error /\ "pull_request" \in DOMAIN e.file.on
     /\ pullMatches(e.file.on["pull_request"], action, base, changed)}

scheduled(found) == {e \in found : ~e.error /\ "schedule" \in DOMAIN e.file.on}
cronTodo(entries, minute) == {e \in entries : \E c \in e.file.on["schedule"] : minute \in c}

\* The entry whose turn it is.
Foremost(todo) == CHOOSE e \in todo : e.at = Min({x.at : x \in todo})

\* The rows of workflow_jobs.
JobRows(jobs) ==
  UNION {LET combos == expandMatrix(job.matrix)
         IN {[id |-> job.id, at |-> at, combo |-> combos[at]] : at \in DOMAIN combos} :
           job \in ToSet(jobs)}

\* The run of createRun, or of recordInvalid.
RunOf(e, r, event, sha, pr, cause) ==
  LET jobs == e.file.jobs
      status == CASE e.error -> "invalid"
                  [] ~e.error /\ (\A i \in DOMAIN jobs : expands(jobs[i].matrix)) -> "queued"
                  [] OTHER -> "failed"
  IN [repo |-> r, event |-> event, sha |-> sha, pr |-> pr, cause |-> cause,
      path |-> e.file.path, status |-> status,
      jobs |-> IF status = "queued" THEN JobRows(jobs) ELSE {}]

Insert(run) == runs' = runs (+) SetToBag({run})

\* createRun, recordInvalid.  A database error: the INSERT of the run, or the status of an
\* invalid one, throws; that of a job closes the run as failed.
createRun(run, threw, event) ==
  \/ Insert(run) /\ ~threw /\ (IF event = "none" THEN UNCHANGED left ELSE Spend(event))
  \/ /\ Spend("db")
     /\ \/ UNCHANGED runs /\ threw
        \/ run.status = "invalid" /\ Insert(run) /\ threw
        \/ run.status = "queued" /\ Insert([run EXCEPT !.status = "failed", !.jobs = {}]) /\ ~threw

(* ----------------- what causes onPush and onPullRequest --------------- *)

NoCall == [kind |-> "push", pc |-> "kicked", repo |-> 0, ref |-> [kind |-> "heads", name |-> "main"],
           before |-> 0, sha |-> 0, action |-> "synchronize", pr |-> 0, prs |-> {}, todo |-> {}]

\* Git has moved, created or deleted a branch or tag (not the one HEAD names); the
\* post-receive hook is to report it.
Push(r, f, c) ==
  /\ Spend("push") /\ <<r, f.name, c>> \in scene.moves
  /\ c # tip[r][f]
  /\ c = 0 => f.kind = "heads" /\ f.name # "main"
  /\ tip' = [tip EXCEPT ![r][f] = c]
  /\ calls' = Append(calls, [NoCall EXCEPT !.repo = r, !.ref = f, !.before = tip[r][f], !.sha = c])
  /\ UNCHANGED <<scene, pull, clock, scheduleCache, runs>>

\* The row of a pull request is written, then its workflows start in the background.
kickActions(p, action) ==
  calls' = Append(calls, [NoCall EXCEPT !.kind = "pull", !.repo = Pulls[p].repo, !.action = action, !.pr = p])

OpenPull(p) ==
  /\ Spend("open")
  /\ pull[p] = "none" /\ Branch(Pulls[p].repo, Pulls[p].source) # 0
  /\ pull' = [pull EXCEPT ![p] = "open"]
  /\ kickActions(p, "opened")
  /\ UNCHANGED <<git, clock, scheduleCache, runs>>

ReopenPull(p) ==
  /\ Spend("reopen")
  /\ pull[p] = "closed"
  /\ pull' = [pull EXCEPT ![p] = "open"]
  /\ kickActions(p, "reopened")
  /\ UNCHANGED <<git, clock, scheduleCache, runs>>

ClosePull(p) ==
  /\ Spend("close")
  /\ pull[p] = "open"
  /\ pull' = [pull EXCEPT ![p] = "closed"]
  /\ UNCHANGED <<git, calls, clock, scheduleCache, runs>>

(* ----------------------- onPush, onPullRequest ----------------------- *)

At(i, pc) == calls[i].pc = pc
Ends(i, how) == calls' = [calls EXCEPT ![i] = [@ EXCEPT !.pc = how, !.prs = {}, !.todo = {}]]

\* A webhook that cannot be queued answers 500 before Actions, a repository that cannot be
\* looked up rejects onPush.
RejectPush(i) ==
  /\ calls[i].kind = "push" /\ At(i, "kicked")
  /\ Spend("db")
  /\ Ends(i, "failed")
  /\ UNCHANGED <<git, pull, clock, scheduleCache, runs>>

Diff(c) == IF c.before # 0 /\ c.ref.kind = "heads" THEN <<Changed(c.before, c.sha)>> ELSE <<>>

StartPush(i) ==
  /\ calls[i].kind = "push" /\ At(i, "kicked")
  /\ LET c == calls[i]
     IN \/ c.sha = 0 /\ Ends(i, "done") /\ UNCHANGED left
        \/ /\ c.sha # 0
           /\ \E read \in Reads(c.repo, c.sha, Diff(c)) :
                /\ Pays(read.fault)
                /\ calls' = [calls EXCEPT ![i].pc = "files",
                                          ![i].todo = pushTodo(read.found, c.ref, read.changed)]
  /\ UNCHANGED <<git, pull, clock, scheduleCache, runs>>

\* One turn of the loop over the workflows, of onPush or of an onPullRequest it calls.
CreateOne(i) ==
  /\ calls[i].todo # {}
  /\ LET c == calls[i]
         e == Foremost(c.todo)
         event == IF At(i, "files") THEN "push" ELSE "pull_request"
     IN \E threw \in BOOLEAN :
          /\ createRun(RunOf(e, c.repo, event, c.sha, c.pr, i), threw, "none")
          /\ IF threw THEN Ends(i, "failed") ELSE calls' = [calls EXCEPT ![i].todo = @ \ {e}]
  /\ UNCHANGED <<git, pull, clock, scheduleCache>>

openPrsForBranch(r, b) ==
  {p \in DOMAIN Pulls : pull[p] = "open" /\ Pulls[p].repo = r /\ Pulls[p].source = b}

\* After the loop of onPush: the cached schedules go, and the pull requests are looked up.
FindPulls(i) ==
  /\ At(i, "files") /\ calls[i].todo = {}
  /\ LET c == calls[i]
     IN /\ scheduleCache' = IF c.ref = [kind |-> "heads", name |-> "main"]
                            THEN [scheduleCache EXCEPT ![c.repo] = <<>>] ELSE scheduleCache
        /\ IF c.ref.kind = "heads"
           THEN \/ /\ calls' = [calls EXCEPT ![i].pc = "pulls",
                                             ![i].prs = openPrsForBranch(c.repo, c.ref.name)]
                   /\ UNCHANGED left
                \/ Ends(i, "failed") /\ Spend("db")
           ELSE Ends(i, "done") /\ UNCHANGED left
  /\ UNCHANGED <<git, pull, clock, runs>>

\* onPullRequest up to its loop: for a push the commit is the one pushed.
ReadPull(i, p, head) ==
  LET base == Branch(Pulls[p].repo, Pulls[p].target)
  IN \E read \in Reads(Pulls[p].repo, head, <<ChangedSinceBase(base, head)>>) :
       /\ Pays(read.fault)
       /\ calls' = [calls EXCEPT ![i].pc = "pulls", ![i].pr = p, ![i].sha = head, ![i].prs = @ \ {p},
            ![i].todo = pullTodo(read.found, calls[i].action, Pulls[p].target, read.changed)]

NextPull(i) ==
  /\ At(i, "pulls") /\ calls[i].todo = {}
  /\ \/ \E p \in calls[i].prs : ReadPull(i, p, calls[i].sha)
     \/ \E p \in calls[i].prs : Ends(i, "failed") /\ Spend("db")
     \/ calls[i].prs = {} /\ Ends(i, "done") /\ UNCHANGED left
  /\ UNCHANGED <<git, pull, clock, scheduleCache, runs>>

\* An onPullRequest that a pull request was opened or reopened for: the commit is the one its
\* branch has now; no such branch rejects it.
StartPull(i) ==
  /\ calls[i].kind = "pull" /\ At(i, "kicked")
  /\ LET p == calls[i].pr
         head == Branch(Pulls[p].repo, Pulls[p].source)
     IN \/ head # 0 /\ ReadPull(i, p, head)
        \/ head = 0 /\ Ends(i, "failed") /\ UNCHANGED left
        \/ Ends(i, "failed") /\ (Spend("db") \/ Spend("git"))
  /\ UNCHANGED <<git, pull, clock, scheduleCache, runs>>

(* -------------------------- dispatch, rerun -------------------------- *)

\* Anything that fails before createRun answers an error and changes nothing.
Dispatch(r, f) ==
  /\ left["dispatch"] > 0
  /\ tip[r][f] # 0
  /\ \E e \in Entries(r, tip[r][f]), threw \in BOOLEAN :
       /\ ~e.error /\ "workflow_dispatch" \in DOMAIN e.file.on
       /\ createRun(RunOf(e, r, "workflow_dispatch", tip[r][f], 0, 0), threw, "dispatch")
  /\ UNCHANGED <<git, pull, calls, clock, scheduleCache>>

\* The same workflow again, for the commit and the event of a run.
rerun(run) ==
  /\ left["rerun"] > 0
  /\ \E e \in Entries(run.repo, run.sha), threw \in BOOLEAN :
       /\ e.file.path = run.path /\ ~e.error
       /\ createRun(RunOf(e, run.repo, run.event, run.sha, run.pr, 0), threw, "rerun")
  /\ UNCHANGED <<git, pull, calls, clock, scheduleCache>>

(* ---------------------------- scheduleTick --------------------------- *)

Minute ==
  /\ Spend("minute") /\ now < MaxMinute
  /\ now' = now + 1
  /\ UNCHANGED <<git, pull, calls, ticks, lastScheduleMinute, visited, scheduleCache, runs>>

\* A scheduleTick that has these repositories still to visit; they are listed in order.
Visiting(minute, repos) ==
  IF repos = {} THEN Idle ELSE [Idle EXCEPT !.pc = "head", !.minute = minute, !.repos = repos]

\* The timer: the minute is taken before the repositories are listed.
Tick(t) ==
  /\ ticks[t].pc = "idle" /\ lastScheduleMinute # now
  /\ left["tick"] > 0
  /\ lastScheduleMinute' = now
  /\ \/ ticks' = [ticks EXCEPT ![t] = Visiting(now, Repos)] /\ Spend("tick")
     \/ Spend("db") /\ UNCHANGED ticks
  /\ UNCHANGED <<git, pull, calls, now, visited, scheduleCache, runs>>

\* Mutant: what is cached is used whatever the commit.
FreshBlind(cached, head) == cached # <<>>

Fresh(cached, head) == cached # <<>> /\ cached[1].sha = head

AtRepo(t) == Min(ticks[t].repos)
NextRepo(t) == ticks' = [ticks EXCEPT ![t] = Visiting(@.minute, @.repos \ {AtRepo(t)})]

\* The head of the default branch; when it cannot be read, as in an empty repository, the
\* repository is passed over.
TickHead(t) ==
  /\ ticks[t].pc = "head"
  /\ LET head == Branch(AtRepo(t), "main")
         cached == scheduleCache[AtRepo(t)]
     IN \/ NextRepo(t) /\ (Spend("git") \/ (head = 0 /\ UNCHANGED left))
        \/ /\ head # 0
           /\ ticks' = [ticks EXCEPT ![t] =
                IF Fresh(cached, head)
                THEN [@ EXCEPT !.pc = "runs", !.sha = head, !.todo = cronTodo(cached[1].entries, ticks[t].minute)]
                ELSE [@ EXCEPT !.pc = "load", !.sha = head]]
           /\ UNCHANGED left
  /\ UNCHANGED <<git, pull, calls, now, lastScheduleMinute, visited, scheduleCache, runs>>

TickLoad(t) ==
  /\ ticks[t].pc = "load"
  /\ \E read \in Reads(AtRepo(t), ticks[t].sha, <<>>) :
       LET entries == scheduled(read.found)
       IN /\ Pays(read.fault)
          /\ scheduleCache' = [scheduleCache EXCEPT ![AtRepo(t)] =
                                 <<[sha |-> ticks[t].sha, entries |-> entries]>>]
          /\ ticks' = [ticks EXCEPT ![t].pc = "runs", ![t].todo = cronTodo(entries, ticks[t].minute)]
  /\ UNCHANGED <<git, pull, calls, now, lastScheduleMinute, visited, runs>>

TickRun(t) ==
  /\ ticks[t].pc = "runs" /\ ticks[t].todo # {}
  /\ LET e == Foremost(ticks[t].todo)
     IN \E threw \in BOOLEAN :
          /\ createRun(RunOf(e, AtRepo(t), "schedule", ticks[t].sha, 0, ticks[t].minute), threw, "none")
          /\ ticks' = IF threw THEN [ticks EXCEPT ![t] = Idle] ELSE [ticks EXCEPT ![t].todo = @ \ {e}]
  /\ UNCHANGED <<git, pull, calls, now, lastScheduleMinute, visited, scheduleCache>>

TickNext(t) ==
  /\ ticks[t].pc = "runs" /\ ticks[t].todo = {}
  /\ visited' = visited \cup {[minute |-> ticks[t].minute, repo |-> AtRepo(t), sha |-> ticks[t].sha]}
  /\ NextRepo(t)
  /\ UNCHANGED <<git, pull, calls, now, lastScheduleMinute, scheduleCache, runs, left>>

(* ------------------------------ restart ------------------------------ *)

\* The process dies and starts again: what it had begun is not taken up; the hooks that
\* called meanwhile reached nobody.
Restart ==
  /\ Spend("crash")
  /\ \E lost \in SUBSET {i \in DOMAIN calls : calls[i].kind = "push" /\ At(i, "kicked")} :
       calls' = [i \in DOMAIN calls |->
         IF \/ i \in lost
            \/ calls[i].pc \in {"files", "pulls"}
            \/ calls[i].kind = "pull" /\ At(i, "kicked")
         THEN [calls[i] EXCEPT !.pc = "failed", !.prs = {}, !.todo = {}] ELSE calls[i]]
  /\ ticks' = [t \in Ticks |-> Idle]
  /\ lastScheduleMinute' = 0
  /\ scheduleCache' = [r \in Repos |-> <<>>]
  /\ UNCHANGED <<git, pull, now, visited, runs>>

Next ==
  \/ \E r \in Repos, f \in Refs, c \in Commits \cup {0} : Push(r, f, c)
  \/ \E p \in DOMAIN Pulls : OpenPull(p) \/ ReopenPull(p) \/ ClosePull(p)
  \/ \E i \in DOMAIN calls :
       \/ RejectPush(i) \/ StartPush(i) \/ CreateOne(i) \/ FindPulls(i) \/ NextPull(i) \/ StartPull(i)
  \/ \E r \in Repos, f \in Refs : Dispatch(r, f)
  \/ \E run \in BagToSet(runs) : rerun(run)
  \/ Minute
  \/ \E t \in Ticks : Tick(t) \/ TickHead(t) \/ TickLoad(t) \/ TickRun(t) \/ TickNext(t)
  \/ Restart

Spec == Init /\ [][Next]_vars

(* ------------------------------- types ------------------------------- *)

FilesOf(r, c) == UNION {ToSet(scene.tree[r][c][d]) : d \in DOMAIN scene.tree[r][c]}
Files == UNION {FilesOf(r, c) : r \in Repos, c \in Commits}
Entry == [at : Nat, file : Files, error : BOOLEAN]

Call == [kind : {"push", "pull"}, pc : {"kicked", "files", "pulls", "done", "failed"},
         repo : Repos, ref : Refs, before : Commits \cup {0}, sha : Commits \cup {0},
         action : DefaultTypes, pr : DOMAIN Pulls \cup {0}, prs : SUBSET DOMAIN Pulls,
         todo : SUBSET Entry]

ScheduleTick == [pc : {"idle", "head", "load", "runs"}, minute : Nat, repos : SUBSET Repos,
                 sha : Commits \cup {0}, todo : SUBSET Entry]

TypeOK ==
  /\ scene \in Scenes
  /\ tip \in [Repos -> [Refs -> Commits \cup {0}]]
  /\ pull \in [DOMAIN Pulls -> {"none", "open", "closed"}]
  /\ calls \in Seq(Call)
  /\ ticks \in [Ticks -> ScheduleTick]
  /\ now \in Nat \ {0} /\ lastScheduleMinute \in 0 .. now
  /\ scheduleCache \in [Repos -> Seq([sha : Commits, entries : SUBSET Entry])]
  /\ \A run \in BagToSet(runs) : run.repo \in Repos /\ run.sha \in Commits /\ runs[run] \in Nat \ {0}
  /\ visited \subseteq [minute : Nat, repo : Repos, sha : Commits]
  /\ left \in [Events -> Nat] /\ \A e \in Events : left[e] <= scene.left[e]

(* ---------------------------- properties ----------------------------- *)

Unused(es) == \A e \in es : left[e] = scene.left[e]

\* There is exactly one workflow run in the set.
Once(S) == \E run \in S : S = {run} /\ runs[run] = 1

\* Every push whose onPush is over has started each workflow of the pushed commit exactly once
\* if the filters of the file let the branch or tag and the changed files through, reported
\* each invalid file once, and started nothing else; the deletion of a branch starts nothing.
\* Without faults and restarts, however the handlers of pushes and pull requests interleave.
PushesRun ==
  Unused({"db", "git", "crash"}) =>
    \A i \in DOMAIN calls : calls[i].kind = "push" /\ At(i, "done") =>
      LET c == calls[i]
          mine == {run \in BagToSet(runs) : run.event = "push" /\ run.cause = i}
          found == IF c.sha = 0 THEN {} ELSE Entries(c.repo, c.sha)
          due == {e \in found : \/ e.error
                                \/ /\ "push" \in DOMAIN e.file.on
                                   /\ PushDue(e.file.on["push"], c.ref, Diff(c))}
      IN /\ \A run \in mine : \E e \in due : run.path = e.file.path
         /\ \A e \in due : Once({run \in mine : run.path = e.file.path})

\* When no handler is at work, every open pull request has a run of each of its workflows for
\* the commit its branch has now: whichever way pushes to the branch, opening, closing and
\* reopening fall between each other's steps.  Workflows that ask for some types or paths only
\* are left aside; without faults and restarts.
HeadIsTested ==
  /\ Unused({"db", "git", "crash"})
  /\ \A i \in DOMAIN calls : calls[i].pc \in {"done", "failed"}
  => \A p \in {p \in DOMAIN Pulls : pull[p] = "open"} :
       LET head == Branch(Pulls[p].repo, Pulls[p].source)
       IN head # 0 =>
          \A e \in {e \in Entries(Pulls[p].repo, head) : ~e.error} :
            /\ "pull_request" \in DOMAIN e.file.on
            /\ {"types", "paths", "paths-ignore"} \cap DOMAIN e.file.on["pull_request"] = {}
            /\ Passes(e.file.on["pull_request"], "branches", Pulls[p].target)
            => \E run \in BagToSet(runs) :
                 /\ run.event = "pull_request" /\ run.pr = p
                 /\ run.sha = head /\ run.path = e.file.path

\* A run that is queued has exactly the jobs its file's matrices stand for, and none of them
\* needs itself or a job that is not there, so that the engine can finish it; a file is only
\* reported invalid, and a run closed at its start, when the file gives reason to.
JobsAsWritten ==
  \A run \in BagToSet(runs) :
    \E d \in DOMAIN scene.tree[run.repo][run.sha] : \E file \in ToSet(scene.tree[run.repo][run.sha][d]) :
      /\ file.path = run.path
      /\ run.status = "queued" =>
           /\ Sound(file) /\ Small(file)
           /\ run.jobs = UNION {LET combos == MatrixJobs(job.matrix)
                                IN {[id |-> job.id, at |-> at, combo |-> combos[at]] : at \in DOMAIN combos} :
                                  job \in ToSet(file.jobs)}
      /\ run.status = "invalid" /\ Unused({"git"}) => ~Sound(file)
      /\ run.status = "failed" /\ Unused({"db"}) => ~Small(file)

\* A push that made the default branch of a repository.
Births(c, r) ==
  c.kind = "push" /\ c.repo = r /\ c.before = 0 /\ c.ref = [kind |-> "heads", name |-> "main"]

\* A scheduled workflow runs exactly once in each minute one of its crons matches: for the
\* repositories that a tick is done with, for the files of the commit it saw at the head of the
\* default branch, also when pushes move that head and when ticks overlap; and a tick that
\* is over has been to every repository that was not empty, unless the database failed.  Not when git fails (the
\* workflows it hides stay hidden until the head moves) nor after a restart (the minute runs again).
SchedulesFireOnce ==
  Unused({"git", "crash"}) =>
    LET Fired(r, path, minute) ==
          {run \in BagToSet(runs) : /\ run.event = "schedule" /\ run.repo = r
                                    /\ run.path = path /\ run.cause = minute}
    IN /\ \A v \in visited : \A e \in Entries(v.repo, v.sha) :
            LET matches == /\ ~e.error /\ "schedule" \in DOMAIN e.file.on
                           /\ v.minute \in UNION e.file.on["schedule"]
                fired == Fired(v.repo, e.file.path, v.minute)
            IN IF matches THEN Once(fired) ELSE fired = {}
       /\ \A run \in BagToSet(runs) : run.event = "schedule" /\ run.cause # 0 =>
            Once(Fired(run.repo, run.path, run.cause))
       /\ Unused({"db"}) /\ lastScheduleMinute # 0 /\ (\A t \in Ticks : ticks[t].minute # lastScheduleMinute)
            => \A r \in Repos : \/ \E v \in visited : v.repo = r /\ v.minute = lastScheduleMinute
                              \/ Branch(r, "main") = 0
                              \/ \E i \in DOMAIN calls : Births(calls[i], r)

=============================================================================

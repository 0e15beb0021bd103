------------------------------ MODULE Workflows ------------------------------
(***************************************************************************)
(* The pure part of the Actions engine (lib/workflowSpec.js): which events *)
(* start a workflow, the jobs its matrices expand to, and the check that   *)
(* the jobs can be put in order.                                           *)
(*                                                                         *)
(* A pattern is [not, hits]: whether it starts with `!', and the names its *)
(* glob matches.  The filters of an event are a function from those of     *)
(* FilterKeys that the file gives.  A cron expression is the set of the    *)
(* minutes it matches.                                                     *)
(***************************************************************************)
EXTENDS Naturals, FiniteSets, Sequences, SequencesExt

CONSTANTS MaxJobs,   \* MAX_JOBS
          MaxMatrix  \* MAX_MATRIX

ASSUME LimitsAssumption == MaxJobs \in Nat \ {0} /\ MaxMatrix \in Nat \ {0}

FilterKeys == {"branches", "branches-ignore", "tags", "tags-ignore", "paths", "paths-ignore", "types"}

(* ------------------------------ triggers ----------------------------- *)

\* Mutant: a negation does not take back what a pattern before it let in.
MatchAny(name, patterns) == \E i \in DOMAIN patterns : name \in patterns[i].hits /\ ~patterns[i].not

\* The last pattern that matches wins.
matchPatterns(name, patterns) ==
  LET matched[n \in 0..Len(patterns)] ==
        IF n = 0 THEN FALSE
        ELSE IF name \in patterns[n].hits THEN ~patterns[n].not ELSE matched[n - 1]
  IN matched[Len(patterns)]

Ignore == [branches |-> "branches-ignore", tags |-> "tags-ignore", paths |-> "paths-ignore"]

includeIgnore(name, cfg, kind) ==
  IF kind \in DOMAIN cfg THEN matchPatterns(name, cfg[kind])
  ELSE Ignore[kind] \in DOMAIN cfg => ~matchPatterns(name, cfg[Ignore[kind]])

Filters(cfg, kind) == kind \in DOMAIN cfg \/ Ignore[kind] \in DOMAIN cfg

\* changed is <<>> when the changed files are not known, else <<the set of them>>.
pathsMatch(cfg, changed) ==
  \/ ~Filters(cfg, "paths")
  \/ changed = <<>>
  \/ \E file \in changed[1] : includeIgnore(file, cfg, "paths")

\* Mutant: a workflow does not run when a pull request is reopened.
TypesWithoutReopen == {"opened", "synchronize"}

DefaultTypes == {"opened", "synchronize", "reopened"}

pushMatches(cfg, ref, changed) ==
  \/ /\ ref.kind = "heads"
     /\ Filters(cfg, "tags") => Filters(cfg, "branches")
     /\ includeIgnore(ref.name, cfg, "branches")
     /\ pathsMatch(cfg, changed)
  \/ /\ ref.kind = "tags"
     /\ Filters(cfg, "branches") => Filters(cfg, "tags")
     /\ includeIgnore(ref.name, cfg, "tags")

pullMatches(cfg, action, base, changed) ==
  /\ action \in (IF "types" \in DOMAIN cfg THEN cfg["types"] ELSE DefaultTypes)
  /\ includeIgnore(base, cfg, "branches")
  /\ pathsMatch(cfg, changed)

(* ------------------------------- matrix ------------------------------ *)
(* The axes of a matrix give each key its list of values.  The order of    *)
(* jobs is left out: each is known by its place, a choice of one place in  *)
(* every list, or an include.                                              *)

NoKeys == [k \in {} |-> "-"]

\* The loops over the axes: none without an axis.
choices(matrix) ==
  LET axes == matrix.axes
  IN {c \in [DOMAIN axes -> UNION {DOMAIN axes[k] : k \in DOMAIN axes}] :
        DOMAIN axes # {} /\ \A k \in DOMAIN axes : c[k] \in DOMAIN axes[k]}

product(matrix) ==
  [c \in choices(matrix) |-> [k \in DOMAIN matrix.axes |-> matrix.axes[k][c[k]]]]

Agrees(combo, partial, keys) ==
  \A k \in keys : k \in DOMAIN combo /\ combo[k] = partial[k]

\* Mutant: what an earlier include added may not be overwritten either.
FitsAll(matrix, combo, inc) == Agrees(combo, inc, DOMAIN inc \cap DOMAIN combo)

\* An include extends the combinations whose axis values it does not contradict: the values
\* it adds may be overwritten by a later one.  One that fits none becomes a job of its own.
fits(matrix, combo, inc) == Agrees(combo, inc, DOMAIN inc \cap DOMAIN matrix.axes)

\* Object.assign: the values of the include come before those there were.
assign(combo, inc) ==
  [k \in DOMAIN inc \cup DOMAIN combo |-> IF k \in DOMAIN inc THEN inc[k] ELSE combo[k]]

includeOne(matrix, done, n) ==
  LET inc == matrix.include[n]
      fitting == {c \in DOMAIN done.combos : fits(matrix, done.combos[c], inc)}
  IN IF fitting = {} THEN [done EXCEPT !.extra = @ \cup {n}]
     ELSE [done EXCEPT !.combos =
             [c \in DOMAIN @ |-> IF c \in fitting THEN assign(@[c], inc) ELSE @[c]]]

\* The combinations and the includes that became jobs, by their places; one job when there are none.
JobsAt(matrix, combos, extra) ==
  LET places == ({"choice"} \X DOMAIN combos) \cup ({"include"} \X extra)
  IN IF places = {} THEN [at \in {<<"none", 0>>} |-> NoKeys]
     ELSE [at \in places |-> IF at[1] = "choice" THEN combos[at[2]] ELSE matrix.include[at[2]]]

Excluded(matrix, combo) ==
  \E x \in ToSet(matrix.exclude) : Agrees(combo, x, DOMAIN x)

expandMatrix(matrix) ==
  LET all == product(matrix)
      kept == {c \in DOMAIN all : ~Excluded(matrix, all[c])}
      done[n \in 0 .. Len(matrix.include)] ==
        IF n = 0 THEN [combos |-> [c \in kept |-> all[c]], extra |-> {}]
        ELSE includeOne(matrix, done[n - 1], n)
      last == done[Len(matrix.include)]
  IN JobsAt(matrix, last.combos, last.extra)

\* createRun's WorkflowErrors: a matrix that is an expression, an empty axis, too many jobs.
expands(matrix) ==
  /\ ~matrix.expression
  /\ \A k \in DOMAIN matrix.axes : matrix.axes[k] # <<>>
  /\ Cardinality(DOMAIN expandMatrix(matrix)) <= MaxMatrix

(* ------------------------------- needs ------------------------------- *)

IdsOf(jobs) == {jobs[i].id : i \in DOMAIN jobs}
JobOf(jobs, id) == jobs[CHOOSE i \in DOMAIN jobs : jobs[i].id = id]

\* state: the jobs that are being visited and those that are done; whether it threw.
Walks(jobs) == [visiting : SUBSET IdsOf(jobs), done : SUBSET IdsOf(jobs), cycle : BOOLEAN]

\* A loop of visits: each goes on from what the one before it left.
visitAll(visit, walk, ids) ==
  LET after[m \in 0 .. Len(ids)] == IF m = 0 THEN walk ELSE visit[after[m - 1]][ids[m]]
  IN after[Len(ids)]

\* The visit of a job; those of the jobs it needs are `deeper'.
visitOne(jobs, deeper, walk, id) ==
  IF walk.cycle \/ id \in walk.done THEN walk
  ELSE IF id \in walk.visiting THEN [walk EXCEPT !.cycle = TRUE]
  ELSE LET deep == visitAll(deeper, [walk EXCEPT !.visiting = @ \cup {id}], JobOf(jobs, id).needs)
       IN IF deep.cycle THEN deep
          ELSE [deep EXCEPT !.visiting = @ \ {id}, !.done = @ \cup {id}]

\* The depth-first visits.  visit[n] are those with n - 1 levels below them: every level marks
\* a job, so none goes deeper than there are jobs.
jobOrder(jobs) ==
  LET visit[n \in 0 .. Len(jobs) + 1] ==
        [walk \in Walks(jobs) |-> [id \in IdsOf(jobs) |->
           IF n = 0 THEN walk ELSE visitOne(jobs, visit[n - 1], walk, id)]]
  IN visitAll(visit[Len(jobs) + 1], [visiting |-> {}, done |-> {}, cycle |-> FALSE],
              [i \in DOMAIN jobs |-> jobs[i].id])

\* What parseWorkflow accepts.  file.valid is whether the file is YAML and its steps, events
\* and crons are well formed.
FiltersClash(cfg) ==
  \E kind \in DOMAIN Ignore : {kind, Ignore[kind]} \subseteq DOMAIN cfg

parseWorkflow(file) ==
  /\ file.valid
  /\ \A event \in DOMAIN file.on \cap {"push", "pull_request"} : ~FiltersClash(file.on[event])
  /\ Len(file.jobs) \in 1..MaxJobs
  /\ \A i \in DOMAIN file.jobs : ToSet(file.jobs[i].needs) \subseteq IdsOf(file.jobs)
  /\ ~jobOrder(file.jobs).cycle

(* ---------------- what these are to compute, said anew --------------- *)

\* A list of patterns admits a name when the last one that matches it does not negate.
Admits(patterns, name) ==
  \E i \in DOMAIN patterns :
     /\ name \in patterns[i].hits /\ ~patterns[i].not
     /\ \A j \in DOMAIN patterns : j > i => name \notin patterns[j].hits

Passes(cfg, kind, name) ==
  /\ kind \in DOMAIN cfg => Admits(cfg[kind], name)
  /\ Ignore[kind] \in DOMAIN cfg => ~Admits(cfg[Ignore[kind]], name)

\* A push starts a workflow when its branch or tag passes the filters of that kind, if the
\* file filters either kind it has some of this kind, and a changed file passes, for a branch
\* whose changed files are known.
PushDue(cfg, ref, changed) ==
  LET kind == IF ref.kind = "heads" THEN "branches" ELSE "tags"
      any == Filters(cfg, "branches") \/ Filters(cfg, "tags")
  IN /\ any => Filters(cfg, kind)
     /\ Passes(cfg, kind, ref.name)
     /\ ref.kind = "heads" /\ changed # <<>> /\ Filters(cfg, "paths")
          => \E file \in changed[1] : Passes(cfg, "paths", file)

\* The jobs of a matrix: each choice of axis values that no exclude describes, with the added
\* keys of the last include that fits it and gives the key; and each include that fits none;
\* one job when that is nothing.
MatrixJobs(matrix) ==
  LET axes == DOMAIN matrix.axes
      include == matrix.include
      ValueOf(c, k) == matrix.axes[k][c[k]]
      kept == {c \in choices(matrix) : \A x \in ToSet(matrix.exclude) :
                 \E k \in DOMAIN x : k \notin axes \/ ValueOf(c, k) # x[k]}
      Fitting(c) == {i \in DOMAIN include :
                       \A k \in axes : k \in DOMAIN include[i] => ValueOf(c, k) = include[i][k]}
      Added(c) == UNION {DOMAIN include[i] : i \in Fitting(c)}
      LastWith(c, k) == CHOOSE i \in Fitting(c) :
                          /\ k \in DOMAIN include[i]
                          /\ \A j \in Fitting(c) : j > i => k \notin DOMAIN include[j]
  IN JobsAt(matrix,
            [c \in kept |-> [k \in axes \cup Added(c) |->
               IF k \in axes THEN ValueOf(c, k) ELSE include[LastWith(c, k)][k]]],
            {i \in DOMAIN include : \A c \in kept : i \notin Fitting(c)})

\* No job needs itself, through whatever others: in every set of jobs there is one that needs
\* none of the set.
Acyclic(jobs) ==
  \A S \in SUBSET IdsOf(jobs) : S # {} =>
    \E id \in S : S \cap ToSet(JobOf(jobs, id).needs) = {}

\* What a workflow file has to be, and what its matrices.
Sound(file) ==
  LET jobs == file.jobs
  IN /\ file.valid /\ Len(jobs) \in 1 .. MaxJobs
     /\ \A event \in DOMAIN file.on \cap {"push", "pull_request"} : ~FiltersClash(file.on[event])
     /\ \A i \in DOMAIN jobs : ToSet(jobs[i].needs) \subseteq IdsOf(jobs)
     /\ Acyclic(jobs)

Small(file) ==
  \A job \in ToSet(file.jobs) :
    /\ ~job.matrix.expression /\ Cardinality(DOMAIN MatrixJobs(job.matrix)) <= MaxMatrix
    /\ \A k \in DOMAIN job.matrix.axes : job.matrix.axes[k] # <<>>

=============================================================================

--------------------------- MODULE TriggersProofs ---------------------------
(* Theorems about Triggers, for every set of repositories, commits, workflow files  *)
(* and pull requests, and every number of pushes, ticks and requests.               *)
EXTENDS Triggers, FiniteSetTheorems, SequenceTheorems, WellFoundedInduction, TLAPS

(* ------------------------------ operators ---------------------------- *)

\* The least of a set of naturals: they are well ordered.
LEMMA LeastIn ==
  ASSUME NEW S, S \subseteq Nat, S # {}
  PROVE  Min(S) \in S /\ \A k \in S : Min(S) <= k
<1>1. PICK j \in S : \A k \in S : ~(<<k, j>> \in OpToRel(<, Nat))
  BY WFMin, NatLessThanWellFounded, Zenon
<1>2. \A k \in S : ~(k < j)
  BY <1>1 DEF OpToRel
<1>3. \A k \in S : j <= k
  BY <1>2
<1> QED
  BY <1>3 DEF Min

\* The last pattern that matches wins: the loop of matchPatterns computes Admits.
LEMMA LastMatchWins ==
  ASSUME NEW patterns, Len(patterns) \in Nat, DOMAIN patterns = 1 .. Len(patterns), NEW name
  PROVE  matchPatterns(name, patterns) = Admits(patterns, name)
<1> DEFINE len == Len(patterns)
           In(n) == \E i \in 1 .. n :
                      /\ name \in patterns[i].hits /\ ~patterns[i].not
                      /\ \A j \in (i + 1) .. n : name \notin patterns[j].hits
           Step(g, n) == IF n = 0 THEN FALSE
                         ELSE IF name \in patterns[n].hits THEN ~patterns[n].not ELSE g[n - 1]
           Is(g) == g = [n \in 0 .. len |-> Step(g, n)]
           m == CHOOSE g : Is(g)
           f == [n \in 0 .. len |-> In(n)]
<1>1. \A n \in 1 .. len : In(n) <=> IF name \in patterns[n].hits THEN ~patterns[n].not ELSE In(n - 1)
  <2> SUFFICES ASSUME NEW n \in 1 .. len
               PROVE  In(n) <=> IF name \in patterns[n].hits THEN ~patterns[n].not ELSE In(n - 1)
    OBVIOUS
  <2>1. CASE name \in patterns[n].hits
    BY <2>1
  <2>2. CASE name \notin patterns[n].hits
    BY <2>2
  <2> QED
    BY <2>1, <2>2
<1>2. ~In(0)
  OBVIOUS
<1>3. Is(f)
  <2>1. ASSUME NEW n \in 0 .. len PROVE f[n] = Step(f, n)
    <3>1. CASE n = 0
      BY <3>1, <1>2
    <3>2. CASE n # 0
      <4>1. n \in 1 .. len /\ n - 1 \in 0 .. len
        BY <3>2
      <4>2. f[n - 1] = In(n - 1) /\ f[n] = In(n)
        BY <4>1
      <4> QED
        BY <4>1, <4>2, <1>1, <3>2
    <3> QED
      BY <3>1, <3>2
  <2> QED
    BY <2>1
<1>4. Is(m)
  <2> HIDE DEF Is
  <2> QED
    BY <1>3
<1>5. matchPatterns(name, patterns) = m[len]
  BY DEF matchPatterns
<1>6. \A n \in 0 .. len : m[n] = f[n]
  <2>1. \A n \in 0 .. len : m[n] = Step(m, n) /\ f[n] = Step(f, n)
    <3> HIDE DEF m, f
    <3> QED
      BY <1>3, <1>4
  <2> HIDE DEF m, f
  <2>2. SUFFICES ASSUME NEW k0 \in 0 .. len, m[k0] # f[k0] PROVE FALSE
    OBVIOUS
  <2>3. PICK k \in 0 .. len : m[k] # f[k] /\ \A n \in 0 .. len : m[n] # f[n] => k <= n
    <3> DEFINE T == {n \in 0 .. len : m[n] # f[n]}
    <3>1. T \subseteq Nat /\ k0 \in T
      BY <2>2
    <3>2. Min(T) \in T /\ \A n \in T : Min(T) <= n
      <4> HIDE DEF T
      <4> QED
        BY <3>1, LeastIn
    <3> QED
      BY <3>2
  <2>4. CASE k = 0
    BY <2>1, <2>3, <2>4
  <2>5. CASE k # 0
    <3>1. k \in 1 .. len /\ k - 1 \in 0 .. len /\ ~(k <= k - 1)
      BY <2>5
    <3>2. m[k - 1] = f[k - 1]
      BY <3>1, <2>3
    <3> QED
      BY <3>2, <2>1, <2>3, <2>5
  <2> QED
    BY <2>4, <2>5
<1>7. f[len] = In(len) /\ In(len) = Admits(patterns, name)
  BY DEF Admits
<1>8. m[len] = f[len]
  <2> HIDE DEF m, f
  <2> QED
    BY <1>6
<1> QED
  BY <1>5, <1>7, <1>8

\* A filter with its -ignore form: includeIgnore computes Passes, as a file gives one of them.
LEMMA FilterPasses ==
  ASSUME NEW cfg, NEW kind \in DOMAIN Ignore, ~FiltersClash(cfg), NEW name,
         NEW S, \A k \in DOMAIN cfg \ {"types"} : cfg[k] \in Seq(S)
  PROVE  includeIgnore(name, cfg, kind) <=> Passes(cfg, kind, name)
<1>1. \A k \in DOMAIN cfg \ {"types"} : matchPatterns(name, cfg[k]) = Admits(cfg[k], name)
  BY LastMatchWins
<1>2. kind # "types" /\ Ignore[kind] # "types"
  BY DEF Ignore
<1>3. ~({kind, Ignore[kind]} \subseteq DOMAIN cfg)
  BY DEF FiltersClash
<1> QED
  BY <1>1, <1>2, <1>3 DEF includeIgnore, Passes

\* pushMatches decides what PushDue says.
LEMMA PushFilters ==
  ASSUME NEW cfg, ~FiltersClash(cfg), NEW ref, ref.kind \in {"heads", "tags"}, NEW changed,
         NEW S, \A k \in DOMAIN cfg \ {"types"} : cfg[k] \in Seq(S)
  PROVE  pushMatches(cfg, ref, changed) <=>
         PushDue(cfg, ref, IF ref.kind = "heads" THEN changed ELSE <<>>)
<1>1. \A name : \A kind \in {"branches", "tags", "paths"} :
        includeIgnore(name, cfg, kind) <=> Passes(cfg, kind, name)
  BY FilterPasses DEF Ignore
<1>2. CASE ref.kind = "heads"
  BY <1>1, <1>2 DEF pushMatches, PushDue, pathsMatch
<1>3. CASE ref.kind = "tags"
  BY <1>1, <1>3 DEF pushMatches, PushDue
<1> QED
  BY <1>2, <1>3

(* ------------------------- what a commit contains -------------------- *)

\* Induction up to a number, on a set.
LEMMA UpTo ==
  ASSUME NEW n \in Nat, NEW S, 0 \in S, \A k \in 1 .. n : k - 1 \in S => k \in S
  PROVE  \A k \in 0 .. n : k \in S
<1> DEFINE Not == {k \in 0 .. n : k \notin S}
<1>1. ASSUME Not # {} PROVE FALSE
  <2>1. Not \subseteq Nat
    OBVIOUS
  <2>2. Min(Not) \in Not /\ \A k \in Not : Min(Not) <= k
    BY <1>1, <2>1, LeastIn
  <2>3. Min(Not) \in 1 .. n
    BY <2>2
  <2>4. Min(Not) - 1 \in S
    BY <2>2, <2>3
  <2> QED
    BY <2>2, <2>3, <2>4
<1> QED
  BY <1>1

\* A loop of n turns from x, each of which applies a function.
Looped(g, n, X, x, turn) ==
  g \in [0 .. n -> X] /\ g[0] = x /\ \A k \in 1 .. n : g[k] = turn[k][g[k - 1]]

LEMMA Loop ==
  ASSUME NEW n \in Nat, NEW X, NEW x \in X, NEW turn \in [1 .. n -> [X -> X]]
  PROVE  \E g : Looped(g, n, X, x, turn)
<1> DEFINE Upto(k, g) == Looped(g, k, X, x, turn)
           S == {k \in 0 .. n : \E g : Upto(k, g)}
<1>1. 0 \in S
  <2>1. Upto(0, [j \in 0 .. 0 |-> x])
    BY DEF Looped
  <2> HIDE DEF Upto
  <2> QED
    BY <2>1
<1>2. ASSUME NEW k \in 1 .. n, k - 1 \in S PROVE k \in S
  <2>1. PICK g : Upto(k - 1, g)
    BY <1>2
  <2> DEFINE h == [j \in 0 .. k |-> IF j = k THEN turn[k][g[k - 1]] ELSE g[j]]
  <2>2. turn[k][g[k - 1]] \in X
    BY <2>1 DEF Looped
  <2>3. h \in [0 .. k -> X]
    BY <2>1, <2>2 DEF Looped
  <2>4. h[0] = x
    BY <2>1 DEF Looped
  <2>5. ASSUME NEW j \in 1 .. k PROVE h[j] = turn[j][h[j - 1]]
    <3>1. h[j - 1] = g[j - 1]
      OBVIOUS
    <3>2. CASE j = k
      BY <3>1, <3>2
    <3>3. CASE j # k
      <4>1. j \in 1 .. (k - 1)
        BY <3>3
      <4>2. h[j] = g[j]
        BY <3>3
      <4> QED
        BY <3>1, <4>1, <4>2, <2>1 DEF Looped
    <3> QED
      BY <3>2, <3>3
  <2>6. Upto(k, h)
    BY <2>3, <2>4, <2>5 DEF Looped
  <2> HIDE DEF Upto, h
  <2> QED
    BY <2>6
<1> HIDE DEF Upto
<1>3. \A k \in 1 .. n : k - 1 \in S => k \in S
  BY <1>2
<1>4. \A k \in 0 .. n : k \in S
  <2> HIDE DEF S
  <2> QED
    BY <1>1, <1>3, UpTo
<1>5. \E g : Upto(n, g)
  BY <1>4
<1> QED
  BY <1>5 DEF Upto

\* What the turns of a loop of visits leave.
Visited(after, W, visit, walk, list) ==
  /\ after \in [0 .. Len(list) -> W]
  /\ after[0] = walk
  /\ \A m \in 1 .. Len(list) : after[m] = visit[after[m - 1]][list[m]]
  /\ visitAll(visit, walk, list) = after[Len(list)]

LEMMA VisitsAll ==
  ASSUME NEW W, NEW ids, NEW visit \in [W -> [ids -> W]], NEW walk \in W, NEW list \in Seq(ids)
  PROVE  \E after : Visited(after, W, visit, walk, list)
<1> DEFINE len == Len(list)
           turn == [m \in 1 .. len |-> [w \in W |-> visit[w][list[m]]]]
           Is(g) == g = [m \in 0 .. len |-> IF m = 0 THEN walk ELSE visit[g[m - 1]][list[m]]]
           f == CHOOSE g : Is(g)
<1>1. len \in Nat /\ turn \in [1 .. len -> [W -> W]]
  <2>1. len \in Nat /\ \A m \in 1 .. len : list[m] \in ids
    OBVIOUS
  <2>2. \A m \in 1 .. len, w \in W : visit[w][list[m]] \in W
    BY <2>1
  <2> QED
    BY <2>1, <2>2
<1>2. PICK g : Looped(g, len, W, walk, turn)
  <2> HIDE DEF turn, len
  <2> QED
    BY <1>1, Loop
<1>3. ASSUME NEW k \in 1 .. len PROVE k - 1 \in 0 .. len /\ g[k] = visit[g[k - 1]][list[k]]
  <2>1. k - 1 \in 0 .. len
    BY <1>1
  <2> QED
    BY <1>2, <2>1 DEF Looped
<1>4. Is(g)
  <2>1. ASSUME NEW m \in 0 .. len
        PROVE  g[m] = IF m = 0 THEN walk ELSE visit[g[m - 1]][list[m]]
    <3>1. CASE m = 0
      BY <3>1, <1>2 DEF Looped
    <3>2. CASE m # 0
      BY <3>2, <1>3, <1>1
    <3> QED
      BY <3>1, <3>2
  <2> QED
    BY <2>1, <1>2 DEF Looped
<1>5. Is(f)
  <2> HIDE DEF Is
  <2> QED
    BY <1>4
<1>6. f[0] = walk /\ \A k \in 1 .. len : f[k] = visit[f[k - 1]][list[k]]
  <2> HIDE DEF f
  <2>1. 0 \in 0 .. len /\ \A k \in 1 .. len : k \in 0 .. len /\ k # 0
    BY <1>1
  <2> HIDE DEF len
  <2>2. \A m \in 0 .. len : f[m] = IF m = 0 THEN walk ELSE visit[f[m - 1]][list[m]]
    BY <1>5, Zenon
  <2> QED
    BY <2>1, <2>2
<1>7. \A k \in 0 .. len : f[k] = g[k]
  <2> DEFINE S == {k \in 0 .. len : f[k] = g[k]}
  <2>1. 0 \in S
    BY <1>6, <1>2, <1>1 DEF Looped
  <2>2. ASSUME NEW k \in 1 .. len, k - 1 \in S PROVE k \in S
    <3>1. f[k - 1] = g[k - 1]
      BY <2>2
    <3>2. f[k] = visit[f[k - 1]][list[k]] /\ g[k] = visit[g[k - 1]][list[k]]
      <4> HIDE DEF f
      <4> QED
        BY <1>6, <1>3
    <3>3. k \in 0 .. len
      BY <1>1
    <3> HIDE DEF f
    <3> QED
      BY <3>1, <3>2, <3>3
  <2>3. \A k \in 0 .. len : k \in S
    <3> HIDE DEF S, len
    <3> QED
      BY <1>1, <2>1, <2>2, UpTo
  <2> QED
    BY <2>3
<1>8. visitAll(visit, walk, list) = f[len]
  BY DEF visitAll
<1>9. g \in [0 .. len -> W] /\ g[0] = walk
  BY <1>2 DEF Looped
<1>10. f[len] = g[len]
  <2> HIDE DEF f, len
  <2> QED
    BY <1>1, <1>7
<1> HIDE DEF f, turn
<1>11. Visited(g, W, visit, walk, list)
  BY <1>3, <1>8, <1>9, <1>10 DEF Visited
<1> QED
  BY <1>11

(* ------------------------------- needs ------------------------------- *)

NeedsOf(jobs, id) == ToSet(JobOf(jobs, id).needs)

\* A list of jobs that need only each other.
JobList(jobs) ==
  /\ jobs \in Seq(ToSet(jobs))
  /\ \A i \in DOMAIN jobs : jobs[i].needs \in Seq(IdsOf(jobs))

\* What is done needs only what is done, and none of it needs itself.
Rooted(jobs, done) ==
  /\ \A id \in done : NeedsOf(jobs, id) \subseteq done
  /\ \A S \in SUBSET done : S # {} => \E id \in S : S \cap NeedsOf(jobs, id) = {}

GoodWalk(jobs, walk) ==
  ~walk.cycle /\ walk.visiting \cap walk.done = {} /\ Rooted(jobs, walk.done)

\* Each job that is being visited needs one that is, or the one to be visited next.
Linked(jobs, visiting, id) ==
  \A v \in visiting : NeedsOf(jobs, v) \cap (visiting \cup {id}) # {}

\* What the visit of a job may come to.
Outcome(jobs, walk, id, after) ==
  IF after.cycle THEN ~Acyclic(jobs)
  ELSE /\ GoodWalk(jobs, after)
       /\ after.visiting = walk.visiting /\ walk.done \subseteq after.done /\ id \in after.done

Visits(jobs) == [Walks(jobs) -> [IdsOf(jobs) -> Walks(jobs)]]

\* Visits that are right where less than n jobs are not being visited.
Explores(jobs, n, visit) ==
  /\ visit \in Visits(jobs)
  /\ \A walk \in Walks(jobs), id \in IdsOf(jobs) : walk.cycle => visit[walk][id] = walk
  /\ \A walk \in Walks(jobs), id \in IdsOf(jobs) :
       GoodWalk(jobs, walk) /\ Linked(jobs, walk.visiting, id)
         /\ Cardinality(IdsOf(jobs) \ walk.visiting) < n
       => Outcome(jobs, walk, id, visit[walk][id])

LEMMA NeedsAreJobs ==
  ASSUME NEW jobs, JobList(jobs), NEW id \in IdsOf(jobs)
  PROVE  /\ JobOf(jobs, id).needs \in Seq(IdsOf(jobs))
         /\ NeedsOf(jobs, id) \subseteq IdsOf(jobs)
         /\ NeedsOf(jobs, id) = {JobOf(jobs, id).needs[m] : m \in 1 .. Len(JobOf(jobs, id).needs)}
<1>1. \E i \in DOMAIN jobs : jobs[i].id = id
  BY DEF IdsOf
<1>2. (CHOOSE i \in DOMAIN jobs : jobs[i].id = id) \in DOMAIN jobs
  BY <1>1
<1>3. JobOf(jobs, id).needs \in Seq(IdsOf(jobs))
  BY <1>2 DEF JobOf, JobList
<1> DEFINE needs == JobOf(jobs, id).needs
<1>4. DOMAIN needs = 1 .. Len(needs) /\ \A m \in DOMAIN needs : needs[m] \in IdsOf(jobs)
  <2> HIDE DEF needs
  <2>1. needs \in Seq(IdsOf(jobs))
    BY <1>3 DEF needs
  <2> QED
    BY <2>1
<1> QED
  BY <1>3, <1>4 DEF NeedsOf, ToSet

\* A job that needs only what is done is done in its turn.
LEMMA RootedMore ==
  ASSUME NEW jobs, NEW done, NEW id, Rooted(jobs, done), NeedsOf(jobs, id) \subseteq done, id \notin done
  PROVE  Rooted(jobs, done \cup {id})
<1>1. \A d \in done \cup {id} : NeedsOf(jobs, d) \subseteq done \cup {id}
  BY DEF Rooted
<1>2. ASSUME NEW S \in SUBSET (done \cup {id}), S # {}
      PROVE  \E d \in S : S \cap NeedsOf(jobs, d) = {}
  <2>1. CASE S \cap done = {}
    BY <1>2, <2>1
  <2>2. CASE S \cap done # {}
    <3>1. PICK d \in S \cap done : (S \cap done) \cap NeedsOf(jobs, d) = {}
      BY <2>2 DEF Rooted
    <3>2. NeedsOf(jobs, d) \subseteq done
      BY <3>1 DEF Rooted
    <3> QED
      BY <3>1, <3>2
  <2> QED
    BY <2>1, <2>2
<1> QED
  BY <1>1, <1>2 DEF Rooted

\* A visit of a job that is being visited is a cycle.
LEMMA LinkedCycle ==
  ASSUME NEW jobs, NEW visiting \in SUBSET IdsOf(jobs), NEW id \in visiting, Linked(jobs, visiting, id)
  PROVE  ~Acyclic(jobs)
<1>1. \A v \in visiting : visiting \cap NeedsOf(jobs, v) # {}
  BY DEF Linked
<1> QED
  BY <1>1 DEF Acyclic, NeedsOf

LEMMA VisitOneTyped ==
  ASSUME NEW jobs, JobList(jobs), NEW deeper \in Visits(jobs), NEW walk \in Walks(jobs), NEW id \in IdsOf(jobs)
  PROVE  visitOne(jobs, deeper, walk, id) \in Walks(jobs)
<1> DEFINE W == Walks(jobs)
           needs == JobOf(jobs, id).needs
           start == [walk EXCEPT !.visiting = @ \cup {id}]
           deep == visitAll(deeper, start, needs)
<1>1. start \in W
  BY DEF Walks
<1>2. needs \in Seq(IdsOf(jobs))
  BY NeedsAreJobs
<1>3. deep \in W
  <2> HIDE DEF start, needs
  <2>1. PICK after : Visited(after, W, deeper, start, needs)
    <3> HIDE DEF W
    <3>1. deeper \in [W -> [IdsOf(jobs) -> W]]
      BY DEF W, Visits
    <3> QED
      BY <1>1, <1>2, <3>1, VisitsAll
  <2>2. Len(needs) \in 0 .. Len(needs)
    BY <1>2
  <2> QED
    BY <2>1, <2>2 DEF Visited
<1>4. [deep EXCEPT !.visiting = @ \ {id}, !.done = @ \cup {id}] \in W
  <2> HIDE DEF deep
  <2> QED
    BY <1>3 DEF Walks
<1>5. [walk EXCEPT !.cycle = TRUE] \in W
  BY DEF Walks
<1> HIDE DEF deep
<1> QED
  BY <1>3, <1>4, <1>5 DEF visitOne, deep

\* A visit is right when those one level deeper are.
LEMMA VisitOneExplores ==
  ASSUME NEW jobs, JobList(jobs), NEW n \in Nat \ {0}, NEW deeper, Explores(jobs, n - 1, deeper),
         IsFiniteSet(IdsOf(jobs))
  PROVE  Explores(jobs, n, [walk \in Walks(jobs) |-> [id \in IdsOf(jobs) |-> visitOne(jobs, deeper, walk, id)]])
<1> DEFINE W == Walks(jobs)
           ids == IdsOf(jobs)
           visit == [walk \in W |-> [id \in ids |-> visitOne(jobs, deeper, walk, id)]]
<1>1. deeper \in Visits(jobs)
  BY DEF Explores
<1>2. visit \in Visits(jobs)
  BY <1>1, VisitOneTyped DEF Visits
<1>3. \A walk \in W, id \in ids : walk.cycle => visit[walk][id] = walk
  BY DEF visitOne
<1>4. ASSUME NEW walk \in W, NEW id \in ids,
             GoodWalk(jobs, walk), Linked(jobs, walk.visiting, id), Cardinality(ids \ walk.visiting) < n
      PROVE  Outcome(jobs, walk, id, visitOne(jobs, deeper, walk, id))
  <2>1. CASE id \in walk.done
    BY <1>4, <2>1 DEF visitOne, Outcome, GoodWalk
  <2>2. CASE id \notin walk.done /\ id \in walk.visiting
    <3>1. ~Acyclic(jobs)
      BY <1>4, <2>2, LinkedCycle DEF Walks
    <3>2. visitOne(jobs, deeper, walk, id) = [walk EXCEPT !.cycle = TRUE]
      BY <1>4, <2>2 DEF visitOne, GoodWalk
    <3>3. visitOne(jobs, deeper, walk, id).cycle
      BY <3>2 DEF Walks
    <3> QED
      BY <3>1, <3>3 DEF Outcome
  <2>3. CASE id \notin walk.done /\ id \notin walk.visiting
    <3> DEFINE needs == JobOf(jobs, id).needs
               start == [walk EXCEPT !.visiting = @ \cup {id}]
               deep == visitAll(deeper, start, needs)
    <3>1. /\ start \in W /\ ~start.cycle /\ start.done = walk.done
          /\ start.visiting = walk.visiting \cup {id}
      BY <1>4 DEF Walks, GoodWalk
    <3>2. GoodWalk(jobs, start)
      BY <3>1, <1>4, <2>3 DEF GoodWalk
    <3>3. Cardinality(ids \ start.visiting) < n - 1
      <4>1. IsFiniteSet(ids \ walk.visiting) /\ id \in ids \ walk.visiting
        BY <2>3, FS_Subset
      <4>2. ids \ start.visiting = (ids \ walk.visiting) \ {id}
        BY <3>1
      <4>3. Cardinality((ids \ walk.visiting) \ {id}) = Cardinality(ids \ walk.visiting) - 1
        BY <4>1, FS_RemoveElement
      <4>4. Cardinality(ids \ walk.visiting) \in Nat
        BY <4>1, FS_CardinalityType
      <4>5. Cardinality(ids \ start.visiting) = Cardinality(ids \ walk.visiting) - 1
        BY <4>2, <4>3
      <4>6. Cardinality(ids \ walk.visiting) < n
        BY <1>4
      <4> QED
        BY <4>4, <4>5, <4>6
    <3>4. /\ needs \in Seq(ids) /\ NeedsOf(jobs, id) = {needs[m] : m \in 1 .. Len(needs)}
      BY NeedsAreJobs
    <3> HIDE DEF start, needs
    <3>5. PICK after : Visited(after, W, deeper, start, needs)
      <4> HIDE DEF W
      <4>1. deeper \in [W -> [ids -> W]]
        BY <1>1 DEF W, Visits
      <4> QED
        BY <3>1, <3>4, <4>1, VisitsAll
    <3> DEFINE len == Len(needs)
               Right(m) == IF after[m].cycle THEN ~Acyclic(jobs)
                           ELSE /\ GoodWalk(jobs, after[m])
                                /\ after[m].visiting = start.visiting /\ walk.done \subseteq after[m].done
                                /\ \A k \in 1 .. m : needs[k] \in after[m].done
               S == {m \in 0 .. len : Right(m)}
    <3>6. len \in Nat /\ \A m \in 1 .. len : needs[m] \in ids
      BY <3>4
    <3>7. 0 \in S
      BY <3>1, <3>2, <3>5, <3>6 DEF Visited
    <3>8. ASSUME NEW m \in 1 .. len, m - 1 \in S PROVE m \in S
      <4>1. Right(m - 1) /\ m - 1 \in 0 .. len
        BY <3>8
      <4> HIDE DEF S
      <4>2. after[m - 1] \in W /\ after[m] = deeper[after[m - 1]][needs[m]] /\ needs[m] \in ids
        BY <3>5, <3>6, <4>1 DEF Visited
      <4>3. CASE after[m - 1].cycle
        <5>1. after[m] = after[m - 1]
          BY <4>2, <4>3 DEF Explores
        <5> QED
          BY <4>1, <4>3, <5>1 DEF S
      <4>4. CASE ~after[m - 1].cycle
        <5>1. GoodWalk(jobs, after[m - 1]) /\ after[m - 1].visiting = start.visiting
          BY <4>1, <4>4
        <5>2. Linked(jobs, after[m - 1].visiting, needs[m])
          <6>1. \A v \in walk.visiting : NeedsOf(jobs, v) \cap (walk.visiting \cup {id}) # {}
            BY <1>4 DEF Linked
          <6>2. needs[m] \in NeedsOf(jobs, id)
            BY <3>4
          <6> QED
            BY <6>1, <6>2, <5>1, <3>1 DEF Linked
        <5>3. Outcome(jobs, after[m - 1], needs[m], after[m])
          BY <5>1, <5>2, <4>2, <3>3 DEF Explores
        <5>4. Right(m)
          <6>1. CASE after[m].cycle
            BY <5>3, <6>1 DEF Outcome
          <6>2. CASE ~after[m].cycle
            <7>1. /\ GoodWalk(jobs, after[m]) /\ after[m].visiting = start.visiting
                  /\ after[m - 1].done \subseteq after[m].done /\ needs[m] \in after[m].done
              BY <5>3, <6>2, <5>1 DEF Outcome
            <7>2. walk.done \subseteq after[m - 1].done /\ \A k \in 1 .. (m - 1) : needs[k] \in after[m - 1].done
              BY <4>1, <4>4
            <7>3. \A k \in 1 .. m : k = m \/ k \in 1 .. (m - 1)
              BY <3>6
            <7> QED
              BY <6>2, <7>1, <7>2, <7>3
          <6> QED
            BY <6>1, <6>2
        <5> QED
          BY <5>4 DEF S
      <4> QED
        BY <4>3, <4>4
    <3>9. Right(len)
      <4>1. \A m \in 0 .. len : m \in S
        <5> HIDE DEF S, len
        <5> QED
          BY <3>6, <3>7, <3>8, UpTo
      <4> QED
        BY <4>1, <3>6
    <3>10. deep = after[len] /\ deep \in W
      BY <3>5, <3>6 DEF Visited
    <3>11. visitOne(jobs, deeper, walk, id) =
             IF deep.cycle THEN deep ELSE [deep EXCEPT !.visiting = @ \ {id}, !.done = @ \cup {id}]
      BY <1>4, <2>3 DEF visitOne, GoodWalk, start, needs
    <3> HIDE DEF deep
    <3>12. CASE deep.cycle
      BY <3>9, <3>10, <3>11, <3>12 DEF Outcome
    <3>13. CASE ~deep.cycle
      <4> DEFINE end == [deep EXCEPT !.visiting = @ \ {id}, !.done = @ \cup {id}]
      <4>1. /\ GoodWalk(jobs, deep) /\ deep.visiting = walk.visiting \cup {id}
            /\ walk.done \subseteq deep.done /\ \A k \in 1 .. len : needs[k] \in deep.done
        BY <3>9, <3>10, <3>13, <3>1
      <4>2. /\ ~end.cycle /\ end.visiting = walk.visiting /\ end.done = deep.done \cup {id}
        BY <3>10, <3>13, <4>1, <2>3 DEF Walks
      <4>3. id \notin deep.done /\ Rooted(jobs, deep.done) /\ deep.visiting \cap deep.done = {}
        BY <4>1 DEF GoodWalk
      <4>4. NeedsOf(jobs, id) \subseteq deep.done
        BY <4>1, <3>4
      <4>5. Rooted(jobs, end.done)
        BY <4>2, <4>3, <4>4, RootedMore
      <4>6. GoodWalk(jobs, end)
        <5> HIDE DEF end
        <5> QED
          BY <4>1, <4>2, <4>3, <4>5, <2>3 DEF GoodWalk
      <4> HIDE DEF end
      <4>7. Outcome(jobs, walk, id, end)
        BY <4>1, <4>2, <4>6 DEF Outcome
      <4> QED
        BY <4>7, <3>11, <3>13 DEF end
    <3> QED
      BY <3>12, <3>13
  <2> QED
    BY <2>1, <2>2, <2>3
<1>5. \A walk \in W, id \in ids : visit[walk][id] = visitOne(jobs, deeper, walk, id)
  OBVIOUS
<1> HIDE DEF visit
<1>6. Explores(jobs, n, visit)
  BY <1>2, <1>3, <1>4, <1>5 DEF Explores
<1> QED
  BY <1>6 DEF visit

\* jobOrder throws exactly when jobs need themselves: its depth-first search finds a cycle when
\* there is one, and nothing else.
THEOREM OrderFindsCycles ==
  ASSUME NEW jobs, JobList(jobs)
  PROVE  jobOrder(jobs).cycle <=> ~Acyclic(jobs)
<1> DEFINE W == Walks(jobs)
           ids == IdsOf(jobs)
           X == Visits(jobs)
           len == Len(jobs)
           same == [walk \in W |-> [id \in ids |-> walk]]
           next(visit) == [walk \in W |-> [id \in ids |-> visitOne(jobs, visit, walk, id)]]
           turn == [n \in 1 .. len + 1 |-> [visit \in X |-> next(visit)]]
           start == [visiting |-> {}, done |-> {}, cycle |-> FALSE]
           list == [i \in DOMAIN jobs |-> jobs[i].id]
           Is(v) == v = [n \in 0 .. len + 1 |-> [walk \in W |-> [id \in ids |->
                           IF n = 0 THEN walk ELSE visitOne(jobs, v[n - 1], walk, id)]]]
           f == CHOOSE v : Is(v)
<1>1. /\ len \in Nat /\ DOMAIN jobs = 1 .. len
      /\ list \in Seq(ids) /\ Len(list) = len /\ \A i \in 1 .. len : list[i] = jobs[i].id
  BY DEF JobList, IdsOf
<1>2. IsFiniteSet(ids) /\ Cardinality(ids) \in Nat /\ Cardinality(ids) <= len
  <2>1. ids = {list[i] : i \in 1 .. len}
    BY <1>1 DEF IdsOf
  <2>2. IsFiniteSet(1 .. len) /\ Cardinality(1 .. len) = len
    BY <1>1, FS_Interval
  <2>3. list \in [1 .. len -> ids]
    BY <1>1
  <2>4. list \in Surjection(1 .. len, ids)
    BY <2>1, <2>3 DEF Surjection
  <2>5. IsFiniteSet(ids) /\ Cardinality(ids) <= Cardinality(1 .. len)
    BY <2>2, <2>4, FS_Surjection
  <2> QED
    BY <2>2, <2>5, FS_CardinalityType
<1>3. same \in X
  BY DEF Visits
<1>4. ASSUME NEW visit \in X PROVE next(visit) \in X
  BY VisitOneTyped DEF Visits
<1>5. PICK g : Looped(g, len + 1, X, same, turn)
  <2>1. turn \in [1 .. len + 1 -> [X -> X]]
    <3> HIDE DEF next, X
    <3> QED
      BY <1>4
  <2> HIDE DEF turn, same, X
  <2>2. len + 1 \in Nat
    BY <1>1
  <2> HIDE DEF len
  <2> QED
    BY <1>3, <2>1, <2>2, Loop
<1>6. /\ g \in [0 .. len + 1 -> X] /\ g[0] = same
      /\ \A n \in 1 .. len + 1 : n - 1 \in 0 .. len + 1 /\ g[n] = next(g[n - 1])
  <2> HIDE DEF next, X, same
  <2>1. \A n \in 1 .. len + 1 : n - 1 \in 0 .. len + 1
    BY <1>1
  <2> QED
    BY <1>5, <2>1 DEF Looped
<1>7. Is(g)
  <2> DEFINE body(v, n) == [walk \in W |-> [id \in ids |->
                              IF n = 0 THEN walk ELSE visitOne(jobs, v[n - 1], walk, id)]]
  <2>1. ASSUME NEW n \in 0 .. len + 1 PROVE g[n] = body(g, n)
    <3>1. CASE n = 0
      BY <3>1, <1>6
    <3>2. CASE n # 0
      <4>1. n \in 1 .. len + 1
        BY <3>2, <1>1
      <4>2. g[n] = next(g[n - 1])
        <5> HIDE DEF next, X
        <5> QED
          BY <4>1, <1>6
      <4>3. body(g, n) = next(g[n - 1])
        BY <3>2
      <4> HIDE DEF body, next
      <4> QED
        BY <4>2, <4>3
    <3> QED
      BY <3>1, <3>2
  <2> HIDE DEF body, X
  <2>2. g = [n \in 0 .. len + 1 |-> body(g, n)]
    BY <2>1, <1>6
  <2> QED
    BY <2>2 DEF body
<1>8. Is(f)
  <2> HIDE DEF Is
  <2> QED
    BY <1>7
<1>9. f[0] = same /\ \A n \in 1 .. len + 1 : f[n] = next(f[n - 1])
  <2> HIDE DEF f
  <2>1. 0 \in 0 .. len + 1 /\ \A n \in 1 .. len + 1 : n \in 0 .. len + 1 /\ n # 0
    BY <1>1
  <2>2. \A n \in 0 .. len + 1 : f[n] = [walk \in W |-> [id \in ids |->
           IF n = 0 THEN walk ELSE visitOne(jobs, f[n - 1], walk, id)]]
    <3> HIDE DEF len, W, ids
    <3> QED
      BY <1>8, Zenon
  <2> HIDE DEF len, W, ids
  <2> QED
    BY <2>1, <2>2

<1>10. Explores(jobs, len + 1, f[len + 1])
  <2> DEFINE S == {n \in 0 .. len + 1 : Explores(jobs, n, f[n])}
  <2>1. 0 \in S
    <3>1. ASSUME NEW walk \in W PROVE ~(Cardinality(ids \ walk.visiting) < 0)
      <4>1. Cardinality(ids \ walk.visiting) \in Nat
        BY <1>2, FS_Subset, FS_CardinalityType
      <4> QED
        BY <4>1
    <3>2. Explores(jobs, 0, same)
      BY <1>3, <3>1 DEF Explores
    <3> HIDE DEF f, same
    <3> QED
      BY <1>1, <1>9, <3>2
  <2>2. ASSUME NEW n \in 1 .. len + 1, n - 1 \in S PROVE n \in S
    <3>1. Explores(jobs, n - 1, f[n - 1]) /\ n \in Nat \ {0} /\ n \in 0 .. len + 1
      BY <2>2, <1>1
    <3>2. Explores(jobs, n, next(f[n - 1]))
      <4> HIDE DEF f
      <4> QED
        BY <3>1, <1>2, VisitOneExplores
    <3> HIDE DEF f, next
    <3> QED
      BY <3>1, <3>2, <1>9
  <2>3. len + 1 \in Nat /\ len + 1 \in 0 .. len + 1
    BY <1>1
  <2>4. \A n \in 0 .. len + 1 : n \in S
    <3> HIDE DEF S, f
    <3>1. \A n \in 1 .. len + 1 : n - 1 \in S => n \in S
      BY <2>2
    <3> HIDE DEF len
    <3> QED
      BY <2>1, <3>1, <2>3, UpTo
  <2> QED
    BY <2>3, <2>4
<1> DEFINE visit == f[len + 1]
<1>11. jobOrder(jobs) = visitAll(visit, start, list)
  BY DEF jobOrder
<1>12. Explores(jobs, len + 1, visit)
  BY <1>10
<1> HIDE DEF visit, f, list
<1>13. start \in W /\ GoodWalk(jobs, start) /\ start.visiting = {}
  BY DEF Walks, GoodWalk, Rooted
<1>14. PICK after : Visited(after, W, visit, start, list)
  <2>1. visit \in [W -> [ids -> W]]
    BY <1>12 DEF Explores, Visits
  <2> HIDE DEF W, ids, start
  <2> QED
    BY <1>1, <1>13, <2>1, VisitsAll
<1> HIDE DEF start
<1> DEFINE Right(m) == IF after[m].cycle THEN ~Acyclic(jobs)
                       ELSE /\ GoodWalk(jobs, after[m]) /\ after[m].visiting = {}
                            /\ \A k \in 1 .. m : list[k] \in after[m].done
           T == {m \in 0 .. len : Right(m)}
<1>15. 0 \in T
  BY <1>1, <1>13, <1>14 DEF Visited, GoodWalk
<1>16. ASSUME NEW m \in 1 .. len, m - 1 \in T PROVE m \in T
  <2>1. Right(m - 1) /\ m - 1 \in 0 .. len
    BY <1>16
  <2> HIDE DEF T
  <2>2. after[m - 1] \in W /\ after[m] = visit[after[m - 1]][list[m]] /\ list[m] \in ids
    BY <1>1, <1>14, <2>1 DEF Visited
  <2>3. CASE after[m - 1].cycle
    <3>1. after[m] = after[m - 1]
      BY <2>2, <2>3, <1>12 DEF Explores
    <3> QED
      BY <2>1, <2>3, <3>1 DEF T
  <2>4. CASE ~after[m - 1].cycle
    <3>1. GoodWalk(jobs, after[m - 1]) /\ after[m - 1].visiting = {}
      BY <2>1, <2>4
    <3>2. Linked(jobs, after[m - 1].visiting, list[m])
      BY <3>1 DEF Linked
    <3>3. Cardinality(ids \ after[m - 1].visiting) < len + 1
      <4>1. ids \ after[m - 1].visiting = ids
        BY <3>1
      <4>2. Cardinality(ids) < len + 1
        BY <1>1, <1>2
      <4> QED
        BY <4>1, <4>2
    <3>4. Outcome(jobs, after[m - 1], list[m], after[m])
      BY <3>1, <3>2, <3>3, <2>2, <1>12 DEF Explores
    <3>5. CASE after[m].cycle
      BY <3>4, <3>5 DEF Outcome, T
    <3>6. CASE ~after[m].cycle
      <4>1. /\ GoodWalk(jobs, after[m]) /\ after[m].visiting = {}
            /\ after[m - 1].done \subseteq after[m].done /\ list[m] \in after[m].done
        BY <3>4, <3>6, <3>1 DEF Outcome
      <4>2. \A k \in 1 .. (m - 1) : list[k] \in after[m - 1].done
        BY <2>1, <2>4
      <4>3. \A k \in 1 .. m : k = m \/ k \in 1 .. (m - 1)
        BY <1>1
      <4> QED
        BY <3>6, <4>1, <4>2, <4>3 DEF T
    <3> QED
      BY <3>5, <3>6
  <2> QED
    BY <2>3, <2>4
<1>17. Right(len)
  <2>1. \A m \in 0 .. len : m \in T
    <3> HIDE DEF T, len
    <3> QED
      BY <1>1, <1>15, <1>16, UpTo
  <2> QED
    BY <2>1, <1>1
<1>18. jobOrder(jobs) = after[len]
  BY <1>1, <1>11, <1>14 DEF Visited
<1>19. jobOrder(jobs).cycle \in BOOLEAN
  BY <1>1, <1>14, <1>18 DEF Visited, Walks
<1>20. CASE jobOrder(jobs).cycle
  BY <1>17, <1>18, <1>20
<1>21. CASE ~jobOrder(jobs).cycle
  <2>1. GoodWalk(jobs, after[len]) /\ \A k \in 1 .. len : list[k] \in after[len].done
    BY <1>17, <1>18, <1>21
  <2>2. ids \subseteq after[len].done
    BY <2>1, <1>1 DEF IdsOf
  <2> QED
    BY <2>1, <2>2, <1>21 DEF GoodWalk, Rooted, Acyclic, NeedsOf
<1> QED
  BY <1>19, <1>20, <1>21

(* ------------------------------- matrix ------------------------------ *)

\* The value of a key in a choice; the includes up to the n-th that fit it, and the keys they give;
\* the last of them that gives a key.
ValueIn(matrix, c, k) == matrix.axes[k][c[k]]

FittingUpTo(matrix, c, n) ==
  {i \in 1 .. n : \A k \in DOMAIN matrix.axes :
     k \in DOMAIN matrix.include[i] => ValueIn(matrix, c, k) = matrix.include[i][k]}

AddedUpTo(matrix, c, n) == UNION {DOMAIN matrix.include[i] : i \in FittingUpTo(matrix, c, n)}

IsLast(matrix, c, k, n, i) ==
  /\ i \in FittingUpTo(matrix, c, n) /\ k \in DOMAIN matrix.include[i]
  /\ \A j \in FittingUpTo(matrix, c, n) : j > i => k \notin DOMAIN matrix.include[j]

\* A combination as the first n includes leave it.
Extended(matrix, c, n) ==
  [k \in DOMAIN matrix.axes \cup AddedUpTo(matrix, c, n) |->
     IF k \in DOMAIN matrix.axes THEN ValueIn(matrix, c, k)
     ELSE matrix.include[CHOOSE i : IsLast(matrix, c, k, n, i)][k]]

LEMMA FittingOne ==
  ASSUME NEW matrix, NEW c, NEW n \in Nat \ {0}
  PROVE  /\ n \in FittingUpTo(matrix, c, n) =>
              FittingUpTo(matrix, c, n) = FittingUpTo(matrix, c, n - 1) \cup {n}
         /\ n \notin FittingUpTo(matrix, c, n) =>
              FittingUpTo(matrix, c, n) = FittingUpTo(matrix, c, n - 1)
         /\ \A i \in FittingUpTo(matrix, c, n - 1) : i < n
<1>1. \A i : i \in 1 .. n <=> i = n \/ i \in 1 .. (n - 1)
  OBVIOUS
<1>2. \A i \in 1 .. (n - 1) : i < n
  OBVIOUS
<1> QED
  BY <1>1, <1>2 DEF FittingUpTo

LEMMA LastOnly ==
  ASSUME NEW matrix, NEW c, NEW k, NEW n \in Nat, NEW i, IsLast(matrix, c, k, n, i)
  PROVE  /\ i = CHOOSE j : IsLast(matrix, c, k, n, j)
         /\ \A j : IsLast(matrix, c, k, n, j) => j = i
<1>1. ASSUME NEW j, IsLast(matrix, c, k, n, j) PROVE j = i
  <2>1. i \in 1 .. n /\ j \in 1 .. n
    BY <1>1 DEF IsLast, FittingUpTo
  <2>2. ~(i < j) /\ ~(j < i)
    BY <1>1, <2>1 DEF IsLast
  <2> QED
    BY <2>1, <2>2
<1>2. IsLast(matrix, c, k, n, CHOOSE j : IsLast(matrix, c, k, n, j))
  OBVIOUS
<1> QED
  BY <1>1, <1>2

\* The n-th include is the last with its keys when it fits; the last ones with others remain.
LEMMA LastMoves ==
  ASSUME NEW matrix, NEW c, NEW k, NEW n \in Nat \ {0}
  PROVE  /\ n \in FittingUpTo(matrix, c, n) /\ k \in DOMAIN matrix.include[n] => IsLast(matrix, c, k, n, n)
         /\ ~(n \in FittingUpTo(matrix, c, n) /\ k \in DOMAIN matrix.include[n]) =>
              \A i : IsLast(matrix, c, k, n, i) <=> IsLast(matrix, c, k, n - 1, i)
<1>1. CASE n \in FittingUpTo(matrix, c, n)
  <2>1. FittingUpTo(matrix, c, n) = FittingUpTo(matrix, c, n - 1) \cup {n}
    BY <1>1, FittingOne
  <2>2. \A i \in FittingUpTo(matrix, c, n - 1) : i < n /\ ~(i > n)
    <3>1. \A i \in FittingUpTo(matrix, c, n - 1) : i \in 1 .. (n - 1)
      BY DEF FittingUpTo
    <3> QED
      BY <3>1
  <2>3. CASE k \in DOMAIN matrix.include[n]
    BY <2>1, <2>2, <2>3 DEF IsLast
  <2>4. CASE k \notin DOMAIN matrix.include[n]
    BY <2>1, <2>4 DEF IsLast
  <2> QED
    BY <2>3, <2>4
<1>2. CASE n \notin FittingUpTo(matrix, c, n)
  BY <1>2, FittingOne DEF IsLast
<1> QED
  BY <1>1, <1>2

LEMMA LastThere ==
  ASSUME NEW matrix, NEW c, NEW len \in Nat
  PROVE  \A k \in AddedUpTo(matrix, c, len) : \E i : IsLast(matrix, c, k, len, i)
<1> DEFINE S == {n \in 0 .. len : \A k \in AddedUpTo(matrix, c, n) : \E i : IsLast(matrix, c, k, n, i)}
<1>1. 0 \in S
  BY DEF AddedUpTo, FittingUpTo
<1>2. ASSUME NEW n \in 1 .. len, n - 1 \in S PROVE n \in S
  <2>1. n \in Nat \ {0} /\ n \in 0 .. len
    OBVIOUS
  <2>2. ASSUME NEW k \in AddedUpTo(matrix, c, n) PROVE \E i : IsLast(matrix, c, k, n, i)
    <3>1. CASE n \in FittingUpTo(matrix, c, n) /\ k \in DOMAIN matrix.include[n]
      BY <2>1, <3>1, LastMoves
    <3>2. CASE ~(n \in FittingUpTo(matrix, c, n) /\ k \in DOMAIN matrix.include[n])
      <4>1. PICK j \in FittingUpTo(matrix, c, n) : k \in DOMAIN matrix.include[j]
        BY DEF AddedUpTo
      <4>2. j \in FittingUpTo(matrix, c, n - 1)
        BY <2>1, <3>2, <4>1, FittingOne
      <4>3. k \in AddedUpTo(matrix, c, n - 1)
        BY <4>1, <4>2 DEF AddedUpTo
      <4>4. PICK i : IsLast(matrix, c, k, n - 1, i)
        BY <1>2, <4>3
      <4> QED
        BY <2>1, <3>2, <4>4, LastMoves
    <3> QED
      BY <3>1, <3>2
  <2> QED
    BY <2>1, <2>2
<1>3. \A n \in 1 .. len : n - 1 \in S => n \in S
  BY <1>2
<1>4. \A n \in 0 .. len : n \in S
  <2> HIDE DEF S
  <2> QED
    BY <1>1, <1>3, UpTo
<1>5. len \in S
  BY <1>4
<1> QED
  BY <1>5

LEMMA SameExtended ==
  ASSUME NEW matrix, NEW c, NEW n \in Nat \ {0},
         n \notin FittingUpTo(matrix, c, n)
  PROVE  Extended(matrix, c, n) = Extended(matrix, c, n - 1)
<1>1. FittingUpTo(matrix, c, n) = FittingUpTo(matrix, c, n - 1)
  BY FittingOne
<1> QED
  BY <1>1 DEF Extended, AddedUpTo, IsLast

\* An include that fits a combination extends it.
LEMMA MoreExtended ==
  ASSUME NEW matrix, NEW c, NEW n \in Nat \ {0}, n \in FittingUpTo(matrix, c, n)
  PROVE  Extended(matrix, c, n) = assign(Extended(matrix, c, n - 1), matrix.include[n])
<1> DEFINE axes == DOMAIN matrix.axes
           inc == matrix.include[n]
           old == Extended(matrix, c, n - 1)
           new == Extended(matrix, c, n)
           both == assign(old, inc)
<1>1. AddedUpTo(matrix, c, n) = AddedUpTo(matrix, c, n - 1) \cup DOMAIN inc
  BY FittingOne DEF AddedUpTo
<1>2. DOMAIN old = axes \cup AddedUpTo(matrix, c, n - 1) /\ DOMAIN new = axes \cup AddedUpTo(matrix, c, n)
  BY DEF Extended
<1>3. both = [k \in DOMAIN inc \cup DOMAIN old |-> IF k \in DOMAIN inc THEN inc[k] ELSE old[k]]
  BY DEF assign
<1>4. ASSUME NEW k \in DOMAIN new
      PROVE  new[k] = IF k \in DOMAIN inc THEN inc[k] ELSE old[k]
  <2>1. CASE k \in axes
    <3>1. new[k] = ValueIn(matrix, c, k)
      BY <2>1, <1>4 DEF Extended
    <3>2. CASE k \in DOMAIN inc
      BY <2>1, <3>1, <3>2 DEF FittingUpTo
    <3>3. CASE k \notin DOMAIN inc
      <4>1. old[k] = ValueIn(matrix, c, k)
        BY <2>1 DEF Extended
      <4> QED
        BY <3>1, <3>3, <4>1
    <3> QED
      BY <3>2, <3>3
  <2>2. CASE k \notin axes
    <3>1. new[k] = matrix.include[CHOOSE i : IsLast(matrix, c, k, n, i)][k]
      BY <2>2, <1>4 DEF Extended
    <3>2. CASE k \in DOMAIN inc
      <4>1. n = CHOOSE i : IsLast(matrix, c, k, n, i)
        BY <3>2, LastMoves, LastOnly
      <4> QED
        BY <3>1, <3>2, <4>1
    <3>3. CASE k \notin DOMAIN inc
      <4>1. k \in AddedUpTo(matrix, c, n - 1) /\ k \in DOMAIN old
        BY <1>1, <1>2, <1>4, <2>2, <3>3
      <4>2. PICK j : IsLast(matrix, c, k, n - 1, j)
        BY <4>1, LastThere
      <4>3. IsLast(matrix, c, k, n, j)
        BY <4>2, <3>3, LastMoves
      <4>4. j = (CHOOSE i : IsLast(matrix, c, k, n, i)) /\ j = CHOOSE i : IsLast(matrix, c, k, n - 1, i)
        BY <4>2, <4>3, LastOnly
      <4>5. old[k] = matrix.include[CHOOSE i : IsLast(matrix, c, k, n - 1, i)][k]
        BY <4>1, <1>2, <2>2 DEF Extended
      <4> QED
        BY <3>1, <3>3, <4>4, <4>5
    <3> QED
      BY <3>2, <3>3
  <2> QED
    BY <2>1, <2>2
<1>5. DOMAIN new = DOMAIN inc \cup DOMAIN old
  BY <1>1, <1>2
<1>6. new = [k \in DOMAIN new |-> new[k]]
  BY DEF Extended
<1> HIDE DEF new, both, old, inc
<1>7. new = both
  BY <1>3, <1>4, <1>5, <1>6
<1> QED
  BY <1>7 DEF new, both, old, inc

\* The combinations that no exclude describes; the loop over the includes after n turns.
KeptOf(matrix) ==
  {c \in choices(matrix) : \A x \in ToSet(matrix.exclude) :
     \E k \in DOMAIN x : k \notin DOMAIN matrix.axes \/ ValueIn(matrix, c, k) # x[k]}

IncludedUpTo(matrix, n) ==
  [combos |-> [c \in KeptOf(matrix) |-> Extended(matrix, c, n)],
   extra |-> {i \in 1 .. n : \A c \in KeptOf(matrix) : i \notin FittingUpTo(matrix, c, n)}]

LEMMA KeptIs ==
  ASSUME NEW matrix
  PROVE  {c \in DOMAIN product(matrix) : ~Excluded(matrix, product(matrix)[c])} = KeptOf(matrix)
<1>1. DOMAIN product(matrix) = choices(matrix)
  BY DEF product
<1>2. ASSUME NEW c \in choices(matrix)
      PROVE  ~Excluded(matrix, product(matrix)[c]) <=>
               \A x \in ToSet(matrix.exclude) :
                 \E k \in DOMAIN x : k \notin DOMAIN matrix.axes \/ ValueIn(matrix, c, k) # x[k]
  <2>1. DOMAIN product(matrix)[c] = DOMAIN matrix.axes
    BY DEF product
  <2>2. \A k \in DOMAIN matrix.axes : product(matrix)[c][k] = ValueIn(matrix, c, k)
    BY DEF product, ValueIn
  <2> QED
    BY <2>1, <2>2 DEF Excluded, Agrees
<1> QED
  BY <1>1, <1>2 DEF KeptOf

LEMMA IncludeStart ==
  ASSUME NEW matrix
  PROVE  [combos |-> [c \in KeptOf(matrix) |-> product(matrix)[c]], extra |-> {}] = IncludedUpTo(matrix, 0)
<1>1. ASSUME NEW c \in KeptOf(matrix) PROVE product(matrix)[c] = Extended(matrix, c, 0)
  <2>1. c \in choices(matrix)
    BY DEF KeptOf
  <2>2. product(matrix)[c] = [k \in DOMAIN matrix.axes |-> ValueIn(matrix, c, k)]
    BY <2>1 DEF product, ValueIn
  <2>3. AddedUpTo(matrix, c, 0) = {}
    BY DEF AddedUpTo, FittingUpTo
  <2>4. DOMAIN matrix.axes \cup AddedUpTo(matrix, c, 0) = DOMAIN matrix.axes
    BY <2>3
  <2> QED
    BY <2>2, <2>4 DEF Extended
<1>2. {i \in 1 .. 0 : \A c \in KeptOf(matrix) : i \notin FittingUpTo(matrix, c, 0)} = {}
  OBVIOUS
<1>3. [c \in KeptOf(matrix) |-> product(matrix)[c]] = [c \in KeptOf(matrix) |-> Extended(matrix, c, 0)]
  BY <1>1
<1> QED
  BY <1>2, <1>3 DEF IncludedUpTo

LEMMA IncludeStep ==
  ASSUME NEW matrix, NEW n \in Nat \ {0}
  PROVE  includeOne(matrix, IncludedUpTo(matrix, n - 1), n) = IncludedUpTo(matrix, n)
<1> DEFINE kept == KeptOf(matrix)
           inc == matrix.include[n]
           done == IncludedUpTo(matrix, n - 1)
           Fits(c) == n \in FittingUpTo(matrix, c, n)
           fitting == {c \in kept : Fits(c)}
           Alone(k) == {i \in 1 .. k : \A c \in kept : i \notin FittingUpTo(matrix, c, k)}
<1>1. /\ DOMAIN done.combos = kept /\ \A c \in kept : done.combos[c] = Extended(matrix, c, n - 1)
      /\ done.extra = Alone(n - 1)
      /\ done = [combos |-> done.combos, extra |-> done.extra]
      /\ done.combos = [c \in kept |-> Extended(matrix, c, n - 1)]
  BY DEF IncludedUpTo
<1>2. ASSUME NEW c \in kept PROVE fits(matrix, done.combos[c], inc) <=> Fits(c)
  <2>1. /\ DOMAIN matrix.axes \subseteq DOMAIN done.combos[c]
        /\ \A k \in DOMAIN matrix.axes : done.combos[c][k] = ValueIn(matrix, c, k)
    BY <1>1 DEF Extended
  <2>2. Fits(c) <=> \A k \in DOMAIN matrix.axes : k \in DOMAIN inc => ValueIn(matrix, c, k) = inc[k]
    BY DEF FittingUpTo
  <2> HIDE DEF done, inc, Fits
  <2> QED
    BY <2>1, <2>2 DEF fits, Agrees
<1>3. {c \in DOMAIN done.combos : fits(matrix, done.combos[c], inc)} = fitting
  BY <1>1, <1>2
<1>4. \A c \in kept : Extended(matrix, c, n) =
        IF c \in fitting THEN assign(done.combos[c], inc) ELSE done.combos[c]
  BY <1>1, SameExtended, MoreExtended
<1>5. /\ fitting = {} => Alone(n) = Alone(n - 1) \cup {n}
      /\ fitting # {} => Alone(n) = Alone(n - 1)
  <2>1. \A i : i \in 1 .. n <=> i = n \/ i \in 1 .. (n - 1)
    OBVIOUS
  <2>2. \A i \in 1 .. (n - 1), c \in kept : i \in FittingUpTo(matrix, c, n) <=> i \in FittingUpTo(matrix, c, n - 1)
    BY DEF FittingUpTo
  <2>3. n \notin 1 .. (n - 1)
    OBVIOUS
  <2> QED
    BY <2>1, <2>2, <2>3
<1>6. IncludedUpTo(matrix, n) = [combos |-> [c \in kept |-> Extended(matrix, c, n)], extra |-> Alone(n)]
  BY DEF IncludedUpTo
<1>7. includeOne(matrix, done, n) =
        IF fitting = {} THEN [done EXCEPT !.extra = @ \cup {n}]
        ELSE [done EXCEPT !.combos = [c \in DOMAIN @ |-> IF c \in fitting THEN assign(@[c], inc) ELSE @[c]]]
  BY <1>3 DEF includeOne
<1> HIDE DEF done, fitting, Alone, inc
<1>8. CASE fitting = {}
  <2>1. [c \in kept |-> Extended(matrix, c, n)] = done.combos
    BY <1>1, <1>4, <1>8
  <2>2. includeOne(matrix, done, n) = [combos |-> done.combos, extra |-> done.extra \cup {n}]
    BY <1>1, <1>7, <1>8
  <2> QED
    BY <1>1, <1>5, <1>6, <1>8, <2>1, <2>2 DEF done
<1>9. CASE fitting # {}
  <2> DEFINE more == [c \in DOMAIN done.combos |-> IF c \in fitting THEN assign(done.combos[c], inc) ELSE done.combos[c]]
  <2>1. more = [c \in kept |-> Extended(matrix, c, n)]
    BY <1>1, <1>4
  <2>2. includeOne(matrix, done, n) = [combos |-> more, extra |-> done.extra]
    BY <1>1, <1>7, <1>9
  <2> HIDE DEF more
  <2> QED
    BY <1>1, <1>5, <1>6, <1>9, <2>1, <2>2 DEF done
<1> QED
  BY <1>8, <1>9

\* The loops over the includes and the excludes compute the jobs that the matrix stands for.
THEOREM ExpandsAsWritten ==
  ASSUME NEW matrix, matrix.include \in Seq(ToSet(matrix.include))
  PROVE  expandMatrix(matrix) = MatrixJobs(matrix)
<1> DEFINE include == matrix.include
           len == Len(include)
           all == product(matrix)
           kept == {c \in DOMAIN all : ~Excluded(matrix, all[c])}
           first == [combos |-> [c \in kept |-> all[c]], extra |-> {}]
           Is(v) == v = [n \in 0 .. len |-> IF n = 0 THEN first ELSE includeOne(matrix, v[n - 1], n)]
           f == CHOOSE v : Is(v)
           g == [n \in 0 .. len |-> IncludedUpTo(matrix, n)]
<1>1. len \in Nat /\ DOMAIN include = 1 .. len
  OBVIOUS
<1>2. kept = KeptOf(matrix) /\ first = IncludedUpTo(matrix, 0)
  <2>1. kept = KeptOf(matrix)
    BY KeptIs
  <2> HIDE DEF kept
  <2> QED
    BY <2>1, IncludeStart
<1> HIDE DEF first
<1>3. Is(g)
  <2>1. ASSUME NEW n \in 0 .. len
        PROVE  g[n] = IF n = 0 THEN first ELSE includeOne(matrix, g[n - 1], n)
    <3>1. CASE n = 0
      BY <3>1, <1>2
    <3>2. CASE n # 0
      <4>1. n - 1 \in 0 .. len /\ n \in Nat \ {0}
        BY <3>2, <1>1
      <4>2. g[n - 1] = IncludedUpTo(matrix, n - 1) /\ g[n] = IncludedUpTo(matrix, n)
        BY <4>1
      <4> HIDE DEF g
      <4> QED
        BY <3>2, <4>1, <4>2, IncludeStep
    <3> QED
      BY <3>1, <3>2
  <2> DEFINE body(v, n) == IF n = 0 THEN first ELSE includeOne(matrix, v[n - 1], n)
  <2>2. \A n \in 0 .. len : g[n] = body(g, n)
    BY <2>1
  <2>3. g = [n \in 0 .. len |-> g[n]]
    OBVIOUS
  <2> HIDE DEF body, g
  <2>4. g = [n \in 0 .. len |-> body(g, n)]
    BY <2>2, <2>3
  <2> QED
    BY <2>4 DEF body
<1>4. Is(f)
  <2> HIDE DEF Is
  <2> QED
    BY <1>3
<1>5. f[0] = first /\ \A n \in 1 .. len : f[n] = includeOne(matrix, f[n - 1], n)
  <2> HIDE DEF f
  <2>1. 0 \in 0 .. len /\ \A n \in 1 .. len : n \in 0 .. len /\ n # 0
    BY <1>1
  <2>2. \A n \in 0 .. len : f[n] = IF n = 0 THEN first ELSE includeOne(matrix, f[n - 1], n)
    <3> HIDE DEF len
    <3> QED
      BY <1>4, Zenon
  <2> HIDE DEF len
  <2> QED
    BY <2>1, <2>2
<1> DEFINE last == f[len]
<1>6. expandMatrix(matrix) = JobsAt(matrix, last.combos, last.extra)
  BY DEF expandMatrix, first
<1>7. last = IncludedUpTo(matrix, len)
  <2> DEFINE S == {n \in 0 .. len : f[n] = IncludedUpTo(matrix, n)}
  <2> HIDE DEF f
  <2>1. 0 \in S
    BY <1>1, <1>2, <1>5
  <2>2. ASSUME NEW n \in 1 .. len, n - 1 \in S PROVE n \in S
    <3>1. n \in Nat \ {0} /\ n \in 0 .. len /\ f[n - 1] = IncludedUpTo(matrix, n - 1)
      BY <2>2, <1>1
    <3> QED
      BY <3>1, <1>5, IncludeStep
  <2>3. \A n \in 0 .. len : n \in S
    <3> HIDE DEF S
    <3>1. \A n \in 1 .. len : n - 1 \in S => n \in S
      BY <2>2
    <3> HIDE DEF len
    <3> QED
      BY <1>1, <2>1, <3>1, UpTo
  <2> QED
    BY <2>3, <1>1
<1> DEFINE axes == DOMAIN matrix.axes
           Fitting(c) == {i \in DOMAIN include :
                            \A k \in axes : k \in DOMAIN include[i] => matrix.axes[k][c[k]] = include[i][k]}
           Added(c) == UNION {DOMAIN include[i] : i \in Fitting(c)}
           LastWith(c, k) == CHOOSE i \in Fitting(c) :
                               /\ k \in DOMAIN include[i]
                               /\ \A j \in Fitting(c) : j > i => k \notin DOMAIN include[j]
           combo(c) == [k \in axes \cup Added(c) |->
                          IF k \in axes THEN matrix.axes[k][c[k]] ELSE include[LastWith(c, k)][k]]
           keptR == {c \in choices(matrix) : \A x \in ToSet(matrix.exclude) :
                       \E k \in DOMAIN x : k \notin axes \/ matrix.axes[k][c[k]] # x[k]}
           alone == {i \in DOMAIN include : \A c \in keptR : i \notin Fitting(c)}
<1>8. MatrixJobs(matrix) = JobsAt(matrix, [c \in keptR |-> combo(c)], alone)
  BY DEF MatrixJobs
<1>9. keptR = KeptOf(matrix)
  BY DEF KeptOf, ValueIn
<1>10. \A c : Fitting(c) = FittingUpTo(matrix, c, len)
  BY <1>1 DEF FittingUpTo, ValueIn
<1>11. alone = last.extra
  <2>1. last.extra = {i \in 1 .. len : \A c \in KeptOf(matrix) : i \notin FittingUpTo(matrix, c, len)}
    <3> HIDE DEF last
    <3> QED
      BY <1>7 DEF IncludedUpTo
  <2> HIDE DEF last, keptR, Fitting
  <2> QED
    BY <2>1, <1>1, <1>9, <1>10
<1>12. ASSUME NEW c PROVE combo(c) = Extended(matrix, c, len)
  <2>1. Added(c) = AddedUpTo(matrix, c, len)
    BY <1>10 DEF AddedUpTo
  <2>2. ASSUME NEW k \in Added(c) PROVE LastWith(c, k) = CHOOSE i : IsLast(matrix, c, k, len, i)
    <3>1. PICK i : IsLast(matrix, c, k, len, i)
      BY <1>1, <2>1, LastThere
    <3>2. \A j \in Fitting(c) : IsLast(matrix, c, k, len, j) <=>
            /\ k \in DOMAIN include[j]
            /\ \A m \in Fitting(c) : m > j => k \notin DOMAIN include[m]
      <4> HIDE DEF Fitting
      <4> QED
        BY <1>10 DEF IsLast
    <3>3. i \in Fitting(c)
      <4> HIDE DEF Fitting
      <4> QED
        BY <3>1, <1>10 DEF IsLast
    <3> HIDE DEF Fitting, include
    <3>4. LastWith(c, k) \in Fitting(c) /\ IsLast(matrix, c, k, len, LastWith(c, k))
      BY <3>1, <3>2, <3>3
    <3> HIDE DEF LastWith
    <3> QED
      BY <1>1, <3>4, LastOnly
  <2> HIDE DEF Added, LastWith
  <2>3. combo(c) = [k \in axes \cup AddedUpTo(matrix, c, len) |->
                      IF k \in axes THEN ValueIn(matrix, c, k)
                      ELSE include[CHOOSE i : IsLast(matrix, c, k, len, i)][k]]
    BY <2>1, <2>2 DEF ValueIn
  <2> QED
    BY <2>3 DEF Extended
<1>13. last.combos = [c \in KeptOf(matrix) |-> Extended(matrix, c, len)]
  <2> HIDE DEF last
  <2> QED
    BY <1>7 DEF IncludedUpTo
<1> HIDE DEF combo, alone, keptR, last
<1>14. [c \in keptR |-> combo(c)] = last.combos
  BY <1>9, <1>12, <1>13
<1> QED
  BY <1>6, <1>8, <1>11, <1>14

\* parseWorkflow accepts the files that are sound, and the matrices that expand are small.
LEMMA ParsesSound ==
  ASSUME NEW file, file.jobs \in Seq(ToSet(file.jobs)), \A job \in ToSet(file.jobs) : job.needs \in Seq(ToSet(job.needs))
  PROVE  parseWorkflow(file) <=> Sound(file)
<1> DEFINE jobs == file.jobs
           known == \A i \in DOMAIN jobs : ToSet(jobs[i].needs) \subseteq IdsOf(jobs)
<1>1. ASSUME known PROVE jobOrder(jobs).cycle <=> ~Acyclic(jobs)
  <2>1. ASSUME NEW i \in DOMAIN jobs PROVE jobs[i].needs \in Seq(IdsOf(jobs))
    <3>1. jobs[i] \in ToSet(jobs)
      BY DEF ToSet
    <3>2. jobs[i].needs \in Seq(ToSet(jobs[i].needs)) /\ ToSet(jobs[i].needs) \subseteq IdsOf(jobs)
      BY <1>1, <3>1
    <3> HIDE DEF jobs
    <3> QED
      BY <3>2
  <2>2. JobList(jobs)
    BY <2>1 DEF JobList
  <2> HIDE DEF jobs
  <2> QED
    BY <2>2, OrderFindsCycles
<1> QED
  BY <1>1 DEF parseWorkflow, Sound

LEMMA ExpandSmall ==
  ASSUME NEW file, \A job \in ToSet(file.jobs) : job.matrix.include \in Seq(ToSet(job.matrix.include))
  PROVE  (\A i \in DOMAIN file.jobs : expands(file.jobs[i].matrix)) <=> Small(file)
<1>1. \A job \in ToSet(file.jobs) : expandMatrix(job.matrix) = MatrixJobs(job.matrix)
  BY ExpandsAsWritten
<1> QED
  BY <1>1 DEF expands, Small, ToSet

(* ------------------------------ discovery ---------------------------- *)

LEMMA DiscoverIs ==
  ASSUME scene \in Scenes, NEW r \in Repos, NEW sha \in Commits, NEW gone, NEW unread
  PROVE  /\ discover(r, sha, gone, unread) \subseteq Entry
         /\ \A x, y \in discover(r, sha, gone, unread) : x.file.path = y.file.path => x = y
         /\ \A x \in discover(r, sha, gone, unread) :
              /\ ~x.error => parseWorkflow(x.file)
              /\ \A event \in DOMAIN x.file.on \cap {"push", "pull_request"} :
                   \A kind \in DOMAIN x.file.on[event] \ {"types"} :
                     x.file.on[event][kind] \in PatternLists
<1> DEFINE dirs == scene.tree[r][sha]
           usable == {d \in DOMAIN dirs : d \notin gone /\ dirs[d] # <<>>}
           files == dirs[Min(usable)]
           E == {[at |-> i, file |-> files[i], error |-> i \in unread \/ ~parseWorkflow(files[i])] :
                   i \in DOMAIN files}
<1>1. CASE usable = {}
  BY <1>1 DEF discover
<1>2. CASE usable # {}
  <2>1. Min(usable) \in DOMAIN dirs
    <3>1. usable \subseteq Nat
      BY TriggersAssumption
    <3>2. Min(usable) \in usable
      <4> HIDE DEF usable
      <4> QED
        BY <1>2, <3>1, LeastIn
    <3> QED
      BY <3>2
  <2>2. Directory(files)
    BY <2>1, TriggersAssumption
  <2>3. \A i \in DOMAIN files : files[i] \in Files
    <3>1. ASSUME NEW i \in DOMAIN files PROVE files[i] \in ToSet(files)
      BY DEF ToSet
    <3>2. ToSet(files) \in {ToSet(dirs[d]) : d \in DOMAIN dirs}
      BY <2>1
    <3>3. UNION {ToSet(dirs[d]) : d \in DOMAIN dirs} \subseteq Files
      <4>1. FilesOf(r, sha) \in {FilesOf(q, c) : q \in Repos, c \in Commits}
        OBVIOUS
      <4>2. FilesOf(r, sha) \subseteq Files
        BY <4>1 DEF Files
      <4> QED
        BY <4>2 DEF FilesOf
    <3> QED
      BY <3>1, <3>2, <3>3
  <2>4. discover(r, sha, gone, unread) = E
    BY <1>2 DEF discover
  <2> HIDE DEF files
  <2> DEFINE Found(i) == [at |-> i, file |-> files[i], error |-> i \in unread \/ ~parseWorkflow(files[i])]
  <2>5. \A i \in DOMAIN files : Found(i) \in Entry
    <3>1. \A i \in DOMAIN files : i \in Nat
      BY <2>2 DEF Directory
    <3> QED
      BY <3>1, <2>3 DEF Entry
  <2>9. E \subseteq Entry
    BY <2>5
  <2>6. \A x, y \in E : x.file.path = y.file.path => x = y
    BY <2>2 DEF Directory
  <2>7. ASSUME NEW x \in E
        PROVE  /\ ~x.error => parseWorkflow(x.file)
               /\ \E i \in DOMAIN files : x.file = files[i]
    <3>1. PICK i \in DOMAIN files : x = Found(i)
      BY Zenon
    <3>2. x.error = (i \in unread \/ ~parseWorkflow(files[i])) /\ x.file = files[i]
      BY <3>1
    <3> QED
      BY <3>2, Zenon
  <2>8. ASSUME NEW x \in E, NEW event \in DOMAIN x.file.on \cap {"push", "pull_request"},
               NEW kind \in DOMAIN x.file.on[event] \ {"types"}
        PROVE  x.file.on[event][kind] \in PatternLists
    BY <2>2, <2>7 DEF Directory
  <2> QED
    <3> HIDE DEF E
    <3> QED
      BY <2>4, <2>9, <2>6, <2>7, <2>8
<1> QED
  BY <1>1, <1>2

\* Without a fault, what is read is what there is.
LEMMA ReadsAre ==
  ASSUME scene \in Scenes, NEW r \in Repos, NEW sha \in Commits, NEW diff,
         NEW read \in Reads(r, sha, diff)
  PROVE  /\ read.found \subseteq Entry
         /\ read.fault \/ (read.found = Entries(r, sha) /\ read.changed = diff)
<1> DEFINE Read(changed, found, fault) == [changed |-> changed, found |-> found, fault |-> fault]
<1>1. CASE read = Read(diff, Entries(r, sha), FALSE)
  BY <1>1, DiscoverIs DEF Entries
<1>2. CASE read = Read(<<>>, Entries(r, sha), TRUE)
  BY <1>2, DiscoverIs DEF Entries
<1>3. ASSUME NEW d, read = Read(diff, discover(r, sha, {d}, {}), TRUE)
      PROVE  read.fault /\ read.found \subseteq Entry
  BY <1>3, DiscoverIs
<1>4. ASSUME NEW i, read = Read(diff, discover(r, sha, {}, {i}), TRUE)
      PROVE  read.fault /\ read.found \subseteq Entry
  BY <1>4, DiscoverIs
<1> QED
  BY <1>1, <1>2, <1>3, <1>4, Zenon DEF Reads

\* The entry whose turn it is, is one of those that are left.
LEMMA ForemostIn ==
  ASSUME NEW todo, todo # {}, \A e \in todo : e.at \in Nat
  PROVE  Foremost(todo) \in todo
<1> DEFINE places == {x.at : x \in todo}
<1>1. places \subseteq Nat /\ places # {}
  OBVIOUS
<1>2. Min(places) \in places
  <2> HIDE DEF places
  <2> QED
    BY <1>1, LeastIn
<1>3. PICK e \in todo : e.at = Min(places)
  BY <1>2
<1> QED
  BY <1>3 DEF Foremost

(* ------------------------------- typing ------------------------------ *)

\* Where a call, or a tick, is tells what it carries.
CallOK(c) ==
  /\ c.kind = "pull" => c.pr \in DOMAIN Pulls /\ c.pc # "files"
  /\ c.pc \in {"files", "pulls"} => c.sha # 0
  /\ c.todo # {} => c.pc \in {"files", "pulls"}

TickOK(k) ==
  /\ k.pc # "idle" => k.repos # {}
  /\ k.pc = "idle" => k.minute = 0
  /\ k.pc \in {"load", "runs"} => k.sha # 0
  /\ k.todo # {} => k.pc = "runs"

TypedInv ==
  /\ TypeOK
  /\ \A i \in DOMAIN calls : CallOK(calls[i])
  /\ \A t \in Ticks : TickOK(ticks[t])

\* What is left only shrinks.
LEMMA SpendsFrom ==
  ASSUME left \in [Events -> Nat], UNCHANGED left \/ \E e \in Events : Spend(e)
  PROVE  left' \in [Events -> Nat] /\ \A e \in Events : left'[e] <= left[e]
<1>1. CASE UNCHANGED left
  BY <1>1
<1>2. ASSUME NEW e \in Events, Spend(e)
      PROVE  left' \in [Events -> Nat] /\ \A x \in Events : left'[x] <= left[x]
  <2>1. left[e] \in Nat /\ left[e] > 0 /\ left[e] - 1 \in Nat
    BY <1>2 DEF Spend
  <2>2. left' = [left EXCEPT ![e] = left[e] - 1]
    BY <1>2 DEF Spend
  <2> QED
    BY <2>1, <2>2
<1> QED
  BY <1>1, <1>2

LEMMA RunAdded ==
  ASSUME NEW x, Insert(x), \A run \in BagToSet(runs) : runs[run] \in Nat \ {0}
  PROVE  /\ BagToSet(runs') = BagToSet(runs) \cup {x}
         /\ \A run \in BagToSet(runs) : run # x => runs'[run] = runs[run]
         /\ x \notin BagToSet(runs) => runs'[x] = 1
         /\ \A run \in BagToSet(runs') : runs'[run] \in Nat \ {0}
<1> DEFINE one == SetToBag({x})
<1>1. DOMAIN one = {x} /\ one[x] = 1
  BY DEF SetToBag
<1>2. runs' = [e \in (DOMAIN runs) \cup (DOMAIN one) |->
                 (IF e \in DOMAIN runs THEN runs[e] ELSE 0) + (IF e \in DOMAIN one THEN one[e] ELSE 0)]
  BY DEF Insert, (+)
<1> HIDE DEF one
<1> QED
  BY <1>1, <1>2 DEF BagToSet

\* A run of an entry, whatever its status and jobs.
IsRun(x, e, r, event, sha, pr, cause) ==
  /\ x.repo = r /\ x.event = event /\ x.sha = sha /\ x.pr = pr /\ x.cause = cause
  /\ x.path = e.file.path

\* createRun inserts one run, or throws before it does; only a database fault makes it throw.
LEMMA CreatesOne ==
  ASSUME NEW e, NEW r, NEW event, NEW sha, NEW pr, NEW cause, NEW threw \in BOOLEAN, NEW spent,
         createRun(RunOf(e, r, event, sha, pr, cause), threw, spent)
  PROVE  /\ \/ UNCHANGED runs /\ threw
            \/ \E x : IsRun(x, e, r, event, sha, pr, cause) /\ Insert(x)
         /\ threw => Spend("db")
         /\ Spend("db") \/ (IF spent = "none" THEN UNCHANGED left ELSE Spend(spent))
<1> DEFINE run == RunOf(e, r, event, sha, pr, cause)
<1>1. IsRun(run, e, r, event, sha, pr, cause)
  BY DEF RunOf, IsRun
<1>2. IsRun([run EXCEPT !.status = "failed", !.jobs = {}], e, r, event, sha, pr, cause)
  BY DEF RunOf, IsRun
<1> HIDE DEF run
<1>3. createRun(run, threw, spent)
  BY DEF run
<1> QED
  BY <1>1, <1>2, <1>3 DEF createRun

\* A step of the handler of a push or of a pull request.
Handle(i) == RejectPush(i) \/ StartPush(i) \/ CreateOne(i) \/ FindPulls(i) \/ NextPull(i) \/ StartPull(i)

Ticking(t) == Tick(t) \/ TickHead(t) \/ TickLoad(t) \/ TickRun(t) \/ TickNext(t)

LEMMA NextCases ==
  ASSUME Next
  PROVE  \/ \E r \in Repos, f \in Refs, c \in Commits \cup {0} : Push(r, f, c)
         \/ \E p \in DOMAIN Pulls : OpenPull(p) \/ ReopenPull(p) \/ ClosePull(p)
         \/ \E i \in DOMAIN calls : Handle(i)
         \/ \E r \in Repos, f \in Refs : Dispatch(r, f)
         \/ \E run \in BagToSet(runs) : rerun(run)
         \/ Minute
         \/ \E t \in Ticks : Ticking(t)
         \/ Restart
BY Zenon DEF Next, Handle, Ticking

LEMMA Paying ==
  ASSUME NEW fault, Pays(fault)
  PROVE  Spend("git") \/ (~fault /\ UNCHANGED left)
BY DEF Pays

\* Every step spends at most one of the events there may be.
LEMMA StepSpends ==
  ASSUME [Next]_vars
  PROVE  UNCHANGED scene /\ (UNCHANGED left \/ \E e \in Events : Spend(e))
<1>1. {"push", "open", "close", "reopen", "dispatch", "rerun", "minute", "tick", "db", "git", "crash"}
      = Events
  BY DEF Events
<1>2. CASE UNCHANGED vars
  BY <1>2 DEF vars, git
<1>3. ASSUME NEW r \in Repos, NEW f \in Refs, NEW c \in Commits \cup {0}, Push(r, f, c)
      PROVE  UNCHANGED scene /\ Spend("push")
  BY <1>3 DEF Push
<1>4. ASSUME NEW p \in DOMAIN Pulls, OpenPull(p) \/ ReopenPull(p) \/ ClosePull(p)
      PROVE  UNCHANGED scene /\ (Spend("open") \/ Spend("reopen") \/ Spend("close"))
  BY <1>4 DEF OpenPull, ReopenPull, ClosePull, git
<1>5. ASSUME NEW i \in DOMAIN calls, Handle(i)
      PROVE  UNCHANGED scene /\ (UNCHANGED left \/ Spend("db") \/ Spend("git"))
  <2>1. CASE RejectPush(i)
    BY <2>1 DEF RejectPush, git
  <2>2. CASE StartPush(i)
    BY <2>2, Paying DEF StartPush, git
  <2>3. CASE CreateOne(i)
    BY <2>3, CreatesOne DEF CreateOne, git
  <2>4. CASE FindPulls(i)
    BY <2>4 DEF FindPulls, git
  <2>5. CASE NextPull(i)
    BY <2>5, Paying DEF NextPull, ReadPull, git
  <2>6. CASE StartPull(i)
    BY <2>6, Paying DEF StartPull, ReadPull, git
  <2> QED
    BY <1>5, <2>1, <2>2, <2>3, <2>4, <2>5, <2>6 DEF Handle
<1>6. ASSUME NEW r \in Repos, NEW f \in Refs, Dispatch(r, f)
      PROVE  UNCHANGED scene /\ (Spend("db") \/ Spend("dispatch"))
  BY <1>6, CreatesOne DEF Dispatch, git
<1>7. ASSUME NEW run \in BagToSet(runs), rerun(run)
      PROVE  UNCHANGED scene /\ (Spend("db") \/ Spend("rerun"))
  BY <1>7, CreatesOne DEF rerun, git
<1>8. CASE Minute
  BY <1>8 DEF Minute, git, Events
<1>9. ASSUME NEW t \in Ticks, Ticking(t)
      PROVE  UNCHANGED scene /\ (UNCHANGED left \/ Spend("db") \/ Spend("git") \/ Spend("tick"))
  <2>1. CASE Tick(t)
    BY <2>1 DEF Tick, git
  <2>2. CASE TickHead(t)
    BY <2>2 DEF TickHead, git
  <2>3. CASE TickLoad(t)
    BY <2>3, Paying DEF TickLoad, git
  <2>4. CASE TickRun(t)
    BY <2>4, CreatesOne DEF TickRun, git
  <2>5. CASE TickNext(t)
    BY <2>5 DEF TickNext, git
  <2> QED
    BY <1>9, <2>1, <2>2, <2>3, <2>4, <2>5 DEF Ticking
<1>10. CASE Restart
  BY <1>10 DEF Restart, git, Events
<1> QED
  BY <1>1, <1>2, <1>3, <1>4, <1>5, <1>6, <1>7, <1>8, <1>9, <1>10, NextCases

\* A fault that has not struck after a step had not struck before it, and the step is not it.
LEMMA CalmBefore ==
  ASSUME TypeOK, [Next]_vars, NEW es \in SUBSET Events, Unused(es)'
  PROVE  Unused(es) /\ \A e \in es : ~Spend(e)
<1>1. UNCHANGED scene /\ (UNCHANGED left \/ \E e \in Events : Spend(e))
  BY StepSpends
<1>2. \A e \in Events : left[e] \in Nat /\ left[e] <= scene.left[e]
  BY DEF TypeOK
<1>3. \A e \in Events : scene.left[e] \in Nat
  BY TriggersAssumption DEF TypeOK
<1>4. left' \in [Events -> Nat] /\ \A e \in Events : left'[e] <= left[e]
  BY <1>1, SpendsFrom DEF TypeOK
<1>5. \A e \in es : left'[e] = scene.left[e]
  BY <1>1 DEF Unused
<1>6. Unused(es)
  <2>1. \A e \in es : left[e] = scene.left[e]
    BY <1>2, <1>3, <1>4, <1>5
  <2> QED
    BY <2>1 DEF Unused
<1>7. ASSUME NEW e \in es, Spend(e) PROVE FALSE
  <2>1. left' = [left EXCEPT ![e] = left[e] - 1] /\ left[e] \in Nat /\ left \in [Events -> Nat]
    BY <1>7, <1>2 DEF Spend, TypeOK
  <2>2. left'[e] = left[e] - 1
    BY <2>1
  <2> QED
    BY <2>1, <2>2, <1>5, <1>6 DEF Unused
<1> QED
  BY <1>6, <1>7

\* A step that changes one call.
Becomes(i, x) == calls' = [calls EXCEPT ![i] = x]

LEMMA OneCall ==
  ASSUME TypedInv, NEW i \in DOMAIN calls, NEW x \in Call, CallOK(x), Becomes(i, x)
  PROVE  /\ calls' \in Seq(Call) /\ Len(calls') = Len(calls) /\ DOMAIN calls' = DOMAIN calls
         /\ calls'[i] = x /\ \A j \in DOMAIN calls : j # i => calls'[j] = calls[j]
         /\ \A j \in DOMAIN calls : CallOK(calls'[j])
<1>1. calls \in Seq(Call)
  BY DEF TypedInv, TypeOK
<1>2. calls' \in Seq(Call) /\ Len(calls') = Len(calls)
  BY <1>1 DEF Becomes
<1>3. /\ DOMAIN calls' = DOMAIN calls
      /\ calls'[i] = x /\ \A j \in DOMAIN calls : j # i => calls'[j] = calls[j]
  BY <1>1 DEF Becomes
<1> QED
  BY <1>2, <1>3 DEF TypedInv

\* A call that is made.
LEMMA NewCall ==
  ASSUME TypedInv, NEW x \in Call, CallOK(x), calls' = Append(calls, x)
  PROVE  /\ calls' \in Seq(Call) /\ Len(calls') = Len(calls) + 1 /\ Len(calls) \in Nat
         /\ DOMAIN calls = 1 .. Len(calls) /\ DOMAIN calls' = DOMAIN calls \cup {Len(calls) + 1}
         /\ calls'[Len(calls) + 1] = x /\ \A j \in DOMAIN calls : calls'[j] = calls[j]
         /\ \A j \in DOMAIN calls' : CallOK(calls'[j])
<1>1. calls \in Seq(Call)
  BY DEF TypedInv, TypeOK
<1>2. /\ calls' \in Seq(Call) /\ Len(calls') = Len(calls) + 1 /\ Len(calls) \in Nat
      /\ DOMAIN calls = 1 .. Len(calls)
      /\ calls'[Len(calls) + 1] = x /\ \A j \in DOMAIN calls : calls'[j] = calls[j]
  BY <1>1
<1>3. DOMAIN calls' = DOMAIN calls \cup {Len(calls) + 1}
  BY <1>2
<1> QED
  BY <1>2, <1>3 DEF TypedInv

\* The fields of a call that never change.
Kept(x, c) ==
  x.kind = c.kind /\ x.repo = c.repo /\ x.ref = c.ref /\ x.before = c.before /\ x.action = c.action

LEMMA EndsOne ==
  ASSUME TypedInv, NEW i \in DOMAIN calls, NEW how \in {"done", "failed"}, Ends(i, how)
  PROVE  \E x \in Call : /\ CallOK(x) /\ Becomes(i, x) /\ Kept(x, calls[i])
                         /\ x.pc = how /\ x.sha = calls[i].sha
<1> DEFINE x == [calls[i] EXCEPT !.pc = how, !.prs = {}, !.todo = {}]
<1>1. calls[i] \in Call /\ CallOK(calls[i])
  BY DEF TypedInv, TypeOK
<1>2. x \in Call /\ CallOK(x)
  BY <1>1 DEF Call, CallOK
<1>3. Becomes(i, x)
  BY DEF Ends, Becomes
<1>4. Kept(x, calls[i]) /\ x.pc = how /\ x.sha = calls[i].sha
  BY <1>1 DEF Call, Kept
<1> QED
  BY <1>2, <1>3, <1>4

\* Entries to work through, of what was read.
LEMMA TodoTyped ==
  ASSUME NEW found, found \subseteq Entry
  PROVE  /\ \A ref, changed : pushTodo(found, ref, changed) \subseteq Entry
         /\ \A action, base, changed : pullTodo(found, action, base, changed) \subseteq Entry
         /\ scheduled(found) \subseteq Entry
         /\ \A minute : cronTodo(found, minute) \subseteq Entry
BY DEF pushTodo, pullTodo, scheduled, cronTodo

LEMMA StartsPush ==
  ASSUME TypedInv, NEW i \in DOMAIN calls, StartPush(i)
  PROVE  \/ /\ calls[i].sha = 0 /\ UNCHANGED left
            /\ \E x \in Call : /\ CallOK(x) /\ Becomes(i, x) /\ Kept(x, calls[i])
                                /\ x.pc = "done" /\ x.sha = calls[i].sha
         \/ /\ calls[i].sha \in Commits
            /\ \E x \in Call, read \in Reads(calls[i].repo, calls[i].sha, Diff(calls[i])) :
                 /\ Pays(read.fault)
                 /\ CallOK(x) /\ Becomes(i, x) /\ Kept(x, calls[i])
                 /\ x.pc = "files" /\ x.sha = calls[i].sha /\ x.prs = calls[i].prs
                 /\ x.todo = pushTodo(read.found, calls[i].ref, read.changed)
<1> DEFINE c == calls[i]
<1>1. c \in Call /\ CallOK(c) /\ scene \in Scenes
  BY DEF TypedInv, TypeOK
<1>2. CASE c.sha = 0
  BY <1>2, EndsOne DEF StartPush
<1>3. CASE c.sha # 0
  <2>1. c.sha \in Commits /\ c.repo \in Repos /\ c.kind = "push"
    BY <1>1, <1>3 DEF Call, StartPush
  <2>2. PICK read \in Reads(c.repo, c.sha, Diff(c)) :
          /\ Pays(read.fault)
          /\ calls' = [calls EXCEPT ![i].pc = "files",
                                    ![i].todo = pushTodo(read.found, c.ref, read.changed)]
    BY <1>3 DEF StartPush
  <2> DEFINE todo == pushTodo(read.found, c.ref, read.changed)
             x == [c EXCEPT !.pc = "files", !.todo = todo]
  <2>3. todo \subseteq Entry
    BY <1>1, <2>1, <2>2, ReadsAre, TodoTyped
  <2> HIDE DEF todo
  <2>4. x \in Call /\ CallOK(x)
    BY <1>1, <1>3, <2>1, <2>3 DEF Call, CallOK
  <2>5. Becomes(i, x)
    BY <2>2, <1>1 DEF Becomes, todo
  <2>6. Kept(x, c) /\ x.pc = "files" /\ x.sha = c.sha /\ x.prs = c.prs /\ x.todo = todo
    BY <1>1 DEF Call, Kept
  <2> QED
    BY <2>1, <2>2, <2>4, <2>5, <2>6 DEF todo
<1> QED
  BY <1>2, <1>3

LEMMA ReadsPull ==
  ASSUME TypedInv, NEW i \in DOMAIN calls, NEW p \in DOMAIN Pulls, NEW head \in Commits,
         calls[i].kind = "pull" => calls[i].pr = p \/ calls[i].pc # "kicked",
         ReadPull(i, p, head)
  PROVE  \E x \in Call,
            read \in Reads(Pulls[p].repo, head,
                           <<ChangedSinceBase(Branch(Pulls[p].repo, Pulls[p].target), head)>>) :
           /\ Pays(read.fault)
           /\ CallOK(x) /\ Becomes(i, x) /\ Kept(x, calls[i])
           /\ x.pc = "pulls" /\ x.pr = p /\ x.sha = head /\ x.prs = calls[i].prs \ {p}
           /\ x.todo = pullTodo(read.found, calls[i].action, Pulls[p].target, read.changed)
<1> DEFINE c == calls[i]
           diff == <<ChangedSinceBase(Branch(Pulls[p].repo, Pulls[p].target), head)>>
<1>1. c \in Call /\ CallOK(c) /\ scene \in Scenes /\ Pulls[p].repo \in Repos
  BY TriggersAssumption DEF TypedInv, TypeOK
<1>2. PICK read \in Reads(Pulls[p].repo, head, diff) :
        /\ Pays(read.fault)
        /\ calls' = [calls EXCEPT ![i].pc = "pulls", ![i].pr = p, ![i].sha = head, ![i].prs = @ \ {p},
             ![i].todo = pullTodo(read.found, c.action, Pulls[p].target, read.changed)]
  BY DEF ReadPull
<1> DEFINE todo == pullTodo(read.found, c.action, Pulls[p].target, read.changed)
           x == [c EXCEPT !.pc = "pulls", !.pr = p, !.sha = head, !.prs = @ \ {p}, !.todo = todo]
<1>3. todo \subseteq Entry
  <2>1. read.found \subseteq Entry
    <3> HIDE DEF diff
    <3> QED
      BY <1>1, <1>2, ReadsAre
  <2> QED
    BY <2>1, TodoTyped
<1> HIDE DEF todo
<1>4. x \in Call /\ CallOK(x)
  BY <1>1, <1>3, TriggersAssumption DEF Call, CallOK
<1>5. Becomes(i, x)
  BY <1>1, <1>2 DEF Becomes, todo
<1>6. /\ Kept(x, c) /\ x.pc = "pulls" /\ x.pr = p /\ x.sha = head
      /\ x.prs = c.prs \ {p} /\ x.todo = todo
  BY <1>1 DEF Call, Kept
<1> QED
  BY <1>2, <1>4, <1>5, <1>6 DEF todo

RunsTyped == \A run \in BagToSet(runs) : run.repo \in Repos /\ run.sha \in Commits /\ runs[run] \in Nat \ {0}
CacheTyped == scheduleCache \in [Repos -> Seq([sha : Commits, entries : SUBSET Entry])]

LEMMA RunsStayTyped ==
  ASSUME RunsTyped, NEW e, NEW r \in Repos, NEW event, NEW sha \in Commits, NEW pr, NEW cause,
         UNCHANGED runs \/ \E x : IsRun(x, e, r, event, sha, pr, cause) /\ Insert(x)
  PROVE  RunsTyped'
<1>1. CASE UNCHANGED runs
  BY <1>1 DEF RunsTyped
<1>2. ASSUME NEW x, IsRun(x, e, r, event, sha, pr, cause), Insert(x) PROVE RunsTyped'
  BY <1>2, RunAdded DEF RunsTyped, IsRun
<1> QED
  BY <1>1, <1>2

LEMMA SameTypes ==
  ASSUME UNCHANGED scene
  PROVE  Entry' = Entry /\ Call' = Call /\ ScheduleTick' = ScheduleTick
<1>1. Entry' = Entry
  BY DEF Entry, Files, FilesOf
<1> QED
  BY <1>1 DEF Call, ScheduleTick

LEMMA TypesAre ==
  ASSUME TypedInv
  PROVE  /\ scene \in Scenes /\ CacheTyped /\ RunsTyped
         /\ \A i \in DOMAIN calls : calls[i] \in Call /\ CallOK(calls[i])
         /\ ticks \in [Ticks -> ScheduleTick]
         /\ \A t \in Ticks : ticks[t] \in ScheduleTick /\ TickOK(ticks[t])
         /\ \A r \in Repos, b \in Branches : Branch(r, b) \in Commits \cup {0}
         /\ \A p \in DOMAIN Pulls : Pulls[p] \in [repo : Repos, source : Branches, target : Branches]
<1>1. CacheTyped /\ RunsTyped /\ scene \in Scenes
  BY Zenon DEF TypedInv, TypeOK, CacheTyped, RunsTyped
<1>2. \A i \in DOMAIN calls : calls[i] \in Call /\ CallOK(calls[i])
  BY DEF TypedInv, TypeOK
<1>3. /\ ticks \in [Ticks -> ScheduleTick]
      /\ \A t \in Ticks : ticks[t] \in ScheduleTick /\ TickOK(ticks[t])
  BY DEF TypedInv, TypeOK
<1>4. ASSUME NEW r \in Repos, NEW b \in Branches PROVE Branch(r, b) \in Commits \cup {0}
  <2>1. [kind |-> "heads", name |-> b] \in Refs
    BY DEF Refs
  <2> QED
    BY <2>1 DEF TypedInv, TypeOK, Branch
<1> QED
  BY <1>1, <1>2, <1>3, <1>4, TriggersAssumption

\* What a step of a handler leaves alone, and what becomes of its call.
LEMMA HandleStep ==
  ASSUME TypedInv, NEW i \in DOMAIN calls, Handle(i)
  PROVE  /\ UNCHANGED <<git, pull, clock>>
         /\ \E x \in Call : CallOK(x) /\ Becomes(i, x) /\ Kept(x, calls[i])
         /\ \/ UNCHANGED scheduleCache
            \/ scheduleCache' = [scheduleCache EXCEPT ![calls[i].repo] = <<>>]
         /\ RunsTyped'
<1> DEFINE c == calls[i]
           Good == \E x \in Call : CallOK(x) /\ Becomes(i, x) /\ Kept(x, c)
           Cached == \/ UNCHANGED scheduleCache
                     \/ scheduleCache' = [scheduleCache EXCEPT ![c.repo] = <<>>]
<1>1. c \in Call /\ CallOK(c) /\ RunsTyped
  BY TypesAre
<1>2. UNCHANGED runs => RunsTyped'
  BY <1>1 DEF RunsTyped
<1>3. CASE RejectPush(i)
  BY <1>2, <1>3, EndsOne DEF RejectPush
<1>4. CASE StartPush(i)
  BY <1>2, <1>4, StartsPush DEF StartPush
<1>5. CASE CreateOne(i)
  <2> DEFINE e == Foremost(c.todo)
             event == IF At(i, "files") THEN "push" ELSE "pull_request"
             y == [c EXCEPT !.todo = @ \ {e}]
  <2>1. PICK threw \in BOOLEAN :
          /\ createRun(RunOf(e, c.repo, event, c.sha, c.pr, i), threw, "none")
          /\ IF threw THEN Ends(i, "failed") ELSE calls' = [calls EXCEPT ![i].todo = @ \ {e}]
    BY <1>5 DEF CreateOne
  <2>2. c.repo \in Repos /\ c.sha \in Commits
    BY <1>1, <1>5 DEF Call, CallOK, CreateOne
  <2>3. RunsTyped'
    <3> HIDE DEF e, event
    <3> QED
      BY <1>1, <2>1, <2>2, CreatesOne, RunsStayTyped
  <2>4. y \in Call /\ CallOK(y) /\ Kept(y, c)
    BY <1>1, <1>5 DEF Call, CallOK, Kept, CreateOne
  <2>5. ~threw => Becomes(i, y)
    BY <2>1 DEF Becomes
  <2>6. Good
    BY <2>1, <2>4, <2>5, EndsOne
  <2> QED
    BY <1>5, <2>3, <2>6 DEF CreateOne
<1>6. CASE FindPulls(i)
  <2> DEFINE prs == openPrsForBranch(c.repo, c.ref.name)
             y == [c EXCEPT !.pc = "pulls", !.prs = prs]
  <2>1. y \in Call /\ CallOK(y) /\ Kept(y, c)
    BY <1>1, <1>6 DEF Call, CallOK, Kept, FindPulls, At, openPrsForBranch
  <2>2. calls' = [calls EXCEPT ![i].pc = "pulls", ![i].prs = prs] => Becomes(i, y)
    BY <1>1 DEF Becomes
  <2>3. Good
    BY <1>6, <2>1, <2>2, EndsOne DEF FindPulls
  <2> QED
    BY <1>2, <1>6, <2>3 DEF FindPulls
<1>7. CASE NextPull(i)
  <2>1. c.sha \in Commits /\ c.prs \subseteq DOMAIN Pulls /\ c.pc # "kicked"
    BY <1>1, <1>7 DEF Call, CallOK, NextPull, At
  <2>2. Good
    BY <1>7, <2>1, EndsOne, ReadsPull DEF NextPull
  <2> QED
    BY <1>2, <1>7, <2>2 DEF NextPull
<1>8. CASE StartPull(i)
  <2> DEFINE p == c.pr
             head == Branch(Pulls[p].repo, Pulls[p].source)
  <2>1. p \in DOMAIN Pulls
    BY <1>1, <1>8 DEF CallOK, StartPull
  <2>2. head \in Commits \cup {0}
    BY <2>1, TypesAre
  <2>3. head # 0 /\ ReadPull(i, p, head) => Good
    <3>1. calls[i].pr = p
      OBVIOUS
    <3> HIDE DEF p, head
    <3>2. SUFFICES ASSUME head # 0, ReadPull(i, p, head) PROVE Good
      OBVIOUS
    <3>3. head \in Commits
      BY <2>2, <3>2
    <3> QED
      BY <2>1, <3>1, <3>2, <3>3, ReadsPull, Zenon
  <2>4. Good
    BY <1>8, <2>3, EndsOne DEF StartPull
  <2> QED
    BY <1>2, <1>8, <2>4 DEF StartPull
<1> QED
  BY <1>3, <1>4, <1>5, <1>6, <1>7, <1>8 DEF Handle

\* A step of a tick: one tick changes, and what it sees of a repository is kept.
TickBecomes(t, x) == ticks' = [ticks EXCEPT ![t] = x]

LEMMA VisitingTyped ==
  ASSUME NEW minute \in Nat, NEW repos \in SUBSET Repos
  PROVE  Visiting(minute, repos) \in ScheduleTick /\ TickOK(Visiting(minute, repos))
BY DEF Visiting, Idle, ScheduleTick, TickOK

LEMMA AtRepoIn ==
  ASSUME TypedInv, NEW t \in Ticks, ticks[t].repos # {}
  PROVE  AtRepo(t) \in ticks[t].repos /\ AtRepo(t) \in Repos
<1>1. ticks[t].repos \subseteq Repos /\ Repos \subseteq Nat
  BY TypesAre, TriggersAssumption DEF ScheduleTick
<1>2. ticks[t].repos \subseteq Nat
  BY <1>1
<1>3. Min(ticks[t].repos) \in ticks[t].repos
  BY <1>2, LeastIn
<1> QED
  BY <1>1, <1>3 DEF AtRepo

LEMMA NextRepoTyped ==
  ASSUME TypedInv, NEW t \in Ticks, NextRepo(t)
  PROVE  \E x \in ScheduleTick : /\ TickOK(x) /\ TickBecomes(t, x)
                                 /\ x = Visiting(ticks[t].minute, ticks[t].repos \ {AtRepo(t)})
<1>1. ticks[t].minute \in Nat /\ ticks[t].repos \ {AtRepo(t)} \in SUBSET Repos
  BY TypesAre DEF ScheduleTick
<1>2. Visiting(ticks[t].minute, ticks[t].repos \ {AtRepo(t)}) \in ScheduleTick
  BY <1>1, VisitingTyped
<1>3. TickOK(Visiting(ticks[t].minute, ticks[t].repos \ {AtRepo(t)}))
  BY <1>1, VisitingTyped
<1> QED
  BY <1>2, <1>3 DEF NextRepo, TickBecomes

LEMMA LoadsOne ==
  ASSUME TypedInv, NEW t \in Ticks, TickLoad(t)
  PROVE  /\ AtRepo(t) \in Repos /\ AtRepo(t) \in ticks[t].repos /\ ticks[t].sha \in Commits
         /\ \E read \in Reads(AtRepo(t), ticks[t].sha, <<>>), x \in ScheduleTick :
              /\ Pays(read.fault)
              /\ scheduled(read.found) \subseteq Entry
              /\ scheduleCache' = [scheduleCache EXCEPT ![AtRepo(t)] =
                                     <<[sha |-> ticks[t].sha, entries |-> scheduled(read.found)]>>]
              /\ TickOK(x) /\ TickBecomes(t, x)
              /\ x.pc = "runs" /\ x.minute = ticks[t].minute /\ x.repos = ticks[t].repos
              /\ x.sha = ticks[t].sha
              /\ x.todo = cronTodo(scheduled(read.found), ticks[t].minute)
<1> DEFINE k == ticks[t]
           r == AtRepo(t)
<1>1. k \in ScheduleTick /\ TickOK(k) /\ scene \in Scenes
  BY TypesAre
<1>2. r \in Repos /\ r \in k.repos /\ k.sha \in Commits
  BY <1>1, AtRepoIn DEF TickLoad, TickOK, ScheduleTick
<1>3. PICK read \in Reads(r, k.sha, <<>>) :
        /\ Pays(read.fault)
        /\ scheduleCache' = [scheduleCache EXCEPT ![r] =
                               <<[sha |-> k.sha, entries |-> scheduled(read.found)]>>]
        /\ ticks' = [ticks EXCEPT ![t].pc = "runs", ![t].todo = cronTodo(scheduled(read.found), k.minute)]
  BY DEF TickLoad
<1> DEFINE entries == scheduled(read.found)
           todo == cronTodo(entries, k.minute)
           x == [k EXCEPT !.pc = "runs", !.todo = todo]
<1>4. entries \subseteq Entry /\ todo \subseteq Entry
  <2>1. read.found \subseteq Entry
    BY <1>1, <1>2, <1>3, ReadsAre
  <2>2. entries \subseteq Entry
    BY <2>1, TodoTyped
  <2> HIDE DEF entries
  <2> QED
    BY <2>2, TodoTyped
<1> HIDE DEF entries, todo
<1>5. x \in ScheduleTick /\ TickOK(x)
  BY <1>1, <1>2, <1>4 DEF ScheduleTick, TickOK, TickLoad
<1>6. TickBecomes(t, x)
  BY <1>1, <1>3 DEF TickBecomes, todo, entries
<1>7. /\ x.pc = "runs" /\ x.minute = k.minute /\ x.repos = k.repos
      /\ x.sha = k.sha /\ x.todo = todo
  BY <1>1 DEF ScheduleTick
<1> QED
  BY <1>2, <1>3, <1>4, <1>5, <1>6, <1>7 DEF todo, entries

LEMMA FirstOf ==
  ASSUME NEW S, NEW s \in Seq(S), s # <<>>
  PROVE  s[1] \in S
<1>1. Len(s) \in Nat /\ Len(s) # 0
  BY EmptySeq, LenProperties
<1> QED
  BY <1>1, ElementOfSeq

LEMMA HeadsOne ==
  ASSUME TypedInv, NEW t \in Ticks, TickHead(t)
  PROVE  /\ AtRepo(t) \in Repos /\ AtRepo(t) \in ticks[t].repos
         /\ Branch(AtRepo(t), "main") \in Commits \cup {0}
         /\ \E x \in ScheduleTick :
              /\ TickOK(x) /\ TickBecomes(t, x)
              /\ \/ /\ x = Visiting(ticks[t].minute, ticks[t].repos \ {AtRepo(t)})
                    /\ Spend("git") \/ Branch(AtRepo(t), "main") = 0
                 \/ /\ x.minute = ticks[t].minute /\ x.repos = ticks[t].repos
                    /\ x.sha = Branch(AtRepo(t), "main") /\ x.sha \in Commits
                    /\ \/ x.pc = "load"
                       \/ /\ x.pc = "runs"
                          /\ Fresh(scheduleCache[AtRepo(t)], x.sha)
                          /\ x.todo = cronTodo(scheduleCache[AtRepo(t)][1].entries, ticks[t].minute)
<1> DEFINE k == ticks[t]
           r == AtRepo(t)
           head == Branch(r, "main")
           cached == scheduleCache[r]
           todo == cronTodo(cached[1].entries, k.minute)
<1>1. k \in ScheduleTick /\ TickOK(k) /\ k.pc = "head" /\ "main" \in Branches
  BY TypesAre, TriggersAssumption DEF TickHead
<1>2. r \in Repos /\ r \in k.repos /\ k.repos # {}
  BY <1>1, AtRepoIn DEF TickOK
<1>3. head \in Commits \cup {0} /\ CacheTyped
  BY <1>1, <1>2, TypesAre
<1>4. cached \in Seq([sha : Commits, entries : SUBSET Entry])
  BY <1>2, <1>3 DEF CacheTyped
<1>5. Fresh(cached, head) => todo \subseteq Entry
  <2> SUFFICES ASSUME cached # <<>> PROVE todo \subseteq Entry
    BY DEF Fresh
  <2>1. cached[1] \in [sha : Commits, entries : SUBSET Entry]
    <3> HIDE DEF cached
    <3> QED
      BY <1>4, FirstOf
  <2>2. cached[1].entries \subseteq Entry
    BY <2>1
  <2> QED
    BY <2>2, TodoTyped
<1> DEFINE x1 == [k EXCEPT !.pc = "runs", !.sha = head, !.todo = todo]
           x2 == [k EXCEPT !.pc = "load", !.sha = head]
<1>6. CASE NextRepo(t) /\ (Spend("git") \/ (head = 0 /\ UNCHANGED left))
  <2>1. head \in Commits \cup {0} /\ (Spend("git") \/ head = 0)
    BY <1>3, <1>6
  <2> HIDE DEF head
  <2> QED
    BY <1>2, <1>6, <2>1, NextRepoTyped DEF head
<1>7. CASE head # 0 /\ Fresh(cached, head)
           /\ ticks' = [ticks EXCEPT ![t] = [@ EXCEPT !.pc = "runs", !.sha = head, !.todo = todo]]
  <2>1. TickBecomes(t, x1)
    BY <1>7 DEF TickBecomes
  <2>2. todo \subseteq Entry /\ head \in Commits
    BY <1>3, <1>5, <1>7
  <2>3. Fresh(cached, head)
    BY <1>7
  <2> HIDE DEF todo, head, cached
  <2>4. x1 \in ScheduleTick /\ TickOK(x1)
    BY <1>1, <1>2, <2>2, TriggersAssumption DEF ScheduleTick, TickOK
  <2>5. /\ x1.pc = "runs" /\ x1.minute = k.minute /\ x1.repos = k.repos
        /\ x1.sha = head /\ x1.todo = todo
    BY <1>1 DEF ScheduleTick
  <2> QED
    BY <1>2, <1>3, <2>1, <2>2, <2>3, <2>4, <2>5 DEF todo, head, cached
<1>8. CASE head # 0 /\ ~Fresh(cached, head)
           /\ ticks' = [ticks EXCEPT ![t] = [@ EXCEPT !.pc = "load", !.sha = head]]
  <2>1. TickBecomes(t, x2)
    BY <1>8 DEF TickBecomes
  <2>2. head \in Commits
    BY <1>3, <1>8
  <2> HIDE DEF head, cached
  <2>4. x2 \in ScheduleTick /\ TickOK(x2)
    BY <1>1, <1>2, <2>2, TriggersAssumption DEF ScheduleTick, TickOK
  <2>5. x2.pc = "load" /\ x2.minute = k.minute /\ x2.repos = k.repos /\ x2.sha = head
    BY <1>1 DEF ScheduleTick
  <2> QED
    BY <1>2, <1>3, <2>1, <2>2, <2>4, <2>5 DEF head
<1> QED
  BY <1>6, <1>7, <1>8 DEF TickHead

LEMMA RunsOne ==
  ASSUME TypedInv, NEW t \in Ticks, TickRun(t)
  PROVE  LET k == ticks[t]
             r == AtRepo(t)
             e == Foremost(k.todo)
             Ran(y) == IsRun(y, e, r, "schedule", k.sha, 0, k.minute) /\ Insert(y)
         IN /\ k.pc = "runs" /\ k.todo # {} /\ e \in k.todo
            /\ r \in Repos /\ r \in k.repos /\ k.sha \in Commits
            /\ \/ /\ Spend("db") /\ TickBecomes(t, Idle)
                  /\ UNCHANGED runs \/ \E y : Ran(y)
               \/ /\ \E y : Ran(y)
                  /\ \E x \in ScheduleTick :
                       /\ TickOK(x) /\ TickBecomes(t, x)
                       /\ x.pc = "runs" /\ x.minute = k.minute /\ x.repos = k.repos
                       /\ x.sha = k.sha /\ x.todo = k.todo \ {e}
<1> DEFINE k == ticks[t]
           r == AtRepo(t)
           e == Foremost(k.todo)
           x == [k EXCEPT !.todo = @ \ {e}]
<1>1. k \in ScheduleTick /\ TickOK(k) /\ k.pc = "runs" /\ k.todo # {}
  BY TypesAre DEF TickRun
<1>2. r \in Repos /\ r \in k.repos /\ k.sha \in Commits
  BY <1>1, AtRepoIn DEF TickOK, ScheduleTick
<1>3. e \in k.todo
  BY <1>1, ForemostIn DEF ScheduleTick, Entry
<1>4. PICK threw \in BOOLEAN :
        /\ createRun(RunOf(e, r, "schedule", k.sha, 0, k.minute), threw, "none")
        /\ ticks' = IF threw THEN [ticks EXCEPT ![t] = Idle] ELSE [ticks EXCEPT ![t].todo = @ \ {e}]
  BY DEF TickRun
<1>5. /\ x \in ScheduleTick /\ TickOK(x)
      /\ x.pc = "runs" /\ x.minute = k.minute /\ x.repos = k.repos
      /\ x.sha = k.sha /\ x.todo = k.todo \ {e}
  BY <1>1 DEF ScheduleTick, TickOK
<1>6. threw => TickBecomes(t, Idle)
  BY <1>4 DEF TickBecomes
<1>7. ~threw => TickBecomes(t, x)
  BY <1>4 DEF TickBecomes
<1> HIDE DEF r, e, x
<1>8. /\ \/ UNCHANGED runs /\ threw
         \/ \E y : IsRun(y, e, r, "schedule", k.sha, 0, k.minute) /\ Insert(y)
      /\ threw => Spend("db")
  BY <1>4, CreatesOne
<1> QED
  BY <1>1, <1>2, <1>3, <1>5, <1>6, <1>7, <1>8 DEF r, e

\* What a step of a tick leaves alone, and what becomes of the tick.
LEMMA TicksStep ==
  ASSUME TypedInv, NEW t \in Ticks, Ticking(t)
  PROVE  /\ UNCHANGED <<git, pull, calls, now>>
         /\ \E x \in ScheduleTick : (TickOK(x) /\ TickBecomes(t, x)) \/ UNCHANGED ticks
         /\ lastScheduleMinute' \in 0 .. now
         /\ scheduleCache' \in [Repos -> Seq([sha : Commits, entries : SUBSET Entry])]
         /\ visited' \subseteq [minute : Nat, repo : Repos, sha : Commits]
         /\ RunsTyped'
<1> DEFINE k == ticks[t]
           Good == \E x \in ScheduleTick : (TickOK(x) /\ TickBecomes(t, x)) \/ UNCHANGED ticks
<1>1. k \in ScheduleTick /\ TickOK(k) /\ RunsTyped
  BY TypesAre
<1>2. UNCHANGED runs => RunsTyped'
  BY <1>1 DEF RunsTyped
<1>3. /\ scheduleCache \in [Repos -> Seq([sha : Commits, entries : SUBSET Entry])]
      /\ visited \subseteq [minute : Nat, repo : Repos, sha : Commits]
      /\ now \in Nat /\ lastScheduleMinute \in 0 .. now
  BY DEF TypedInv, TypeOK
<1>4. CASE Tick(t)
  <2>1. Visiting(now, Repos) \in ScheduleTick /\ TickOK(Visiting(now, Repos))
    BY <1>3, VisitingTyped
  <2>2. Good
    BY <1>1, <1>4, <2>1 DEF Tick, TickBecomes
  <2>3. lastScheduleMinute' \in 0 .. now
    BY <1>3, <1>4 DEF Tick
  <2> QED
    BY <1>2, <1>3, <1>4, <2>2, <2>3 DEF Tick
<1>5. CASE TickHead(t)
  <2>1. Good
    BY <1>5, HeadsOne
  <2> QED
    BY <1>2, <1>3, <1>5, <2>1 DEF TickHead
<1>6. CASE TickLoad(t)
  <2>1. Good
    BY <1>6, LoadsOne
  <2>2. scheduleCache' \in [Repos -> Seq([sha : Commits, entries : SUBSET Entry])]
    <3>1. PICK entries \in SUBSET Entry :
            scheduleCache' = [scheduleCache EXCEPT ![AtRepo(t)] = <<[sha |-> k.sha, entries |-> entries]>>]
      BY <1>6, LoadsOne
    <3>2. <<[sha |-> k.sha, entries |-> entries]>> \in Seq([sha : Commits, entries : SUBSET Entry])
      BY <1>6, LoadsOne
    <3> QED
      BY <1>3, <3>1, <3>2
  <2> QED
    BY <1>2, <1>3, <1>6, <2>1, <2>2 DEF TickLoad
<1>7. CASE TickRun(t)
  <2> DEFINE r == AtRepo(t)
             e == Foremost(k.todo)
  <2>1. Idle \in ScheduleTick /\ TickOK(Idle)
    BY DEF Idle, ScheduleTick, TickOK
  <2>2. Good
    BY <1>7, <2>1, RunsOne
  <2>3. RunsTyped'
    <3>1. r \in Repos /\ k.sha \in Commits
      BY <1>7, RunsOne
    <3>2. UNCHANGED runs \/ \E y : IsRun(y, e, r, "schedule", k.sha, 0, k.minute) /\ Insert(y)
      BY <1>7, RunsOne
    <3> HIDE DEF e, r
    <3> QED
      BY <1>1, <3>1, <3>2, RunsStayTyped
  <2> QED
    BY <1>3, <1>7, <2>2, <2>3 DEF TickRun
<1>8. CASE TickNext(t)
  <2>1. Good
    BY <1>8, NextRepoTyped DEF TickNext
  <2>2. AtRepo(t) \in Repos /\ k.sha \in Commits /\ k.minute \in Nat
    BY <1>1, <1>8, AtRepoIn DEF TickNext, TickOK, ScheduleTick
  <2>3. visited' \subseteq [minute : Nat, repo : Repos, sha : Commits]
    BY <1>3, <1>8, <2>2 DEF TickNext
  <2> QED
    BY <1>2, <1>3, <1>8, <2>1, <2>3 DEF TickNext
<1> QED
  BY <1>4, <1>5, <1>6, <1>7, <1>8 DEF Ticking

LEMMA PushesOne ==
  ASSUME TypedInv, NEW r \in Repos, NEW f \in Refs, NEW c \in Commits \cup {0}, Push(r, f, c)
  PROVE  /\ tip' \in [Repos -> [Refs -> Commits \cup {0}]]
         /\ tip'[r][f] = c
         /\ \A q \in Repos, g \in Refs : q # r \/ g # f => tip'[q][g] = tip[q][g]
         /\ \E x \in Call :
              /\ CallOK(x) /\ calls' = Append(calls, x)
              /\ x.kind = "push" /\ x.pc = "kicked" /\ x.repo = r /\ x.ref = f
              /\ x.before = tip[r][f] /\ x.sha = c /\ x.action = "synchronize"
         /\ UNCHANGED <<scene, pull, clock, scheduleCache, runs>>
<1> DEFINE x == [NoCall EXCEPT !.repo = r, !.ref = f, !.before = tip[r][f], !.sha = c]
<1>1. tip \in [Repos -> [Refs -> Commits \cup {0}]]
  BY DEF TypedInv, TypeOK
<1>2. tip' = [tip EXCEPT ![r][f] = c]
  BY DEF Push
<1>3. /\ tip' \in [Repos -> [Refs -> Commits \cup {0}]]
      /\ tip'[r][f] = c
      /\ \A q \in Repos, g \in Refs : q # r \/ g # f => tip'[q][g] = tip[q][g]
  BY <1>1, <1>2
<1>4. tip[r][f] \in Commits \cup {0}
  BY <1>1
<1>5. x \in Call /\ CallOK(x)
  BY <1>4 DEF NoCall, Call, CallOK, DefaultTypes
<1>6. /\ x.kind = "push" /\ x.pc = "kicked" /\ x.repo = r /\ x.ref = f
      /\ x.before = tip[r][f] /\ x.sha = c /\ x.action = "synchronize"
  BY DEF NoCall
<1> QED
  BY <1>3, <1>5, <1>6 DEF Push

LEMMA KicksOne ==
  ASSUME NEW p \in DOMAIN Pulls, NEW action \in {"opened", "reopened"}, kickActions(p, action)
  PROVE  \E x \in Call :
           /\ CallOK(x) /\ calls' = Append(calls, x)
           /\ x.kind = "pull" /\ x.pc = "kicked" /\ x.repo = Pulls[p].repo
           /\ x.action = action /\ x.pr = p
<1> DEFINE x == [NoCall EXCEPT !.kind = "pull", !.repo = Pulls[p].repo, !.action = action, !.pr = p]
<1>1. Pulls[p].repo \in Repos /\ "main" \in Branches
  BY TriggersAssumption
<1>2. x \in Call /\ CallOK(x)
  BY <1>1 DEF NoCall, Call, CallOK, DefaultTypes, Refs
<1>3. /\ x.kind = "pull" /\ x.pc = "kicked" /\ x.repo = Pulls[p].repo
      /\ x.action = action /\ x.pr = p
  BY DEF NoCall
<1> QED
  BY <1>2, <1>3 DEF kickActions

\* The calls after a restart: some fail, none is changed otherwise.
Dies(i) == calls'[i] = [calls[i] EXCEPT !.pc = "failed", !.prs = {}, !.todo = {}]

LEMMA Restarts ==
  ASSUME TypedInv, Restart
  PROVE  /\ calls' \in Seq(Call) /\ DOMAIN calls' = DOMAIN calls
         /\ \A i \in DOMAIN calls : /\ CallOK(calls'[i])
                                    /\ calls'[i] = calls[i] \/ Dies(i)
<1>1. calls \in Seq(Call) /\ \A i \in DOMAIN calls : calls[i] \in Call /\ CallOK(calls[i])
  BY DEF TypedInv, TypeOK
<1>2. DOMAIN calls' = DOMAIN calls /\ \A i \in DOMAIN calls : calls'[i] = calls[i] \/ Dies(i)
  BY DEF Restart, Dies
<1>3. \A i \in DOMAIN calls : calls'[i] \in Call /\ CallOK(calls'[i])
  <2> SUFFICES ASSUME NEW i \in DOMAIN calls PROVE calls'[i] \in Call /\ CallOK(calls'[i])
    OBVIOUS
  <2> DEFINE x == [calls[i] EXCEPT !.pc = "failed", !.prs = {}, !.todo = {}]
  <2>1. x \in Call /\ CallOK(x)
    BY <1>1 DEF Call, CallOK
  <2> QED
    BY <1>1, <1>2, <2>1 DEF Dies
<1>4. \E lost : calls' = [i \in DOMAIN calls |->
         IF \/ i \in lost
            \/ calls[i].pc \in {"files", "pulls"}
            \/ calls[i].kind = "pull" /\ At(i, "kicked")
         THEN [calls[i] EXCEPT !.pc = "failed", !.prs = {}, !.todo = {}] ELSE calls[i]]
  BY DEF Restart
<1>5. calls' \in Seq(Call)
  <2>1. Len(calls) \in Nat /\ DOMAIN calls = 1 .. Len(calls)
    BY <1>1
  <2>2. calls' \in [1 .. Len(calls) -> Call]
    BY <1>3, <1>4, <2>1
  <2> QED
    BY <2>1, <2>2
<1> QED
  BY <1>2, <1>3, <1>5

\* No step breaks the types; the types of entries do not change.
LEMMA TypedStep ==
  ASSUME TypedInv, [Next]_vars
  PROVE  TypedInv'
<1>1. UNCHANGED scene /\ (UNCHANGED left \/ \E e \in Events : Spend(e))
  BY StepSpends
<1>2. /\ left' \in [Events -> Nat]
      /\ \A e \in Events : left'[e] <= scene'.left[e]
  <2>1. left' \in [Events -> Nat] /\ \A e \in Events : left'[e] <= left[e]
    BY <1>1, SpendsFrom DEF TypedInv, TypeOK
  <2>2. \A e \in Events : left[e] \in Nat /\ left[e] <= scene.left[e] /\ scene.left[e] \in Nat
    BY TriggersAssumption DEF TypedInv, TypeOK
  <2> QED
    BY <1>1, <2>1, <2>2
<1>3. Entry' = Entry /\ Call' = Call /\ ScheduleTick' = ScheduleTick
  BY <1>1, SameTypes
<1> DEFINE
  Git == tip' \in [Repos -> [Refs -> Commits \cup {0}]] /\ pull' \in [DOMAIN Pulls -> {"none", "open", "closed"}]
  Called == calls' \in Seq(Call) /\ \A i \in DOMAIN calls' : CallOK(calls'[i])
  Ticked == ticks' \in [Ticks -> ScheduleTick] /\ \A t \in Ticks : TickOK(ticks'[t])
  Clocked == now' \in Nat \ {0} /\ lastScheduleMinute' \in 0 .. now'
  Cached == scheduleCache' \in [Repos -> Seq([sha : Commits, entries : SUBSET Entry])]
  Seen == visited' \subseteq [minute : Nat, repo : Repos, sha : Commits]
<1>4. /\ tip \in [Repos -> [Refs -> Commits \cup {0}]]
      /\ pull \in [DOMAIN Pulls -> {"none", "open", "closed"}]
      /\ calls \in Seq(Call) /\ \A i \in DOMAIN calls : CallOK(calls[i])
      /\ ticks \in [Ticks -> ScheduleTick] /\ \A t \in Ticks : TickOK(ticks[t])
      /\ now \in Nat \ {0} /\ lastScheduleMinute \in 0 .. now
      /\ scheduleCache \in [Repos -> Seq([sha : Commits, entries : SUBSET Entry])]
      /\ visited \subseteq [minute : Nat, repo : Repos, sha : Commits]
      /\ RunsTyped
  BY DEF TypedInv, TypeOK, RunsTyped
<1>5. /\ UNCHANGED tip /\ UNCHANGED pull => Git
      /\ UNCHANGED calls => Called
      /\ UNCHANGED ticks => Ticked
      /\ UNCHANGED <<now, lastScheduleMinute>> => Clocked
      /\ UNCHANGED scheduleCache => Cached
      /\ UNCHANGED visited => Seen
      /\ UNCHANGED runs => RunsTyped'
  BY <1>4 DEF RunsTyped
<1>6. SUFFICES Git /\ Called /\ Ticked /\ Clocked /\ Cached /\ Seen /\ RunsTyped'
  <2>1. scene' \in Scenes
    BY <1>1 DEF TypedInv, TypeOK
  <2> HIDE DEF Git, Called, Ticked, Clocked, Cached, Seen
  <2> QED
    BY <1>2, <1>3, <2>1 DEF TypedInv, TypeOK, RunsTyped, Git, Called, Ticked, Clocked, Cached, Seen
<1> HIDE DEF Git, Called, Ticked, Clocked, Cached, Seen
<1>7. CASE UNCHANGED vars
  BY <1>5, <1>7 DEF vars, git, clock
<1>8. ASSUME NEW r \in Repos, NEW f \in Refs, NEW c \in Commits \cup {0}, Push(r, f, c)
      PROVE  Git /\ Called /\ Ticked /\ Clocked /\ Cached /\ Seen /\ RunsTyped'
  <2>1. Git
    BY <1>4, <1>8, PushesOne DEF Git
  <2>2. Called
    BY <1>8, PushesOne, NewCall DEF Called
  <2> QED
    BY <1>5, <1>8, <2>1, <2>2 DEF Push, clock
<1>9. ASSUME NEW p \in DOMAIN Pulls, OpenPull(p) \/ ReopenPull(p) \/ ClosePull(p)
      PROVE  Git /\ Called /\ Ticked /\ Clocked /\ Cached /\ Seen /\ RunsTyped'
  <2>1. Git
    BY <1>4, <1>9 DEF OpenPull, ReopenPull, ClosePull, git, Git
  <2>2. Called
    <3>1. CASE ClosePull(p)
      BY <1>5, <3>1 DEF ClosePull
    <3>2. CASE OpenPull(p) \/ ReopenPull(p)
      <4>1. PICK action \in {"opened", "reopened"} : kickActions(p, action)
        BY <3>2 DEF OpenPull, ReopenPull
      <4> QED
        BY <4>1, KicksOne, NewCall DEF Called
    <3> QED
      BY <1>9, <3>1, <3>2
  <2> QED
    BY <1>5, <1>9, <2>1, <2>2 DEF OpenPull, ReopenPull, ClosePull, clock
<1>10. ASSUME NEW i \in DOMAIN calls, Handle(i)
       PROVE  Git /\ Called /\ Ticked /\ Clocked /\ Cached /\ Seen /\ RunsTyped'
  <2>1. Called
    BY <1>10, HandleStep, OneCall DEF Called
  <2>2. Cached
    <3>1. UNCHANGED scheduleCache \/ scheduleCache' = [scheduleCache EXCEPT ![calls[i].repo] = <<>>]
      BY <1>10, HandleStep
    <3>2. <<>> \in Seq([sha : Commits, entries : SUBSET Entry])
      BY EmptySeq
    <3> QED
      BY <1>4, <3>1, <3>2 DEF Cached
  <2>3. UNCHANGED <<git, pull, clock>> /\ RunsTyped'
    BY <1>10, HandleStep
  <2> QED
    BY <1>5, <2>1, <2>2, <2>3 DEF git, clock
<1>11. ASSUME NEW r \in Repos, NEW f \in Refs, Dispatch(r, f)
       PROVE  Git /\ Called /\ Ticked /\ Clocked /\ Cached /\ Seen /\ RunsTyped'
  <2>1. tip[r][f] \in Commits
    BY <1>4, <1>11 DEF Dispatch
  <2>2. RunsTyped'
    <3>1. PICK e \in Entries(r, tip[r][f]), threw \in BOOLEAN :
            createRun(RunOf(e, r, "workflow_dispatch", tip[r][f], 0, 0), threw, "dispatch")
      BY <1>11 DEF Dispatch
    <3>2. \/ UNCHANGED runs
          \/ \E x : IsRun(x, e, r, "workflow_dispatch", tip[r][f], 0, 0) /\ Insert(x)
      BY <3>1, CreatesOne, Zenon
    <3> QED
      BY <1>4, <2>1, <3>2, RunsStayTyped, Zenon
  <2> QED
    BY <1>5, <1>11, <2>2 DEF Dispatch, git, clock
<1>12. ASSUME NEW run \in BagToSet(runs), rerun(run)
       PROVE  Git /\ Called /\ Ticked /\ Clocked /\ Cached /\ Seen /\ RunsTyped'
  <2>1. run.repo \in Repos /\ run.sha \in Commits
    BY <1>4 DEF RunsTyped
  <2>2. RunsTyped'
    <3>1. PICK e \in Entries(run.repo, run.sha), threw \in BOOLEAN :
            createRun(RunOf(e, run.repo, run.event, run.sha, run.pr, 0), threw, "rerun")
      BY <1>12 DEF rerun
    <3>2. \/ UNCHANGED runs
          \/ \E x : IsRun(x, e, run.repo, run.event, run.sha, run.pr, 0) /\ Insert(x)
      BY <3>1, CreatesOne, Zenon
    <3> QED
      BY <1>4, <2>1, <3>2, RunsStayTyped, Zenon
  <2> QED
    BY <1>5, <1>12, <2>2 DEF rerun, git, clock
<1>13. CASE Minute
  <2>1. Clocked
    BY <1>4, <1>13 DEF Minute, Clocked
  <2> QED
    BY <1>5, <1>13, <2>1 DEF Minute, git
<1>14. ASSUME NEW t \in Ticks, Ticking(t)
       PROVE  Git /\ Called /\ Ticked /\ Clocked /\ Cached /\ Seen /\ RunsTyped'
  <2>1. /\ UNCHANGED <<git, pull, calls, now>>
        /\ lastScheduleMinute' \in 0 .. now
        /\ scheduleCache' \in [Repos -> Seq([sha : Commits, entries : SUBSET Entry])]
        /\ visited' \subseteq [minute : Nat, repo : Repos, sha : Commits]
        /\ RunsTyped'
    BY <1>14, TicksStep
  <2>2. Ticked
    <3>1. PICK x \in ScheduleTick : (TickOK(x) /\ TickBecomes(t, x)) \/ UNCHANGED ticks
      BY <1>14, TicksStep
    <3> QED
      BY <1>4, <1>5, <3>1 DEF Ticked, TickBecomes
  <2> QED
    BY <1>4, <1>5, <2>1, <2>2 DEF git, Clocked, Cached, Seen
<1>15. CASE Restart
  <2>1. Called
    BY <1>15, Restarts DEF Called
  <2>2. Ticked
    <3>1. Idle \in ScheduleTick /\ TickOK(Idle)
      BY DEF Idle, ScheduleTick, TickOK
    <3> QED
      BY <1>15, <3>1 DEF Restart, Ticked
  <2>3. Clocked
    <3>1. now' = now /\ lastScheduleMinute' = 0
      BY <1>15 DEF Restart
    <3> QED
      BY <1>4, <3>1 DEF Clocked
  <2>4. Cached
    <3>1. <<>> \in Seq([sha : Commits, entries : SUBSET Entry])
      BY EmptySeq
    <3>2. scheduleCache' = [r \in Repos |-> <<>>]
      BY <1>15 DEF Restart
    <3> QED
      BY <3>1, <3>2 DEF Cached
  <2> QED
    BY <1>5, <1>15, <2>1, <2>2, <2>3, <2>4 DEF Restart, git
<1> QED
  BY <1>7, <1>8, <1>9, <1>10, <1>11, <1>12, <1>13, <1>14, <1>15, NextCases

LEMMA TypedInit ==
  ASSUME Init
  PROVE  TypedInv
<1>1. calls \in Seq(Call) /\ DOMAIN calls = {}
  BY DEF Init
<1>2. Idle \in ScheduleTick /\ TickOK(Idle)
  BY DEF Idle, ScheduleTick, TickOK
<1>3. BagToSet(runs) = {}
  BY DEF Init, EmptyBag, SetToBag, BagToSet
<1>4. scheduleCache \in [Repos -> Seq([sha : Commits, entries : SUBSET Entry])]
  BY DEF Init
<1>5. scene.left \in [Events -> Nat] /\ left = scene.left
  BY TriggersAssumption DEF Init
<1>6. TypeOK
  BY <1>1, <1>2, <1>3, <1>4, <1>5, TriggersAssumption DEF Init, TypeOK
<1> QED
  BY <1>1, <1>2, <1>6 DEF TypedInv, Init

\* In every state every variable is of its kind: a call or a tick that has a commit to read
\* names one of a repository that is there, and no event happens more often than it may.
THEOREM TypeCorrect == Spec => []TypeOK
<1>1. Spec => []TypedInv
  BY TypedInit, TypedStep, PTL DEF Spec
<1> QED
  BY <1>1, PTL DEF TypedInv

(* ------------------ pull requests and their heads -------------------- *)

Calm == Unused({"db", "git", "crash"})

\* No run is ever taken away.
LEMMA RunsGrow ==
  ASSUME TypedInv, [Next]_vars
  PROVE  BagToSet(runs) \subseteq BagToSet(runs')
<1> DEFINE Grow == BagToSet(runs) \subseteq BagToSet(runs')
<1>1. \A x : Insert(x) => Grow
  BY RunAdded, TypesAre DEF RunsTyped
<1>2. \A e, r, event, sha, pr, cause, spent : \A threw \in BOOLEAN :
        createRun(RunOf(e, r, event, sha, pr, cause), threw, spent) => Grow
  BY <1>1, CreatesOne
<1>3. ASSUME NEW i \in DOMAIN calls, Handle(i) PROVE Grow
  <2>1. UNCHANGED runs \/ CreateOne(i)
    BY <1>3 DEF Handle, RejectPush, StartPush, FindPulls, NextPull, StartPull
  <2>2. ASSUME CreateOne(i) PROVE Grow
    <3>1. \E event : \E threw \in BOOLEAN :
            createRun(RunOf(Foremost(calls[i].todo), calls[i].repo, event, calls[i].sha, calls[i].pr, i),
                      threw, "none")
      BY <2>2 DEF CreateOne
    <3> HIDE DEF Grow
    <3> QED
      BY <1>2, <3>1, Zenon
  <2> QED
    BY <2>1, <2>2
<1>4. ASSUME NEW t \in Ticks, Ticking(t) PROVE Grow
  BY <1>2, <1>4 DEF Ticking, Tick, TickHead, TickLoad, TickRun, TickNext
<1>5. ASSUME NEW r \in Repos, NEW f \in Refs, Dispatch(r, f) PROVE Grow
  BY <1>2, <1>5 DEF Dispatch
<1>6. ASSUME NEW run \in BagToSet(runs), rerun(run) PROVE Grow
  BY <1>2, <1>6 DEF rerun
<1>7. CASE UNCHANGED runs
  BY <1>7
<1>8. ASSUME NEW p \in DOMAIN Pulls, OpenPull(p) \/ ReopenPull(p) \/ ClosePull(p) PROVE UNCHANGED runs
  BY <1>8 DEF OpenPull, ReopenPull, ClosePull
<1>9. CASE Minute \/ Restart \/ UNCHANGED vars
  BY <1>7, <1>9 DEF Minute, Restart, vars
<1> QED
  BY <1>3, <1>4, <1>5, <1>6, <1>7, <1>8, <1>9, NextCases DEF Push

\* The entries that run for a pull request whatever happened to it.
Asked(p, e) ==
  /\ ~e.error /\ "pull_request" \in DOMAIN e.file.on
  /\ {"types", "paths", "paths-ignore"} \cap DOMAIN e.file.on["pull_request"] = {}
  /\ Passes(e.file.on["pull_request"], "branches", Pulls[p].target)

Tested(p, head, e) ==
  \E run \in BagToSet(runs) :
    run.event = "pull_request" /\ run.pr = p /\ run.sha = head /\ run.path = e.file.path

\* A call that will run it: a push of the head that has not looked for pull requests yet, one
\* that has found this one, one at work on it, or the one made when it was opened.
WillTest(c, p, head, e) ==
  \/ /\ c.kind = "push" /\ c.pc \in {"kicked", "files"} /\ c.sha = head
     /\ c.repo = Pulls[p].repo /\ c.ref = [kind |-> "heads", name |-> Pulls[p].source]
  \/ c.pc = "pulls" /\ c.sha = head /\ p \in c.prs
  \/ c.pc = "pulls" /\ c.sha = head /\ c.pr = p /\ e \in c.todo
  \/ c.kind = "pull" /\ c.pc = "kicked" /\ c.pr = p

HeadOf(p) == Branch(Pulls[p].repo, Pulls[p].source)

HeadsInv ==
  Calm =>
    \A p \in DOMAIN Pulls : pull[p] = "open" /\ HeadOf(p) # 0 =>
      \A e \in Entries(Pulls[p].repo, HeadOf(p)) : Asked(p, e) =>
        \/ Tested(p, HeadOf(p), e)
        \/ \E i \in DOMAIN calls : WillTest(calls[i], p, HeadOf(p), e)

LEMMA AskedIsDue ==
  ASSUME scene \in Scenes, NEW p \in DOMAIN Pulls, NEW head \in Commits,
         NEW e \in Entries(Pulls[p].repo, head), Asked(p, e),
         NEW action \in DefaultTypes, NEW changed
  PROVE  e \in pullTodo(Entries(Pulls[p].repo, head), action, Pulls[p].target, changed)
<1> DEFINE cfg == e.file.on["pull_request"]
<1>1. Pulls[p].repo \in Repos
  BY TriggersAssumption
<1>2. /\ parseWorkflow(e.file) /\ "pull_request" \in DOMAIN e.file.on
      /\ \A kind \in DOMAIN cfg \ {"types"} : cfg[kind] \in PatternLists
  BY <1>1, DiscoverIs DEF Entries, Asked
<1>3. ~FiltersClash(cfg)
  BY <1>2 DEF parseWorkflow
<1>4. includeIgnore(Pulls[p].target, cfg, "branches")
  <2>1. "branches" \in DOMAIN Ignore
    BY DEF Ignore
  <2>2. Passes(cfg, "branches", Pulls[p].target)
    BY DEF Asked
  <2> HIDE DEF cfg
  <2> QED
    BY <1>2, <1>3, <2>1, <2>2, FilterPasses DEF PatternLists
<1>5. pathsMatch(cfg, changed)
  BY DEF Asked, pathsMatch, Filters, Ignore
<1>6. action \in (IF "types" \in DOMAIN cfg THEN cfg["types"] ELSE DefaultTypes)
  BY DEF Asked
<1> QED
  BY <1>4, <1>5, <1>6 DEF pullTodo, pullMatches, Asked

\* A step of the call that will test a head: it does, or still will.
LEMMA TestsOn ==
  ASSUME TypedInv, NEW i \in DOMAIN calls, Handle(i), ~Spend("db"), ~Spend("git"),
         NEW p \in DOMAIN Pulls, pull[p] = "open", NEW head \in Commits, head = HeadOf(p),
         NEW e \in Entries(Pulls[p].repo, head), Asked(p, e), WillTest(calls[i], p, head, e)
  PROVE  Tested(p, head, e)' \/ (i \in DOMAIN calls' /\ WillTest(calls'[i], p, head, e))
<1> DEFINE c == calls[i]
           Goal == Tested(p, head, e)' \/ (i \in DOMAIN calls' /\ WillTest(calls'[i], p, head, e))
<1>1. c \in Call /\ CallOK(c) /\ scene \in Scenes /\ c.action \in DefaultTypes
  BY TypesAre DEF Call
<1>2. \A x \in Call : CallOK(x) /\ Becomes(i, x) => i \in DOMAIN calls' /\ calls'[i] = x
  BY OneCall
<1>3. CASE RejectPush(i)
  BY <1>3 DEF RejectPush
<1>4. CASE StartPush(i)
  <2>1. c.kind = "push" /\ c.pc = "kicked" /\ c.sha = head /\ head # 0
    BY <1>4, TriggersAssumption DEF StartPush, At, WillTest
  <2>2. \E x \in Call : /\ CallOK(x) /\ Becomes(i, x) /\ Kept(x, c)
                        /\ x.pc = "files" /\ x.sha = c.sha
    BY <1>4, <2>1, StartsPush
  <2> QED
    BY <1>2, <2>1, <2>2 DEF WillTest, Kept
<1>5. CASE CreateOne(i)
  <2> DEFINE e0 == Foremost(c.todo)
             event == IF At(i, "files") THEN "push" ELSE "pull_request"
             y == [c EXCEPT !.todo = @ \ {e0}]
  <2>1. /\ createRun(RunOf(e0, c.repo, event, c.sha, c.pr, i), FALSE, "none")
        /\ calls' = [calls EXCEPT ![i].todo = @ \ {e0}]
    <3>1. PICK threw \in BOOLEAN :
            /\ createRun(RunOf(e0, c.repo, event, c.sha, c.pr, i), threw, "none")
            /\ IF threw THEN Ends(i, "failed") ELSE calls' = [calls EXCEPT ![i].todo = @ \ {e0}]
      BY <1>5 DEF CreateOne
    <3>2. ~threw
      <4> HIDE DEF e0, event
      <4> QED
        BY <3>1, CreatesOne
    <3> QED
      BY <3>1, <3>2
  <2>2. Becomes(i, y)
    BY <2>1 DEF Becomes
  <2>3. y \in Call /\ CallOK(y) /\ c.pc \in {"files", "pulls"}
    BY <1>1, <1>5 DEF Call, CallOK, CreateOne
  <2>4. /\ y.kind = c.kind /\ y.pc = c.pc /\ y.sha = c.sha /\ y.repo = c.repo /\ y.ref = c.ref
        /\ y.prs = c.prs /\ y.pr = c.pr /\ y.todo = c.todo \ {e0}
    BY <1>1 DEF Call
  <2>5. CASE c.pc = "pulls" /\ c.sha = head /\ c.pr = p /\ e = e0
    <3>1. event = "pull_request"
      BY <2>5 DEF At
    <3>2. PICK x : IsRun(x, e0, c.repo, event, c.sha, c.pr, i) /\ Insert(x)
      <4> HIDE DEF e0, event
      <4> QED
        BY <2>1, CreatesOne
    <3>3. x \in BagToSet(runs')
      BY <3>2, RunAdded, TypesAre DEF RunsTyped
    <3> QED
      BY <2>5, <3>1, <3>2, <3>3 DEF Tested, IsRun
  <2>6. CASE ~(c.pc = "pulls" /\ c.sha = head /\ c.pr = p /\ e = e0)
    <3>1. WillTest(y, p, head, e)
      <4> HIDE DEF y, e0
      <4> QED
        BY <2>3, <2>4, <2>6 DEF WillTest
    <3> QED
      BY <1>2, <2>2, <2>3, <3>1
  <2> QED
    BY <2>5, <2>6
<1>6. CASE FindPulls(i)
  <2>1. /\ c.kind = "push" /\ c.pc = "files" /\ c.sha = head /\ c.repo = Pulls[p].repo
        /\ c.ref = [kind |-> "heads", name |-> Pulls[p].source]
    BY <1>6 DEF FindPulls, At, WillTest
  <2> DEFINE prs == openPrsForBranch(c.repo, c.ref.name)
             y == [c EXCEPT !.pc = "pulls", !.prs = prs]
  <2>2. p \in prs
    BY <2>1 DEF openPrsForBranch
  <2>3. calls' = [calls EXCEPT ![i].pc = "pulls", ![i].prs = prs]
    BY <1>6, <2>1 DEF FindPulls
  <2>4. Becomes(i, y)
    BY <1>1, <2>3 DEF Becomes
  <2>5. y \in Call /\ CallOK(y)
    BY <1>1, <2>1 DEF Call, CallOK, openPrsForBranch
  <2>6. y.pc = "pulls" /\ y.sha = head /\ p \in y.prs
    BY <1>1, <2>1, <2>2 DEF Call
  <2> QED
    BY <1>2, <2>4, <2>5, <2>6 DEF WillTest
<1>7. ASSUME NEW q \in DOMAIN Pulls, ReadPull(i, q, head), c.sha = head \/ q = p,
             c.kind = "pull" => c.pr = q \/ c.pc # "kicked", q = p \/ p \in c.prs
      PROVE  Goal
  <2> DEFINE diff == <<ChangedSinceBase(Branch(Pulls[q].repo, Pulls[q].target), head)>>
  <2>1. PICK x \in Call, read \in Reads(Pulls[q].repo, head, diff) :
           /\ Pays(read.fault)
           /\ CallOK(x) /\ Becomes(i, x) /\ Kept(x, c)
           /\ x.pc = "pulls" /\ x.pr = q /\ x.sha = head /\ x.prs = c.prs \ {q}
           /\ x.todo = pullTodo(read.found, c.action, Pulls[q].target, read.changed)
    BY <1>7, ReadsPull
  <2>2. Pulls[q].repo \in Repos
    BY TypesAre
  <2>3. read.found = Entries(Pulls[q].repo, head)
    <3> HIDE DEF diff
    <3>1. ~read.fault
      BY <2>1, Paying
    <3> QED
      BY <1>1, <2>2, <2>1, <3>1, ReadsAre
  <2>4. q = p => e \in x.todo
    BY <1>1, <2>1, <2>3, AskedIsDue
  <2>5. WillTest(x, p, head, e)
    BY <1>7, <2>1, <2>4 DEF WillTest
  <2> QED
    BY <1>2, <2>1, <2>5
<1>8. CASE NextPull(i)
  <2>1. c.pc = "pulls" /\ c.sha = head /\ p \in c.prs /\ c.prs \subseteq DOMAIN Pulls
    BY <1>1, <1>8 DEF NextPull, At, WillTest, Call
  <2>2. \E q \in c.prs : ReadPull(i, q, c.sha)
    BY <1>8, <2>1 DEF NextPull
  <2> QED
    BY <1>7, <2>1, <2>2
<1>9. CASE StartPull(i)
  <2>1. c.kind = "pull" /\ c.pc = "kicked" /\ c.pr = p
    BY <1>9 DEF StartPull, At, WillTest
  <2>2. head # 0 /\ head = Branch(Pulls[p].repo, Pulls[p].source)
    BY TriggersAssumption DEF HeadOf
  <2>3. ReadPull(i, p, head)
    BY <1>9, <2>1, <2>2 DEF StartPull
  <2> QED
    BY <1>7, <2>1, <2>3
<1> QED
  BY <1>3, <1>4, <1>5, <1>6, <1>8, <1>9 DEF Handle

LEMMA HeadsStep ==
  ASSUME TypedInv, HeadsInv, [Next]_vars
  PROVE  HeadsInv'
<1>1. UNCHANGED scene
  BY StepSpends
<1>2. \A r, sha : Entries(r, sha)' = Entries(r, sha)
  BY <1>1 DEF Entries, discover
<1>3. SUFFICES ASSUME Calm', NEW p \in DOMAIN Pulls, pull'[p] = "open", HeadOf(p)' # 0,
                      NEW e \in Entries(Pulls[p].repo, HeadOf(p)'), Asked(p, e)
               PROVE  \/ Tested(p, HeadOf(p), e)'
                      \/ \E i \in DOMAIN calls' : WillTest(calls'[i], p, HeadOf(p)', e)
  BY <1>2 DEF HeadsInv
<1> DEFINE Goal == \/ Tested(p, HeadOf(p), e)'
                   \/ \E i \in DOMAIN calls' : WillTest(calls'[i], p, HeadOf(p)', e)
<1>4. Calm /\ ~Spend("db") /\ ~Spend("git") /\ ~Spend("crash")
  <2>1. {"db", "git", "crash"} \in SUBSET Events
    BY DEF Events
  <2> QED
    BY <1>3, <2>1, CalmBefore DEF Calm, TypedInv
<1>5. BagToSet(runs) \subseteq BagToSet(runs')
  BY RunsGrow
<1>6. ASSUME HeadOf(p)' = HeadOf(p), pull[p] = "open"
      PROVE  \/ Tested(p, HeadOf(p), e)
             \/ \E i \in DOMAIN calls : WillTest(calls[i], p, HeadOf(p), e)
  BY <1>3, <1>4, <1>6 DEF HeadsInv
<1>7. ASSUME HeadOf(p)' = HeadOf(p), Tested(p, HeadOf(p), e) PROVE Goal
  BY <1>5, <1>7 DEF Tested
<1>8. ASSUME HeadOf(p)' = HeadOf(p), pull[p] = "open",
             DOMAIN calls \subseteq DOMAIN calls', \A i \in DOMAIN calls : calls'[i] = calls[i]
      PROVE  Goal
  BY <1>6, <1>7, <1>8
<1>9. Pulls[p].repo \in Repos /\ Pulls[p].source \in Branches
  BY TypesAre
<1>10. UNCHANGED tip => HeadOf(p)' = HeadOf(p)
  BY DEF HeadOf, Branch
<1>11. UNCHANGED pull => pull[p] = "open"
  BY <1>3
<1>12. ASSUME NEW r \in Repos, NEW f \in Refs, NEW c \in Commits \cup {0}, Push(r, f, c)
       PROVE  Goal
  <2> DEFINE g == [kind |-> "heads", name |-> Pulls[p].source]
  <2>1. g \in Refs
    BY <1>9 DEF Refs
  <2>2. PICK x \in Call :
          /\ CallOK(x) /\ calls' = Append(calls, x)
          /\ x.kind = "push" /\ x.pc = "kicked" /\ x.repo = r /\ x.ref = f /\ x.sha = c
    BY <1>12, PushesOne
  <2>3. /\ DOMAIN calls' = DOMAIN calls \cup {Len(calls) + 1} /\ calls'[Len(calls) + 1] = x
        /\ \A j \in DOMAIN calls : calls'[j] = calls[j]
    BY <2>2, NewCall
  <2>4. CASE r = Pulls[p].repo /\ f = g
    <3>1. HeadOf(p)' = c
      BY <1>12, <2>4, PushesOne DEF HeadOf, Branch
    <3>2. WillTest(x, p, HeadOf(p)', e)
      BY <2>2, <2>4, <3>1 DEF WillTest
    <3> QED
      BY <2>3, <3>2
  <2>5. CASE r # Pulls[p].repo \/ f # g
    <3>1. HeadOf(p)' = HeadOf(p)
      BY <1>9, <1>12, <2>1, <2>5, PushesOne DEF HeadOf, Branch
    <3>2. UNCHANGED pull
      BY <1>12 DEF Push
    <3> QED
      BY <1>8, <1>11, <2>3, <3>1, <3>2
  <2> QED
    BY <2>4, <2>5
<1>13. ASSUME NEW q \in DOMAIN Pulls, OpenPull(q) \/ ReopenPull(q) \/ ClosePull(q)
       PROVE  Goal
  <2>1. UNCHANGED tip
    BY <1>13 DEF OpenPull, ReopenPull, ClosePull, git
  <2>2. CASE ClosePull(q)
    <3>1. pull[p] = "open" /\ UNCHANGED calls
      BY <1>3, <2>2 DEF ClosePull, TypedInv, TypeOK
    <3> QED
      BY <1>8, <1>10, <2>1, <3>1
  <2>3. CASE OpenPull(q) \/ ReopenPull(q)
    <3>1. PICK action \in {"opened", "reopened"} : kickActions(q, action)
      BY <2>3 DEF OpenPull, ReopenPull
    <3>2. PICK x \in Call :
            CallOK(x) /\ calls' = Append(calls, x) /\ x.kind = "pull" /\ x.pc = "kicked" /\ x.pr = q
      BY <3>1, KicksOne
    <3>3. /\ DOMAIN calls' = DOMAIN calls \cup {Len(calls) + 1} /\ calls'[Len(calls) + 1] = x
          /\ \A j \in DOMAIN calls : calls'[j] = calls[j]
      BY <3>2, NewCall
    <3>4. CASE q = p
      BY <3>2, <3>3, <3>4 DEF WillTest
    <3>5. CASE q # p
      <4>1. pull[p] = "open"
        BY <1>3, <2>3, <3>5 DEF OpenPull, ReopenPull, TypedInv, TypeOK
      <4> QED
        BY <1>8, <1>10, <2>1, <3>3, <4>1
    <3> QED
      BY <3>4, <3>5
  <2> QED
    BY <1>13, <2>2, <2>3
<1>14. ASSUME NEW i \in DOMAIN calls, Handle(i)
       PROVE  Goal
  <2>1. UNCHANGED tip /\ UNCHANGED pull
    BY <1>14, HandleStep DEF git
  <2>2. HeadOf(p)' = HeadOf(p) /\ pull[p] = "open"
    BY <1>10, <1>11, <2>1
  <2>3. PICK x \in Call : CallOK(x) /\ Becomes(i, x)
    BY <1>14, HandleStep
  <2>4. DOMAIN calls' = DOMAIN calls /\ \A j \in DOMAIN calls : j # i => calls'[j] = calls[j]
    BY <2>3, OneCall
  <2>5. ASSUME WillTest(calls[i], p, HeadOf(p), e) PROVE Goal
    <3>1. HeadOf(p) \in Commits
      BY <1>3, <1>9, <2>2, TypesAre DEF HeadOf
    <3>2. Tested(p, HeadOf(p), e)' \/ (i \in DOMAIN calls' /\ WillTest(calls'[i], p, HeadOf(p), e))
      BY <1>3, <1>4, <1>14, <2>2, <2>5, <3>1, TestsOn
    <3>3. Tested(p, HeadOf(p), e)' = Tested(p, HeadOf(p), e)'
      BY <2>2
    <3> QED
      BY <2>2, <3>2, <3>3
  <2> QED
    BY <1>6, <1>7, <2>2, <2>4, <2>5
<1>15. ASSUME UNCHANGED tip, UNCHANGED pull, UNCHANGED calls
       PROVE  Goal
  BY <1>8, <1>10, <1>11, <1>15
<1>16. ASSUME \/ \E r \in Repos, f \in Refs : Dispatch(r, f)
              \/ \E run \in BagToSet(runs) : rerun(run)
              \/ Minute
              \/ \E t \in Ticks : Ticking(t)
              \/ UNCHANGED vars
       PROVE  UNCHANGED tip /\ UNCHANGED pull /\ UNCHANGED calls
  BY <1>16, TicksStep DEF Dispatch, rerun, Minute, git, vars
<1>17. ~Restart
  BY <1>4 DEF Restart
<1> QED
  BY <1>12, <1>13, <1>14, <1>15, <1>16, <1>17, NextCases

LEMMA HeadsInit ==
  ASSUME Init
  PROVE  HeadsInv
BY DEF Init, HeadsInv

\* Every open pull request is tested, or a call is under way that will test it: for any number
\* of pushes, pull requests and calls at once.
THEOREM HeadsInvariant == Spec => [](TypedInv /\ HeadsInv)
<1>1. Spec => []TypedInv
  BY TypedInit, TypedStep, PTL DEF Spec
<1>2. Spec => []HeadsInv
  BY <1>1, HeadsInit, HeadsStep, PTL DEF Spec
<1> QED
  BY <1>1, <1>2, PTL

\* Without faults and restarts, an open pull request has a run of each of its workflows for its
\* head once the handlers are done.
THEOREM HeadsAreTested == Spec => []HeadIsTested
<1>1. ASSUME TypedInv, HeadsInv PROVE HeadIsTested
  <2>1. SUFFICES ASSUME Calm, \A i \in DOMAIN calls : calls[i].pc \in {"done", "failed"},
                        NEW p \in DOMAIN Pulls, pull[p] = "open", HeadOf(p) # 0,
                        NEW e \in Entries(Pulls[p].repo, HeadOf(p)), Asked(p, e)
                 PROVE  Tested(p, HeadOf(p), e)
    BY DEF HeadIsTested, Calm, Tested, Asked, HeadOf
  <2>2. \A i \in DOMAIN calls : ~WillTest(calls[i], p, HeadOf(p), e)
    BY <2>1 DEF WillTest
  <2> QED
    BY <1>1, <2>1, <2>2 DEF HeadsInv
<1> QED
  BY <1>1, HeadsInvariant, PTL

(* -------------------------- runs of one cause ------------------------ *)

\* The runs that one push, or one minute, caused in some repositories.
Of(event, cause, repos) ==
  {run \in BagToSet(runs) : run.event = event /\ run.cause = cause /\ run.repo \in repos}

\* They are one run of each of these entries, and nothing else.
Exact(event, cause, repos, due) ==
  /\ \A run \in Of(event, cause, repos) : \E e \in due : run.path = e.file.path
  /\ \A e \in due : Once({run \in Of(event, cause, repos) : run.path = e.file.path})

\* The step creates no run of this cause.
NoneOf(event, cause, repos) ==
  \/ UNCHANGED runs
  \/ \E x : Insert(x) /\ ~(x.event = event /\ x.cause = cause /\ x.repo \in repos)

LEMMA OfSame ==
  ASSUME RunsTyped, NEW event, NEW cause, NEW repos, NoneOf(event, cause, repos)
  PROVE  /\ Of(event, cause, repos)' = Of(event, cause, repos)
         /\ \A run \in Of(event, cause, repos) : runs'[run] = runs[run]
<1>1. CASE UNCHANGED runs
  BY <1>1 DEF Of
<1>2. ASSUME NEW x, Insert(x), ~(x.event = event /\ x.cause = cause /\ x.repo \in repos)
      PROVE  /\ Of(event, cause, repos)' = Of(event, cause, repos)
             /\ \A run \in Of(event, cause, repos) : runs'[run] = runs[run]
  <2>1. /\ BagToSet(runs') = BagToSet(runs) \cup {x}
        /\ \A run \in BagToSet(runs) : run # x => runs'[run] = runs[run]
    BY <1>2, RunAdded DEF RunsTyped
  <2> QED
    BY <1>2, <2>1 DEF Of
<1> QED
  BY <1>1, <1>2 DEF NoneOf

LEMMA OnceSame ==
  ASSUME RunsTyped, NEW event, NEW cause, NEW repos, NoneOf(event, cause, repos), NEW path,
         Once({run \in Of(event, cause, repos) : run.path = path})
  PROVE  Once({run \in Of(event, cause, repos) : run.path = path})'
BY OfSame DEF Once

LEMMA ExactSame ==
  ASSUME RunsTyped, NEW event, NEW cause, NEW repos, NoneOf(event, cause, repos), NEW due,
         Exact(event, cause, repos, due)
  PROVE  Exact(event, cause, repos, due)'
<1>1. Of(event, cause, repos)' = Of(event, cause, repos)
  BY OfSame
<1>2. ASSUME NEW e \in due PROVE Once({run \in Of(event, cause, repos) : run.path = e.file.path})'
  BY OfSame DEF Once, Exact
<1> QED
  BY <1>1, <1>2 DEF Exact

\* A run of an entry that had none.
LEMMA ExactAdd ==
  ASSUME RunsTyped, NEW event, NEW cause, NEW repos, NEW due, Exact(event, cause, repos, due),
         NEW e0, \A e \in due : e.file.path # e0.file.path,
         NEW x, Insert(x), x.event = event, x.cause = cause, x.repo \in repos, x.path = e0.file.path
  PROVE  Exact(event, cause, repos, due \cup {e0})'
<1> DEFINE Runs(path) == {run \in Of(event, cause, repos) : run.path = path}
<1>1. /\ BagToSet(runs') = BagToSet(runs) \cup {x}
      /\ \A run \in BagToSet(runs) : run # x => runs'[run] = runs[run]
      /\ x \notin BagToSet(runs) => runs'[x] = 1
  BY RunAdded DEF RunsTyped
<1>2. Of(event, cause, repos)' = Of(event, cause, repos) \cup {x}
  BY <1>1 DEF Of
<1>3. \A run \in Of(event, cause, repos) : run.path # e0.file.path
  BY DEF Exact
<1>4. x \notin BagToSet(runs)
  BY <1>3 DEF Of
<1>5. \A run \in Of(event, cause, repos) : runs'[run] = runs[run] /\ run # x
  BY <1>1, <1>4 DEF Of
<1>6. ASSUME NEW e \in due PROVE Once(Runs(e.file.path))'
  <2>1. PICK run \in Runs(e.file.path) : Runs(e.file.path) = {run} /\ runs[run] = 1
    BY DEF Exact, Once
  <2>2. e.file.path # e0.file.path
    OBVIOUS
  <2>3. Runs(e.file.path)' = {run}
    BY <1>2, <2>1, <2>2
  <2>4. runs'[run] = 1
    BY <1>5, <2>1
  <2> QED
    BY <2>3, <2>4 DEF Once
<1>7. Once(Runs(e0.file.path))'
  <2>1. Runs(e0.file.path)' = {x}
    BY <1>2, <1>3
  <2>2. runs'[x] = 1
    BY <1>1, <1>4
  <2> QED
    BY <2>1, <2>2 DEF Once
<1>8. \A run \in Of(event, cause, repos)' : \E e \in due \cup {e0} : run.path = e.file.path
  BY <1>2 DEF Exact
<1> QED
  BY <1>6, <1>7, <1>8 DEF Exact

(* ------------------------------- pushes ------------------------------ *)

\* The entries of a push, as PushesRun says them.
DueOf(c) ==
  IF c.sha = 0 THEN {}
  ELSE {e \in Entries(c.repo, c.sha) :
          e.error \/ ("push" \in DOMAIN e.file.on /\ PushDue(e.file.on["push"], c.ref, Diff(c)))}

Ran(i, due) == Exact("push", i, Repos, due)

\* How far the handler of a push has come.
PushOK(i, c) ==
  c.kind = "push" =>
    /\ c.pc = "kicked" => Ran(i, {})
    /\ c.pc = "files" => c.todo \subseteq DueOf(c) /\ Ran(i, DueOf(c) \ c.todo)
    /\ c.pc \in {"pulls", "done"} => Ran(i, DueOf(c))

PushInv ==
  Calm =>
    /\ \A i \in DOMAIN calls : PushOK(i, calls[i])
    /\ \A run \in BagToSet(runs) : run.event = "push" => run.cause \in 0 .. Len(calls)

LEMMA DueIsTodo ==
  ASSUME scene \in Scenes, NEW c \in Call, c.sha \in Commits
  PROVE  pushTodo(Entries(c.repo, c.sha), c.ref, Diff(c)) = DueOf(c)
<1>1. c.repo \in Repos /\ c.ref \in Refs /\ c.sha # 0
  BY TriggersAssumption DEF Call
<1>2. c.ref.kind \in {"heads", "tags"}
  BY <1>1 DEF Refs
<1>3. c.ref.kind # "heads" => Diff(c) = <<>>
  BY DEF Diff
<1>4. ASSUME NEW e \in Entries(c.repo, c.sha), ~e.error, "push" \in DOMAIN e.file.on
      PROVE  pushMatches(e.file.on["push"], c.ref, Diff(c)) <=> PushDue(e.file.on["push"], c.ref, Diff(c))
  <2> DEFINE cfg == e.file.on["push"]
             changed == Diff(c)
  <2>1. /\ parseWorkflow(e.file)
        /\ \A kind \in DOMAIN cfg \ {"types"} : cfg[kind] \in PatternLists
    BY <1>1, <1>4, DiscoverIs DEF Entries
  <2>2. ~FiltersClash(cfg)
    BY <1>4, <2>1 DEF parseWorkflow
  <2>3. changed = IF c.ref.kind = "heads" THEN changed ELSE <<>>
    BY <1>3
  <2> HIDE DEF cfg, changed
  <2>4. pushMatches(cfg, c.ref, changed)
        <=> PushDue(cfg, c.ref, IF c.ref.kind = "heads" THEN changed ELSE <<>>)
    BY <1>2, <2>1, <2>2, PushFilters DEF PatternLists
  <2> QED
    BY <2>3, <2>4 DEF cfg, changed
<1> QED
  BY <1>1, <1>4, Zenon DEF pushTodo, DueOf

LEMMA PushSame ==
  ASSUME RunsTyped, UNCHANGED scene, NEW i, NEW c, NoneOf("push", i, Repos), PushOK(i, c)
  PROVE  PushOK(i, c)'
<1>1. \A due : Ran(i, due) => Ran(i, due)'
  BY ExactSame DEF Ran
<1>2. DueOf(c)' = DueOf(c)
  BY DEF DueOf, Entries, discover, PushDue, Diff
<1> QED
  BY <1>1, <1>2 DEF PushOK

LEMMA SameDue ==
  ASSUME NEW x, NEW c, Kept(x, c), x.sha = c.sha
  PROVE  DueOf(x) = DueOf(c)
BY DEF DueOf, Diff, Kept

\* A step of the handler of a push.
LEMMA PushGoes ==
  ASSUME TypedInv, [Next]_vars, NEW i \in DOMAIN calls, Handle(i), ~Spend("db"), ~Spend("git"),
         PushOK(i, calls[i])
  PROVE  PushOK(i, calls[i])'
<1> DEFINE c == calls[i]
<1>1. c \in Call /\ CallOK(c) /\ RunsTyped /\ scene \in Scenes
  BY TypesAre
<1>2. \A x \in Call : CallOK(x) /\ Becomes(i, x) => calls'[i] = x
  BY OneCall
<1>3. UNCHANGED scene
  BY StepSpends
<1>4. PICK x0 \in Call : CallOK(x0) /\ Becomes(i, x0) /\ Kept(x0, c)
  BY HandleStep
<1>5. CASE c.kind # "push"
  BY <1>2, <1>4, <1>5 DEF PushOK, Kept
<1>6. \A x : DueOf(x)' = DueOf(x)
  BY <1>3 DEF DueOf, Entries, discover, PushDue, Diff
<1>7. UNCHANGED runs => \A due : Ran(i, due) => Ran(i, due)'
  BY <1>1, ExactSame DEF Ran, NoneOf
<1>8. CASE c.kind = "push" /\ StartPush(i)
  <2>1. Ran(i, {}) /\ UNCHANGED runs
    BY <1>8 DEF PushOK, StartPush, At
  <2>2. Ran(i, {})'
    BY <1>7, <2>1
  <2>3. CASE c.sha = 0
    <3>1. PICK x \in Call : CallOK(x) /\ Becomes(i, x) /\ x.pc = "done" /\ x.sha = 0
      BY <1>8, <2>3, StartsPush, TriggersAssumption
    <3>2. DueOf(x)' = {}
      BY <1>6, <3>1 DEF DueOf
    <3> QED
      BY <1>2, <2>2, <3>1, <3>2 DEF PushOK
  <2>4. CASE c.sha # 0
    <3>1. PICK x \in Call, read \in Reads(c.repo, c.sha, Diff(c)) :
            /\ Pays(read.fault)
            /\ CallOK(x) /\ Becomes(i, x) /\ Kept(x, c)
            /\ x.pc = "files" /\ x.sha = c.sha
            /\ x.todo = pushTodo(read.found, c.ref, read.changed)
      BY <1>8, <2>4, StartsPush
    <3>2. c.sha \in Commits /\ c.repo \in Repos
      BY <1>1, <2>4 DEF Call
    <3>3. read.found = Entries(c.repo, c.sha) /\ read.changed = Diff(c)
      BY <1>1, <3>1, <3>2, Paying, ReadsAre
    <3>4. x.todo = DueOf(c)
      BY <1>1, <3>1, <3>2, <3>3, DueIsTodo
    <3>5. x.todo = DueOf(x)' /\ DueOf(x)' \ x.todo = {}
      BY <1>6, <3>1, <3>4, SameDue
    <3>6. calls'[i] = x
      BY <1>2, <3>1
    <3> QED
      BY <2>2, <3>1, <3>5, <3>6 DEF PushOK
  <2> QED
    BY <2>3, <2>4
<1>9. PICK due : due = DueOf(c)
  OBVIOUS
<1>10. CASE c.kind = "push" /\ CreateOne(i)
  <2>1. PICK e0 : e0 = Foremost(c.todo)
    OBVIOUS
  <2>2. PICK event : event = IF At(i, "files") THEN "push" ELSE "pull_request"
    OBVIOUS
  <2>3. PICK threw \in BOOLEAN :
            /\ createRun(RunOf(e0, c.repo, event, c.sha, c.pr, i), threw, "none")
            /\ IF threw THEN Ends(i, "failed") ELSE calls' = [calls EXCEPT ![i].todo = @ \ {e0}]
    BY <1>10, <2>1, <2>2 DEF CreateOne
  <2>4. ~threw /\ \E x : IsRun(x, e0, c.repo, event, c.sha, c.pr, i) /\ Insert(x)
    BY <2>3, CreatesOne
  <2>5. PICK x : IsRun(x, e0, c.repo, event, c.sha, c.pr, i) /\ Insert(x)
    BY <2>4
  <2>6. c.pc \in {"files", "pulls"} /\ c.todo # {}
    BY <1>1, <1>10 DEF Call, CallOK, CreateOne
  <2>7. PICK y \in Call : /\ CallOK(y) /\ Becomes(i, y) /\ Kept(y, c) /\ y.kind = "push"
                         /\ y.pc = c.pc /\ y.sha = c.sha /\ y.todo = c.todo \ {e0}
    <3> DEFINE z == [c EXCEPT !.todo = @ \ {e0}]
    <3>1. Becomes(i, z)
      BY <2>3, <2>4 DEF Becomes
    <3>2. z \in Call /\ CallOK(z)
      BY <1>1, <1>10 DEF Call, CallOK, CreateOne
    <3>3. z.pc = c.pc /\ z.sha = c.sha /\ z.todo = c.todo \ {e0} /\ z.kind = "push" /\ Kept(z, c)
      BY <1>1, <1>10 DEF Call, Kept
    <3> QED
      BY <3>1, <3>2, <3>3
  <2>8. calls'[i] = y /\ DueOf(y)' = due
    BY <1>2, <1>6, <1>9, <2>7, SameDue
  <2>9. CASE c.pc = "pulls"
    <3>1. event # "push"
      BY <2>2, <2>9 DEF At
    <3>2. NoneOf("push", i, Repos)
      BY <2>5, <3>1 DEF NoneOf, IsRun
    <3>3. Ran(i, due)
      BY <1>9, <1>10, <2>9 DEF PushOK
    <3>4. Ran(i, due)'
      BY <1>1, <3>2, <3>3, ExactSame DEF Ran
    <3> QED
      BY <2>7, <2>8, <2>9, <3>4 DEF PushOK
  <2>10. CASE c.pc = "files"
    <3>1. PICK old : old = due \ c.todo
      OBVIOUS
    <3>2. Ran(i, old) /\ c.todo \subseteq due
      BY <1>9, <1>10, <2>10, <3>1 DEF PushOK
    <3>3. e0 \in c.todo
      BY <1>1, <2>1, <2>6, ForemostIn DEF Call, Entry
    <3>4. c.sha \in Commits /\ c.repo \in Repos /\ c.sha # 0
      BY <1>1, <2>10, TriggersAssumption DEF Call, CallOK
    <3>5. \A e \in old : e.file.path # e0.file.path
      <4>1. due \subseteq Entries(c.repo, c.sha)
        BY <1>9, <3>4 DEF DueOf
      <4> QED
        BY <1>1, <3>1, <3>2, <3>3, <3>4, <4>1, DiscoverIs DEF Entries
    <3>6. x.event = "push" /\ x.cause = i /\ x.repo \in Repos /\ x.path = e0.file.path
      BY <2>2, <2>5, <2>10, <3>4 DEF IsRun, At
    <3>7. Ran(i, old \cup {e0})'
      BY <1>1, <2>5, <3>2, <3>5, <3>6, ExactAdd DEF Ran
    <3>8. old \cup {e0} = due \ y.todo /\ y.todo \subseteq due
      BY <2>7, <3>1, <3>2, <3>3
    <3> QED
      BY <2>7, <2>8, <2>10, <3>7, <3>8 DEF PushOK
  <2> QED
    BY <2>6, <2>9, <2>10
<1>13. ASSUME NEW x \in Call, CallOK(x), Becomes(i, x), Kept(x, c), x.sha = c.sha,
              x.pc \in {"pulls", "done"}, UNCHANGED runs, c.kind = "push",
              c.pc = "pulls" \/ (c.pc = "files" /\ c.todo = {})
       PROVE  PushOK(i, calls[i])'
  <2>1. Ran(i, due)
    <3>1. c.todo = {} => DueOf(c) \ c.todo = DueOf(c)
      OBVIOUS
    <3> QED
      BY <1>9, <1>13, <3>1 DEF PushOK
  <2>2. Ran(i, due)'
    BY <1>7, <1>13, <2>1
  <2>3. calls'[i] = x /\ DueOf(x)' = due
    BY <1>2, <1>6, <1>9, <1>13, SameDue
  <2> QED
    BY <1>13, <2>2, <2>3 DEF PushOK
<1>11. CASE c.kind = "push" /\ FindPulls(i)
  <2> DEFINE prs == openPrsForBranch(c.repo, c.ref.name)
             y == [c EXCEPT !.pc = "pulls", !.prs = prs]
  <2>1. c.pc = "files" /\ c.todo = {} /\ UNCHANGED runs
    BY <1>11 DEF FindPulls, At
  <2>2. CASE Ends(i, "done")
    BY <1>13, <1>11, <2>1, <2>2, EndsOne
  <2>3. CASE calls' = [calls EXCEPT ![i].pc = "pulls", ![i].prs = prs]
    <3>1. Becomes(i, y)
      BY <1>1, <2>3 DEF Becomes
    <3>2. y \in Call /\ CallOK(y) /\ Kept(y, c) /\ y.sha = c.sha /\ y.pc = "pulls"
      BY <1>1, <1>11, <2>1 DEF Call, CallOK, openPrsForBranch, Kept
    <3> HIDE DEF y
    <3> QED
      BY <1>13, <1>11, <2>1, <3>1, <3>2
  <2> QED
    BY <1>11, <2>2, <2>3 DEF FindPulls
<1>12. CASE c.kind = "push" /\ NextPull(i)
  <2>1. c.pc = "pulls" /\ UNCHANGED runs /\ c.sha \in Commits /\ c.prs \subseteq DOMAIN Pulls
    BY <1>1, <1>12 DEF NextPull, At, Call, CallOK
  <2>2. CASE Ends(i, "done")
    BY <1>13, <1>12, <2>1, <2>2, EndsOne
  <2>3. ASSUME NEW p \in c.prs, ReadPull(i, p, c.sha)
        PROVE  PushOK(i, calls[i])'
    <3>1. \E x \in Call : CallOK(x) /\ Becomes(i, x) /\ Kept(x, c) /\ x.pc = "pulls" /\ x.sha = c.sha
      <4>1. PICK head \in Commits : head = c.sha
        BY <2>1
      <4>2. PICK q \in DOMAIN Pulls : ReadPull(i, q, head)
        BY <2>1, <2>3, <4>1
      <4>3. calls[i].kind = "pull" => calls[i].pr = q \/ calls[i].pc # "kicked"
        BY <1>12
      <4> DEFINE diff == <<ChangedSinceBase(Branch(Pulls[q].repo, Pulls[q].target), head)>>
      <4>4. PICK x \in Call, read \in Reads(Pulls[q].repo, head, diff) :
              CallOK(x) /\ Becomes(i, x) /\ Kept(x, calls[i]) /\ x.pc = "pulls" /\ x.sha = head
        BY <4>2, <4>3, ReadsPull
      <4> QED
        BY <4>1, <4>4
    <3> QED
      BY <1>13, <1>12, <2>1, <3>1
  <2> QED
    BY <1>12, <2>2, <2>3 DEF NextPull
<1> QED
  BY <1>5, <1>8, <1>10, <1>11, <1>12 DEF Handle, RejectPush, StartPull

\* What a step other than those of the clock may insert: a run of its own cause.
LEMMA HandleInserts ==
  ASSUME TypedInv, NEW i \in DOMAIN calls, Handle(i)
  PROVE  \/ UNCHANGED runs
         \/ \E x : Insert(x) /\ x.event \in {"push", "pull_request"} /\ x.cause = i
<1>1. CASE CreateOne(i)
  <2>1. PICK e0 : e0 = Foremost(calls[i].todo)
    OBVIOUS
  <2>2. PICK event : event = IF At(i, "files") THEN "push" ELSE "pull_request"
    OBVIOUS
  <2>3. PICK threw \in BOOLEAN :
          createRun(RunOf(e0, calls[i].repo, event, calls[i].sha, calls[i].pr, i), threw, "none")
    BY <1>1, <2>1, <2>2 DEF CreateOne
  <2>4. UNCHANGED runs \/ \E x : IsRun(x, e0, calls[i].repo, event, calls[i].sha, calls[i].pr, i) /\ Insert(x)
    BY <2>3, CreatesOne
  <2> QED
    BY <2>2, <2>4 DEF IsRun
<1>2. CASE ~CreateOne(i)
  BY <1>2 DEF Handle, RejectPush, StartPush, FindPulls, NextPull, StartPull
<1> QED
  BY <1>1, <1>2

LEMMA RequestInserts ==
  ASSUME \/ \E r \in Repos, f \in Refs : Dispatch(r, f)
         \/ \E run \in BagToSet(runs) : rerun(run)
  PROVE  UNCHANGED runs \/ \E x : Insert(x) /\ x.cause = 0
<1>1. ASSUME NEW r \in Repos, NEW f \in Refs, Dispatch(r, f)
      PROVE  UNCHANGED runs \/ \E x : Insert(x) /\ x.cause = 0
  <2>1. PICK e \in Entries(r, tip[r][f]), threw \in BOOLEAN :
          createRun(RunOf(e, r, "workflow_dispatch", tip[r][f], 0, 0), threw, "dispatch")
    BY <1>1 DEF Dispatch
  <2>2. UNCHANGED runs \/ \E x : IsRun(x, e, r, "workflow_dispatch", tip[r][f], 0, 0) /\ Insert(x)
    BY <2>1, CreatesOne, Zenon
  <2> QED
    BY <2>2 DEF IsRun
<1>2. ASSUME NEW run \in BagToSet(runs), rerun(run)
      PROVE  UNCHANGED runs \/ \E x : Insert(x) /\ x.cause = 0
  <2>1. PICK e \in Entries(run.repo, run.sha), threw \in BOOLEAN :
          createRun(RunOf(e, run.repo, run.event, run.sha, run.pr, 0), threw, "rerun")
    BY <1>2 DEF rerun
  <2>2. UNCHANGED runs \/ \E x : IsRun(x, e, run.repo, run.event, run.sha, run.pr, 0) /\ Insert(x)
    BY <2>1, CreatesOne, Zenon
  <2> QED
    BY <2>2 DEF IsRun
<1> QED
  BY <1>1, <1>2

LEMMA TickInserts ==
  ASSUME TypedInv, NEW t \in Ticks, Ticking(t)
  PROVE  UNCHANGED runs \/ \E x : Insert(x) /\ x.event = "schedule"
<1>1. CASE TickRun(t)
  BY <1>1, RunsOne DEF IsRun
<1>2. CASE ~TickRun(t)
  BY <1>2 DEF Ticking, Tick, TickHead, TickLoad, TickNext
<1> QED
  BY <1>1, <1>2

\* No push that has not happened yet has a run.
CausesInv == \A run \in BagToSet(runs) : run.event = "push" => run.cause \in 0 .. Len(calls)

LEMMA CausesStep ==
  ASSUME TypedInv, CausesInv, Len(calls') \in Nat, Len(calls) <= Len(calls'),
         \/ UNCHANGED runs
         \/ \E x : Insert(x) /\ (x.event = "push" => x.cause \in 0 .. Len(calls))
  PROVE  CausesInv'
<1>1. Len(calls) \in Nat
  BY DEF TypedInv, TypeOK
<1>2. CASE UNCHANGED runs
  BY <1>1, <1>2 DEF CausesInv
<1>3. ASSUME NEW x, Insert(x), x.event = "push" => x.cause \in 0 .. Len(calls)
      PROVE  CausesInv'
  <2>1. BagToSet(runs') = BagToSet(runs) \cup {x}
    BY <1>3, RunAdded, TypesAre DEF RunsTyped
  <2>2. \A run \in BagToSet(runs') : run.event = "push" => run.cause \in 0 .. Len(calls)
    BY <1>3, <2>1 DEF CausesInv
  <2> QED
    BY <1>1, <2>2 DEF CausesInv
<1> QED
  BY <1>2, <1>3

LEMMA PushStep ==
  ASSUME TypedInv, PushInv, [Next]_vars
  PROVE  PushInv'
<1>1. SUFFICES ASSUME Calm'
               PROVE  CausesInv' /\ \A i \in DOMAIN calls' : PushOK(i, calls[i])'
  BY DEF PushInv, CausesInv
<1>2. Calm /\ ~Spend("db") /\ ~Spend("git") /\ ~Spend("crash")
  <2>1. {"db", "git", "crash"} \in SUBSET Events
    BY DEF Events
  <2> QED
    BY <1>1, <2>1, CalmBefore DEF Calm, TypedInv
<1>3. CausesInv /\ (\A i \in DOMAIN calls : PushOK(i, calls[i])) /\ UNCHANGED scene /\ RunsTyped
  BY <1>2, StepSpends, TypesAre DEF PushInv, CausesInv
<1>4. Len(calls) \in Nat /\ DOMAIN calls = 1 .. Len(calls)
  BY DEF TypedInv, TypeOK
<1>5. ASSUME NEW i \in DOMAIN calls, calls'[i] = calls[i], NoneOf("push", i, Repos)
      PROVE  PushOK(i, calls[i])'
  <2>1. PICK c : c = calls[i]
    OBVIOUS
  <2>2. PushOK(i, c)'
    BY <1>3, <1>5, <2>1, PushSame
  <2> QED
    BY <1>5, <2>1, <2>2
<1>6. ASSUME UNCHANGED calls,
             UNCHANGED runs \/ \E x : Insert(x) /\ (x.cause = 0 \/ x.event = "schedule")
      PROVE  CausesInv' /\ \A i \in DOMAIN calls' : PushOK(i, calls[i])'
  <2>1. CausesInv'
    <3>1. \A n \in Nat : 0 \in 0 .. n
      OBVIOUS
    <3> QED
      BY <1>3, <1>4, <1>6, <3>1, CausesStep
  <2>2. \A i \in DOMAIN calls : NoneOf("push", i, Repos)
    BY <1>4, <1>6 DEF NoneOf
  <2> QED
    BY <1>5, <1>6, <2>1, <2>2
<1>7. ASSUME NEW x \in Call, CallOK(x), calls' = Append(calls, x), UNCHANGED runs, x.pc = "kicked"
      PROVE  CausesInv' /\ \A i \in DOMAIN calls' : PushOK(i, calls[i])'
  <2>1. PICK n : n = Len(calls) + 1
    OBVIOUS
  <2>2. /\ Len(calls') = n /\ DOMAIN calls' = DOMAIN calls \cup {n} /\ calls'[n] = x
        /\ \A j \in DOMAIN calls : calls'[j] = calls[j]
    BY <1>7, <2>1, NewCall
  <2>3. CausesInv'
    BY <1>3, <1>4, <1>7, <2>1, <2>2, CausesStep
  <2>4. \A i \in DOMAIN calls : PushOK(i, calls[i])'
    BY <1>5, <1>7, <2>2 DEF NoneOf
  <2>5. Ran(n, {})'
    <3>1. \A run \in BagToSet(runs) : ~(run.event = "push" /\ run.cause = n)
      BY <1>3, <1>4, <2>1 DEF CausesInv
    <3> QED
      BY <1>7, <3>1 DEF Ran, Exact, Of
  <2>6. PushOK(n, calls[n])'
    BY <1>7, <2>2, <2>5 DEF PushOK
  <2> QED
    BY <2>2, <2>3, <2>4, <2>6
<1>8. ASSUME NEW r \in Repos, NEW f \in Refs, NEW c \in Commits \cup {0}, Push(r, f, c)
      PROVE  CausesInv' /\ \A i \in DOMAIN calls' : PushOK(i, calls[i])'
  BY <1>7, <1>8, PushesOne
<1>9. ASSUME NEW p \in DOMAIN Pulls, OpenPull(p) \/ ReopenPull(p) \/ ClosePull(p)
      PROVE  CausesInv' /\ \A i \in DOMAIN calls' : PushOK(i, calls[i])'
  <2>1. CASE ClosePull(p)
    BY <1>6, <2>1 DEF ClosePull
  <2>2. CASE OpenPull(p) \/ ReopenPull(p)
    <3>1. PICK action \in {"opened", "reopened"} : kickActions(p, action)
      BY <2>2 DEF OpenPull, ReopenPull
    <3>2. PICK x \in Call : CallOK(x) /\ calls' = Append(calls, x) /\ x.pc = "kicked"
      BY <3>1, KicksOne
    <3>3. UNCHANGED runs
      BY <2>2 DEF OpenPull, ReopenPull
    <3> QED
      BY <1>7, <3>2, <3>3
  <2> QED
    BY <1>9, <2>1, <2>2
<1>10. ASSUME NEW j \in DOMAIN calls, Handle(j)
       PROVE  CausesInv' /\ \A i \in DOMAIN calls' : PushOK(i, calls[i])'
  <2>1. PICK x \in Call : CallOK(x) /\ Becomes(j, x)
    BY <1>10, HandleStep
  <2>2. /\ Len(calls') = Len(calls) /\ DOMAIN calls' = DOMAIN calls
        /\ \A i \in DOMAIN calls : i # j => calls'[i] = calls[i]
    BY <2>1, OneCall
  <2>3. UNCHANGED runs \/ \E y : Insert(y) /\ y.cause = j
    BY <1>10, HandleInserts
  <2>4. CausesInv'
    <3>1. j \in 0 .. Len(calls)
      BY <1>4
    <3> QED
      BY <1>3, <1>4, <2>2, <2>3, <3>1, CausesStep
  <2>5. \A i \in DOMAIN calls : i # j => NoneOf("push", i, Repos)
    BY <2>3 DEF NoneOf
  <2>6. \A i \in DOMAIN calls : i # j => PushOK(i, calls[i])'
    BY <1>5, <2>2, <2>5
  <2>7. PushOK(j, calls[j])'
    BY <1>2, <1>3, <1>10, PushGoes
  <2> QED
    BY <2>2, <2>4, <2>6, <2>7
<1>11. ASSUME \/ \E r \in Repos, f \in Refs : Dispatch(r, f)
              \/ \E run \in BagToSet(runs) : rerun(run)
       PROVE  CausesInv' /\ \A i \in DOMAIN calls' : PushOK(i, calls[i])'
  <2>1. UNCHANGED calls
    BY <1>11 DEF Dispatch, rerun
  <2> QED
    BY <1>6, <1>11, <2>1, RequestInserts
<1>12. CASE Minute \/ UNCHANGED vars
  <2>1. UNCHANGED calls /\ UNCHANGED runs
    BY <1>12 DEF Minute, vars
  <2> QED
    BY <1>6, <2>1
<1>13. ASSUME NEW t \in Ticks, Ticking(t)
       PROVE  CausesInv' /\ \A i \in DOMAIN calls' : PushOK(i, calls[i])'
  <2>1. UNCHANGED calls
    BY <1>13, TicksStep
  <2> QED
    BY <1>6, <1>13, <2>1, TickInserts
<1>14. ~Restart
  BY <1>2 DEF Restart
<1> QED
  BY <1>8, <1>9, <1>10, <1>11, <1>12, <1>13, <1>14, NextCases

LEMMA PushInit ==
  ASSUME Init
  PROVE  PushInv
<1>1. DOMAIN calls = {} /\ BagToSet(runs) = {}
  BY DEF Init, EmptyBag, SetToBag, BagToSet
<1> QED
  BY <1>1 DEF PushInv

\* How far each push has come, for any number of pushes, branches, tags and handlers at once.
THEOREM PushInvariant == Spec => [](TypedInv /\ PushInv)
<1>1. Spec => []TypedInv
  BY TypedInit, TypedStep, PTL DEF Spec
<1>2. Spec => []PushInv
  BY <1>1, PushInit, PushStep, PTL DEF Spec
<1> QED
  BY <1>1, <1>2, PTL

\* Without faults and restarts a push that has been handled has run each workflow whose filters
\* it passes once, and nothing else.
THEOREM PushesAreRun == Spec => []PushesRun
<1>1. ASSUME TypedInv, PushInv PROVE PushesRun
  <2>1. SUFFICES ASSUME Calm, NEW i \in DOMAIN calls, calls[i].kind = "push", At(i, "done")
                 PROVE  LET c == calls[i]
                            mine == {run \in BagToSet(runs) : run.event = "push" /\ run.cause = i}
                            found == IF c.sha = 0 THEN {} ELSE Entries(c.repo, c.sha)
                            due == {e \in found : \/ e.error
                                                  \/ /\ "push" \in DOMAIN e.file.on
                                                     /\ PushDue(e.file.on["push"], c.ref, Diff(c))}
                        IN /\ \A run \in mine : \E e \in due : run.path = e.file.path
                           /\ \A e \in due : Once({run \in mine : run.path = e.file.path})
    BY DEF PushesRun, Calm
  <2>2. Ran(i, DueOf(calls[i]))
    BY <1>1, <2>1 DEF PushInv, PushOK, At
  <2>3. Of("push", i, Repos) = {run \in BagToSet(runs) : run.event = "push" /\ run.cause = i}
    BY <1>1, TypesAre DEF Of, RunsTyped
  <2> QED
    BY <2>2, <2>3 DEF Ran, Exact, DueOf
<1> QED
  BY <1>1, PushInvariant, PTL

(* ------------------------------ schedules ---------------------------- *)

Steady == Unused({"git", "crash"})

\* The entries of a commit that are to run in a minute.
Scheduled(r, sha, minute) == cronTodo(scheduled(Entries(r, sha)), minute)

Fired(minute, r, due) == Exact("schedule", minute, {r}, due)

\* The cached schedules are those of the commit they are kept for.
CacheInv ==
  \A r \in Repos : scheduleCache[r] # <<>> =>
    scheduleCache[r][1].entries = scheduled(Entries(r, scheduleCache[r][1].sha))

\* No two ticks are for one minute, and nothing is there yet of a minute to come.
MinutesInv ==
  /\ \A t \in Ticks : ticks[t].pc # "idle" => ticks[t].minute \in 1 .. lastScheduleMinute
  /\ \A t, u \in Ticks : /\ t # u /\ ticks[t].pc # "idle" /\ ticks[u].pc # "idle"
                        => ticks[t].minute # ticks[u].minute
  /\ \A run \in BagToSet(runs) : run.event = "schedule" => run.cause \in 0 .. lastScheduleMinute
  /\ \A v \in visited : v.minute \in 1 .. lastScheduleMinute

\* A tick has not been to the repositories it still has to visit, except for the runs it has
\* created in the one it is at.
TickGood(k) ==
  k.pc # "idle" =>
    \A r \in k.repos :
      /\ \A v \in visited : ~(v.minute = k.minute /\ v.repo = r)
      /\ LET due == Scheduled(r, k.sha, k.minute)
         IN IF k.pc = "runs" /\ r = Min(k.repos)
            THEN k.todo \subseteq due /\ Fired(k.minute, r, due \ k.todo)
            ELSE Fired(k.minute, r, {})

VisitGood(v) == Fired(v.minute, v.repo, Scheduled(v.repo, v.sha, v.minute))

RunOnce(run) ==
  run.event = "schedule" /\ run.cause # 0 =>
    Once({y \in Of("schedule", run.cause, {run.repo}) : y.path = run.path})

ScheduleParts ==
  /\ CacheInv /\ MinutesInv
  /\ \A t \in Ticks : TickGood(ticks[t])
  /\ \A v \in visited : VisitGood(v)
  /\ \A run \in BagToSet(runs) : RunOnce(run)

ScheduleInv == Steady => ScheduleParts

LEMMA FiredSame ==
  ASSUME RunsTyped, NEW minute, NEW r, NEW due, NoneOf("schedule", minute, {r}), Fired(minute, r, due)
  PROVE  Fired(minute, r, due)'
BY ExactSame DEF Fired

LEMMA ScheduledSame ==
  ASSUME UNCHANGED scene, NEW r, NEW sha, NEW minute
  PROVE  /\ Entries(r, sha)' = Entries(r, sha)
         /\ Scheduled(r, sha, minute)' = Scheduled(r, sha, minute)
BY DEF Scheduled, Entries, discover, scheduled, cronTodo

LEMMA TickSame ==
  ASSUME RunsTyped, UNCHANGED scene, NEW k, TickGood(k),
         \A r \in k.repos : NoneOf("schedule", k.minute, {r}),
         \A v \in visited' : v \in visited \/ v.minute # k.minute
  PROVE  TickGood(k)'
<1> SUFFICES ASSUME k.pc # "idle", NEW r \in k.repos
             PROVE  /\ \A v \in visited' : ~(v.minute = k.minute /\ v.repo = r)
                    /\ IF k.pc = "runs" /\ r = Min(k.repos)
                       THEN /\ k.todo \subseteq Scheduled(r, k.sha, k.minute)'
                            /\ Fired(k.minute, r, Scheduled(r, k.sha, k.minute) \ k.todo)'
                       ELSE Fired(k.minute, r, {})'
  BY DEF TickGood
<1>1. \A v \in visited' : ~(v.minute = k.minute /\ v.repo = r)
  BY DEF TickGood
<1>2. PICK due : due = Scheduled(r, k.sha, k.minute)
  OBVIOUS
<1>3. Scheduled(r, k.sha, k.minute)' = due
  BY <1>2, ScheduledSame
<1>4. \A d : Fired(k.minute, r, d) => Fired(k.minute, r, d)'
  BY FiredSame
<1>5. CASE k.pc = "runs" /\ r = Min(k.repos)
  <2>1. k.todo \subseteq due /\ Fired(k.minute, r, due \ k.todo)
    BY <1>2, <1>5 DEF TickGood
  <2> QED
    BY <1>1, <1>3, <1>4, <1>5, <2>1
<1>6. CASE ~(k.pc = "runs" /\ r = Min(k.repos))
  <2>1. Fired(k.minute, r, {})
    BY <1>6 DEF TickGood
  <2> QED
    BY <1>1, <1>4, <1>6, <2>1
<1> QED
  BY <1>5, <1>6

LEMMA VisitSame ==
  ASSUME RunsTyped, UNCHANGED scene, NEW v, VisitGood(v), NoneOf("schedule", v.minute, {v.repo})
  PROVE  VisitGood(v)'
<1>1. PICK due : due = Scheduled(v.repo, v.sha, v.minute)
  OBVIOUS
<1>2. Scheduled(v.repo, v.sha, v.minute)' = due
  BY <1>1, ScheduledSame
<1>3. Fired(v.minute, v.repo, due)'
  BY <1>1, FiredSame DEF VisitGood
<1> QED
  BY <1>2, <1>3 DEF VisitGood

LEMMA RunSame ==
  ASSUME RunsTyped, NEW run, RunOnce(run),
         run.event = "schedule" /\ run.cause # 0 => NoneOf("schedule", run.cause, {run.repo})
  PROVE  RunOnce(run)'
<1> SUFFICES ASSUME run.event = "schedule", run.cause # 0
             PROVE  Once({y \in Of("schedule", run.cause, {run.repo}) : y.path = run.path})'
  BY DEF RunOnce
<1>1. Once({y \in Of("schedule", run.cause, {run.repo}) : y.path = run.path})
  BY DEF RunOnce
<1>2. Of("schedule", run.cause, {run.repo})' = Of("schedule", run.cause, {run.repo})
  BY OfSame
<1>3. \A y \in Of("schedule", run.cause, {run.repo}) : runs'[y] = runs[y]
  BY OfSame
<1> QED
  BY <1>1, <1>2, <1>3 DEF Once

\* A step outside the clock.
LEMMA QuietStep ==
  ASSUME TypedInv, ScheduleParts, UNCHANGED <<scene, ticks, lastScheduleMinute, visited>>,
         \/ UNCHANGED runs
         \/ \E x : Insert(x) /\ (x.event # "schedule" \/ x.cause = 0),
         \/ UNCHANGED scheduleCache
         \/ \E r \in Repos : scheduleCache' = [scheduleCache EXCEPT ![r] = <<>>]
  PROVE  ScheduleParts'
<1>1. RunsTyped /\ lastScheduleMinute \in Nat
  <2>1. lastScheduleMinute \in 0 .. now
    BY DEF TypedInv, TypeOK
  <2> QED
    BY <2>1, TypesAre
<1>2. \A minute, repos : minute # 0 => NoneOf("schedule", minute, repos)
  BY DEF NoneOf
<1>3. CacheInv'
  <2>1. \A r \in Repos : scheduleCache'[r] # <<>> => scheduleCache'[r] = scheduleCache[r]
    BY DEF TypedInv, TypeOK
  <2>2. \A r, sha : scheduled(Entries(r, sha))' = scheduled(Entries(r, sha))
    BY DEF scheduled, Entries, discover
  <2>3. SUFFICES ASSUME NEW r \in Repos, scheduleCache'[r] # <<>>
                 PROVE  scheduleCache'[r][1].entries = scheduled(Entries(r, scheduleCache[r][1].sha))'
    BY DEF CacheInv
  <2>4. PICK cached : cached = scheduleCache[r][1]
    OBVIOUS
  <2>5. scheduleCache'[r][1] = cached /\ cached.entries = scheduled(Entries(r, cached.sha))
    BY <2>1, <2>3, <2>4 DEF ScheduleParts, CacheInv
  <2> QED
    BY <2>2, <2>5
<1>4. MinutesInv'
  <2>1. CASE UNCHANGED runs
    BY <2>1 DEF ScheduleParts, MinutesInv
  <2>2. ASSUME NEW x, Insert(x), x.event # "schedule" \/ x.cause = 0
        PROVE  MinutesInv'
    <3>1. BagToSet(runs') = BagToSet(runs) \cup {x} /\ 0 \in 0 .. lastScheduleMinute
      BY <1>1, <2>2, RunAdded DEF RunsTyped
    <3>2. \A run \in BagToSet(runs') : run.event = "schedule" => run.cause \in 0 .. lastScheduleMinute
      BY <2>2, <3>1 DEF ScheduleParts, MinutesInv
    <3> QED
      BY <3>2 DEF ScheduleParts, MinutesInv
  <2> QED
    BY <2>1, <2>2
<1>5. ASSUME NEW t \in Ticks PROVE TickGood(ticks[t])'
  <2>1. PICK k : k = ticks[t]
    OBVIOUS
  <2>2. TickGood(k)'
    <3>1. CASE k.pc = "idle"
      BY <3>1 DEF TickGood
    <3>2. CASE k.pc # "idle"
      <4>1. k.minute # 0 /\ TickGood(k)
        BY <2>1, <3>2 DEF ScheduleParts, MinutesInv
      <4> QED
        BY <1>1, <1>2, <4>1, TickSame
    <3> QED
      BY <3>1, <3>2
  <2> QED
    BY <2>1, <2>2
<1>6. ASSUME NEW v \in visited PROVE VisitGood(v)'
  <2>1. v.minute # 0 /\ VisitGood(v)
    BY <1>1 DEF ScheduleParts, MinutesInv
  <2> QED
    BY <1>1, <1>2, <2>1, VisitSame
<1>7. ASSUME NEW run \in BagToSet(runs') PROVE RunOnce(run)'
  <2>1. run \in BagToSet(runs) \/ run.event # "schedule" \/ run.cause = 0
    BY <1>1, RunAdded DEF RunsTyped
  <2>2. CASE run.event # "schedule" \/ run.cause = 0
    BY <2>2 DEF RunOnce
  <2>3. CASE run \in BagToSet(runs)
    BY <1>1, <1>2, <2>3, RunSame DEF ScheduleParts
  <2> QED
    BY <2>1, <2>2, <2>3
<1> QED
  BY <1>3, <1>4, <1>5, <1>6, <1>7 DEF ScheduleParts

\* A step of a tick that creates no run.
LEMMA TickMoves ==
  ASSUME TypedInv, ScheduleParts, UNCHANGED <<scene, lastScheduleMinute, runs>>,
         NEW t \in Ticks, ticks[t].pc # "idle",
         NEW x, TickBecomes(t, x), x.pc # "idle" => x.minute = ticks[t].minute,
         visited \subseteq visited', \A v \in visited' : v \in visited \/ v.minute = ticks[t].minute,
         TickGood(x)', CacheInv', \A v \in visited' : v \in visited \/ VisitGood(v)'
  PROVE  ScheduleParts'
<1>1. RunsTyped /\ ticks \in [Ticks -> ScheduleTick]
  BY TypesAre
<1>2. ticks'[t] = x /\ \A u \in Ticks : u # t => ticks'[u] = ticks[u]
  BY <1>1 DEF TickBecomes
<1>3. \A minute, repos : NoneOf("schedule", minute, repos)
  BY DEF NoneOf
<1>4. ticks[t].minute \in 1 .. lastScheduleMinute
  BY DEF ScheduleParts, MinutesInv
<1>5. MinutesInv'
  <2>1. \A u \in Ticks : ticks'[u].pc # "idle" => ticks[u].pc # "idle" /\ ticks'[u].minute = ticks[u].minute
    BY <1>2
  <2>2. \A v \in visited' : v.minute \in 1 .. lastScheduleMinute
    BY <1>4 DEF ScheduleParts, MinutesInv
  <2> QED
    BY <2>1, <2>2 DEF ScheduleParts, MinutesInv
<1>6. ASSUME NEW u \in Ticks PROVE TickGood(ticks[u])'
  <2>1. CASE u = t
    BY <1>2, <2>1
  <2>2. CASE u # t
    <3>1. PICK k : k = ticks[u]
      OBVIOUS
    <3>2. TickGood(k) /\ ticks'[u] = k
      BY <1>2, <2>2, <3>1 DEF ScheduleParts
    <3>3. CASE k.pc = "idle"
      BY <3>2, <3>3 DEF TickGood
    <3>4. CASE k.pc # "idle"
      <4>1. k.minute # ticks[t].minute
        BY <2>2, <3>1, <3>4 DEF ScheduleParts, MinutesInv
      <4>2. TickGood(k)'
        BY <1>1, <1>3, <3>2, <4>1, TickSame
      <4> QED
        BY <3>2, <4>2
    <3> QED
      BY <3>3, <3>4
  <2> QED
    BY <2>1, <2>2
<1>7. \A v \in visited' : VisitGood(v)'
  BY <1>1, <1>3, VisitSame DEF ScheduleParts
<1>8. \A run \in BagToSet(runs') : RunOnce(run)'
  BY <1>1, <1>3, RunSame DEF ScheduleParts
<1> QED
  BY <1>5, <1>6, <1>7, <1>8 DEF ScheduleParts

\* The repositories that are left after one are as good as before.
LEMMA RestGood ==
  ASSUME TypedInv, UNCHANGED scene, UNCHANGED runs, NEW k, k.pc # "idle", TickGood(k),
         NEW x, x = Visiting(k.minute, k.repos \ {Min(k.repos)}),
         \A v \in visited' : v \in visited \/ v.repo = Min(k.repos)
  PROVE  TickGood(x)' /\ (x.pc # "idle" => x.minute = k.minute)
<1>1. CASE x.pc = "idle"
  BY <1>1 DEF TickGood
<1>2. CASE x.pc # "idle"
  <2>1. x.pc = "head" /\ x.minute = k.minute /\ x.repos = k.repos \ {Min(k.repos)}
    BY <1>2 DEF Visiting, Idle
  <2>2. ASSUME NEW r \in x.repos
        PROVE  (\A v \in visited' : ~(v.minute = x.minute /\ v.repo = r)) /\ Fired(x.minute, r, {})'
    <3>1. r \in k.repos /\ r # Min(k.repos)
      BY <2>1
    <3>2. (\A v \in visited : ~(v.minute = k.minute /\ v.repo = r)) /\ Fired(k.minute, r, {})
      BY <3>1 DEF TickGood
    <3>3. RunsTyped /\ NoneOf("schedule", k.minute, {r})
      BY TypesAre DEF NoneOf
    <3>4. Fired(k.minute, r, {})'
      BY <3>2, <3>3, FiredSame
    <3> QED
      BY <2>1, <3>1, <3>2, <3>4
  <2> QED
    BY <2>1, <2>2 DEF TickGood
<1> QED
  BY <1>1, <1>2

LEMMA CacheSame ==
  ASSUME UNCHANGED scene, UNCHANGED scheduleCache, CacheInv
  PROVE  CacheInv'
<1>1. \A r, sha : scheduled(Entries(r, sha))' = scheduled(Entries(r, sha))
  BY DEF scheduled, Entries, discover
<1>2. SUFFICES ASSUME NEW r \in Repos, scheduleCache[r] # <<>>
               PROVE  scheduleCache[r][1].entries = scheduled(Entries(r, scheduleCache[r][1].sha))'
  BY DEF CacheInv
<1>3. PICK cached : cached = scheduleCache[r][1]
  OBVIOUS
<1>4. cached.entries = scheduled(Entries(r, cached.sha))
  BY <1>2, <1>3 DEF CacheInv
<1> QED
  BY <1>1, <1>3, <1>4

LEMMA TickHeadStep ==
  ASSUME TypedInv, ScheduleParts, NEW t \in Ticks, TickHead(t), ~Spend("git")
  PROVE  ScheduleParts'
<1>1. PICK k : k = ticks[t]
  OBVIOUS
<1>2. k.pc = "head" /\ TickGood(k)
  BY <1>1 DEF TickHead, ScheduleParts
<1>3. UNCHANGED <<scene, lastScheduleMinute, runs, visited, scheduleCache>>
  BY DEF TickHead, git
<1>4. PICK r \in Repos : r = Min(k.repos)
  BY <1>1, HeadsOne DEF AtRepo
<1>5. CacheInv'
  BY <1>3, CacheSame DEF ScheduleParts
<1>6. PICK x \in ScheduleTick :
              /\ TickOK(x) /\ TickBecomes(t, x)
              /\ \/ x = Visiting(k.minute, k.repos \ {r})
                 \/ /\ x.minute = k.minute /\ x.repos = k.repos /\ x.sha \in Commits
                    /\ \/ x.pc = "load"
                       \/ /\ x.pc = "runs"
                          /\ Fresh(scheduleCache[r], x.sha)
                          /\ x.todo = cronTodo(scheduleCache[r][1].entries, k.minute)
  BY <1>1, <1>4, HeadsOne DEF AtRepo
<1>7. CASE x = Visiting(k.minute, k.repos \ {r})
  <2>1. TickGood(x)' /\ (x.pc # "idle" => x.minute = k.minute)
    BY <1>2, <1>3, <1>4, <1>7, RestGood
  <2> QED
    BY <1>1, <1>2, <1>3, <1>5, <1>6, <2>1, TickMoves
<1>8. CASE /\ x.minute = k.minute /\ x.repos = k.repos
           /\ \/ x.pc = "load"
              \/ /\ x.pc = "runs"
                 /\ Fresh(scheduleCache[r], x.sha)
                 /\ x.todo = cronTodo(scheduleCache[r][1].entries, k.minute)
  <2>1. x.pc = "runs" => x.todo = Scheduled(r, x.sha, x.minute)
    <3>1. CacheInv
      BY DEF ScheduleParts
    <3> QED
      BY <1>4, <1>8, <3>1 DEF CacheInv, Fresh, Scheduled
  <2>2. TickGood(x)
    <3> SUFFICES ASSUME NEW q \in x.repos
                 PROVE  /\ \A v \in visited : ~(v.minute = x.minute /\ v.repo = q)
                        /\ LET due == Scheduled(q, x.sha, x.minute)
                           IN IF x.pc = "runs" /\ q = Min(x.repos)
                              THEN x.todo \subseteq due /\ Fired(x.minute, q, due \ x.todo)
                              ELSE Fired(x.minute, q, {})
      BY DEF TickGood
    <3>1. /\ \A v \in visited : ~(v.minute = x.minute /\ v.repo = q)
          /\ Fired(x.minute, q, {})
      BY <1>2, <1>8 DEF TickGood
    <3>2. x.pc = "runs" /\ q = Min(x.repos) => x.todo = Scheduled(q, x.sha, x.minute)
      BY <1>4, <1>8, <2>1
    <3>3. x.todo \ x.todo = {}
      OBVIOUS
    <3> QED
      BY <3>1, <3>2, <3>3
  <2>3. TickGood(x)'
    BY <1>3, <2>2, TypesAre, TickSame DEF NoneOf
  <2> QED
    BY <1>1, <1>2, <1>3, <1>5, <1>6, <1>8, <2>3, TickMoves
<1> QED
  BY <1>6, <1>7, <1>8

\* A tick for a minute nothing has been done for.
LEMMA TickStartStep ==
  ASSUME TypedInv, ScheduleParts, NEW t \in Ticks, Tick(t)
  PROVE  ScheduleParts'
<1>1. PICK m : m = now
  OBVIOUS
<1>2. /\ UNCHANGED <<scene, runs, visited, scheduleCache>> /\ lastScheduleMinute' = m
      /\ ticks[t].pc = "idle"
      /\ UNCHANGED ticks \/ TickBecomes(t, Visiting(m, Repos))
  BY <1>1 DEF Tick, git, TickBecomes
<1>3. m \in Nat \ {0} /\ lastScheduleMinute \in 0 .. m /\ lastScheduleMinute # m
  BY <1>1 DEF TypedInv, TypeOK, Tick
<1>4. RunsTyped /\ ticks \in [Ticks -> ScheduleTick] /\ \A minute, repos : NoneOf("schedule", minute, repos)
  BY <1>2, TypesAre DEF NoneOf
<1>5. PICK x : /\ x.pc = "idle" \/ (x.pc = "head" /\ x.minute = m)
               /\ ticks'[t] = x /\ \A u \in Ticks : u # t => ticks'[u] = ticks[u]
  <2>1. CASE UNCHANGED ticks
    BY <1>2, <2>1
  <2>2. CASE TickBecomes(t, Visiting(m, Repos))
    <3>1. Visiting(m, Repos).pc = "idle" \/ (Visiting(m, Repos).pc = "head" /\ Visiting(m, Repos).minute = m)
      BY DEF Visiting, Idle
    <3> QED
      BY <1>4, <2>2, <3>1 DEF TickBecomes
  <2> QED
    BY <1>2, <2>1, <2>2
<1>6. MinutesInv'
  <2>1. \A k : k \in 1 .. lastScheduleMinute => k \in 1 .. m /\ k # m
    BY <1>3
  <2>2. \A k : k \in 0 .. lastScheduleMinute => k \in 0 .. m
    BY <1>3
  <2>3. m \in 1 .. m
    BY <1>3
  <2>4. \A u \in Ticks : ticks'[u].pc # "idle" => ticks'[u].minute \in 1 .. m
    BY <1>5, <2>1, <2>3 DEF ScheduleParts, MinutesInv
  <2>5. \A u \in Ticks : u # t /\ ticks[u].pc # "idle" => ticks[u].minute # m
    BY <2>1 DEF ScheduleParts, MinutesInv
  <2>6. \A u, w \in Ticks : /\ u # w /\ ticks'[u].pc # "idle" /\ ticks'[w].pc # "idle"
                           => ticks'[u].minute # ticks'[w].minute
    BY <1>5, <2>5 DEF ScheduleParts, MinutesInv
  <2>7. \A run \in BagToSet(runs) : run.event = "schedule" => run.cause \in 0 .. m
    BY <2>2 DEF ScheduleParts, MinutesInv
  <2>8. \A v \in visited : v.minute \in 1 .. m
    BY <2>1 DEF ScheduleParts, MinutesInv
  <2> QED
    BY <1>2, <2>4, <2>6, <2>7, <2>8 DEF MinutesInv
<1>7. TickGood(x)'
  <2>1. CASE x.pc = "idle"
    BY <2>1 DEF TickGood
  <2>2. CASE x.pc = "head" /\ x.minute = m
    <3>1. \A v \in visited' : v.minute # m
      BY <1>2, <1>3 DEF ScheduleParts, MinutesInv
    <3>2. ASSUME NEW r PROVE Fired(m, r, {})'
      <4>1. \A run \in BagToSet(runs) : run.event = "schedule" => run.cause # m
        BY <1>3 DEF ScheduleParts, MinutesInv
      <4> QED
        BY <1>2, <4>1 DEF Fired, Exact, Of
    <3> QED
      BY <2>2, <3>1, <3>2 DEF TickGood
  <2> QED
    BY <1>5, <2>1, <2>2
<1>8. ASSUME NEW u \in Ticks PROVE TickGood(ticks[u])'
  <2>1. CASE u = t
    BY <1>5, <1>7, <2>1
  <2>2. CASE u # t
    <3>1. PICK k : k = ticks[u]
      OBVIOUS
    <3>2. TickGood(k) /\ ticks'[u] = k
      BY <1>5, <2>2, <3>1 DEF ScheduleParts
    <3>3. TickGood(k)'
      BY <1>2, <1>4, <3>2, TickSame
    <3> QED
      BY <3>2, <3>3
  <2> QED
    BY <2>1, <2>2
<1>9. CacheInv'
  BY <1>2, CacheSame DEF ScheduleParts
<1>10. \A v \in visited' : VisitGood(v)'
  BY <1>2, <1>4, VisitSame DEF ScheduleParts
<1>11. \A run \in BagToSet(runs') : RunOnce(run)'
  BY <1>2, <1>4, RunSame DEF ScheduleParts
<1> QED
  BY <1>6, <1>8, <1>9, <1>10, <1>11 DEF ScheduleParts

LEMMA TickLoadStep ==
  ASSUME TypedInv, ScheduleParts, NEW t \in Ticks, TickLoad(t), ~Spend("git")
  PROVE  ScheduleParts'
<1>1. PICK k : k = ticks[t]
  OBVIOUS
<1>2. k.pc = "load" /\ TickGood(k) /\ k \in ScheduleTick /\ k.sha \in Commits
  BY <1>1, TypesAre, LoadsOne DEF TickLoad, ScheduleParts
<1>3. UNCHANGED <<scene, lastScheduleMinute, runs, visited>> /\ scene \in Scenes
  BY TypesAre DEF TickLoad, git
<1>4. PICK r \in Repos : r = Min(k.repos)
  BY <1>1, LoadsOne DEF AtRepo
<1>5. PICK read \in Reads(r, k.sha, <<>>), x \in ScheduleTick :
        /\ Pays(read.fault)
        /\ scheduleCache' = [scheduleCache EXCEPT ![r] =
                               <<[sha |-> k.sha, entries |-> scheduled(read.found)]>>]
        /\ TickBecomes(t, x)
        /\ x.pc = "runs" /\ x.minute = k.minute /\ x.repos = k.repos /\ x.sha = k.sha
        /\ x.todo = cronTodo(scheduled(read.found), k.minute)
  BY <1>1, <1>4, LoadsOne DEF AtRepo
<1>6. read.found = Entries(r, k.sha)
  BY <1>2, <1>3, <1>5, ReadsAre, Paying
<1>7. CacheInv'
  <2>1. ASSUME NEW q \in Repos, scheduleCache'[q] # <<>>
        PROVE  scheduleCache'[q][1].entries = scheduled(Entries(q, scheduleCache'[q][1].sha))
    <3>1. scheduleCache \in [Repos -> Seq([sha : Commits, entries : SUBSET Entry])]
      BY TypesAre DEF CacheTyped
    <3>2. CASE q = r
      <4>1. scheduleCache'[q] = <<[sha |-> k.sha, entries |-> scheduled(read.found)]>>
        BY <1>5, <3>1, <3>2
      <4> QED
        BY <1>6, <3>2, <4>1
    <3>3. CASE q # r
      <4>1. scheduleCache'[q] = scheduleCache[q]
        BY <1>5, <3>1, <3>3
      <4> QED
        BY <2>1, <4>1 DEF ScheduleParts, CacheInv
    <3> QED
      BY <3>2, <3>3
  <2>2. \A q, sha : scheduled(Entries(q, sha))' = scheduled(Entries(q, sha))
    BY <1>3 DEF scheduled, Entries, discover
  <2>3. SUFFICES ASSUME NEW q \in Repos, scheduleCache'[q] # <<>>
                 PROVE  scheduleCache'[q][1].entries = scheduled(Entries(q, scheduleCache[q][1].sha))'
    BY DEF CacheInv
  <2>4. PICK cached : cached = scheduleCache'[q][1]
    OBVIOUS
  <2>5. cached.entries = scheduled(Entries(q, cached.sha))
    BY <2>1, <2>3, <2>4
  <2> QED
    BY <2>2, <2>4, <2>5
<1>8. TickGood(x)
  <2> SUFFICES ASSUME NEW q \in x.repos
               PROVE  /\ \A v \in visited : ~(v.minute = x.minute /\ v.repo = q)
                      /\ LET due == Scheduled(q, x.sha, x.minute)
                         IN IF x.pc = "runs" /\ q = Min(x.repos)
                            THEN x.todo \subseteq due /\ Fired(x.minute, q, due \ x.todo)
                            ELSE Fired(x.minute, q, {})
    BY DEF TickGood
  <2>1. /\ \A v \in visited : ~(v.minute = x.minute /\ v.repo = q)
        /\ Fired(x.minute, q, {})
    BY <1>2, <1>5 DEF TickGood
  <2>2. q = Min(x.repos) => x.todo = Scheduled(q, x.sha, x.minute)
    BY <1>4, <1>5, <1>6 DEF Scheduled
  <2>3. x.todo \ x.todo = {}
    OBVIOUS
  <2> QED
    BY <2>1, <2>2, <2>3
<1>9. TickGood(x)'
  BY <1>3, <1>8, TypesAre, TickSame DEF NoneOf
<1> QED
  BY <1>1, <1>2, <1>3, <1>5, <1>7, <1>9, TickMoves

LEMMA TickNextStep ==
  ASSUME TypedInv, ScheduleParts, NEW t \in Ticks, TickNext(t)
  PROVE  ScheduleParts'
<1>1. PICK k : k = ticks[t]
  OBVIOUS
<1>2. k.pc = "runs" /\ k.todo = {} /\ TickGood(k) /\ k.repos # {}
  BY <1>1, TypesAre DEF TickNext, ScheduleParts, TickOK
<1>3. PICK r : r = Min(k.repos) /\ r \in k.repos
  BY <1>1, <1>2, AtRepoIn DEF AtRepo
<1>4. PICK v0 : v0 = [minute |-> k.minute, repo |-> r, sha |-> k.sha]
  OBVIOUS
<1>5. UNCHANGED <<scene, lastScheduleMinute, runs, scheduleCache>> /\ visited' = visited \cup {v0}
  BY <1>1, <1>3, <1>4 DEF TickNext, git, AtRepo
<1>6. PICK x : TickBecomes(t, x) /\ x = Visiting(k.minute, k.repos \ {r})
  BY <1>1, <1>3, NextRepoTyped DEF TickNext, AtRepo
<1>7. TickGood(x)' /\ (x.pc # "idle" => x.minute = k.minute)
  BY <1>2, <1>3, <1>4, <1>5, <1>6, RestGood
<1>8. VisitGood(v0)
  <2>1. Fired(k.minute, r, Scheduled(r, k.sha, k.minute) \ k.todo)
    BY <1>2, <1>3 DEF TickGood
  <2>2. Scheduled(r, k.sha, k.minute) \ k.todo = Scheduled(r, k.sha, k.minute)
    BY <1>2
  <2> QED
    BY <1>4, <2>1, <2>2 DEF VisitGood
<1>9. VisitGood(v0)'
  BY <1>5, <1>8, TypesAre, VisitSame DEF NoneOf
<1>10. CacheInv'
  BY <1>5, CacheSame DEF ScheduleParts
<1>11. \A v \in visited' : v \in visited \/ (v.minute = ticks[t].minute /\ VisitGood(v)')
  BY <1>1, <1>4, <1>5, <1>9
<1> QED
  BY <1>1, <1>2, <1>5, <1>6, <1>7, <1>10, <1>11, TickMoves

LEMMA TickRunStep ==
  ASSUME TypedInv, ScheduleParts, NEW t \in Ticks, TickRun(t)
  PROVE  ScheduleParts'
<1>1. PICK k, r, e : k = ticks[t] /\ r = Min(k.repos) /\ e = Foremost(k.todo)
  OBVIOUS
<1> DEFINE Creates(y) == IsRun(y, e, r, "schedule", k.sha, 0, k.minute) /\ Insert(y)
<1>2. /\ k.pc = "runs" /\ e \in k.todo /\ r \in Repos /\ r \in k.repos /\ k.sha \in Commits
      /\ \/ TickBecomes(t, Idle) /\ (UNCHANGED runs \/ \E y : Creates(y))
         \/ /\ \E y : Creates(y)
            /\ \E x \in ScheduleTick : /\ TickBecomes(t, x)
                                       /\ x.pc = "runs" /\ x.minute = k.minute /\ x.repos = k.repos
                                       /\ x.sha = k.sha /\ x.todo = k.todo \ {e}
  BY <1>1, RunsOne DEF AtRepo
<1>3. UNCHANGED <<scene, lastScheduleMinute, visited, scheduleCache>>
  BY DEF TickRun, git
<1>4. CacheInv' /\ RunsTyped /\ ticks \in [Ticks -> ScheduleTick] /\ scene \in Scenes
  BY <1>3, CacheSame, TypesAre DEF ScheduleParts
<1>5. TickGood(k)
  BY <1>1 DEF ScheduleParts
<1>6. CASE UNCHANGED runs /\ TickBecomes(t, Idle)
  <2>1. Idle.pc = "idle" /\ TickGood(Idle)'
    BY DEF Idle, TickGood
  <2> QED
    BY <1>1, <1>2, <1>3, <1>4, <1>6, <2>1, TickMoves
<1>7. ASSUME NEW y, Creates(y), NEW x, TickBecomes(t, x),
             \/ x.pc = "idle"
             \/ /\ x.pc = "runs" /\ x.minute = k.minute /\ x.repos = k.repos
                /\ x.sha = k.sha /\ x.todo = k.todo \ {e}
      PROVE  ScheduleParts'
  <2>1. /\ Insert(y) /\ y.event = "schedule" /\ y.cause = k.minute /\ y.repo = r
        /\ y.path = e.file.path
    BY <1>7 DEF IsRun
  <2>2. /\ ticks'[t] = x /\ \A u \in Ticks : u # t => ticks'[u] = ticks[u]
    BY <1>4, <1>7 DEF TickBecomes
  <2>3. BagToSet(runs') = BagToSet(runs) \cup {y}
    BY <1>4, <2>1, RunAdded DEF RunsTyped
  <2>4. k.minute \in 1 .. lastScheduleMinute
    BY <1>1, <1>2 DEF ScheduleParts, MinutesInv
  <2>5. \A minute, q : minute # k.minute \/ q # r => NoneOf("schedule", minute, {q})
    BY <2>1 DEF NoneOf
  <2>6. PICK due : due = Scheduled(r, k.sha, k.minute)
    OBVIOUS
  <2>7. k.todo \subseteq due /\ Fired(k.minute, r, due \ k.todo)
    BY <1>1, <1>2, <1>5, <2>6 DEF TickGood
  <2>8. \A d \in due \ k.todo : d.file.path # e.file.path
    <3>1. due \subseteq Entries(r, k.sha)
      BY <2>6 DEF Scheduled, cronTodo, scheduled
    <3>2. \A c, d \in Entries(r, k.sha) : c.file.path = d.file.path => c = d
      BY <1>2, <1>4, DiscoverIs DEF Entries
    <3> QED
      BY <1>2, <2>7, <3>1, <3>2
  <2>9. Fired(k.minute, r, (due \ k.todo) \cup {e})'
    <3>1. y.repo \in {r}
      BY <2>1
    <3> QED
      BY <1>4, <2>1, <2>7, <2>8, <3>1, ExactAdd DEF Fired
  <2>10. TickGood(x)'
    <3>1. CASE x.pc = "idle"
      BY <3>1 DEF TickGood
    <3>2. CASE x.pc # "idle"
      <4>1. Scheduled(r, k.sha, k.minute)' = due
        BY <1>3, <2>6, ScheduledSame
      <4>2. (due \ k.todo) \cup {e} = due \ (k.todo \ {e}) /\ k.todo \ {e} \subseteq due
        BY <1>2, <2>7
      <4>3. Fired(k.minute, r, due \ (k.todo \ {e}))'
        <5>1. PICK some : some = (due \ k.todo) \cup {e}
          OBVIOUS
        <5>2. some = due \ (k.todo \ {e})
          BY <4>2, <5>1
        <5>3. Fired(k.minute, r, some)'
          BY <2>9, <5>1
        <5> QED
          BY <5>2, <5>3
      <4>4. \A q \in k.repos : q # r => Fired(k.minute, q, {})'
        BY <1>1, <1>4, <1>5, <1>2, <2>5, FiredSame DEF TickGood
      <4>5. \A q \in k.repos, v \in visited' : ~(v.minute = k.minute /\ v.repo = q)
        BY <1>2, <1>3, <1>5 DEF TickGood
      <4>6. x.pc = "runs" /\ x.minute = k.minute /\ x.repos = k.repos /\ x.sha = k.sha /\ x.todo = k.todo \ {e}
        BY <1>7, <3>2
      <4>7. SUFFICES ASSUME NEW q \in k.repos
                     PROVE  /\ \A v \in visited' : ~(v.minute = k.minute /\ v.repo = q)
                            /\ IF q = r
                               THEN /\ x.todo \subseteq Scheduled(q, k.sha, k.minute)'
                                    /\ Fired(k.minute, q, Scheduled(q, k.sha, k.minute) \ x.todo)'
                               ELSE Fired(k.minute, q, {})'
        BY <1>1, <4>6 DEF TickGood
      <4>8. CASE q = r
        BY <4>1, <4>2, <4>3, <4>5, <4>6, <4>8
      <4>9. CASE q # r
        BY <4>4, <4>5, <4>9
      <4> QED
        BY <4>8, <4>9
    <3> QED
      BY <3>1, <3>2
  <2>11. ASSUME NEW u \in Ticks PROVE TickGood(ticks[u])'
    <3>1. CASE u = t
      BY <2>2, <2>10, <3>1
    <3>2. CASE u # t
      <4>1. PICK j : j = ticks[u]
        OBVIOUS
      <4>2. TickGood(j) /\ ticks'[u] = j
        BY <2>2, <3>2, <4>1 DEF ScheduleParts
      <4>3. CASE j.pc = "idle"
        BY <4>2, <4>3 DEF TickGood
      <4>4. CASE j.pc # "idle"
        <5>1. j.minute # k.minute
          BY <1>1, <1>2, <3>2, <4>1, <4>4 DEF ScheduleParts, MinutesInv
        <5>2. TickGood(j)'
          BY <1>3, <1>4, <2>5, <4>2, <5>1, TickSame
        <5> QED
          BY <4>2, <5>2
      <4> QED
        BY <4>3, <4>4
    <3> QED
      BY <3>1, <3>2
  <2>12. ASSUME NEW v \in visited' PROVE VisitGood(v)'
    <3>1. v \in visited
      BY <1>3
    <3>2. v.minute # k.minute \/ v.repo # r
      BY <1>2, <1>5, <3>1 DEF TickGood
    <3> QED
      BY <1>3, <1>4, <2>5, <3>1, <3>2, VisitSame DEF ScheduleParts
  <2>13. ASSUME NEW run \in BagToSet(runs') PROVE RunOnce(run)'
    <3>1. CASE run.event = "schedule" /\ run.cause = k.minute /\ run.repo = r
      <4>1. run \in Of("schedule", k.minute, {r})'
        BY <2>13, <3>1 DEF Of
      <4>2. PICK d : /\ run.path = d.file.path
                     /\ Once({z \in Of("schedule", k.minute, {r}) : z.path = d.file.path})'
        BY <2>9, <4>1 DEF Fired, Exact
      <4> QED
        BY <3>1, <4>2 DEF RunOnce
    <3>2. CASE ~(run.event = "schedule" /\ run.cause = k.minute /\ run.repo = r)
      <4>1. run \in BagToSet(runs)
        BY <2>1, <2>3, <2>13, <3>2
      <4> QED
        BY <1>4, <2>5, <3>2, <4>1, RunSame DEF ScheduleParts
    <3> QED
      BY <3>1, <3>2
  <2>14. MinutesInv'
    <3>1. \A u \in Ticks : ticks'[u].pc # "idle" => ticks[u].pc # "idle" /\ ticks'[u].minute = ticks[u].minute
      BY <1>1, <1>2, <1>7, <2>2
    <3>2. k.minute \in 0 .. lastScheduleMinute
      BY <2>4
    <3>3. \A run \in BagToSet(runs') : run.event = "schedule" => run.cause \in 0 .. lastScheduleMinute
      BY <2>1, <2>3, <3>2 DEF ScheduleParts, MinutesInv
    <3> QED
      BY <1>3, <3>1, <3>3 DEF ScheduleParts, MinutesInv
  <2> QED
    BY <1>4, <2>11, <2>12, <2>13, <2>14 DEF ScheduleParts
<1> QED
  <2>1. Idle.pc = "idle"
    BY DEF Idle
  <2> QED
    BY <1>2, <1>6, <1>7, <2>1

LEMMA ScheduleStep ==
  ASSUME TypedInv, ScheduleInv, [Next]_vars
  PROVE  ScheduleInv'
<1>1. SUFFICES ASSUME Steady' PROVE ScheduleParts'
  BY DEF ScheduleInv
<1>2. Steady /\ ~Spend("git") /\ ~Spend("crash")
  <2>1. {"git", "crash"} \in SUBSET Events
    BY DEF Events
  <2> QED
    BY <1>1, <2>1, CalmBefore DEF Steady, TypedInv
<1>3. ScheduleParts /\ UNCHANGED scene
  BY <1>2, StepSpends DEF ScheduleInv
<1>4. ASSUME NEW r \in Repos, NEW f \in Refs, NEW c \in Commits \cup {0}, Push(r, f, c)
      PROVE  ScheduleParts'
  BY <1>3, <1>4, QuietStep DEF Push, clock
<1>5. ASSUME NEW p \in DOMAIN Pulls, OpenPull(p) \/ ReopenPull(p) \/ ClosePull(p)
      PROVE  ScheduleParts'
  <2>1. UNCHANGED <<ticks, lastScheduleMinute, visited, runs, scheduleCache>>
    BY <1>5 DEF OpenPull, ReopenPull, ClosePull, clock
  <2> QED
    BY <1>3, <2>1, QuietStep
<1>6. ASSUME NEW i \in DOMAIN calls, Handle(i)
      PROVE  ScheduleParts'
  <2>1. UNCHANGED <<ticks, lastScheduleMinute, visited>>
    BY <1>6, HandleStep DEF clock
  <2>2. calls[i].repo \in Repos
    BY TypesAre DEF Call
  <2>3. \/ UNCHANGED scheduleCache
        \/ \E r \in Repos : scheduleCache' = [scheduleCache EXCEPT ![r] = <<>>]
    BY <1>6, <2>2, HandleStep
  <2>4. UNCHANGED runs \/ \E x : Insert(x) /\ (x.event # "schedule" \/ x.cause = 0)
    BY <1>6, HandleInserts
  <2> QED
    BY <1>3, <2>1, <2>3, <2>4, QuietStep
<1>7. ASSUME \/ \E r \in Repos, f \in Refs : Dispatch(r, f)
             \/ \E run \in BagToSet(runs) : rerun(run)
      PROVE  ScheduleParts'
  <2>1. UNCHANGED <<ticks, lastScheduleMinute, visited, scheduleCache>>
    BY <1>7 DEF Dispatch, rerun, clock
  <2>2. UNCHANGED runs \/ \E x : Insert(x) /\ (x.event # "schedule" \/ x.cause = 0)
    BY <1>7, RequestInserts
  <2> QED
    BY <1>3, <2>1, <2>2, QuietStep
<1>8. CASE Minute \/ UNCHANGED vars
  <2>1. UNCHANGED <<ticks, lastScheduleMinute, visited, runs, scheduleCache>>
    BY <1>8 DEF Minute, vars, clock
  <2> QED
    BY <1>3, <2>1, QuietStep
<1>9. ASSUME NEW t \in Ticks, Ticking(t)
      PROVE  ScheduleParts'
  BY <1>2, <1>3, <1>9, TickStartStep, TickHeadStep, TickLoadStep, TickRunStep, TickNextStep DEF Ticking
<1>10. ~Restart
  BY <1>2 DEF Restart
<1> QED
  BY <1>4, <1>5, <1>6, <1>7, <1>8, <1>9, <1>10, NextCases

\* The repositories of the last minute that are still to be visited, were visited, were
\* passed over as they had no default branch, or had none until a push made it.
Reached(r) ==
  \/ \E t \in Ticks : ticks[t].pc # "idle" /\ ticks[t].minute = lastScheduleMinute /\ r \in ticks[t].repos
  \/ \E v \in visited : v.repo = r /\ v.minute = lastScheduleMinute
  \/ Branch(r, "main") = 0
  \/ \E i \in DOMAIN calls : Births(calls[i], r)

ReachedInv == Calm /\ lastScheduleMinute # 0 => \A r \in Repos : Reached(r)

\* A step that leaves the clock alone, and forgets no push.
LEMMA ReachedSame ==
  ASSUME UNCHANGED <<ticks, lastScheduleMinute, visited>>, NEW r, Reached(r),
         Branch(r, "main") = 0 => Branch(r, "main")' = 0 \/ \E i \in DOMAIN calls' : Births(calls'[i], r),
         \A i \in DOMAIN calls : i \in DOMAIN calls' /\ (Births(calls[i], r) => Births(calls'[i], r))
  PROVE  Reached(r)'
BY DEF Reached, Births

\* A step of one tick.
LEMMA ReachedTick ==
  ASSUME TypedInv, UNCHANGED <<tip, calls, lastScheduleMinute>>, visited \subseteq visited',
         NEW t \in Ticks, NEW x, TickBecomes(t, x), NEW r, Reached(r),
         ticks[t].pc # "idle" /\ ticks[t].minute = lastScheduleMinute /\ r \in ticks[t].repos
           => \/ x.pc # "idle" /\ x.minute = ticks[t].minute /\ r \in x.repos
              \/ \E v \in visited' : v.repo = r /\ v.minute = ticks[t].minute
              \/ Branch(r, "main") = 0
  PROVE  Reached(r)'
<1>1. ticks'[t] = x /\ \A u \in Ticks : u # t => ticks'[u] = ticks[u]
  BY TypesAre DEF TickBecomes
<1>2. Branch(r, "main")' = Branch(r, "main")
  BY DEF Branch
<1>3. ASSUME NEW u \in Ticks, ticks[u].pc # "idle" /\ ticks[u].minute = lastScheduleMinute /\ r \in ticks[u].repos
      PROVE  Reached(r)'
  <2>1. CASE u # t
    BY <1>1, <1>3, <2>1 DEF Reached
  <2>2. CASE u = t
    <3>1. CASE x.pc # "idle" /\ x.minute = ticks[t].minute /\ r \in x.repos
      BY <1>1, <1>3, <2>2, <3>1 DEF Reached
    <3>2. CASE \E v \in visited' : v.repo = r /\ v.minute = ticks[t].minute
      BY <1>3, <2>2, <3>2 DEF Reached
    <3>3. CASE Branch(r, "main") = 0
      BY <1>2, <3>3 DEF Reached
    <3> QED
      BY <1>3, <2>2, <3>1, <3>2, <3>3
  <2> QED
    BY <2>1, <2>2
<1> QED
  BY <1>2, <1>3 DEF Reached

LEMMA ReachedTicks ==
  ASSUME TypedInv, NEW t \in Ticks, Ticking(t), ~Spend("db"), ~Spend("git"),
         lastScheduleMinute # 0 => \A r \in Repos : Reached(r)
  PROVE  lastScheduleMinute' # 0 => \A r \in Repos : Reached(r)'
<1>1. UNCHANGED <<tip, calls>>
  BY TicksStep DEF git
<1>2. CASE Tick(t)
  <2>1. ticks' = [ticks EXCEPT ![t] = Visiting(now, Repos)] /\ lastScheduleMinute' = now
    BY <1>2 DEF Tick
  <2>2. ticks'[t] = Visiting(now, Repos)
    BY <2>1, TypesAre
  <2>3. \A r \in Repos : LET x == Visiting(now, Repos) IN x.pc # "idle" /\ x.minute = now /\ r \in x.repos
    BY DEF Visiting, Idle
  <2> QED
    BY <2>1, <2>2, <2>3 DEF Reached
<1>3. CASE ~Tick(t)
  <2>1. ticks[t].pc # "idle" /\ UNCHANGED lastScheduleMinute
    BY <1>3 DEF Ticking, TickHead, TickLoad, TickRun, TickNext
  <2>2. SUFFICES ASSUME NEW r \in Repos, Reached(r) PROVE Reached(r)'
    BY <2>1
  <2>3. PICK k : k = ticks[t]
    OBVIOUS
  <2>4. CASE TickHead(t)
    <3>1. UNCHANGED visited
      BY <2>4 DEF TickHead
    <3>2. PICK x :
            /\ TickBecomes(t, x)
            /\ \/ /\ x = Visiting(k.minute, k.repos \ {AtRepo(t)})
                  /\ Branch(AtRepo(t), "main") = 0
               \/ /\ x.minute = k.minute /\ x.repos = k.repos /\ x.pc # "idle"
      BY <2>3, <2>4, HeadsOne
    <3>3. r \in k.repos => \/ x.pc # "idle" /\ x.minute = k.minute /\ r \in x.repos
                           \/ Branch(r, "main") = 0
      <4>1. PICK q : q = AtRepo(t)
        OBVIOUS
      <4>2. x = Visiting(k.minute, k.repos \ {q}) /\ r # q /\ r \in k.repos
              => x.pc # "idle" /\ x.minute = k.minute /\ r \in x.repos
        BY DEF Visiting, Idle
      <4> QED
        BY <3>2, <4>1, <4>2
    <3> QED
      BY <1>1, <2>1, <2>2, <2>3, <3>1, <3>2, <3>3, ReachedTick
  <2>5. CASE TickLoad(t)
    <3>1. PICK x : /\ TickBecomes(t, x)
                   /\ x.pc = "runs" /\ x.minute = k.minute /\ x.repos = k.repos
      BY <2>3, <2>5, LoadsOne
    <3>2. UNCHANGED visited
      BY <2>5 DEF TickLoad
    <3> QED
      BY <1>1, <2>1, <2>2, <2>3, <3>1, <3>2, ReachedTick
  <2>6. CASE TickRun(t)
    <3>1. PICK x : /\ TickBecomes(t, x)
                   /\ x.pc = "runs" /\ x.minute = k.minute /\ x.repos = k.repos
      BY <2>3, <2>6, RunsOne
    <3>2. UNCHANGED visited
      BY <2>6 DEF TickRun
    <3> QED
      BY <1>1, <2>1, <2>2, <2>3, <3>1, <3>2, ReachedTick
  <2>7. CASE TickNext(t)
    <3>1. PICK q, v0 : q = AtRepo(t) /\ v0 = [minute |-> k.minute, repo |-> q, sha |-> k.sha]
      OBVIOUS
    <3>2. visited' = visited \cup {v0}
      BY <2>3, <2>7, <3>1 DEF TickNext
    <3>3. PICK x : TickBecomes(t, x) /\ x = Visiting(k.minute, k.repos \ {q})
      BY <2>3, <2>7, <3>1, NextRepoTyped DEF TickNext
    <3>4. r \in k.repos => \/ x.pc # "idle" /\ x.minute = k.minute /\ r \in x.repos
                           \/ \E v \in visited' : v.repo = r /\ v.minute = k.minute
      <4>1. CASE r = q
        BY <3>1, <3>2, <4>1
      <4>2. CASE r # q
        BY <3>3, <4>2 DEF Visiting, Idle
      <4> QED
        BY <4>1, <4>2
    <3> QED
      BY <1>1, <2>1, <2>2, <2>3, <3>2, <3>3, <3>4, ReachedTick
  <2> QED
    BY <1>3, <2>4, <2>5, <2>6, <2>7 DEF Ticking
<1> QED
  BY <1>2, <1>3

LEMMA ReachedStep ==
  ASSUME TypedInv, ReachedInv, [Next]_vars
  PROVE  ReachedInv'
<1>1. SUFFICES ASSUME Calm', lastScheduleMinute' # 0 PROVE \A r \in Repos : Reached(r)'
  BY DEF ReachedInv, Reached
<1>2. Calm /\ ~Spend("db") /\ ~Spend("git") /\ ~Spend("crash")
  <2>1. {"db", "git", "crash"} \in SUBSET Events
    BY DEF Events
  <2> QED
    BY <1>1, <2>1, CalmBefore DEF Calm, TypedInv
<1>3. lastScheduleMinute # 0 => \A r \in Repos : Reached(r)
  BY <1>2 DEF ReachedInv
<1>4. DOMAIN calls = 1 .. Len(calls) /\ Len(calls) \in Nat
  BY DEF TypedInv, TypeOK
<1>5. ASSUME UNCHANGED <<tip, calls, clock>> PROVE \A r \in Repos : Reached(r)'
  BY <1>1, <1>3, <1>5, ReachedSame DEF clock, Branch
<1>6. ASSUME NEW r \in Repos, NEW f \in Refs, NEW c \in Commits \cup {0}, Push(r, f, c)
      PROVE  \A q \in Repos : Reached(q)'
  <2>1. PICK x \in Call :
              /\ CallOK(x) /\ calls' = Append(calls, x)
              /\ x.kind = "push" /\ x.repo = r /\ x.ref = f /\ x.before = tip[r][f]
    BY <1>6, PushesOne
  <2>2. PICK n : n = Len(calls) + 1
    OBVIOUS
  <2>3. /\ DOMAIN calls' = DOMAIN calls \cup {n} /\ calls'[n] = x
        /\ \A j \in DOMAIN calls : calls'[j] = calls[j]
    BY <2>1, <2>2, NewCall
  <2>4. UNCHANGED <<ticks, lastScheduleMinute, visited>>
    BY <1>6, PushesOne DEF clock
  <2>5. ASSUME NEW q \in Repos, Branch(q, "main") = 0
        PROVE  Branch(q, "main")' = 0 \/ \E i \in DOMAIN calls' : Births(calls'[i], q)
    <3>1. PICK main \in Refs : main = [kind |-> "heads", name |-> "main"]
      BY TriggersAssumption DEF Refs
    <3>2. CASE q = r /\ main = f
      <4>1. Births(x, q)
        BY <2>1, <2>5, <3>1, <3>2 DEF Births, Branch
      <4> QED
        BY <2>3, <4>1
    <3>3. CASE ~(q = r /\ main = f)
      <4>1. tip'[q][main] = tip[q][main]
        BY <1>6, <3>3, PushesOne
      <4> QED
        BY <2>5, <3>1, <4>1 DEF Branch
    <3> QED
      BY <3>2, <3>3
  <2> QED
    BY <1>1, <1>3, <2>3, <2>4, <2>5, ReachedSame
<1>7. ASSUME NEW p \in DOMAIN Pulls, OpenPull(p) \/ ReopenPull(p) \/ ClosePull(p)
      PROVE  \A r \in Repos : Reached(r)'
  <2>1. UNCHANGED <<tip, ticks, lastScheduleMinute, visited>>
    BY <1>7 DEF OpenPull, ReopenPull, ClosePull, git, clock
  <2>2. \A i \in DOMAIN calls : i \in DOMAIN calls' /\ calls'[i] = calls[i]
    <3>1. CASE ClosePull(p)
      BY <3>1 DEF ClosePull
    <3>2. CASE OpenPull(p) \/ ReopenPull(p)
      <4>1. PICK action \in {"opened", "reopened"} : kickActions(p, action)
        BY <3>2 DEF OpenPull, ReopenPull
      <4>2. PICK x \in Call : CallOK(x) /\ calls' = Append(calls, x)
        BY <4>1, KicksOne
      <4> QED
        BY <4>2, NewCall
    <3> QED
      BY <1>7, <3>1, <3>2
  <2> QED
    BY <1>1, <1>3, <2>1, <2>2, ReachedSame DEF Branch
<1>8. ASSUME NEW j \in DOMAIN calls, Handle(j)
      PROVE  \A r \in Repos : Reached(r)'
  <2>1. PICK x \in Call : CallOK(x) /\ Becomes(j, x) /\ Kept(x, calls[j])
    BY <1>8, HandleStep
  <2>2. /\ DOMAIN calls' = DOMAIN calls /\ calls'[j] = x
        /\ \A i \in DOMAIN calls : i # j => calls'[i] = calls[i]
    BY <2>1, OneCall
  <2>3. \A i \in DOMAIN calls : \A r : Births(calls[i], r) => Births(calls'[i], r)
    BY <2>1, <2>2 DEF Births, Kept
  <2>4. UNCHANGED <<tip, ticks, lastScheduleMinute, visited>>
    BY <1>8, HandleStep DEF git, clock
  <2> QED
    BY <1>1, <1>3, <2>2, <2>3, <2>4, ReachedSame DEF Branch
<1>9. ASSUME \/ \E r \in Repos, f \in Refs : Dispatch(r, f)
             \/ \E run \in BagToSet(runs) : rerun(run)
      PROVE  \A r \in Repos : Reached(r)'
  BY <1>5, <1>9 DEF Dispatch, rerun, git
<1>10. CASE Minute
  BY <1>1, <1>3, <1>10, ReachedSame DEF Minute, git, Branch
<1>11. CASE UNCHANGED vars
  BY <1>5, <1>11 DEF vars, git
<1>12. ASSUME NEW t \in Ticks, Ticking(t) PROVE \A r \in Repos : Reached(r)'
  BY <1>1, <1>2, <1>3, <1>12, ReachedTicks
<1>13. ~Restart
  BY <1>2 DEF Restart
<1> QED
  BY <1>6, <1>7, <1>8, <1>9, <1>10, <1>11, <1>12, <1>13, NextCases

LEMMA ScheduleInit ==
  ASSUME Init
  PROVE  ScheduleInv /\ ReachedInv
<1>1. /\ BagToSet(runs) = {} /\ visited = {} /\ lastScheduleMinute = 0
      /\ \A t \in Ticks : ticks[t].pc = "idle"
      /\ \A r \in Repos : scheduleCache[r] = <<>>
  BY DEF Init, EmptyBag, SetToBag, BagToSet, Idle
<1> QED
  BY <1>1 DEF ScheduleInv, ScheduleParts, CacheInv, MinutesInv, TickGood, ReachedInv

\* How far each minute has come: the cache, the ticks under way, the repositories they are
\* done with, and those they have yet to see, for any number of pushes and overlapping ticks.
THEOREM ScheduleInvariant == Spec => [](TypedInv /\ ScheduleInv /\ ReachedInv)
<1>1. Init => TypedInv /\ ScheduleInv /\ ReachedInv
  BY TypedInit, ScheduleInit
<1>2. TypedInv /\ ScheduleInv /\ ReachedInv /\ [Next]_vars => (TypedInv /\ ScheduleInv /\ ReachedInv)'
  BY TypedStep, ScheduleStep, ReachedStep
<1> QED
  BY <1>1, <1>2, PTL DEF Spec

\* A scheduled workflow runs exactly once in each minute one of its crons matches, and no other
\* does, in every repository a scheduleTick is done with; and a tick passes no repository over.
THEOREM SchedulesFire == Spec => []SchedulesFireOnce
<1>1. ASSUME TypedInv, ScheduleInv, ReachedInv PROVE SchedulesFireOnce
  <2>1. SUFFICES ASSUME Steady PROVE SchedulesFireOnce
    BY DEF SchedulesFireOnce, Steady
  <2>2. ScheduleParts /\ scene \in Scenes
    BY <1>1, <2>1, TypesAre DEF ScheduleInv
  <2> DEFINE Those(r, path, minute) ==
        {run \in BagToSet(runs) : /\ run.event = "schedule" /\ run.repo = r
                                  /\ run.path = path /\ run.cause = minute}
  <2>3. \A r, path, minute : Those(r, path, minute) = {run \in Of("schedule", minute, {r}) : run.path = path}
    BY DEF Of
  <2> HIDE DEF Those
  <2>4. ASSUME NEW v \in visited, NEW e \in Entries(v.repo, v.sha)
        PROVE  IF /\ ~e.error /\ "schedule" \in DOMAIN e.file.on
                  /\ v.minute \in UNION e.file.on["schedule"]
               THEN Once(Those(v.repo, e.file.path, v.minute))
               ELSE Those(v.repo, e.file.path, v.minute) = {}
    <3>1. PICK due : due = Scheduled(v.repo, v.sha, v.minute)
      OBVIOUS
    <3>2. Exact("schedule", v.minute, {v.repo}, due)
      BY <2>2, <3>1 DEF ScheduleParts, VisitGood, Fired
    <3>3. e \in due <=> /\ ~e.error /\ "schedule" \in DOMAIN e.file.on
                        /\ v.minute \in UNION e.file.on["schedule"]
      BY <3>1 DEF Scheduled, cronTodo, scheduled
    <3> DEFINE mine == {run \in Of("schedule", v.minute, {v.repo}) : run.path = e.file.path}
    <3>6. Those(v.repo, e.file.path, v.minute) = mine
      BY <2>3
    <3>4. CASE e \in due
      <4>1. Once(mine)
        BY <3>2, <3>4 DEF Exact
      <4> HIDE DEF mine
      <4> QED
        BY <3>3, <3>4, <3>6, <4>1
    <3>5. CASE e \notin due
      <4>1. v.repo \in Repos /\ v.sha \in Commits
        BY <1>1 DEF TypedInv, TypeOK
      <4>2. due \subseteq Entries(v.repo, v.sha)
        BY <3>1 DEF Scheduled, cronTodo, scheduled
      <4>3. \A d \in due : d.file.path # e.file.path
        BY <2>2, <3>5, <4>1, <4>2, DiscoverIs DEF Entries
      <4>4. mine = {}
        BY <3>2, <4>3 DEF Exact
      <4> HIDE DEF mine
      <4> QED
        BY <3>3, <3>5, <3>6, <4>4
    <3> QED
      BY <3>4, <3>5
  <2>5. ASSUME NEW run \in BagToSet(runs), run.event = "schedule", run.cause # 0
        PROVE  Once(Those(run.repo, run.path, run.cause))
    <3>1. Once({y \in Of("schedule", run.cause, {run.repo}) : y.path = run.path})
      BY <2>2, <2>5 DEF ScheduleParts, RunOnce
    <3> QED
      BY <2>3, <3>1
  <2>6. ASSUME Unused({"db"}), lastScheduleMinute # 0, \A t \in Ticks : ticks[t].minute # lastScheduleMinute,
               NEW r \in Repos
        PROVE  \/ \E v \in visited : v.repo = r /\ v.minute = lastScheduleMinute
               \/ Branch(r, "main") = 0
               \/ \E i \in DOMAIN calls : Births(calls[i], r)
    <3>1. Calm
      BY <2>1, <2>6 DEF Calm, Steady, Unused
    <3> QED
      BY <1>1, <2>6, <3>1 DEF ReachedInv, Reached
  <2> QED
    BY <2>4, <2>5, <2>6, Zenon DEF SchedulesFireOnce, Those
<1> QED
  BY <1>1, ScheduleInvariant, PTL

(* ------------------------- the jobs of a run ------------------------- *)

\* An entry is one of the files of the commit, and an error tells of its contents unless git failed.
EntryOf(e, r, sha) ==
  /\ \E d \in DOMAIN scene.tree[r][sha] : e.file \in ToSet(scene.tree[r][sha][d])
  /\ ~e.error => parseWorkflow(e.file)
  /\ e.error /\ Unused({"git"}) => ~parseWorkflow(e.file)

EntriesOf(entries, r, sha) == \A e \in entries : EntryOf(e, r, sha)

\* What a run says of the file it is of.
WrittenAs(run, file) ==
  LET jobs == file.jobs
      expand == \A i \in DOMAIN jobs : expands(jobs[i].matrix)
  IN /\ file.path = run.path
     /\ run.status = "queued" => parseWorkflow(file) /\ expand /\ run.jobs = JobRows(jobs)
     /\ run.status = "invalid" /\ Unused({"git"}) => ~parseWorkflow(file)
     /\ run.status = "failed" /\ Unused({"db"}) => ~expand

Written(run) ==
  \E d \in DOMAIN scene.tree[run.repo][run.sha] : \E file \in ToSet(scene.tree[run.repo][run.sha][d]) :
    WrittenAs(run, file)

RunsWritten == \A run \in BagToSet(runs) : Written(run)

\* What a call has read and is to look at belongs to its repository.
CallFrom(c) ==
  /\ EntriesOf(c.todo, c.repo, c.sha)
  /\ c.kind = "pull" => c.repo = Pulls[c.pr].repo
  /\ \A p \in c.prs : Pulls[p].repo = c.repo

TickFrom(k) == k.todo # {} => EntriesOf(k.todo, Min(k.repos), k.sha)

CallsFrom == \A c \in ToSet(calls) : CallFrom(c)
TicksFrom == \A t \in Ticks : \A k \in {ticks[t]} : TickFrom(k)
CacheFrom ==
  \A r \in Repos : \A kept \in ToSet(scheduleCache[r]) : EntriesOf(kept.entries, r, kept.sha)

WrittenInv == RunsWritten /\ CallsFrom /\ TicksFrom /\ CacheFrom

\* What was read of a commit stays true of it.
LEMMA EntrySame ==
  ASSUME TypedInv, [Next]_vars, NEW e, NEW r, NEW sha, EntryOf(e, r, sha)
  PROVE  EntryOf(e, r, sha)'
<1>1. UNCHANGED scene
  BY StepSpends
<1>2. Unused({"git"})' => Unused({"git"})
  <2>1. {"git"} \in SUBSET Events
    BY DEF Events
  <2> QED
    BY <2>1, CalmBefore DEF TypedInv
<1> QED
  BY <1>1, <1>2 DEF EntryOf

LEMMA EntriesSame ==
  ASSUME TypedInv, [Next]_vars, NEW entries, NEW r, NEW sha, EntriesOf(entries, r, sha)
  PROVE  EntriesOf(entries, r, sha)'
BY EntrySame DEF EntriesOf

LEMMA WrittenSame ==
  ASSUME TypedInv, [Next]_vars, NEW run, Written(run)
  PROVE  Written(run)'
<1>1. UNCHANGED scene
  BY StepSpends
<1>2. \A es \in {{"git"}, {"db"}} : Unused(es)' => Unused(es)
  <2>1. {"git"} \in SUBSET Events /\ {"db"} \in SUBSET Events
    BY DEF Events
  <2> QED
    BY <2>1, CalmBefore DEF TypedInv
<1>3. PICK d \in DOMAIN scene.tree[run.repo][run.sha] :
        \E file \in ToSet(scene.tree[run.repo][run.sha][d]) : WrittenAs(run, file)
  BY DEF Written
<1>4. PICK file \in ToSet(scene.tree[run.repo][run.sha][d]) : WrittenAs(run, file)
  BY <1>3
<1>5. WrittenAs(run, file)'
  <2>1. JobRows(file.jobs)' = JobRows(file.jobs)
    BY DEF JobRows
  <2> QED
    BY <1>2, <1>4 DEF WrittenAs
<1> QED
  BY <1>1, <1>3, <1>4, <1>5 DEF Written

\* What discover finds are files of the commit.
LEMMA DiscoverFrom ==
  ASSUME scene \in Scenes, NEW r \in Repos, NEW sha \in Commits, NEW gone, NEW unread,
         NEW e \in discover(r, sha, gone, unread)
  PROVE  /\ \E d \in DOMAIN scene.tree[r][sha] : e.file \in ToSet(scene.tree[r][sha][d])
         /\ e.error <=> e.at \in unread \/ ~parseWorkflow(e.file)
<1> DEFINE dirs == scene.tree[r][sha]
           usable == {d \in DOMAIN dirs : d \notin gone /\ dirs[d] # <<>>}
           files == dirs[Min(usable)]
           E == {[at |-> i, file |-> files[i], error |-> i \in unread \/ ~parseWorkflow(files[i])] :
                   i \in DOMAIN files}
<1>1. usable # {} /\ e \in E
  BY DEF discover
<1>2. Min(usable) \in DOMAIN dirs
  <2>1. usable \subseteq Nat
    BY TriggersAssumption
  <2>2. Min(usable) \in usable
    <3> HIDE DEF usable
    <3> QED
      BY <1>1, <2>1, LeastIn
  <2> QED
    BY <2>2
<1> HIDE DEF files
<1>3. PICK i \in DOMAIN files :
        e = [at |-> i, file |-> files[i], error |-> i \in unread \/ ~parseWorkflow(files[i])]
  BY <1>1
<1>4. files[i] \in ToSet(files)
  BY DEF ToSet
<1>5. e.at = i /\ e.file = files[i] /\ e.error = (i \in unread \/ ~parseWorkflow(files[i]))
  BY <1>3
<1> QED
  BY <1>2, <1>4, <1>5 DEF files

\* What is read, fault or not, is of the commit.
LEMMA EntriesAre ==
  ASSUME TypedInv, NEW r \in Repos, NEW sha \in Commits
  PROVE  EntriesOf(Entries(r, sha), r, sha)
<1> SUFFICES ASSUME NEW e \in Entries(r, sha) PROVE EntryOf(e, r, sha)
  BY DEF EntriesOf
<1>1. e \in discover(r, sha, {}, {})
  BY DEF Entries
<1> QED
  BY <1>1, DiscoverFrom, TypesAre DEF EntryOf

LEMMA ReadsFrom ==
  ASSUME TypedInv, [Next]_vars, NEW r \in Repos, NEW sha \in Commits, NEW diff,
         NEW read \in Reads(r, sha, diff), Pays(read.fault)
  PROVE  EntriesOf(read.found, r, sha)'
<1>1. CASE ~read.fault
  <2>1. read.found = Entries(r, sha)
    BY <1>1, ReadsAre, TypesAre
  <2>2. EntriesOf(read.found, r, sha)
    BY <2>1, EntriesAre
  <2> QED
    BY <2>2, EntriesSame
<1>2. CASE read.fault
  <2>1. ~Unused({"git"})'
    <3>1. {"git"} \in SUBSET Events
      BY DEF Events
    <3> QED
      BY <1>2, <3>1, CalmBefore DEF TypedInv, Pays
  <2>2. UNCHANGED scene
    BY StepSpends
  <2>3. PICK gone, unread : read.found = discover(r, sha, gone, unread)
    <3> DEFINE Read(changed, found, fault) == [changed |-> changed, found |-> found, fault |-> fault]
    <3>1. CASE read = Read(diff, Entries(r, sha), FALSE) \/ read = Read(<<>>, Entries(r, sha), TRUE)
      BY <3>1 DEF Entries
    <3>2. ASSUME NEW d, read = Read(diff, discover(r, sha, {d}, {}), TRUE)
          PROVE  \E gone, unread : read.found = discover(r, sha, gone, unread)
      <4>1. read.found = discover(r, sha, {d}, {})
        BY <3>2
      <4> QED
        BY <4>1
    <3>3. ASSUME NEW i, read = Read(diff, discover(r, sha, {}, {i}), TRUE)
          PROVE  \E gone, unread : read.found = discover(r, sha, gone, unread)
      <4>1. read.found = discover(r, sha, {}, {i})
        BY <3>3
      <4> QED
        BY <4>1
    <3> QED
      BY <3>1, <3>2, <3>3, Zenon DEF Reads
  <2>4. ASSUME NEW e \in read.found PROVE EntryOf(e, r, sha)'
    <3>1. e \in discover(r, sha, gone, unread)
      BY <2>3
    <3>2. /\ \E d \in DOMAIN scene.tree[r][sha] : e.file \in ToSet(scene.tree[r][sha][d])
          /\ e.error <=> e.at \in unread \/ ~parseWorkflow(e.file)
      BY <3>1, DiscoverFrom, TypesAre
    <3> QED
      BY <2>1, <2>2, <3>2 DEF EntryOf
  <2> QED
    BY <2>4 DEF EntriesOf
<1> QED
  BY <1>1, <1>2

\* A run that is created says what its file does.
LEMMA CreatesWritten ==
  ASSUME TypedInv, [Next]_vars, RunsWritten, NEW e, NEW r, NEW event, NEW sha, NEW pr, NEW cause,
         NEW threw \in BOOLEAN, NEW spent, EntryOf(e, r, sha),
         createRun(RunOf(e, r, event, sha, pr, cause), threw, spent)
  PROVE  RunsWritten'
<1> DEFINE run == RunOf(e, r, event, sha, pr, cause)
           failed == [run EXCEPT !.status = "failed", !.jobs = {}]
           jobs == e.file.jobs
           expand == \A i \in DOMAIN jobs : expands(jobs[i].matrix)
<1>1. \/ UNCHANGED runs
      \/ Insert(run)
      \/ Insert(failed) /\ Spend("db")
  BY DEF createRun
<1>2. UNCHANGED scene
  BY StepSpends
<1>3. PICK d \in DOMAIN scene.tree[r][sha] : e.file \in ToSet(scene.tree[r][sha][d])
  BY DEF EntryOf
<1>4. EntryOf(e, r, sha)'
  BY EntrySame
<1>5. \A y \in BagToSet(runs) : Written(y)'
  BY WrittenSame DEF RunsWritten
<1>6. /\ run.repo = r /\ run.sha = sha /\ run.path = e.file.path
      /\ run.status = CASE e.error -> "invalid" [] ~e.error /\ expand -> "queued" [] OTHER -> "failed"
      /\ run.jobs = IF run.status = "queued" THEN JobRows(jobs) ELSE {}
  BY DEF RunOf
<1>7. failed.repo = r /\ failed.sha = sha /\ failed.path = e.file.path /\ failed.status = "failed"
  BY DEF RunOf
<1> HIDE DEF run, failed
<1>8. ASSUME NEW x, x.repo = r, x.sha = sha, WrittenAs(x, e.file)' PROVE Written(x)'
  BY <1>2, <1>3, <1>8 DEF Written
<1>9. Written(run)'
  <2>1. WrittenAs(run, e.file)'
    <3>1. JobRows(jobs)' = JobRows(jobs)
      BY DEF JobRows
    <3>2. CASE e.error
      <4>1. run.status = "invalid"
        BY <1>6, <3>2
      <4> QED
        BY <1>4, <1>6, <3>2, <4>1 DEF WrittenAs, EntryOf
    <3>3. CASE ~e.error /\ expand
      <4>1. run.status = "queued" /\ run.jobs = JobRows(jobs)
        BY <1>6, <3>3
      <4> QED
        BY <1>4, <1>6, <3>1, <3>3, <4>1 DEF WrittenAs, EntryOf
    <3>4. CASE ~e.error /\ ~expand
      <4>1. run.status = "failed"
        BY <1>6, <3>4
      <4> QED
        BY <1>6, <3>4, <4>1 DEF WrittenAs
    <3> QED
      BY <3>2, <3>3, <3>4
  <2> QED
    BY <1>6, <1>8, <2>1
<1>10. Spend("db") => Written(failed)'
  <2> SUFFICES ASSUME Spend("db") PROVE Written(failed)'
    OBVIOUS
  <2>1. ~Unused({"db"})'
    <3>1. {"db"} \in SUBSET Events
      BY DEF Events
    <3> QED
      BY <3>1, CalmBefore DEF TypedInv
  <2>2. WrittenAs(failed, e.file)'
    BY <1>7, <2>1 DEF WrittenAs
  <2> QED
    BY <1>7, <1>8, <2>2
<1>11. ASSUME NEW x, Insert(x), Written(x)' PROVE RunsWritten'
  <2>1. BagToSet(runs') = BagToSet(runs) \cup {x}
    <3>1. \A y \in BagToSet(runs) : runs[y] \in Nat \ {0}
      BY TypesAre DEF RunsTyped
    <3> QED
      BY <1>11, <3>1, RunAdded
  <2>2. \A y \in BagToSet(runs') : Written(y)'
    BY <1>5, <1>11, <2>1
  <2> QED
    BY <2>2 DEF RunsWritten
<1>12. CASE UNCHANGED runs
  BY <1>5, <1>12 DEF RunsWritten
<1> QED
  BY <1>1, <1>9, <1>10, <1>11, <1>12

LEMMA CallSame ==
  ASSUME TypedInv, [Next]_vars, NEW c, CallFrom(c)
  PROVE  CallFrom(c)'
<1>1. EntriesOf(c.todo, c.repo, c.sha)'
  BY EntriesSame DEF CallFrom
<1> QED
  BY <1>1 DEF CallFrom

LEMMA TickSameAs ==
  ASSUME TypedInv, [Next]_vars, NEW k, TickFrom(k)
  PROVE  TickFrom(k)'
<1>1. CASE k.todo = {}
  BY <1>1 DEF TickFrom
<1>2. CASE k.todo # {}
  <2>1. EntriesOf(k.todo, Min(k.repos), k.sha)'
    BY <1>2, EntriesSame DEF TickFrom
  <2> QED
    BY <2>1 DEF TickFrom
<1> QED
  BY <1>1, <1>2

\* Steps change one call, one tick, or what is cached of one repository.
LEMMA CallsStay ==
  ASSUME TypedInv, [Next]_vars, CallsFrom,
         \A j \in DOMAIN calls' : \/ j \in DOMAIN calls /\ calls'[j] = calls[j]
                                  \/ \E x : calls'[j] = x /\ CallFrom(x)'
  PROVE  CallsFrom'
<1>1. ASSUME NEW c \in ToSet(calls') PROVE CallFrom(c)'
  <2>1. PICK j \in DOMAIN calls' : c = calls'[j]
    BY DEF ToSet
  <2>2. CASE j \in DOMAIN calls /\ calls'[j] = calls[j]
    <3>1. c \in ToSet(calls)
      BY <2>1, <2>2 DEF ToSet
    <3> QED
      BY <3>1, CallSame DEF CallsFrom
  <2>3. ASSUME NEW x, calls'[j] = x, CallFrom(x)' PROVE CallFrom(c)'
    <3>1. c = x
      BY <2>1, <2>3
    <3> QED
      BY <2>3, <3>1
  <2> QED
    BY <2>2, <2>3
<1> QED
  BY <1>1 DEF CallsFrom

LEMMA TicksStay ==
  ASSUME TypedInv, [Next]_vars, TicksFrom,
         \A t \in Ticks : ticks'[t] = ticks[t] \/ \E x : ticks'[t] = x /\ TickFrom(x)'
  PROVE  TicksFrom'
<1>1. ASSUME NEW t \in Ticks, NEW k, k = ticks'[t] PROVE TickFrom(k)'
  <2>1. CASE ticks'[t] = ticks[t]
    BY <1>1, <2>1, TickSameAs DEF TicksFrom
  <2>2. ASSUME NEW x, ticks'[t] = x, TickFrom(x)' PROVE TickFrom(k)'
    <3>1. k = x
      BY <1>1, <2>2
    <3> QED
      BY <2>2, <3>1
  <2> QED
    BY <2>1, <2>2
<1> QED
  BY <1>1 DEF TicksFrom

LEMMA CacheStays ==
  ASSUME TypedInv, [Next]_vars, CacheFrom,
         \/ UNCHANGED scheduleCache
         \/ \E r \in Repos : scheduleCache' = [scheduleCache EXCEPT ![r] = <<>>]
         \/ scheduleCache' = [r \in Repos |-> <<>>]
         \/ \E r \in Repos : \E x : /\ scheduleCache' = [scheduleCache EXCEPT ![r] = <<x>>]
                                    /\ EntriesOf(x.entries, r, x.sha)'
  PROVE  CacheFrom'
<1> SUFFICES ASSUME NEW r \in Repos, NEW kept \in ToSet(scheduleCache'[r])
             PROVE  EntriesOf(kept.entries, r, kept.sha)'
  BY DEF CacheFrom
<1>1. scheduleCache \in [Repos -> Seq([sha : Commits, entries : SUBSET Entry])]
  BY TypesAre DEF CacheTyped
<1>2. ASSUME kept \in ToSet(scheduleCache[r]) PROVE EntriesOf(kept.entries, r, kept.sha)'
  BY <1>2, EntriesSame DEF CacheFrom
<1>3. scheduleCache'[r] # <<>>
  BY DEF ToSet
<1>4. CASE UNCHANGED scheduleCache
  BY <1>2, <1>4
<1>5. ASSUME NEW q \in Repos, scheduleCache' = [scheduleCache EXCEPT ![q] = <<>>]
      PROVE  EntriesOf(kept.entries, r, kept.sha)'
  <2>1. scheduleCache'[r] = scheduleCache[r]
    BY <1>1, <1>3, <1>5
  <2> QED
    BY <1>2, <2>1
<1>6. scheduleCache' # [q \in Repos |-> <<>>]
  BY <1>3
<1>7. ASSUME NEW q \in Repos, NEW x, scheduleCache' = [scheduleCache EXCEPT ![q] = <<x>>],
             EntriesOf(x.entries, q, x.sha)'
      PROVE  EntriesOf(kept.entries, r, kept.sha)'
  <2>1. CASE q # r
    <3>1. scheduleCache'[r] = scheduleCache[r]
      BY <1>1, <1>7, <2>1
    <3> QED
      BY <1>2, <3>1
  <2>2. CASE q = r
    <3>1. scheduleCache'[r] = <<x>>
      BY <1>1, <1>7, <2>2
    <3>2. kept = x
      BY <3>1 DEF ToSet
    <3> QED
      BY <1>7, <2>2, <3>2
  <2> QED
    BY <2>1, <2>2
<1> QED
  BY <1>4, <1>5, <1>6, <1>7

\* A call that is to look at nothing.
LEMMA NothingFrom ==
  ASSUME NEW x, x.todo = {}, x.prs = {}, x.kind = "pull" => x.repo = Pulls[x.pr].repo
  PROVE  CallFrom(x)'
BY DEF CallFrom, EntriesOf

LEMMA EndsFrom ==
  ASSUME TypedInv, NEW i \in DOMAIN calls, NEW how, CallFrom(calls[i]), Ends(i, how)
  PROVE  \E x : Becomes(i, x) /\ CallFrom(x)'
<1> DEFINE x == [calls[i] EXCEPT !.pc = how, !.prs = {}, !.todo = {}]
<1>1. PICK c : c = calls[i]
  OBVIOUS
<1>2. c \in Call /\ (c.kind = "pull" => c.repo = Pulls[c.pr].repo)
  BY <1>1, TypesAre DEF CallFrom
<1>3. PICK y : y = x
  OBVIOUS
<1>4. y.todo = {} /\ y.prs = {} /\ y.kind = c.kind /\ y.repo = c.repo /\ y.pr = c.pr
  BY <1>1, <1>2, <1>3 DEF Call
<1>5. CallFrom(y)'
  BY <1>2, <1>4, NothingFrom
<1>6. Becomes(i, y)
  BY <1>3 DEF Ends, Becomes
<1> QED
  BY <1>5, <1>6

\* The pull requests and commits that a handler looks at are those of its repository.
LEMMA PullFrom ==
  ASSUME TypedInv, [Next]_vars, NEW i \in DOMAIN calls, NEW p \in DOMAIN Pulls, NEW head \in Commits,
         CallFrom(calls[i]), Pulls[p].repo = calls[i].repo,
         calls[i].kind = "pull" => calls[i].pr = p \/ calls[i].pc # "kicked",
         ReadPull(i, p, head)
  PROVE  \E x : Becomes(i, x) /\ CallFrom(x)'
<1>1. PICK c : c = calls[i]
  OBVIOUS
<1>2. PICK diff : diff = <<ChangedSinceBase(Branch(Pulls[p].repo, Pulls[p].target), head)>>
  OBVIOUS
<1>3. \E x \in Call, read \in Reads(Pulls[p].repo, head, diff) :
           /\ Pays(read.fault)
           /\ CallOK(x) /\ Becomes(i, x) /\ Kept(x, calls[i])
           /\ x.pc = "pulls" /\ x.pr = p /\ x.sha = head /\ x.prs = calls[i].prs \ {p}
           /\ x.todo = pullTodo(read.found, calls[i].action, Pulls[p].target, read.changed)
  BY <1>2, ReadsPull
<1>4. PICK x \in Call, read \in Reads(Pulls[p].repo, head, diff) :
           /\ Pays(read.fault)
           /\ CallOK(x) /\ Becomes(i, x) /\ Kept(x, c)
           /\ x.pc = "pulls" /\ x.pr = p /\ x.sha = head /\ x.prs = c.prs \ {p}
           /\ x.todo = pullTodo(read.found, c.action, Pulls[p].target, read.changed)
  BY <1>1, <1>3
<1>5. EntriesOf(read.found, Pulls[p].repo, head)'
  BY <1>4, ReadsFrom, TypesAre
<1>6. EntriesOf(x.todo, Pulls[p].repo, head)'
  <2>1. x.todo \subseteq read.found
    BY <1>4 DEF pullTodo
  <2> QED
    BY <1>5, <2>1 DEF EntriesOf
<1>7. x.repo = Pulls[p].repo /\ x.sha = head /\ x.pr = p
  BY <1>1, <1>4 DEF Kept
<1>8. \A q \in x.prs : Pulls[q].repo = x.repo
  BY <1>1, <1>4, <1>7 DEF CallFrom
<1>9. CallFrom(x)'
  BY <1>6, <1>7, <1>8 DEF CallFrom
<1> QED
  BY <1>4, <1>9

LEMMA HandleFrom ==
  ASSUME TypedInv, [Next]_vars, CallsFrom, RunsWritten, NEW i \in DOMAIN calls, Handle(i)
  PROVE  (\E x : Becomes(i, x) /\ CallFrom(x)') /\ RunsWritten'
<1> DEFINE Good == \E x : Becomes(i, x) /\ CallFrom(x)'
<1>1. PICK c : c = calls[i]
  OBVIOUS
<1>2. c \in Call /\ CallOK(c) /\ CallFrom(c) /\ CallFrom(calls[i])
  BY <1>1, TypesAre DEF CallsFrom, ToSet
<1>3. UNCHANGED runs => RunsWritten'
  BY WrittenSame DEF RunsWritten
<1>4. ASSUME NEW how, Ends(i, how) PROVE Good
  BY <1>2, <1>4, EndsFrom
<1>5. CASE RejectPush(i)
  BY <1>3, <1>4, <1>5 DEF RejectPush
<1>6. CASE StartPush(i)
  <2>1. CASE c.sha = 0
    <3>1. Ends(i, "done")
      BY <1>1, <1>6, <2>1 DEF StartPush
    <3> QED
      BY <1>3, <1>4, <1>6, <3>1 DEF StartPush
  <2>2. CASE c.sha # 0
    <3>1. PICK diff : diff = Diff(calls[i])
      OBVIOUS
    <3>2. PICK x \in Call, read \in Reads(c.repo, c.sha, diff) :
            /\ Pays(read.fault)
            /\ Becomes(i, x) /\ Kept(x, c) /\ x.sha = c.sha /\ x.prs = c.prs
            /\ x.todo = pushTodo(read.found, c.ref, read.changed)
      BY <1>1, <1>6, <2>2, <3>1, StartsPush
    <3>3. EntriesOf(read.found, c.repo, c.sha)'
      <4>1. c.repo \in Repos /\ c.sha \in Commits
        BY <1>2, <2>2 DEF Call
      <4> QED
        BY <3>2, <4>1, ReadsFrom
    <3>4. EntriesOf(x.todo, c.repo, c.sha)'
      <4>1. x.todo \subseteq read.found
        BY <3>2 DEF pushTodo
      <4> QED
        BY <3>3, <4>1 DEF EntriesOf
    <3>5. /\ x.repo = c.repo /\ x.sha = c.sha /\ x.kind = "push"
          /\ \A p \in x.prs : Pulls[p].repo = x.repo
      BY <1>1, <1>2, <1>6, <3>2 DEF Kept, CallFrom, StartPush
    <3>6. CallFrom(x)'
      BY <3>4, <3>5 DEF CallFrom
    <3> QED
      BY <1>3, <1>6, <3>2, <3>6 DEF StartPush
  <2> QED
    BY <2>1, <2>2
<1>7. CASE CreateOne(i)
  <2>1. PICK e : e = Foremost(c.todo)
    OBVIOUS
  <2>2. PICK event : event = IF At(i, "files") THEN "push" ELSE "pull_request"
    OBVIOUS
  <2>3. PICK threw \in BOOLEAN :
          /\ createRun(RunOf(e, c.repo, event, c.sha, c.pr, i), threw, "none")
          /\ IF threw THEN Ends(i, "failed") ELSE calls' = [calls EXCEPT ![i].todo = @ \ {e}]
    BY <1>1, <1>7, <2>1, <2>2 DEF CreateOne
  <2>4. e \in c.todo
    <3>1. c.todo # {} /\ \A x \in c.todo : x.at \in Nat
      BY <1>1, <1>2, <1>7 DEF CreateOne, Call, Entry
    <3> QED
      BY <2>1, <3>1, ForemostIn
  <2>5. EntryOf(e, c.repo, c.sha)
    BY <1>2, <2>4 DEF CallFrom, EntriesOf
  <2>6. RunsWritten'
    BY <2>3, <2>5, CreatesWritten
  <2>7. ASSUME ~threw PROVE Good
    <3>1. PICK x : x = [c EXCEPT !.todo = @ \ {e}]
      OBVIOUS
    <3>2. /\ x.todo = c.todo \ {e} /\ x.repo = c.repo /\ x.sha = c.sha
          /\ x.kind = c.kind /\ x.pr = c.pr /\ x.prs = c.prs
      BY <1>2, <3>1 DEF Call
    <3>3. EntriesOf(c.todo, c.repo, c.sha)'
      BY <1>2, EntriesSame DEF CallFrom
    <3>4. EntriesOf(x.todo, x.repo, x.sha)'
      BY <3>2, <3>3 DEF EntriesOf
    <3>5. CallFrom(x)'
      BY <1>2, <3>2, <3>4 DEF CallFrom
    <3>6. Becomes(i, x)
      BY <1>1, <2>3, <2>7, <3>1 DEF Becomes
    <3> QED
      BY <3>5, <3>6
  <2> QED
    BY <1>4, <2>3, <2>6, <2>7
<1>8. CASE FindPulls(i)
  <2>1. PICK prs : prs = openPrsForBranch(c.repo, c.ref.name)
    OBVIOUS
  <2>2. ASSUME calls' = [calls EXCEPT ![i].pc = "pulls", ![i].prs = prs] PROVE Good
    <3>1. PICK x : x = [c EXCEPT !.pc = "pulls", !.prs = prs]
      OBVIOUS
    <3>2. /\ x.todo = {} /\ x.repo = c.repo /\ x.sha = c.sha
          /\ x.kind = c.kind /\ x.pr = c.pr /\ x.prs = prs
      BY <1>1, <1>2, <1>8, <3>1 DEF Call, FindPulls
    <3>3. \A p \in prs : Pulls[p].repo = c.repo
      BY <2>1 DEF openPrsForBranch
    <3>4. CallFrom(x)'
      BY <1>2, <3>2, <3>3 DEF CallFrom, EntriesOf
    <3>5. Becomes(i, x)
      BY <1>1, <2>2, <3>1 DEF Becomes
    <3> QED
      BY <3>4, <3>5
  <2>3. calls' = [calls EXCEPT ![i].pc = "pulls", ![i].prs = prs] \/ \E how : Ends(i, how)
    BY <1>1, <1>8, <2>1 DEF FindPulls
  <2>4. Good
    BY <1>4, <2>2, <2>3
  <2> QED
    BY <1>3, <1>8, <2>4 DEF FindPulls
<1>9. CASE NextPull(i)
  <2>1. ASSUME NEW p \in c.prs, ReadPull(i, p, c.sha) PROVE Good
    <3>1. c.sha \in Commits /\ c.prs \subseteq DOMAIN Pulls /\ c.pc # "kicked" /\ Pulls[p].repo = c.repo
      BY <1>1, <1>2, <1>9 DEF Call, CallOK, CallFrom, NextPull, At
    <3> QED
      BY <1>1, <1>2, <2>1, <3>1, PullFrom
  <2>2. (\E p \in c.prs : ReadPull(i, p, c.sha)) \/ \E how : Ends(i, how)
    BY <1>1, <1>9 DEF NextPull
  <2>3. Good
    BY <1>4, <2>1, <2>2
  <2> QED
    BY <1>3, <1>9, <2>3 DEF NextPull
<1>10. CASE StartPull(i)
  <2>1. PICK p : p = c.pr
    OBVIOUS
  <2>2. PICK head : head = Branch(Pulls[p].repo, Pulls[p].source)
    OBVIOUS
  <2>3. p \in DOMAIN Pulls /\ Pulls[p].repo = c.repo
    BY <1>1, <1>2, <1>10, <2>1 DEF CallOK, CallFrom, StartPull
  <2>4. head \in Commits \cup {0}
    BY <2>2, <2>3, TypesAre
  <2>5. ASSUME head # 0, ReadPull(i, p, head) PROVE Good
    <3>1. head \in Commits /\ calls[i].pr = p
      BY <1>1, <2>1, <2>4, <2>5
    <3> QED
      BY <1>1, <1>2, <2>3, <2>5, <3>1, PullFrom
  <2>6. (head # 0 /\ ReadPull(i, p, head)) \/ \E how : Ends(i, how)
    BY <1>1, <1>10, <2>1, <2>2 DEF StartPull
  <2>7. Good
    BY <1>4, <2>5, <2>6
  <2> QED
    BY <1>3, <1>10, <2>7 DEF StartPull
<1> QED
  BY <1>5, <1>6, <1>7, <1>8, <1>9, <1>10 DEF Handle

\* The ticks, and what is cached for them.
LEMMA TickingFrom ==
  ASSUME TypedInv, [Next]_vars, WrittenInv, NEW t \in Ticks, Ticking(t)
  PROVE  TicksFrom' /\ CacheFrom' /\ RunsWritten'
<1>1. PICK k : k = ticks[t]
  OBVIOUS
<1>2. PICK r : r = AtRepo(t)
  OBVIOUS
<1>3. k \in ScheduleTick /\ TickOK(k) /\ TickFrom(k)
  BY <1>1, TypesAre DEF WrittenInv, TicksFrom
<1>4. UNCHANGED runs => RunsWritten'
  BY WrittenSame DEF WrittenInv, RunsWritten
<1>5. UNCHANGED scheduleCache => CacheFrom'
  BY CacheStays DEF WrittenInv
<1>6. ASSUME NEW x, TickBecomes(t, x) \/ UNCHANGED ticks, TickFrom(x)' PROVE TicksFrom'
  <2>1. \A u \in Ticks : ticks'[u] = ticks[u] \/ (ticks'[u] = x /\ TickFrom(x)')
    BY <1>6, TypesAre DEF TickBecomes
  <2> QED
    BY <2>1, TicksStay DEF WrittenInv
<1>7. ASSUME NEW x, x.todo = {} PROVE TickFrom(x)'
  BY <1>7 DEF TickFrom
<1>8. \A minute, repos : Visiting(minute, repos).todo = {}
  BY DEF Visiting, Idle
<1>9. r = Min(k.repos)
  BY <1>1, <1>2 DEF AtRepo
<1>10. CASE Tick(t)
  <2>1. PICK x : x = Visiting(now, Repos)
    OBVIOUS
  <2>2. TickBecomes(t, x) \/ UNCHANGED ticks
    BY <1>10, <2>1 DEF Tick, TickBecomes
  <2>3. TickFrom(x)'
    BY <1>7, <1>8, <2>1
  <2> QED
    BY <1>4, <1>5, <1>6, <1>10, <2>2, <2>3 DEF Tick
<1>11. CASE TickHead(t)
  <2>1. PICK cached : cached = scheduleCache[r]
    OBVIOUS
  <2>2. PICK x \in ScheduleTick :
          /\ TickBecomes(t, x)
          /\ \/ x = Visiting(k.minute, k.repos \ {r})
             \/ /\ x.minute = k.minute /\ x.repos = k.repos
                /\ TickOK(x)
                /\ \/ x.pc = "load"
                   \/ Fresh(cached, x.sha) /\ x.todo = cronTodo(cached[1].entries, k.minute)
    BY <1>1, <1>2, <1>11, <2>1, HeadsOne
  <2>3. CASE x.todo = {}
    BY <1>4, <1>5, <1>6, <1>7, <1>11, <2>2, <2>3 DEF TickHead
  <2>4. CASE x.todo # {}
    <3>1. /\ x.repos = k.repos /\ Fresh(cached, x.sha)
          /\ x.todo = cronTodo(cached[1].entries, k.minute)
      BY <1>8, <2>2, <2>4 DEF TickOK
    <3>2. r \in Repos
      BY <1>2, <1>11, HeadsOne
    <3>3. cached[1] \in ToSet(cached)
      <4>1. cached \in Seq([sha : Commits, entries : SUBSET Entry]) /\ cached # <<>>
        BY <2>1, <3>1, <3>2, TypesAre DEF CacheTyped, Fresh
      <4>2. 1 \in DOMAIN cached
        <5>1. Len(cached) \in Nat /\ Len(cached) # 0
          BY <4>1, EmptySeq, LenProperties
        <5> QED
          BY <4>1, <5>1, LenProperties
      <4> QED
        BY <4>2 DEF ToSet
    <3>4. PICK kept : kept = cached[1]
      OBVIOUS
    <3>5. EntriesOf(kept.entries, r, kept.sha)'
      <4>1. EntriesOf(kept.entries, r, kept.sha)
        BY <2>1, <3>2, <3>3, <3>4 DEF WrittenInv, CacheFrom
      <4> QED
        BY <4>1, EntriesSame
    <3>6. x.todo \subseteq kept.entries /\ x.sha = kept.sha /\ Min(x.repos) = r
      BY <1>9, <3>1, <3>4 DEF cronTodo, Fresh
    <3>7. TickFrom(x)'
      BY <3>5, <3>6 DEF TickFrom, EntriesOf
    <3> QED
      BY <1>4, <1>5, <1>6, <1>11, <2>2, <3>7 DEF TickHead
  <2> QED
    BY <2>3, <2>4
<1>12. CASE TickLoad(t)
  <2>1. r \in Repos /\ k.sha \in Commits
    BY <1>1, <1>2, <1>12, LoadsOne
  <2>2. PICK read \in Reads(r, k.sha, <<>>), x \in ScheduleTick :
          /\ Pays(read.fault)
          /\ scheduleCache' = [scheduleCache EXCEPT ![r] =
                                 <<[sha |-> k.sha, entries |-> scheduled(read.found)]>>]
          /\ TickBecomes(t, x) /\ x.repos = k.repos /\ x.sha = k.sha
          /\ x.todo = cronTodo(scheduled(read.found), k.minute)
    BY <1>1, <1>2, <1>12, LoadsOne
  <2>3. EntriesOf(read.found, r, k.sha)'
    BY <2>1, <2>2, ReadsFrom
  <2>4. PICK kept : kept = [sha |-> k.sha, entries |-> scheduled(read.found)]
    OBVIOUS
  <2>5. EntriesOf(kept.entries, r, kept.sha)'
    <3>1. kept.entries \subseteq read.found /\ kept.sha = k.sha
      BY <2>4 DEF scheduled
    <3> QED
      BY <2>3, <3>1 DEF EntriesOf
  <2>6. CacheFrom'
    BY <2>1, <2>2, <2>4, <2>5, CacheStays DEF WrittenInv
  <2>7. TickFrom(x)'
    <3>1. x.todo \subseteq read.found /\ Min(x.repos) = r /\ x.sha = k.sha
      BY <1>9, <2>2 DEF cronTodo, scheduled
    <3> QED
      BY <2>3, <3>1 DEF TickFrom, EntriesOf
  <2> QED
    BY <1>4, <1>6, <1>12, <2>2, <2>6, <2>7 DEF TickLoad
<1>13. CASE TickRun(t)
  <2>1. PICK e : e = Foremost(k.todo)
    OBVIOUS
  <2>2. e \in k.todo
    BY <1>1, <1>13, <2>1, RunsOne
  <2>3. EntryOf(e, r, k.sha) /\ EntriesOf(k.todo, r, k.sha)'
    <3>1. EntriesOf(k.todo, r, k.sha)
      BY <1>3, <1>9, <2>2 DEF TickFrom
    <3> QED
      BY <2>2, <3>1, EntriesSame DEF EntriesOf
  <2>4. PICK threw \in BOOLEAN :
          /\ createRun(RunOf(e, r, "schedule", k.sha, 0, k.minute), threw, "none")
          /\ ticks' = IF threw THEN [ticks EXCEPT ![t] = Idle] ELSE [ticks EXCEPT ![t].todo = @ \ {e}]
    BY <1>1, <1>2, <1>13, <2>1 DEF TickRun
  <2>5. RunsWritten'
    BY <2>3, <2>4, CreatesWritten DEF WrittenInv
  <2>6. CASE threw
    <3>1. TickBecomes(t, Idle)
      BY <2>4, <2>6 DEF TickBecomes
    <3>2. Idle.todo = {}
      BY DEF Idle
    <3> QED
      BY <1>5, <1>6, <1>7, <1>13, <2>5, <3>1, <3>2 DEF TickRun
  <2>7. CASE ~threw
    <3>1. PICK x : x = [k EXCEPT !.todo = @ \ {e}]
      OBVIOUS
    <3>2. x.todo = k.todo \ {e} /\ x.repos = k.repos /\ x.sha = k.sha
      BY <1>3, <3>1 DEF ScheduleTick
    <3>3. TickBecomes(t, x)
      BY <1>1, <2>4, <2>7, <3>1 DEF TickBecomes
    <3>4. TickFrom(x)'
      BY <1>9, <2>3, <3>2 DEF TickFrom, EntriesOf
    <3> QED
      BY <1>5, <1>6, <1>13, <2>5, <3>3, <3>4 DEF TickRun
  <2> QED
    BY <2>6, <2>7
<1>14. CASE TickNext(t)
  <2>1. PICK x : x = Visiting(k.minute, k.repos \ {r})
    OBVIOUS
  <2>2. TickBecomes(t, x)
    BY <1>1, <1>2, <1>14, <2>1 DEF TickNext, NextRepo, TickBecomes
  <2>3. TickFrom(x)'
    BY <1>7, <1>8, <2>1
  <2> QED
    BY <1>4, <1>5, <1>6, <1>14, <2>2, <2>3 DEF TickNext
<1> QED
  BY <1>10, <1>11, <1>12, <1>13, <1>14 DEF Ticking

LEMMA WrittenStep ==
  ASSUME TypedInv, WrittenInv, [Next]_vars
  PROVE  WrittenInv'
<1>1. RunsWritten /\ CallsFrom /\ TicksFrom /\ CacheFrom
  BY DEF WrittenInv
<1>2. UNCHANGED runs => RunsWritten'
  BY <1>1, WrittenSame DEF RunsWritten
<1>3. UNCHANGED calls => CallsFrom'
  BY <1>1, CallsStay
<1>4. UNCHANGED ticks => TicksFrom'
  BY <1>1, TicksStay
<1>5. UNCHANGED scheduleCache => CacheFrom'
  BY <1>1, CacheStays
<1>6. SUFFICES RunsWritten' /\ CallsFrom' /\ TicksFrom' /\ CacheFrom'
  BY DEF WrittenInv
<1>7. ASSUME NEW x \in Call, CallFrom(x)', calls' = Append(calls, x), CallOK(x) PROVE CallsFrom'
  <2>1. \A j \in DOMAIN calls' : \/ j \in DOMAIN calls /\ calls'[j] = calls[j]
                                 \/ calls'[j] = x /\ CallFrom(x)'
    BY <1>7, NewCall
  <2> QED
    BY <1>1, <2>1, CallsStay
<1>8. ASSUME NEW r \in Repos, NEW f \in Refs, NEW c \in Commits \cup {0}, Push(r, f, c)
      PROVE  RunsWritten' /\ CallsFrom' /\ TicksFrom' /\ CacheFrom'
  <2>1. PICK x : x = [NoCall EXCEPT !.repo = r, !.ref = f, !.before = tip[r][f], !.sha = c]
    OBVIOUS
  <2>2. calls' = Append(calls, x)
    BY <1>8, <2>1 DEF Push
  <2>3. x.kind = "push" /\ x.todo = {} /\ x.prs = {}
    BY <2>1 DEF NoCall
  <2>4. x \in Call /\ CallOK(x)
    <3>1. tip[r][f] \in Commits \cup {0}
      BY DEF TypedInv, TypeOK
    <3> QED
      BY <2>1, <3>1 DEF NoCall, Call, CallOK, DefaultTypes
  <2>5. CallFrom(x)'
    BY <2>3, NothingFrom
  <2> QED
    BY <1>2, <1>4, <1>5, <1>7, <1>8, <2>2, <2>4, <2>5 DEF Push, clock
<1>9. ASSUME NEW p \in DOMAIN Pulls, OpenPull(p) \/ ReopenPull(p) \/ ClosePull(p)
      PROVE  RunsWritten' /\ CallsFrom' /\ TicksFrom' /\ CacheFrom'
  <2>1. UNCHANGED <<ticks, runs, scheduleCache>>
    BY <1>9 DEF OpenPull, ReopenPull, ClosePull, clock
  <2>2. CASE ClosePull(p)
    BY <1>2, <1>3, <1>4, <1>5, <2>1, <2>2 DEF ClosePull
  <2>3. CASE OpenPull(p) \/ ReopenPull(p)
    <3>1. PICK action \in {"opened", "reopened"} : kickActions(p, action)
      BY <2>3 DEF OpenPull, ReopenPull
    <3>2. PICK x : x = [NoCall EXCEPT !.kind = "pull", !.repo = Pulls[p].repo, !.action = action, !.pr = p]
      OBVIOUS
    <3>3. calls' = Append(calls, x)
      BY <3>1, <3>2 DEF kickActions
    <3>4. x.todo = {} /\ x.prs = {} /\ x.repo = Pulls[p].repo /\ x.pr = p
      BY <3>2 DEF NoCall
    <3>5. x \in Call /\ CallOK(x)
      <4>1. Pulls[p].repo \in Repos /\ "main" \in Branches
        BY TriggersAssumption
      <4> QED
        BY <3>2, <4>1 DEF NoCall, Call, CallOK, DefaultTypes, Refs
    <3>6. CallFrom(x)'
      BY <3>4, NothingFrom
    <3>7. CallsFrom'
      BY <1>7, <3>3, <3>5, <3>6
    <3> QED
      BY <1>2, <1>4, <1>5, <2>1, <3>7
  <2> QED
    BY <1>9, <2>2, <2>3
<1>10. ASSUME NEW i \in DOMAIN calls, Handle(i)
       PROVE  RunsWritten' /\ CallsFrom' /\ TicksFrom' /\ CacheFrom'
  <2>1. UNCHANGED ticks
    BY <1>10, HandleStep DEF clock
  <2>2. CacheFrom'
    <3>1. calls[i].repo \in Repos
      BY TypesAre DEF Call
    <3>2. \/ UNCHANGED scheduleCache
          \/ \E r \in Repos : scheduleCache' = [scheduleCache EXCEPT ![r] = <<>>]
      BY <1>10, <3>1, HandleStep
    <3> QED
      BY <1>1, <3>2, CacheStays
  <2>3. RunsWritten' /\ \E x : Becomes(i, x) /\ CallFrom(x)'
    BY <1>1, <1>10, HandleFrom
  <2>4. CallsFrom'
    <3>1. PICK x : Becomes(i, x) /\ CallFrom(x)'
      BY <2>3
    <3>2. \A j \in DOMAIN calls' : \/ j \in DOMAIN calls /\ calls'[j] = calls[j]
                                   \/ calls'[j] = x /\ CallFrom(x)'
      <4>1. calls \in Seq(Call)
        BY DEF TypedInv, TypeOK
      <4> QED
        BY <3>1, <4>1 DEF Becomes
    <3> QED
      BY <1>1, <3>2, CallsStay
  <2> QED
    BY <1>4, <2>1, <2>2, <2>3, <2>4
<1>11. ASSUME NEW r \in Repos, NEW f \in Refs, Dispatch(r, f)
       PROVE  RunsWritten' /\ CallsFrom' /\ TicksFrom' /\ CacheFrom'
  <2>1. PICK sha : sha = tip[r][f]
    OBVIOUS
  <2>2. sha \in Commits
    BY <1>11, <2>1 DEF Dispatch, TypedInv, TypeOK
  <2>3. PICK e \in Entries(r, sha), threw \in BOOLEAN :
          createRun(RunOf(e, r, "workflow_dispatch", sha, 0, 0), threw, "dispatch")
    BY <1>11, <2>1 DEF Dispatch
  <2>4. EntryOf(e, r, sha)
    BY <2>2, <2>3, EntriesAre DEF EntriesOf
  <2>5. RunsWritten'
    BY <1>1, <2>3, <2>4, CreatesWritten
  <2> QED
    BY <1>3, <1>4, <1>5, <1>11, <2>5 DEF Dispatch, clock
<1>12. ASSUME NEW run \in BagToSet(runs), rerun(run)
       PROVE  RunsWritten' /\ CallsFrom' /\ TicksFrom' /\ CacheFrom'
  <2>1. run.repo \in Repos /\ run.sha \in Commits
    BY TypesAre DEF RunsTyped
  <2>2. PICK e \in Entries(run.repo, run.sha), threw \in BOOLEAN :
          createRun(RunOf(e, run.repo, run.event, run.sha, run.pr, 0), threw, "rerun")
    BY <1>12 DEF rerun
  <2>3. EntryOf(e, run.repo, run.sha)
    BY <2>1, <2>2, EntriesAre DEF EntriesOf
  <2>4. RunsWritten'
    BY <1>1, <2>2, <2>3, CreatesWritten
  <2> QED
    BY <1>3, <1>4, <1>5, <1>12, <2>4 DEF rerun, clock
<1>13. CASE Minute \/ UNCHANGED vars
  <2>1. UNCHANGED <<calls, ticks, runs, scheduleCache>>
    BY <1>13 DEF Minute, vars, clock
  <2> QED
    BY <1>2, <1>3, <1>4, <1>5, <2>1
<1>14. ASSUME NEW t \in Ticks, Ticking(t)
       PROVE  RunsWritten' /\ CallsFrom' /\ TicksFrom' /\ CacheFrom'
  <2>1. UNCHANGED calls
    BY <1>14, TicksStep
  <2> QED
    BY <1>3, <1>14, <2>1, TickingFrom
<1>15. CASE Restart
  <2>1. CallsFrom'
    <3>1. ASSUME NEW j \in DOMAIN calls'
          PROVE  \/ j \in DOMAIN calls /\ calls'[j] = calls[j]
                 \/ \E x : calls'[j] = x /\ CallFrom(x)'
      <4>1. j \in DOMAIN calls /\ (calls'[j] = calls[j] \/ Dies(j))
        BY <1>15, Restarts
      <4>2. ASSUME Dies(j) PROVE \E x : calls'[j] = x /\ CallFrom(x)'
        <5>1. PICK c : c = calls[j]
          OBVIOUS
        <5>2. c \in Call /\ CallFrom(c)
          BY <1>1, <4>1, <5>1, TypesAre DEF CallsFrom, ToSet
        <5>3. PICK x : x = [c EXCEPT !.pc = "failed", !.prs = {}, !.todo = {}]
          OBVIOUS
        <5>4. x.todo = {} /\ x.prs = {} /\ x.kind = c.kind /\ x.repo = c.repo /\ x.pr = c.pr
          BY <5>2, <5>3 DEF Call
        <5>5. CallFrom(x)'
          BY <5>2, <5>4, NothingFrom DEF CallFrom
        <5> QED
          BY <4>2, <5>1, <5>3, <5>5 DEF Dies
      <4> QED
        BY <4>1, <4>2
    <3> QED
      BY <1>1, <3>1, CallsStay
  <2>2. TicksFrom'
    <3>1. TickFrom(Idle)'
      BY DEF TickFrom, Idle
    <3>2. \A t \in Ticks : ticks'[t] = Idle
      BY <1>15 DEF Restart
    <3> QED
      BY <1>1, <3>1, <3>2, TicksStay
  <2>3. CacheFrom'
    BY <1>1, <1>15, CacheStays DEF Restart
  <2> QED
    BY <1>2, <1>15, <2>1, <2>2, <2>3 DEF Restart
<1> QED
  BY <1>8, <1>9, <1>10, <1>11, <1>12, <1>13, <1>14, <1>15, NextCases

LEMMA WrittenInit == Init => WrittenInv
<1> SUFFICES ASSUME Init PROVE WrittenInv
  OBVIOUS
<1>1. BagToSet(runs) = {}
  BY DEF Init, EmptyBag, SetToBag, BagToSet
<1>2. ToSet(calls) = {}
  BY DEF Init, ToSet
<1>3. \A t \in Ticks : ticks[t].todo = {}
  BY DEF Init, Idle
<1>4. \A r \in Repos : ToSet(scheduleCache[r]) = {}
  BY DEF Init, ToSet
<1> QED
  BY <1>1, <1>2, <1>3, <1>4 DEF WrittenInv, RunsWritten, CallsFrom, TicksFrom, TickFrom, CacheFrom

\* What the handlers, the ticks and the cached schedules hold was read of the commit they hold it
\* for, and every run says what its file does.
THEOREM WrittenInvariant == Spec => [](TypedInv /\ WrittenInv)
<1>1. Init => TypedInv /\ WrittenInv
  BY TypedInit, WrittenInit
<1>2. TypedInv /\ WrittenInv /\ [Next]_vars => (TypedInv /\ WrittenInv)'
  BY TypedStep, WrittenStep
<1> QED
  BY <1>1, <1>2, PTL DEF Spec

\* A queued run has exactly the jobs its file's matrices stand for, of a file whose jobs can all be
\* finished; files are reported invalid, and runs closed at their start, only for a reason.
THEOREM JobsAreWritten == Spec => []JobsAsWritten
<1>1. ASSUME TypedInv, WrittenInv PROVE JobsAsWritten
  <2> DEFINE Jobs(file) == UNION {LET combos == MatrixJobs(job.matrix)
                                  IN {[id |-> job.id, at |-> at, combo |-> combos[at]] : at \in DOMAIN combos} :
                                    job \in ToSet(file.jobs)}
             Says(run, file) ==
               /\ file.path = run.path
               /\ run.status = "queued" => Sound(file) /\ Small(file) /\ run.jobs = Jobs(file)
               /\ run.status = "invalid" /\ Unused({"git"}) => ~Sound(file)
               /\ run.status = "failed" /\ Unused({"db"}) => ~Small(file)
  <2>1. SUFFICES ASSUME NEW run \in BagToSet(runs)
                 PROVE  \E d \in DOMAIN scene.tree[run.repo][run.sha] :
                          \E file \in ToSet(scene.tree[run.repo][run.sha][d]) : Says(run, file)
    BY DEF JobsAsWritten
  <2>2. PICK d \in DOMAIN scene.tree[run.repo][run.sha] :
          \E file \in ToSet(scene.tree[run.repo][run.sha][d]) : WrittenAs(run, file)
    BY <1>1, <2>1 DEF WrittenInv, RunsWritten, Written
  <2>3. PICK file \in ToSet(scene.tree[run.repo][run.sha][d]) : WrittenAs(run, file)
    BY <2>2
  <2>4. /\ file.jobs \in Seq(ToSet(file.jobs))
        /\ \A job \in ToSet(file.jobs) : /\ job.needs \in Seq(ToSet(job.needs))
                                         /\ job.matrix.include \in Seq(ToSet(job.matrix.include))
    <3>1. run.repo \in Repos /\ run.sha \in Commits /\ scene \in Scenes
      BY <1>1, <2>1, TypesAre DEF RunsTyped
    <3>2. Directory(scene.tree[run.repo][run.sha][d])
      BY <2>2, <3>1, TriggersAssumption
    <3>3. PICK i \in DOMAIN scene.tree[run.repo][run.sha][d] : file = scene.tree[run.repo][run.sha][d][i]
      BY <2>3 DEF ToSet
    <3>4. /\ IsSequence(file.jobs)
          /\ \A job \in ToSet(file.jobs) : IsSequence(job.needs) /\ IsSequence(job.matrix.include)
      BY <3>2, <3>3, Zenon DEF Directory
    <3> QED
      BY <3>4, Zenon DEF IsSequence
  <2>5. parseWorkflow(file) <=> Sound(file)
    BY <2>4, ParsesSound
  <2>6. (\A i \in DOMAIN file.jobs : expands(file.jobs[i].matrix)) <=> Small(file)
    BY <2>4, ExpandSmall
  <2>7. JobRows(file.jobs) = Jobs(file)
    <3>1. \A job \in ToSet(file.jobs) : expandMatrix(job.matrix) = MatrixJobs(job.matrix)
      BY <2>4, ExpandsAsWritten
    <3> QED
      BY <3>1 DEF JobRows
  <2>8. Says(run, file)
    <3> HIDE DEF Jobs
    <3> QED
      BY <2>3, <2>5, <2>6, <2>7 DEF WrittenAs
  <2> QED
    <3> HIDE DEF Says
    <3> QED
      BY <2>2, <2>3, <2>8
<1> QED
  BY <1>1, WrittenInvariant, PTL

=============================================================================

------------------------- MODULE InstanceUpdaterProofs -------------------------
(* What InstanceUpdater promises for any number of requests and any number *)
(* of failing steps, rejected saves, crashes and power losses.             *)
EXTENDS InstanceUpdater, TLAPS

(* -------------------------------- invariant --------------------------- *)

J == jobs[Len(jobs)]
D == disk[Len(disk)]
Open == {"checking", "running"}
DiskActive == disk # <<>> /\ D.status \in Active

\* One operation at a time, of the last job; memory and state.json differ in that job
\* only, and a record that is active is the last one.
Ledger ==
  /\ \A m, n \in DOMAIN jobs : jobs[m].id = jobs[n].id => m = n
  /\ \A m, n \in DOMAIN disk : disk[m].id = disk[n].id => m = n
  /\ \A n \in DOMAIN disk : n # Len(disk) => disk[n].status \notin Active
  /\ ~up => jobs = <<>> /\ busy = {} /\ InFlight = {}
  /\ \A id \in InFlight \cup busy : jobs # <<>> /\ J.id = id
  /\ busy # {} => InFlight = {}

\* The operation has been saved when it begins, and is active until it settles.
InOperation ==
  InFlight # {} =>
    /\ Len(jobs) = Len(disk)
    /\ \A n \in DOMAIN disk : n # Len(disk) => jobs[n] = disk[n]
    /\ J.status \in Open /\ DiskActive

\* Otherwise memory holds what is saved, or one job more that could not be saved yet.
OutOfOperation ==
  up /\ InFlight = {} =>
    \/ jobs = disk /\ busy = {}
    \/ /\ Len(jobs) = Len(disk) + 1
       /\ \A n \in DOMAIN disk : jobs[n] = disk[n]
       /\ J.status \in Open /\ ~J.quiesced /\ J.database = "unchanged"
       /\ ~DiskActive

\* The host between two updates, and as an update finds it.
Settled ==
  /\ world.migration # "running"
  /\ world.image = world.database /\ world.release = world.database
Before == Settled /\ world.database = "old"
Committed == world.database = "new" /\ world.migration # "running"

\* Where an operation is tells what it has done to the host.
Place(id) ==
  /\ run[id].pc = "plan" => Settled
  /\ run[id].pc \in {"prepare", "guard", "count"} => Before /\ ~J.quiesced
  /\ run[id].pc \in Saving \cup Resuming \cup (Steps \ {"prepare", "guard", "count"}) => J.quiesced
  /\ run[id].pc \in {"quiesce", "stop", "stop ssh", "final", "uncertain", "migrate"} \cup Resuming => Before
  /\ run[id].pc \in {"prepare", "guard", "count", "quiesce", "stop", "stop ssh", "final"} \cup Resuming =>
       J.database = "unchanged"
  /\ run[id].pc \in {"uncertain", "migrate", "migrating"} => J.database = "uncertain"
  /\ run[id].pc \in {"stop", "stop ssh", "final", "uncertain", "migrate"} => D.quiesced
  /\ run[id].pc = "migrating" =>
       IF world.migration = "committed" THEN world.database = "new"
       ELSE world.database = "old" /\ world.image = "old" /\ world.release = "old"
  /\ run[id].pc \in {"record", "catch"} =>
       /\ J.database = "unchanged" => Before
       /\ J.database = "committed" => Committed
       /\ ~J.quiesced => J.database = "unchanged"
  /\ run[id].pc \in {"activate", "health", "publish", "start ssh"} =>
       J.database = "committed" /\ Committed
  /\ run[id].pc \in {"health", "publish", "start ssh"} => world.image = "new"
  /\ run[id].pc = "start ssh" => world.release = "new"
  /\ run[id].pc \in {"cleanup", "settle"} =>
       /\ run[id].outcome # "recovery_required" => Settled
       /\ run[id].outcome = "recovery_required" => J.quiesced /\ world.maintenance
       /\ run[id].outcome = "checked" /\ J.available => world.release = "old"
  /\ run[id].pc = "count" \/ (J.quiesced /\ run[id].pc \notin {"cleanup", "settle"}) => world.maintenance

\* What is not settled is on record with its services stopped, and no writes are taken
\* while the worker runs.
Tracked == Settled \/ (DiskActive /\ D.quiesced)
Paused == up => world.maintenance \/ (world.migration # "running" /\ world.image = world.database)
CoreOK == world.core \in {"off", world.image}

\* The update that a check calls available is one from the old revision.
Available ==
  /\ disk # <<>> /\ D.status = "checked" /\ D.available => world.release = "old"
  /\ busy # {} /\ J.operation = "apply" => Before

UpdaterInv ==
  /\ TypeOK /\ Ledger /\ InOperation /\ OutOfOperation
  /\ \A id \in InFlight : Place(id)
  /\ Tracked /\ Paused /\ CoreOK /\ Available

(* --------------------------- jobs and records --------------------------- *)

LEMMA MapTyped ==
  ASSUME NEW S, NEW s \in Seq(S), NEW t, t = [n \in DOMAIN s |-> t[n]],
         \A n \in DOMAIN s : t[n] \in S
  PROVE  t \in Seq(S) /\ Len(t) = Len(s) /\ DOMAIN t = 1 .. Len(s)
<1>1. DOMAIN s = 1 .. Len(s) /\ Len(s) \in Nat
  OBVIOUS
<1>2. t \in [1 .. Len(s) -> S]
  BY <1>1
<1> QED
  BY <1>1, <1>2

\* What is known of an operation in flight.
LEMMA FlightFacts ==
  ASSUME UpdaterInv, NEW id \in Ids, run[id].pc # "none"
  PROVE  /\ InFlight = {id} /\ up /\ busy = {}
         /\ Len(jobs) \in Nat \ {0} /\ Len(disk) = Len(jobs)
         /\ DOMAIN jobs = 1 .. Len(jobs) /\ DOMAIN disk = 1 .. Len(disk)
         /\ J \in Job /\ D \in Job /\ J.id = id /\ JobOf(id) = J
         /\ J.status \in Open /\ D.status \in Active
         /\ Place(id)
<1> USE DEF UpdaterInv
<1>1. id \in InFlight
  BY DEF InFlight
<1>2. up /\ busy = {} /\ jobs # <<>> /\ J.id = id
  BY <1>1 DEF Ledger
<1>3. InFlight = {id}
  BY <1>1 DEF Ledger, InFlight
<1>4. /\ Len(disk) = Len(jobs) /\ J.status \in Open /\ disk # <<>> /\ D.status \in Active
  BY <1>1 DEF InOperation, DiskActive
<1>5. /\ Len(jobs) \in Nat \ {0} /\ DOMAIN jobs = 1 .. Len(jobs) /\ DOMAIN disk = 1 .. Len(disk)
      /\ J \in Job /\ D \in Job
  BY <1>2, <1>4 DEF TypeOK, J, D
<1>6. Len(jobs) \in DOMAIN jobs
  BY <1>5
<1>7. ASSUME NEW n \in DOMAIN jobs, jobs[n].id = id PROVE n = Len(jobs)
  BY <1>2, <1>6, <1>7 DEF Ledger, J
<1>8. JobOf(id) = J
  BY <1>2, <1>6, <1>7 DEF JobOf, J
<1> QED
  BY <1>1, <1>2, <1>3, <1>4, <1>5, <1>8

\* SetJob changes the last job only.
LEMMA SetJobFacts ==
  ASSUME UpdaterInv, NEW id \in Ids, run[id].pc # "none", NEW j \in Job, j.id = id, SetJob(j)
  PROVE  /\ jobs' \in Seq(Job) /\ Len(jobs') = Len(jobs) /\ DOMAIN jobs' = 1 .. Len(jobs)
         /\ J' = j
         /\ \A n \in DOMAIN jobs : n # Len(jobs) => jobs'[n] = jobs[n]
         /\ \A n \in DOMAIN jobs : jobs'[n].id = jobs[n].id
<1>1. jobs' = [n \in DOMAIN jobs |-> IF jobs[n].id = j.id THEN j ELSE jobs[n]]
  BY DEF SetJob
<1>2. jobs \in Seq(Job) /\ \A n \in DOMAIN jobs : jobs[n] \in Job
  BY DEF UpdaterInv, TypeOK
<1>3. \A n \in DOMAIN jobs : jobs'[n] \in Job
  BY <1>1, <1>2
<1>4. jobs' \in Seq(Job) /\ Len(jobs') = Len(jobs) /\ DOMAIN jobs' = 1 .. Len(jobs)
  BY <1>1, <1>2, <1>3, MapTyped
<1>5. Len(jobs) \in DOMAIN jobs /\ jobs[Len(jobs)].id = id
  BY FlightFacts DEF J
<1>6. \A n \in DOMAIN jobs : jobs[n].id = id => n = Len(jobs)
  BY <1>5 DEF UpdaterInv, Ledger
<1> QED
  BY <1>1, <1>4, <1>5, <1>6 DEF J

(* ------------------------ steps of an operation ------------------------- *)

\* A step of the operation in flight that does not end it.
Moves(id, q) ==
  /\ run[id].pc # "none"
  /\ q \in [pc : Pcs \ {"none"}, outcome : Outcomes]
  /\ run' = [run EXCEPT ![id] = q]
  /\ UNCHANGED <<up, busy>>
  /\ world' \in World /\ work' \subseteq Tasks \cup Uncounted
  /\ poisoned' \in BOOLEAN /\ raced' \subseteq Uncounted /\ left' \in [Events -> Nat]

LEMMA MovesFlight ==
  ASSUME UpdaterInv, NEW id \in Ids, NEW q, Moves(id, q)
  PROVE  /\ run'[id] = q /\ run' \in [Ids -> [pc : Pcs, outcome : Outcomes]]
         /\ InFlight' = {id}
<1>1. run'[id] = q /\ run' \in [Ids -> [pc : Pcs, outcome : Outcomes]]
  BY DEF Moves, UpdaterInv, TypeOK
<1>2. ASSUME NEW i \in Ids, i # id PROVE run'[i].pc = "none"
  <2>1. run'[i] = run[i]
    BY <1>2 DEF Moves, UpdaterInv, TypeOK
  <2>2. i \notin InFlight
    BY <1>2, FlightFacts DEF Moves
  <2> QED
    BY <2>1, <2>2 DEF InFlight
<1>3. run'[id].pc # "none"
  BY <1>1 DEF Moves
<1> QED
  BY <1>1, <1>2, <1>3 DEF InFlight

\* It leaves jobs and records alone.
LEMMA HostStep ==
  ASSUME UpdaterInv, NEW id \in Ids, NEW q, Moves(id, q), UNCHANGED <<jobs, disk>>,
         Place(id)', Tracked', Paused', CoreOK'
  PROVE  UpdaterInv'
<1>1. run' \in [Ids -> [pc : Pcs, outcome : Outcomes]] /\ InFlight' = {id} /\ InFlight = {id} /\ up
  BY MovesFlight, FlightFacts DEF Moves
<1>2. busy = {} /\ busy' = {} /\ up' /\ D.status \in Active
  BY <1>1, FlightFacts DEF Moves
<1>3. TypeOK'
  BY <1>1 DEF Moves, UpdaterInv, TypeOK
<1>4. Ledger' /\ InOperation' /\ OutOfOperation'
  BY <1>1, <1>2 DEF UpdaterInv, Ledger, InOperation, OutOfOperation, DiskActive, J, D
<1>5. Available'
  BY <1>2 DEF Available, D, Active
<1> QED
  BY <1>1, <1>3, <1>4, <1>5 DEF UpdaterInv

\* It changes its job in memory.
LEMMA JobStep ==
  ASSUME UpdaterInv, NEW id \in Ids, NEW q, Moves(id, q),
         NEW j \in Job, j.id = id, j.status = J.status, SetJob(j), UNCHANGED disk,
         Place(id)', Tracked', Paused', CoreOK'
  PROVE  UpdaterInv'
<1>0. run[id].pc # "none"
  BY DEF Moves
<1>1. run' \in [Ids -> [pc : Pcs, outcome : Outcomes]] /\ InFlight' = {id} /\ InFlight = {id} /\ up
  BY <1>0, MovesFlight, FlightFacts
<1>2. busy = {} /\ busy' = {} /\ up' /\ D.status \in Active /\ J.status \in Open
  BY <1>0, <1>1, FlightFacts DEF Moves
<1>3. /\ jobs' \in Seq(Job) /\ Len(jobs') = Len(jobs) /\ DOMAIN jobs' = DOMAIN jobs
      /\ J' = j
      /\ \A n \in DOMAIN jobs : n # Len(jobs) => jobs'[n] = jobs[n]
      /\ \A n \in DOMAIN jobs : jobs'[n].id = jobs[n].id
  BY <1>0, SetJobFacts, FlightFacts
<1>4. TypeOK'
  BY <1>1, <1>3 DEF Moves, UpdaterInv, TypeOK
<1>5. Len(jobs) = Len(disk) /\ Len(jobs) \in Nat \ {0} /\ DOMAIN disk = DOMAIN jobs
  BY <1>0, FlightFacts
<1>6. jobs' # <<>>
  BY <1>3, <1>5
<1>7. Ledger'
  BY <1>1, <1>2, <1>3, <1>6 DEF UpdaterInv, Ledger
<1>8. InOperation' /\ OutOfOperation'
  BY <1>1, <1>2, <1>3, <1>5 DEF UpdaterInv, InOperation, OutOfOperation, DiskActive, D
<1>9. Available'
  BY <1>2 DEF Available, D, Active
<1> QED
  BY <1>1, <1>4, <1>7, <1>8, <1>9 DEF UpdaterInv

\* It saves memory.
LEMMA SaveStep ==
  ASSUME UpdaterInv, NEW id \in Ids, NEW q, Moves(id, q), UNCHANGED jobs, disk' = jobs,
         Place(id)', Tracked', Paused', CoreOK'
  PROVE  UpdaterInv'
<1>0. run[id].pc # "none"
  BY DEF Moves
<1>1. run' \in [Ids -> [pc : Pcs, outcome : Outcomes]] /\ InFlight' = {id} /\ InFlight = {id} /\ up
  BY <1>0, MovesFlight, FlightFacts
<1>2. /\ busy = {} /\ busy' = {} /\ up' /\ J.status \in Open
      /\ jobs # <<>> /\ Len(jobs) = Len(disk) /\ DOMAIN disk = DOMAIN jobs
  BY <1>0, <1>1, FlightFacts DEF Moves
<1>3. D' = J /\ J' = J
  BY DEF D, J
<1>4. TypeOK'
  BY <1>1 DEF Moves, UpdaterInv, TypeOK
<1>5. \A n \in DOMAIN jobs : n # Len(jobs) => jobs[n].status \notin Active
  BY <1>1, <1>2 DEF UpdaterInv, Ledger, InOperation
<1>6. Ledger'
  BY <1>1, <1>2, <1>3, <1>5 DEF UpdaterInv, Ledger
<1>7. InOperation' /\ OutOfOperation'
  BY <1>1, <1>2, <1>3 DEF InOperation, OutOfOperation, DiskActive, Open, Active
<1>8. Available'
  BY <1>2, <1>3 DEF Available, Open
<1> QED
  BY <1>1, <1>4, <1>6, <1>7, <1>8 DEF UpdaterInv

\* The record an operation has after Goto.
At(id, pc) == [pc |-> pc, outcome |-> run[id].outcome]

LEMMA GotoRecord ==
  ASSUME UpdaterInv, NEW id \in Ids, run[id].pc # "none", NEW pc \in Pcs \ {"none"}
  PROVE  /\ At(id, pc) \in [pc : Pcs \ {"none"}, outcome : Outcomes]
         /\ Goto(id, pc) => run' = [run EXCEPT ![id] = At(id, pc)]
BY DEF UpdaterInv, TypeOK, At, Goto

LEMMA EndRecord ==
  ASSUME NEW id \in Ids, NEW o \in Outcomes
  PROVE  [pc |-> "cleanup", outcome |-> o] \in [pc : Pcs \ {"none"}, outcome : Outcomes]
BY DEF Pcs

LEMMA LeftTyped ==
  ASSUME UpdaterInv
  PROVE  \A e \in Events : Spend(e) => left' \in [Events -> Nat]
BY DEF UpdaterInv, TypeOK, Spend

\* A step that touches neither host nor jobs.
LEMMA Advance ==
  ASSUME UpdaterInv, NEW id \in Ids, NEW q, Moves(id, q), UNCHANGED <<jobs, disk, world>>,
         Place(id)'
  PROVE  UpdaterInv'
<1>1. Tracked' /\ Paused' /\ CoreOK'
  BY DEF UpdaterInv, Moves, Tracked, Settled, DiskActive, D, Paused, CoreOK
<1> QED
  BY <1>1, HostStep

LEMMA PlanKeeps ==
  ASSUME UpdaterInv, NEW id \in Ids, Plan(id)
  PROVE  UpdaterInv'
<1>1. run[id].pc = "plan" /\ run[id].pc # "none"
  BY DEF Plan
<1>2. PICK outcome \in {"checked", "failed"} :
        run' = [run EXCEPT ![id] = [pc |-> "settle", outcome |-> outcome]]
  BY DEF Plan
<1> DEFINE q == [pc |-> "settle", outcome |-> outcome]
           j == [J EXCEPT !.available = (world.release = "old")]
<1>3. Moves(id, q)
  BY <1>1, <1>2 DEF Plan, Moves, UpdaterInv, TypeOK, Pcs, Outcomes
<1>4. j \in Job /\ j.id = id /\ j.status = J.status /\ SetJob(j) /\ j.available = (world.release = "old")
  BY <1>1, FlightFacts DEF Plan, Job
<1>5. run'[id] = q /\ Settled
  BY <1>1, <1>3, MovesFlight, FlightFacts DEF Place
<1>6. J' = j
  BY <1>1, <1>4, SetJobFacts
<1>7. UNCHANGED <<disk, world, up>>
  BY DEF Plan
<1>8. Place(id)'
  <2>1. run'[id].pc = "settle" /\ run'[id].outcome # "recovery_required"
    BY <1>5
  <2>3. J'.available => world'.release = "old"
    <3> HIDE DEF j
    <3> QED
      BY <1>4, <1>6, <1>7
  <2>2. Settled'
    BY <1>5, <1>7 DEF Settled
  <2> QED
    BY <2>1, <2>2, <2>3 DEF Place, Saving, Resuming, Steps
<1>9. Tracked' /\ Paused' /\ CoreOK'
  BY <1>5, <1>7 DEF UpdaterInv, Tracked, Settled, Paused, CoreOK
<1> HIDE DEF q, j
<1> QED
  BY <1>3, <1>4, <1>7, <1>8, <1>9, JobStep

LEMMA PrepareKeeps ==
  ASSUME UpdaterInv, NEW id \in Ids, Prepare(id) \/ Guard(id)
  PROVE  UpdaterInv'
<1>1. run[id].pc \in {"prepare", "guard"} /\ run[id].pc # "none" /\ Place(id)
  BY FlightFacts DEF Prepare, Guard
<1>2. PICK pc \in {"guard", "count"} :
        /\ Goto(id, pc)
        /\ pc = "guard" => world' = world
        /\ pc = "count" => world' = [world EXCEPT !.maintenance = TRUE]
        /\ UNCHANGED <<up, jobs, disk, busy, poisoned, work, raced, left>>
  BY DEF Prepare, Guard
<1>3. pc \in Pcs \ {"none"}
  BY <1>2 DEF Pcs, Steps
<1>4. Moves(id, At(id, pc))
  BY <1>1, <1>2, <1>3, GotoRecord DEF Moves, UpdaterInv, TypeOK, World
<1>5. run'[id].pc = pc /\ J' = J /\ D' = D
  BY <1>2, <1>4, MovesFlight DEF At, J, D
<1>6. /\ world'.migration = world.migration /\ world'.image = world.image /\ world'.core = world.core
      /\ world'.database = world.database /\ world'.release = world.release
      /\ pc = "count" => world'.maintenance
      /\ world.maintenance => world'.maintenance
  BY <1>2 DEF UpdaterInv, TypeOK, World
<1>7. Place(id)'
  BY <1>1, <1>5, <1>6 DEF Place, Before, Settled, Saving, Resuming, Steps
<1>8. Tracked' /\ Paused' /\ CoreOK'
  BY <1>2, <1>5, <1>6 DEF UpdaterInv, Tracked, Settled, Paused, CoreOK, DiskActive
<1> QED
  BY <1>2, <1>4, <1>7, <1>8, HostStep

LEMMA GuardCountsKeeps ==
  ASSUME UpdaterInv, NEW id \in Ids, GuardCounts(id)
  PROVE  UpdaterInv'
<1>1. run[id].pc = "count" /\ run[id].pc # "none" /\ Place(id)
  BY FlightFacts DEF GuardCounts
<1>2. Before /\ ~J.quiesced /\ J.database = "unchanged" /\ world.maintenance
  BY <1>1 DEF Place
<1>3. /\ UNCHANGED <<up, disk, busy, poisoned, world, work, left>>
      /\ raced' \subseteq Uncounted
  BY DEF GuardCounts
<1>4. CASE work \cap Tasks # {}
  <2>1. Goto(id, "catch") /\ UNCHANGED jobs
    BY <1>4 DEF GuardCounts
  <2>2. Moves(id, At(id, "catch"))
    BY <1>1, <1>3, <2>1, GotoRecord DEF Moves, UpdaterInv, TypeOK, Pcs
  <2>3. run'[id].pc = "catch" /\ J' = J
    BY <2>1, <2>2, MovesFlight DEF At, J
  <2>4. Place(id)'
    BY <1>2, <1>3, <2>3 DEF Place, Before, Settled, Saving, Resuming, Steps
  <2> QED
    BY <1>3, <2>1, <2>2, <2>4, Advance
<1>5. CASE work \cap Tasks = {}
  <2> DEFINE j == [J EXCEPT !.quiesced = TRUE]
  <2>1. Goto(id, "quiesce") /\ SetJob(j)
    BY <1>1, <1>5, FlightFacts DEF GuardCounts
  <2>2. Moves(id, At(id, "quiesce"))
    BY <1>1, <1>3, <2>1, GotoRecord DEF Moves, UpdaterInv, TypeOK, Pcs, Saving
  <2>3. j \in Job /\ j.id = id /\ j.status = J.status /\ j.quiesced /\ j.database = "unchanged"
    BY <1>1, <1>2, FlightFacts DEF Job
  <2> HIDE DEF j
  <2>4. run'[id].pc = "quiesce" /\ J' = j
    <3>1. run'[id] = At(id, "quiesce")
      BY <2>2, MovesFlight
    <3>2. J' = j
      BY <1>1, <2>1, <2>3, SetJobFacts
    <3> QED
      BY <3>1, <3>2 DEF At
  <2>5. Place(id)'
    BY <1>2, <1>3, <2>3, <2>4 DEF Place, Before, Settled, Saving, Resuming, Steps
  <2>6. Tracked' /\ Paused' /\ CoreOK'
    BY <1>3 DEF UpdaterInv, Tracked, Settled, Paused, CoreOK, DiskActive, D
  <2> QED
    BY <1>3, <2>1, <2>2, <2>3, <2>5, <2>6, JobStep
<1> QED
  BY <1>4, <1>5

LEMMA SaveKeeps ==
  ASSUME UpdaterInv, NEW id \in Ids, Save(id)
  PROVE  UpdaterInv'
<1>1. run[id].pc \in Saving /\ run[id].pc # "none" /\ Place(id) /\ JobOf(id) = J
      /\ J.status \in Open /\ jobs # <<>>
  BY FlightFacts DEF Save, Saving
<1>2. /\ J.quiesced /\ world.maintenance
      /\ run[id].pc \in {"quiesce", "uncertain"} => Before
      /\ run[id].pc = "quiesce" => J.database = "unchanged"
      /\ run[id].pc = "uncertain" => J.database = "uncertain"
      /\ J.database = "unchanged" => Before
      /\ J.database = "committed" => Committed
  BY <1>1 DEF Place, Saving
<1> DEFINE pc == CASE run[id].pc = "quiesce" -> "stop"
                   [] run[id].pc = "uncertain" -> "migrate"
                   [] OTHER -> IF JobOf(id).database = "committed" THEN "activate" ELSE "catch"
<1>3. Goto(id, pc) /\ disk' = jobs /\ UNCHANGED <<up, jobs, busy, poisoned, world, work, raced, left>>
  BY DEF Save
<1>4. /\ pc \in {"stop", "migrate", "activate", "catch"}
      /\ pc = "stop" => run[id].pc = "quiesce"
      /\ pc = "migrate" => run[id].pc = "uncertain"
      /\ pc = "activate" => J.database = "committed"
  BY <1>1
<1> HIDE DEF pc
<1>5. pc \in Pcs \ {"none"}
  BY <1>4 DEF Pcs, Steps
<1>6. Moves(id, At(id, pc))
  BY <1>1, <1>3, <1>5, GotoRecord DEF Moves, UpdaterInv, TypeOK
<1>7. run'[id].pc = pc /\ J' = J /\ D' = J
  BY <1>3, <1>6, MovesFlight DEF At, J, D
<1>8. Place(id)'
  BY <1>2, <1>3, <1>4, <1>7 DEF Place, Before, Settled, Committed, Saving, Resuming, Steps
<1>9. Tracked' /\ Paused' /\ CoreOK'
  BY <1>1, <1>2, <1>3, <1>7 DEF UpdaterInv, Tracked, Paused, CoreOK, DiskActive, Open, Active
<1> QED
  BY <1>3, <1>6, <1>8, <1>9, SaveStep

\* Services are stopped or started, or the release is published.
LEMMA ServicesKeep ==
  ASSUME UpdaterInv, NEW id \in Ids,
         StopCore(id) \/ StopSsh(id) \/ MigrationStarts(id) \/ Activate(id) \/ Health(id)
           \/ Publish(id) \/ ResumeOld(id)
  PROVE  UpdaterInv'
<1> DEFINE pc == CASE run[id].pc = "stop" -> "stop ssh" [] run[id].pc = "stop ssh" -> "final"
                   [] run[id].pc = "migrate" -> "migrating" [] run[id].pc = "activate" -> "health"
                   [] run[id].pc = "health" -> "publish" [] run[id].pc = "publish" -> "start ssh"
                   [] OTHER -> "resume ssh"
<1>1. /\ run[id].pc \in {"stop", "stop ssh", "migrate", "activate", "health", "publish", "resume"}
      /\ run[id].pc # "none" /\ Place(id) /\ Goto(id, pc)
      /\ DiskActive /\ D \in Job /\ J.quiesced
  <2>1. /\ run[id].pc \in {"stop", "stop ssh", "migrate", "activate", "health", "publish", "resume"}
        /\ Goto(id, pc)
    BY DEF StopCore, StopSsh, MigrationStarts, Activate, Health, Publish, ResumeOld
  <2>2. run[id].pc # "none"
    BY <2>1
  <2>3. Place(id) /\ DiskActive /\ D \in Job
    BY <2>2, FlightFacts DEF UpdaterInv, InOperation
  <2> QED
    BY <2>1, <2>2, <2>3 DEF Place, Resuming, Steps
<1>2. /\ UNCHANGED <<up, jobs, disk, busy, poisoned, raced, left>>
      /\ work' \in {work, {}}
  BY DEF StopCore, StopSsh, MigrationStarts, Activate, Health, Publish, ResumeOld, CoreOff
<1>3. world' = CASE run[id].pc = "stop" -> [world EXCEPT !.core = "off"]
                 [] run[id].pc = "stop ssh" -> [world EXCEPT !.ssh = FALSE]
                 [] run[id].pc = "migrate" -> [world EXCEPT !.migration = "running"]
                 [] run[id].pc = "activate" -> [world EXCEPT !.core = "new", !.image = "new"]
                 [] run[id].pc = "health" -> world
                 [] run[id].pc = "publish" -> [world EXCEPT !.release = "new"]
                 [] OTHER -> [world EXCEPT !.core = "old", !.image = "old"]
  BY DEF StopCore, StopSsh, MigrationStarts, Activate, Health, Publish, ResumeOld, CoreOff
<1>4. world' \in World
  BY <1>1, <1>3 DEF UpdaterInv, TypeOK, World, Revision
<1>5. pc \in Pcs \ {"none"}
  BY <1>1 DEF Pcs, Steps, Resuming
<1>6. Moves(id, At(id, pc))
  BY <1>1, <1>2, <1>4, <1>5, GotoRecord DEF Moves, UpdaterInv, TypeOK
<1>7. run'[id].pc = pc /\ J' = J /\ D' = D
  <2> HIDE DEF pc
  <2> QED
    BY <1>2, <1>6, MovesFlight DEF At, J, D
<1>8. Place(id)' /\ Tracked' /\ Paused' /\ CoreOK'
  <2> USE DEF UpdaterInv, TypeOK, World
  <2>0. world.maintenance
    BY <1>1 DEF Place
  <2>1. CASE run[id].pc = "stop"
    <3>1. pc = "stop ssh" /\ world' = [world EXCEPT !.core = "off"]
      BY <1>3, <2>1
    <3> QED
      BY <1>1, <1>2, <1>7, <2>0, <2>1, <3>1 DEF Place, Before, Settled, Saving, Resuming, Steps,
           Tracked, Paused, CoreOK, DiskActive
  <2>2. CASE run[id].pc = "stop ssh"
    <3>1. pc = "final" /\ world' = [world EXCEPT !.ssh = FALSE]
      BY <1>3, <2>2
    <3> QED
      BY <1>1, <1>2, <1>7, <2>0, <2>2, <3>1 DEF Place, Before, Settled, Saving, Resuming, Steps,
           Tracked, Paused, CoreOK, DiskActive
  <2>3. CASE run[id].pc = "migrate"
    <3>1. pc = "migrating" /\ world' = [world EXCEPT !.migration = "running"]
      BY <1>3, <2>3
    <3> QED
      BY <1>1, <1>2, <1>7, <2>0, <2>3, <3>1 DEF Place, Before, Settled, Saving, Resuming, Steps,
           Tracked, Paused, CoreOK, DiskActive
  <2>4. CASE run[id].pc = "activate"
    <3>1. pc = "health" /\ world' = [world EXCEPT !.core = "new", !.image = "new"]
      BY <1>3, <2>4
    <3> QED
      BY <1>1, <1>2, <1>7, <2>0, <2>4, <3>1 DEF Place, Committed, Settled, Saving, Resuming, Steps,
           Tracked, Paused, CoreOK, DiskActive
  <2>5. CASE run[id].pc = "health"
    <3>1. pc = "publish" /\ world' = world
      BY <1>3, <2>5
    <3> QED
      BY <1>1, <1>2, <1>7, <2>0, <2>5, <3>1 DEF Place, Committed, Settled, Saving, Resuming, Steps,
           Tracked, Paused, CoreOK, DiskActive
  <2>6. CASE run[id].pc = "publish"
    <3>1. pc = "start ssh" /\ world' = [world EXCEPT !.release = "new"]
      BY <1>3, <2>6
    <3> QED
      BY <1>1, <1>2, <1>7, <2>0, <2>6, <3>1 DEF Place, Committed, Settled, Saving, Resuming, Steps,
           Tracked, Paused, CoreOK, DiskActive
  <2>7. CASE run[id].pc = "resume"
    <3>1. pc = "resume ssh" /\ world' = [world EXCEPT !.core = "old", !.image = "old"]
      BY <1>3, <2>7
    <3> QED
      BY <1>1, <1>2, <1>7, <2>0, <2>7, <3>1 DEF Place, Before, Settled, Saving, Resuming, Steps,
           Tracked, Paused, CoreOK, DiskActive
  <2> QED
    BY <1>1, <2>1, <2>2, <2>3, <2>4, <2>5, <2>6, <2>7
<1> HIDE DEF pc
<1> QED
  BY <1>2, <1>6, <1>8, HostStep

LEMMA FinalBackupKeeps ==
  ASSUME UpdaterInv, NEW id \in Ids, FinalBackup(id)
  PROVE  UpdaterInv'
<1> DEFINE j == [J EXCEPT !.database = "uncertain"]
<1>1. run[id].pc = "final" /\ run[id].pc # "none" /\ Place(id) /\ JobOf(id) = J /\ J \in Job /\ J.id = id
  BY FlightFacts DEF FinalBackup
<1>2. Goto(id, "uncertain") /\ SetJob(j) /\ UNCHANGED <<up, disk, busy, poisoned, world, work, raced, left>>
  BY <1>1 DEF FinalBackup
<1>3. Moves(id, At(id, "uncertain"))
  BY <1>1, <1>2, GotoRecord DEF Moves, UpdaterInv, TypeOK, Pcs, Saving
<1>4. j \in Job /\ j.id = id /\ j.status = J.status /\ j.quiesced = J.quiesced /\ j.database = "uncertain"
  BY <1>1 DEF Job
<1> HIDE DEF j
<1>5. run'[id] = At(id, "uncertain") /\ D' = D
  BY <1>2, <1>3, MovesFlight DEF D
<1>6. J' = j
  BY <1>1, <1>2, <1>4, SetJobFacts
<1>7. Place(id)'
  BY <1>1, <1>2, <1>4, <1>5, <1>6 DEF At, Place, Before, Settled, Saving, Resuming, Steps
<1>8. Tracked' /\ Paused' /\ CoreOK'
  BY <1>2, <1>5 DEF UpdaterInv, Tracked, Settled, Paused, CoreOK, DiskActive
<1> QED
  BY <1>2, <1>3, <1>4, <1>7, <1>8, JobStep

LEMMA MigrationReportedKeeps ==
  ASSUME UpdaterInv, NEW id \in Ids, MigrationReported(id)
  PROVE  UpdaterInv'
<1> DEFINE outcome == IF world.migration = "committed" THEN "committed" ELSE "unchanged"
           j == [J EXCEPT !.database = outcome]
<1>1. /\ run[id].pc = "migrating" /\ run[id].pc # "none" /\ Place(id) /\ JobOf(id) = J
      /\ J \in Job /\ J.id = id
  BY FlightFacts DEF MigrationReported
<1>2. /\ Goto(id, "record") /\ SetJob(j) /\ UNCHANGED <<up, disk, busy, poisoned, world, work, raced, left>>
      /\ world.migration \in {"committed", "rolled back"}
  BY <1>1 DEF MigrationReported
<1>3. Moves(id, At(id, "record"))
  BY <1>1, <1>2, GotoRecord DEF Moves, UpdaterInv, TypeOK, Pcs, Saving
<1>4. /\ j \in Job /\ j.id = id /\ j.status = J.status /\ j.quiesced = J.quiesced
      /\ j.database = outcome
  BY <1>1 DEF Job
<1> HIDE DEF j
<1>5. run'[id] = At(id, "record") /\ D' = D
  BY <1>2, <1>3, MovesFlight DEF D
<1>6. J' = j
  BY <1>1, <1>2, <1>4, SetJobFacts
<1>7. Place(id)'
  <2>1. /\ run'[id].pc = "record" /\ J'.quiesced = J.quiesced /\ J'.database = outcome
        /\ world' = world
    <3>1. run'[id].pc = "record"
      BY <1>5 DEF At
    <3>2. J'.quiesced = J.quiesced /\ J'.database = outcome
      BY <1>4, <1>6
    <3>3. world' = world
      BY <1>2
    <3> QED
      BY <3>1, <3>2, <3>3
  <2>2. J.quiesced /\ world.maintenance
    BY <1>1 DEF Place, Steps
  <2>3. CASE world.migration = "committed"
    <3>1. Committed
      BY <1>1, <2>3 DEF Place, Committed
    <3> QED
      BY <2>1, <2>2, <2>3, <3>1 DEF Place, Committed, Saving, Resuming, Steps
  <2>4. CASE world.migration = "rolled back"
    <3>1. Before
      BY <1>1, <2>4 DEF Place, Before, Settled
    <3> QED
      BY <2>1, <2>2, <2>4, <3>1 DEF Place, Before, Settled, Saving, Resuming, Steps
  <2> QED
    BY <1>2, <2>3, <2>4
<1>8. Tracked' /\ Paused' /\ CoreOK'
  BY <1>2, <1>5 DEF UpdaterInv, Tracked, Settled, Paused, CoreOK, DiskActive
<1> QED
  BY <1>2, <1>3, <1>4, <1>7, <1>8, JobStep

LEMMA StartSshKeeps ==
  ASSUME UpdaterInv, NEW id \in Ids, StartSsh(id)
  PROVE  UpdaterInv'
<1>1. /\ run[id].pc \in {"start ssh", "resume ssh"} /\ run[id].pc # "none" /\ Place(id)
  BY FlightFacts DEF StartSsh
<1>2. PICK o \in {"succeeded", "failed"} : Ends(id, o)
  BY DEF StartSsh
<1> DEFINE q == [pc |-> "cleanup", outcome |-> o]
<1>3. world' = [world EXCEPT !.ssh = TRUE] /\ UNCHANGED <<up, jobs, disk, busy, poisoned, work, raced, left>>
  BY DEF StartSsh
<1>4. o \in Outcomes /\ o # "recovery_required" /\ o # "checked"
  BY DEF Outcomes
<1>5. Moves(id, q)
  BY <1>1, <1>2, <1>3, <1>4, EndRecord DEF Moves, Ends, UpdaterInv, TypeOK, World
<1>6. run'[id] = q /\ J' = J /\ D' = D
  BY <1>3, <1>5, MovesFlight DEF J, D
<1>7. /\ world'.migration = world.migration /\ world'.image = world.image /\ world'.core = world.core
      /\ world'.database = world.database /\ world'.release = world.release
      /\ world'.maintenance = world.maintenance
  BY <1>3 DEF UpdaterInv, TypeOK, World
<1>8. Settled
  BY <1>1 DEF Place, Before, Settled, Committed, Resuming
<1>9. Place(id)'
  BY <1>4, <1>6, <1>7, <1>8 DEF Place, Settled, Saving, Resuming, Steps
<1>10. Tracked' /\ Paused' /\ CoreOK'
  BY <1>3, <1>6, <1>7, <1>8 DEF UpdaterInv, Tracked, Settled, Paused, CoreOK
<1> QED
  BY <1>3, <1>5, <1>9, <1>10, HostStep

LEMMA ThrowsKeeps ==
  ASSUME UpdaterInv, NEW id \in Ids, Throws(id)
  PROVE  UpdaterInv'
<1>1. /\ run[id].pc \in Steps \cup Saving \cup Resuming /\ run[id].pc # "none" /\ Place(id)
  BY FlightFacts DEF Throws, Steps, Saving, Resuming
<1>2. /\ UNCHANGED <<up, jobs, disk, busy, world, work, raced>>
      /\ left' \in [Events -> Nat] /\ poisoned' \in BOOLEAN
  BY LeftTyped DEF Throws, Events, UpdaterInv, TypeOK
<1>3. CASE run[id].pc \in Resuming
  <2>1. Ends(id, "recovery_required")
    BY <1>3 DEF Throws
  <2> DEFINE q == [pc |-> "cleanup", outcome |-> "recovery_required"]
  <2>2. Moves(id, q)
    BY <1>1, <1>2, <2>1, EndRecord DEF Moves, Ends, UpdaterInv, TypeOK, Outcomes
  <2>3. run'[id] = q /\ J' = J
    BY <1>2, <2>2, MovesFlight DEF J
  <2>4. J.quiesced /\ world.maintenance
    BY <1>1, <1>3 DEF Place, Resuming
  <2>5. Place(id)'
    BY <1>2, <2>3, <2>4 DEF Place, Saving, Resuming, Steps
  <2> QED
    BY <1>2, <2>2, <2>5, Advance
<1>4. CASE run[id].pc \notin Resuming
  <2>1. Goto(id, "catch")
    BY <1>4 DEF Throws
  <2>2. Moves(id, At(id, "catch"))
    BY <1>1, <1>2, <2>1, GotoRecord DEF Moves, UpdaterInv, TypeOK, Pcs
  <2>3. run'[id].pc = "catch" /\ J' = J
    BY <1>2, <2>2, MovesFlight DEF J, At
  <2>4. /\ J.database = "unchanged" => Before
        /\ J.database = "committed" => Committed
        /\ ~J.quiesced => J.database = "unchanged"
        /\ J.quiesced => world.maintenance
    BY <1>1, <1>4 DEF Place, Saving, Steps
  <2>5. Place(id)'
    BY <1>2, <2>3, <2>4 DEF Place, Before, Settled, Committed, Saving, Resuming, Steps
  <2> QED
    BY <1>2, <2>2, <2>5, Advance
<1> QED
  BY <1>3, <1>4

LEMMA CatchKeeps ==
  ASSUME UpdaterInv, NEW id \in Ids, Catch(id)
  PROVE  UpdaterInv'
<1>1. run[id].pc = "catch" /\ run[id].pc # "none" /\ Place(id) /\ JobOf(id) = J
  BY FlightFacts DEF Catch
<1>2. /\ J.database = "unchanged" => Before
      /\ ~J.quiesced => J.database = "unchanged"
      /\ J.quiesced => world.maintenance
  BY <1>1 DEF Place
<1>3. UNCHANGED <<up, jobs, disk, busy, poisoned, raced>>
  BY DEF Catch
<1>4. CASE Goto(id, "resume") /\ J.quiesced /\ J.database = "unchanged" /\ UNCHANGED <<world, work, left>>
  <2>1. Moves(id, At(id, "resume"))
    BY <1>1, <1>3, <1>4, GotoRecord DEF Moves, UpdaterInv, TypeOK, Pcs, Resuming
  <2>2. run'[id].pc = "resume" /\ J' = J
    BY <1>3, <2>1, MovesFlight DEF J, At
  <2>3. Place(id)'
    BY <1>2, <1>4, <2>2 DEF Place, Before, Settled, Saving, Resuming, Steps
  <2> QED
    BY <1>3, <1>4, <2>1, <2>3, Advance
<1>5. ASSUME NEW o \in {"failed", "recovery_required"}, Ends(id, o), UNCHANGED <<world, work, left>>,
             o = "failed" => Settled, o = "recovery_required" => J.quiesced
      PROVE  UpdaterInv'
  <2> DEFINE q == [pc |-> "cleanup", outcome |-> o]
  <2>1. Moves(id, q)
    BY <1>1, <1>3, <1>5, EndRecord DEF Moves, Ends, UpdaterInv, TypeOK, Outcomes
  <2>2. run'[id] = q /\ J' = J
    BY <1>3, <2>1, MovesFlight DEF J
  <2>3. Place(id)'
    BY <1>2, <1>5, <2>2 DEF Place, Settled, Saving, Resuming, Steps
  <2> QED
    BY <1>3, <1>5, <2>1, <2>3, Advance
<1>6. CASE /\ Ends(id, "recovery_required") /\ J.quiesced
           /\ world' = [world EXCEPT !.core = "off", !.ssh = FALSE] /\ work' = {} /\ UNCHANGED left
  <2> DEFINE q == [pc |-> "cleanup", outcome |-> "recovery_required"]
  <2>1. Moves(id, q)
    BY <1>1, <1>3, <1>6, EndRecord DEF Moves, Ends, UpdaterInv, TypeOK, Outcomes, World
  <2>2. run'[id] = q /\ J' = J /\ D' = D
    BY <1>3, <2>1, MovesFlight DEF J, D
  <2>3. /\ world'.migration = world.migration /\ world'.image = world.image /\ world'.core = "off"
        /\ world'.database = world.database /\ world'.release = world.release
        /\ world'.maintenance = world.maintenance
    BY <1>6 DEF UpdaterInv, TypeOK, World
  <2>4. Place(id)'
    BY <1>2, <1>6, <2>2, <2>3 DEF Place, Saving, Resuming, Steps
  <2>5. Tracked' /\ Paused' /\ CoreOK'
    BY <1>3, <2>2, <2>3 DEF UpdaterInv, Tracked, Settled, Paused, CoreOK, DiskActive
  <2> QED
    BY <1>3, <2>1, <2>4, <2>5, HostStep
<1>7. \/ Ends(id, "failed") /\ ~J.quiesced /\ UNCHANGED <<world, work, left>>
      \/ /\ J.quiesced /\ J.database = "unchanged" /\ UNCHANGED <<world, work, left>>
         /\ Ends(id, "recovery_required") \/ Goto(id, "resume")
      \/ /\ J.quiesced /\ Ends(id, "recovery_required")
         /\ \/ world' = [world EXCEPT !.core = "off", !.ssh = FALSE] /\ work' = {} /\ UNCHANGED left
            \/ Spend("failure") /\ UNCHANGED <<world, work>>
  BY <1>1 DEF Catch
<1>8. CASE J.quiesced /\ Ends(id, "recovery_required") /\ Spend("failure") /\ UNCHANGED <<world, work>>
  <2> DEFINE q == [pc |-> "cleanup", outcome |-> "recovery_required"]
  <2>1. left' \in [Events -> Nat]
    BY <1>8, LeftTyped DEF Events
  <2>2. Moves(id, q)
    BY <1>1, <1>3, <1>8, <2>1, EndRecord DEF Moves, Ends, UpdaterInv, TypeOK, Outcomes
  <2>3. run'[id] = q /\ J' = J
    BY <1>3, <2>2, MovesFlight DEF J
  <2>4. Place(id)'
    BY <1>2, <1>8, <2>3 DEF Place, Saving, Resuming, Steps
  <2> QED
    BY <1>3, <1>8, <2>2, <2>4, Advance
<1> QED
  BY <1>2, <1>4, <1>5, <1>6, <1>7, <1>8 DEF Before

\* Cleanup touches nothing of the host but the pause.
LEMMA CleanupWrites ==
  ASSUME UpdaterInv, NEW id \in Ids, Cleanup(id)
  PROVE  \E maintenance, leftover \in BOOLEAN :
           /\ world' = [world EXCEPT !.maintenance = maintenance, !.leftover = leftover]
           /\ run[id].outcome = "recovery_required" => maintenance = world.maintenance
           /\ run[id].outcome # "recovery_required" => (maintenance => leftover)
<1>1. world.maintenance \in BOOLEAN /\ world.leftover \in BOOLEAN
  BY DEF UpdaterInv, TypeOK, World
<1>2. CASE world' = [world EXCEPT !.maintenance = @ /\ run[id].outcome = "recovery_required",
                                  !.leftover = @ /\ run[id].outcome = "recovery_required"]
  <2> DEFINE m == world.maintenance /\ run[id].outcome = "recovery_required"
             l == world.leftover /\ run[id].outcome = "recovery_required"
  <2>1. m \in BOOLEAN /\ l \in BOOLEAN
    OBVIOUS
  <2>2. world' = [world EXCEPT !.maintenance = m, !.leftover = l]
    BY <1>2
  <2>3. /\ run[id].outcome = "recovery_required" => m = world.maintenance
        /\ run[id].outcome # "recovery_required" => (m => l)
    BY <1>1
  <2> HIDE DEF m, l
  <2> QED
    BY <2>1, <2>2, <2>3
<1>3. CASE /\ run[id].outcome # "recovery_required"
           /\ world' = [world EXCEPT !.leftover = @ \/ world.maintenance]
  <2> DEFINE l == world.leftover \/ world.maintenance
  <2>1. l \in BOOLEAN /\ (world.maintenance => l)
    OBVIOUS
  <2>2. world' = [world EXCEPT !.maintenance = world.maintenance, !.leftover = l]
    BY <1>3 DEF UpdaterInv, TypeOK, World
  <2> HIDE DEF l
  <2> QED
    BY <1>1, <1>3, <2>1, <2>2
<1> QED
  BY <1>2, <1>3 DEF Cleanup

LEMMA CleanupKeeps ==
  ASSUME UpdaterInv, NEW id \in Ids, Cleanup(id)
  PROVE  UpdaterInv'
<1>1. run[id].pc = "cleanup" /\ run[id].pc # "none" /\ Place(id)
  BY FlightFacts DEF Cleanup
<1>2. /\ Goto(id, "settle") /\ UNCHANGED <<up, jobs, disk, busy, poisoned, work, raced>>
      /\ left' = left \/ Spend("failure")
  BY DEF Cleanup
<1>3. PICK maintenance, leftover \in BOOLEAN :
        /\ world' = [world EXCEPT !.maintenance = maintenance, !.leftover = leftover]
        /\ run[id].outcome = "recovery_required" => maintenance = world.maintenance
  BY CleanupWrites
<1>4. /\ world'.migration = world.migration /\ world'.image = world.image /\ world'.core = world.core
      /\ world'.database = world.database /\ world'.release = world.release
      /\ run[id].outcome = "recovery_required" => world'.maintenance = world.maintenance
      /\ world' \in World
  BY <1>3 DEF UpdaterInv, TypeOK, World
<1>10. left' \in [Events -> Nat]
  BY <1>2, LeftTyped DEF UpdaterInv, TypeOK, Events
<1>5. Moves(id, At(id, "settle"))
  BY <1>1, <1>2, <1>4, <1>10, GotoRecord DEF Moves, UpdaterInv, TypeOK, Pcs
<1>6. run'[id].pc = "settle" /\ run'[id].outcome = run[id].outcome /\ J' = J /\ D' = D
  BY <1>2, <1>5, MovesFlight DEF J, D, At
<1>7. Place(id)'
  BY <1>1, <1>4, <1>6 DEF Place, Settled, Saving, Resuming, Steps
<1>8. Tracked' /\ CoreOK'
  BY <1>4, <1>2, <1>6 DEF UpdaterInv, Tracked, Settled, CoreOK, DiskActive
<1>9. Paused'
  BY <1>1, <1>4 DEF Place, Settled, Paused
<1> QED
  BY <1>2, <1>5, <1>7, <1>8, <1>9, HostStep

LEMMA SettleKeeps ==
  ASSUME UpdaterInv, NEW id \in Ids, Settle(id)
  PROVE  UpdaterInv'
<1>1. /\ run[id].pc = "settle" /\ run[id].pc # "none" /\ Place(id) /\ JobOf(id) = J /\ J \in Job
      /\ J.id = id /\ InFlight = {id} /\ up /\ busy = {} /\ Len(jobs) = Len(disk)
      /\ Len(jobs) \in Nat \ {0} /\ DOMAIN jobs = 1 .. Len(jobs) /\ DOMAIN disk = 1 .. Len(disk)
  BY FlightFacts DEF Settle
<1> DEFINE j == [J EXCEPT !.status = run[id].outcome]
<1>2. /\ SetJob(j) /\ disk' = jobs' /\ run' = [run EXCEPT ![id] = NoRun]
      /\ UNCHANGED <<up, busy, poisoned, world, work, raced, left>>
  BY <1>1 DEF Settle
<1>3. /\ j \in Job /\ j.id = id /\ j.status = run[id].outcome /\ j.quiesced = J.quiesced
      /\ j.available = J.available
  BY <1>1 DEF Job, Status, Outcomes, Active, UpdaterInv, TypeOK
<1> HIDE DEF j
<1>4. /\ jobs' \in Seq(Job) /\ Len(jobs') = Len(jobs) /\ DOMAIN jobs' = 1 .. Len(jobs)
      /\ J' = j
      /\ \A n \in DOMAIN jobs : n # Len(jobs) => jobs'[n] = jobs[n]
      /\ \A n \in DOMAIN jobs : jobs'[n].id = jobs[n].id
  BY <1>1, <1>2, <1>3, SetJobFacts
<1>5. D' = j /\ disk' # <<>>
  BY <1>1, <1>2, <1>4 DEF D, J
<1>6. run' \in [Ids -> [pc : Pcs, outcome : Outcomes]] /\ InFlight' = {}
  <2>1. NoRun \in [pc : Pcs, outcome : Outcomes] /\ NoRun.pc = "none"
    BY DEF NoRun, Pcs, Outcomes
  <2>2. run \in [Ids -> [pc : Pcs, outcome : Outcomes]] /\ \A i \in Ids : i # id => run[i].pc = "none"
    BY <1>1 DEF UpdaterInv, TypeOK, InFlight
  <2> QED
    BY <1>2, <2>1, <2>2 DEF InFlight
<1>7. TypeOK'
  BY <1>2, <1>4, <1>6 DEF UpdaterInv, TypeOK
<1>8. Ledger'
  <2>1. \A n \in DOMAIN jobs : n # Len(jobs) => jobs[n].status \notin Active
    BY <1>1 DEF UpdaterInv, Ledger, InOperation
  <2> QED
    BY <1>1, <1>2, <1>4, <1>6, <2>1 DEF UpdaterInv, Ledger
<1>9. InOperation' /\ OutOfOperation'
  BY <1>1, <1>2, <1>6 DEF InOperation, OutOfOperation
<1>10. Tracked'
  BY <1>1, <1>2, <1>3, <1>5 DEF Place, Tracked, Settled, DiskActive, Active
<1>11. Paused' /\ CoreOK'
  BY <1>2 DEF UpdaterInv, Paused, CoreOK
<1>12. Available'
  BY <1>1, <1>2, <1>3, <1>5 DEF Place, Available
<1> QED
  BY <1>6, <1>7, <1>8, <1>9, <1>10, <1>11, <1>12 DEF UpdaterInv

LEMMA OpStepKeeps ==
  ASSUME UpdaterInv, NEW id \in Ids, OpStep(id), ~Begin(id), ~SettleFault(id)
  PROVE  UpdaterInv'
BY PlanKeeps, PrepareKeeps, GuardCountsKeeps, SaveKeeps, ServicesKeep, FinalBackupKeeps,
   MigrationReportedKeeps, StartSshKeeps, CatchKeeps, CleanupKeeps, SettleKeeps
DEF OpStep

(* ----------------------- outside of an operation ------------------------ *)

LEMMA AcceptKeeps ==
  ASSUME UpdaterInv, NEW id \in Ids, NEW operation \in {"check", "apply"}, Accept(id, operation)
  PROVE  UpdaterInv'
<1> DEFINE j == NewJob(id, operation)
<1>1. /\ up /\ busy = {} /\ InFlight = {} /\ ~AnyActive(jobs) /\ ~Known(id)
      /\ jobs' = Append(jobs, j) /\ busy' = {id}
      /\ UNCHANGED <<up, disk, run, poisoned, world, work, raced, left>>
  BY DEF Accept
<1>2. j \in Job /\ j.id = id /\ j.status \in Open /\ ~j.quiesced /\ j.database = "unchanged"
      /\ j.operation = operation
  BY DEF NewJob, Job, Status, Active, Open
<1> HIDE DEF j
<1>3. jobs \in Seq(Job) /\ Len(jobs) \in Nat /\ DOMAIN jobs = 1 .. Len(jobs)
  BY DEF UpdaterInv, TypeOK
<1>4. jobs = disk
  <2>1. ASSUME Len(jobs) = Len(disk) + 1, J.status \in Open, NEW n \in Nat, n = Len(disk) PROVE FALSE
    <3>1. Len(jobs) \in DOMAIN jobs
      BY <1>3, <2>1
    <3> QED
      BY <1>1, <2>1, <3>1 DEF AnyActive, J, Open, Active
  <2>2. Len(disk) \in Nat
    BY DEF UpdaterInv, TypeOK
  <2> QED
    BY <1>1, <2>1, <2>2 DEF UpdaterInv, OutOfOperation
<1>5. /\ jobs' \in Seq(Job) /\ Len(jobs') = Len(jobs) + 1
      /\ DOMAIN jobs' = 1 .. (Len(jobs) + 1)
      /\ jobs'[Len(jobs) + 1] = j
      /\ \A n \in DOMAIN jobs : jobs'[n] = jobs[n]
  BY <1>1, <1>2, <1>3
<1>6. J' = j /\ jobs' # <<>>
  BY <1>3, <1>5 DEF J
<1>7. ~DiskActive
  <2>1. ASSUME disk # <<>> PROVE Len(disk) \in DOMAIN disk
    BY <1>3, <1>4, <2>1
  <2> QED
    BY <1>1, <1>4, <2>1 DEF AnyActive, DiskActive, D
<1>8. Settled
  BY <1>7 DEF UpdaterInv, Tracked
<1>9. operation = "apply" => Before
  <2>1. operation = "apply" => disk # <<>> /\ D.status = "checked" /\ D.available
    BY <1>4 DEF Accept, Last, D
  <2> QED
    BY <1>8, <2>1 DEF UpdaterInv, Available, Before, Settled
<1>10. TypeOK'
  BY <1>1, <1>5 DEF UpdaterInv, TypeOK
<1>11. Ledger'
  <2>1. ASSUME NEW m \in DOMAIN jobs', NEW n \in DOMAIN jobs', jobs'[m].id = jobs'[n].id PROVE m = n
    <3>1. \A k \in DOMAIN jobs : jobs[k].id # id
      BY <1>1 DEF Known
    <3>2. \A k \in DOMAIN jobs' : k \in DOMAIN jobs \/ k = Len(jobs) + 1
      BY <1>3, <1>5
    <3> QED
      BY <1>2, <1>5, <2>1, <3>1, <3>2 DEF UpdaterInv, Ledger
  <2>2. InFlight' = {}
    BY <1>1 DEF InFlight
  <2> QED
    BY <1>1, <1>2, <1>6, <2>1, <2>2 DEF UpdaterInv, Ledger
<1>12. InFlight' = {} /\ D' = D
  BY <1>1 DEF InFlight, D
<1>13. InOperation' /\ OutOfOperation'
  BY <1>1, <1>2, <1>4, <1>5, <1>6, <1>7, <1>12 DEF InOperation, OutOfOperation, DiskActive
<1>14. Tracked' /\ Paused' /\ CoreOK' /\ Available'
  <2>1. disk # <<>> /\ D.status = "checked" /\ D.available => world.release = "old"
    BY DEF UpdaterInv, Available
  <2> QED
    BY <1>1, <1>2, <1>6, <1>8, <1>9, <1>12, <2>1
    DEF UpdaterInv, Tracked, Settled, Before, Paused, CoreOK, Available
<1> QED
  BY <1>10, <1>11, <1>12, <1>13, <1>14 DEF UpdaterInv

\* What is known while the first save of a job is under way.
LEMMA BusyFacts ==
  ASSUME UpdaterInv, NEW id \in Ids, id \in busy
  PROVE  /\ up /\ InFlight = {} /\ busy = {id} /\ jobs # <<>> /\ J.id = id
         /\ Len(jobs) = Len(disk) + 1
         /\ J.status \in Open /\ ~J.quiesced /\ J.database = "unchanged"
         /\ ~DiskActive /\ Settled
         /\ J \in Job /\ JobOf(id) = J
         /\ \A n \in DOMAIN disk : jobs[n] = disk[n]
<1> USE DEF UpdaterInv
<1>1. up /\ InFlight = {} /\ jobs # <<>> /\ J.id = id
  BY DEF Ledger
<1>2. busy = {id}
  BY DEF Ledger, TypeOK
<1>3. /\ Len(jobs) = Len(disk) + 1
      /\ J.status \in Open /\ ~J.quiesced /\ J.database = "unchanged" /\ ~DiskActive
      /\ \A n \in DOMAIN disk : jobs[n] = disk[n]
  BY <1>1, <1>2 DEF OutOfOperation
<1>4. Settled
  BY <1>3 DEF Tracked
<1>5. J \in Job /\ Len(jobs) \in DOMAIN jobs
  BY <1>1 DEF TypeOK, J
<1>6. JobOf(id) = J
  <2>1. \A n \in DOMAIN jobs : jobs[n].id = id => n = Len(jobs)
    BY <1>1, <1>5 DEF Ledger, J
  <2> QED
    BY <1>1, <1>5, <2>1 DEF JobOf, J
<1> QED
  BY <1>1, <1>2, <1>3, <1>4, <1>5, <1>6

LEMMA BeginKeeps ==
  ASSUME UpdaterInv, NEW id \in Ids, Begin(id)
  PROVE  UpdaterInv'
<1>1. /\ up /\ InFlight = {} /\ busy = {id} /\ jobs # <<>> /\ J.id = id
      /\ J.status \in Open /\ ~J.quiesced /\ J.database = "unchanged"
      /\ ~DiskActive /\ Settled /\ J \in Job /\ JobOf(id) = J /\ Len(jobs) = Len(disk) + 1
      /\ \A n \in DOMAIN disk : jobs[n] = disk[n]
  BY BusyFacts DEF Begin
<1> DEFINE pc == IF J.operation = "apply" THEN "prepare" ELSE "plan"
<1>2. /\ disk' = jobs /\ busy' = {} /\ Goto(id, pc)
      /\ UNCHANGED <<up, jobs, poisoned, world, work, raced, left>>
  BY <1>1 DEF Begin
<1>3. pc \in {"prepare", "plan"} /\ (pc = "prepare" => Before)
  BY <1>1 DEF UpdaterInv, Available
<1> HIDE DEF pc
<1>4. /\ run' \in [Ids -> [pc : Pcs, outcome : Outcomes]] /\ run'[id].pc = pc
      /\ \A i \in Ids : i # id => run'[i] = run[i]
  BY <1>2, <1>3 DEF Goto, UpdaterInv, TypeOK, Pcs, Steps
<1>5. InFlight' = {id} /\ D' = J /\ J' = J
  <2>1. \A i \in Ids : run[i].pc = "none"
    BY <1>1 DEF InFlight
  <2> QED
    BY <1>2, <1>3, <1>4, <2>1 DEF InFlight, D, J
<1>6. TypeOK'
  BY <1>2, <1>4 DEF UpdaterInv, TypeOK
<1>7. Ledger'
  <2>1. ASSUME NEW n \in DOMAIN jobs, n # Len(jobs) PROVE jobs[n].status \notin Active
    <3>1. n \in DOMAIN disk
      BY <1>1, <2>1 DEF UpdaterInv, TypeOK
    <3>2. n = Len(disk) => disk # <<>> /\ disk[n] = D
      BY <3>1 DEF D
    <3> QED
      BY <1>1, <3>1, <3>2 DEF UpdaterInv, Ledger, DiskActive
  <2> QED
    BY <1>1, <1>2, <1>5, <2>1 DEF UpdaterInv, Ledger
<1>8. InOperation' /\ OutOfOperation'
  BY <1>1, <1>2, <1>5 DEF InOperation, OutOfOperation, DiskActive, Open, Active
<1>9. Place(id)'
  BY <1>1, <1>2, <1>3, <1>4, <1>5 DEF Place, Before, Settled, Saving, Resuming, Steps
<1>10. Tracked' /\ Paused' /\ CoreOK' /\ Available'
  BY <1>1, <1>2, <1>5 DEF UpdaterInv, Tracked, Settled, Paused, CoreOK, Available, Open
<1> QED
  BY <1>5, <1>6, <1>7, <1>8, <1>9, <1>10 DEF UpdaterInv

LEMMA AcceptFaultKeeps ==
  ASSUME UpdaterInv, NEW id \in Ids, AcceptFault(id)
  PROVE  UpdaterInv'
<1>1. /\ up /\ InFlight = {} /\ Settled /\ jobs # <<>> /\ ~DiskActive
      /\ Len(jobs) = Len(disk) + 1 /\ J.status \in Open /\ ~J.quiesced /\ J.database = "unchanged"
      /\ \A n \in DOMAIN disk : jobs[n] = disk[n]
  BY BusyFacts DEF AcceptFault
<1>2. /\ poisoned' = TRUE /\ busy' = {} /\ UNCHANGED <<up, jobs, disk, run, world, work, raced>>
      /\ left' \in [Events -> Nat]
  BY LeftTyped DEF AcceptFault, UpdaterInv, TypeOK, Events
<1>3. InFlight' = {} /\ D' = D /\ J' = J
  BY <1>1, <1>2 DEF InFlight, D, J
<1>4. TypeOK' /\ Ledger'
  BY <1>2, <1>3 DEF UpdaterInv, TypeOK, Ledger
<1>5. InOperation' /\ OutOfOperation'
  BY <1>1, <1>2, <1>3 DEF InOperation, OutOfOperation, DiskActive
<1>6. Tracked' /\ Paused' /\ CoreOK' /\ Available'
  BY <1>1, <1>2, <1>3 DEF UpdaterInv, Tracked, Settled, Paused, CoreOK, Available
<1> QED
  BY <1>3, <1>4, <1>5, <1>6 DEF UpdaterInv

(* ------------------------- crashes and recovery ------------------------- *)

\* The worker dies; what the host becomes is no worse.
LEMMA DieKeeps ==
  ASSUME UpdaterInv, Die, UNCHANGED disk, world' \in World, work' \subseteq Tasks \cup Uncounted,
         raced' \subseteq Uncounted, left' \in [Events -> Nat],
         Settled => Settled', CoreOK', world'.release = world.release
  PROVE  UpdaterInv'
<1>1. up' = FALSE /\ jobs' = <<>> /\ busy' = {} /\ D' = D
      /\ run' = [id \in Ids |-> NoRun] /\ poisoned' = FALSE
  BY DEF Die, D
<1>2. InFlight' = {} /\ run' \in [Ids -> [pc : Pcs, outcome : Outcomes]]
  <2>1. NoRun \in [pc : Pcs, outcome : Outcomes] /\ NoRun.pc = "none"
    BY DEF NoRun, Pcs, Outcomes
  <2> QED
    BY <1>1, <2>1 DEF InFlight
<1>3. TypeOK'
  <2>1. jobs' \in Seq(Job)
    <3>1. <<>> \in Seq(Job)
      OBVIOUS
    <3> QED
      BY <1>1, <3>1
  <2>2. up' \in BOOLEAN /\ poisoned' \in BOOLEAN /\ busy' \subseteq Ids
    BY <1>1
  <2>3. disk' \in Seq(Job)
    BY DEF UpdaterInv, TypeOK
  <2> QED
    BY <1>2, <2>1, <2>2, <2>3 DEF TypeOK
<1>4. Ledger' /\ InOperation' /\ OutOfOperation'
  BY <1>1, <1>2 DEF UpdaterInv, Ledger, InOperation, OutOfOperation
<1>5. Tracked' /\ Paused' /\ Available'
  BY <1>1 DEF UpdaterInv, Tracked, DiskActive, Paused, Available
<1> QED
  BY <1>2, <1>3, <1>4, <1>5 DEF UpdaterInv

LEMMA DeathsKeep ==
  ASSUME UpdaterInv, Crash \/ PowerLoss \/ \E id \in Ids : SettleFault(id)
  PROVE  UpdaterInv'
<1>1. Die /\ UNCHANGED <<disk, raced>> /\ left' \in [Events -> Nat]
  BY LeftTyped DEF Crash, PowerLoss, SettleFault, UpdaterInv, TypeOK, Events
<1>2. CASE UNCHANGED <<world, work>>
  BY <1>1, <1>2, DieKeeps DEF UpdaterInv, TypeOK, Settled, CoreOK
<1>3. CASE PowerLoss
  <2>1. PICK kept \in BOOLEAN :
          world' = [world EXCEPT !.core = world.image, !.ssh = TRUE,
                      !.migration = IF @ = "running" THEN "rolled back" ELSE @,
                      !.maintenance = @ /\ kept]
    BY <1>3 DEF PowerLoss
  <2>2. work' = {}
    BY <1>3 DEF PowerLoss
  <2>3. world' \in World
    BY <2>1 DEF UpdaterInv, TypeOK, World
  <2>4. /\ world'.core = world.image /\ world'.image = world.image
        /\ world'.release = world.release /\ world'.database = world.database
        /\ world'.migration # "running"
    BY <2>1 DEF UpdaterInv, TypeOK, World
  <2>5. (Settled => Settled') /\ CoreOK'
    BY <2>4 DEF Settled, CoreOK
  <2> QED
    BY <1>1, <2>2, <2>3, <2>4, <2>5, DieKeeps DEF UpdaterInv, TypeOK
<1> QED
  BY <1>2, <1>3 DEF Crash, SettleFault

\* A record that was running is taken for one that needs recovery, once.
Recovering(job) ==
  IF job.status \in {"checking", "running"} THEN [job EXCEPT !.status = "recovery_required"] ELSE job

LEMMA BootKeeps ==
  ASSUME UpdaterInv, Boot
  PROVE  UpdaterInv'
<1>1. /\ ~up /\ up' = TRUE /\ jobs' = disk'
      /\ disk' = [n \in DOMAIN disk |-> Recovering(disk[n])]
      /\ UNCHANGED <<busy, run, poisoned, work, raced, left>>
  BY DEF Boot, Recovering
<1>2. world' = [world EXCEPT !.maintenance = @ \/ \E n \in DOMAIN disk' :
                  /\ disk'[n].status = "recovery_required"
                  /\ disk'[n].quiesced \/ disk'[n].database # "unchanged"]
  BY DEF Boot
<1>3. disk \in Seq(Job) /\ \A n \in DOMAIN disk : disk[n] \in Job
  BY DEF UpdaterInv, TypeOK
<1>4. \A job \in Job :
        /\ Recovering(job) \in Job /\ Recovering(job).id = job.id
        /\ Recovering(job).quiesced = job.quiesced /\ Recovering(job).available = job.available
        /\ Recovering(job).status \in Active <=> job.status \in Active
        /\ Recovering(job).status = "checked" => job.status = "checked"
        /\ job.status \in Active => Recovering(job).status = "recovery_required"
  BY DEF Recovering, Job, Status, Active
<1>5. /\ disk' \in Seq(Job) /\ Len(disk') = Len(disk) /\ DOMAIN disk' = DOMAIN disk
      /\ \A n \in DOMAIN disk : disk'[n] = Recovering(disk[n])
  <2>1. \A n \in DOMAIN disk : disk'[n] \in Job
    BY <1>1, <1>3, <1>4
  <2> QED
    BY <1>1, <1>3, <2>1, MapTyped
<1>6. disk # <<>> => /\ Len(disk) \in DOMAIN disk /\ D \in Job
                     /\ D' = Recovering(D) /\ disk' # <<>> /\ J' = D'
  BY <1>1, <1>3, <1>5 DEF D, J
<1>7. disk = <<>> => disk' = <<>>
  BY <1>3, <1>5
<1>8. /\ world' \in World
      /\ world'.migration = world.migration /\ world'.image = world.image /\ world'.core = world.core
      /\ world'.database = world.database /\ world'.release = world.release
  BY <1>2 DEF UpdaterInv, TypeOK, World
<1>9. busy = {} /\ busy' = {} /\ InFlight = {} /\ InFlight' = {}
  BY <1>1 DEF UpdaterInv, Ledger, InFlight
<1>10. TypeOK'
  BY <1>1, <1>5, <1>8 DEF UpdaterInv, TypeOK
<1>11. Ledger'
  <2>1. \A m, n \in DOMAIN disk' : disk'[m].id = disk'[n].id => m = n
    BY <1>3, <1>4, <1>5 DEF UpdaterInv, Ledger
  <2>2. \A n \in DOMAIN disk' : n # Len(disk') => disk'[n].status \notin Active
    BY <1>3, <1>4, <1>5 DEF UpdaterInv, Ledger
  <2> QED
    BY <1>1, <1>9, <2>1, <2>2 DEF Ledger
<1>12. InOperation' /\ OutOfOperation'
  BY <1>1, <1>9 DEF InOperation, OutOfOperation
<1>13. DiskActive => DiskActive' /\ D'.status = "recovery_required" /\ D'.quiesced = D.quiesced
  BY <1>4, <1>6 DEF DiskActive, Active
<1>14. Tracked'
  BY <1>8, <1>13 DEF UpdaterInv, Tracked, Settled
<1>15. Paused'
  <2>1. CASE Settled
    BY <1>8, <2>1 DEF Settled, Paused
  <2>2. CASE DiskActive /\ D.quiesced
    <3>1. /\ Len(disk) \in DOMAIN disk' /\ disk'[Len(disk)].status = "recovery_required"
          /\ disk'[Len(disk)].quiesced
      BY <1>5, <1>6, <1>13, <2>2 DEF DiskActive, D
    <3>2. world'.maintenance
      BY <1>2, <3>1 DEF UpdaterInv, TypeOK, World
    <3> QED
      BY <3>2 DEF Paused
  <2> QED
    BY <2>1, <2>2 DEF UpdaterInv, Tracked
<1>16. CoreOK' /\ Available'
  BY <1>4, <1>6, <1>7, <1>8, <1>9 DEF UpdaterInv, CoreOK, Available
<1> QED
  BY <1>9, <1>10, <1>11, <1>12, <1>14, <1>15, <1>16 DEF UpdaterInv

\* A record whose update the operator has repaired.
Acknowledged(job) == IF job.status \in Active THEN [job EXCEPT !.status = "failed"] ELSE job

LEMMA AckKeeps ==
  ASSUME UpdaterInv, AckRecovery
  PROVE  UpdaterInv'
<1>1. /\ ~up /\ AnyActive(disk) /\ world' = Instance(world.database)
      /\ disk' = [n \in DOMAIN disk |-> Acknowledged(disk[n])]
      /\ UNCHANGED <<up, jobs, busy, run, poisoned, work, raced, left>>
  BY DEF AckRecovery, Acknowledged
<1>2. disk \in Seq(Job) /\ \A n \in DOMAIN disk : disk[n] \in Job
  BY DEF UpdaterInv, TypeOK
<1>3. \A job \in Job :
        /\ Acknowledged(job) \in Job /\ Acknowledged(job).id = job.id
        /\ Acknowledged(job).status \notin Active
        /\ job.status \in Active => Acknowledged(job).status = "failed"
  BY DEF Acknowledged, Job, Status, Active
<1>4. /\ disk' \in Seq(Job) /\ Len(disk') = Len(disk) /\ DOMAIN disk' = DOMAIN disk
      /\ \A n \in DOMAIN disk : disk'[n] = Acknowledged(disk[n])
  <2>1. \A n \in DOMAIN disk : disk'[n] \in Job
    BY <1>1, <1>2, <1>3
  <2> QED
    BY <1>1, <1>2, <2>1, MapTyped
<1>5. /\ disk # <<>> /\ Len(disk) \in DOMAIN disk /\ D.status \in Active /\ D \in Job
      /\ D' = Acknowledged(D)
  <2>1. PICK n \in DOMAIN disk : disk[n].status \in Active
    BY <1>1 DEF AnyActive
  <2>2. n = Len(disk)
    BY <2>1 DEF UpdaterInv, Ledger
  <2> QED
    BY <1>2, <1>4, <2>1, <2>2 DEF D
<1>6. D'.status = "failed"
  BY <1>3, <1>5
<1>7. world' \in World /\ Settled' /\ CoreOK'
  BY <1>1 DEF UpdaterInv, TypeOK, World, Instance, Revision, Settled, CoreOK
<1>8. busy = {} /\ busy' = {} /\ InFlight = {} /\ InFlight' = {} /\ jobs' = <<>> /\ ~up'
  BY <1>1 DEF UpdaterInv, Ledger, InFlight
<1>9. TypeOK'
  BY <1>1, <1>4, <1>7 DEF UpdaterInv, TypeOK
<1>10. Ledger'
  <2>1. \A m, n \in DOMAIN disk' : disk'[m].id = disk'[n].id => m = n
    BY <1>2, <1>3, <1>4 DEF UpdaterInv, Ledger
  <2>2. \A n \in DOMAIN disk' : disk'[n].status \notin Active
    BY <1>2, <1>3, <1>4
  <2> QED
    BY <1>8, <2>1, <2>2 DEF Ledger
<1>11. InOperation' /\ OutOfOperation'
  BY <1>8 DEF InOperation, OutOfOperation
<1>12. Tracked' /\ Paused' /\ Available'
  BY <1>6, <1>7, <1>8 DEF Tracked, Paused, Available
<1> QED
  BY <1>7, <1>8, <1>9, <1>10, <1>11, <1>12 DEF UpdaterInv

LEMMA ShutdownKeeps ==
  ASSUME UpdaterInv, Shutdown
  PROVE  UpdaterInv'
<1>1. /\ up' = FALSE /\ jobs' = <<>> /\ busy = {} /\ InFlight = {}
      /\ UNCHANGED <<disk, busy, run, poisoned, world, work, raced, left>>
  BY DEF Shutdown
<1>2. InFlight' = {} /\ D' = D
  BY <1>1 DEF InFlight, D
<1>5. TypeOK'
  <2>1. jobs' \in Seq(Job) /\ up' \in BOOLEAN
    <3>1. <<>> \in Seq(Job)
      OBVIOUS
    <3> QED
      BY <1>1, <3>1
  <2> QED
    BY <1>1, <2>1 DEF UpdaterInv, TypeOK
<1>3. TypeOK' /\ Ledger' /\ InOperation' /\ OutOfOperation'
  BY <1>1, <1>2, <1>5 DEF UpdaterInv, Ledger, InOperation, OutOfOperation
<1>4. Tracked' /\ Paused' /\ CoreOK' /\ Available'
  BY <1>1, <1>2 DEF UpdaterInv, Tracked, Settled, DiskActive, Paused, CoreOK, Available
<1> QED
  BY <1>2, <1>3, <1>4 DEF UpdaterInv

\* The transaction ends, whether its update still watches it or not.
LEMMA MigrationEndsKeeps ==
  ASSUME UpdaterInv, MigrationEnds
  PROVE  UpdaterInv'
<1>1. /\ world.migration = "running"
      /\ UNCHANGED <<up, jobs, disk, busy, run, poisoned, work, raced, left>>
  BY DEF MigrationEnds
<1>2. /\ world' \in World
      /\ world'.image = world.image /\ world'.core = world.core
      /\ world'.release = world.release /\ world'.maintenance = world.maintenance
      /\ \/ world'.migration = "committed" /\ world'.database = "new"
         \/ world'.migration = "rolled back" /\ world'.database = world.database
  BY DEF MigrationEnds, UpdaterInv, TypeOK, World, Revision
<1>3. InFlight' = InFlight /\ D' = D /\ J' = J
  BY <1>1 DEF InFlight, D, J
<1>4. ~Settled /\ ~Before /\ ~Committed
  BY <1>1 DEF Settled, Before, Committed
<1>5. DiskActive /\ D.quiesced
  BY <1>4 DEF UpdaterInv, Tracked
<1>6. TypeOK'
  BY <1>1, <1>2 DEF UpdaterInv, TypeOK
<1>7. Ledger' /\ InOperation' /\ OutOfOperation'
  BY <1>1, <1>3 DEF UpdaterInv, Ledger, InOperation, OutOfOperation, DiskActive
<1>8. ASSUME NEW id \in InFlight PROVE Place(id)'
  <2>1. Place(id)
    BY DEF UpdaterInv
  <2>2. run'[id] = run[id]
    BY <1>1
  <2>3. run[id].pc \in {"migrating", "record", "catch", "cleanup", "settle"}
    <3>1. run[id].pc \in Pcs \ {"none"}
      BY DEF InFlight, UpdaterInv, TypeOK
    <3> QED
      BY <1>4, <2>1, <3>1 DEF Place, Pcs, Saving, Resuming, Steps
  <2>4. CASE run[id].pc = "migrating"
    BY <1>1, <1>2, <1>3, <2>1, <2>2, <2>4 DEF Place, Saving, Resuming, Steps
  <2>5. CASE run[id].pc \in {"record", "catch"}
    BY <1>2, <1>3, <1>4, <2>1, <2>2, <2>5 DEF Place, Saving, Resuming, Steps
  <2>6. CASE run[id].pc \in {"cleanup", "settle"}
    BY <1>2, <1>3, <1>4, <2>1, <2>2, <2>6 DEF Place, Saving, Resuming, Steps
  <2> QED
    BY <2>3, <2>4, <2>5, <2>6
<1>9. Tracked' /\ Paused' /\ CoreOK' /\ Available'
  BY <1>1, <1>2, <1>3, <1>4, <1>5
  DEF UpdaterInv, Tracked, DiskActive, Paused, CoreOK, Available
<1> QED
  BY <1>3, <1>6, <1>7, <1>8, <1>9 DEF UpdaterInv

LEMMA WorkKeeps ==
  ASSUME UpdaterInv, UNCHANGED <<up, jobs, disk, busy, run, poisoned, world, left>>,
         work' \subseteq Tasks \cup Uncounted, raced' \subseteq Uncounted
  PROVE  UpdaterInv'
<1>1. InFlight' = InFlight /\ D' = D /\ J' = J
  BY DEF InFlight, D, J
<1>2. TypeOK'
  BY DEF UpdaterInv, TypeOK
<1>3. Ledger' /\ InOperation' /\ OutOfOperation'
  BY <1>1 DEF UpdaterInv, Ledger, InOperation, OutOfOperation, DiskActive
<1>4. ASSUME NEW id \in InFlight PROVE Place(id)'
  <2>1. Place(id)
    BY DEF UpdaterInv
  <2> QED
    BY <1>1, <2>1 DEF Place, Before, Settled, Committed
<1>5. Tracked' /\ Paused' /\ CoreOK' /\ Available'
  BY <1>1 DEF UpdaterInv, Tracked, Settled, Before, DiskActive, Paused, CoreOK, Available
<1> QED
  BY <1>1, <1>2, <1>3, <1>4, <1>5 DEF UpdaterInv

(* ------------------------------ theorems -------------------------------- *)

LEMMA UpdaterInit == Init => UpdaterInv
<1> SUFFICES ASSUME Init PROVE UpdaterInv
  OBVIOUS
<1>1. InFlight = {} /\ run \in [Ids -> [pc : Pcs, outcome : Outcomes]]
  BY DEF Init, InFlight, NoRun, Pcs, Outcomes
<1>2. world \in World /\ Settled /\ CoreOK /\ world.release = "old"
  BY DEF Init, Instance, World, Revision, Settled, CoreOK
<1>3. jobs \in Seq(Job) /\ disk \in Seq(Job) /\ jobs = <<>> /\ disk = <<>>
  BY DEF Init
<1>4. TypeOK
  BY <1>1, <1>2, <1>3, ConstantsAssumption DEF Init, TypeOK
<1>5. Ledger /\ InOperation /\ OutOfOperation
  BY <1>1, <1>3 DEF Init, Ledger, InOperation, OutOfOperation
<1>6. Tracked /\ Paused /\ Available
  BY <1>2, <1>3 DEF Init, Tracked, Settled, Paused, Available
<1> QED
  BY <1>1, <1>2, <1>4, <1>5, <1>6 DEF UpdaterInv

LEMMA UpdaterStep == UpdaterInv /\ [Next]_vars => UpdaterInv'
<1> SUFFICES ASSUME UpdaterInv, [Next]_vars PROVE UpdaterInv'
  OBVIOUS
<1>1. ASSUME NEW id \in Ids, OpStep(id) PROVE UpdaterInv'
  BY <1>1, OpStepKeeps, BeginKeeps, DeathsKeep
<1>2. ASSUME RequestPasses \/ WorkStarts \/ ScheduleTick \/ WorkEnds PROVE UpdaterInv'
  <2>1. work' \subseteq Tasks \cup Uncounted /\ raced' \subseteq Uncounted
    BY <1>2 DEF RequestPasses, WorkStarts, ScheduleTick, WorkEnds, UpdaterInv, TypeOK, Tasks, Uncounted
  <2> QED
    BY <1>2, <2>1, WorkKeeps DEF RequestPasses, WorkStarts, ScheduleTick, WorkEnds
<1>3. CASE UNCHANGED vars
  BY <1>3, WorkKeeps DEF vars, UpdaterInv, TypeOK
<1> QED
  BY <1>1, <1>2, <1>3, AcceptKeeps, AcceptFaultKeeps, ThrowsKeeps, MigrationEndsKeeps, ShutdownKeeps,
     DeathsKeep, BootKeeps, AckKeeps
  DEF Next

\* The inductive invariant of the updater: the core, the operation on disk and the worker's
\* step agree on which revision runs and on whether writes are paused.
THEOREM UpdaterInvariant == Spec => []UpdaterInv
BY UpdaterInit, UpdaterStep, PTL DEF Spec

\* Whatever fails, dies or loses power, the running worker never leaves a core of the
\* other revision open for writes.
THEOREM WritesArePaused == Spec => []WritesPaused
<1>1. UpdaterInv => WritesPaused
  BY DEF UpdaterInv, Paused, CoreOK, WritesPaused, Serving
<1> QED
  BY <1>1, UpdaterInvariant, PTL

\* The previous core is started again only over the database it was built for.
THEOREM NoRollbackIsBlind == Spec => NoBlindRollback
<1>1. UpdaterInv /\ [Next]_vars =>
        [up /\ up' /\ world.core = "off" /\ world'.core = "old" =>
           world.database = "old" /\ world.migration # "running"]_vars
  <2> SUFFICES ASSUME UpdaterInv, Next, up, up', world.core = "off", world'.core = "old"
               PROVE  world.database = "old" /\ world.migration # "running"
    OBVIOUS
  <2>1. ASSUME NEW id \in Ids, ResumeOld(id) PROVE Before
    BY <2>1, FlightFacts DEF ResumeOld, Place, Resuming
  <2>2. ASSUME NEW id \in Ids, OpStep(id) \/ Throws(id), ~ResumeOld(id) PROVE FALSE
    <3> USE DEF UpdaterInv, TypeOK, World
    <3>1. OpStep(id) => /\ ~SettleFault(id)
                        /\ ~Activate(id)
      BY DEF SettleFault, Die, Activate
    <3>2. ~Throws(id) /\ ~Catch(id) /\ ~StopCore(id)
      BY DEF Throws, Catch, StopCore, CoreOff
    <3>3. ~Begin(id) /\ ~Plan(id) /\ ~Prepare(id) /\ ~Guard(id) /\ ~GuardCounts(id) /\ ~Save(id)
      BY DEF Begin, Plan, Prepare, Guard, GuardCounts, Save
    <3>4. ~StopSsh(id) /\ ~FinalBackup(id) /\ ~MigrationStarts(id) /\ ~MigrationReported(id)
      BY DEF StopSsh, FinalBackup, MigrationStarts, MigrationReported
    <3>5. ~Health(id) /\ ~Publish(id) /\ ~StartSsh(id) /\ ~Cleanup(id) /\ ~Settle(id)
      BY DEF Health, Publish, StartSsh, Cleanup, Settle
    <3> QED
      BY <2>2, <3>1, <3>2, <3>3, <3>4, <3>5 DEF OpStep
  <2>3. ASSUME NEW id \in Ids, NEW operation \in {"check", "apply"},
               Accept(id, operation) \/ AcceptFault(id)
        PROVE  FALSE
    BY <2>3 DEF Accept, AcceptFault
  <2>4. ~MigrationEnds /\ ~Boot
    BY DEF MigrationEnds, Boot, UpdaterInv, TypeOK, World
  <2>5. ~Shutdown /\ ~Crash /\ ~PowerLoss /\ ~AckRecovery
    BY DEF Shutdown, Crash, PowerLoss, Die, AckRecovery
  <2>6. ~RequestPasses /\ ~WorkStarts /\ ~ScheduleTick /\ ~WorkEnds
    BY DEF RequestPasses, WorkStarts, ScheduleTick, WorkEnds
  <2>7. \E id \in Ids : ResumeOld(id)
    BY <2>2, <2>3, <2>4, <2>5, <2>6 DEF Next
  <2> QED
    BY <2>1, <2>7 DEF Before, Settled
<1> QED
  BY <1>1, UpdaterInvariant, PTL DEF Spec, NoBlindRollback

(* --------------------------- no work is cut ----------------------------- *)

\* Once the guard has found no agent and no deployment at work, one starts until the update
\* is over only by what the guard did not count.
Quiet ==
  \A id \in InFlight :
    J.quiesced /\ run[id].pc \notin {"cleanup", "settle"} =>
      /\ "request" \notin raced => work \cap {"request", "agent"} = {}
      /\ raced = {} => work = {}

LEMMA QuietWithoutRun ==
  ASSUME InFlight' = {}
  PROVE  Quiet'
BY DEF Quiet

\* A step of an operation under way that counts nothing.
LEMMA QuietInRun ==
  ASSUME UpdaterInv, Quiet, NEW id \in Ids, run[id].pc \notin {"none", "cleanup"},
         NEW q, run' = [run EXCEPT ![id] = q], J'.quiesced = J.quiesced, raced' = raced,
         work' \in {work, {}}, run[id].pc = "settle" => q.pc = "none"
  PROVE  Quiet'
<1>1. InFlight = {id}
  BY FlightFacts
<1>2. run'[id] = q /\ \A i \in Ids : i # id => run'[i] = run[i]
  BY DEF UpdaterInv, TypeOK
<1>3. InFlight' \subseteq {id}
  BY <1>1, <1>2 DEF InFlight
<1>4. id \in InFlight' => run[id].pc # "settle"
  BY <1>2 DEF InFlight
<1> QED
  BY <1>1, <1>3, <1>4 DEF Quiet

LEMMA OpStepQuiet ==
  ASSUME UpdaterInv, Quiet, NEW id \in Ids, OpStep(id) \/ Throws(id)
  PROVE  Quiet'
<1>1. CASE Begin(id)
  <2>1. ~J.quiesced /\ InFlight = {} /\ UNCHANGED jobs
    BY <1>1, BusyFacts DEF Begin
  <2> QED
    BY <2>1 DEF Quiet, J
<1>2. CASE Plan(id) \/ Cleanup(id)
  <2>1. run[id].pc # "none" /\ run'[id].pc = "settle"
    BY <1>2 DEF Plan, Cleanup, Goto, UpdaterInv, TypeOK
  <2>2. InFlight' \subseteq {id}
    <3>1. InFlight = {id}
      BY <2>1, FlightFacts
    <3>2. \A i \in Ids : i # id => run'[i] = run[i]
      BY <1>2 DEF Plan, Cleanup, Goto, UpdaterInv, TypeOK
    <3> QED
      BY <3>1, <3>2 DEF InFlight
  <2> QED
    BY <2>1, <2>2 DEF Quiet
<1>3. CASE GuardCounts(id)
  <2>1. run[id].pc = "count" /\ run[id].pc # "none" /\ ~J.quiesced
    BY <1>3, FlightFacts DEF GuardCounts, Place
  <2>2. work' = work /\ raced' = work \cap Uncounted /\ (work \cap Tasks = {} \/ UNCHANGED jobs)
    BY <1>3 DEF GuardCounts
  <2>3. InFlight' \subseteq {id}
    <3>1. \A i \in Ids : i # id => run'[i] = run[i]
      BY <1>3 DEF GuardCounts, Goto, UpdaterInv, TypeOK
    <3> QED
      BY <2>1, <3>1, FlightFacts DEF InFlight
  <2>4. CASE work \cap Tasks = {}
    BY <2>2, <2>3, <2>4 DEF Quiet, Tasks, Uncounted, UpdaterInv, TypeOK
  <2>5. CASE UNCHANGED jobs
    BY <2>1, <2>3, <2>5 DEF Quiet, J
  <2> QED
    BY <2>2, <2>4, <2>5
<1>4. CASE Settle(id) \/ SettleFault(id)
  <2>1. run[id].pc # "none" /\ (run' = [run EXCEPT ![id] = NoRun] \/ run' = [i \in Ids |-> NoRun])
    BY <1>4 DEF Settle, SettleFault, Die
  <2>2. InFlight = {id}
    BY <2>1, FlightFacts
  <2>3. InFlight' = {}
    BY <2>1, <2>2 DEF InFlight, NoRun, UpdaterInv, TypeOK
  <2> QED
    BY <2>3, QuietWithoutRun
<1>5. CASE FinalBackup(id) \/ MigrationReported(id)
  <2>1. /\ run[id].pc \in {"final", "migrating"} /\ run[id].pc # "none"
        /\ UNCHANGED <<raced, work>>
        /\ Goto(id, "uncertain") \/ Goto(id, "record")
    BY <1>5 DEF FinalBackup, MigrationReported
  <2>2. PICK d \in {"unchanged", "uncertain", "committed"} : SetJob([JobOf(id) EXCEPT !.database = d])
    BY <1>5 DEF FinalBackup, MigrationReported
  <2>3. J \in Job /\ JobOf(id) = J /\ J.id = id
    BY <2>1, FlightFacts
  <2>4. PICK j \in Job : j = [J EXCEPT !.database = d]
    BY <2>3 DEF Job
  <2>5. j.id = id /\ j.quiesced = J.quiesced /\ SetJob(j)
    BY <2>2, <2>3, <2>4 DEF Job
  <2>6. J' = j
    BY <2>1, <2>5, SetJobFacts
  <2>7. PICK pc \in {"uncertain", "record"} : run' = [run EXCEPT ![id] = [@ EXCEPT !.pc = pc]]
    BY <2>1 DEF Goto
  <2>8. PICK q : q = [run[id] EXCEPT !.pc = pc]
    OBVIOUS
  <2>9. run' = [run EXCEPT ![id] = q]
    BY <2>7, <2>8
  <2> QED
    BY <2>1, <2>5, <2>6, <2>9, QuietInRun
<1>6. CASE \/ Prepare(id) \/ Guard(id) \/ Save(id) \/ StopCore(id) \/ StopSsh(id)
           \/ MigrationStarts(id) \/ Activate(id) \/ Health(id) \/ Publish(id) \/ StartSsh(id)
           \/ Throws(id) \/ Catch(id) \/ ResumeOld(id)
  <2>1. /\ run[id].pc \in Steps \cup Saving \cup Resuming \cup {"catch"}
        /\ UNCHANGED <<jobs, raced>> /\ work' \in {work, {}}
    BY <1>6 DEF Prepare, Guard, Save, StopCore, StopSsh, CoreOff, MigrationStarts, Activate, Health,
         Publish, StartSsh, Throws, Catch, ResumeOld, Steps, Saving, Resuming
  <2>2. (\E pc : Goto(id, pc)) \/ (\E o : Ends(id, o))
    BY <1>6 DEF Prepare, Guard, Save, StopCore, StopSsh, MigrationStarts, Activate, Health,
         Publish, StartSsh, Throws, Catch, ResumeOld
  <2>3. PICK q : run' = [run EXCEPT ![id] = q]
    BY <2>2 DEF Goto, Ends
  <2>4. run[id].pc \notin {"none", "cleanup", "settle"} /\ J' = J
    BY <2>1 DEF Steps, Saving, Resuming, J
  <2> QED
    BY <2>1, <2>3, <2>4, QuietInRun
<1> QED
  BY <1>1, <1>2, <1>3, <1>4, <1>5, <1>6 DEF OpStep

LEMMA QuietStep == UpdaterInv /\ Quiet /\ [Next]_vars => Quiet'
<1> SUFFICES ASSUME UpdaterInv, Quiet, [Next]_vars PROVE Quiet'
  OBVIOUS
<1>1. ASSUME NEW id \in Ids, OpStep(id) \/ Throws(id) PROVE Quiet'
  BY <1>1, OpStepQuiet
<1>2. ASSUME NEW id \in Ids, NEW operation \in {"check", "apply"},
             Accept(id, operation) \/ AcceptFault(id)
      PROVE  Quiet'
  <2>1. InFlight = {} /\ run' = run
    BY <1>2, BusyFacts DEF Accept, AcceptFault
  <2> QED
    BY <2>1, QuietWithoutRun DEF InFlight
<1>3. CASE Shutdown \/ Boot \/ AckRecovery
  <2>1. InFlight = {} /\ run' = run
    BY <1>3 DEF Shutdown, Boot, AckRecovery, UpdaterInv, Ledger
  <2> QED
    BY <2>1, QuietWithoutRun DEF InFlight
<1>4. CASE Crash \/ PowerLoss
  <2>1. run' = [id \in Ids |-> NoRun]
    BY <1>4 DEF Crash, PowerLoss, Die
  <2>2. InFlight' = {}
    BY <2>1 DEF InFlight, NoRun
  <2> QED
    BY <2>2, QuietWithoutRun
<1>5. CASE RequestPasses
  <2>1. \A id \in InFlight : ~(J.quiesced /\ run[id].pc \notin {"cleanup", "settle"})
    BY <1>5 DEF RequestPasses, UpdaterInv, Place
  <2> QED
    BY <1>5, <2>1 DEF RequestPasses, Quiet, InFlight, J
<1>6. CASE WorkStarts \/ WorkEnds \/ MigrationEnds \/ UNCHANGED vars
  <2>1. UNCHANGED <<jobs, run, raced>>
    BY <1>6 DEF WorkStarts, WorkEnds, MigrationEnds, vars
  <2>2. work = {} => work' = {}
    BY <1>6 DEF WorkStarts, WorkEnds, MigrationEnds, vars
  <2>3. work \cap {"request", "agent"} = {} => work' \cap {"request", "agent"} = {}
    BY <1>6 DEF WorkStarts, WorkEnds, MigrationEnds, vars
  <2> QED
    BY <2>1, <2>2, <2>3 DEF Quiet, InFlight, J
<1>7. CASE ScheduleTick
  <2>1. UNCHANGED <<jobs, run>> /\ raced' = raced \cup {"ci"} /\ work' = work \cup {"ci"}
    BY <1>7 DEF ScheduleTick
  <2> QED
    BY <2>1 DEF Quiet, InFlight, J
<1> QED
  BY <1>1, <1>2, <1>3, <1>4, <1>5, <1>6, <1>7 DEF Next

\* An update cuts off no agent but one started by a request from before the pause, and no
\* deployment but one started by such a request, a CI run or a timer of the core.
THEOREM NothingIsCut == Spec => NoWorkCut
<1>1. Init => Quiet
  BY DEF Init, Quiet, InFlight, NoRun
<1>2. UpdaterInv /\ Quiet /\ [Next]_vars =>
        [up /\ up' /\ Serving /\ world'.core = "off" =>
           /\ "agent" \in work => "request" \in raced
           /\ "deployment" \in work => raced # {}]_vars
  <2> DEFINE Excused == /\ "agent" \in work => "request" \in raced
                        /\ "deployment" \in work => raced # {}
  <2> SUFFICES ASSUME UpdaterInv, Quiet, Next, up, up', Serving, world'.core = "off"
               PROVE  Excused
    OBVIOUS
  <2> USE DEF Serving
  <2>1. ASSUME NEW id \in Ids, StopCore(id) PROVE Excused
    <3>1. run[id].pc = "stop" /\ run[id].pc # "none"
      BY <2>1 DEF StopCore
    <3>2. J.quiesced /\ id \in InFlight
      BY <3>1, FlightFacts DEF Place, Steps, InFlight
    <3> QED
      BY <3>1, <3>2 DEF Quiet
  <2>2. ASSUME NEW id \in Ids, Catch(id) PROVE Excused
    <3>1. run[id].pc = "catch" /\ run[id].pc # "none"
      BY <2>2 DEF Catch
    <3>2. JobOf(id) = J /\ id \in InFlight
      BY <3>1, FlightFacts DEF InFlight
    <3>3. world' # world => J.quiesced
      BY <2>2, <3>2 DEF Catch
    <3> QED
      BY <3>1, <3>2, <3>3 DEF Quiet
  <2>3. ASSUME NEW id \in Ids, OpStep(id) \/ Throws(id), ~StopCore(id), ~Catch(id) PROVE FALSE
    <3> USE DEF UpdaterInv, TypeOK, World
    <3>1. ~SettleFault(id) /\ ~Activate(id) /\ ~ResumeOld(id)
      BY DEF SettleFault, Die, Activate, ResumeOld
    <3>2. ~Throws(id) /\ ~Begin(id) /\ ~Plan(id) /\ ~Prepare(id) /\ ~Guard(id) /\ ~GuardCounts(id)
      BY DEF Throws, Begin, Plan, Prepare, Guard, GuardCounts
    <3>3. ~Save(id) /\ ~StopSsh(id) /\ ~FinalBackup(id) /\ ~MigrationStarts(id) /\ ~MigrationReported(id)
      BY DEF Save, StopSsh, FinalBackup, MigrationStarts, MigrationReported
    <3>4. ~Health(id) /\ ~Publish(id) /\ ~StartSsh(id) /\ ~Cleanup(id) /\ ~Settle(id)
      BY DEF Health, Publish, StartSsh, Cleanup, Settle
    <3> QED
      BY <2>3, <3>1, <3>2, <3>3, <3>4 DEF OpStep
  <2>4. ASSUME NEW id \in Ids, NEW operation \in {"check", "apply"},
               Accept(id, operation) \/ AcceptFault(id)
        PROVE  FALSE
    BY <2>4 DEF Accept, AcceptFault
  <2>5. ~MigrationEnds /\ ~Boot
    BY DEF MigrationEnds, Boot, UpdaterInv, TypeOK, World
  <2>6. ~Shutdown /\ ~Crash /\ ~PowerLoss /\ ~AckRecovery
    BY DEF Shutdown, Crash, PowerLoss, Die, AckRecovery
  <2>7. ~RequestPasses /\ ~WorkStarts /\ ~ScheduleTick /\ ~WorkEnds
    BY DEF RequestPasses, WorkStarts, ScheduleTick, WorkEnds
  <2> QED
    BY <2>1, <2>2, <2>3, <2>4, <2>5, <2>6, <2>7 DEF Next
<1> QED
  BY <1>1, <1>2, QuietStep, UpdaterInit, UpdaterStep, PTL DEF Spec, NoWorkCut

(* ------------------- what is recorded is how things are ------------------ *)

\* The host as one revision runs it, its services up; and open for writes.
Standing ==
  /\ world.ssh
  /\ world.core = world.image /\ world.image = world.database /\ world.release = world.database
Whole == Standing /\ (world.maintenance => world.leftover)
Updated == world.database = "new" /\ world.migration = "committed"

\* Where an operation is tells which services it has stopped or brought back.
Upright(id) ==
  /\ run[id].pc = "plan" => Whole
  /\ run[id].pc \in {"prepare", "guard", "count"} => Standing
  /\ run[id].pc = "catch" /\ ~J.quiesced => Standing
  /\ run[id].pc = "resume ssh" => world.core = "old"
  /\ run[id].pc \in {"health", "publish", "start ssh"} => world.core = "new"
  /\ J.database = "committed" => world.migration = "committed"
  /\ run[id].pc = "cleanup" /\ run[id].outcome # "recovery_required" => Standing
  /\ run[id].pc = "settle" /\ run[id].outcome # "recovery_required" => Whole
  /\ run[id].pc \in {"cleanup", "settle"} /\ run[id].outcome = "succeeded" => Updated

\* Without a record of something unfinished the instance is whole, and the last record says
\* of which revision it is.
TruthInv ==
  /\ Whole \/ DiskActive
  /\ disk # <<>> /\ D.status = "succeeded" => Updated
  /\ \A id \in InFlight : Upright(id)

\* An operation that goes on is on record as unfinished.
LEMMA TruthInRun ==
  ASSUME UpdaterInv, NEW id \in Ids, run[id].pc # "none", UpdaterInv',
         \A i \in Ids : i # id => run'[i] = run[i], run'[id].pc # "none", Upright(id)'
  PROVE  TruthInv'
<1>1. InFlight = {id}
  BY FlightFacts
<1>2. InFlight' = {id}
  BY <1>1 DEF InFlight
<1>3. DiskActive'
  BY <1>2 DEF UpdaterInv, InOperation
<1> QED
  BY <1>2, <1>3 DEF TruthInv, DiskActive, Active

\* Nothing in flight, nothing recorded: how things are stays as it is.
LEMMA TruthOutside ==
  ASSUME TruthInv, InFlight' = {}, UNCHANGED disk, Whole => Whole', Updated => Updated'
  PROVE  TruthInv'
BY DEF TruthInv, DiskActive, D

LEMMA OpStepTrue ==
  ASSUME UpdaterInv, UpdaterInv', TruthInv, NEW id \in Ids, run[id].pc # "none",
         OpStep(id) \/ Throws(id), ~Begin(id), ~Settle(id), ~SettleFault(id)
  PROVE  TruthInv'
<1>1. /\ Place(id) /\ Upright(id) /\ JobOf(id) = J /\ J \in Job /\ J.id = id
      /\ \A i \in Ids : run[i] \in [pc : Pcs, outcome : Outcomes]
      /\ world \in World
  BY FlightFacts DEF TruthInv, InFlight, UpdaterInv, TypeOK
<1>2. ASSUME \A i \in Ids : i # id => run'[i] = run[i], run'[id].pc # "none", Upright(id)'
      PROVE  TruthInv'
  BY <1>2, TruthInRun
<1>3. ASSUME NEW pc \in Pcs \ {"none"}, Goto(id, pc), Upright(id)'
      PROVE  TruthInv'
  <2>1. run'[id].pc # "none" /\ \A i \in Ids : i # id => run'[i] = run[i]
    BY <1>1, <1>3 DEF Goto, UpdaterInv, TypeOK
  <2> QED
    BY <1>2, <1>3, <2>1
<1>4. ASSUME NEW o \in Outcomes, Ends(id, o), Upright(id)'
      PROVE  TruthInv'
  <2>1. run'[id].pc # "none" /\ \A i \in Ids : i # id => run'[i] = run[i]
    BY <1>4 DEF Ends, UpdaterInv, TypeOK
  <2> QED
    BY <1>2, <1>4, <2>1
<1>5. \A pc \in Pcs : Goto(id, pc) => run'[id].pc = pc
  BY <1>1 DEF Goto, UpdaterInv, TypeOK
<1>6. \A o \in Outcomes : Ends(id, o) => run'[id].pc = "cleanup" /\ run'[id].outcome = o
  BY <1>1 DEF Ends, UpdaterInv, TypeOK
<1>7. CASE Plan(id)
  <2>1. PICK o \in {"checked", "failed"} : run' = [run EXCEPT ![id] = [pc |-> "settle", outcome |-> o]]
    BY <1>7 DEF Plan
  <2>2. /\ run'[id] = [pc |-> "settle", outcome |-> o]
        /\ \A i \in Ids : i # id => run'[i] = run[i]
    BY <2>1 DEF UpdaterInv, TypeOK
  <2>3. run[id].pc = "plan" /\ world' = world
    BY <1>7 DEF Plan
  <2>4. PICK a \in BOOLEAN : SetJob([J EXCEPT !.available = a])
    BY <1>1, <1>7 DEF Plan
  <2>5. PICK j : j = [J EXCEPT !.available = a]
    OBVIOUS
  <2>6. j \in Job /\ j.id = id /\ j.database = J.database
    BY <1>1, <2>5 DEF Job
  <2>7. J' = j
    BY <2>4, <2>5, <2>6, SetJobFacts
  <2>8. Upright(id)'
    BY <1>1, <2>2, <2>3, <2>6, <2>7 DEF Upright, Whole, Standing
  <2> QED
    BY <1>2, <2>2, <2>8
<1>8. CASE Prepare(id) \/ Guard(id)
  <2>1. PICK pc \in {"guard", "count"} : Goto(id, pc)
    BY <1>8 DEF Prepare, Guard
  <2>2. /\ run[id].pc \in {"prepare", "guard"} /\ jobs' = jobs
        /\ world' \in {world, [world EXCEPT !.maintenance = TRUE]}
    BY <1>8 DEF Prepare, Guard
  <2>3. pc \in Pcs \ {"none"}
    BY DEF Pcs, Steps
  <2>4. /\ world'.ssh = world.ssh /\ world'.core = world.core /\ world'.image = world.image
        /\ world'.database = world.database /\ world'.release = world.release
        /\ world'.migration = world.migration
    BY <1>1, <2>2 DEF World
  <2>5. Upright(id)'
    BY <1>1, <1>5, <2>1, <2>2, <2>3, <2>4 DEF Upright, Standing, J
  <2> QED
    BY <1>3, <2>1, <2>3, <2>5
<1>9. CASE GuardCounts(id)
  <2>1. run[id].pc = "count" /\ world' = world /\ ~J.quiesced
    BY <1>1, <1>9 DEF GuardCounts, Place
  <2>2. CASE Goto(id, "catch") /\ UNCHANGED jobs
    <3>1. "catch" \in Pcs \ {"none"}
      BY DEF Pcs
    <3>2. Upright(id)'
      BY <1>1, <1>5, <2>1, <2>2, <3>1 DEF Upright, Standing, J
    <3> QED
      BY <1>3, <2>2, <3>1, <3>2
  <2>3. CASE Goto(id, "quiesce") /\ SetJob([JobOf(id) EXCEPT !.quiesced = TRUE])
    <3>1. "quiesce" \in Pcs \ {"none"}
      BY DEF Pcs, Saving
    <3>2. PICK j : j = [J EXCEPT !.quiesced = TRUE]
      OBVIOUS
    <3>3. j \in Job /\ j.id = id /\ j.database = J.database /\ SetJob(j)
      BY <1>1, <2>3, <3>2 DEF Job
    <3>4. J' = j
      BY <3>3, SetJobFacts
    <3>5. Upright(id)'
      BY <1>1, <1>5, <2>1, <2>3, <3>1, <3>3, <3>4 DEF Upright
    <3> QED
      BY <1>3, <2>3, <3>1, <3>5
  <2> QED
    BY <1>9, <2>2, <2>3 DEF GuardCounts
<1>10. CASE Save(id)
  <2>1. /\ run[id].pc \in Saving /\ UNCHANGED <<jobs, world>> /\ J.quiesced
    BY <1>1, <1>10 DEF Save, Place
  <2>2. PICK pc \in {"stop", "migrate", "activate", "catch"} : Goto(id, pc)
    BY <1>10 DEF Save
  <2>3. pc \in Pcs \ {"none"}
    BY DEF Pcs, Steps
  <2>4. Upright(id)'
    BY <1>1, <1>5, <2>1, <2>2, <2>3 DEF Upright, J
  <2> QED
    BY <1>3, <2>2, <2>3, <2>4
<1>11. CASE StopCore(id) \/ StopSsh(id) \/ MigrationStarts(id)
  <2>1. PICK pc \in {"stop ssh", "final", "migrating"} : Goto(id, pc)
    BY <1>11 DEF StopCore, StopSsh, MigrationStarts
  <2>2. run[id].pc \in {"stop", "stop ssh", "migrate"} /\ jobs' = jobs
    BY <1>11 DEF StopCore, StopSsh, MigrationStarts
  <2>3. J.database # "committed"
    BY <1>1, <2>2 DEF Place
  <2>4. pc \in Pcs \ {"none"}
    BY DEF Pcs, Steps
  <2>5. Upright(id)'
    BY <1>5, <2>1, <2>2, <2>3, <2>4 DEF Upright, J
  <2> QED
    BY <1>3, <2>1, <2>4, <2>5
<1>12. CASE FinalBackup(id) \/ MigrationReported(id)
  <2>1. PICK pc \in {"uncertain", "record"} : Goto(id, pc)
    BY <1>12 DEF FinalBackup, MigrationReported
  <2>2. PICK d \in {"uncertain", "committed", "unchanged"} :
          /\ SetJob([J EXCEPT !.database = d])
          /\ d = "committed" => world.migration = "committed"
    BY <1>1, <1>12 DEF FinalBackup, MigrationReported
  <2>3. world' = world
    BY <1>12 DEF FinalBackup, MigrationReported
  <2>4. pc \in Pcs \ {"none"}
    BY DEF Pcs, Saving
  <2>5. PICK j : j = [J EXCEPT !.database = d]
    OBVIOUS
  <2>6. j \in Job /\ j.id = id /\ j.database = d
    BY <1>1, <2>5 DEF Job
  <2>7. J' = j
    BY <2>2, <2>5, <2>6, SetJobFacts
  <2>8. Upright(id)'
    BY <1>5, <2>1, <2>2, <2>3, <2>4, <2>6, <2>7 DEF Upright
  <2> QED
    BY <1>3, <2>1, <2>4, <2>8
<1>13. CASE Activate(id) \/ Health(id) \/ Publish(id)
  <2>1. PICK pc \in {"health", "publish", "start ssh"} : Goto(id, pc)
    BY <1>13 DEF Activate, Health, Publish
  <2>2. world'.core = "new" /\ world'.migration = world.migration /\ jobs' = jobs
    BY <1>1, <1>13 DEF Activate, Health, Publish, Upright, World
  <2>3. pc \in Pcs \ {"none"}
    BY DEF Pcs, Steps
  <2>4. Upright(id)'
    BY <1>1, <1>5, <2>1, <2>2, <2>3 DEF Upright, J
  <2> QED
    BY <1>3, <2>1, <2>3, <2>4
<1>14. CASE StartSsh(id)
  <2>1. /\ run[id].pc \in {"start ssh", "resume ssh"} /\ jobs' = jobs
        /\ world' = [world EXCEPT !.ssh = TRUE]
    BY <1>14 DEF StartSsh
  <2>2. PICK o \in {"succeeded", "failed"} :
          Ends(id, o) /\ (o = "succeeded" => run[id].pc = "start ssh")
    BY <1>14 DEF StartSsh
  <2>3. o \in Outcomes
    BY DEF Outcomes
  <2>4. /\ world'.ssh /\ world'.core = world.core /\ world'.image = world.image
        /\ world'.database = world.database /\ world'.release = world.release
        /\ world'.migration = world.migration
    BY <1>1, <2>1 DEF World
  <2>5. Standing' /\ (o = "succeeded" => Updated')
    BY <1>1, <2>1, <2>2, <2>4
    DEF Place, Upright, Standing, Updated, Committed, Before, Settled, Resuming
  <2>6. Upright(id)'
    BY <1>1, <1>6, <2>1, <2>2, <2>3, <2>4, <2>5 DEF Upright, J
  <2> QED
    BY <1>4, <2>2, <2>3, <2>6
<1>15. CASE Throws(id)
  <2>1. run[id].pc \in Steps \cup Saving \cup Resuming /\ UNCHANGED <<jobs, world>>
    BY <1>15 DEF Throws
  <2>2. CASE Ends(id, "recovery_required")
    <3>1. "recovery_required" \in Outcomes
      BY DEF Outcomes
    <3>2. Upright(id)'
      BY <1>1, <1>6, <2>1, <2>2, <3>1 DEF Upright, J
    <3> QED
      BY <1>4, <2>2, <3>1, <3>2
  <2>3. CASE Goto(id, "catch") /\ run[id].pc \notin Resuming
    <3>1. "catch" \in Pcs \ {"none"}
      BY DEF Pcs
    <3>2. ~J.quiesced => run[id].pc \in {"prepare", "guard", "count"}
      BY <1>1, <2>1 DEF Place
    <3>3. Upright(id)'
      BY <1>1, <1>5, <2>1, <2>3, <3>1, <3>2 DEF Upright, Standing, J
    <3> QED
      BY <1>3, <2>3, <3>1, <3>3
  <2> QED
    BY <1>15, <2>2, <2>3 DEF Throws
<1>16. CASE Catch(id)
  <2>1. run[id].pc = "catch" /\ jobs' = jobs
    BY <1>16 DEF Catch
  <2>2. CASE Ends(id, "failed") /\ ~J.quiesced /\ UNCHANGED world
    <3>1. "failed" \in Outcomes
      BY DEF Outcomes
    <3>2. Upright(id)'
      BY <1>1, <1>6, <2>1, <2>2, <3>1 DEF Upright, Standing, J
    <3> QED
      BY <1>4, <2>2, <3>1, <3>2
  <2>3. CASE Ends(id, "recovery_required") /\ world'.migration = world.migration
    <3>1. "recovery_required" \in Outcomes
      BY DEF Outcomes
    <3>2. Upright(id)'
      BY <1>1, <1>6, <2>1, <2>3, <3>1 DEF Upright, J
    <3> QED
      BY <1>4, <2>3, <3>1, <3>2
  <2>4. CASE Goto(id, "resume") /\ UNCHANGED world
    <3>1. "resume" \in Pcs \ {"none"}
      BY DEF Pcs, Resuming
    <3>2. Upright(id)'
      BY <1>1, <1>5, <2>1, <2>4, <3>1 DEF Upright, J
    <3> QED
      BY <1>3, <2>4, <3>1, <3>2
  <2>5. [world EXCEPT !.core = "off", !.ssh = FALSE].migration = world.migration
    BY <1>1 DEF World
  <2> QED
    BY <1>1, <1>16, <2>2, <2>3, <2>4, <2>5 DEF Catch
<1>17. CASE ResumeOld(id)
  <2>1. /\ run[id].pc = "resume" /\ jobs' = jobs /\ Goto(id, "resume ssh")
        /\ world'.core = "old" /\ world'.migration = world.migration
    BY <1>1, <1>17 DEF ResumeOld, World
  <2>2. "resume ssh" \in Pcs \ {"none"}
    BY DEF Pcs, Resuming
  <2>3. Upright(id)'
    BY <1>1, <1>5, <2>1, <2>2 DEF Upright, J
  <2> QED
    BY <1>3, <2>1, <2>2, <2>3
<1>18. CASE Cleanup(id)
  <2>1. /\ run[id].pc = "cleanup" /\ jobs' = jobs /\ Goto(id, "settle")
    BY <1>18 DEF Cleanup
  <2>6. PICK maintenance, leftover \in BOOLEAN :
          /\ world' = [world EXCEPT !.maintenance = maintenance, !.leftover = leftover]
          /\ run[id].outcome # "recovery_required" => (maintenance => leftover)
    BY <1>18, CleanupWrites
  <2>2. /\ world'.ssh = world.ssh /\ world'.core = world.core /\ world'.image = world.image
        /\ world'.database = world.database /\ world'.release = world.release
        /\ world'.migration = world.migration
        /\ run[id].outcome # "recovery_required" => (world'.maintenance => world'.leftover)
    BY <1>1, <2>6 DEF World
  <2>3. run'[id].outcome = run[id].outcome
    BY <2>1 DEF Goto, UpdaterInv, TypeOK
  <2>4. "settle" \in Pcs \ {"none"}
    BY DEF Pcs
  <2>5. Upright(id)'
    BY <1>1, <1>5, <2>1, <2>2, <2>3, <2>4 DEF Upright, Whole, Standing, Updated, J
  <2> QED
    BY <1>3, <2>1, <2>4, <2>5
<1> QED
  BY <1>7, <1>8, <1>9, <1>10, <1>11, <1>12, <1>13, <1>14, <1>15, <1>16, <1>17, <1>18 DEF OpStep

LEMMA SettleTrue ==
  ASSUME UpdaterInv, UpdaterInv', TruthInv, NEW id \in Ids, Settle(id)
  PROVE  TruthInv'
<1>1. /\ run[id].pc = "settle" /\ run[id].pc # "none" /\ Place(id) /\ JobOf(id) = J /\ J \in Job
      /\ J.id = id /\ InFlight = {id} /\ Len(jobs) \in Nat \ {0}
  BY FlightFacts DEF Settle
<1>2. Upright(id) /\ run[id].outcome \in Outcomes
  BY <1>1 DEF TruthInv, UpdaterInv, TypeOK
<1>3. /\ SetJob([J EXCEPT !.status = run[id].outcome]) /\ disk' = jobs'
      /\ run' = [run EXCEPT ![id] = NoRun] /\ world' = world
  BY <1>1 DEF Settle
<1>4. PICK o \in Outcomes : o = run[id].outcome
  BY <1>2
<1>5. PICK j : j = [J EXCEPT !.status = o]
  OBVIOUS
<1>6. j \in Job /\ j.id = id /\ j.status = o
  BY <1>1, <1>5 DEF Job, Status, Outcomes, Active
<1>7. SetJob(j)
  BY <1>3, <1>4, <1>5
<1>8. J' = j /\ Len(jobs') = Len(jobs)
  BY <1>1, <1>6, <1>7, SetJobFacts
<1>9. D' = j /\ disk' # <<>>
  BY <1>1, <1>3, <1>8 DEF D, J
<1>10. InFlight' = {}
  BY <1>1, <1>3 DEF InFlight, NoRun, UpdaterInv, TypeOK
<1>11. o = "recovery_required" => DiskActive'
  BY <1>6, <1>9 DEF DiskActive, Active
<1>12. o # "recovery_required" => Whole'
  BY <1>1, <1>2, <1>3, <1>4 DEF Upright, Whole, Standing
<1>13. D'.status = "succeeded" => Updated'
  BY <1>1, <1>2, <1>3, <1>4, <1>6, <1>9 DEF Upright, Updated
<1> QED
  BY <1>10, <1>11, <1>12, <1>13 DEF TruthInv

LEMMA BeginTrue ==
  ASSUME UpdaterInv, UpdaterInv', TruthInv, NEW id \in Ids, Begin(id)
  PROVE  TruthInv'
<1>1. /\ InFlight = {} /\ ~J.quiesced /\ J.database = "unchanged" /\ ~DiskActive
      /\ UNCHANGED <<jobs, world>>
  BY BusyFacts DEF Begin
<1>2. Whole
  BY <1>1 DEF TruthInv
<1>3. PICK pc \in {"prepare", "plan"} : run' = [run EXCEPT ![id] = [@ EXCEPT !.pc = pc]]
  BY DEF Begin, Goto
<1>4. /\ run'[id].pc = pc
      /\ \A i \in Ids : i # id => run'[i].pc = "none"
  BY <1>1, <1>3 DEF InFlight, UpdaterInv, TypeOK
<1>5. InFlight' = {id}
  BY <1>4 DEF InFlight
<1>6. DiskActive'
  BY <1>5 DEF UpdaterInv, InOperation
<1>7. Upright(id)'
  BY <1>1, <1>2, <1>4 DEF Upright, Whole, Standing, J
<1> QED
  BY <1>5, <1>6, <1>7 DEF TruthInv, DiskActive, Active

LEMMA BootTrue ==
  ASSUME UpdaterInv, TruthInv, Boot
  PROVE  TruthInv'
<1>1. /\ ~up /\ run' = run
      /\ disk' = [n \in DOMAIN disk |-> Recovering(disk[n])]
      /\ world' = [world EXCEPT !.maintenance = @ \/ \E n \in DOMAIN disk' :
                     /\ disk'[n].status = "recovery_required"
                     /\ disk'[n].quiesced \/ disk'[n].database # "unchanged"]
  BY DEF Boot, Recovering
<1>2. InFlight' = {}
  BY <1>1 DEF UpdaterInv, Ledger, InFlight
<1>3. disk \in Seq(Job) /\ \A n \in DOMAIN disk : disk[n] \in Job
  BY DEF UpdaterInv, TypeOK
<1>4. \A job \in Job :
        /\ Recovering(job) \in Job
        /\ Recovering(job).status \in Active <=> job.status \in Active
        /\ job.status \notin Active => Recovering(job) = job
        /\ Recovering(job).status = "succeeded" => job.status = "succeeded"
  BY DEF Recovering, Job, Status, Active
<1>5. /\ Len(disk') = Len(disk) /\ DOMAIN disk' = DOMAIN disk
      /\ \A n \in DOMAIN disk : disk'[n] = Recovering(disk[n])
  <2>1. \A n \in DOMAIN disk : disk'[n] \in Job
    BY <1>1, <1>3, <1>4
  <2> QED
    BY <1>1, <1>3, <2>1, MapTyped
<1>6. disk' # <<>> => disk # <<>>
  BY <1>3, <1>5
<1>7. disk # <<>> => Len(disk) \in DOMAIN disk /\ D \in Job /\ D' = Recovering(D) /\ disk' # <<>>
  BY <1>3, <1>5 DEF D
<1>8. DiskActive => DiskActive'
  BY <1>4, <1>7 DEF DiskActive
<1>9. /\ world'.ssh = world.ssh /\ world'.core = world.core /\ world'.image = world.image
      /\ world'.database = world.database /\ world'.release = world.release
      /\ world'.migration = world.migration /\ world'.leftover = world.leftover
      /\ world'.maintenance = (world.maintenance \/ \E n \in DOMAIN disk' :
                                 /\ disk'[n].status = "recovery_required"
                                 /\ disk'[n].quiesced \/ disk'[n].database # "unchanged")
  BY <1>1 DEF UpdaterInv, TypeOK, World
<1>10. CASE DiskActive
  BY <1>2, <1>8, <1>10 DEF TruthInv, DiskActive, Active
<1>11. CASE ~DiskActive
  <2>1. ASSUME NEW n \in DOMAIN disk PROVE disk'[n].status # "recovery_required"
    <3>1. disk[n].status \notin Active
      BY <1>3, <1>11, <2>1 DEF UpdaterInv, Ledger, DiskActive, D
    <3> QED
      BY <1>3, <1>4, <1>5, <3>1 DEF Active
  <2>2. Whole
    BY <1>11 DEF TruthInv
  <2>3. Whole'
    <3>1. world'.maintenance => world.maintenance
      BY <1>5, <1>9, <2>1
    <3> QED
      BY <1>9, <2>2, <3>1 DEF Whole, Standing
  <2>4. disk' # <<>> /\ D'.status = "succeeded" => Updated'
    BY <1>4, <1>6, <1>7, <1>9 DEF TruthInv, Updated
  <2> QED
    BY <1>2, <2>3, <2>4 DEF TruthInv
<1> QED
  BY <1>10, <1>11

\* The operator leaves everything on the database's revision, and no record unfinished.
LEMMA AckTrue ==
  ASSUME UpdaterInv, TruthInv, AckRecovery
  PROVE  TruthInv'
<1>1. /\ ~up /\ run' = run /\ AnyActive(disk)
      /\ disk' = [n \in DOMAIN disk |-> IF disk[n].status \in Active
                                        THEN [disk[n] EXCEPT !.status = "failed"] ELSE disk[n]]
      /\ world' = Instance(world.database)
  BY DEF AckRecovery
<1>2. InFlight' = {}
  BY <1>1 DEF UpdaterInv, Ledger, InFlight
<1>3. Whole'
  BY <1>1 DEF Instance, Whole, Standing
<1>4. disk \in Seq(Job) /\ \A n \in DOMAIN disk : disk[n] \in Job
  BY DEF UpdaterInv, TypeOK
<1>5. disk # <<>> /\ D.status \in Active
  <2>1. PICK n \in DOMAIN disk : disk[n].status \in Active
    BY <1>1 DEF AnyActive
  <2>2. n = Len(disk)
    BY <2>1 DEF UpdaterInv, Ledger
  <2> QED
    BY <1>4, <2>1, <2>2 DEF D
<1>6. \A n \in DOMAIN disk : disk[n].status \in Active => [disk[n] EXCEPT !.status = "failed"] \in Job
                                                     /\ [disk[n] EXCEPT !.status = "failed"].status = "failed"
  BY <1>4 DEF Job, Status
<1>7. Len(disk') = Len(disk)
  <2>1. \A n \in DOMAIN disk : disk'[n] \in Job
    BY <1>1, <1>4, <1>6
  <2> QED
    BY <1>1, <1>4, <2>1, MapTyped
<1>8. D'.status = "failed"
  <2>1. Len(disk) \in DOMAIN disk
    BY <1>4, <1>5
  <2> QED
    BY <1>1, <1>5, <1>6, <1>7, <2>1 DEF D
<1> QED
  BY <1>2, <1>3, <1>8 DEF TruthInv

LEMMA TruthStep == UpdaterInv /\ UpdaterInv' /\ TruthInv /\ [Next]_vars => TruthInv'
<1> SUFFICES ASSUME UpdaterInv, UpdaterInv', TruthInv, [Next]_vars PROVE TruthInv'
  OBVIOUS
<1> USE DEF UpdaterInv, TypeOK, World
<1>1. ASSUME NEW id \in Ids, OpStep(id) \/ Throws(id), ~SettleFault(id) PROVE TruthInv'
  <2>1. CASE Begin(id)
    BY <2>1, BeginTrue
  <2>2. CASE Settle(id)
    BY <2>2, SettleTrue
  <2>3. CASE ~Begin(id) /\ ~Settle(id)
    <3>1. run[id].pc # "none"
      BY <1>1, <2>3 DEF OpStep, Plan, Prepare, Guard, GuardCounts, Save, StopCore, StopSsh, FinalBackup,
         MigrationStarts, MigrationReported, Activate, Health, Publish, StartSsh, Catch, ResumeOld,
         Cleanup, Throws, Steps, Saving, Resuming
    <3> QED
      BY <1>1, <2>3, <3>1, OpStepTrue
  <2> QED
    BY <2>1, <2>2, <2>3
<1>2. ASSUME NEW id \in Ids, NEW operation \in {"check", "apply"},
             Accept(id, operation) \/ AcceptFault(id)
      PROVE  TruthInv'
  <2>1. InFlight = {} /\ UNCHANGED <<run, disk, world>>
    BY <1>2, BusyFacts DEF Accept, AcceptFault
  <2> QED
    BY <2>1, TruthOutside DEF InFlight, Whole, Standing, Updated
<1>3. CASE Shutdown
  BY <1>3, TruthOutside DEF Shutdown, InFlight, Whole, Standing, Updated
<1>4. CASE Crash \/ PowerLoss \/ \E id \in Ids : SettleFault(id)
  <2>1. run' = [id \in Ids |-> NoRun] /\ disk' = disk
    BY <1>4 DEF Crash, PowerLoss, SettleFault, Die
  <2>2. InFlight' = {}
    BY <2>1 DEF InFlight, NoRun
  <2>3. (Whole => Whole') /\ (Updated => Updated')
    BY <1>4 DEF Crash, PowerLoss, SettleFault, Whole, Standing, Updated
  <2> QED
    BY <2>1, <2>2, <2>3, TruthOutside
<1>5. CASE MigrationEnds
  <2>1. /\ world.migration = "running" /\ UNCHANGED <<run, jobs, disk>>
        /\ world'.ssh = world.ssh /\ world'.core = world.core /\ world'.image = world.image
        /\ world'.release = world.release /\ world'.maintenance = world.maintenance
    BY <1>5 DEF MigrationEnds
  <2>2. DiskActive'
    BY <2>1 DEF Tracked, Settled, DiskActive, D
  <2>3. ASSUME NEW id \in InFlight PROVE Upright(id)'
    <3>1. Upright(id) /\ Place(id)
      BY DEF TruthInv
    <3>2. run[id].pc \notin {"plan", "prepare", "guard", "count"}
      BY <2>1, <3>1 DEF Place, Before, Settled
    <3>3. run[id].pc = "catch" => J.quiesced
      BY <2>1, <3>1 DEF Place, Before, Settled
    <3>4. run[id].pc \in {"cleanup", "settle"} => run[id].outcome = "recovery_required"
      BY <2>1, <3>1 DEF Place, Settled
    <3>5. J.database # "committed"
      BY <2>1, <3>1 DEF Upright
    <3> QED
      BY <2>1, <3>1, <3>2, <3>3, <3>4, <3>5 DEF Upright, J
  <2> QED
    BY <2>1, <2>2, <2>3 DEF TruthInv, InFlight, DiskActive, Active
<1>6. CASE UNCHANGED <<up, jobs, disk, run, world>>
  BY <1>6 DEF TruthInv, Whole, Standing, Updated, DiskActive, D, InFlight, Upright, J
<1> QED
  BY <1>1, <1>2, <1>3, <1>4, <1>5, <1>6, BootTrue, AckTrue
  DEF Next, vars, RequestPasses, WorkStarts, ScheduleTick, WorkEnds

\* The record of the last update never says more than is true: 'succeeded' on the new revision
\* all through, 'failed' on one revision all through, and open for writes unless the removal
\* of the pause failed.
THEOREM RecordsAreTrue == Spec => []OutcomeIsTrue
<1>1. Init => TruthInv
  BY DEF Init, TruthInv, Whole, Standing, Instance, InFlight, NoRun
<1>2. UpdaterInv /\ TruthInv => OutcomeIsTrue
  <2> SUFFICES ASSUME UpdaterInv, TruthInv, disk # <<>>, D.status \in {"succeeded", "failed"}
               PROVE  /\ world.ssh /\ \A part \in {"image", "database", "release"} : world[part] = world.core
                      /\ world.maintenance => world.leftover
                      /\ D.status = "succeeded" => world.core = "new" /\ world.migration = "committed"
    BY DEF OutcomeIsTrue, Last, D
  <2>1. Whole
    BY DEF TruthInv, DiskActive, Active
  <2>2. world["image"] = world.core /\ world["database"] = world.core /\ world["release"] = world.core
    BY <2>1 DEF Whole, Standing
  <2>3. D.status = "succeeded" => world.core = "new" /\ world.migration = "committed"
    BY <2>1 DEF TruthInv, Updated, Whole, Standing
  <2> QED
    BY <2>1, <2>2, <2>3 DEF Whole, Standing
<1>3. UpdaterInv /\ TruthInv /\ [Next]_vars => TruthInv'
  BY UpdaterStep, TruthStep
<1> QED
  BY <1>1, <1>2, <1>3, UpdaterInit, UpdaterStep, PTL DEF Spec
=============================================================================

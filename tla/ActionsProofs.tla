---------------------------- MODULE ActionsProofs ---------------------------
(* Theorems about ActionsEngine, for every set of runs and jobs, every     *)
(* concurrency limit and every number of cancellations, faults and crashes.*)
EXTENDS ActionsEngine, FiniteSetTheorems, WellFoundedInduction, TLAPS

(* ------------------------------ operators ---------------------------- *)

\* First picks the least job of the set: the naturals are well ordered.
LEMMA FirstLeast ==
  ASSUME NEW S, S \subseteq Jobs, S # {}
  PROVE  First(S) \in S /\ \A k \in S : First(S) <= k
<1>1. S \subseteq Nat
  BY ConstantsAssumption
<1>2. PICK j \in S : \A k \in S : ~(<<k, j>> \in OpToRel(<, Nat))
  BY <1>1, WFMin, NatLessThanWellFounded, Zenon
<1>3. \A k \in S : ~(k < j)
  BY <1>1, <1>2 DEF OpToRel
<1>4. \A k \in S : j <= k
  BY <1>1, <1>3
<1> QED
  BY <1>4 DEF First

LEMMA FirstIn ==
  ASSUME NEW S, S \subseteq Jobs, S # {}
  PROVE  First(S) \in S
BY FirstLeast

LEMMA RowsTyped ==
  /\ NoRow \in Row /\ Queued \in Row /\ InProgress \in Row
  /\ \A con \in Conclusions \cup {"none"} : Completed(con) \in Row
BY DEF NoRow, Queued, InProgress, Completed, Row, Conclusions

LEMMA VerdictTyped ==
  ASSUME NEW r, NEW flags
  PROVE  Verdict(r, flags) \in Conclusions
BY DEF Verdict, Conclusions

LEMMA ColourTyped ==
  ASSUME NEW con
  PROVE  Colour(con) \in {"pending", "success", "failure", "error"}
<1>1. CASE con \in {"success", "skipped"}
  BY <1>1 DEF Colour
<1>2. CASE con = "cancelled"
  BY <1>2 DEF Colour
<1>3. CASE con \notin {"success", "skipped", "cancelled"}
  BY <1>3 DEF Colour
<1> QED
  BY <1>1, <1>2, <1>3

LEMMA TellTyped ==
  ASSUME TypeOK, NEW j \in Jobs, NEW s \in {"pending", "success", "failure", "error"}, Tell(j, s)
  PROVE  ChecksTyped'
<1> DEFINE row == [state |-> s, of |-> j]
<1>1. row \in CheckRow
  BY DEF CheckRow
<1>2. Context[j] \in Checks
  BY DEF Checks
<1>3. status' = [status EXCEPT ![Context[j]] = row]
  BY DEF Tell
<1> HIDE DEF row
<1>4. status' \in [Checks -> CheckRow \cup {NoCheck}]
  BY <1>1, <1>2, <1>3 DEF TypeOK, StoredTypes, ChecksTyped
<1>5. \A c \in Checks : status'[c] # NoCheck => Context[status'[c].of] = c
  BY <1>1, <1>2, <1>3 DEF TypeOK, StoredTypes, ChecksTyped, row
<1> QED
  BY <1>4, <1>5 DEF ChecksTyped, Checks

LEMMA ChecksStay == ChecksTyped /\ status' = status => ChecksTyped'
BY DEF ChecksTyped

LEMMA StoppedTyped ==
  ASSUME NEW j
  PROVE  Stopped(j) \subseteq Conclusions
BY DEF Stopped, Conclusions

LEMMA FiniteJobs ==
  ASSUME NEW S \in SUBSET Jobs
  PROVE  IsFiniteSet(S) /\ Cardinality(S) \in Nat
BY ConstantsAssumption, FS_Subset, FS_CardinalityType

LEMMA SpendTyped ==
  ASSUME left \in [Events -> Nat], NEW e \in Events, Spend(e)
  PROVE  left' \in [Events -> Nat]
<1>1. left[e] - 1 \in Nat
  BY DEF Spend
<1> QED
  BY <1>1 DEF Spend

LEMMA ScopeOfJobs == \A x \in Skippers : Scope(x) \subseteq Jobs
BY ConstantsAssumption DEF Scope, Present, JobsOf, Skippers

(* ----------------------- advance keeps the types --------------------- *)

LEMMA AdvanceTyped ==
  ASSUME TypeOK, NEW r \in Runs, NEW ended \in SUBSET Jobs,
         NEW flags \in [Runs -> Flags], Advance(r, ended, flags)
  PROVE  SlotTypes' /\ dbRun' \in [Runs -> Row] /\ st' \in [Runs -> Flags]
<1>1. Eligible(r) \subseteq Jobs
  BY DEF Eligible, Present, JobsOf
<1>2. SlotTypes'
  <2>1. PICK S \in SUBSET (ready \cup Eligible(r)) :
          /\ ready' = (ready \cup Eligible(r)) \ S
          /\ running' = running - Cardinality(ended) + Cardinality(S)
          /\ pc' = [j \in Jobs |-> IF j \in S THEN "secrets"
                                   ELSE IF j \in ended THEN "idle" ELSE pc[j]]
    BY DEF Advance, Pump
  <2>2. Cardinality(S) \in Nat /\ Cardinality(ended) \in Nat
    BY <1>1, FiniteJobs DEF TypeOK, SlotTypes
  <2>3. running' \in Int
    BY <2>1, <2>2 DEF TypeOK, SlotTypes
  <2> QED
    BY <1>1, <2>1, <2>3 DEF TypeOK, SlotTypes, Advance, Pcs
<1>3. dbRun' \in [Runs -> Row]
  BY RowsTyped, VerdictTyped DEF Advance, FinishRun, TypeOK, StoredTypes
<1>4. st' \in [Runs -> Flags]
  BY DEF Advance, FinishRun, Flags
<1> QED
  BY <1>2, <1>3, <1>4

LEMMA JobEndsTyped ==
  ASSUME TypeOK, NEW j \in Jobs, JobEnds(j)
  PROVE  SlotTypes' /\ dbRun' \in [Runs -> Row] /\ st' \in [Runs -> Flags]
<1>1. RunOf[j] \in Runs /\ {j} \in SUBSET Jobs /\ st \in [Runs -> Flags]
  BY ConstantsAssumption DEF TypeOK, RunTypes
<1> QED
  BY <1>1, AdvanceTyped DEF JobEnds

LEMMA GotoTyped ==
  ASSUME TypeOK, NEW j \in Jobs, NEW to \in Pcs, Goto(j, to)
  PROVE  SlotTypes'
BY DEF TypeOK, SlotTypes, Goto

SkipTypes ==
  /\ skip \in [Skippers -> [pc : {"idle", "update", "status"}, at : Jobs \cup {0}]]
  /\ \A x \in Skippers : skip[x].pc = "update" => skip[x].at \in Jobs

LEMMA LoopTyped ==
  ASSUME TypeOK, NEW x \in Skippers, NEW at, NEW flags \in [Runs -> Flags],
         LoopOn(x, at, flags)
  PROVE  /\ SlotTypes' /\ SkipTypes'
         /\ dbRun' \in [Runs -> Row] /\ st' \in [Runs -> Flags]
         /\ dbJob' \in [Jobs -> Row]
         /\ ctl' \in [Jobs -> {"none", "live", "aborted"}]
<1> DEFINE queued == {k \in {l \in Scope(x) : l > at} : mem[k].st = "queued"}
<1>1. ctl' \in [Jobs -> {"none", "live", "aborted"}]
  BY DEF LoopOn, TypeOK, JobTypes
<1>2. CASE queued = {}
  <2>1. /\ skip' = [skip EXCEPT ![x] = NoSkip] /\ UNCHANGED dbJob
        /\ IF x \in Runs THEN Advance(x, {}, flags) ELSE JobEnds(x)
    BY <1>2 DEF LoopOn
  <2>2. SkipTypes'
    BY <2>1 DEF SkipTypes, NoSkip, TypeOK, RunTypes
  <2>3. SlotTypes' /\ dbRun' \in [Runs -> Row] /\ st' \in [Runs -> Flags]
    BY <2>1, AdvanceTyped, JobEndsTyped DEF Skippers
  <2> QED
    BY <1>1, <2>1, <2>2, <2>3 DEF TypeOK, StoredTypes
<1>3. CASE queued # {}
  <2> DEFINE q == First(queued)
  <2>1. q \in Jobs
    BY <1>3, FirstIn, ScopeOfJobs
  <2>2. /\ skip' = [skip EXCEPT ![x] = [pc |-> "update", at |-> q]]
        /\ enq' = enq \cup {q} /\ ready' = ready \ {q}
        /\ dbJob' = [dbJob EXCEPT ![q] = Completed("cancelled")]
        /\ pc' = (IF x \in Runs THEN pc ELSE [pc EXCEPT ![x] = "failFast"])
        /\ st' = flags /\ UNCHANGED <<running, dbRun>>
    BY <1>3 DEF LoopOn
  <2> HIDE DEF q
  <2>3. SkipTypes'
    BY <2>1, <2>2 DEF SkipTypes, TypeOK, RunTypes
  <2>4. SlotTypes'
    BY <2>1, <2>2 DEF TypeOK, SlotTypes, Pcs, Skippers
  <2>5. dbJob' \in [Jobs -> Row]
    BY <2>1, <2>2, RowsTyped DEF TypeOK, StoredTypes, Conclusions
  <2> QED
    BY <1>1, <2>2, <2>3, <2>4, <2>5 DEF TypeOK, StoredTypes
<1> QED
  BY <1>2, <1>3

(* --------------------- type correctness, by action -------------------- *)

MakeTypes ==
  /\ make \in [Runs -> [pc : MakePcs, at : Jobs \cup {0}]]
  /\ \A r \in Runs : make[r].pc \in {"job", "abortJob"} => make[r].at \in Jobs

LEMMA MakeTyped ==
  ASSUME TypeOK, NEW r \in Runs, MakeStep(r) \/ MakeFails(r) \/ NewRun(r) \/ CloseRun(r) \/ CloseFault(r)
  PROVE  TypeOK'
<1> USE RowsTyped
<1>1. CASE NewRun(r)
  BY <1>1, ChecksStay DEF NewRun, TypeOK, StoredTypes, JobTypes, SlotTypes, RunTypes, MakePcs,
     job, slots
<1>2. CASE MakeJob(r)
  <2>1. Rest(r) # {} /\ Rest(r) \subseteq Jobs
    BY <1>2 DEF MakeJob, Rest, JobsOf
  <2>2. First(Rest(r)) \in Jobs
    BY <2>1, FirstIn
  <2>3. st' \in [Runs -> Flags]
    BY <1>2 DEF MakeJob, Enter, TypeOK, RunTypes, Flags
  <2>4. dbJob' \in [Jobs -> Row]
    BY <1>2, <2>2 DEF MakeJob, TypeOK, StoredTypes
  <2>5. MakeTypes'
    BY <1>2, <2>2 DEF MakeJob, MakeTypes, TypeOK, RunTypes, MakePcs
  <2> QED
    BY <1>2, <2>3, <2>4, <2>5, ChecksStay DEF MakeJob, MakeTypes, TypeOK, StoredTypes, JobTypes,
       SlotTypes, RunTypes, job, slots
<1>3. CASE JobMade(r)
  BY <1>3, TellTyped DEF JobMade, TypeOK, StoredTypes, JobTypes, SlotTypes, RunTypes, MakePcs, slots
<1>4. CASE AllMade(r)
  <2>1. SlotTypes' /\ dbRun' \in [Runs -> Row] /\ st' \in [Runs -> Flags]
    BY <1>4, AdvanceTyped DEF AllMade, TypeOK, RunTypes
  <2>2. MakeTypes'
    BY <1>4 DEF AllMade, MakeTypes, NoMake, TypeOK, RunTypes, MakePcs
  <2> QED
    BY <1>4, <2>1, <2>2, ChecksStay DEF AllMade, MakeTypes, TypeOK, StoredTypes, JobTypes, RunTypes, job
<1>5. CASE AbortJob(r)
  <2> DEFINE rest == Rest(r) \cap Present(r)
  <2>1. rest \subseteq Jobs
    BY DEF Rest, JobsOf
  <2>2. rest # {} => First(rest) \in Jobs
    BY <2>1, FirstIn
  <2>3. MakeTypes' /\ dbJob' \in [Jobs -> Row]
    <3>1. CASE rest = {}
      <4>1. make' = [make EXCEPT ![r] = NoMake] /\ UNCHANGED dbJob
        BY <1>5, <3>1 DEF AbortJob
      <4>2. MakeTypes
        BY DEF MakeTypes, TypeOK, RunTypes
      <4> QED
        BY <4>1, <4>2 DEF MakeTypes, NoMake, MakePcs, TypeOK, StoredTypes
    <3>2. CASE rest # {}
      <4>1. /\ dbJob' = [dbJob EXCEPT ![First(rest)] = Completed("skipped")]
            /\ make' = [make EXCEPT ![r] = [pc |-> "abortJob", at |-> First(rest)]]
        BY <1>5, <3>2 DEF AbortJob
      <4> HIDE DEF rest
      <4> QED
        BY <2>2, <3>2, <4>1 DEF MakeTypes, TypeOK, RunTypes, StoredTypes, MakePcs, Conclusions
    <3> QED
      BY <3>1, <3>2
  <2> QED
    BY <1>5, <2>3, ChecksStay DEF AbortJob, MakeTypes, TypeOK, StoredTypes, JobTypes, SlotTypes,
       RunTypes, job, slots
<1>6. CASE AbortStatus(r)
  BY <1>6, TellTyped DEF AbortStatus, TypeOK, StoredTypes, JobTypes, SlotTypes, RunTypes, MakePcs,
     job, slots
<1>7. CASE MakeFails(r)
  <2>1. left' \in [Events -> Nat]
    BY <1>7 DEF MakeFails, Spend, TypeOK, RunTypes
  <2>2. MakeTypes' /\ st' \in [Runs -> Flags]
    BY <1>7 DEF MakeFails, MakeTypes, TypeOK, RunTypes, MakePcs, Flags
  <2>3. dbRun' \in [Runs -> Row]
    BY <1>7 DEF MakeFails, TypeOK, StoredTypes, Conclusions
  <2> QED
    BY <1>7, <2>1, <2>2, <2>3, ChecksStay DEF MakeFails, MakeTypes, TypeOK, StoredTypes, JobTypes,
       SlotTypes, RunTypes, job, slots
<1>8. CASE CloseRun(r)
  <2>1. st' \in [Runs -> Flags]
    <3>1. [st[r] EXCEPT !.fin = "closed", !.live = FALSE, !.started = TRUE] \in Flags
      BY DEF TypeOK, RunTypes, Flags
    <3> QED
      BY <1>8, <3>1 DEF CloseRun, TypeOK, RunTypes
  <2> QED
    BY <1>8, <2>1, ChecksStay DEF CloseRun, TypeOK, StoredTypes, JobTypes, SlotTypes, RunTypes, db,
       job, slots
<1>9. CASE CloseFault(r)
  <2>1. left' \in [Events -> Nat]
    BY <1>9, SpendTyped DEF CloseFault, Events, TypeOK, RunTypes
  <2>2. st' \in [Runs -> Flags]
    <3>1. [st[r] EXCEPT !.fin = "lost"] \in Flags
      BY DEF TypeOK, RunTypes, Flags
    <3> QED
      BY <1>9, <3>1 DEF CloseFault, TypeOK, RunTypes
  <2>3. dbRun' \in [Runs -> Row]
    BY <1>9, RowsTyped DEF CloseFault, TypeOK, StoredTypes
  <2> QED
    BY <1>9, <2>1, <2>2, <2>3, ChecksStay DEF CloseFault, TypeOK, StoredTypes, JobTypes, SlotTypes, RunTypes,
       job, slots
<1> QED
  BY <1>1, <1>2, <1>3, <1>4, <1>5, <1>6, <1>7, <1>8, <1>9 DEF MakeStep

LEMMA JobTyped ==
  ASSUME TypeOK, NEW j \in Jobs, JobStep(j) \/ JobFault(j)
  PROVE  TypeOK'
<1> USE DEF Pcs
<1>1. CASE Decide(j)
  <2>1. CASE mem[j].st = "completed"
    BY <1>1, <2>1, JobEndsTyped, ChecksStay DEF Decide, TypeOK, StoredTypes, JobTypes, RunTypes, job
  <2>2. CASE mem[j].st # "completed" /\ Wanted(j)
    <3>1. /\ ctl' = [ctl EXCEPT ![j] = "live"]
          /\ dbJob' = [dbJob EXCEPT ![j] = [@ EXCEPT !.st = "running"]]
          /\ ret' = [ret EXCEPT ![j] = dbJob'[j]]
          /\ Goto(j, "running")
          /\ UNCHANGED <<phase, dbRun, status, box, mem, out, st, make, skip, swept, left>>
      BY <1>1, <2>2 DEF Decide
    <3>2. dbJob' \in [Jobs -> Row]
      BY <3>1 DEF TypeOK, StoredTypes, Row
    <3>3. ret' \in [Jobs -> Row]
      BY <3>1, <3>2 DEF TypeOK, JobTypes
    <3> QED
      BY <3>1, <3>2, <3>3, GotoTyped, ChecksStay DEF TypeOK, StoredTypes, JobTypes, RunTypes
  <2>3. CASE mem[j].st # "completed" /\ ~Wanted(j)
    <3>1. \E o \in Conclusions : out' = [out EXCEPT ![j] = o]
      BY <1>1, <2>3 DEF Decide, Conclusions
    <3>2. /\ Goto(j, "finish")
          /\ UNCHANGED <<phase, db, mem, ret, ctl, box, st, make, skip, swept, left>>
      BY <1>1, <2>3 DEF Decide, db
    <3> QED
      BY <3>1, <3>2, GotoTyped, ChecksStay DEF TypeOK, StoredTypes, JobTypes, RunTypes, db
  <2> QED
    BY <2>1, <2>2, <2>3
<1>2. CASE MarkRun(j)
  <2>1. RunOf[j] \in Runs
    BY ConstantsAssumption
  <2>2. mem' \in [Jobs -> Row]
    BY <1>2 DEF MarkRun, Adopt, TypeOK, JobTypes
  <2>3. SlotTypes'
    BY <1>2, GotoTyped DEF MarkRun
  <2>4. dbRun' \in [Runs -> Row]
    <3>1. [dbRun[RunOf[j]] EXCEPT !.st = "running"] \in Row
      BY <2>1 DEF TypeOK, StoredTypes, Row
    <3>2. dbRun' = dbRun \/ dbRun' = [dbRun EXCEPT ![RunOf[j]] = [@ EXCEPT !.st = "running"]]
      BY <1>2 DEF MarkRun
    <3> QED
      BY <3>1, <3>2 DEF TypeOK, StoredTypes
  <2>5. StoredTypes'
    BY <1>2, <2>4, TellTyped, ChecksStay DEF MarkRun, TypeOK, StoredTypes
  <2> QED
    BY <1>2, <2>2, <2>3, <2>5 DEF MarkRun, TypeOK, JobTypes, RunTypes
<1>3. CASE RunMarked(j)
  <2>1. st' \in [Runs -> Flags]
    BY <1>3 DEF RunMarked, TypeOK, RunTypes, Flags
  <2>2. SlotTypes'
    BY <1>3, GotoTyped DEF RunMarked
  <2> QED
    BY <1>3, <2>1, <2>2, TellTyped DEF RunMarked, TypeOK, StoredTypes, JobTypes, RunTypes, job
<1>4. CASE StartBox(j)
  <2>1. out' \in [Jobs -> Conclusions \cup {"none"}] /\ box' \in SUBSET Jobs
    BY <1>4, StoppedTyped DEF StartBox, TypeOK, JobTypes, StoredTypes
  <2>2. SlotTypes'
    BY <1>4, GotoTyped DEF StartBox
  <2> QED
    BY <1>4, <2>1, <2>2, ChecksStay DEF StartBox, TypeOK, StoredTypes, JobTypes, RunTypes, db
<1>5. CASE StepStart(j)
  <2>1. out' \in [Jobs -> Conclusions \cup {"none"}] /\ box' \in SUBSET Jobs
    BY <1>5, StoppedTyped DEF StepStart, Remove, TypeOK, JobTypes, StoredTypes
  <2>2. SlotTypes'
    BY <1>5, GotoTyped DEF StepStart
  <2>3. left' \in [Events -> Nat] /\ ret' \in [Jobs -> Row]
    BY <1>5 DEF StepStart, Remove, Spend, TypeOK, RunTypes, JobTypes, StoredTypes
  <2> QED
    BY <1>5, <2>1, <2>2, <2>3, ChecksStay DEF StepStart, TypeOK, StoredTypes, JobTypes, RunTypes, db
<1>6. CASE StepEnd(j)
  <2>1. out' \in [Jobs -> Conclusions \cup {"none"}]
    BY <1>6, StoppedTyped DEF StepEnd, TypeOK, JobTypes, Conclusions
  <2>2. SlotTypes'
    BY <1>6, GotoTyped DEF StepEnd
  <2>3. mem' \in [Jobs -> Row] /\ ret' \in [Jobs -> Row]
    BY <1>6 DEF StepEnd, Adopt, TypeOK, JobTypes, StoredTypes
  <2> QED
    BY <1>6, <2>1, <2>2, <2>3, ChecksStay DEF StepEnd, TypeOK, StoredTypes, JobTypes, RunTypes, db
<1>7. CASE Destroy(j)
  <2>1. box' \in SUBSET Jobs /\ left' \in [Events -> Nat] /\ mem' \in [Jobs -> Row]
    BY <1>7 DEF Destroy, Remove, Adopt, Spend, TypeOK, JobTypes, StoredTypes, RunTypes
  <2>2. SlotTypes'
    BY <1>7, GotoTyped DEF Destroy
  <2> QED
    BY <1>7, <2>1, <2>2, ChecksStay DEF Destroy, TypeOK, StoredTypes, JobTypes, RunTypes, db
<1>8. CASE FinishJob(j)
  <2>1. dbJob' \in [Jobs -> Row] /\ ret' \in [Jobs -> Row]
    BY <1>8, RowsTyped DEF FinishJob, TypeOK, JobTypes, StoredTypes
  <2>2. SlotTypes'
    BY <1>8, GotoTyped DEF FinishJob
  <2> QED
    BY <1>8, <2>1, <2>2, ChecksStay DEF FinishJob, TypeOK, StoredTypes, JobTypes, RunTypes
<1>9. CASE Report(j)
  <2>1. mem' \in [Jobs -> Row]
    BY <1>9 DEF Report, Adopt, TypeOK, JobTypes
  <2>2. ChecksTyped'
    BY <1>9, ColourTyped, TellTyped DEF Report
  <2>3. SlotTypes'
    BY <1>9, GotoTyped DEF Report
  <2> QED
    BY <1>9, <2>1, <2>2, <2>3 DEF Report, TypeOK, StoredTypes, JobTypes, RunTypes
<1>10. CASE JobOver(j)
  <2>1. CASE out[j] = "failure" /\ ctl[j] # "none"
    <3>1. LoopOn(j, 0, st) /\ st \in [Runs -> Flags] /\ j \in Skippers
      BY <1>10, <2>1 DEF JobOver, TypeOK, RunTypes, Skippers
    <3> QED
      BY <1>10, <3>1, LoopTyped, ChecksStay DEF JobOver, SkipTypes, TypeOK, StoredTypes, JobTypes, RunTypes
  <2>2. CASE ~(out[j] = "failure" /\ ctl[j] # "none")
    BY <1>10, <2>2, JobEndsTyped, ChecksStay DEF JobOver, TypeOK, StoredTypes, JobTypes, RunTypes
  <2> QED
    BY <2>1, <2>2
<1>11. CASE JobFault(j)
  <2>1. left' \in [Events -> Nat]
    BY <1>11, SpendTyped DEF JobFault, Events, TypeOK, RunTypes
  <2> QED
    BY <1>11, <2>1, JobEndsTyped, ChecksStay DEF JobFault, TypeOK, StoredTypes, JobTypes, RunTypes, job
<1> QED
  BY <1>1, <1>2, <1>3, <1>4, <1>5, <1>6, <1>7, <1>8, <1>9, <1>10, <1>11 DEF JobStep

LEMMA LoopsTyped ==
  ASSUME TypeOK, NEW x \in Skippers, SkipAdopt(x) \/ SkipNext(x) \/ SkipFault(x)
  PROVE  TypeOK'
<1>1. CASE SkipAdopt(x)
  BY <1>1, RowsTyped, TellTyped DEF SkipAdopt, TypeOK, StoredTypes, JobTypes, SlotTypes, RunTypes,
     slots, Conclusions
<1>2. CASE SkipNext(x)
  <2>1. LoopOn(x, skip[x].at, st) /\ st \in [Runs -> Flags]
    BY <1>2 DEF SkipNext, TypeOK, RunTypes
  <2> QED
    BY <1>2, <2>1, LoopTyped, ChecksStay DEF SkipNext, SkipTypes, TypeOK, StoredTypes, JobTypes, RunTypes
<1>3. CASE SkipFault(x)
  <2>1. left' \in [Events -> Nat] /\ SkipTypes'
    <3>1. left' \in [Events -> Nat]
      BY <1>3, SpendTyped DEF SkipFault, Events, TypeOK, RunTypes
    <3> QED
      BY <1>3, <3>1 DEF SkipFault, NoSkip, SkipTypes, TypeOK, RunTypes
  <2>2. SlotTypes' /\ dbRun' \in [Runs -> Row] /\ st' \in [Runs -> Flags]
    <3>1. CASE x \in Runs
      BY <1>3, <3>1 DEF SkipFault, TypeOK, StoredTypes, SlotTypes, RunTypes, slots
    <3>2. CASE x \in Jobs /\ x \notin Runs
      BY <1>3, <3>2, JobEndsTyped DEF SkipFault
    <3> QED
      BY <3>1, <3>2 DEF Skippers
  <2> QED
    BY <1>3, <2>1, <2>2, ChecksStay DEF SkipFault, SkipTypes, TypeOK, StoredTypes, JobTypes, RunTypes, job
<1> QED
  BY <1>1, <1>2, <1>3

LEMMA MemoryTyped ==
  ASSUME InitMemory, left \in [Events -> Nat]
  PROVE  JobTypes /\ SlotTypes /\ RunTypes
BY RowsTyped DEF InitMemory, JobTypes, SlotTypes, RunTypes, Pcs, Flags, NoFlags, NoMake,
   NoSkip, MakePcs

LEMMA InitTyped == Init => TypeOK
BY MemoryTyped, RowsTyped, ConstantsAssumption DEF Init, TypeOK, StoredTypes, ChecksTyped

LEMMA RestartTyped ==
  ASSUME TypeOK, Crash \/ BootStep \/ SweepFault \/ \E r \in Runs : Cancel(r)
  PROVE  TypeOK'
<1>1. CASE Crash
  <2>1. left' \in [Events -> Nat]
    BY <1>1, SpendTyped DEF Crash, Events, TypeOK, RunTypes
  <2>2. JobTypes' /\ SlotTypes'
    BY <1>1, RowsTyped DEF Crash, JobTypes, SlotTypes, Pcs
  <2>3. RunTypes'
    BY <1>1, <2>1 DEF Crash, RunTypes, Flags, NoFlags, NoMake, NoSkip, MakePcs
  <2> QED
    BY <1>1, <2>1, <2>2, <2>3, ChecksStay DEF Crash, TypeOK, StoredTypes, db
<1>2. CASE SweepJobs
  BY <1>2, RowsTyped, ChecksStay DEF SweepJobs, Interrupt, Open, TypeOK, StoredTypes, JobTypes, SlotTypes,
     RunTypes, job, slots, Conclusions
<1>3. CASE SweepRuns
  BY <1>3, RowsTyped, ChecksStay DEF SweepRuns, Interrupt, Open, TypeOK, StoredTypes, JobTypes, SlotTypes,
     RunTypes, job, slots, Conclusions
<1>4. ASSUME NEW j \in Jobs, SweepStatus(j) PROVE TypeOK'
  <2>1. left' \in [Events -> Nat]
    BY <1>4, SpendTyped DEF SweepStatus, Events, TypeOK, RunTypes
  <2> QED
    BY <1>4, <2>1, TellTyped, ChecksStay DEF SweepStatus, TypeOK, StoredTypes, JobTypes, SlotTypes, RunTypes, job, slots
<1>5. CASE CleanBoxes \/ SweepFault
  <2>1. left' \in [Events -> Nat]
    BY <1>5, SpendTyped DEF CleanBoxes, SweepFault, Events, TypeOK, RunTypes
  <2> QED
    BY <1>5, <2>1, ChecksStay DEF CleanBoxes, SweepFault, TypeOK, StoredTypes, JobTypes, SlotTypes, RunTypes,
       db, job, slots
<1>6. ASSUME NEW r \in Runs, Cancel(r) PROVE TypeOK'
  <2> DEFINE flags == [st EXCEPT ![r].cancelled = TRUE]
  <2>1. flags \in [Runs -> Flags]
    BY DEF TypeOK, RunTypes, Flags
  <2>2. LoopOn(r, 0, flags) /\ r \in Skippers
    BY <1>6 DEF Cancel, Skippers
  <2>3. left' \in [Events -> Nat]
    BY <1>6, SpendTyped DEF Cancel, Events, TypeOK, RunTypes
  <2> HIDE DEF flags
  <2> QED
    BY <1>6, <2>1, <2>2, <2>3, LoopTyped, ChecksStay DEF Cancel, SkipTypes, TypeOK, StoredTypes, JobTypes,
       RunTypes
<1> QED
  BY <1>1, <1>2, <1>3, <1>4, <1>5, <1>6 DEF BootStep

\* Every variable of the CI engine keeps its type.
THEOREM TypeCorrect == Spec => []TypeOK
<1>1. TypeOK /\ [Next]_vars => TypeOK'
  <2> SUFFICES ASSUME TypeOK, [Next]_vars PROVE TypeOK'
    OBVIOUS
  <2>1. CASE Next
    BY <2>1, MakeTyped, JobTyped, LoopsTyped, RestartTyped DEF Next
  <2>2. CASE UNCHANGED vars
    BY <2>2, ChecksStay DEF vars, db, job, slots, TypeOK, StoredTypes, JobTypes, SlotTypes, RunTypes
  <2> QED
    BY <2>1, <2>2
<1> QED
  BY <1>1, InitTyped, PTL DEF Spec

(* --------------------------- counting slots --------------------------- *)

\* Jobs that take slots are new to the queue, so the counter stays exact.
LEMMA AdvanceCounts ==
  ASSUME TypeOK, SlotInv, NEW r, NEW ended \in SUBSET Busy, NEW flags,
         Advance(r, ended, flags)
  PROVE  /\ SlotsCounted'
         /\ Busy' \subseteq enq' /\ ready' \subseteq enq' /\ ready' \cap Busy' = {}
         /\ \A j \in Busy \ ended : pc'[j] = pc[j]
<1> DEFINE queue == ready \cup Eligible(r)
<1>1. Eligible(r) \subseteq Jobs /\ Eligible(r) \cap enq = {}
  BY DEF Eligible, Present, JobsOf
<1>2. PICK S \in SUBSET queue :
        /\ running - Cardinality(ended) + Cardinality(S) <= Concurrency
        /\ ready' = queue \ S
        /\ running' = running - Cardinality(ended) + Cardinality(S)
        /\ pc' = [j \in Jobs |-> IF j \in S THEN "secrets"
                                 ELSE IF j \in ended THEN "idle" ELSE pc[j]]
  BY DEF Advance, Pump
<1>3. enq' = enq \cup Eligible(r)
  BY DEF Advance
<1>4. S \subseteq Jobs /\ S \cap Busy = {} /\ Busy \subseteq Jobs
  BY <1>1 DEF SlotInv, TypeOK, SlotTypes, Busy
<1> HIDE DEF queue
<1>5. Busy' = (Busy \ ended) \cup S
  BY <1>2, <1>4 DEF Busy
<1>6. Cardinality(Busy') = Cardinality(Busy) - Cardinality(ended) + Cardinality(S)
  <2>1. IsFiniteSet(Busy) /\ IsFiniteSet(S) /\ IsFiniteSet(Busy \ ended)
    BY <1>4, FiniteJobs, FS_Difference
  <2>2. Cardinality(Busy \ ended) = Cardinality(Busy) - Cardinality(ended)
    <3>1. Busy \cap ended = ended
      OBVIOUS
    <3> QED
      BY <2>1, <3>1, FS_Difference
  <2>3. (Busy \ ended) \cap S = {}
    BY <1>4
  <2>4. Cardinality(Busy') =
          Cardinality(Busy \ ended) + Cardinality(S) - Cardinality((Busy \ ended) \cap S)
    BY <1>5, <2>1, FS_Union
  <2>5. Cardinality((Busy \ ended) \cap S) = 0
    BY <2>3, FS_EmptySet
  <2>6. /\ Cardinality(Busy) \in Nat /\ Cardinality(S) \in Nat /\ Cardinality(ended) \in Nat
        /\ Cardinality(Busy \ ended) \in Nat
    BY <1>4, FiniteJobs
  <2> QED
    BY <2>2, <2>4, <2>5, <2>6
<1>7. SlotsCounted'
  BY <1>2, <1>6 DEF SlotInv, SlotsCounted
<1>8. queue \subseteq enq'
  BY <1>3 DEF queue, SlotInv
<1>9. Busy' \subseteq enq' /\ ready' \subseteq enq'
  BY <1>2, <1>3, <1>5, <1>8 DEF SlotInv
<1>10. ready' \cap Busy' = {}
  <2>1. ready' \cap S = {}
    BY <1>2
  <2>2. queue \cap Busy = {}
    BY <1>1 DEF queue, SlotInv
  <2> QED
    BY <1>2, <1>5, <2>1, <2>2
<1>11. \A j \in Busy \ ended : pc'[j] = pc[j]
  BY <1>2, <1>4
<1> QED
  BY <1>7, <1>9, <1>10, <1>11

LEMMA JobEndsCounts ==
  ASSUME TypeOK, SlotInv, NEW j \in Busy, JobEnds(j),
         \A k \in Jobs : skip'[k].pc # "idle" => skip[k].pc # "idle" /\ k # j
  PROVE  SlotInv'
<1>1. {j} \in SUBSET Busy
  OBVIOUS
<1>2. /\ SlotsCounted'
      /\ Busy' \subseteq enq' /\ ready' \subseteq enq' /\ ready' \cap Busy' = {}
      /\ \A k \in Busy \ {j} : pc'[k] = pc[k]
  BY <1>1, AdvanceCounts DEF JobEnds
<1>3. \A k \in Jobs : skip[k].pc # "idle" => pc[k] = "failFast" /\ k \in Busy
  BY DEF SlotInv, Busy
<1> QED
  BY <1>2, <1>3 DEF SlotInv

\* A runJob that moves on keeps its slot.
LEMMA GotoCounts ==
  ASSUME TypeOK, SlotInv, NEW j \in Busy, NEW to, Goto(j, to), to # "idle",
         pc[j] # "failFast", UNCHANGED skip
  PROVE  SlotInv'
<1>1. Busy' = Busy
  BY DEF Busy, Goto, TypeOK, SlotTypes
<1>2. \A k \in Jobs : skip'[k].pc # "idle" => pc'[k] = "failFast"
  BY DEF SlotInv, Goto, TypeOK, SlotTypes, Busy
<1> QED
  BY <1>1, <1>2 DEF SlotInv, SlotsCounted, Goto

LEMMA SameCounts ==
  ASSUME SlotInv, UNCHANGED slots, \A k \in Jobs : skip'[k].pc # "idle" => skip[k].pc # "idle"
  PROVE  SlotInv'
BY DEF SlotInv, SlotsCounted, Busy, slots

LEMMA LoopCounts ==
  ASSUME TypeOK, SlotInv, NEW x \in Skippers, NEW at, NEW flags, LoopOn(x, at, flags),
         x \in Jobs => x \in Busy
  PROVE  SlotInv'
<1> DEFINE queued == {k \in {l \in Scope(x) : l > at} : mem[k].st = "queued"}
<1>1. x \in Runs => x \notin Jobs
  BY ConstantsAssumption
<1>2. CASE queued = {}
  <2>1. /\ skip' = [skip EXCEPT ![x] = NoSkip]
        /\ IF x \in Runs THEN Advance(x, {}, flags) ELSE JobEnds(x)
    BY <1>2 DEF LoopOn
  <2>2. \A k \in Jobs : skip'[k].pc # "idle" => skip[k].pc # "idle" /\ k # x
    BY <2>1 DEF NoSkip, TypeOK, RunTypes, Skippers
  <2>3. CASE x \in Jobs
    BY <1>1, <2>1, <2>2, <2>3, JobEndsCounts
  <2>4. CASE x \in Runs
    <3>1. /\ SlotsCounted'
          /\ Busy' \subseteq enq' /\ ready' \subseteq enq' /\ ready' \cap Busy' = {}
          /\ \A k \in Busy \ {} : pc'[k] = pc[k]
      BY <2>1, <2>4, AdvanceCounts
    <3>2. \A k \in Jobs : skip[k].pc # "idle" => pc[k] = "failFast" /\ k \in Busy
      BY DEF SlotInv, Busy
    <3> QED
      BY <2>2, <3>1, <3>2 DEF SlotInv
  <2> QED
    BY <2>3, <2>4 DEF Skippers
<1>3. CASE queued # {}
  <2> DEFINE q == First(queued)
  <2>1. /\ skip' = [skip EXCEPT ![x] = [pc |-> "update", at |-> q]]
        /\ enq' = enq \cup {q} /\ ready' = ready \ {q}
        /\ pc' = (IF x \in Runs THEN pc ELSE [pc EXCEPT ![x] = "failFast"])
        /\ UNCHANGED running
    BY <1>3 DEF LoopOn
  <2> HIDE DEF q
  <2>2. Busy' = Busy
    BY <1>1, <2>1 DEF Busy, Skippers, TypeOK, SlotTypes
  <2>3. \A k \in Jobs : skip'[k].pc # "idle" => pc'[k] = "failFast"
    <3> SUFFICES ASSUME NEW k \in Jobs, skip'[k].pc # "idle" PROVE pc'[k] = "failFast"
      OBVIOUS
    <3>1. CASE k = x
      BY <1>1, <2>1, <3>1 DEF TypeOK, SlotTypes
    <3>2. CASE k # x
      BY <2>1, <3>2 DEF SlotInv, TypeOK, SlotTypes, RunTypes, Skippers
    <3> QED
      BY <3>1, <3>2
  <2> QED
    BY <2>1, <2>2, <2>3 DEF SlotInv, SlotsCounted
<1> QED
  BY <1>2, <1>3

LEMMA InitCounts == Init => SlotInv
<1> SUFFICES ASSUME Init PROVE SlotInv
  OBVIOUS
<1>1. Busy = {}
  BY DEF Init, InitMemory, Busy
<1>2. SlotsCounted
  BY <1>1, FS_EmptySet, ConstantsAssumption DEF Init, InitMemory, SlotsCounted
<1> QED
  BY <1>1, <1>2 DEF Init, InitMemory, SlotInv, NoSkip, Skippers

LEMMA CrashCounts ==
  ASSUME Crash
  PROVE  SlotInv'
<1>1. Busy' = {}
  BY DEF Crash, Busy
<1>2. SlotsCounted'
  BY <1>1, FS_EmptySet, ConstantsAssumption DEF Crash, SlotsCounted
<1> QED
  BY <1>1, <1>2 DEF Crash, SlotInv, NoSkip, Skippers

LEMMA JobCounts ==
  ASSUME TypeOK, SlotInv, NEW j \in Jobs, JobStep(j) \/ JobFault(j)
  PROVE  SlotInv'
<1>1. j \in Busy
  BY DEF JobStep, JobFault, Decide, MarkRun, RunMarked, StartBox, StepStart, StepEnd, Destroy,
     FinishJob, Report, JobOver, Busy
<1>2. CASE JobFault(j) \/ (Decide(j) /\ mem[j].st = "completed")
  <2>1. JobEnds(j) /\ UNCHANGED skip /\ pc[j] # "failFast"
    BY <1>2 DEF JobFault, Decide
  <2>2. \A k \in Jobs : skip'[k].pc # "idle" => skip[k].pc # "idle" /\ k # j
    BY <2>1 DEF SlotInv
  <2> QED
    BY <1>1, <2>1, <2>2, JobEndsCounts
<1>3. CASE Decide(j) /\ mem[j].st # "completed"
  BY <1>1, <1>3, GotoCounts DEF Decide
<1>4. CASE MarkRun(j)
  BY <1>1, <1>4, GotoCounts DEF MarkRun
<1>5. CASE RunMarked(j)
  BY <1>1, <1>5, GotoCounts DEF RunMarked
<1>6. CASE StartBox(j)
  BY <1>1, <1>6, GotoCounts DEF StartBox
<1>7. CASE StepStart(j)
  BY <1>1, <1>7, GotoCounts DEF StepStart
<1>8. CASE StepEnd(j)
  BY <1>1, <1>8, GotoCounts DEF StepEnd
<1>9. CASE Destroy(j)
  BY <1>1, <1>9, GotoCounts DEF Destroy
<1>10. CASE FinishJob(j)
  BY <1>1, <1>10, GotoCounts DEF FinishJob
<1>11. CASE Report(j)
  BY <1>1, <1>11, GotoCounts DEF Report
<1>12. CASE JobOver(j)
  <2>1. CASE LoopOn(j, 0, st)
    BY <1>1, <2>1, LoopCounts DEF Skippers
  <2>2. CASE JobEnds(j) /\ UNCHANGED skip
    <3>1. \A k \in Jobs : skip'[k].pc # "idle" => skip[k].pc # "idle" /\ k # j
      BY <1>12, <2>2 DEF JobOver, SlotInv
    <3> QED
      BY <1>1, <2>2, <3>1, JobEndsCounts
  <2> QED
    BY <1>12, <2>1, <2>2 DEF JobOver
<1> QED
  BY <1>2, <1>3, <1>4, <1>5, <1>6, <1>7, <1>8, <1>9, <1>10, <1>11, <1>12 DEF JobStep

LEMMA LoopsCount ==
  ASSUME TypeOK, SlotInv, NEW x \in Skippers, SkipAdopt(x) \/ SkipNext(x) \/ SkipFault(x)
  PROVE  SlotInv'
<1>1. x \in Jobs => x \in Busy
  BY DEF SkipAdopt, SkipNext, SkipFault, SlotInv, Busy
<1>2. CASE SkipAdopt(x)
  <2>1. \A k \in Jobs : skip'[k].pc # "idle" => skip[k].pc # "idle"
    BY <1>2 DEF SkipAdopt, TypeOK, RunTypes, Skippers
  <2> QED
    BY <1>2, <2>1, SameCounts DEF SkipAdopt
<1>3. CASE SkipNext(x)
  BY <1>1, <1>3, LoopCounts DEF SkipNext
<1>4. CASE SkipFault(x)
  <2>1. \A k \in Jobs : skip'[k].pc # "idle" => skip[k].pc # "idle" /\ k # x
    BY <1>4 DEF SkipFault, NoSkip, TypeOK, RunTypes, Skippers
  <2>2. CASE x \in Runs
    BY <1>4, <2>1, <2>2, SameCounts DEF SkipFault
  <2>3. CASE x \notin Runs
    BY <1>1, <1>4, <2>1, <2>3, JobEndsCounts DEF SkipFault, Skippers
  <2> QED
    BY <2>2, <2>3
<1> QED
  BY <1>2, <1>3, <1>4

LEMMA OthersCount ==
  ASSUME TypeOK, SlotInv, NEW r \in Runs,
         MakeStep(r) \/ MakeFails(r) \/ NewRun(r) \/ CloseRun(r) \/ CloseFault(r) \/ Cancel(r)
  PROVE  SlotInv'
<1>1. CASE AllMade(r)
  <2>1. Advance(r, {}, st) /\ UNCHANGED skip
    BY <1>1 DEF AllMade
  <2>2. /\ SlotsCounted'
        /\ Busy' \subseteq enq' /\ ready' \subseteq enq' /\ ready' \cap Busy' = {}
        /\ \A k \in Busy \ {} : pc'[k] = pc[k]
    BY <2>1, AdvanceCounts
  <2>3. \A k \in Jobs : skip[k].pc # "idle" => pc[k] = "failFast" /\ k \in Busy
    BY DEF SlotInv, Busy
  <2> QED
    BY <2>1, <2>2, <2>3 DEF SlotInv
<1>2. CASE Cancel(r)
  BY <1>2, LoopCounts, ConstantsAssumption DEF Cancel, Skippers
<1>3. CASE ~AllMade(r) /\ ~Cancel(r)
  <2>1. UNCHANGED <<slots, skip>>
    BY <1>3 DEF MakeStep, MakeJob, JobMade, AbortJob, AbortStatus, MakeFails, NewRun, CloseRun,
       CloseFault
  <2> QED
    BY <2>1, SameCounts
<1> QED
  BY <1>1, <1>2, <1>3

\* The inductive invariant: a job enters the queue at most once per process, and
\* what waits, what runs and what is over are kept apart.
THEOREM SlotInvariant == Spec => []SlotInv
<1>1. TypeOK /\ SlotInv /\ [Next]_vars => SlotInv'
  <2> SUFFICES ASSUME TypeOK, SlotInv, [Next]_vars PROVE SlotInv'
    OBVIOUS
  <2>1. CASE BootStep \/ SweepFault
    BY <2>1, SameCounts DEF BootStep, SweepJobs, SweepRuns, SweepStatus, CleanBoxes, SweepFault
  <2>2. CASE UNCHANGED vars
    BY <2>2, SameCounts DEF vars
  <2>3. CASE Next /\ ~(BootStep \/ SweepFault)
    BY <2>3, OthersCount, JobCounts, LoopsCount, CrashCounts DEF Next
  <2> QED
    BY <2>1, <2>2, <2>3
<1> QED
  BY <1>1, InitCounts, TypeCorrect, PTL DEF Spec

\* The engine's counter is the number of jobs under way and stays within
\* NIXRE_ACTIONS_CONCURRENCY, through every cancellation, skip, fault and crash.
THEOREM SlotsBounded == Spec => []SlotsCounted
<1>1. SlotInv => SlotsCounted
  BY DEF SlotInv
<1> QED
  BY <1>1, SlotInvariant, PTL

(* ------------------------------ the pool ------------------------------ *)
(* ActionsEngine implements SlotPool: every step of the engine is a turn   *)
(* of the pool, a restart, or none of the pool's business.                 *)

LEMMA TurnFrom ==
  ASSUME TypeOK', SlotInv', NoIdleSlot', enq \subseteq enq',
         ready' \cup (Busy' \ Busy) \subseteq ready \cup (enq' \ enq)
  PROVE  Pool!Turn
<1>1. enq' \subseteq Jobs /\ ready' \cap Busy' = {}
  BY DEF TypeOK, SlotTypes, SlotInv
<1>2. running' = Cardinality(Busy') /\ running' <= Concurrency
  BY DEF SlotInv, SlotsCounted
<1>3. ready' = {} \/ running' = Concurrency
  BY DEF NoIdleSlot
<1>4. Cardinality(Busy') <= Concurrency /\ (ready' = {} \/ Cardinality(Busy') = Concurrency)
  BY <1>2, <1>3
<1>5. Pool!Cardinality(Busy') = Cardinality(Busy')
  BY DEF Pool!Cardinality, Cardinality
<1> QED
  BY <1>1, <1>4, <1>5 DEF Pool!Turn, Pool!Served

\* advance fills the free slots, or leaves nobody waiting.
LEMMA AdvanceTurns ==
  ASSUME TypeOK, SlotInv, TypeOK', SlotInv', NEW r, NEW ended \in SUBSET Busy, NEW flags,
         Advance(r, ended, flags)
  PROVE  NoIdleSlot' /\ Pool!Turn
<1> DEFINE queue == ready \cup Eligible(r)
<1>1. PICK S \in SUBSET queue :
        /\ \/ S = queue
           \/ running - Cardinality(ended) + Cardinality(S) = Concurrency
        /\ ready' = queue \ S
        /\ running' = running - Cardinality(ended) + Cardinality(S)
        /\ pc' = [j \in Jobs |-> IF j \in S THEN "secrets"
                                 ELSE IF j \in ended THEN "idle" ELSE pc[j]]
  BY DEF Advance, Pump
<1>2. enq' = enq \cup Eligible(r) /\ Eligible(r) \cap enq = {}
  BY DEF Advance, Eligible
<1>3. NoIdleSlot'
  BY <1>1 DEF NoIdleSlot
<1>4. Busy' \ Busy \subseteq S
  BY <1>1 DEF Busy
<1>5. ready' \cup (Busy' \ Busy) \subseteq ready \cup (enq' \ enq)
  BY <1>1, <1>2, <1>4
<1> QED
  BY <1>2, <1>3, <1>5, TurnFrom

LEMMA EndTurns ==
  ASSUME TypeOK, SlotInv, TypeOK', SlotInv', NEW j \in Busy, JobEnds(j)
  PROVE  NoIdleSlot' /\ Pool!Turn
BY AdvanceTurns DEF JobEnds

LEMMA LoopTurns ==
  ASSUME TypeOK, SlotInv, TypeOK', SlotInv', NoIdleSlot,
         NEW x \in Skippers, NEW at, NEW flags, LoopOn(x, at, flags),
         x \in Jobs => x \in Busy
  PROVE  NoIdleSlot' /\ Pool!Turn
<1> DEFINE queued == {k \in {l \in Scope(x) : l > at} : mem[k].st = "queued"}
<1>1. CASE queued = {}
  <2>1. IF x \in Runs THEN Advance(x, {}, flags) ELSE JobEnds(x)
    BY <1>1 DEF LoopOn
  <2> QED
    BY <2>1, AdvanceTurns, EndTurns DEF Skippers
<1>2. CASE queued # {}
  <2> DEFINE q == First(queued)
  <2>1. /\ enq' = enq \cup {q} /\ ready' = ready \ {q}
        /\ pc' = (IF x \in Runs THEN pc ELSE [pc EXCEPT ![x] = "failFast"])
        /\ UNCHANGED running
    BY <1>2 DEF LoopOn
  <2> HIDE DEF q
  <2>2. Busy' = Busy
    BY <2>1 DEF Busy, Skippers, TypeOK, SlotTypes
  <2>3. NoIdleSlot'
    BY <2>1 DEF NoIdleSlot
  <2> QED
    BY <2>1, <2>2, <2>3, TurnFrom
<1> QED
  BY <1>1, <1>2

LEMMA Apart ==
  ASSUME NoIdleSlot, UNCHANGED <<enq, ready, running, pc>>
  PROVE  NoIdleSlot' /\ UNCHANGED Pool!vars
BY DEF NoIdleSlot, Pool!vars, Busy

LEMMA GotoApart ==
  ASSUME TypeOK, NoIdleSlot, NEW j \in Busy, NEW to \in Pcs \ {"idle"}, Goto(j, to)
  PROVE  NoIdleSlot' /\ UNCHANGED Pool!vars
<1>1. Busy' = Busy
  BY DEF Goto, Busy, TypeOK, SlotTypes
<1> QED
  BY <1>1 DEF Goto, NoIdleSlot, Pool!vars

LEMMA JobTurns ==
  ASSUME TypeOK, SlotInv, TypeOK', SlotInv', NoIdleSlot, NEW j \in Jobs,
         JobStep(j) \/ JobFault(j)
  PROVE  NoIdleSlot' /\ (Pool!Turn \/ UNCHANGED Pool!vars)
<1>1. j \in Busy
  BY DEF JobStep, JobFault, Decide, MarkRun, RunMarked, StartBox, StepStart, StepEnd, Destroy,
     FinishJob, Report, JobOver, Busy
<1>2. \/ JobEnds(j) \/ JobOver(j)
      \/ \E to \in Pcs \ {"idle"} : Goto(j, to)
  BY DEF JobStep, JobFault, Decide, MarkRun, RunMarked, StartBox, StepStart, StepEnd, Destroy,
     FinishJob, Report, Pcs
<1>3. CASE JobOver(j)
  BY <1>1, <1>3, EndTurns, LoopTurns DEF JobOver, Skippers
<1> QED
  BY <1>1, <1>2, <1>3, EndTurns, GotoApart

LEMMA SkipTurns ==
  ASSUME TypeOK, SlotInv, TypeOK', SlotInv', NoIdleSlot, NEW x \in Skippers,
         SkipAdopt(x) \/ SkipNext(x) \/ SkipFault(x)
  PROVE  NoIdleSlot' /\ (Pool!Turn \/ UNCHANGED Pool!vars)
<1>1. x \in Jobs => x \in Busy
  BY DEF SkipAdopt, SkipNext, SkipFault, SlotInv, Busy
<1>2. CASE SkipAdopt(x)
  BY <1>2, Apart DEF SkipAdopt, slots
<1>3. CASE SkipNext(x)
  BY <1>1, <1>3, LoopTurns DEF SkipNext
<1>4. CASE SkipFault(x)
  BY <1>1, <1>4, Apart, EndTurns DEF SkipFault, Skippers, slots
<1> QED
  BY <1>2, <1>3, <1>4

LEMMA RunTurns ==
  ASSUME TypeOK, SlotInv, TypeOK', SlotInv', NoIdleSlot, NEW r \in Runs,
         MakeStep(r) \/ MakeFails(r) \/ NewRun(r) \/ CloseRun(r) \/ CloseFault(r) \/ Cancel(r)
  PROVE  NoIdleSlot' /\ (Pool!Turn \/ UNCHANGED Pool!vars)
<1>1. CASE AllMade(r)
  BY <1>1, AdvanceTurns DEF AllMade
<1>2. CASE Cancel(r)
  BY <1>2, LoopTurns, ConstantsAssumption DEF Cancel, Skippers
<1>3. CASE ~AllMade(r) /\ ~Cancel(r)
  <2>1. UNCHANGED slots
    BY <1>3 DEF MakeStep, MakeJob, JobMade, AbortJob, AbortStatus, MakeFails, NewRun, CloseRun,
       CloseFault
  <2> QED
    BY <2>1, Apart DEF slots
<1> QED
  BY <1>1, <1>2, <1>3

LEMMA PoolNext ==
  ASSUME TypeOK, SlotInv, TypeOK', SlotInv', NoIdleSlot, [Next]_vars
  PROVE  NoIdleSlot' /\ [Pool!Next]_(Pool!vars)
<1>1. CASE Crash
  <2>1. Busy' = {}
    BY <1>1 DEF Crash, Busy
  <2> QED
    BY <1>1, <2>1 DEF Crash, NoIdleSlot, Pool!Next, Pool!Restart
<1>2. CASE BootStep \/ SweepFault
  <2>1. UNCHANGED slots
    BY <1>2 DEF BootStep, SweepJobs, SweepRuns, SweepStatus, CleanBoxes, SweepFault
  <2> QED
    BY <2>1, Apart DEF slots
<1>3. CASE UNCHANGED vars
  BY <1>3, Apart DEF vars, slots
<1>4. CASE Next /\ ~Crash /\ ~(BootStep \/ SweepFault)
  BY <1>4, JobTurns, SkipTurns, RunTurns DEF Next, Pool!Next
<1> QED
  BY <1>1, <1>2, <1>3, <1>4

\* No slot of the instance is free while a job waits for one, through every
\* cancellation, fail-fast, rejected query and crash: each end of a runJob pumps.
THEOREM SlotsUsed == Spec => []NoIdleSlot
<1>1. Init => NoIdleSlot
  BY DEF Init, InitMemory, NoIdleSlot
<1>2. TypeOK /\ SlotInv /\ TypeOK' /\ SlotInv' /\ NoIdleSlot /\ [Next]_vars => NoIdleSlot'
  BY PoolNext
<1> QED
  BY <1>1, <1>2, TypeCorrect, SlotInvariant, PTL DEF Spec

\* The CI engine implements the slot pool: a job is taken at most once per process, at
\* most Concurrency jobs are taken, and a slot is given on as soon as it is free.
THEOREM PoolRefinement == Spec => TakesTurns
<1>1. Init => Pool!Init
  <2> SUFFICES ASSUME Init PROVE Pool!Init
    OBVIOUS
  <2>1. Busy = {}
    BY DEF Init, InitMemory, Busy
  <2> QED
    BY <2>1 DEF Init, InitMemory, Pool!Init
<1>2. TypeOK /\ SlotInv /\ TypeOK' /\ SlotInv' /\ NoIdleSlot /\ [Next]_vars
        => [Pool!Next]_(Pool!vars)
  BY PoolNext
<1> QED
  BY <1>1, <1>2, TypeCorrect, SlotInvariant, SlotsUsed, PTL DEF Spec, TakesTurns, Pool!Spec

(***************************************************************************)
(* The commit statuses ActionsEngine writes: what a green check, which the *)
(* merge gate reads, stands for.                                           *)
(***************************************************************************)

(* ------------------------------- frames ------------------------------ *)

\* A report replaces whatever there was for its context: a job has the last word there, or
\* none.
LEMMA TellSays ==
  ASSUME TypeOK, NEW j \in Jobs, NEW s, Tell(j, s)
  PROVE  /\ Said(j)' = s
         /\ \A k \in Jobs : k # j => Said(k)' \in {Said(k), "none"}
BY DEF Tell, Said, Checks, TypeOK, StoredTypes, ChecksTyped

\* What one runJob does to its own job leaves the jobs still to be made alone: the
\* job has been queued.
LEMMA OneJobMake ==
  ASSUME TypeOK, SlotInv, MakeInv, NEW j \in Busy,
         UNCHANGED <<enq, make, skip, swept>>,
         \A r \in Runs : dbRun'[r] = NoRow => dbRun[r] = NoRow,
         \A k \in Jobs : k # j => /\ mem'[k] = mem[k] /\ dbJob'[k] = dbJob[k]
                                  /\ Said(k)' \in {Said(k), "none"},
         dbJob'[j].st = "none" => dbJob[j].st = "none"
  PROVE  MakeInv'
<1>1. j \in enq
  BY DEF SlotInv
<1>2. \A k \in Jobs : Untouched(k) => Untouched(k)'
  BY <1>1 DEF Untouched, Said
<1>3. \A k \in Jobs : RunOf[k] \in Runs
  BY ConstantsAssumption
<1>4. \A k \in swept : dbJob'[k].st # "none"
  BY DEF MakeInv, TypeOK, StoredTypes
<1> QED
  BY <1>2, <1>3, <1>4 DEF MakeInv, JobsOf

\* ... and the checks of other jobs.
LEMMA OneJobCheck ==
  ASSUME CheckInv, NEW j \in Jobs, CheckOf(j)',
         \A k \in Jobs : k # j => /\ mem'[k] = mem[k] /\ dbJob'[k] = dbJob[k]
                                  /\ Said(k)' \in {Said(k), "none"}
                                  /\ pc'[k] = pc[k] /\ out'[k] = out[k],
         ready' \subseteq ready, enq \subseteq enq'
  PROVE  CheckInv'
<1>1. \A k \in Jobs : k # j => CheckOf(k)'
  BY DEF CheckInv, CheckOf, Said
<1> QED
  BY <1>1 DEF CheckInv

LEMMA RunRowStays ==
  ASSUME TypeOK, NEW r \in Runs, NEW flags, FinishRun(r, flags)
  PROVE  \A s \in Runs : dbRun'[s] = NoRow => dbRun[s] = NoRow
BY DEF FinishRun, Completed, NoRow, TypeOK, StoredTypes

(* --------------------------- advance, skips -------------------------- *)

\* Whoever gets a slot was waiting or newly eligible, hence has no green check.
LEMMA AdvanceChecks ==
  ASSUME TypeOK, SlotInv, MakeInv, CheckInv, NEW r \in Runs, NEW ended, NEW flags,
         Advance(r, ended, flags), UNCHANGED <<mem, dbJob, status, out, swept>>,
         \A s \in Runs : make'[s] = make[s] \/ make'[s] = NoMake,
         \A x \in Skippers : skip'[x].pc = "update" => skip'[x] = skip[x]
  PROVE  MakeInv' /\ CheckInv'
<1>1. enq' = enq \cup Eligible(r)
  BY DEF Advance
<1>2. \A k \in Jobs : Untouched(k) => Untouched(k)'
  BY <1>1 DEF Untouched, Said, Eligible
<1>3. \A s \in Runs : dbRun'[s] = NoRow => dbRun[s] = NoRow
  BY RunRowStays DEF Advance
<1>4. \A k \in Jobs : RunOf[k] \in Runs
  BY ConstantsAssumption
<1>5. MakeInv'
  BY <1>1, <1>2, <1>3, <1>4 DEF MakeInv, NoMake, JobsOf
<1>6. PICK S \in SUBSET (ready \cup Eligible(r)) :
        /\ ready' = (ready \cup Eligible(r)) \ S
        /\ pc' = [j \in Jobs |-> IF j \in S THEN "secrets"
                                 ELSE IF j \in ended THEN "idle" ELSE pc[j]]
  BY DEF Advance, Pump
<1>7. ASSUME NEW j \in Jobs PROVE CheckOf(j)'
  <2>1. CheckOf(j)
    BY DEF CheckInv
  <2>2. CASE Said(j) = "success"
    <3>1. j \notin ready /\ j \notin Eligible(r)
      BY <2>1, <2>2 DEF CheckOf, Said, Eligible
    <3> QED
      BY <1>1, <1>6, <2>1, <2>2, <3>1 DEF CheckOf, Said
  <2>3. CASE Said(j) # "success"
    BY <1>6, <2>1, <2>3 DEF CheckOf, Said
  <2> QED
    BY <2>2, <2>3
<1> QED
  BY <1>5, <1>7 DEF CheckInv

LEMMA LoopChecks ==
  ASSUME TypeOK, SlotInv, MakeInv, CheckInv, NEW x \in Skippers, NEW at, NEW flags,
         LoopOn(x, at, flags), x \in Jobs => x \in Busy /\ pc[x] # "report",
         UNCHANGED <<mem, status, out, swept, make>>
  PROVE  MakeInv' /\ CheckInv'
<1> DEFINE queued == {k \in {l \in Scope(x) : l > at} : mem[k].st = "queued"}
<1>1. CASE queued = {}
  <2>1. /\ skip' = [skip EXCEPT ![x] = NoSkip] /\ UNCHANGED dbJob
        /\ IF x \in Runs THEN Advance(x, {}, flags) ELSE Advance(RunOf[x], {x}, st)
    BY <1>1 DEF LoopOn, JobEnds
  <2>2. \A y \in Skippers : skip'[y].pc = "update" => skip'[y] = skip[y]
    BY <2>1 DEF NoSkip, TypeOK, RunTypes
  <2>3. x \notin Runs => RunOf[x] \in Runs
    BY ConstantsAssumption DEF Skippers
  <2> QED
    BY <2>1, <2>2, <2>3, AdvanceChecks
<1>2. CASE queued # {}
  <2> DEFINE q == First(queued)
  <2>1. q \in Jobs /\ mem[q].st = "queued"
    BY <1>2, FirstIn, ScopeOfJobs
  <2>2. /\ skip' = [skip EXCEPT ![x] = [pc |-> "update", at |-> q]]
        /\ enq' = enq \cup {q} /\ ready' = ready \ {q}
        /\ dbJob' = [dbJob EXCEPT ![q] = Completed("cancelled")]
        /\ pc' = (IF x \in Runs THEN pc ELSE [pc EXCEPT ![x] = "failFast"])
        /\ UNCHANGED dbRun
    BY <1>2 DEF LoopOn
  <2> HIDE DEF q
  <2>3. \A k \in Jobs : Untouched(k) => Untouched(k)'
    BY <2>1, <2>2 DEF Untouched, Said, TypeOK, StoredTypes
  <2>4. \A k \in swept : dbJob'[k].st # "none"
    BY <2>1, <2>2 DEF MakeInv, TypeOK, StoredTypes, Completed
  <2>5. \A y \in Skippers : skip'[y].pc = "update" => skip'[y].at \in enq'
    BY <2>2 DEF MakeInv, TypeOK, RunTypes
  <2>6. \A k \in Jobs : RunOf[k] \in Runs
    BY ConstantsAssumption
  <2>7. MakeInv'
    BY <2>2, <2>3, <2>4, <2>5, <2>6 DEF MakeInv, JobsOf
  <2>8. ASSUME NEW k \in Jobs PROVE CheckOf(k)'
    <3>1. CheckOf(k)
      BY DEF CheckInv
    <3>2. pc'[k] = pc[k] \/ (k = x /\ pc'[k] = "failFast")
      BY <2>2 DEF TypeOK, SlotTypes
    <3>3. dbJob'[k] = dbJob[k] \/ dbJob'[k] = Completed("cancelled")
      BY <2>2 DEF TypeOK, StoredTypes
    <3> QED
      BY <2>2, <3>1, <3>2, <3>3 DEF CheckOf, Said, Completed
  <2> QED
    BY <2>7, <2>8 DEF CheckInv
<1> QED
  BY <1>1, <1>2

(* ------------------------------- runJob ------------------------------ *)

LEMMA EndChecks ==
  ASSUME TypeOK, SlotInv, MakeInv, CheckInv, NEW j \in Jobs, JobEnds(j),
         UNCHANGED <<mem, dbJob, status, out, swept, make>>,
         \A x \in Skippers : skip'[x].pc = "update" => skip'[x] = skip[x]
  PROVE  MakeInv' /\ CheckInv'
<1>1. RunOf[j] \in Runs
  BY ConstantsAssumption
<1> QED
  BY <1>1, AdvanceChecks DEF JobEnds

\* A step of runJob that keeps the check of its job, and is not the last one.
LEMMA WorkChecks ==
  ASSUME TypeOK, SlotInv, MakeInv, CheckInv, NEW j \in Jobs, pc[j] # "idle",
         NEW to \in Pcs, Goto(j, to), CheckOf(j)', UNCHANGED <<make, skip, swept>>,
         \A r \in Runs : dbRun'[r] = NoRow => dbRun[r] = NoRow,
         \A k \in Jobs : k # j => /\ mem'[k] = mem[k] /\ dbJob'[k] = dbJob[k]
                                  /\ Said(k)' \in {Said(k), "none"} /\ out'[k] = out[k],
         dbJob'[j].st = "none" => dbJob[j].st = "none"
  PROVE  MakeInv' /\ CheckInv'
<1>1. /\ \A k \in Jobs : k # j => pc'[k] = pc[k]
      /\ UNCHANGED <<enq, ready>>
  BY DEF Goto, TypeOK, SlotTypes
<1>2. MakeInv'
  BY <1>1, OneJobMake DEF Busy
<1>3. CheckInv'
  BY <1>1, OneJobCheck
<1> QED
  BY <1>2, <1>3

LEMMA DecideChecks ==
  ASSUME TypeOK, SlotInv, MakeInv, CheckInv, NEW j \in Jobs, Decide(j)
  PROVE  MakeInv' /\ CheckInv'
<1>1. CheckOf(j) /\ pc[j] = "secrets"
  BY DEF CheckInv, Decide
<1>2. CASE mem[j].st = "completed"
  BY <1>2, EndChecks DEF Decide, job
<1>3. CASE mem[j].st # "completed" /\ Wanted(j)
  <2>1. /\ dbJob' = [dbJob EXCEPT ![j] = [@ EXCEPT !.st = "running"]]
        /\ Goto(j, "running") /\ UNCHANGED <<dbRun, mem, out, status, make, skip, swept>>
    BY <1>3 DEF Decide
  <2>2. CheckOf(j)' /\ dbJob'[j].st = "running"
    BY <1>1, <2>1 DEF CheckOf, Said, Goto, TypeOK, StoredTypes, SlotTypes, Row
  <2> QED
    BY <1>1, <2>1, <2>2, WorkChecks DEF Said, Pcs, TypeOK, StoredTypes
<1>4. CASE mem[j].st # "completed" /\ ~Wanted(j)
  <2>1. /\ \E o \in Conclusions : out' = [out EXCEPT ![j] = o]
        /\ Goto(j, "finish")
        /\ UNCHANGED <<dbRun, dbJob, mem, status, make, skip, swept>>
    BY <1>4 DEF Decide, Conclusions
  <2>2. CheckOf(j)'
    BY <1>1, <2>1 DEF CheckOf, Said, Goto, TypeOK, SlotTypes
  <2> QED
    BY <1>1, <2>1, <2>2, WorkChecks DEF Said, Pcs, TypeOK, JobTypes
<1> QED
  BY <1>2, <1>3, <1>4

\* The steps between claiming a job and writing its conclusion change no job row.
LEMMA MiddleChecks ==
  ASSUME TypeOK, SlotInv, MakeInv, CheckInv, NEW j \in Jobs,
         \/ MarkRun(j) \/ RunMarked(j) \/ StartBox(j) \/ StepStart(j)
         \/ StepEnd(j) \/ Destroy(j)
  PROVE  MakeInv' /\ CheckInv'
<1>1. CheckOf(j) /\ pc[j] \in {"running", "runMark", "setup", "steps", "exec", "saved"}
  BY DEF CheckInv, MarkRun, RunMarked, StartBox, StepStart, StepEnd, Destroy
<1>2. \E to \in {"runMark", "setup", "steps", "exec", "saved", "finish"} : Goto(j, to)
  BY DEF MarkRun, RunMarked, StartBox, StepStart, StepEnd, Destroy
<1>3. /\ UNCHANGED <<dbJob, make, skip, swept>>
      /\ status' = status \/ Tell(j, "pending")
  BY DEF MarkRun, RunMarked, StartBox, StepStart, StepEnd, Destroy, db
<1>4. /\ mem' = mem \/ Adopt(j)
      /\ out' = out \/ \E o \in Conclusions : out' = [out EXCEPT ![j] = o]
  BY StoppedTyped DEF MarkRun, RunMarked, StartBox, StepStart, StepEnd, Destroy, job,
     Conclusions
<1>5. dbRun' = dbRun \/ dbRun' = [dbRun EXCEPT ![RunOf[j]].st = "running"]
  BY DEF MarkRun, RunMarked, StartBox, StepStart, StepEnd, Destroy, db
<1>9. Said(j)' \in {Said(j), "pending"} /\ \A k \in Jobs : k # j => Said(k)' \in {Said(k), "none"}
  BY <1>3, TellSays DEF Said
<1>6. CheckOf(j)'
  BY <1>1, <1>2, <1>3, <1>9 DEF CheckOf, Goto, TypeOK, StoredTypes, SlotTypes
<1>7. \A r \in Runs : dbRun'[r] = NoRow => dbRun[r] = NoRow
  BY <1>5 DEF NoRow, TypeOK, StoredTypes, Row
<1>8. \A k \in Jobs : k # j => /\ mem'[k] = mem[k] /\ dbJob'[k] = dbJob[k]
                               /\ Said(k)' \in {Said(k), "none"} /\ out'[k] = out[k]
  BY <1>3, <1>4, <1>9 DEF Adopt, TypeOK, StoredTypes, JobTypes
<1> QED
  BY <1>1, <1>2, <1>3, <1>6, <1>7, <1>8, WorkChecks DEF Pcs

\* The conclusion is written to the row first, and only then to the check.
LEMMA ReportChecks ==
  ASSUME TypeOK, SlotInv, MakeInv, CheckInv, NEW j \in Jobs, FinishJob(j) \/ Report(j)
  PROVE  MakeInv' /\ CheckInv'
<1>1. CheckOf(j)
  BY DEF CheckInv
<1>2. CASE FinishJob(j)
  <2>1. CheckOf(j)' /\ dbJob'[j].st = "completed"
    BY <1>1, <1>2 DEF FinishJob, CheckOf, Said, Goto, Completed, TypeOK, StoredTypes, SlotTypes
  <2>2. pc[j] # "idle" /\ Goto(j, "report") /\ "report" \in Pcs
    BY <1>2 DEF FinishJob, Pcs
  <2> QED
    BY <1>2, <2>1, <2>2, WorkChecks DEF Said, FinishJob, TypeOK, StoredTypes
<1>3. CASE Report(j)
  <2>1. j \in enq /\ j \notin ready
    BY <1>3 DEF Report, SlotInv, Busy
  <2>2. Said(j)' = "success" => out[j] # "failure"
    BY <1>3, TellSays DEF Report, Colour
  <2>3. CheckOf(j)'
    BY <1>1, <1>3, <2>1, <2>2 DEF Report, CheckOf, Goto, TypeOK, StoredTypes, SlotTypes
  <2>4. pc[j] # "idle" /\ Goto(j, "reported") /\ "reported" \in Pcs
    BY <1>3 DEF Report, Pcs
  <2> QED
    BY <1>3, <2>3, <2>4, WorkChecks, TellSays DEF Report, Adopt, TypeOK, StoredTypes, JobTypes
<1> QED
  BY <1>2, <1>3

LEMMA JobStepChecks ==
  ASSUME TypeOK, SlotInv, MakeInv, CheckInv, NEW j \in Jobs, JobStep(j) \/ JobFault(j)
  PROVE  MakeInv' /\ CheckInv'
<1>1. CASE JobOver(j)
  <2>1. j \in Skippers /\ j \in Busy /\ pc[j] # "report"
    BY <1>1 DEF JobOver, Skippers, Busy
  <2>2. CASE LoopOn(j, 0, st)
    BY <1>1, <2>1, <2>2, LoopChecks DEF JobOver
  <2>3. CASE JobEnds(j) /\ UNCHANGED <<dbJob, ctl, skip>>
    BY <1>1, <2>3, EndChecks DEF JobOver
  <2> QED
    BY <1>1, <2>2, <2>3 DEF JobOver
<1>2. CASE JobFault(j)
  BY <1>2, EndChecks DEF JobFault, job
<1> QED
  BY <1>1, <1>2, DecideChecks, MiddleChecks, ReportChecks DEF JobStep

(* ------------------------------ createRun ---------------------------- *)

LEMMA RunsOfJobs == \A k \in Jobs : RunOf[k] \in Runs
BY ConstantsAssumption

LEMMA JobNumbers == \A k \in Jobs : k \in Nat
BY ConstantsAssumption

\* A new run, or a new row for a job nobody has made.
LEMMA MakeChecks ==
  ASSUME TypeOK, SlotInv, MakeInv, CheckInv, NEW r \in Runs,
         NewRun(r) \/ MakeJob(r) \/ JobMade(r)
  PROVE  MakeInv' /\ CheckInv'
<1>1. CASE NewRun(r)
  <2>1. dbRun'[r] # NoRow /\ \A s \in Runs : dbRun'[s] = NoRow => dbRun[s] = NoRow
    BY <1>1 DEF NewRun, Queued, NoRow, TypeOK, StoredTypes
  <2>2. \A k \in JobsOf(r) : Untouched(k)
    BY <1>1 DEF NewRun, MakeInv, JobsOf
  <2>3. MakeInv'
    BY <1>1, <2>1, <2>2, RunsOfJobs
    DEF NewRun, MakeInv, Untouched, Said, JobsOf, slots, job, TypeOK, RunTypes
  <2>4. CheckInv'
    BY <1>1 DEF NewRun, CheckInv, CheckOf, Said, slots, job
  <2> QED
    BY <2>3, <2>4
<1>2. CASE MakeJob(r)
  <2> DEFINE new == First(Rest(r))
  <2>1. new \in Rest(r)
    BY <1>2, FirstIn DEF MakeJob, Rest, JobsOf
  <2>2. Untouched(new)
    BY <1>2, <2>1 DEF MakeJob, MakeInv, Rest
  <2>3. new \in Jobs /\ RunOf[new] = r /\ new > make[r].at /\ pc[new] = "idle"
    BY <2>1, <2>2 DEF Rest, JobsOf, SlotInv, Busy, Untouched, Said
  <2>4. /\ dbJob' = [dbJob EXCEPT ![new] = Queued]
        /\ make' = [make EXCEPT ![r] = [pc |-> "job", at |-> new]]
        /\ UNCHANGED <<dbRun, status, job, slots, skip, swept>>
    BY <1>2 DEF MakeJob
  <2> HIDE DEF new
  <2>5. \A k \in Jobs : k # new /\ Untouched(k) => Untouched(k)'
    BY <2>4 DEF Untouched, Said, slots, job, TypeOK, StoredTypes
  <2>6. \A k \in JobsOf(r) : k > new => Untouched(k)'
    <3>1. \A k \in JobsOf(r) : k > new => k > make[r].at /\ k # new
      <4>1. make[r].at \in Nat
        BY JobNumbers DEF TypeOK, RunTypes
      <4>2. new \in Nat /\ new > make[r].at
        BY <2>3, JobNumbers
      <4> QED
        BY <4>1, <4>2, JobNumbers DEF JobsOf
    <3> QED
      BY <1>2, <2>5, <3>1 DEF MakeJob, MakeInv, JobsOf
  <2>7. \A s \in Runs \ {r} : \A k \in JobsOf(s) : k # new
    BY <2>3 DEF JobsOf
  <2>8. \A k \in Jobs : dbRun[RunOf[k]] = NoRow => k # new
    BY <1>2, <2>3 DEF MakeJob, MakeInv
  <2>9. \A k \in swept : dbJob'[k].st # "none"
    BY <2>3, <2>4 DEF MakeInv, Queued, TypeOK, StoredTypes
  <2>10. MakeInv'
    <3>1. \A k \in Jobs : dbRun'[RunOf[k]] = NoRow => Untouched(k)'
      BY <2>4, <2>5, <2>8 DEF MakeInv
    <3>2. ASSUME NEW s \in Runs
          PROVE  /\ make'[s].pc # "idle" => dbRun'[s] # NoRow
                 /\ make'[s].pc \in {"job", "abortJob"} => RunOf[make'[s].at] = s
                 /\ make'[s].pc \in {"row", "job", "status"} =>
                      \A k \in JobsOf(s) : k > make'[s].at => Untouched(k)'
      <4>1. CASE s = r
        BY <1>2, <2>3, <2>4, <2>6, <4>1 DEF MakeJob, MakeInv, TypeOK, RunTypes
      <4>2. CASE s # r
        BY <2>4, <2>5, <2>7, <4>2 DEF MakeInv, JobsOf, TypeOK, RunTypes
      <4> QED
        BY <4>1, <4>2
    <3> QED
      BY <2>4, <2>9, <3>1, <3>2 DEF MakeInv, JobsOf, slots
  <2>11. ASSUME NEW k \in Jobs PROVE CheckOf(k)'
    BY <2>2, <2>3, <2>4 DEF CheckInv, CheckOf, Said, Untouched, slots, job, TypeOK, StoredTypes
  <2> QED
    BY <2>10, <2>11 DEF CheckInv
<1>3. CASE JobMade(r)
  <2> DEFINE new == make[r].at
  <2>1. new \in Jobs /\ RunOf[new] = r /\ dbRun[r] # NoRow
    BY <1>3 DEF JobMade, MakeInv, TypeOK, RunTypes
  <2>2. /\ mem' = [mem EXCEPT ![new] = Queued]
        /\ Tell(new, "pending")
        /\ make' = [make EXCEPT ![r].pc = "status"]
        /\ UNCHANGED <<dbRun, dbJob, ret, ctl, out, slots, skip, swept>>
    BY <1>3 DEF JobMade
  <2>3. \A k \in Jobs : k # new /\ Untouched(k) => Untouched(k)'
    BY <2>1, <2>2, TellSays DEF Untouched, slots, TypeOK, StoredTypes, JobTypes
  <2>4. \A k \in Jobs : k > new => k # new
    <3>1. new \in Nat
      BY <2>1, JobNumbers
    <3> HIDE DEF new
    <3> QED
      BY <3>1, JobNumbers
  <2>5. \A s \in Runs : /\ s # r => make'[s] = make[s]
                        /\ make'[s].at = make[s].at
                        /\ make'[r].pc = "status"
    BY <2>2 DEF TypeOK, RunTypes
  <2>6. MakeInv'
    BY <1>3, <2>1, <2>2, <2>3, <2>4, <2>5 DEF JobMade, MakeInv, JobsOf, slots
  <2>7. ASSUME NEW k \in Jobs PROVE CheckOf(k)'
    <3>1. Said(k)' = "success" => Said(k) = "success" /\ k # new
      BY <2>1, <2>2, TellSays
    <3>2. k # new => mem'[k] = mem[k]
      BY <2>1, <2>2 DEF TypeOK, JobTypes
    <3> QED
      BY <2>2, <3>1, <3>2 DEF CheckInv, CheckOf, slots
  <2> QED
    BY <2>6, <2>7 DEF CheckInv
<1> QED
  BY <1>1, <1>2, <1>3

\* createRun gives up, closing the rows it made.
LEMMA AbortChecks ==
  ASSUME TypeOK, SlotInv, MakeInv, CheckInv, NEW r \in Runs,
         \/ AllMade(r) \/ MakeFails(r) \/ AbortJob(r) \/ AbortStatus(r) \/ CloseRun(r)
         \/ CloseFault(r)
  PROVE  MakeInv' /\ CheckInv'
<1>1. CASE AllMade(r)
  BY <1>1, AdvanceChecks DEF AllMade, NoMake, job, TypeOK, RunTypes
<1>2. CASE MakeFails(r)
  <2>1. \A s \in Runs : dbRun'[s] = NoRow => dbRun[s] = NoRow
    BY <1>2 DEF MakeFails, Completed, NoRow, TypeOK, StoredTypes
  <2>2. \A s \in Runs : make'[s] = make[s] \/ (make'[s].pc = "abort" /\ make[s].pc # "idle")
    BY <1>2 DEF MakeFails, TypeOK, RunTypes
  <2>3. MakeInv'
    BY <1>2, <2>1, <2>2, RunsOfJobs DEF MakeFails, MakeInv, Untouched, Said, JobsOf, slots, job
  <2> QED
    BY <1>2, <2>3 DEF MakeFails, CheckInv, CheckOf, Said, slots, job
<1>3. CASE AbortJob(r)
  <2> DEFINE rest == Rest(r) \cap Present(r)
  <2>1. CASE rest = {}
    <3>1. make' = [make EXCEPT ![r] = NoMake]
          /\ UNCHANGED <<dbRun, dbJob, status, job, slots, skip, swept>>
      BY <1>3, <2>1 DEF AbortJob
    <3>2. MakeInv'
      BY <3>1 DEF MakeInv, Untouched, Said, JobsOf, NoMake, slots, job, TypeOK, RunTypes
    <3> QED
      BY <3>1, <3>2 DEF CheckInv, CheckOf, Said, slots, job
  <2>2. CASE rest # {}
    <3> DEFINE q == First(rest)
    <3>1. q \in rest
      BY <2>2, FirstIn DEF Rest, JobsOf
    <3>2. q \in Jobs /\ RunOf[q] = r /\ mem[q].st # "none"
      BY <3>1 DEF Rest, JobsOf, Present
    <3>3. /\ dbJob' = [dbJob EXCEPT ![q] = Completed("skipped")]
          /\ make' = [make EXCEPT ![r] = [pc |-> "abortJob", at |-> q]]
          /\ make[r].pc # "idle"
          /\ UNCHANGED <<dbRun, status, job, slots, skip, swept>>
      BY <1>3, <2>2 DEF AbortJob
    <3> HIDE DEF q
    <3>4. \A k \in Jobs : Untouched(k) => Untouched(k)'
      BY <3>2, <3>3 DEF Untouched, Said, slots, job, TypeOK, StoredTypes
    <3>5. \A k \in swept : dbJob'[k].st # "none"
      BY <3>3 DEF MakeInv, Completed, TypeOK, StoredTypes
    <3>6. /\ \A s \in Runs : s # r => make'[s] = make[s]
          /\ make'[r].pc = "abortJob" /\ make'[r].at = q
      BY <3>3 DEF TypeOK, RunTypes
    <3>7. MakeInv'
      BY <3>2, <3>3, <3>4, <3>5, <3>6 DEF MakeInv, JobsOf, slots
    <3>8. ASSUME NEW k \in Jobs PROVE CheckOf(k)'
      BY <3>3 DEF CheckInv, CheckOf, Said, Completed, slots, job, TypeOK, StoredTypes
    <3> QED
      BY <3>7, <3>8 DEF CheckInv
  <2> QED
    BY <2>1, <2>2
<1>4. CASE AbortStatus(r)
  <2> DEFINE q == make[r].at
  <2>1. q \in Jobs /\ RunOf[q] = r /\ dbRun[r] # NoRow
    BY <1>4 DEF AbortStatus, MakeInv, TypeOK, RunTypes
  <2>2. /\ Tell(q, "error")
        /\ make' = [make EXCEPT ![r].pc = "abortStatus"]
        /\ UNCHANGED <<dbRun, dbJob, job, slots, skip, swept>>
    BY <1>4 DEF AbortStatus
  <2>3. \A k \in Jobs : k # q /\ Untouched(k) => Untouched(k)'
    BY <2>1, <2>2, TellSays DEF Untouched, slots, job, TypeOK, StoredTypes
  <2>4. \A s \in Runs : s # r => make'[s] = make[s]
    BY <2>2 DEF TypeOK, RunTypes
  <2>5. make'[r].pc = "abortStatus"
    BY <2>2 DEF TypeOK, RunTypes
  <2>6. MakeInv'
    BY <2>1, <2>2, <2>3, <2>4, <2>5 DEF MakeInv, JobsOf, slots
  <2>7. ASSUME NEW k \in Jobs PROVE CheckOf(k)'
    <3>1. Said(k)' = "success" => Said(k) = "success"
      BY <2>1, <2>2, TellSays
    <3> QED
      BY <2>2, <3>1 DEF CheckInv, CheckOf, slots, job
  <2> QED
    BY <2>6, <2>7 DEF CheckInv
<1>5. CASE CloseRun(r)
  BY <1>5 DEF CloseRun, MakeInv, Untouched, Said, JobsOf, CheckInv, CheckOf, db, job, slots
<1>6. CASE CloseFault(r)
  <2>1. \A s \in Runs : dbRun'[s] = NoRow => dbRun[s] = NoRow
    <3>1. PICK row : /\ row = NoRow => row = dbRun[r]
                     /\ dbRun' = [dbRun EXCEPT ![r] = row]
      BY <1>6 DEF CloseFault, InProgress, Queued, NoRow
    <3> QED
      BY <3>1 DEF TypeOK, StoredTypes
  <2> QED
    BY <1>6, <2>1, RunsOfJobs
    DEF CloseFault, MakeInv, Untouched, Said, JobsOf, CheckInv, CheckOf, job, slots
<1> QED
  BY <1>1, <1>2, <1>3, <1>4, <1>5, <1>6

(* ------------------- cancellation, crash, boot sweep ------------------ *)

LEMMA SkipChecks ==
  ASSUME TypeOK, SlotInv, MakeInv, CheckInv, NEW x \in Skippers,
         SkipAdopt(x) \/ SkipNext(x) \/ SkipFault(x)
  PROVE  MakeInv' /\ CheckInv'
<1>1. x \in Jobs => pc[x] = "failFast"
  BY DEF SlotInv, SkipAdopt, SkipNext, SkipFault
<1>2. CASE SkipAdopt(x)
  <2> DEFINE q == skip[x].at
  <2>1. q \in Jobs /\ q \in enq
    BY <1>2 DEF SkipAdopt, MakeInv, TypeOK, RunTypes
  <2>2. /\ mem' = [mem EXCEPT ![q] = Completed("cancelled")]
        /\ Tell(q, "error")
        /\ skip' = [skip EXCEPT ![x].pc = "status"]
        /\ UNCHANGED <<dbRun, dbJob, out, slots, make, swept>>
    BY <1>2 DEF SkipAdopt
  <2>3. \A k \in Jobs : Untouched(k) => Untouched(k)'
    BY <2>1, <2>2, TellSays DEF Untouched, slots, TypeOK, StoredTypes, JobTypes
  <2>4. \A y \in Skippers : skip'[y].pc = "update" => skip'[y] = skip[y]
    BY <2>2 DEF TypeOK, RunTypes
  <2>5. MakeInv'
    BY <2>2, <2>3, <2>4 DEF MakeInv, JobsOf, slots
  <2>6. ASSUME NEW k \in Jobs PROVE CheckOf(k)'
    <3>1. Said(k)' = "success" => Said(k) = "success" /\ k # q
      BY <2>1, <2>2, TellSays
    <3>2. k # q => mem'[k] = mem[k]
      BY <2>1, <2>2 DEF TypeOK, JobTypes
    <3> QED
      BY <2>2, <3>1, <3>2 DEF CheckInv, CheckOf, slots
  <2> QED
    BY <2>5, <2>6 DEF CheckInv
<1>3. CASE SkipNext(x)
  <2>1. x \in Jobs => x \in Busy /\ pc[x] # "report"
    BY <1>1 DEF Busy
  <2> QED
    BY <1>3, <2>1, LoopChecks DEF SkipNext
<1>4. CASE SkipFault(x)
  <2>1. /\ skip' = [skip EXCEPT ![x] = NoSkip]
        /\ UNCHANGED <<dbJob, status, job, make, swept>>
    BY <1>4 DEF SkipFault
  <2>2. \A y \in Skippers : skip'[y].pc = "update" => skip'[y] = skip[y]
    BY <2>1 DEF NoSkip, TypeOK, RunTypes
  <2>3. CASE x \in Runs
    <3>1. UNCHANGED <<slots, dbRun>>
      BY <1>4, <2>3 DEF SkipFault
    <3>2. MakeInv'
      BY <2>1, <2>2, <3>1 DEF MakeInv, Untouched, Said, JobsOf, slots, job
    <3> QED
      BY <2>1, <3>1, <3>2 DEF CheckInv, CheckOf, Said, slots, job
  <2>4. CASE x \notin Runs
    <3>1. x \in Jobs /\ JobEnds(x)
      BY <1>4, <2>4 DEF SkipFault, Skippers
    <3> QED
      BY <2>1, <2>2, <3>1, EndChecks DEF job
  <2> QED
    BY <2>3, <2>4
<1> QED
  BY <1>2, <1>3, <1>4

LEMMA CancelChecks ==
  ASSUME TypeOK, SlotInv, MakeInv, CheckInv, NEW r \in Runs, Cancel(r)
  PROVE  MakeInv' /\ CheckInv'
<1>1. r \in Skippers /\ r \notin Jobs
  BY ConstantsAssumption DEF Skippers
<1> QED
  BY <1>1, LoopChecks DEF Cancel

\* A crash forgets the engine's memory; the boot sweep closes open rows only.
LEMMA RestartChecks ==
  ASSUME TypeOK, SlotInv, MakeInv, CheckInv, Crash \/ BootStep \/ SweepFault
  PROVE  MakeInv' /\ CheckInv'
<1>1. CASE Crash
  BY <1>1 DEF Crash, MakeInv, Untouched, Said, CheckInv, CheckOf, NoRow, NoMake, NoSkip, db
<1>2. CASE SweepJobs
  <2>1. \A k \in Jobs : \/ dbJob'[k] = dbJob[k]
                        \/ dbJob'[k] = Completed("failure") /\ dbJob[k].st \in {"queued", "running"}
    BY <1>2 DEF SweepJobs, Interrupt, Open
  <2>2. \A k \in Jobs : Untouched(k) => Untouched(k)'
    BY <1>2, <2>1 DEF SweepJobs, Untouched, Said, slots, job
  <2>3. \A k \in swept' : dbJob'[k].st # "none"
    BY <1>2 DEF SweepJobs, Interrupt, Open, Completed
  <2>4. MakeInv'
    BY <1>2, <2>2, <2>3 DEF SweepJobs, MakeInv, JobsOf, slots
  <2> QED
    BY <1>2, <2>1, <2>4 DEF SweepJobs, CheckInv, CheckOf, Said, slots, job
<1>3. CASE SweepRuns
  <2>1. \A r \in Runs : dbRun'[r] = NoRow => dbRun[r] = NoRow
    BY <1>3 DEF SweepRuns, Interrupt, Completed, NoRow
  <2>2. \A r \in Runs : dbRun[r] = NoRow => dbRun'[r] = NoRow
    BY <1>3 DEF SweepRuns, Interrupt, Open, NoRow
  <2> QED
    BY <1>3, <2>1, <2>2, RunsOfJobs
    DEF SweepRuns, MakeInv, Untouched, Said, JobsOf, CheckInv, CheckOf, slots, job
<1>4. ASSUME NEW j \in Jobs, SweepStatus(j) PROVE MakeInv' /\ CheckInv'
  <2>1. /\ swept' = swept \ {j} /\ dbJob[j].st # "none"
        /\ Tell(j, "error") \/ status' = status
        /\ UNCHANGED <<dbRun, dbJob, job, slots, make, skip>>
    BY <1>4 DEF SweepStatus, MakeInv
  <2>5. \A k \in Jobs : Untouched(k) => Said(k)' = "none"
    <3>1. ~Untouched(j)
      BY <2>1 DEF Untouched
    <3> QED
      BY <2>1, <3>1, TellSays DEF Untouched, Said
  <2>2. \A k \in Jobs : Untouched(k) => Untouched(k)'
    BY <2>1, <2>5 DEF Untouched, slots, job
  <2>3. MakeInv'
    BY <2>1, <2>2 DEF MakeInv, JobsOf, slots
  <2>4. ASSUME NEW k \in Jobs PROVE CheckOf(k)'
    <3>1. Said(k)' = "success" => Said(k) = "success"
      BY <2>1, TellSays DEF Said
    <3> QED
      BY <2>1, <3>1 DEF CheckInv, CheckOf, slots, job
  <2> QED
    BY <2>3, <2>4 DEF CheckInv
<1>5. CASE CleanBoxes \/ SweepFault
  BY <1>5 DEF CleanBoxes, SweepFault, MakeInv, Untouched, Said, JobsOf, CheckInv, CheckOf, db, job, slots
<1> QED
  BY <1>1, <1>2, <1>3, <1>4, <1>5 DEF BootStep

LEMMA InitChecks == Init => MakeInv /\ CheckInv
BY DEF Init, InitMemory, MakeInv, Untouched, Said, Checks, NoCheck, CheckInv, CheckOf, NoRow, NoMake, NoSkip, JobsOf

(* ------------------------------ theorems ----------------------------- *)

\* Rows are made once, and a green check is never under a job that can still run:
\* the facts behind GreenChecks, kept by every step.
THEOREM ChecksInvariant == Spec => [](MakeInv /\ CheckInv)
<1>1. TypeOK /\ SlotInv /\ MakeInv /\ CheckInv /\ [Next]_vars => MakeInv' /\ CheckInv'
  <2> SUFFICES ASSUME TypeOK, SlotInv, MakeInv, CheckInv, [Next]_vars
               PROVE  MakeInv' /\ CheckInv'
    OBVIOUS
  <2>1. CASE Next
    BY <2>1, MakeChecks, AbortChecks, CancelChecks, JobStepChecks, SkipChecks, RestartChecks
    DEF Next, MakeStep
  <2>2. CASE UNCHANGED vars
    BY <2>2 DEF vars, db, job, slots, MakeInv, Untouched, Said, JobsOf, CheckInv, CheckOf
  <2> QED
    BY <2>1, <2>2
<1> QED
  BY <1>1, InitChecks, TypeCorrect, SlotInvariant, PTL DEF Spec

\* A green check was never given by a job that failed or has not ended, through every
\* cancellation, skip, fault, crash and boot sweep, and whichever jobs share a context.
THEOREM GreenChecks == Spec => []GreenCheckIsTrue
<1>1. TypeOK /\ CheckInv => GreenCheckIsTrue
  <2> SUFFICES ASSUME TypeOK, CheckInv, NEW c \in Checks, status[c].state = "success"
               PROVE  dbJob[status[c].of].st = "completed" /\ dbJob[status[c].of].con # "failure"
    BY DEF GreenCheckIsTrue
  <2>1. status[c].of \in Jobs
    BY DEF TypeOK, StoredTypes, ChecksTyped, CheckRow, NoCheck
  <2>2. Context[status[c].of] = c
    BY DEF TypeOK, StoredTypes, ChecksTyped, NoCheck
  <2> QED
    BY <2>1, <2>2 DEF CheckInv, CheckOf, Said
<1> QED
  BY <1>1, TypeCorrect, ChecksInvariant, PTL

(***************************************************************************)
(* Rows and memory: what the rows of a closed run and of a needed job stand*)
(* for.                                                                    *)
(***************************************************************************)

Working == {"running", "runMark", "setup", "steps", "exec", "saved"}
Resting == {"idle", "reported", "failFast"}

\* What a job that its `if` turned away concludes with.
Passed(k, con) == con = "skipped" \/ (con = "failure" /\ Cond[k] = "invalid")

\* A job that has ended for good in this process.
Over(k) ==
  mem[k].st = "completed" /\ pc[k] \in Resting /\ k \in enq /\ k \notin ready

\* A fail-fast loop closed the row of a job that was just being skipped.
Overtaken(k) ==
  /\ dbJob[k] = Completed("cancelled") /\ ~NeverSkipped(k)
  /\ \E x \in Jobs : k \in Legs[x] /\ Over(x) /\ mem[x].con \in {"failure", "cancelled"}

\* The row of a job that is running, or that a fail-fast loop closed meanwhile.
Unfinished(row) ==
  /\ row.st \in {"running", "completed"} /\ row.con \in {"none", "cancelled"}
  /\ row.st = "completed" => row.con = "cancelled"

\* A job of a run nobody cancelled: its row in memory, the row an UPDATE returned and the
\* row in the database, by where its runJob is.
RowOf(k) ==
  /\ mem[k].st = "completed" /\ mem[k].con # "cancelled" =>
       /\ Over(k) /\ mem[k].con \in Conclusions
       /\ dbJob[k] = mem[k] \/ (Overtaken(k) /\ Passed(k, mem[k].con))
  /\ mem[k].st # "completed" => mem[k].con \in {"none", "cancelled"}
  /\ k \in ready \/ pc[k] = "secrets" => dbJob[k].con \in {"none", "cancelled"}
  /\ pc[k] \in Working => Unfinished(dbJob[k]) /\ Unfinished(ret[k])
  /\ pc[k] \in Working \ {"running"} => mem[k].st # "queued"
  /\ pc[k] \in {"finish", "report"} /\ mem[k].st = "queued" =>
       ~NeverSkipped(k) /\ Passed(k, out[k])
  /\ pc[k] \in {"saved", "finish", "report"} => out[k] \in Conclusions
  /\ pc[k] = "report" =>
       /\ ret[k] = Completed(out[k])
       /\ dbJob[k] = ret[k] \/ (Overtaken(k) /\ Passed(k, out[k]))
  /\ pc[k] \in {"reported", "failFast"} =>
       mem[k].st = "completed" /\ mem[k].con \in {out[k], "cancelled"}
  /\ pc[k] = "failFast" => out[k] = "failure"

\* No job of such a run is queued before all of them are made, and until then nothing
\* closes a row.
Made(r) ==
  /\ \A k \in JobsOf(r) : k \in enq =>
       make[r].pc = "idle" /\ \A l \in JobsOf(r) : mem[l].st # "none"
  /\ make[r].pc \in {"job", "status"} =>
       \A k \in JobsOf(r) :
         k < make[r].at \/ (k = make[r].at /\ make[r].pc = "status") => mem[k].st # "none"
  /\ make[r].pc \in {"job", "status"} =>
       \A k \in JobsOf(r) : k <= make[r].at /\ k \notin enq => dbJob[k].con = "none"
  /\ JobsOf(r) \cap enq # {} =>
       \A k \in JobsOf(r) : k \notin enq => dbJob[k].con = "none"

RowsInv ==
  \A r \in Runs :
    /\ skip[r].pc # "idle" => st[r].cancelled
    /\ make[r].pc \in {"idle", "row"} => make[r].at = 0
    /\ ~st[r].cancelled => Made(r) /\ \A k \in JobsOf(r) : RowOf(k)

\* A row nothing writes any more.
Shut(k) ==
  /\ dbJob[k].st = "completed" /\ mem[k].st \in {"none", "completed"}
  /\ pc[k] \in Resting /\ k \notin ready
  /\ make[RunOf[k]].pc = "idle" /\ dbRun[RunOf[k]] # NoRow

Tolerated(k) == k \in Soft /\ dbJob[k] = Completed("failure")

\* The rows under a green run ...
Green(k) ==
  \/ dbJob[k] \in {Completed("success"), Completed("skipped")} \/ Tolerated(k)
  \/ dbJob[k] = Completed("cancelled") /\ ~NeverSkipped(k) /\ \E x \in Soft : k \in Legs[x]

GreenInv ==
  \A r \in Runs : dbRun[r] = Completed("success") =>
    \A k \in JobsOf(r) : Shut(k) /\ Green(k)

\* ... and those a job with the default `if` waited for.
Met(k) ==
  \/ dbJob[k] = Completed("success") \/ Tolerated(k)
  \/ /\ dbJob[k] = Completed("cancelled") /\ k \in Soft /\ Cond[k] = "invalid"
     /\ \E x \in Jobs : k \in Legs[x]

NeedInv ==
  \A j \in Jobs : (j \in box \/ pc[j] \in Working) /\ Cond[j] = "success" =>
    \A k \in Needs[j] : Shut(k) /\ Met(k)

\* Nothing of the engine is left in memory when the process is down or booting.
BootInv ==
  phase # "up" =>
    /\ enq = {} /\ \A j \in Jobs : mem[j].st = "none"
    /\ \A r \in Runs : make[r].pc = "idle"
    /\ \A x \in Skippers : skip[x].pc = "idle"

\* Unless a removal failed, a container of a listening server is in use.
BoxInv ==
  /\ \A e \in Events : left[e] <= Budget[e]
  /\ phase = "up" /\ Unused("fault") => \A j \in box : pc[j] \in {"steps", "exec", "saved"}

(* ------------------------------- frames ------------------------------ *)

\* What every step of a living process keeps: a job that is over, ...
OversStay ==
  \A x \in Jobs : ~st[RunOf[x]].cancelled /\ Over(x) =>
    Over(x)' /\ (mem'[x] = mem[x] \/ mem'[x] = Completed("cancelled"))

\* ... and, in every step, a row that is shut.
ShutsStay == \A k \in Jobs : Shut(k) => Shut(k)' /\ dbJob'[k] = dbJob[k]

LEMMA OneRunEach ==
  /\ \A k \in Jobs : RunOf[k] \in Runs /\ k \in JobsOf(RunOf[k])
  /\ \A r \in Runs : \A k \in JobsOf(r) : k \in Jobs /\ RunOf[k] = r
  /\ \A j \in Jobs : \A k \in Needs[j] \cup Legs[j] :
       k \in Jobs /\ RunOf[k] = RunOf[j] /\ k # j
BY ConstantsAssumption DEF JobsOf

LEMMA OvertakenStays ==
  ASSUME NEW k \in Jobs, ~st[RunOf[k]].cancelled, Overtaken(k), OversStay,
         dbJob'[k] = dbJob[k]
  PROVE  Overtaken(k)'
<1>1. PICK x \in Jobs :
        k \in Legs[x] /\ Over(x) /\ mem[x].con \in {"failure", "cancelled"}
  BY DEF Overtaken
<1>2. RunOf[x] = RunOf[k]
  BY <1>1, OneRunEach
<1>3. Over(x)' /\ mem'[x].con \in {"failure", "cancelled"}
  BY <1>1, <1>2 DEF OversStay, Completed
<1> QED
  BY <1>1, <1>3 DEF Overtaken, NeverSkipped

\* The rows of a job the step does not touch.
LEMMA RowStays ==
  ASSUME NEW k \in Jobs, ~st[RunOf[k]].cancelled, RowOf(k), OversStay,
         mem'[k] = mem[k], ret'[k] = ret[k], dbJob'[k] = dbJob[k], out'[k] = out[k],
         \/ pc'[k] = pc[k]
         \/ pc'[k] = "idle" \/ (pc'[k] = "secrets" /\ dbJob[k].con \in {"none", "cancelled"}),
         k \in ready' => dbJob[k].con \in {"none", "cancelled"}
  PROVE  RowOf(k)'
<1>1. Overtaken(k) => Overtaken(k)'
  BY OvertakenStays
<1>2. mem[k].st = "completed" /\ mem[k].con # "cancelled" => Over(k)'
  BY DEF RowOf, OversStay
<1>3. (mem[k].st = "completed" /\ mem[k].con # "cancelled" =>
        /\ Over(k) /\ mem[k].con \in Conclusions
        /\ dbJob[k] = mem[k] \/ (Overtaken(k) /\ Passed(k, mem[k].con)))'
  BY <1>1, <1>2 DEF RowOf, Passed
<1>4. CASE pc'[k] = pc[k]
  BY <1>1, <1>3, <1>4 DEF RowOf, Passed, NeverSkipped, Unfinished
<1>5. CASE pc'[k] \in {"idle", "secrets"} /\ pc'[k] # pc[k]
  BY <1>3, <1>5 DEF RowOf, Working
<1> QED
  BY <1>4, <1>5

\* A run in which nothing is queued or made by this step.
LEMMA MadeStays ==
  ASSUME TypeOK, NEW r \in Runs, Made(r), make'[r] = make[r] \/ make'[r].pc = "idle",
         \A k \in JobsOf(r) :
           /\ k \in enq' => k \in enq \/ JobsOf(r) \cap enq # {}
           /\ k \in enq => k \in enq'
           /\ mem'[k].st = "none" => mem[k].st = "none"
           /\ k \notin enq' => dbJob'[k] = dbJob[k]
  PROVE  Made(r)'
<1>1. CASE make'[r] = make[r] \/ JobsOf(r) \cap enq # {}
  BY <1>1, OneRunEach DEF Made
<1>2. CASE make'[r].pc = "idle" /\ JobsOf(r) \cap enq = {}
  <2>1. JobsOf(r) \cap enq' = {}
    BY <1>2
  <2> QED
    BY <1>2, <2>1, OneRunEach DEF Made, JobsOf
<1> QED
  BY <1>1, <1>2

(* -------------------------- advance, finishRun ------------------------ *)

LEMMA AdvanceStays ==
  ASSUME TypeOK, SlotInv, NEW r \in Runs, NEW ended, NEW flags,
         Advance(r, ended, flags), UNCHANGED <<mem, dbJob>>,
         \A s \in Runs : make'[s].pc = make[s].pc \/ make'[s].pc = "idle"
  PROVE  OversStay /\ ShutsStay
<1>1. PICK S \in SUBSET (ready \cup Eligible(r)) :
        /\ ready' = (ready \cup Eligible(r)) \ S
        /\ pc' = [j \in Jobs |-> IF j \in S THEN "secrets"
                                 ELSE IF j \in ended THEN "idle" ELSE pc[j]]
  BY DEF Advance, Pump
<1>2. enq' = enq \cup Eligible(r)
  BY DEF Advance
<1>3. \A s \in Runs : dbRun[s] # NoRow => dbRun'[s] # NoRow
  BY RunRowStays DEF Advance
<1>4. OversStay
  BY <1>1, <1>2 DEF OversStay, Over, Eligible, Resting
<1>5. ShutsStay
  BY <1>1, <1>3, OneRunEach DEF ShutsStay, Shut, Eligible, Resting
<1> QED
  BY <1>4, <1>5

\* A run concluded green by the rows in memory has green rows in the database.
LEMMA VerdictGreen ==
  ASSUME TypeOK, NEW r \in Runs, \A k \in JobsOf(r) : RowOf(k) /\ mem[k].st # "none",
         NEW flags, AllCompleted(r), Verdict(r, flags) = "success",
         NEW k \in JobsOf(r)
  PROVE  Over(k) /\ Green(k) /\ dbJob[k].st = "completed"
<1>1. \A l \in JobsOf(r) :
        /\ mem[l].st = "completed" /\ mem[l].con # "cancelled"
        /\ mem[l].con = "failure" => l \in Soft
  BY DEF AllCompleted, Verdict, Present
<1>2. \A l \in JobsOf(r) : Over(l) /\ mem[l].con \in {"success", "failure", "skipped"}
  BY <1>1 DEF RowOf, Conclusions
<1>3. mem[k] = Completed(mem[k].con)
  BY <1>1, OneRunEach DEF Completed, TypeOK, JobTypes, Row
<1>4. CASE dbJob[k] = mem[k]
  BY <1>1, <1>2, <1>3, <1>4 DEF Green, Tolerated, Completed
<1>5. CASE dbJob[k] # mem[k]
  <2>1. Overtaken(k)
    BY <1>1, <1>5 DEF RowOf
  <2>2. PICK x \in Jobs : k \in Legs[x] /\ mem[x].con \in {"failure", "cancelled"}
    BY <2>1 DEF Overtaken
  <2>3. x \in JobsOf(r)
    BY <2>2, OneRunEach
  <2>4. x \in Soft
    BY <1>1, <2>2, <2>3
  <2> QED
    BY <1>2, <2>1, <2>2, <2>4 DEF Overtaken, Green, Completed
<1> QED
  BY <1>2, <1>4, <1>5

LEMMA MadeCon ==
  ASSUME TypeOK, NEW r \in Runs, Made(r),
         (make[r].pc = "status" /\ Rest(r) = {}) \/ JobsOf(r) \cap enq # {}
  PROVE  \A k \in JobsOf(r) : k \notin enq => dbJob[k].con = "none"
<1>1. make[r].at \in Nat /\ \A k \in JobsOf(r) : k \in Nat
  BY JobNumbers, OneRunEach DEF TypeOK, RunTypes
<1>2. Rest(r) = {} => \A k \in JobsOf(r) : k <= make[r].at
  BY <1>1 DEF Rest
<1> QED
  BY <1>2 DEF Made

LEMMA AdvanceRows ==
  ASSUME TypeOK, SlotInv, MakeInv, RowsInv, GreenInv,
         NEW r \in Runs, NEW ended, NEW flags \in [Runs -> Flags],
         Advance(r, ended, flags), UNCHANGED <<mem, ret, dbJob, out>>,
         \A s \in Runs : make'[s] = make[s] \/ make'[s] = NoMake,
         \A s \in Runs : ~flags[s].cancelled => ~st[s].cancelled,
         \A s \in Runs : skip'[s].pc # "idle" => skip[s].pc # "idle" /\ flags[s].cancelled,
         ~flags[r].cancelled =>
           make'[r].pc = "idle" /\ \A k \in JobsOf(r) : mem[k].st # "none",
         ~flags[r].cancelled =>
           (make[r].pc = "status" /\ Rest(r) = {}) \/ JobsOf(r) \cap enq # {}
  PROVE  RowsInv' /\ OversStay /\ ShutsStay /\ GreenInv'
<1>1. PICK S \in SUBSET (ready \cup Eligible(r)) :
        /\ ready' = (ready \cup Eligible(r)) \ S
        /\ pc' = [j \in Jobs |-> IF j \in S THEN "secrets"
                                 ELSE IF j \in ended THEN "idle" ELSE pc[j]]
  BY DEF Advance, Pump
<1>2. enq' = enq \cup Eligible(r) /\ Eligible(r) \subseteq JobsOf(r) \ enq
  BY DEF Advance, Eligible, Present
<1>3. OversStay /\ ShutsStay
  BY AdvanceStays DEF NoMake
<1>4. \A s \in Runs : st'[s].cancelled = flags[s].cancelled
  BY DEF Advance, FinishRun, Flags
<1>5. ASSUME NEW s \in Runs, ~flags[s].cancelled
      PROVE  Made(s)' /\ \A k \in JobsOf(s) : RowOf(k)'
  <2>1. Made(s) /\ \A k \in JobsOf(s) : RowOf(k) /\ ~st[RunOf[k]].cancelled
    BY <1>5, OneRunEach DEF RowsInv
  <2>2. \A k \in Eligible(r) : s = r => dbJob[k].con = "none"
    BY <1>2, <1>5, <2>1, MadeCon
  <2>3. ASSUME NEW k \in JobsOf(s) PROVE RowOf(k)'
    <3>1. k \in ready \cup Eligible(r) => dbJob[k].con \in {"none", "cancelled"}
      BY <1>2, <2>1, <2>2, OneRunEach DEF RowOf
    <3>2. \/ pc'[k] = pc[k] \/ pc'[k] = "idle"
          \/ pc'[k] = "secrets" /\ dbJob[k].con \in {"none", "cancelled"}
      BY <1>1, <3>1, OneRunEach
    <3>3. k \in ready' => dbJob[k].con \in {"none", "cancelled"}
      BY <1>1, <3>1
    <3> QED
      BY <1>3, <2>1, <3>2, <3>3, RowStays, OneRunEach
  <2>4. CASE s # r
    <3>1. \A k \in JobsOf(s) : k \in enq' <=> k \in enq
      BY <1>2, <2>4, OneRunEach
    <3>2. \A k \in JobsOf(s) :
            /\ k \in enq' => k \in enq \/ JobsOf(s) \cap enq # {}
            /\ k \in enq => k \in enq'
            /\ mem'[k].st = "none" => mem[k].st = "none"
            /\ k \notin enq' => dbJob'[k] = dbJob[k]
      BY <3>1
    <3>3. make'[s] = make[s] \/ make'[s].pc = "idle"
      BY DEF NoMake
    <3> QED
      BY <2>1, <2>3, <3>2, <3>3, MadeStays
  <2>5. CASE s = r
    <3>1. make'[r].pc = "idle" /\ \A k \in JobsOf(r) : mem'[k].st # "none"
      BY <1>5, <2>5
    <3>2. \A k \in JobsOf(r) : k \notin enq' => dbJob'[k].con = "none"
      BY <1>2, <1>5, <2>1, <2>5, MadeCon
    <3>3. Made(s)'
      BY <2>5, <3>1, <3>2, Zenon DEF Made, JobsOf
    <3> QED
      BY <2>3, <3>3
  <2> QED
    BY <2>3, <2>4, <2>5
<1>6. RowsInv'
  BY <1>4, <1>5 DEF RowsInv, NoMake, JobsOf
<1>7. ASSUME NEW s \in Runs, dbRun'[s] = Completed("success"), NEW k \in JobsOf(s)
      PROVE  Shut(k)' /\ Green(k)'
  <2>1. CASE dbRun'[s] = dbRun[s]
    BY <1>3, <1>7, <2>1, OneRunEach DEF GreenInv, ShutsStay, Green, Tolerated, NeverSkipped
  <2>2. CASE dbRun'[s] # dbRun[s]
    <3>1. s = r /\ AllCompleted(r) /\ Verdict(r, flags) = "success"
      BY <1>7, <2>2 DEF Advance, FinishRun, Completed, TypeOK, StoredTypes
    <3>2. ~flags[r].cancelled
      BY <3>1 DEF Verdict
    <3>3. \A l \in JobsOf(r) : RowOf(l) /\ mem[l].st # "none"
      BY <3>2 DEF RowsInv
    <3>4. Over(k) /\ Green(k) /\ dbJob[k].st = "completed"
      BY <1>7, <3>1, <3>3, VerdictGreen
    <3>5. RunOf[k] = r /\ k \in Jobs /\ ~st[r].cancelled
      BY <1>7, <3>1, <3>2, OneRunEach
    <3>6. Over(k)'
      BY <1>3, <3>4, <3>5 DEF OversStay
    <3>7. Shut(k)'
      BY <1>7, <3>1, <3>2, <3>4, <3>5, <3>6 DEF Shut, Over, Completed, NoRow
    <3> QED
      BY <3>4, <3>7 DEF Green, Tolerated, NeverSkipped
  <2> QED
    BY <2>1, <2>2
<1>8. GreenInv'
  BY <1>7 DEF GreenInv, JobsOf
<1> QED
  BY <1>3, <1>6, <1>8

(* -------------------------- fail-fast, cancel ------------------------- *)

LEMMA LoopRows ==
  ASSUME TypeOK, SlotInv, MakeInv, RowsInv, GreenInv,
         NEW x \in Skippers, NEW at, NEW flags \in [Runs -> Flags],
         LoopOn(x, at, flags), UNCHANGED <<mem, ret, out, make>>,
         \A s \in Runs : ~flags[s].cancelled => ~st[s].cancelled,
         x \in Runs => flags[x].cancelled,
         x \in Jobs => /\ pc[x] \in {"reported", "failFast"} /\ flags = st
                       /\ st[RunOf[x]].cancelled \/ out[x] = "failure"
  PROVE  RowsInv' /\ OversStay /\ ShutsStay /\ GreenInv'
<1> DEFINE queued == {k \in {l \in Scope(x) : l > at} : mem[k].st = "queued"}
<1>1. x \in Jobs => x \notin Runs /\ x \in enq /\ x \notin ready /\ RunOf[x] \in Runs
  BY OneRunEach, ConstantsAssumption DEF SlotInv, Busy
<1>2. CASE queued = {}
  <2>1. /\ skip' = [skip EXCEPT ![x] = NoSkip] /\ UNCHANGED dbJob
        /\ IF x \in Runs THEN Advance(x, {}, flags) ELSE Advance(RunOf[x], {x}, st)
    BY <1>2 DEF LoopOn, JobEnds
  <2>2. \A s \in Runs : skip'[s].pc # "idle" => skip[s].pc # "idle" /\ flags[s].cancelled
    <3> SUFFICES ASSUME NEW s \in Runs, skip'[s].pc # "idle"
                 PROVE  skip[s].pc # "idle" /\ flags[s].cancelled
      OBVIOUS
    <3>1. s # x /\ skip'[s] = skip[s]
      BY <2>1 DEF NoSkip, TypeOK, RunTypes, Skippers
    <3>2. st[s].cancelled
      BY <3>1 DEF RowsInv
    <3> QED
      BY <3>1, <3>2 DEF TypeOK, RunTypes, Flags
  <2>3. CASE x \in Runs
    <3>1. Advance(x, {}, flags) /\ flags[x].cancelled
      BY <2>1, <2>3
    <3> QED
      BY <2>1, <2>2, <2>3, <3>1, AdvanceRows
  <2>4. CASE x \in Jobs
    <3>1. Advance(RunOf[x], {x}, st) /\ flags = st
      BY <1>1, <2>1, <2>4
    <3>2. JobsOf(RunOf[x]) \cap enq # {}
      BY <1>1, <2>4, OneRunEach
    <3>3. ~st[RunOf[x]].cancelled =>
            make[RunOf[x]].pc = "idle" /\ \A k \in JobsOf(RunOf[x]) : mem[k].st # "none"
      BY <1>1, <2>4, OneRunEach DEF RowsInv, Made
    <3>4. make' = make
      OBVIOUS
    <3> QED
      BY <1>1, <2>1, <2>2, <2>4, <3>1, <3>2, <3>3, <3>4, AdvanceRows
  <2> QED
    BY <2>3, <2>4 DEF Skippers
<1>3. CASE queued # {}
  <2> DEFINE q == First(queued)
  <2>1. q \in Scope(x) /\ q \in Jobs /\ mem[q].st = "queued"
    BY <1>3, FirstIn, ScopeOfJobs
  <2>2. /\ skip' = [skip EXCEPT ![x] = [pc |-> "update", at |-> q]]
        /\ enq' = enq \cup {q} /\ ready' = ready \ {q}
        /\ dbJob' = [dbJob EXCEPT ![q] = Completed("cancelled")]
        /\ pc' = (IF x \in Runs THEN pc ELSE [pc EXCEPT ![x] = "failFast"])
        /\ st' = flags /\ UNCHANGED dbRun
    BY <1>3 DEF LoopOn
  <2> HIDE DEF q
  <2>3. /\ \A k \in Jobs : k # x => pc'[k] = pc[k]
        /\ x \in Jobs => pc'[x] = "failFast"
        /\ \A k \in Jobs : k # q => dbJob'[k] = dbJob[k]
        /\ dbJob'[q] = Completed("cancelled")
    BY <1>1, <2>1, <2>2, ConstantsAssumption DEF TypeOK, SlotTypes, StoredTypes, Skippers
  <2>4. OversStay
    BY <2>1, <2>2, <2>3 DEF OversStay, Over, Resting
  <2>5. ShutsStay
    BY <2>1, <2>2, <2>3 DEF ShutsStay, Shut, Resting
  <2>6. GreenInv'
    BY <2>2, <2>5, OneRunEach
    DEF GreenInv, ShutsStay, Green, Tolerated, NeverSkipped, JobsOf
  <2>7. ASSUME NEW k \in Jobs, ~flags[RunOf[k]].cancelled
        PROVE  RowOf(k)'
    <3>1. RowOf(k) /\ ~st[RunOf[k]].cancelled
      BY <1>3, <2>7, OneRunEach DEF RowsInv
    <3>2. CASE k # q /\ k # x
      <4>1. k \in ready' => dbJob[k].con \in {"none", "cancelled"}
        BY <2>2, <3>1 DEF RowOf
      <4> QED
        BY <2>3, <2>4, <3>1, <3>2, <4>1, RowStays
    <3>3. CASE k = x
      <4>1. k # q /\ mem[k].st = "completed" /\ mem[k].con \in {out[k], "cancelled"}
        BY <2>1, <3>1, <3>3 DEF RowOf
      <4>2. Overtaken(k) => Overtaken(k)'
        BY <2>3, <2>4, <3>1, <4>1, OvertakenStays
      <4>3. Over(k) => Over(k)'
        BY <2>2, <2>3, <3>3 DEF Over, Resting
      <4>4. k \notin ready' /\ pc'[k] = "failFast" /\ out[k] = "failure"
        BY <1>1, <2>2, <2>3, <3>1, <3>3
      <4> QED
        BY <2>3, <3>1, <4>1, <4>2, <4>3, <4>4 DEF RowOf, Working, Passed
    <3>4. CASE k = q /\ k # x
      <4>1. x \in Jobs /\ RunOf[x] = RunOf[k] /\ k \in Legs[x]
        BY <2>1, <2>7, <3>4, OneRunEach DEF Scope, Present, Skippers
      <4>2. RowOf(x)
        BY <3>1, <4>1, OneRunEach DEF RowsInv
      <4>3. mem[x].st = "completed" /\ mem[x].con \in {"failure", "cancelled"}
        BY <3>1, <4>1, <4>2 DEF RowOf
      <4>4. Over(x)'
        BY <1>1, <2>2, <2>3, <4>1, <4>3 DEF Over, Resting
      <4>5. pc'[k] = pc[k] /\ mem[k].st = "queued" /\ k \notin ready'
        BY <2>1, <2>2, <2>3, <3>4
      <4>6. pc[k] = "report" => Overtaken(k)' /\ Passed(k, out[k])
        <5>1. pc[k] = "report" => ~NeverSkipped(k) /\ Passed(k, out[k])
          BY <3>1, <4>5 DEF RowOf
        <5> QED
          BY <2>3, <3>4, <4>1, <4>3, <4>4, <5>1 DEF Overtaken, NeverSkipped
      <4>7. dbJob'[k] = Completed("cancelled")
        BY <2>3, <3>4
      <4>8. Unfinished(dbJob[k])'
        BY <4>7 DEF Unfinished, Completed
      <4> QED
        BY <3>1, <4>5, <4>6, <4>7, <4>8
        DEF RowOf, Passed, NeverSkipped, Unfinished, Completed
    <3> QED
      BY <3>2, <3>3, <3>4
  <2>8. ASSUME NEW s \in Runs, ~flags[s].cancelled
        PROVE  Made(s)'
    <3>1. Made(s)
      BY <2>8 DEF RowsInv
    <3>2. q \in JobsOf(s) => JobsOf(s) \cap enq # {}
      BY <1>1, <2>1, <2>8, OneRunEach DEF Scope, Present, Skippers
    <3>3. \A k \in JobsOf(s) :
            /\ k \in enq' => k \in enq \/ JobsOf(s) \cap enq # {}
            /\ k \in enq => k \in enq'
            /\ mem'[k].st = "none" => mem[k].st = "none"
            /\ k \notin enq' => dbJob'[k] = dbJob[k]
      BY <2>2, <2>3, <3>2, OneRunEach
    <3> QED
      BY <3>1, <3>3, MadeStays
  <2>9. \A s \in Runs : skip'[s].pc # "idle" => flags[s].cancelled
    <3> SUFFICES ASSUME NEW s \in Runs, skip'[s].pc # "idle", s # x
                 PROVE  flags[s].cancelled
      OBVIOUS
    <3>1. skip'[s] = skip[s]
      BY <2>2 DEF TypeOK, RunTypes, Skippers
    <3>2. st[s].cancelled
      BY <3>1 DEF RowsInv
    <3> QED
      BY <3>2 DEF TypeOK, RunTypes, Flags
  <2>10. RowsInv'
    BY <2>2, <2>7, <2>8, <2>9, OneRunEach DEF RowsInv, JobsOf
  <2> QED
    BY <2>4, <2>5, <2>6, <2>10
<1> QED
  BY <1>2, <1>3

(* ------------------------------- runJob ------------------------------ *)

\* A step of one runJob that is not its last.
LEMMA WorkStays ==
  ASSUME TypeOK, SlotInv, NEW j \in Jobs, pc[j] \notin Resting,
         NEW to \in Pcs, Goto(j, to), UNCHANGED make,
         \A r \in Runs : dbRun[r] # NoRow => dbRun'[r] # NoRow,
         \A k \in Jobs : k # j => mem'[k] = mem[k] /\ dbJob'[k] = dbJob[k]
  PROVE  OversStay /\ ShutsStay
<1>1. /\ \A k \in Jobs : k # j => pc'[k] = pc[k]
      /\ UNCHANGED <<enq, ready>>
  BY DEF Goto, TypeOK, SlotTypes
<1>2. OversStay
  BY <1>1 DEF OversStay, Over
<1>3. ShutsStay
  BY <1>1, OneRunEach DEF ShutsStay, Shut
<1> QED
  BY <1>2, <1>3

LEMMA WorkRows ==
  ASSUME TypeOK, SlotInv, RowsInv, NEW j \in Jobs, pc[j] \notin Resting,
         NEW to \in Pcs, Goto(j, to), UNCHANGED <<make, skip>>, OversStay,
         \A r \in Runs : st'[r].cancelled = st[r].cancelled,
         \A k \in Jobs : k # j => /\ mem'[k] = mem[k] /\ dbJob'[k] = dbJob[k]
                                  /\ ret'[k] = ret[k] /\ out'[k] = out[k],
         ~st[RunOf[j]].cancelled /\ RowOf(j) =>
           RowOf(j)' /\ (mem'[j].st = "none" => mem[j].st = "none")
  PROVE  RowsInv'
<1>1. /\ \A k \in Jobs : k # j => pc'[k] = pc[k]
      /\ UNCHANGED <<enq, ready>>
  BY DEF Goto, TypeOK, SlotTypes
<1>2. j \in enq
  BY DEF SlotInv, Busy, Resting
<1>3. ASSUME NEW r \in Runs, ~st[r].cancelled
      PROVE  Made(r)' /\ \A k \in JobsOf(r) : RowOf(k)'
  <2>1. Made(r) /\ \A k \in JobsOf(r) : RowOf(k)
    BY <1>3 DEF RowsInv
  <2>2. ASSUME NEW k \in JobsOf(r)
        PROVE  RowOf(k)' /\ (mem'[k].st = "none" => mem[k].st = "none")
    <3>1. k \in Jobs /\ RunOf[k] = r /\ RowOf(k)
      BY <2>1, OneRunEach
    <3>2. CASE k = j
      BY <1>3, <3>1, <3>2
    <3>3. CASE k # j
      <4>1. k \in ready' => dbJob[k].con \in {"none", "cancelled"}
        BY <1>1, <3>1 DEF RowOf
      <4> QED
        BY <1>1, <1>3, <3>1, <3>3, <4>1, RowStays
    <3> QED
      BY <3>2, <3>3
  <2>3. \A k \in JobsOf(r) :
          /\ k \in enq' => k \in enq \/ JobsOf(r) \cap enq # {}
          /\ k \in enq => k \in enq'
          /\ mem'[k].st = "none" => mem[k].st = "none"
          /\ k \notin enq' => dbJob'[k] = dbJob[k]
    BY <1>1, <1>2, <2>2, OneRunEach
  <2>4. Made(r)'
    BY <2>1, <2>3, MadeStays
  <2> QED
    BY <2>2, <2>4
<1> QED
  BY <1>3 DEF RowsInv, JobsOf

\* Only 'always' and a default `if` without needs let a job run in any case.
LEMMA TurnedAway ==
  ASSUME NEW j \in Jobs, ~st[RunOf[j]].cancelled, ~Wanted(j)
  PROVE  ~NeverSkipped(j)
<1>1. Cond[j] # "always" /\ Cond[j] # Worst(j)
  BY DEF Wanted
<1>2. Needs[j] = {} => Worst(j) = "success"
  BY DEF Worst
<1> QED
  BY <1>1, <1>2 DEF NeverSkipped

LEMMA DecideRows ==
  ASSUME TypeOK, SlotInv, MakeInv, RowsInv, GreenInv, NEW j \in Jobs, Decide(j)
  PROVE  RowsInv' /\ OversStay /\ ShutsStay /\ GreenInv'
<1>1. pc[j] = "secrets" /\ pc[j] \notin Resting /\ j \in enq
  BY DEF Decide, Resting, SlotInv, Busy
<1>2. CASE mem[j].st = "completed"
  <2>1. Advance(RunOf[j], {j}, st) /\ UNCHANGED <<mem, ret, dbJob, out, make, skip>>
    BY <1>2 DEF Decide, JobEnds, job
  <2>2. ~st[RunOf[j]].cancelled =>
          make[RunOf[j]].pc = "idle" /\ \A k \in JobsOf(RunOf[j]) : mem[k].st # "none"
    BY <1>1, OneRunEach DEF RowsInv, Made
  <2>3. st \in [Runs -> Flags] /\ \A s \in Runs : skip[s].pc # "idle" => st[s].cancelled
    BY DEF TypeOK, RunTypes, RowsInv
  <2>4. JobsOf(RunOf[j]) \cap enq # {}
    BY <1>1, OneRunEach
  <2> QED
    BY <2>1, <2>2, <2>3, <2>4, AdvanceRows, OneRunEach
<1>3. CASE mem[j].st # "completed"
  <2>1. UNCHANGED <<dbRun, st, mem, make, skip>>
    BY <1>3 DEF Decide
  <2>2. CASE Wanted(j)
    <3>1. /\ dbJob' = [dbJob EXCEPT ![j] = [@ EXCEPT !.st = "running"]]
          /\ ret' = [ret EXCEPT ![j] = dbJob'[j]]
          /\ Goto(j, "running") /\ UNCHANGED out
      BY <1>3, <2>2 DEF Decide
    <3>2. /\ dbJob'[j].st = "running" /\ dbJob'[j].con = dbJob[j].con
          /\ ret'[j] = dbJob'[j] /\ pc'[j] = "running" /\ UNCHANGED ready
          /\ \A k \in Jobs : k # j => dbJob'[k] = dbJob[k] /\ ret'[k] = ret[k]
      BY <3>1 DEF Goto, TypeOK, StoredTypes, JobTypes, SlotTypes, Row
    <3>3. OversStay /\ ShutsStay
      BY <1>1, <2>1, <3>1, <3>2, WorkStays DEF Pcs
    <3>4. RowOf(j) => RowOf(j)'
      BY <1>1, <1>3, <2>1, <3>2 DEF RowOf, Working, Unfinished, SlotInv, Busy
    <3>5. RowsInv'
      BY <1>1, <2>1, <3>1, <3>2, <3>3, <3>4, WorkRows DEF Pcs
    <3>6. GreenInv'
      BY <2>1, <3>3, OneRunEach
      DEF GreenInv, ShutsStay, Green, Tolerated, NeverSkipped, JobsOf
    <3> QED
      BY <3>3, <3>5, <3>6
  <2>3. CASE ~Wanted(j)
    <3>1. /\ out' = [out EXCEPT ![j] = IF st[RunOf[j]].cancelled THEN "cancelled"
                                       ELSE IF Cond[j] = "invalid" THEN "failure"
                                       ELSE "skipped"]
          /\ Goto(j, "finish") /\ UNCHANGED <<dbJob, ret>>
      BY <1>3, <2>3 DEF Decide
    <3>2. /\ ~st[RunOf[j]].cancelled => Passed(j, out'[j]) /\ out'[j] \in Conclusions
          /\ pc'[j] = "finish" /\ UNCHANGED ready
          /\ \A k \in Jobs : k # j => out'[k] = out[k]
      BY <3>1 DEF Goto, Passed, Conclusions, TypeOK, JobTypes, SlotTypes
    <3>3. OversStay /\ ShutsStay
      BY <1>1, <2>1, <3>1, WorkStays DEF Pcs
    <3>4. ~st[RunOf[j]].cancelled /\ RowOf(j) => RowOf(j)'
      <4>1. ~st[RunOf[j]].cancelled => ~NeverSkipped(j)
        BY <2>3, TurnedAway
      <4>2. j \notin ready
        BY <1>1 DEF SlotInv, Busy
      <4> QED
        BY <1>3, <2>1, <3>1, <3>2, <4>1, <4>2 DEF RowOf, Working, Passed, NeverSkipped
    <3>5. RowsInv'
      BY <1>1, <2>1, <3>1, <3>2, <3>3, <3>4, WorkRows DEF Pcs
    <3>6. GreenInv'
      BY <2>1, <3>1, <3>3, OneRunEach
      DEF GreenInv, ShutsStay, Green, Tolerated, NeverSkipped, JobsOf
    <3> QED
      BY <3>3, <3>5, <3>6
  <2> QED
    BY <2>2, <2>3
<1> QED
  BY <1>2, <1>3

LEMMA GreenStays ==
  ASSUME GreenInv, ShutsStay,
         \A r \in Runs : dbRun'[r] = Completed("success") => dbRun[r] = Completed("success")
  PROVE  GreenInv'
<1>1. ASSUME NEW r \in Runs, dbRun'[r] = Completed("success"), NEW k \in JobsOf(r)
      PROVE  Shut(k)' /\ Green(k)'
  <2>1. Shut(k) /\ Green(k) /\ k \in Jobs
    BY <1>1, OneRunEach DEF GreenInv
  <2>2. Shut(k)' /\ dbJob'[k] = dbJob[k]
    BY <2>1 DEF ShutsStay
  <2> QED
    BY <2>1, <2>2 DEF Green, Tolerated, NeverSkipped
<1> QED
  BY <1>1 DEF GreenInv, JobsOf

\* MarkRun does not conclude a run.
LEMMA MarkKeepsRuns ==
  ASSUME TypeOK, NEW r \in Runs,
         dbRun' = dbRun \/ dbRun' = [dbRun EXCEPT ![r].st = "running"]
  PROVE  /\ \A s \in Runs : dbRun[s] # NoRow => dbRun'[s] # NoRow
         /\ \A s \in Runs : dbRun'[s] = Completed("success") =>
              dbRun[s] = Completed("success")
<1>1. dbRun' = dbRun \/ dbRun'[r].st = "running"
  BY DEF TypeOK, StoredTypes, Row
<1>2. \A s \in Runs : s # r => dbRun'[s] = dbRun[s]
  BY DEF TypeOK, StoredTypes
<1> QED
  BY <1>1, <1>2 DEF NoRow, Completed

\* The steps between claiming a job and concluding it.
LEMMA MiddleRow ==
  ASSUME TypeOK, SlotInv, NEW j \in Jobs, RowOf(j),
         \/ MarkRun(j) \/ RunMarked(j) \/ StartBox(j) \/ StepStart(j)
         \/ StepEnd(j) \/ Destroy(j)
  PROVE  RowOf(j)' /\ (mem'[j].st = "none" => mem[j].st = "none")
<1>1. pc[j] \in Working /\ pc[j] \notin Resting
  BY DEF MarkRun, RunMarked, StartBox, StepStart, StepEnd, Destroy, Working, Resting
<1>2. Unfinished(dbJob[j]) /\ Unfinished(ret[j]) /\ dbJob'[j] = dbJob[j]
  BY <1>1 DEF RowOf, MarkRun, RunMarked, StartBox, StepStart, StepEnd, Destroy, db
<1>3. ret'[j] = ret[j] \/ ret'[j] = dbJob[j]
  BY DEF MarkRun, RunMarked, StartBox, StepStart, StepEnd, Destroy, job, TypeOK, JobTypes
<1>4. \/ pc[j] = "running" /\ mem'[j] = ret[j]
      \/ pc[j] # "running" /\ (mem'[j] = mem[j] \/ mem'[j] = ret[j])
  BY DEF MarkRun, RunMarked, StartBox, StepStart, StepEnd, Destroy, job, Adopt,
     TypeOK, JobTypes
<1>5. /\ mem'[j].st \in {"running", "completed"} \/ (pc[j] # "running" /\ mem'[j] = mem[j])
      /\ mem'[j].st = "completed" => mem'[j].con = "cancelled"
      /\ mem'[j].st # "completed" => mem'[j].con \in {"none", "cancelled"}
      /\ mem'[j].st # "queued"
  BY <1>1, <1>2, <1>4 DEF RowOf, Unfinished, Over
<1>6. j \notin ready' /\ pc'[j] \in (Working \ {"running"}) \cup {"finish"}
  BY <1>1 DEF MarkRun, RunMarked, StartBox, StepStart, StepEnd, Destroy, Goto, Working,
     SlotInv, Busy, Resting, TypeOK, SlotTypes
<1>7. pc'[j] \in {"saved", "finish"} => out'[j] \in Conclusions
  <2>1. CASE out' = out
    BY <2>1, <1>6 DEF MarkRun, RunMarked, StartBox, StepStart, StepEnd, Destroy, Goto,
       RowOf, TypeOK, SlotTypes, JobTypes, Conclusions, Stopped
  <2>2. CASE \E o \in Conclusions : out' = [out EXCEPT ![j] = o]
    BY <2>2 DEF TypeOK, JobTypes
  <2>3. out' = out \/ \E o \in Conclusions : out' = [out EXCEPT ![j] = o]
    BY StoppedTyped DEF MarkRun, RunMarked, StartBox, StepStart, StepEnd, Destroy, job,
       Conclusions
  <2> QED
    BY <2>1, <2>2, <2>3
<1>8. Unfinished(ret[j])' /\ Unfinished(dbJob[j])'
  BY <1>2, <1>3 DEF Unfinished
<1> QED
  BY <1>4, <1>5, <1>6, <1>7, <1>8 DEF RowOf, Working

LEMMA MiddleRows ==
  ASSUME TypeOK, SlotInv, RowsInv, GreenInv, NEW j \in Jobs,
         \/ MarkRun(j) \/ RunMarked(j) \/ StartBox(j) \/ StepStart(j)
         \/ StepEnd(j) \/ Destroy(j)
  PROVE  RowsInv' /\ OversStay /\ ShutsStay /\ GreenInv'
<1>1. PICK to \in {"runMark", "setup", "steps", "exec", "saved", "finish"} : Goto(j, to)
  BY DEF MarkRun, RunMarked, StartBox, StepStart, StepEnd, Destroy
<1>2. to \in Pcs /\ pc[j] \notin Resting
  BY DEF Pcs, MarkRun, RunMarked, StartBox, StepStart, StepEnd, Destroy, Resting
<1>3. /\ UNCHANGED <<dbJob, make, skip>>
      /\ dbRun' = dbRun \/ dbRun' = [dbRun EXCEPT ![RunOf[j]].st = "running"]
  BY DEF MarkRun, RunMarked, StartBox, StepStart, StepEnd, Destroy, db
<1>4. \A r \in Runs : st'[r].cancelled = st[r].cancelled
  BY DEF MarkRun, RunMarked, StartBox, StepStart, StepEnd, Destroy, TypeOK, RunTypes, Flags
<1>5. \A k \in Jobs : k # j => mem'[k] = mem[k] /\ ret'[k] = ret[k] /\ out'[k] = out[k]
  BY DEF MarkRun, RunMarked, StartBox, StepStart, StepEnd, Destroy, job, Adopt,
     TypeOK, JobTypes
<1>6. OversStay /\ ShutsStay
  BY <1>1, <1>2, <1>3, <1>5, MarkKeepsRuns, OneRunEach, WorkStays
<1>7. RowOf(j) => RowOf(j)' /\ (mem'[j].st = "none" => mem[j].st = "none")
  BY MiddleRow
<1>8. RowsInv'
  BY <1>1, <1>2, <1>3, <1>4, <1>5, <1>6, <1>7, WorkRows
<1>9. GreenInv'
  BY <1>3, <1>6, MarkKeepsRuns, OneRunEach, GreenStays
<1> QED
  BY <1>6, <1>8, <1>9

LEMMA ReportRows ==
  ASSUME TypeOK, SlotInv, RowsInv, GreenInv, NEW j \in Jobs, FinishJob(j) \/ Report(j)
  PROVE  RowsInv' /\ OversStay /\ ShutsStay /\ GreenInv'
<1>1. PICK to \in {"report", "reported"} : Goto(j, to)
  BY DEF FinishJob, Report
<1>2. /\ to \in Pcs /\ pc[j] \in {"finish", "report"} /\ pc[j] \notin Resting
      /\ j \in enq /\ j \notin ready
  BY DEF Pcs, FinishJob, Report, Resting, SlotInv, Busy
<1>3. /\ UNCHANGED <<dbRun, st, make, skip, out>>
      /\ pc'[j] = to /\ UNCHANGED <<enq, ready>>
  BY <1>1 DEF FinishJob, Report, Goto, TypeOK, SlotTypes
<1>4. \A k \in Jobs : k # j => mem'[k] = mem[k] /\ dbJob'[k] = dbJob[k] /\ ret'[k] = ret[k]
  BY DEF FinishJob, Report, Adopt, TypeOK, JobTypes, StoredTypes
<1>5. OversStay /\ ShutsStay
  BY <1>1, <1>2, <1>3, <1>4, WorkStays
<1>6. ASSUME ~st[RunOf[j]].cancelled, RowOf(j)
      PROVE  RowOf(j)' /\ (mem'[j].st = "none" => mem[j].st = "none")
  <2>1. ~(mem[j].st = "completed" /\ mem[j].con # "cancelled")
    BY <1>2, <1>6 DEF RowOf, Over
  <2>2. CASE FinishJob(j)
    <3>1. /\ dbJob'[j] = Completed(out[j]) /\ ret'[j] = Completed(out[j])
          /\ mem' = mem /\ pc'[j] = "report" /\ pc[j] = "finish"
      BY <2>2 DEF FinishJob, Goto, TypeOK, JobTypes, StoredTypes, SlotTypes
    <3> QED
      BY <1>2, <1>3, <1>6, <2>1, <3>1 DEF RowOf, Working, NeverSkipped, Passed
  <2>3. CASE Report(j)
    <3>1. mem'[j] = ret[j] /\ dbJob' = dbJob /\ pc'[j] = "reported" /\ pc[j] = "report"
      BY <2>3 DEF Report, Adopt, Goto, TypeOK, JobTypes, SlotTypes
    <3>2. mem'[j] = Completed(out[j]) /\ out[j] \in Conclusions
      BY <1>6, <3>1 DEF RowOf
    <3>3. Over(j)'
      BY <1>2, <1>3, <3>1, <3>2 DEF Over, Resting, Completed
    <3>4. Overtaken(j) => Overtaken(j)'
      BY <1>5, <1>6, <3>1, OvertakenStays
    <3>5. dbJob'[j] = mem'[j] \/ (Overtaken(j)' /\ Passed(j, out[j]))
      BY <1>6, <3>1, <3>2, <3>4 DEF RowOf
    <3> QED
      BY <1>2, <1>3, <3>1, <3>2, <3>3, <3>5 DEF RowOf, Working, Completed, Passed
  <2> QED
    BY <2>2, <2>3
<1>7. RowsInv'
  BY <1>1, <1>2, <1>3, <1>4, <1>5, <1>6, WorkRows
<1>8. GreenInv'
  BY <1>3, <1>5, GreenStays
<1> QED
  BY <1>5, <1>7, <1>8

\* A runJob that ends, as planned or on a rejected query.
LEMMA EndRows ==
  ASSUME TypeOK, SlotInv, MakeInv, RowsInv, GreenInv, NEW j \in Busy, JobEnds(j),
         UNCHANGED <<mem, ret, dbJob, out, make>>,
         \A s \in Runs : skip'[s].pc # "idle" => skip[s].pc # "idle"
  PROVE  RowsInv' /\ OversStay /\ ShutsStay /\ GreenInv'
<1>1. j \in Jobs /\ j \in enq /\ RunOf[j] \in Runs /\ j \in JobsOf(RunOf[j])
  BY OneRunEach DEF SlotInv, Busy
<1>2. ~st[RunOf[j]].cancelled =>
        make[RunOf[j]].pc = "idle" /\ \A k \in JobsOf(RunOf[j]) : mem[k].st # "none"
  BY <1>1 DEF RowsInv, Made
<1>3. st \in [Runs -> Flags] /\ \A s \in Runs : skip[s].pc # "idle" => st[s].cancelled
  BY DEF TypeOK, RunTypes, RowsInv
<1> QED
  BY <1>1, <1>2, <1>3, AdvanceRows DEF JobEnds

LEMMA JobRows ==
  ASSUME TypeOK, SlotInv, MakeInv, RowsInv, GreenInv, NEW j \in Jobs,
         JobStep(j) \/ JobFault(j)
  PROVE  RowsInv' /\ OversStay /\ ShutsStay /\ GreenInv'
<1>1. CASE JobOver(j)
  <2>1. /\ j \in Skippers /\ j \in Busy /\ pc[j] = "reported" /\ j \notin Runs
        /\ st \in [Runs -> Flags] /\ UNCHANGED <<mem, ret, out, make>>
    BY <1>1, ConstantsAssumption DEF JobOver, Skippers, Busy, TypeOK, RunTypes
  <2>2. CASE out[j] = "failure" /\ LoopOn(j, 0, st)
    BY <2>1, <2>2, LoopRows
  <2>3. CASE JobEnds(j) /\ UNCHANGED <<dbJob, ctl, skip>>
    BY <2>1, <2>3, EndRows
  <2> QED
    BY <1>1, <2>2, <2>3 DEF JobOver
<1>2. CASE JobFault(j)
  <2>1. j \in Busy /\ JobEnds(j) /\ UNCHANGED <<mem, ret, dbJob, out, make, skip>>
    BY <1>2 DEF JobFault, Busy, job
  <2> QED
    BY <2>1, EndRows
<1> QED
  BY <1>1, <1>2, DecideRows, MiddleRows, ReportRows DEF JobStep

(* ---------------------------- skipQueued ------------------------------ *)

LEMMA AdoptRows ==
  ASSUME TypeOK, SlotInv, RowsInv, GreenInv, NEW x \in Skippers, SkipAdopt(x)
  PROVE  RowsInv' /\ OversStay /\ ShutsStay /\ GreenInv'
<1>1. PICK q \in Jobs :
      /\ mem' = [mem EXCEPT ![q] = Completed("cancelled")]
      /\ skip' = [skip EXCEPT ![x].pc = "status"] /\ skip[x].pc = "update"
      /\ UNCHANGED <<dbRun, dbJob, ret, out, pc, enq, ready, st, make>>
  BY DEF SkipAdopt, TypeOK, RunTypes, slots
<1>2. /\ mem'[q] = Completed("cancelled")
      /\ \A k \in Jobs : k # q => mem'[k] = mem[k]
  BY <1>1 DEF TypeOK, JobTypes
<1>3. OversStay
  BY <1>1, <1>2 DEF OversStay, Over, Completed
<1>4. ShutsStay
  BY <1>1, <1>2, OneRunEach DEF ShutsStay, Shut, Completed
<1>5. GreenInv'
  BY <1>1, <1>4, GreenStays
<1>6. ASSUME NEW r \in Runs, ~st[r].cancelled
      PROVE  Made(r)' /\ \A k \in JobsOf(r) : RowOf(k)'
  <2>1. Made(r) /\ \A k \in JobsOf(r) : RowOf(k) /\ ~st[RunOf[k]].cancelled
    BY <1>6, OneRunEach DEF RowsInv
  <2>2. Made(r)'
    BY <1>1, <1>2, <2>1, MadeStays, OneRunEach DEF Completed
  <2>3. ASSUME NEW k \in JobsOf(r), k # q PROVE RowOf(k)'
    <3>1. k \in Jobs /\ (k \in ready => dbJob[k].con \in {"none", "cancelled"})
      BY <2>1, OneRunEach DEF RowOf
    <3> QED
      BY <1>1, <1>2, <1>3, <2>1, <2>3, <3>1, RowStays
  <2>4. q \in JobsOf(r) => RowOf(q)'
    <3> SUFFICES ASSUME q \in JobsOf(r) PROVE RowOf(q)'
      OBVIOUS
    <3>1. Overtaken(q) => Overtaken(q)'
      BY <1>1, <1>3, <2>1, OvertakenStays
    <3> QED
      BY <1>1, <1>2, <2>1, <3>1 DEF RowOf, Completed, Passed, NeverSkipped, Unfinished
  <2> QED
    BY <2>2, <2>3, <2>4
<1>7. ASSUME NEW s \in Runs, skip'[s].pc # "idle" PROVE st[s].cancelled
  <2>1. skip[s].pc # "idle"
    BY <1>1, <1>7 DEF TypeOK, RunTypes, Skippers
  <2> QED
    BY <2>1 DEF RowsInv
<1>8. RowsInv'
  BY <1>1, <1>6, <1>7 DEF RowsInv, JobsOf
<1> QED
  BY <1>3, <1>4, <1>5, <1>8

\* A step that changes no job: at most the flags and rows of runs, and only loops end.
LEMMA IdleRows ==
  ASSUME TypeOK, RowsInv, GreenInv,
         UNCHANGED <<mem, ret, dbJob, out, enq, ready, pc>>,
         \A s \in Runs : make'[s] = make[s] \/ make'[s] = NoMake,
         \A s \in Runs : st'[s].cancelled = st[s].cancelled,
         \A s \in Runs : skip'[s].pc # "idle" => skip[s].pc # "idle",
         \A s \in Runs : dbRun[s] # NoRow => dbRun'[s] # NoRow,
         \A s \in Runs : dbRun'[s] = Completed("success") => dbRun[s] = Completed("success")
  PROVE  RowsInv' /\ OversStay /\ ShutsStay /\ GreenInv'
<1>1. OversStay
  BY DEF OversStay, Over
<1>2. ShutsStay
  BY OneRunEach DEF ShutsStay, Shut, NoMake
<1>3. GreenInv'
  BY <1>2, GreenStays
<1>4. ASSUME NEW r \in Runs, ~st[r].cancelled
      PROVE  Made(r)' /\ \A k \in JobsOf(r) : RowOf(k)'
  <2>1. Made(r) /\ \A k \in JobsOf(r) : RowOf(k) /\ ~st[RunOf[k]].cancelled
    BY <1>4, OneRunEach DEF RowsInv
  <2>2. make'[r] = make[r] \/ make'[r].pc = "idle"
    BY DEF NoMake
  <2>3. Made(r)'
    BY <2>1, <2>2, MadeStays
  <2>4. ASSUME NEW k \in JobsOf(r) PROVE RowOf(k)'
    <3>1. k \in Jobs /\ (k \in ready => dbJob[k].con \in {"none", "cancelled"})
      BY <2>1, OneRunEach DEF RowOf
    <3> QED
      BY <1>1, <2>1, <3>1, RowStays
  <2> QED
    BY <2>3, <2>4
<1>5. RowsInv'
  BY <1>4 DEF RowsInv, JobsOf, NoMake
<1> QED
  BY <1>1, <1>2, <1>3, <1>5

LEMMA SkipRows ==
  ASSUME TypeOK, SlotInv, MakeInv, RowsInv, GreenInv, NEW x \in Skippers,
         SkipAdopt(x) \/ SkipNext(x) \/ SkipFault(x)
  PROVE  RowsInv' /\ OversStay /\ ShutsStay /\ GreenInv'
<1>1. /\ st \in [Runs -> Flags]
      /\ x \in Jobs => x \notin Runs
      /\ x \in Jobs /\ skip[x].pc # "idle" => pc[x] = "failFast" /\ x \in Busy
      /\ x \in Runs /\ skip[x].pc # "idle" => st[x].cancelled
  BY ConstantsAssumption DEF TypeOK, RunTypes, SlotInv, Busy, RowsInv
<1>2. CASE SkipNext(x)
  <2>1. /\ LoopOn(x, skip[x].at, st) /\ UNCHANGED <<mem, ret, out, make>>
        /\ skip[x].pc # "idle"
    BY <1>2 DEF SkipNext
  <2>2. x \in Jobs => st[RunOf[x]].cancelled \/ out[x] = "failure"
    BY <1>1, <2>1, OneRunEach DEF RowsInv, RowOf
  <2> QED
    BY <1>1, <2>1, <2>2, LoopRows
<1>3. CASE SkipFault(x)
  <2>1. /\ skip[x].pc # "idle" /\ skip' = [skip EXCEPT ![x] = NoSkip]
        /\ UNCHANGED <<mem, ret, dbJob, out, make>>
        /\ IF x \in Runs THEN UNCHANGED <<slots, dbRun, st>> ELSE JobEnds(x)
    BY <1>3 DEF SkipFault, job
  <2>2. \A s \in Runs : skip'[s].pc # "idle" => skip[s].pc # "idle"
    BY <2>1 DEF NoSkip, TypeOK, RunTypes, Skippers
  <2>3. CASE x \in Runs
    <3>1. UNCHANGED <<dbRun, st, mem, ret, dbJob, out, make, enq, ready, pc>>
      BY <2>1, <2>3 DEF slots
    <3> QED
      BY <2>2, <3>1, IdleRows
  <2>4. CASE x \in Jobs
    BY <1>1, <2>1, <2>2, <2>4, EndRows
  <2> QED
    BY <2>3, <2>4 DEF Skippers
<1> QED
  BY <1>2, <1>3, AdoptRows

LEMMA CancelRows ==
  ASSUME TypeOK, SlotInv, MakeInv, RowsInv, GreenInv, NEW r \in Runs, Cancel(r)
  PROVE  RowsInv' /\ OversStay /\ ShutsStay /\ GreenInv'
<1> DEFINE flags == [st EXCEPT ![r].cancelled = TRUE]
<1>1. /\ LoopOn(r, 0, flags) /\ UNCHANGED <<mem, ret, out, make>>
      /\ r \in Skippers /\ r \notin Jobs
  BY ConstantsAssumption DEF Cancel, Skippers
<1>2. /\ flags \in [Runs -> Flags] /\ flags[r].cancelled
      /\ \A s \in Runs : ~flags[s].cancelled => ~st[s].cancelled
  BY DEF TypeOK, RunTypes, Flags
<1> HIDE DEF flags
<1> QED
  BY <1>1, <1>2, LoopRows

(* ------------------------------ createRun ---------------------------- *)

\* A step of the createRun of one run, while nothing of that run can be shut.
LEMMA CreateRows ==
  ASSUME TypeOK, SlotInv, MakeInv, RowsInv, GreenInv, NEW r \in Runs,
         UNCHANGED <<ret, out, enq, ready, pc, skip>>,
         \A s \in Runs : s # r => make'[s] = make[s] /\ dbRun'[s] = dbRun[s],
         \A s \in Runs : st'[s].cancelled = st[s].cancelled,
         \A k \in Jobs : RunOf[k] # r => mem'[k] = mem[k] /\ dbJob'[k] = dbJob[k],
         make[r].pc # "idle" \/ dbRun[r] = NoRow,
         make'[r].pc \in {"idle", "row"} => make'[r].at = 0,
         dbRun'[r] = Completed("success") => dbRun[r] = Completed("success"),
         (Made(r) /\ \A k \in JobsOf(r) : RowOf(k) /\ k \notin enq) =>
           Made(r)' /\ \A k \in JobsOf(r) :
             \/ mem'[k] = mem[k] /\ dbJob'[k] = dbJob[k]
             \/ mem'[k].con = "cancelled" \/ (mem'[k].st # "completed" /\ mem'[k].con = "none")
  PROVE  RowsInv' /\ OversStay /\ ShutsStay /\ GreenInv'
<1>1. ~st[r].cancelled => \A k \in JobsOf(r) : k \notin enq
  BY OneRunEach DEF RowsInv, Made, MakeInv, Untouched
<1>2. OversStay
  BY <1>1, OneRunEach DEF OversStay, Over
<1>3. ShutsStay
  BY OneRunEach DEF ShutsStay, Shut
<1>4. ASSUME NEW s \in Runs, dbRun'[s] = Completed("success"), NEW k \in JobsOf(s)
      PROVE  Shut(k)' /\ Green(k)'
  <2>1. dbRun[s] = Completed("success")
    BY <1>4
  <2>2. Shut(k) /\ Green(k) /\ k \in Jobs
    BY <1>4, <2>1, OneRunEach DEF GreenInv
  <2>3. Shut(k)' /\ dbJob'[k] = dbJob[k]
    BY <1>3, <2>2 DEF ShutsStay
  <2> QED
    BY <2>2, <2>3 DEF Green, Tolerated, NeverSkipped
<1>5. GreenInv'
  BY <1>4 DEF GreenInv, JobsOf
<1>6. ASSUME NEW s \in Runs, ~st[s].cancelled
      PROVE  Made(s)' /\ \A k \in JobsOf(s) : RowOf(k)'
  <2>1. Made(s) /\ \A k \in JobsOf(s) : RowOf(k) /\ ~st[RunOf[k]].cancelled
    BY <1>6, OneRunEach DEF RowsInv
  <2>2. \A k \in JobsOf(s) : k \in ready => dbJob[k].con \in {"none", "cancelled"}
    BY <2>1, OneRunEach DEF RowOf
  <2>3. CASE s # r
    <3>1. Made(s)'
      BY <2>1, <2>3, OneRunEach, MadeStays
    <3>2. ASSUME NEW k \in JobsOf(s) PROVE RowOf(k)'
      BY <1>2, <2>1, <2>2, <2>3, OneRunEach, RowStays
    <3> QED
      BY <3>1, <3>2
  <2>4. CASE s = r
    <3>1. \A k \in JobsOf(r) : RowOf(k) /\ k \notin enq
      BY <1>1, <1>6, <2>1, <2>4
    <3>2. Made(r)' /\ \A k \in JobsOf(r) :
             \/ mem'[k] = mem[k] /\ dbJob'[k] = dbJob[k]
             \/ mem'[k].con = "cancelled" \/ (mem'[k].st # "completed" /\ mem'[k].con = "none")
      BY <2>1, <2>4, <3>1
    <3>3. ASSUME NEW k \in JobsOf(s) PROVE RowOf(k)'
      <4>1. k \notin enq /\ k \notin ready /\ pc[k] = "idle" /\ k \in Jobs
        BY <2>4, <3>1, <3>3, OneRunEach DEF SlotInv, Busy
      <4>2. CASE mem'[k] = mem[k] /\ dbJob'[k] = dbJob[k]
        BY <1>2, <2>1, <2>2, <4>1, <4>2, OneRunEach, RowStays
      <4>3. CASE mem'[k].con = "cancelled" \/ (mem'[k].st # "completed" /\ mem'[k].con = "none")
        BY <4>1, <4>3 DEF RowOf, Working
      <4> QED
        BY <2>4, <3>2, <4>2, <4>3
    <3>4. Made(s)'
      BY <2>4, <3>2
    <3> QED
      BY <3>3, <3>4
  <2> QED
    BY <2>3, <2>4
<1>7. RowsInv'
  BY <1>6 DEF RowsInv, JobsOf
<1> QED
  BY <1>2, <1>3, <1>5, <1>7

\* The numbers of the jobs a run still has to make.
LEMMA RestIn ==
  ASSUME TypeOK, NEW r \in Runs, Rest(r) # {}
  PROVE  /\ First(Rest(r)) \in JobsOf(r) /\ First(Rest(r)) > make[r].at
         /\ \A k \in JobsOf(r) : k < First(Rest(r)) => k <= make[r].at
<1>1. Rest(r) \subseteq Jobs /\ make[r].at \in Nat
  BY OneRunEach, JobNumbers DEF Rest, TypeOK, RunTypes
<1>2. First(Rest(r)) \in Rest(r) /\ \A k \in Rest(r) : First(Rest(r)) <= k
  BY <1>1, FirstLeast
<1>3. First(Rest(r)) \in Nat /\ \A k \in JobsOf(r) : k \in Nat
  BY <1>1, <1>2, JobNumbers, OneRunEach
<1>4. ASSUME NEW k \in JobsOf(r), k < First(Rest(r)) PROVE k <= make[r].at
  <2>1. k \notin Rest(r)
    BY <1>2, <1>3, <1>4
  <2> QED
    BY <1>1, <1>3, <1>4, <2>1 DEF Rest
<1> QED
  BY <1>2, <1>4 DEF Rest

\* Until all jobs of a run are made nothing but createRun touches them.
LEMMA MakeRows ==
  ASSUME TypeOK, SlotInv, MakeInv, RowsInv, GreenInv, NEW r \in Runs,
         MakeStep(r) \/ MakeFails(r) \/ NewRun(r)
  PROVE  RowsInv' /\ OversStay /\ ShutsStay /\ GreenInv'
<1> USE JobNumbers
<1>1. CASE NewRun(r)
  <2>1. /\ make' = [make EXCEPT ![r].pc = "row"] /\ dbRun' = [dbRun EXCEPT ![r] = Queued]
        /\ dbRun[r] = NoRow /\ UNCHANGED <<dbJob, mem, ret, out, enq, ready, pc, skip, st>>
    BY <1>1 DEF NewRun, job, slots
  <2>2. /\ \A s \in Runs : s # r => make'[s] = make[s] /\ dbRun'[s] = dbRun[s]
        /\ make'[r].pc = "row" /\ make'[r].at = make[r].at /\ dbRun'[r] = Queued
    BY <2>1 DEF TypeOK, StoredTypes, RunTypes
  <2>3. make[r].at = 0
    BY <2>1 DEF MakeInv, RowsInv
  <2>4. Made(r) /\ (\A k \in JobsOf(r) : k \notin enq) => Made(r)'
    BY <2>1, <2>2, OneRunEach DEF Made, JobsOf
  <2> QED
    BY <2>1, <2>2, <2>3, <2>4, CreateRows DEF Queued, Completed
<1>2. CASE MakeJob(r)
  <2> DEFINE q == First(Rest(r))
  <2>1. /\ make' = [make EXCEPT ![r] = [pc |-> "job", at |-> q]]
        /\ dbJob' = [dbJob EXCEPT ![q] = Queued] /\ st' = Enter(r)
        /\ make[r].pc \in {"row", "status"} /\ Rest(r) # {}
        /\ UNCHANGED <<dbRun, mem, ret, out, enq, ready, pc, skip>>
    BY <1>2 DEF MakeJob, job, slots
  <2>2. q \in JobsOf(r) /\ \A k \in JobsOf(r) : k < q => k <= make[r].at
    BY <2>1, RestIn
  <2> HIDE DEF q
  <2>3. /\ \A s \in Runs : s # r => make'[s] = make[s]
        /\ make'[r] = [pc |-> "job", at |-> q] /\ dbJob'[q] = Queued
        /\ \A k \in Jobs : k # q => dbJob'[k] = dbJob[k]
    BY <2>1, <2>2, OneRunEach DEF TypeOK, StoredTypes, RunTypes
  <2>4. \A s \in Runs : st'[s].cancelled = st[s].cancelled
    BY <2>1 DEF Enter, TypeOK, RunTypes, Flags
  <2>5. make[r].pc = "row" => make[r].at = 0
    BY DEF RowsInv
  <2>6. \A k \in JobsOf(r) : k \in Nat /\ k # 0 /\ k \in Jobs
    BY OneRunEach, ConstantsAssumption
  <2>7. ASSUME Made(r), \A k \in JobsOf(r) : RowOf(k) /\ k \notin enq
        PROVE  Made(r)' /\ \A k \in JobsOf(r) :
                 \/ mem'[k] = mem[k] /\ dbJob'[k] = dbJob[k]
                 \/ mem'[k].con = "cancelled"
                    \/ (mem'[k].st # "completed" /\ mem'[k].con = "none")
    <3>1. \A k \in JobsOf(r) : k < q => mem[k].st # "none" /\ dbJob[k].con = "none"
      <4>1. make[r].at \in Nat
        BY JobNumbers DEF TypeOK, RunTypes
      <4> QED
        BY <2>1, <2>2, <2>5, <2>6, <2>7, <4>1 DEF Made
    <3>2. Made(r)'
      BY <2>1, <2>2, <2>3, <2>6, <2>7, <3>1 DEF Made, JobsOf, Queued
    <3>3. mem'[q].con = "cancelled" \/ (mem'[q].st # "completed" /\ mem'[q].con = "none")
      BY <2>1, <2>2, <2>7 DEF RowOf, Over
    <3> QED
      BY <2>1, <2>3, <2>6, <3>2, <3>3
  <2> QED
    BY <2>1, <2>2, <2>3, <2>4, <2>7, OneRunEach, CreateRows
<1>3. CASE JobMade(r)
  <2> DEFINE q == make[r].at
  <2>1. /\ make' = [make EXCEPT ![r].pc = "status"] /\ make[r].pc = "job"
        /\ mem' = [mem EXCEPT ![q] = Queued] /\ q \in Jobs /\ RunOf[q] = r
        /\ UNCHANGED <<dbRun, dbJob, ret, out, enq, ready, pc, skip, st>>
    BY <1>3 DEF JobMade, slots, TypeOK, RunTypes, MakeInv
  <2>2. /\ \A s \in Runs : s # r => make'[s] = make[s]
        /\ make'[r].pc = "status" /\ make'[r].at = q
        /\ mem'[q] = Queued /\ \A k \in Jobs : k # q => mem'[k] = mem[k]
    BY <2>1 DEF TypeOK, RunTypes, JobTypes
  <2> HIDE DEF q
  <2>3. ASSUME Made(r), \A k \in JobsOf(r) : RowOf(k) /\ k \notin enq
        PROVE  Made(r)' /\ \A k \in JobsOf(r) :
                 \/ mem'[k] = mem[k] /\ dbJob'[k] = dbJob[k]
                 \/ mem'[k].con = "cancelled"
                    \/ (mem'[k].st # "completed" /\ mem'[k].con = "none")
    <3>1. make[r].at = q
      BY DEF q
    <3>2. Made(r)'
      BY <2>1, <2>2, <2>3, <3>1, OneRunEach DEF Made, JobsOf, Queued
    <3> QED
      BY <2>1, <2>2, <3>2, OneRunEach DEF Queued
  <2> QED
    BY <2>1, <2>2, <2>3, CreateRows
<1>4. CASE AllMade(r)
  <2>1. /\ Advance(r, {}, st) /\ make[r].pc = "status" /\ Rest(r) = {}
        /\ make' = [make EXCEPT ![r] = NoMake]
        /\ UNCHANGED <<mem, ret, dbJob, out, skip>>
    BY <1>4 DEF AllMade, job
  <2>2. /\ \A s \in Runs : make'[s] = make[s] \/ make'[s] = NoMake
        /\ make'[r].pc = "idle"
    BY <2>1 DEF TypeOK, RunTypes, NoMake
  <2>3. st \in [Runs -> Flags] /\ \A s \in Runs : skip[s].pc # "idle" => st[s].cancelled
    BY DEF TypeOK, RunTypes, RowsInv
  <2>4. ~st[r].cancelled => \A k \in JobsOf(r) : mem[k].st # "none"
    <3>1. make[r].at \in Nat /\ \A k \in JobsOf(r) : k \in Nat
      BY JobNumbers, OneRunEach DEF TypeOK, RunTypes
    <3>2. \A k \in JobsOf(r) : ~(k > make[r].at)
      BY <2>1 DEF Rest
    <3> QED
      BY <2>1, <3>1, <3>2 DEF RowsInv, Made
  <2> QED
    BY <2>1, <2>2, <2>3, <2>4, AdvanceRows
<1>5. CASE AbortJob(r)
  <2> DEFINE rest == Rest(r) \cap Present(r)
             q == First(rest)
  <2>1. /\ make[r].pc \in {"abort", "abortStatus"}
        /\ UNCHANGED <<dbRun, mem, ret, out, enq, ready, pc, skip, st>>
    BY <1>5 DEF AbortJob, job, slots
  <2>2. CASE rest = {}
    <3>1. make' = [make EXCEPT ![r] = NoMake] /\ UNCHANGED dbJob
      BY <1>5, <2>2 DEF AbortJob
    <3>2. \A s \in Runs : make'[s] = make[s] \/ make'[s] = NoMake
      BY <3>1 DEF TypeOK, RunTypes
    <3> QED
      BY <2>1, <3>1, <3>2, IdleRows
  <2>3. CASE rest # {}
    <3>1. /\ dbJob' = [dbJob EXCEPT ![q] = Completed("skipped")]
          /\ make' = [make EXCEPT ![r] = [pc |-> "abortJob", at |-> q]]
      BY <1>5, <2>3 DEF AbortJob
    <3>2. q \in Jobs /\ q \in JobsOf(r)
      BY <2>3, FirstIn, OneRunEach DEF Rest
    <3> HIDE DEF q
    <3>3. /\ \A s \in Runs : s # r => make'[s] = make[s]
          /\ make'[r].pc = "abortJob"
          /\ \A k \in Jobs : k # q => dbJob'[k] = dbJob[k]
      BY <3>1 DEF TypeOK, RunTypes, StoredTypes
    <3>4. ASSUME Made(r), \A k \in JobsOf(r) : RowOf(k) /\ k \notin enq
          PROVE  Made(r)' /\ \A k \in JobsOf(r) :
                   \/ mem'[k] = mem[k] /\ dbJob'[k] = dbJob[k]
                   \/ mem'[k].con = "cancelled"
                      \/ (mem'[k].st # "completed" /\ mem'[k].con = "none")
      <4>1. Made(r)'
        BY <2>1, <3>3, <3>4 DEF Made, JobsOf
      <4>2. mem[q].con = "cancelled" \/ (mem[q].st # "completed" /\ mem[q].con = "none")
        BY <3>2, <3>4 DEF RowOf, Over
      <4> QED
        BY <2>1, <3>3, <4>1, <4>2, OneRunEach
    <3> QED
      BY <2>1, <3>2, <3>3, <3>4, OneRunEach, CreateRows
  <2> QED
    BY <2>2, <2>3
<1>6. CASE MakeFails(r) \/ AbortStatus(r)
  <2>1. /\ make[r].pc # "idle"
        /\ UNCHANGED <<dbJob, mem, ret, out, enq, ready, pc, skip>>
    BY <1>6 DEF MakeFails, AbortStatus, job, slots
  <2>2. /\ \A s \in Runs : s # r => make'[s] = make[s] /\ dbRun'[s] = dbRun[s]
        /\ make'[r].pc \in {"abort", "abortStatus"}
        /\ dbRun'[r] = dbRun[r] \/ dbRun'[r] = Completed("failure")
        /\ \A s \in Runs : st'[s].cancelled = st[s].cancelled
    <3>1. CASE MakeFails(r)
      <4>1. /\ make' = [make EXCEPT ![r] = [pc |-> "abort", at |-> 0]]
            /\ dbRun' = [dbRun EXCEPT ![r] = Completed("failure")]
            /\ st' = [st EXCEPT ![r].live = FALSE]
        BY <3>1 DEF MakeFails
      <4> QED
        BY <4>1 DEF TypeOK, StoredTypes, RunTypes, Flags
    <3>2. CASE AbortStatus(r)
      <4>1. make' = [make EXCEPT ![r].pc = "abortStatus"] /\ UNCHANGED <<dbRun, st>>
        BY <3>2 DEF AbortStatus
      <4> QED
        BY <4>1 DEF TypeOK, RunTypes
    <3> QED
      BY <1>6, <3>1, <3>2
  <2>3. Made(r) /\ (\A k \in JobsOf(r) : k \notin enq) => Made(r)'
    BY <2>1, <2>2 DEF Made, JobsOf
  <2> QED
    BY <2>1, <2>2, <2>3, CreateRows DEF Completed
<1> QED
  BY <1>1, <1>2, <1>3, <1>4, <1>5, <1>6 DEF MakeStep

(* ---------------------- closing, crash and boot ----------------------- *)

LEMMA CloseRows ==
  ASSUME TypeOK, RowsInv, GreenInv, NEW r \in Runs, CloseRun(r) \/ CloseFault(r)
  PROVE  RowsInv' /\ OversStay /\ ShutsStay /\ GreenInv'
<1>1. UNCHANGED <<mem, ret, dbJob, out, enq, ready, pc, make, skip>>
  BY DEF CloseRun, CloseFault, db, job, slots
<1>2. \A s \in Runs : st'[s].cancelled = st[s].cancelled
  BY DEF CloseRun, CloseFault, TypeOK, RunTypes, Flags
<1>3. /\ \A s \in Runs : dbRun'[s] = dbRun[s] \/ dbRun'[s] = InProgress \/ dbRun'[s] = Queued
  BY DEF CloseRun, CloseFault, db, TypeOK, StoredTypes
<1>4. /\ \A s \in Runs : dbRun[s] # NoRow => dbRun'[s] # NoRow
      /\ \A s \in Runs : dbRun'[s] = Completed("success") => dbRun[s] = Completed("success")
  BY <1>3 DEF InProgress, Queued, NoRow, Completed
<1> QED
  BY <1>1, <1>2, <1>4, IdleRows

\* Nothing of the engine runs before the server listens.
LEMMA BootRows ==
  ASSUME TypeOK, SlotInv, RowsInv, GreenInv, BootInv, BootStep \/ SweepFault
  PROVE  RowsInv' /\ ShutsStay /\ GreenInv'
<1>1. /\ UNCHANGED <<job, slots, st, make, skip>>
      /\ dbJob' = dbJob \/ (phase = "down" /\ dbJob' = Interrupt(dbJob, Jobs))
      /\ dbRun' = dbRun \/ dbRun' = Interrupt(dbRun, Runs)
  BY DEF BootStep, SweepJobs, SweepRuns, SweepStatus, CleanBoxes, SweepFault, db
<1>2. UNCHANGED <<mem, ret, out, pc, enq, ready>>
  BY <1>1 DEF job, slots
<1>3. /\ \A s \in Runs : dbRun[s] # NoRow => dbRun'[s] # NoRow
      /\ \A s \in Runs : dbRun'[s] = Completed("success") => dbRun[s] = Completed("success")
  BY <1>1 DEF Interrupt, Open, Completed, NoRow
<1>4. CASE dbJob' = dbJob
  BY <1>1, <1>2, <1>3, <1>4, IdleRows
<1>5. CASE phase = "down" /\ dbJob' = Interrupt(dbJob, Jobs)
  <2>1. /\ enq = {} /\ \A k \in Jobs : mem[k].st = "none" /\ pc[k] = "idle" /\ k \notin ready
        /\ \A r \in Runs : make[r].pc = "idle"
    BY <1>5 DEF BootInv, SlotInv, Busy
  <2>2. \A k \in Jobs : dbJob[k].st = "completed" => dbJob'[k] = dbJob[k]
    BY <1>5 DEF Interrupt, Open
  <2>3. ShutsStay
    BY <1>1, <1>2, <1>3, <2>2, OneRunEach DEF ShutsStay, Shut
  <2>4. GreenInv'
    BY <1>3, <2>3, GreenStays
  <2>5. ASSUME NEW r \in Runs, ~st[r].cancelled
        PROVE  Made(r)' /\ \A k \in JobsOf(r) : RowOf(k)'
    <3>1. \A k \in JobsOf(r) : RowOf(k) /\ k \in Jobs
      BY <2>5, OneRunEach DEF RowsInv
    <3> QED
      BY <1>1, <1>2, <2>1, <3>1 DEF Made, RowOf, Working, JobsOf
  <2>6. RowsInv'
    BY <1>1, <1>2, <2>5 DEF RowsInv, JobsOf
  <2> QED
    BY <2>3, <2>4, <2>6
<1> QED
  BY <1>1, <1>4, <1>5

LEMMA CrashRows ==
  ASSUME TypeOK, GreenInv, Crash
  PROVE  RowsInv' /\ ShutsStay /\ GreenInv'
<1>1. /\ UNCHANGED <<dbRun, dbJob>> /\ enq' = {} /\ ready' = {}
      /\ \A k \in Jobs : mem'[k] = NoRow /\ pc'[k] = "idle"
      /\ \A r \in Runs : make'[r] = NoMake /\ skip'[r] = NoSkip
  BY DEF Crash, db, Skippers
<1>2. ShutsStay
  BY <1>1, OneRunEach DEF ShutsStay, Shut, NoRow, NoMake, Resting
<1>3. GreenInv'
  BY <1>1, <1>2, GreenStays
<1>4. RowsInv'
  BY <1>1, OneRunEach
  DEF RowsInv, Made, RowOf, NoMake, NoSkip, NoRow, Working, JobsOf
<1> QED
  BY <1>2, <1>3, <1>4

LEMMA BootStays ==
  ASSUME TypeOK, SlotInv, BootInv, [Next]_vars
  PROVE  BootInv'
<1>1. CASE Crash
  BY <1>1 DEF Crash, BootInv, NoRow, NoMake, NoSkip
<1>2. CASE BootStep \/ SweepFault
  <2>1. phase # "up" /\ UNCHANGED <<job, slots, make, skip>>
    BY <1>2 DEF BootStep, SweepJobs, SweepRuns, SweepStatus, CleanBoxes, SweepFault
  <2> QED
    BY <2>1 DEF BootInv, job, slots
<1>3. CASE UNCHANGED vars
  BY <1>3 DEF BootInv, vars, job, slots
<1>4. ASSUME NEW r \in Runs,
             NewRun(r) \/ MakeStep(r) \/ MakeFails(r) \/ Cancel(r) \/ CloseRun(r) \/ CloseFault(r)
      PROVE  BootInv'
  <2>1. phase' = phase
    BY <1>4 DEF NewRun, MakeStep, MakeJob, JobMade, AllMade, AbortJob, AbortStatus,
       MakeFails, Cancel, CloseRun, CloseFault
  <2>2. CASE CloseRun(r) \/ CloseFault(r)
    BY <2>1, <2>2 DEF CloseRun, CloseFault, BootInv, job, slots
  <2>3. CASE NewRun(r) \/ MakeStep(r) \/ MakeFails(r) \/ Cancel(r)
    <3>1. phase = "up" \/ make[r].pc # "idle"
      BY <2>3 DEF NewRun, MakeStep, MakeJob, JobMade, AllMade, AbortJob, AbortStatus,
         MakeFails, Cancel
    <3> QED
      BY <2>1, <3>1 DEF BootInv
  <2> QED
    BY <1>4, <2>2, <2>3
<1>5. ASSUME NEW j \in Jobs, JobStep(j) \/ JobFault(j) PROVE BootInv'
  <2>1. phase' = phase /\ pc[j] # "idle"
    BY <1>5 DEF JobStep, Decide, MarkRun, RunMarked, StartBox, StepStart, StepEnd, Destroy,
       FinishJob, Report, JobOver, JobFault
  <2> QED
    BY <2>1 DEF BootInv, SlotInv, Busy
<1>6. ASSUME NEW x \in Skippers, SkipAdopt(x) \/ SkipNext(x) \/ SkipFault(x) PROVE BootInv'
  <2>1. phase' = phase /\ skip[x].pc # "idle"
    BY <1>6 DEF SkipAdopt, SkipNext, SkipFault
  <2> QED
    BY <2>1 DEF BootInv
<1> QED
  BY <1>1, <1>2, <1>3, <1>4, <1>5, <1>6 DEF Next

\* The invariant of the rows, and what every step does to what is over or shut.
LEMMA RowsStep ==
  ASSUME TypeOK, SlotInv, MakeInv, RowsInv, GreenInv, BootInv, [Next]_vars
  PROVE  RowsInv' /\ ShutsStay /\ GreenInv'
<1>1. CASE UNCHANGED vars
  BY <1>1, IdleRows DEF vars, db, job, slots
<1> QED
  BY <1>1, MakeRows, CancelRows, CloseRows, JobRows, SkipRows, BootRows, CrashRows DEF Next

\* What is stored about a run and its jobs agrees with what the process remembers of them,
\* except for the one write it waits for; a run is closed as a success only over rows that
\* allow it; and the boot sweep has a list before it works on one.
THEOREM RowsInvariant == Spec => [](RowsInv /\ GreenInv /\ BootInv)
<1>1. Init => RowsInv /\ GreenInv /\ BootInv
  <2> SUFFICES ASSUME Init PROVE RowsInv /\ GreenInv /\ BootInv
    OBVIOUS
  <2>1. \A r \in Runs : dbRun[r] = NoRow /\ st[r] = NoFlags /\ make[r] = NoMake
                        /\ skip[r] = NoSkip
    BY DEF Init, InitMemory, Skippers
  <2>2. \A k \in Jobs : mem[k] = NoRow /\ pc[k] = "idle" /\ k \notin enq /\ k \notin ready
    BY DEF Init, InitMemory
  <2>3. RowsInv
    BY <2>1, <2>2, OneRunEach DEF RowsInv, Made, RowOf, NoMake, NoSkip, NoRow, Working, JobsOf
  <2>4. GreenInv /\ BootInv
    BY <2>1 DEF GreenInv, BootInv, NoRow, Completed, Init
  <2> QED
    BY <2>3, <2>4
<1>2. TypeOK /\ SlotInv /\ MakeInv /\ (RowsInv /\ GreenInv /\ BootInv) /\ [Next]_vars
        => (RowsInv /\ GreenInv /\ BootInv)'
  BY RowsStep, BootStays
<1> QED
  BY <1>1, <1>2, TypeCorrect, SlotInvariant, ChecksInvariant, PTL DEF Spec

\* finishRun never closes a run as a success while a job of it is open, after a job that may
\* not fail has failed, or after a job was cancelled, unless a fail-fast loop overtook a leg
\* that was being skipped.
THEOREM GreenRuns == Spec => []GreenRunIsGreen
<1>1. GreenInv => GreenRunIsGreen
  BY DEF GreenInv, GreenRunIsGreen, Green, Tolerated
<1> QED
  BY <1>1, RowsInvariant, PTL

(***************************************************************************)
(* The containers: what a job with one waited for, and which are left.     *)
(***************************************************************************)

\* A job in a container, or on its way into one.
InUse(j) == j \in box \/ pc[j] \in Working

\* A default `if` only lets a job run after everything it needs succeeded.
LEMMA NeedsMet ==
  ASSUME TypeOK, MakeInv, RowsInv, NEW j \in Jobs, j \in enq,
         ~st[RunOf[j]].cancelled, Wanted(j), Cond[j] = "success", NEW k \in Needs[j]
  PROVE  Shut(k) /\ Met(k)
<1>1. k \in Jobs /\ RunOf[k] = RunOf[j] /\ RunOf[j] \in Runs
  BY OneRunEach
<1>2. /\ RowOf(k) /\ mem[k].st # "none" /\ make[RunOf[k]].pc = "idle"
      /\ dbRun[RunOf[k]] # NoRow
  BY <1>1, OneRunEach DEF RowsInv, Made, MakeInv, Untouched
<1>3. Worst(j) = "success"
  BY DEF Wanted
<1>4. NeedResult(k) = "success"
  <2> DEFINE results == {NeedResult(l) : l \in Needs[j] \cap Present(RunOf[j])}
  <2>1. NeedResult(k) \in results
    BY <1>1, <1>2 DEF Present, JobsOf
  <2>2. results \ {"success"} = {}
    BY <1>3, Zenon DEF Worst
  <2> QED
    BY <2>1, <2>2
<1>5. mem[k].con = "success" \/ (k \in Soft /\ mem[k].con = "failure")
  BY <1>4 DEF NeedResult
<1>6. mem[k].st = "completed" /\ Over(k)
  BY <1>2, <1>5 DEF RowOf
<1>7. mem[k] = Completed(mem[k].con)
  BY <1>1, <1>6 DEF Completed, TypeOK, JobTypes, Row
<1>8. dbJob[k] = mem[k] \/ (Overtaken(k) /\ Passed(k, mem[k].con))
  BY <1>2, <1>5, <1>6 DEF RowOf
<1>9. Met(k) /\ dbJob[k].st = "completed"
  <2>1. CASE dbJob[k] = mem[k]
    BY <1>5, <1>6, <1>7, <2>1 DEF Met, Tolerated
  <2>2. CASE Overtaken(k) /\ Passed(k, mem[k].con)
    BY <1>5, <2>2 DEF Met, Overtaken, Passed, Completed
  <2> QED
    BY <1>8, <2>1, <2>2
<1> QED
  BY <1>2, <1>6, <1>9 DEF Shut, Over

LEMMA NeedStays ==
  ASSUME NeedInv, ShutsStay,
         \A j \in Jobs : InUse(j)' => InUse(j) \/ (Cond[j] = "success" =>
           \A k \in Needs[j] : Shut(k) /\ Met(k))
  PROVE  NeedInv'
<1>1. ASSUME NEW j \in Jobs, InUse(j)', Cond[j] = "success", NEW k \in Needs[j]
      PROVE  Shut(k)' /\ Met(k)'
  <2>1. Shut(k) /\ Met(k) /\ k \in Jobs
    BY <1>1, OneRunEach DEF NeedInv, InUse
  <2>2. Shut(k)' /\ dbJob'[k] = dbJob[k]
    BY <2>1 DEF ShutsStay
  <2> QED
    BY <2>1, <2>2 DEF Met, Tolerated
<1> QED
  BY <1>1 DEF NeedInv, InUse

\* A step in which jobs only begin or end, outside a container.
AtTheEnds ==
  /\ UNCHANGED <<box, phase>>
  /\ \A k \in Jobs : pc'[k] # pc[k] =>
       pc'[k] \notin Working /\ pc[k] \notin {"steps", "exec", "saved"}
LeftFalls == \A e \in Events : left'[e] <= left[e]

LEMMA LeftStays ==
  ASSUME TypeOK, left' = left \/ (\E e \in Events : Spend(e))
  PROVE  LeftFalls
<1>1. left \in [Events -> Nat]
  BY DEF TypeOK, RunTypes
<1>2. CASE left' = left
  BY <1>1, <1>2 DEF LeftFalls
<1>3. ASSUME NEW e \in Events, Spend(e) PROVE LeftFalls
  BY <1>1, <1>3 DEF Spend, LeftFalls
<1> QED
  BY <1>2, <1>3

LEMMA BudgetStays ==
  ASSUME TypeOK, TypeOK', BoxInv, LeftFalls
  PROVE  /\ \A e \in Events : left'[e] <= Budget[e]
         /\ Unused("fault")' => Unused("fault")
<1>1. \A e \in Events : left[e] \in Nat /\ left'[e] \in Nat /\ Budget[e] \in Nat
  BY ConstantsAssumption DEF TypeOK, RunTypes
<1>2. \A e \in Events : left'[e] <= left[e] /\ left[e] <= Budget[e]
  BY DEF LeftFalls, BoxInv
<1>3. "fault" \in Events
  BY DEF Events
<1> QED
  BY <1>1, <1>2, <1>3 DEF Unused

LEMMA EndsKeepBoxes ==
  ASSUME TypeOK, TypeOK', BoxInv, NeedInv, ShutsStay, AtTheEnds, LeftFalls
  PROVE  NeedInv' /\ BoxInv'
<1>1. \A j \in Jobs : InUse(j)' => InUse(j)
  BY DEF InUse, AtTheEnds
<1>2. NeedInv'
  BY <1>1, NeedStays
<1>3. phase' = "up" /\ Unused("fault")' => \A j \in box' : pc'[j] \in {"steps", "exec", "saved"}
  BY BudgetStays DEF BoxInv, AtTheEnds, TypeOK, StoredTypes
<1> QED
  BY <1>2, <1>3, BudgetStays DEF BoxInv

LEMMA AdvanceAtEnds ==
  ASSUME TypeOK, SlotInv, NEW r \in Runs, NEW ended, NEW flags, Advance(r, ended, flags),
         UNCHANGED <<box, phase>>,
         \A k \in ended : pc[k] \notin {"steps", "exec", "saved"}
  PROVE  AtTheEnds
<1>1. PICK S \in SUBSET (ready \cup Eligible(r)) :
        pc' = [j \in Jobs |-> IF j \in S THEN "secrets"
                              ELSE IF j \in ended THEN "idle" ELSE pc[j]]
  BY DEF Advance, Pump
<1>2. \A k \in S : k \in Jobs => pc[k] = "idle"
  BY DEF SlotInv, Busy, Eligible
<1> QED
  BY <1>1, <1>2 DEF AtTheEnds, Working

LEMMA LoopAtEnds ==
  ASSUME TypeOK, SlotInv, NEW x \in Skippers, NEW at, NEW flags, LoopOn(x, at, flags),
         UNCHANGED <<box, phase>>, x \in Jobs => pc[x] \in {"reported", "failFast"}
  PROVE  AtTheEnds
<1> DEFINE queued == {k \in {l \in Scope(x) : l > at} : mem[k].st = "queued"}
<1>1. CASE queued = {}
  <2>1. IF x \in Runs THEN Advance(x, {}, flags) ELSE Advance(RunOf[x], {x}, st)
    BY <1>1 DEF LoopOn, JobEnds
  <2> QED
    BY <2>1, AdvanceAtEnds, OneRunEach DEF Skippers
<1>2. CASE queued # {}
  <2>1. pc' = (IF x \in Runs THEN pc ELSE [pc EXCEPT ![x] = "failFast"])
    BY <1>2 DEF LoopOn
  <2> QED
    BY <2>1 DEF AtTheEnds, Working, TypeOK, SlotTypes, Skippers
<1> QED
  BY <1>1, <1>2

LEMMA FaultUsed ==
  ASSUME TypeOK, BoxInv, Spend("fault")
  PROVE  ~(Unused("fault"))'
<1>1. "fault" \in Events
  BY DEF Events
<1>2. left["fault"] \in Nat /\ Budget["fault"] \in Nat /\ left["fault"] <= Budget["fault"]
  BY <1>1, ConstantsAssumption DEF BoxInv, TypeOK, RunTypes
<1>3. left'["fault"] = left["fault"] - 1
  BY <1>1 DEF Spend, TypeOK, RunTypes
<1> QED
  BY <1>2, <1>3 DEF Unused

LEMMA RunBoxes ==
  ASSUME TypeOK, SlotInv, NEW r \in Runs,
         \/ NewRun(r) \/ MakeStep(r) \/ MakeFails(r) \/ Cancel(r)
         \/ CloseRun(r) \/ CloseFault(r)
  PROVE  AtTheEnds /\ LeftFalls
<1>1. UNCHANGED <<box, phase>> /\ (left' = left \/ \E e \in Events : Spend(e))
  BY DEF NewRun, MakeStep, MakeJob, JobMade, AllMade, AbortJob, AbortStatus, MakeFails,
     Cancel, CloseRun, CloseFault, Events
<1>2. LeftFalls
  BY <1>1, LeftStays
<1>3. CASE AllMade(r)
  BY <1>1, <1>2, <1>3, AdvanceAtEnds DEF AllMade
<1>4. CASE Cancel(r)
  <2>1. LoopOn(r, 0, [st EXCEPT ![r].cancelled = TRUE]) /\ r \in Skippers /\ r \notin Jobs
    BY <1>4, ConstantsAssumption DEF Cancel, Skippers
  <2> QED
    BY <1>1, <1>2, <2>1, LoopAtEnds
<1>5. CASE ~AllMade(r) /\ ~Cancel(r)
  <2>1. pc' = pc
    BY <1>5 DEF NewRun, MakeStep, MakeJob, JobMade, AbortJob, AbortStatus, MakeFails,
       CloseRun, CloseFault, slots
  <2> QED
    BY <1>1, <1>2, <2>1 DEF AtTheEnds
<1> QED
  BY <1>2, <1>3, <1>4, <1>5

LEMMA SkipBoxes ==
  ASSUME TypeOK, SlotInv, NEW x \in Skippers, SkipAdopt(x) \/ SkipNext(x) \/ SkipFault(x)
  PROVE  AtTheEnds /\ LeftFalls
<1>1. UNCHANGED <<box, phase>> /\ (left' = left \/ \E e \in Events : Spend(e))
  BY DEF SkipAdopt, SkipNext, SkipFault, Events
<1>2. LeftFalls
  BY <1>1, LeftStays
<1>3. x \in Jobs => pc[x] = "failFast"
  BY DEF SkipAdopt, SkipNext, SkipFault, SlotInv
<1>4. CASE SkipAdopt(x)
  BY <1>1, <1>2, <1>4 DEF SkipAdopt, slots, AtTheEnds
<1>5. CASE SkipNext(x)
  BY <1>1, <1>2, <1>3, <1>5, LoopAtEnds DEF SkipNext
<1>6. CASE SkipFault(x)
  <2>1. IF x \in Runs THEN pc' = pc ELSE JobEnds(x)
    BY <1>6 DEF SkipFault, slots
  <2>2. CASE x \in Runs
    BY <1>1, <1>2, <2>1, <2>2 DEF AtTheEnds
  <2>3. CASE x \notin Runs
    BY <1>1, <1>2, <1>3, <2>1, <2>3, AdvanceAtEnds, OneRunEach DEF JobEnds, Skippers
  <2> QED
    BY <2>2, <2>3
<1> QED
  BY <1>2, <1>4, <1>5, <1>6

\* The steps of runJob outside its container.
LEMMA OutsideBoxes ==
  ASSUME TypeOK, SlotInv, NEW j \in Jobs,
         \/ Decide(j) /\ (mem[j].st = "completed" \/ ~Wanted(j))
         \/ FinishJob(j) \/ Report(j) \/ JobOver(j) \/ JobFault(j)
  PROVE  AtTheEnds /\ LeftFalls
<1>1. UNCHANGED <<box, phase>> /\ (left' = left \/ \E e \in Events : Spend(e))
  BY DEF Decide, FinishJob, Report, JobOver, JobFault, Events
<1>2. /\ pc[j] \notin {"steps", "exec", "saved"}
      /\ RunOf[j] \in Runs /\ j \in Skippers
  BY OneRunEach DEF Decide, FinishJob, Report, JobOver, JobFault, Skippers
<1>3. LeftFalls
  BY <1>1, LeftStays
<1>4. CASE JobEnds(j)
  BY <1>3, <1>1, <1>2, <1>4, AdvanceAtEnds DEF JobEnds
<1>5. CASE \E to \in {"finish", "report", "reported"} : Goto(j, to)
  BY <1>3, <1>1, <1>2, <1>5 DEF AtTheEnds, Goto, Working, TypeOK, SlotTypes
<1>6. CASE LoopOn(j, 0, st) /\ pc[j] = "reported"
  BY <1>3, <1>1, <1>2, <1>6, LoopAtEnds
<1>7. \/ JobEnds(j) \/ (\E to \in {"finish", "report", "reported"} : Goto(j, to))
      \/ LoopOn(j, 0, st) /\ pc[j] = "reported"
  BY DEF Decide, FinishJob, Report, JobOver, JobFault
<1> QED
  BY <1>4, <1>5, <1>6, <1>7

\* The steps of runJob from the claim to the removal of its container.
LEMMA WorkBoxes ==
  ASSUME TypeOK, TypeOK', SlotInv, MakeInv, RowsInv, ShutsStay, NeedInv, BoxInv,
         NEW j \in Jobs,
         \/ Decide(j) /\ mem[j].st # "completed" /\ Wanted(j)
         \/ MarkRun(j) \/ RunMarked(j) \/ StartBox(j) \/ StepStart(j)
         \/ StepEnd(j) \/ Destroy(j)
  PROVE  NeedInv' /\ BoxInv'
<1>1. /\ UNCHANGED phase /\ (left' = left \/ Spend("fault"))
      /\ box' = box \/ (box' = box \cup {j} /\ pc'[j] = "steps") \/ box' = box \ {j}
  BY DEF Decide, MarkRun, RunMarked, StartBox, StepStart, StepEnd, Destroy, Remove, Goto,
     TypeOK, SlotTypes
<1>2. /\ \A k \in Jobs : k # j => pc'[k] = pc[k]
      /\ pc[j] \in Working \cup {"secrets"}
      /\ pc[j] = "secrets" => Decide(j) /\ mem[j].st # "completed" /\ Wanted(j)
  BY DEF Decide, MarkRun, RunMarked, StartBox, StepStart, StepEnd, Destroy, Goto, Working,
     TypeOK, SlotTypes
<1>3. LeftFalls
  BY <1>1, LeftStays DEF Events
<1>4. ASSUME NEW k \in Jobs, InUse(k)'
      PROVE  InUse(k) \/ (Cond[k] = "success" => \A l \in Needs[k] : Shut(l) /\ Met(l))
  <2>1. CASE k = j /\ pc[j] = "secrets"
    <3>1. Wanted(j) /\ j \in enq /\ ~st[RunOf[j]].cancelled
      BY <1>2, <2>1 DEF Wanted, SlotInv, Busy
    <3> QED
      BY <2>1, <3>1, NeedsMet
  <2>2. CASE k = j /\ pc[j] # "secrets"
    BY <1>2, <2>2 DEF InUse
  <2>3. CASE k # j
    BY <1>1, <1>2, <1>4, <2>3 DEF InUse
  <2> QED
    BY <2>1, <2>2, <2>3
<1>5. NeedInv'
  BY <1>4, NeedStays
<1>6. ASSUME phase' = "up", Unused("fault")', NEW k \in box'
      PROVE  pc'[k] \in {"steps", "exec", "saved"}
  <2>1. Unused("fault") /\ k \in Jobs /\ phase = "up" /\ ~Spend("fault")
    BY <1>1, <1>3, <1>6, BudgetStays, FaultUsed DEF TypeOK, StoredTypes
  <2>2. \A l \in box : pc[l] \in {"steps", "exec", "saved"}
    BY <2>1 DEF BoxInv
  <2>3. CASE k # j
    BY <1>1, <1>2, <1>6, <2>1, <2>2, <2>3
  <2>4. CASE k = j
    BY <1>6, <2>1, <2>2, <2>4 DEF Decide, MarkRun, RunMarked, StartBox, StepStart, StepEnd,
       Destroy, Remove, Goto, TypeOK, SlotTypes
  <2> QED
    BY <2>3, <2>4
<1>7. BoxInv'
  BY <1>3, <1>6, BudgetStays DEF BoxInv
<1> QED
  BY <1>5, <1>7

LEMMA RestartBoxes ==
  ASSUME TypeOK, TypeOK', ShutsStay, NeedInv, BoxInv, Crash \/ BootStep \/ SweepFault
  PROVE  NeedInv' /\ BoxInv'
<1>1. /\ box' \subseteq box /\ (left' = left \/ \E e \in Events : Spend(e))
      /\ phase' = "up" => box' = {} \/ Spend("fault")
      /\ \A k \in Jobs : pc'[k] \in {"idle", pc[k]}
  BY DEF Crash, BootStep, SweepJobs, SweepRuns, SweepStatus, CleanBoxes, SweepFault, slots,
     Events
<1>2. LeftFalls
  BY <1>1, LeftStays
<1>3. NeedInv'
  BY <1>1, NeedStays DEF InUse, Working
<1>4. BoxInv'
  BY <1>1, <1>2, BudgetStays, FaultUsed DEF BoxInv
<1> QED
  BY <1>3, <1>4

LEMMA BoxStep ==
  ASSUME TypeOK, TypeOK', SlotInv, MakeInv, RowsInv, ShutsStay, NeedInv, BoxInv, [Next]_vars
  PROVE  NeedInv' /\ BoxInv'
<1>1. CASE UNCHANGED vars
  <2>1. AtTheEnds /\ left' = left
    BY <1>1 DEF AtTheEnds, vars, slots
  <2> QED
    BY <2>1, LeftStays, EndsKeepBoxes
<1>2. ASSUME NEW r \in Runs,
             \/ NewRun(r) \/ MakeStep(r) \/ MakeFails(r) \/ Cancel(r)
             \/ CloseRun(r) \/ CloseFault(r)
      PROVE  NeedInv' /\ BoxInv'
  BY <1>2, RunBoxes, EndsKeepBoxes
<1>3. ASSUME NEW j \in Jobs, JobStep(j) \/ JobFault(j) PROVE NeedInv' /\ BoxInv'
  BY <1>3, OutsideBoxes, WorkBoxes, EndsKeepBoxes DEF JobStep
<1>4. ASSUME NEW x \in Skippers, SkipAdopt(x) \/ SkipNext(x) \/ SkipFault(x)
      PROVE  NeedInv' /\ BoxInv'
  BY <1>4, SkipBoxes, EndsKeepBoxes
<1> QED
  BY <1>1, <1>2, <1>3, <1>4, RestartBoxes DEF Next

\* A job enters the queue only once its dependencies are over, and a container exists only
\* for a job that was let in.
THEOREM NeedsInvariant == Spec => [](NeedInv /\ BoxInv)
<1>1. Init => NeedInv /\ BoxInv
  <2> SUFFICES ASSUME Init PROVE NeedInv /\ BoxInv
    OBVIOUS
  <2>1. box = {} /\ (\A j \in Jobs : pc[j] = "idle") /\ left = Budget
    BY DEF Init, InitMemory
  <2> QED
    BY <2>1, ConstantsAssumption DEF NeedInv, BoxInv, Working
<1>2. TypeOK /\ TypeOK' /\ SlotInv /\ MakeInv /\ (RowsInv /\ GreenInv /\ BootInv)
        /\ (NeedInv /\ BoxInv) /\ [Next]_vars => (NeedInv /\ BoxInv)'
  BY RowsStep, BoxStep
<1> QED
  BY <1>1, <1>2, TypeCorrect, SlotInvariant, ChecksInvariant, RowsInvariant, PTL DEF Spec

\* A job with the default `if` is in a container only after all it needs succeeded; and the
\* container of a job that ended, or of another process, is gone.
THEOREM ContainersJustified == Spec => []BoxesJustified
<1>1. TypeOK /\ NeedInv /\ BoxInv => BoxesJustified
  BY DEF NeedInv, BoxInv, BoxesJustified, Met, Tolerated, TypeOK, StoredTypes
<1> QED
  BY <1>1, NeedsInvariant, TypeCorrect, PTL

(***************************************************************************)
(* The row of a run that has ended.                                        *)
(***************************************************************************)

Ends == {"success", "failure", "skipped"}

\* The run whose jobs a loop walks.
LoopRun(x) == IF x \in Runs THEN x ELSE RunOf[x]

\* Until its first job is marked as running, no job of a run has been stopped or closed by
\* another.
Fresh(k) ==
  /\ pc[k] \notin {"setup", "steps", "exec", "saved", "failFast"}
  /\ ctl[k] # "none" => pc[k] \in {"running", "runMark"}
  /\ mem[k].con # "cancelled"
  /\ k \in enq => dbJob[k].con # "cancelled"
  /\ pc[k] \in {"running", "runMark", "report"} => ret[k].con # "cancelled"
  /\ pc[k] \in {"finish", "report", "reported"} => out[k] # "cancelled"

\* A run that has ended is not concluded again: its jobs are never queued, or it is being
\* closed and marked as started, unless all its jobs are over.
Concluded(r) ==
  /\ make[r].pc \notin {"row", "job", "status"}
  /\ \/ ~st[r].live /\ JobsOf(r) \cap enq = {}
     \/ st[r].fin # "open" /\ (st[r].started \/ \A k \in JobsOf(r) : Over(k))

Done(r) ==
  /\ dbRun[r].st = "completed"
  /\ \A k \in JobsOf(r) : pc[k] = "running" => st[r].started
  /\ ~st[r].cancelled => Concluded(r)

ClaimInv ==
  /\ \A x \in Skippers : skip[x].pc = "update" => RunOf[skip[x].at] = LoopRun(x)
  /\ \A k \in Jobs : pc[k] = "running" => make[RunOf[k]].pc = "idle"
  /\ phase # "up" => \A r \in Runs : ~st[r].live

StartInv ==
  \A r \in Runs : ~st[r].cancelled /\ ~st[r].started => \A k \in JobsOf(r) : Fresh(k)

DoneInv == \A r \in Runs : dbRun[r].con \in Ends => Done(r)

\* While no query is rejected.
EndInv == ClaimInv /\ (Unused("fault") => StartInv /\ DoneInv)

EndedStep ==
  \A r \in Runs : dbRun[r].con \in Ends /\ ~st[r].cancelled => dbRun'[r] = dbRun[r]

LEMMA AdvanceEnds ==
  ASSUME TypeOK, SlotInv, RowsInv, OversStay, StartInv, DoneInv,
         NEW r \in Runs, NEW ended, NEW flags \in [Runs -> Flags],
         Advance(r, ended, flags), UNCHANGED <<mem, ret, dbJob, out>>,
         \A s \in Runs : make'[s] = make[s] \/ make'[s] = NoMake,
         \A s \in Runs : /\ ~flags[s].cancelled => ~st[s].cancelled
                         /\ flags[s].started = st[s].started /\ flags[s].fin = st[s].fin
                         /\ flags[s].live = st[s].live,
         flags[r].cancelled => st[r].cancelled \/ st[r].live,
         \A k \in Jobs : ~flags[RunOf[k]].cancelled /\ ~st[RunOf[k]].started =>
                           ctl'[k] = ctl[k],
         \A k \in ended : pc[k] \notin {"running", "runMark"},
         ~flags[r].cancelled =>
           make'[r].pc = "idle" /\ \A k \in JobsOf(r) : mem[k].st # "none",
         ~flags[r].cancelled =>
           (make[r].pc = "status" /\ Rest(r) = {}) \/ JobsOf(r) \cap enq # {}
  PROVE  StartInv' /\ DoneInv' /\ EndedStep
<1>1. PICK S \in SUBSET (ready \cup Eligible(r)) :
        /\ ready' = (ready \cup Eligible(r)) \ S
        /\ pc' = [j \in Jobs |-> IF j \in S THEN "secrets"
                                 ELSE IF j \in ended THEN "idle" ELSE pc[j]]
  BY DEF Advance, Pump
<1>2. enq' = enq \cup Eligible(r) /\ Eligible(r) \subseteq JobsOf(r) \ enq
  BY DEF Advance, Eligible, Present
<1>3. \A s \in Runs : /\ st'[s].cancelled = flags[s].cancelled
                      /\ st'[s].started = st[s].started /\ st'[s].live = st[s].live
                      /\ st[s].fin # "open" => st'[s].fin # "open"
  BY DEF Advance, FinishRun, Flags
<1>4. \A k \in Jobs : /\ pc'[k] \in {pc[k], "secrets", "idle"}
                      /\ pc[k] \in {"running", "runMark"} => pc'[k] = pc[k]
  BY <1>1 DEF SlotInv, Busy, Eligible
<1>5. ~flags[r].cancelled => \A k \in Eligible(r) : dbJob[k].con = "none"
  BY <1>2, MadeCon DEF RowsInv
<1>6. ASSUME NEW s \in Runs, ~flags[s].cancelled, ~st[s].started, NEW k \in JobsOf(s)
      PROVE  Fresh(k)'
  <2>1. Fresh(k) /\ k \in Jobs /\ RunOf[k] = s /\ ctl'[k] = ctl[k]
    BY <1>6, OneRunEach DEF StartInv
  <2>2. k \in enq' => dbJob[k].con # "cancelled"
    BY <1>2, <1>5, <1>6, <2>1, OneRunEach DEF Fresh
  <2> QED
    BY <1>4, <2>1, <2>2 DEF Fresh
<1>7. StartInv'
  BY <1>3, <1>6 DEF StartInv, JobsOf
<1>8. ASSUME NEW s \in Runs, dbRun'[s] # dbRun[s]
      PROVE  s = r /\ AllCompleted(r) /\ flags[r].fin = "open"
             /\ dbRun'[r] = Completed(Verdict(r, flags)) /\ st'[r].fin = "closing"
  BY <1>8 DEF Advance, FinishRun, TypeOK, StoredTypes, Flags
<1>9. ASSUME NEW s \in Runs, Done(s), dbRun'[s] = dbRun[s]
      PROVE  Done(s)'
  <2>1. \A k \in JobsOf(s) : pc'[k] = "running" => st'[s].started
    BY <1>3, <1>4, <1>9, OneRunEach DEF Done
  <2>2. ASSUME ~flags[s].cancelled PROVE Concluded(s)'
    <3>1. Concluded(s) /\ make'[s].pc \notin {"row", "job", "status"}
      BY <1>9, <2>2 DEF Done, Concluded, NoMake
    <3>2. CASE ~st[s].live /\ JobsOf(s) \cap enq = {}
      <4>1. s # r
        BY <2>2, <3>1, <3>2 DEF Concluded
      <4>2. JobsOf(s) \cap enq' = {}
        BY <1>2, <3>2, <4>1, OneRunEach
      <4> QED
        BY <1>3, <3>1, <3>2, <4>2 DEF Concluded, JobsOf
    <3>3. CASE st[s].fin # "open" /\ (st[s].started \/ \A k \in JobsOf(s) : Over(k))
      <4>1. (\A k \in JobsOf(s) : Over(k)) => \A k \in JobsOf(s) : Over(k)'
        BY <2>2, OneRunEach DEF OversStay
      <4> QED
        BY <1>3, <3>1, <3>3, <4>1 DEF Concluded, JobsOf
    <3> QED
      BY <3>1, <3>2, <3>3 DEF Concluded
  <2> QED
    BY <1>3, <1>9, <2>1, <2>2 DEF Done, JobsOf
<1>10. ASSUME NEW s \in Runs, dbRun'[s] # dbRun[s], dbRun'[s].con \in Ends
       PROVE  Done(s)'
  <2>1. s = r /\ AllCompleted(r) /\ dbRun'[r] = Completed(Verdict(r, flags))
        /\ st'[r].fin = "closing"
    BY <1>8, <1>10
  <2>2. ~flags[r].cancelled
    BY <1>10, <2>1 DEF Completed, Verdict, Ends
  <2>3. ASSUME ~st[r].started, NEW k \in JobsOf(r) PROVE Over(k) /\ Over(k)'
    <3>1. mem[k].st = "completed" /\ RowOf(k) /\ Fresh(k) /\ k \in Jobs /\ RunOf[k] = r
      BY <2>1, <2>2, <2>3, OneRunEach DEF AllCompleted, Present, RowsInv, StartInv
    <3>2. Over(k)
      BY <3>1 DEF RowOf, Fresh
    <3> QED
      BY <2>2, <3>1, <3>2 DEF OversStay
  <2>4. \A k \in JobsOf(r) : pc'[k] = "running" => st'[r].started
    BY <1>3, <1>4, <2>3, OneRunEach DEF Over, Resting
  <2>5. Concluded(r)'
    BY <1>3, <2>1, <2>2, <2>3 DEF Concluded, JobsOf
  <2> QED
    BY <2>1, <2>4, <2>5 DEF Done, Completed, JobsOf
<1>11. DoneInv'
  BY <1>9, <1>10 DEF DoneInv
<1>12. EndedStep
  <2> SUFFICES ASSUME NEW s \in Runs, dbRun[s].con \in Ends, ~st[s].cancelled,
                      dbRun'[s] # dbRun[s]
               PROVE  FALSE
    BY DEF EndedStep
  <2>1. s = r /\ st[r].fin = "open"
    BY <1>8
  <2>2. Concluded(r)
    BY <2>1 DEF DoneInv, Done
  <2>3. ~st[r].live /\ JobsOf(r) \cap enq = {}
    BY <2>1, <2>2 DEF Concluded
  <2> QED
    BY <2>1, <2>2, <2>3 DEF Concluded
<1> QED
  BY <1>7, <1>11, <1>12

\* A loop walks jobs of its run only.
LEMMA FreshScope ==
  ASSUME NEW x \in Skippers, NEW k \in Scope(x)
  PROVE  k \in JobsOf(LoopRun(x)) /\ LoopRun(x) \in Runs
BY OneRunEach DEF Scope, Present, LoopRun, Skippers, JobsOf

LEMMA LoopEnds ==
  ASSUME TypeOK, SlotInv, RowsInv, OversStay, StartInv, DoneInv,
         NEW x \in Skippers, NEW at, NEW flags \in [Runs -> Flags],
         LoopOn(x, at, flags), UNCHANGED <<mem, ret, out, make>>,
         \A s \in Runs : /\ ~flags[s].cancelled => ~st[s].cancelled
                         /\ flags[s].cancelled => st[s].cancelled \/ st[s].live
                         /\ flags[s].started = st[s].started /\ flags[s].fin = st[s].fin
                         /\ flags[s].live = st[s].live,
         x \in Runs => flags[x].cancelled,
         x \in Jobs => /\ pc[x] \in {"reported", "failFast"} /\ flags = st
                       /\ st[RunOf[x]].cancelled \/ st[RunOf[x]].started
  PROVE  StartInv' /\ DoneInv' /\ EndedStep
<1> DEFINE queued == {k \in {l \in Scope(x) : l > at} : mem[k].st = "queued"}
<1>1. x \in Jobs => /\ x \notin Runs /\ x \in enq /\ RunOf[x] \in Runs
                    /\ LoopRun(x) = RunOf[x] /\ x \in JobsOf(RunOf[x])
  BY OneRunEach, ConstantsAssumption DEF SlotInv, Busy, LoopRun
<1>2. x \in Runs => x \notin Jobs /\ LoopRun(x) = x
  BY ConstantsAssumption DEF LoopRun
<1>3. \A k \in Jobs : ~flags[RunOf[k]].cancelled /\ ~st[RunOf[k]].started =>
        k \notin Scope(x) /\ k # x /\ ctl'[k] = ctl[k]
  <2> SUFFICES ASSUME NEW k \in Jobs, ~flags[RunOf[k]].cancelled, ~st[RunOf[k]].started
               PROVE  k \notin Scope(x) /\ k # x /\ ctl'[k] = ctl[k]
    OBVIOUS
  <2>1. k \notin Scope(x) /\ k # x
    BY <1>1, <1>2, FreshScope, OneRunEach DEF Skippers
  <2> QED
    BY <2>1 DEF LoopOn
<1>4. CASE queued = {}
  <2>1. IF x \in Runs THEN Advance(x, {}, flags) ELSE Advance(RunOf[x], {x}, st)
    BY <1>4 DEF LoopOn, JobEnds
  <2>2. UNCHANGED dbJob
    BY <1>4 DEF LoopOn
  <2>3. CASE x \in Runs
    <3>1. Advance(x, {}, flags) /\ flags[x].cancelled
      BY <2>1, <2>3
    <3>2. flags[x].cancelled => st[x].cancelled \/ st[x].live
      BY <2>3
    <3> QED
      BY <1>3, <2>2, <2>3, <3>1, <3>2, AdvanceEnds
  <2>4. CASE x \in Jobs
    <3>1. Advance(RunOf[x], {x}, st) /\ flags = st /\ RunOf[x] \in Runs
      BY <1>1, <2>1, <2>4
    <3>2. JobsOf(RunOf[x]) \cap enq # {}
      BY <1>1, <2>4
    <3>3. ~st[RunOf[x]].cancelled =>
            make[RunOf[x]].pc = "idle" /\ \A k \in JobsOf(RunOf[x]) : mem[k].st # "none"
      BY <1>1, <2>4 DEF RowsInv, Made
    <3>4. pc[x] \notin {"running", "runMark"}
      BY <2>4
    <3> QED
      BY <1>3, <2>2, <3>1, <3>2, <3>3, <3>4, AdvanceEnds
  <2> QED
    BY <2>3, <2>4 DEF Skippers
<1>5. CASE queued # {}
  <2> DEFINE q == First(queued)
  <2>1. q \in Scope(x) /\ q \in Jobs
    BY <1>5, FirstIn, ScopeOfJobs
  <2>2. /\ enq' = enq \cup {q}
        /\ dbJob' = [dbJob EXCEPT ![q] = Completed("cancelled")]
        /\ pc' = (IF x \in Runs THEN pc ELSE [pc EXCEPT ![x] = "failFast"])
        /\ st' = flags /\ UNCHANGED dbRun
    BY <1>5 DEF LoopOn
  <2> HIDE DEF q
  <2>3. /\ \A k \in Jobs : k # x => pc'[k] = pc[k]
        /\ x \in Jobs => pc'[x] = "failFast"
        /\ \A k \in Jobs : k # q => dbJob'[k] = dbJob[k]
    BY <1>1, <2>1, <2>2 DEF TypeOK, SlotTypes, StoredTypes
  <2>4. ASSUME NEW s \in Runs, ~flags[s].cancelled, ~st[s].started, NEW k \in JobsOf(s)
        PROVE  Fresh(k)'
    <3>1. Fresh(k) /\ k \in Jobs /\ RunOf[k] = s
      BY <2>4, OneRunEach DEF StartInv
    <3>2. k # x /\ k # q /\ ctl'[k] = ctl[k]
      BY <1>3, <2>1, <2>4, <3>1
    <3> QED
      BY <2>2, <2>3, <3>1, <3>2 DEF Fresh
  <2>5. StartInv'
    BY <2>2, <2>4 DEF StartInv, JobsOf
  <2>6. ASSUME NEW s \in Runs, Done(s) PROVE Done(s)'
    <3>1. \A k \in JobsOf(s) : pc'[k] = "running" => st'[s].started
      BY <2>2, <2>3, <2>6, OneRunEach DEF Done
    <3>2. ASSUME ~flags[s].cancelled PROVE Concluded(s)'
      <4>1. Concluded(s)
        BY <2>6, <3>2 DEF Done
      <4>2. CASE ~st[s].live /\ JobsOf(s) \cap enq = {}
        <5>1. q \notin JobsOf(s)
          BY <1>1, <1>2, <2>1, <3>2, <4>2, FreshScope, OneRunEach DEF Skippers
        <5> QED
          BY <2>2, <4>1, <4>2, <5>1 DEF Concluded, JobsOf
      <4>3. CASE st[s].fin # "open" /\ (st[s].started \/ \A k \in JobsOf(s) : Over(k))
        <5>1. (\A k \in JobsOf(s) : Over(k)) => \A k \in JobsOf(s) : Over(k)'
          BY <3>2, OneRunEach DEF OversStay
        <5> QED
          BY <2>2, <4>1, <4>3, <5>1 DEF Concluded, JobsOf
      <4> QED
        BY <4>1, <4>2, <4>3 DEF Concluded
    <3> QED
      BY <2>2, <2>6, <3>1, <3>2 DEF Done, JobsOf
  <2>7. DoneInv' /\ EndedStep
    BY <2>2, <2>6 DEF DoneInv, EndedStep
  <2> QED
    BY <2>5, <2>7
<1> QED
  BY <1>4, <1>5

\* A run stays concluded while its jobs that are over stay so and nothing is queued.
LEMMA DoneStays ==
  ASSUME NEW s \in Runs, Done(s), OversStay, dbRun'[s] = dbRun[s],
         st'[s].cancelled = st[s].cancelled,
         st[s].started => st'[s].started,
         \A k \in JobsOf(s) : pc'[k] = "running" => pc[k] = "running" \/ st'[s].started,
         ~st[s].cancelled =>
           /\ st'[s].live => st[s].live
           /\ st[s].fin # "open" => st'[s].fin # "open"
           /\ \A k \in JobsOf(s) : k \in enq' => k \in enq
           /\ make'[s].pc \in {"row", "job", "status"} =>
                make[s].pc \in {"row", "job", "status"}
  PROVE  Done(s)'
<1>1. \A k \in JobsOf(s) : pc'[k] = "running" => st'[s].started
  BY DEF Done
<1>2. ASSUME ~st[s].cancelled PROVE Concluded(s)'
  <2>1. Concluded(s)
    BY <1>2 DEF Done
  <2>2. (\A k \in JobsOf(s) : Over(k)) => \A k \in JobsOf(s) : Over(k)'
    BY <1>2, OneRunEach DEF OversStay
  <2>3. CASE ~st[s].live /\ JobsOf(s) \cap enq = {}
    BY <1>2, <2>1, <2>3 DEF Concluded, JobsOf
  <2>4. CASE st[s].fin # "open" /\ (st[s].started \/ \A k \in JobsOf(s) : Over(k))
    BY <1>2, <2>1, <2>2, <2>4 DEF Concluded, JobsOf
  <2> QED
    BY <2>1, <2>3, <2>4 DEF Concluded
<1> QED
  BY <1>1, <1>2 DEF Done, JobsOf

\* A step of one runJob that is not its last.
LEMMA WorkEnds ==
  ASSUME TypeOK, SlotInv, OversStay, StartInv, DoneInv,
         NEW j \in Jobs, pc[j] \notin Resting,
         NEW to \in Pcs, Goto(j, to), UNCHANGED make,
         \A s \in Runs : /\ st'[s].cancelled = st[s].cancelled /\ st'[s].live = st[s].live
                         /\ st'[s].fin = st[s].fin /\ (st[s].started => st'[s].started),
         \A k \in Jobs : k # j => /\ mem'[k] = mem[k] /\ dbJob'[k] = dbJob[k]
                                  /\ ret'[k] = ret[k] /\ out'[k] = out[k]
                                  /\ ctl'[k] = ctl[k],
         \A s \in Runs : \/ dbRun'[s] = dbRun[s]
                         \/ /\ s = RunOf[j] /\ pc[j] = "running" /\ ~st[s].started
                            /\ dbRun'[s].con = dbRun[s].con,
         to = "running" => ~st[RunOf[j]].cancelled,
         ~st[RunOf[j]].cancelled /\ ~st'[RunOf[j]].started /\ Fresh(j) => Fresh(j)'
  PROVE  StartInv' /\ DoneInv' /\ EndedStep
<1>1. /\ \A k \in Jobs : k # j => pc'[k] = pc[k]
      /\ pc'[j] = to /\ UNCHANGED <<enq, ready>>
  BY DEF Goto, TypeOK, SlotTypes
<1>2. j \in enq /\ j \in JobsOf(RunOf[j]) /\ RunOf[j] \in Runs
  BY OneRunEach DEF SlotInv, Busy, Resting
<1>3. ASSUME NEW s \in Runs, ~st[s].cancelled, ~st'[s].started, NEW k \in JobsOf(s)
      PROVE  Fresh(k)'
  <2>1. Fresh(k) /\ k \in Jobs /\ RunOf[k] = s
    BY <1>3, OneRunEach DEF StartInv
  <2>2. CASE k = j
    BY <1>3, <2>1, <2>2
  <2>3. CASE k # j
    BY <1>1, <2>1, <2>3 DEF Fresh
  <2> QED
    BY <2>2, <2>3
<1>4. StartInv'
  BY <1>3 DEF StartInv, JobsOf
<1>5. \A s \in Runs : dbRun[s].con \in Ends => dbRun'[s] = dbRun[s]
  BY <1>2 DEF DoneInv, Done
<1>6. EndedStep
  BY <1>5 DEF EndedStep
<1>7. ASSUME NEW s \in Runs, dbRun'[s].con \in Ends PROVE Done(s)'
  <2>1. Done(s) /\ dbRun'[s] = dbRun[s]
    BY <1>5, <1>7 DEF DoneInv
  <2>2. to = "running" /\ s = RunOf[j] => st'[s].started
    <3> SUFFICES ASSUME to = "running", s = RunOf[j] PROVE st'[s].started
      OBVIOUS
    <3>1. Concluded(s) /\ ~Over(j)
      BY <2>1 DEF Done, Over
    <3> QED
      BY <1>2, <3>1 DEF Concluded
  <2>3. \A k \in JobsOf(s) : pc'[k] = "running" => pc[k] = "running" \/ st'[s].started
    BY <1>1, <2>2, OneRunEach
  <2> QED
    BY <1>1, <2>1, <2>3, DoneStays
<1>8. DoneInv'
  BY <1>7 DEF DoneInv
<1> QED
  BY <1>4, <1>6, <1>8

\* A runJob that ends, as planned or on a rejected query.
LEMMA EndEnds ==
  ASSUME TypeOK, SlotInv, RowsInv, OversStay, StartInv, DoneInv, NEW j \in Busy, JobEnds(j),
         pc[j] \notin {"running", "runMark"}, UNCHANGED <<mem, ret, dbJob, out, ctl, make>>
  PROVE  StartInv' /\ DoneInv' /\ EndedStep
<1>1. j \in Jobs /\ j \in enq /\ RunOf[j] \in Runs /\ j \in JobsOf(RunOf[j])
  BY OneRunEach DEF SlotInv, Busy
<1>2. ~st[RunOf[j]].cancelled =>
        make[RunOf[j]].pc = "idle" /\ \A k \in JobsOf(RunOf[j]) : mem[k].st # "none"
  BY <1>1 DEF RowsInv, Made
<1>3. st \in [Runs -> Flags]
  BY DEF TypeOK, RunTypes
<1>4. JobsOf(RunOf[j]) \cap enq # {}
  BY <1>1
<1> QED
  BY <1>1, <1>2, <1>3, <1>4, AdvanceEnds DEF JobEnds

LEMMA DecideEnds ==
  ASSUME TypeOK, SlotInv, RowsInv, OversStay, StartInv, DoneInv, NEW j \in Jobs, Decide(j)
  PROVE  StartInv' /\ DoneInv' /\ EndedStep
<1>1. pc[j] = "secrets" /\ pc[j] \notin Resting /\ j \in enq /\ j \in Busy
  BY DEF Decide, Resting, SlotInv, Busy
<1>2. CASE mem[j].st = "completed"
  <2>1. JobEnds(j) /\ UNCHANGED <<mem, ret, dbJob, out, ctl, make>>
    BY <1>2 DEF Decide, job
  <2> QED
    BY <1>1, <2>1, EndEnds
<1>3. CASE mem[j].st # "completed" /\ Wanted(j)
  <2>1. /\ ctl' = [ctl EXCEPT ![j] = "live"]
        /\ dbJob' = [dbJob EXCEPT ![j] = [@ EXCEPT !.st = "running"]]
        /\ ret' = [ret EXCEPT ![j] = dbJob'[j]]
        /\ Goto(j, "running") /\ UNCHANGED <<dbRun, st, mem, out, make>>
    BY <1>3 DEF Decide
  <2>2. /\ dbJob'[j].con = dbJob[j].con /\ ret'[j] = dbJob'[j] /\ pc'[j] = "running"
        /\ UNCHANGED enq
        /\ \A k \in Jobs : k # j => /\ dbJob'[k] = dbJob[k] /\ ret'[k] = ret[k]
                                    /\ ctl'[k] = ctl[k]
    BY <2>1 DEF Goto, TypeOK, StoredTypes, JobTypes, SlotTypes, Row
  <2>3. Fresh(j) => Fresh(j)'
    BY <1>1, <2>1, <2>2 DEF Fresh
  <2>4. ~st[RunOf[j]].cancelled
    BY <1>3 DEF Wanted
  <2> QED
    BY <1>1, <2>1, <2>2, <2>3, <2>4, WorkEnds DEF Pcs
<1>4. CASE mem[j].st # "completed" /\ ~Wanted(j)
  <2>1. /\ out' = [out EXCEPT ![j] = IF st[RunOf[j]].cancelled THEN "cancelled"
                                     ELSE IF Cond[j] = "invalid" THEN "failure"
                                     ELSE "skipped"]
        /\ Goto(j, "finish") /\ UNCHANGED <<dbRun, st, mem, make, dbJob, ret, ctl>>
    BY <1>4 DEF Decide
  <2>2. /\ ~st[RunOf[j]].cancelled => out'[j] # "cancelled"
        /\ pc'[j] = "finish" /\ UNCHANGED enq
        /\ \A k \in Jobs : k # j => out'[k] = out[k]
    BY <2>1 DEF Goto, TypeOK, JobTypes, SlotTypes
  <2>3. ~st[RunOf[j]].cancelled /\ Fresh(j) => Fresh(j)'
    BY <1>1, <2>1, <2>2 DEF Fresh
  <2> QED
    BY <1>1, <2>1, <2>2, <2>3, WorkEnds DEF Pcs
<1> QED
  BY <1>2, <1>3, <1>4

LEMMA MiddleEnds ==
  ASSUME TypeOK, SlotInv, OversStay, StartInv, DoneInv, NEW j \in Jobs,
         \/ MarkRun(j) \/ RunMarked(j) \/ StartBox(j) \/ StepStart(j)
         \/ StepEnd(j) \/ Destroy(j)
  PROVE  StartInv' /\ DoneInv' /\ EndedStep
<1>1. PICK to \in {"runMark", "setup", "steps", "exec", "saved", "finish"} : Goto(j, to)
  BY DEF MarkRun, RunMarked, StartBox, StepStart, StepEnd, Destroy
<1>2. to \in Pcs /\ pc[j] \notin Resting /\ to # "running"
  BY DEF Pcs, MarkRun, RunMarked, StartBox, StepStart, StepEnd, Destroy, Resting
<1>3. UNCHANGED <<dbJob, make>>
  BY DEF MarkRun, RunMarked, StartBox, StepStart, StepEnd, Destroy, db
<1>4. \A s \in Runs : /\ st'[s].cancelled = st[s].cancelled /\ st'[s].live = st[s].live
                      /\ st'[s].fin = st[s].fin /\ (st[s].started => st'[s].started)
  BY DEF MarkRun, RunMarked, StartBox, StepStart, StepEnd, Destroy, TypeOK, RunTypes, Flags
<1>5. \A k \in Jobs : k # j => /\ mem'[k] = mem[k] /\ dbJob'[k] = dbJob[k]
                               /\ ret'[k] = ret[k] /\ out'[k] = out[k]
                               /\ ctl'[k] = ctl[k]
  BY <1>3 DEF MarkRun, RunMarked, StartBox, StepStart, StepEnd, Destroy, job, Adopt,
     TypeOK, JobTypes
<1>6. \A s \in Runs : \/ dbRun'[s] = dbRun[s]
                      \/ /\ s = RunOf[j] /\ pc[j] = "running" /\ ~st[s].started
                         /\ dbRun'[s].con = dbRun[s].con
  BY DEF MarkRun, RunMarked, StartBox, StepStart, StepEnd, Destroy, db, TypeOK, StoredTypes,
     Row
<1>7. ~st'[RunOf[j]].started /\ Fresh(j) => Fresh(j)'
  <2>1. CASE MarkRun(j) /\ ~st[RunOf[j]].started
    <3>1. /\ mem'[j] = ret[j] /\ pc[j] = "running" /\ pc'[j] = "runMark"
          /\ UNCHANGED <<dbJob, ret, ctl, out, enq>>
      BY <2>1 DEF MarkRun, Adopt, Goto, TypeOK, JobTypes, SlotTypes
    <3> QED
      BY <3>1 DEF Fresh
  <2>2. CASE RunMarked(j)
    <3>1. st'[RunOf[j]].started
      BY <2>2, OneRunEach DEF RunMarked, TypeOK, RunTypes, Flags
    <3> QED
      BY <3>1
  <2>3. CASE StartBox(j) \/ StepStart(j) \/ StepEnd(j) \/ Destroy(j)
    BY <2>3 DEF StartBox, StepStart, StepEnd, Destroy, Fresh
  <2> QED
    BY <1>4, <2>1, <2>2, <2>3, OneRunEach
<1> QED
  BY <1>1, <1>2, <1>3, <1>4, <1>5, <1>6, <1>7, WorkEnds

LEMMA ReportEnds ==
  ASSUME TypeOK, SlotInv, RowsInv, OversStay, StartInv, DoneInv, NEW j \in Jobs,
         FinishJob(j) \/ Report(j)
  PROVE  StartInv' /\ DoneInv' /\ EndedStep
<1>1. PICK to \in {"report", "reported"} : Goto(j, to)
  BY DEF FinishJob, Report
<1>2. to \in Pcs /\ to # "running" /\ pc[j] \notin Resting
  BY DEF Pcs, FinishJob, Report, Resting
<1>3. UNCHANGED <<dbRun, st, make, out, ctl>>
  BY DEF FinishJob, Report
<1>4. \A k \in Jobs : k # j => mem'[k] = mem[k] /\ dbJob'[k] = dbJob[k] /\ ret'[k] = ret[k]
  BY DEF FinishJob, Report, Adopt, TypeOK, JobTypes, StoredTypes
<1>5. ASSUME Fresh(j) PROVE Fresh(j)'
  <2>1. CASE FinishJob(j)
    <3>1. /\ dbJob'[j] = Completed(out[j]) /\ ret'[j] = Completed(out[j])
          /\ mem' = mem /\ pc'[j] = "report" /\ pc[j] = "finish" /\ UNCHANGED enq
      BY <2>1 DEF FinishJob, Goto, TypeOK, JobTypes, StoredTypes, SlotTypes
    <3> QED
      BY <1>3, <1>5, <3>1 DEF Fresh, Completed
  <2>2. CASE Report(j)
    <3>1. /\ mem'[j] = ret[j] /\ dbJob' = dbJob /\ pc'[j] = "reported" /\ pc[j] = "report"
          /\ UNCHANGED <<enq, ret>>
      BY <2>2 DEF Report, Adopt, Goto, TypeOK, JobTypes, SlotTypes
    <3> QED
      BY <1>3, <1>5, <3>1 DEF Fresh
  <2> QED
    BY <2>1, <2>2
<1> QED
  BY <1>1, <1>2, <1>3, <1>4, <1>5, WorkEnds

LEMMA OverEnds ==
  ASSUME TypeOK, SlotInv, RowsInv, OversStay, StartInv, DoneInv, NEW j \in Jobs, JobOver(j)
  PROVE  StartInv' /\ DoneInv' /\ EndedStep
<1>1. /\ j \in Skippers /\ j \in Busy /\ pc[j] = "reported" /\ j \notin Runs
      /\ st \in [Runs -> Flags] /\ UNCHANGED <<mem, ret, out, make>>
      /\ RunOf[j] \in Runs /\ j \in JobsOf(RunOf[j])
  BY OneRunEach, ConstantsAssumption DEF JobOver, Skippers, Busy, TypeOK, RunTypes
<1>2. CASE ctl[j] # "none" /\ LoopOn(j, 0, st)
  <2>1. ~Fresh(j)
    BY <1>1, <1>2 DEF Fresh
  <2>2. st[RunOf[j]].cancelled \/ st[RunOf[j]].started
    BY <1>1, <2>1 DEF StartInv
  <2> QED
    BY <1>1, <1>2, <2>2, LoopEnds
<1>3. CASE JobEnds(j) /\ UNCHANGED <<dbJob, ctl>>
  BY <1>1, <1>3, EndEnds
<1> QED
  BY <1>1, <1>2, <1>3 DEF JobOver

LEMMA JobEndsRuns ==
  ASSUME TypeOK, SlotInv, RowsInv, OversStay, StartInv, DoneInv, NEW j \in Jobs, JobStep(j)
  PROVE  StartInv' /\ DoneInv' /\ EndedStep
BY DecideEnds, MiddleEnds, ReportEnds, OverEnds DEF JobStep

(* ---------------------------- skipQueued ------------------------------ *)

\* A loop goes on only in a run that has begun or was cancelled.
LEMMA LoopBegun ==
  ASSUME SlotInv, RowsInv, StartInv, NEW x \in Skippers, skip[x].pc # "idle"
  PROVE  /\ st[LoopRun(x)].cancelled \/ st[LoopRun(x)].started
         /\ x \in Runs => st[x].cancelled
         /\ x \in Jobs => pc[x] = "failFast"
<1>1. CASE x \in Runs
  BY <1>1, ConstantsAssumption DEF RowsInv, LoopRun
<1>2. CASE x \in Jobs
  <2>1. pc[x] = "failFast" /\ x \notin Runs /\ LoopRun(x) = RunOf[x]
        /\ RunOf[x] \in Runs /\ x \in JobsOf(RunOf[x])
    BY <1>2, OneRunEach, ConstantsAssumption DEF SlotInv, LoopRun
  <2>2. ~Fresh(x)
    BY <2>1 DEF Fresh
  <2> QED
    BY <1>2, <2>1, <2>2 DEF StartInv
<1> QED
  BY <1>1, <1>2 DEF Skippers

LEMMA SkipEnds ==
  ASSUME TypeOK, SlotInv, RowsInv, OversStay, ClaimInv, StartInv, DoneInv,
         NEW x \in Skippers, SkipAdopt(x) \/ SkipNext(x)
  PROVE  StartInv' /\ DoneInv' /\ EndedStep
<1>1. /\ st[LoopRun(x)].cancelled \/ st[LoopRun(x)].started
      /\ x \in Runs => st[x].cancelled
      /\ x \in Jobs => pc[x] = "failFast" /\ LoopRun(x) = RunOf[x]
      /\ st \in [Runs -> Flags]
  BY LoopBegun, ConstantsAssumption
  DEF SkipAdopt, SkipNext, LoopRun, TypeOK, RunTypes
<1>2. CASE SkipNext(x)
  BY <1>1, <1>2, LoopEnds DEF SkipNext
<1>3. CASE SkipAdopt(x)
  <2>1. PICK q \in Jobs :
          /\ mem' = [mem EXCEPT ![q] = Completed("cancelled")]
          /\ RunOf[q] = LoopRun(x)
          /\ UNCHANGED <<dbRun, dbJob, ret, ctl, out, pc, enq, ready, st, make>>
    BY <1>3 DEF SkipAdopt, TypeOK, RunTypes, slots, ClaimInv
  <2>2. \A k \in Jobs : k # q => mem'[k] = mem[k]
    BY <2>1 DEF TypeOK, JobTypes
  <2>3. ASSUME NEW s \in Runs, ~st[s].cancelled, ~st[s].started, NEW k \in JobsOf(s)
        PROVE  Fresh(k)'
    <3>1. Fresh(k) /\ k \in Jobs /\ k # q
      BY <1>1, <2>1, <2>3, OneRunEach DEF StartInv
    <3> QED
      BY <2>1, <2>2, <3>1 DEF Fresh
  <2>4. StartInv'
    BY <2>1, <2>3 DEF StartInv, JobsOf
  <2>5. DoneInv'
    BY <2>1, DoneStays DEF DoneInv
  <2> QED
    BY <2>1, <2>4, <2>5 DEF EndedStep
<1> QED
  BY <1>2, <1>3

LEMMA CancelEnds ==
  ASSUME TypeOK, SlotInv, RowsInv, OversStay, StartInv, DoneInv, NEW r \in Runs, Cancel(r)
  PROVE  StartInv' /\ DoneInv' /\ EndedStep
<1> DEFINE flags == [st EXCEPT ![r].cancelled = TRUE]
<1>1. /\ LoopOn(r, 0, flags) /\ UNCHANGED <<mem, ret, out, make>> /\ st[r].live
      /\ r \in Skippers /\ r \notin Jobs
  BY ConstantsAssumption DEF Cancel, Skippers
<1>2. flags \in [Runs -> Flags] /\ flags[r].cancelled
  BY DEF TypeOK, RunTypes, Flags
<1>3. \A s \in Runs : /\ ~flags[s].cancelled => ~st[s].cancelled
                      /\ flags[s].cancelled => st[s].cancelled \/ st[s].live
                      /\ flags[s].started = st[s].started /\ flags[s].fin = st[s].fin
                      /\ flags[s].live = st[s].live
  BY <1>1 DEF TypeOK, RunTypes, Flags
<1> HIDE DEF flags
<1> QED
  BY <1>1, <1>2, <1>3, LoopEnds

(* ------------------------------ createRun ---------------------------- *)

\* A step of the createRun of one run that begins no job.
LEMMA CreateEnds ==
  ASSUME TypeOK, OversStay, StartInv, DoneInv, NEW r \in Runs,
         UNCHANGED <<ret, ctl, out, enq, ready, pc>>,
         \A s \in Runs : /\ st'[s].cancelled = st[s].cancelled
                         /\ st'[s].started = st[s].started /\ st'[s].fin = st[s].fin,
         \A s \in Runs : s # r => /\ make'[s] = make[s] /\ dbRun'[s] = dbRun[s]
                                  /\ st'[s].live = st[s].live,
         \A k \in Jobs : mem'[k] = mem[k] \/ mem'[k].con # "cancelled",
         \A k \in Jobs : dbJob'[k] = dbJob[k] \/ dbJob'[k].con # "cancelled",
         dbRun'[r].con \in Ends => Done(r)',
         dbRun[r].con \in Ends /\ ~st[r].cancelled => dbRun'[r] = dbRun[r]
  PROVE  StartInv' /\ DoneInv' /\ EndedStep
<1>1. ASSUME NEW s \in Runs, ~st[s].cancelled, ~st[s].started, NEW k \in JobsOf(s)
      PROVE  Fresh(k)'
  <2>1. Fresh(k) /\ k \in Jobs
    BY <1>1, OneRunEach DEF StartInv
  <2> QED
    BY <2>1 DEF Fresh
<1>2. StartInv'
  BY <1>1 DEF StartInv, JobsOf
<1>3. DoneInv'
  BY DoneStays DEF DoneInv
<1> QED
  BY <1>2, <1>3 DEF EndedStep

LEMMA MakeEnds ==
  ASSUME TypeOK, SlotInv, MakeInv, RowsInv, OversStay, ClaimInv, StartInv, DoneInv,
         NEW r \in Runs, MakeStep(r) \/ MakeFails(r) \/ NewRun(r)
  PROVE  StartInv' /\ DoneInv' /\ EndedStep
<1>1. CASE NewRun(r)
  <2>1. /\ make' = [make EXCEPT ![r].pc = "row"] /\ dbRun' = [dbRun EXCEPT ![r] = Queued]
        /\ dbRun[r] = NoRow
        /\ UNCHANGED <<dbJob, mem, ret, ctl, out, enq, ready, pc, st>>
    BY <1>1 DEF NewRun, job, slots
  <2>2. /\ \A s \in Runs : s # r => make'[s] = make[s] /\ dbRun'[s] = dbRun[s]
        /\ dbRun'[r].con = "none" /\ dbRun[r].con = "none"
    BY <2>1 DEF TypeOK, StoredTypes, RunTypes, Queued, NoRow
  <2> QED
    BY <2>1, <2>2, CreateEnds DEF Ends
<1>2. CASE MakeJob(r) \/ JobMade(r)
  <2>1. /\ UNCHANGED <<dbRun, ret, ctl, out, enq, ready, pc>>
        /\ make[r].pc \in {"row", "job", "status"}
    BY <1>2 DEF MakeJob, JobMade, job, slots
  <2>2. /\ \A s \in Runs : s # r => make'[s] = make[s]
        /\ \A k \in Jobs : mem'[k] = mem[k] \/ mem'[k].con # "cancelled"
        /\ \A k \in Jobs : dbJob'[k] = dbJob[k] \/ dbJob'[k].con # "cancelled"
    BY <1>2 DEF MakeJob, JobMade, job, TypeOK, StoredTypes, JobTypes, RunTypes, Queued
  <2>3. \A s \in Runs : /\ st'[s].cancelled = st[s].cancelled
                        /\ st'[s].started = st[s].started /\ st'[s].fin = st[s].fin
                        /\ s # r => st'[s].live = st[s].live
    BY <1>2 DEF MakeJob, JobMade, Enter, TypeOK, RunTypes, Flags
  <2>4. dbRun[r].con \in Ends => Done(r) /\ st[r].cancelled
    BY <2>1 DEF DoneInv, Done, Concluded
  <2>5. dbRun'[r].con \in Ends => Done(r)'
    BY <2>1, <2>3, <2>4 DEF Done, JobsOf
  <2> QED
    BY <2>1, <2>2, <2>3, <2>5, CreateEnds
<1>3. CASE AllMade(r)
  <2>1. /\ Advance(r, {}, st) /\ make[r].pc = "status" /\ Rest(r) = {}
        /\ make' = [make EXCEPT ![r] = NoMake]
        /\ UNCHANGED <<mem, ret, ctl, dbJob, out>>
    BY <1>3 DEF AllMade, job
  <2>2. /\ \A s \in Runs : make'[s] = make[s] \/ make'[s] = NoMake
        /\ make'[r].pc = "idle"
    BY <2>1 DEF TypeOK, RunTypes, NoMake
  <2>3. st \in [Runs -> Flags]
    BY DEF TypeOK, RunTypes
  <2>4. ~st[r].cancelled => \A k \in JobsOf(r) : mem[k].st # "none"
    <3>1. make[r].at \in Nat /\ \A k \in JobsOf(r) : k \in Nat
      BY JobNumbers, OneRunEach DEF TypeOK, RunTypes
    <3>2. \A k \in JobsOf(r) : ~(k > make[r].at)
      BY <2>1 DEF Rest
    <3> QED
      BY <2>1, <3>1, <3>2 DEF RowsInv, Made
  <2> QED
    BY <2>1, <2>2, <2>3, <2>4, AdvanceEnds
<1>4. CASE AbortJob(r) \/ AbortStatus(r)
  <2>1. /\ UNCHANGED <<dbRun, mem, ret, ctl, out, enq, ready, pc, st>>
        /\ make[r].pc \notin {"row", "job", "status"}
    BY <1>4 DEF AbortJob, AbortStatus, job, slots
  <2>2. /\ \A s \in Runs : s # r => make'[s] = make[s]
        /\ make'[r].pc \notin {"row", "job", "status"}
        /\ \A k \in Jobs : dbJob'[k] = dbJob[k] \/ dbJob'[k].con # "cancelled"
    <3>1. CASE AbortStatus(r)
      <4>1. make' = [make EXCEPT ![r].pc = "abortStatus"] /\ UNCHANGED dbJob
        BY <3>1 DEF AbortStatus
      <4> QED
        BY <4>1 DEF TypeOK, RunTypes
    <3>2. CASE AbortJob(r) /\ Rest(r) \cap Present(r) = {}
      <4>1. make' = [make EXCEPT ![r] = NoMake] /\ UNCHANGED dbJob
        BY <3>2 DEF AbortJob
      <4> QED
        BY <4>1 DEF TypeOK, RunTypes, NoMake
    <3>3. CASE AbortJob(r) /\ Rest(r) \cap Present(r) # {}
      <4>1. PICK q : /\ dbJob' = [dbJob EXCEPT ![q] = Completed("skipped")]
                     /\ make' = [make EXCEPT ![r] = [pc |-> "abortJob", at |-> q]]
        BY <3>3 DEF AbortJob
      <4> QED
        BY <4>1 DEF TypeOK, RunTypes, StoredTypes, Completed
    <3> QED
      BY <1>4, <3>1, <3>2, <3>3
  <2>3. dbRun[r].con \in Ends => Done(r)'
    BY <2>1, <2>2, DoneStays DEF DoneInv
  <2> QED
    BY <2>1, <2>2, <2>3, CreateEnds
<1>5. CASE MakeFails(r)
  <2>1. /\ make[r].pc \in {"row", "job", "status"}
        /\ make' = [make EXCEPT ![r] = [pc |-> "abort", at |-> 0]]
        /\ dbRun' = [dbRun EXCEPT ![r] = Completed("failure")]
        /\ st' = [st EXCEPT ![r].live = FALSE]
        /\ UNCHANGED <<dbJob, mem, ret, ctl, out, enq, ready, pc>>
    BY <1>5 DEF MakeFails, job, slots
  <2>2. /\ \A s \in Runs : s # r => make'[s] = make[s] /\ dbRun'[s] = dbRun[s]
        /\ make'[r].pc = "abort" /\ dbRun'[r] = Completed("failure")
    BY <2>1 DEF TypeOK, RunTypes, StoredTypes
  <2>3. /\ \A s \in Runs : /\ st'[s].cancelled = st[s].cancelled
                           /\ st'[s].started = st[s].started /\ st'[s].fin = st[s].fin
                           /\ s # r => st'[s].live = st[s].live
        /\ ~st'[r].live
    BY <2>1 DEF TypeOK, RunTypes, Flags
  <2>4. dbRun[r].con \in Ends => st[r].cancelled
    BY <2>1 DEF DoneInv, Done, Concluded
  <2>5. \A k \in JobsOf(r) : pc[k] # "running"
    BY <2>1, OneRunEach DEF ClaimInv
  <2>6. ~st[r].cancelled => JobsOf(r) \cap enq = {}
    BY <2>1 DEF RowsInv, Made
  <2>7. Done(r)'
    BY <2>1, <2>2, <2>3, <2>5, <2>6 DEF Done, Concluded, Completed, JobsOf
  <2> QED
    BY <2>1, <2>2, <2>3, <2>4, <2>7, CreateEnds
<1> QED
  BY <1>1, <1>2, <1>3, <1>4, <1>5 DEF MakeStep

(* ---------------------- closing, crash and boot ----------------------- *)

LEMMA CloseEnds ==
  ASSUME TypeOK, OversStay, StartInv, DoneInv, NEW r \in Runs, CloseRun(r)
  PROVE  StartInv' /\ DoneInv' /\ EndedStep
<1>1. UNCHANGED <<mem, ret, ctl, dbJob, dbRun, out, enq, ready, pc, make>>
  BY DEF CloseRun, db, job, slots
<1>2. \A s \in Runs : /\ st'[s].cancelled = st[s].cancelled
                      /\ st[s].started => st'[s].started
                      /\ st'[s].live => st[s].live
                      /\ st[s].fin # "open" => st'[s].fin # "open"
  BY DEF CloseRun, TypeOK, RunTypes, Flags
<1>3. StartInv'
  BY <1>1, <1>2 DEF StartInv, Fresh, JobsOf
<1>4. DoneInv'
  BY <1>1, <1>2, DoneStays DEF DoneInv
<1> QED
  BY <1>1, <1>3, <1>4 DEF EndedStep

\* Nothing of the engine is in memory when the process dies or boots.
LEMMA RestartEnds ==
  ASSUME TypeOK, SlotInv, BootInv, ClaimInv, StartInv, DoneInv, Crash \/ BootStep
  PROVE  StartInv' /\ DoneInv' /\ EndedStep
<1>1. /\ enq' = {} /\ \A k \in Jobs : pc'[k] = "idle"
      /\ \A s \in Runs : make'[s].pc = "idle" /\ ~st'[s].live
      /\ StartInv'
  <2>1. CASE Crash
    <3>1. /\ enq' = {} /\ \A k \in Jobs : mem'[k] = NoRow /\ pc'[k] = "idle"
          /\ \A k \in Jobs : ctl'[k] = "none"
          /\ \A s \in Runs : make'[s] = NoMake /\ st'[s] = NoFlags
      BY <2>1 DEF Crash
    <3> QED
      BY <3>1, OneRunEach DEF StartInv, Fresh, NoRow, NoMake, NoFlags, JobsOf
  <2>2. CASE BootStep
    <3>1. phase # "up" /\ UNCHANGED <<mem, ret, out, ctl, pc, enq, st, make>>
      BY <2>2 DEF BootStep, SweepJobs, SweepRuns, SweepStatus, CleanBoxes, job, slots
    <3>2. enq = {} /\ \A k \in Jobs : pc[k] = "idle"
      BY <3>1 DEF BootInv, SlotInv, Busy
    <3>3. StartInv'
      BY <3>1, <3>2, OneRunEach DEF StartInv, Fresh, JobsOf
    <3> QED
      BY <3>1, <3>2, <3>3 DEF BootInv, ClaimInv
  <2> QED
    BY <2>1, <2>2
<1>2. \A s \in Runs : dbRun'[s] = dbRun[s] \/ (dbRun[s].st \in {"queued", "running"}
                                                 /\ dbRun'[s] = Completed("failure"))
  <2>1. dbRun' = dbRun \/ dbRun' = Interrupt(dbRun, Runs)
    BY DEF Crash, BootStep, SweepJobs, SweepRuns, SweepStatus, CleanBoxes, db
  <2> QED
    BY <2>1 DEF Interrupt, Open
<1>3. ASSUME NEW s \in Runs, dbRun'[s].con \in Ends PROVE Done(s)'
  <2>1. dbRun'[s].st = "completed"
    BY <1>2, <1>3 DEF DoneInv, Done, Completed
  <2> QED
    BY <1>1, <2>1, OneRunEach DEF Done, Concluded, JobsOf
<1>4. EndedStep
  BY <1>2 DEF EndedStep, DoneInv, Done
<1> QED
  BY <1>1, <1>3, <1>4 DEF DoneInv

LEMMA ClaimStays ==
  ASSUME ClaimInv,
         \A k \in Jobs : pc'[k] = "running" =>
           pc[k] = "running" \/ make[RunOf[k]].pc = "idle",
         \A r \in Runs : make'[r].pc # "idle" =>
           make[r].pc # "idle" \/ \A k \in JobsOf(r) : pc'[k] # "running",
         \A x \in Skippers : skip'[x].pc = "update" =>
           RunOf[skip'[x].at] = LoopRun(x) \/ skip'[x] = skip[x],
         phase' # "up" => phase # "up",
         \A r \in Runs : st'[r].live => st[r].live \/ phase' = "up"
  PROVE  ClaimInv'
BY OneRunEach DEF ClaimInv, LoopRun, JobsOf

LEMMA AdvanceClaims ==
  ASSUME TypeOK, SlotInv, ClaimInv, NEW r \in Runs, NEW ended,
         NEW flags \in [Runs -> Flags], Advance(r, ended, flags), UNCHANGED phase,
         \A s \in Runs : make'[s] = make[s] \/ make'[s] = NoMake,
         \A x \in Skippers : skip'[x] = skip[x] \/ skip'[x] = NoSkip,
         \A s \in Runs : flags[s].live = st[s].live
  PROVE  ClaimInv'
<1>1. PICK S \in SUBSET (ready \cup Eligible(r)) :
        pc' = [j \in Jobs |-> IF j \in S THEN "secrets"
                              ELSE IF j \in ended THEN "idle" ELSE pc[j]]
  BY DEF Advance, Pump
<1>2. \A k \in Jobs : pc'[k] = "running" => pc[k] = "running"
  BY <1>1
<1>3. \A s \in Runs : st'[s].live = st[s].live
  BY DEF Advance, FinishRun, Flags
<1> QED
  BY <1>2, <1>3, ClaimStays DEF NoMake, NoSkip

LEMMA LoopClaims ==
  ASSUME TypeOK, SlotInv, ClaimInv, NEW x \in Skippers, NEW at,
         NEW flags \in [Runs -> Flags], LoopOn(x, at, flags), UNCHANGED <<make, phase>>,
         \A s \in Runs : flags[s].live = st[s].live, x \in Jobs => flags = st
  PROVE  ClaimInv'
<1> DEFINE queued == {k \in {l \in Scope(x) : l > at} : mem[k].st = "queued"}
<1>1. CASE queued = {}
  <2>1. /\ IF x \in Runs THEN Advance(x, {}, flags) ELSE Advance(RunOf[x], {x}, st)
        /\ skip' = [skip EXCEPT ![x] = NoSkip]
    BY <1>1 DEF LoopOn, JobEnds
  <2>2. \A y \in Skippers : skip'[y] = skip[y] \/ skip'[y] = NoSkip
    BY <2>1 DEF TypeOK, RunTypes
  <2>3. CASE x \in Runs
    BY <2>1, <2>2, <2>3, AdvanceClaims
  <2>4. CASE x \notin Runs
    <3>1. Advance(RunOf[x], {x}, st) /\ flags = st /\ RunOf[x] \in Runs
      BY <2>1, <2>4, OneRunEach DEF Skippers
    <3> QED
      BY <2>2, <3>1, AdvanceClaims
  <2> QED
    BY <2>3, <2>4
<1>2. CASE queued # {}
  <2> DEFINE q == First(queued)
  <2>1. RunOf[q] = LoopRun(x)
    BY <1>2, FirstIn, ScopeOfJobs, FreshScope, OneRunEach
  <2>2. /\ pc' = (IF x \in Runs THEN pc ELSE [pc EXCEPT ![x] = "failFast"])
        /\ skip' = [skip EXCEPT ![x] = [pc |-> "update", at |-> q]]
        /\ st' = flags
    BY <1>2 DEF LoopOn
  <2> HIDE DEF q
  <2>3. \A k \in Jobs : pc'[k] = "running" => pc[k] = "running"
    BY <2>2 DEF TypeOK, SlotTypes
  <2>4. \A y \in Skippers : skip'[y] = skip[y] \/ (y = x /\ skip'[y].at = q)
    BY <2>2 DEF TypeOK, RunTypes
  <2> QED
    BY <2>1, <2>2, <2>3, <2>4, ClaimStays
<1> QED
  BY <1>1, <1>2

LEMMA RunClaims ==
  ASSUME TypeOK, SlotInv, MakeInv, BootInv, ClaimInv, NEW r \in Runs,
         \/ NewRun(r) \/ MakeStep(r) \/ MakeFails(r) \/ Cancel(r)
         \/ CloseRun(r) \/ CloseFault(r)
  PROVE  ClaimInv'
<1>1. st \in [Runs -> Flags] /\ UNCHANGED phase
  BY DEF NewRun, MakeStep, MakeJob, JobMade, AllMade, AbortJob, AbortStatus, MakeFails,
     Cancel, CloseRun, CloseFault, TypeOK, RunTypes
<1>2. CASE AllMade(r)
  <2>1. Advance(r, {}, st) /\ make' = [make EXCEPT ![r] = NoMake] /\ skip' = skip
    BY <1>2 DEF AllMade
  <2>2. \A s \in Runs : make'[s] = make[s] \/ make'[s] = NoMake
    BY <2>1 DEF TypeOK, RunTypes
  <2> QED
    BY <1>1, <2>1, <2>2, AdvanceClaims
<1>3. CASE Cancel(r)
  <2> DEFINE flags == [st EXCEPT ![r].cancelled = TRUE]
  <2>1. LoopOn(r, 0, flags) /\ r \in Skippers /\ r \notin Jobs /\ make' = make
    BY <1>3, ConstantsAssumption DEF Cancel, Skippers
  <2>2. flags \in [Runs -> Flags] /\ \A s \in Runs : flags[s].live = st[s].live
    BY DEF TypeOK, RunTypes, Flags
  <2> HIDE DEF flags
  <2> QED
    BY <1>1, <2>1, <2>2, LoopClaims
<1>4. CASE ~AllMade(r) /\ ~Cancel(r)
  <2>1. UNCHANGED <<pc, skip>>
    BY <1>4 DEF NewRun, MakeStep, MakeJob, JobMade, AbortJob, AbortStatus, MakeFails,
       CloseRun, CloseFault, slots
  <2>2. \A s \in Runs : s # r => make'[s] = make[s]
    BY <1>4 DEF NewRun, MakeStep, MakeJob, JobMade, AbortJob, AbortStatus, MakeFails,
       CloseRun, CloseFault, TypeOK, RunTypes
  <2>3. make[r].pc # "idle" \/ make'[r] = make[r] \/ \A k \in JobsOf(r) : pc[k] # "running"
    <3>1. NewRun(r) => \A k \in JobsOf(r) : k \notin enq
      BY OneRunEach DEF NewRun, MakeInv, Untouched
    <3>2. CASE NewRun(r)
      BY <3>1, <3>2, OneRunEach DEF SlotInv, Busy
    <3>3. CASE ~NewRun(r)
      BY <1>4, <3>3 DEF MakeStep, MakeJob, JobMade, AbortJob, AbortStatus, MakeFails,
         CloseRun, CloseFault
    <3> QED
      BY <3>2, <3>3
  <2>4. \A s \in Runs : st'[s].live => st[s].live \/ make[s].pc = "row"
    <3>1. CASE MakeJob(r)
      <4>1. st' = [st EXCEPT ![r].live = @ \/ make[r].pc = "row"]
        BY <3>1 DEF MakeJob, Enter
      <4> QED
        BY <4>1 DEF TypeOK, RunTypes, Flags
    <3>2. CASE MakeFails(r)
      <4>1. st' = [st EXCEPT ![r].live = FALSE]
        BY <3>2 DEF MakeFails
      <4> QED
        BY <4>1 DEF TypeOK, RunTypes, Flags
    <3>3. CASE CloseRun(r)
      BY <3>3 DEF CloseRun, TypeOK, RunTypes, Flags
    <3>4. CASE CloseFault(r)
      BY <3>4 DEF CloseFault, TypeOK, RunTypes, Flags
    <3>5. CASE NewRun(r) \/ JobMade(r) \/ AbortJob(r) \/ AbortStatus(r)
      BY <3>5 DEF NewRun, JobMade, AbortJob, AbortStatus
    <3> QED
      BY <1>4, <3>1, <3>2, <3>3, <3>4, <3>5 DEF MakeStep
  <2>5. \A s \in Runs : st'[s].live => st[s].live \/ phase' = "up"
    BY <1>1, <2>4 DEF BootInv
  <2> QED
    BY <1>1, <2>1, <2>2, <2>3, <2>5, ClaimStays
<1> QED
  BY <1>2, <1>3, <1>4

LEMMA JobClaims ==
  ASSUME TypeOK, SlotInv, RowsInv, ClaimInv, NEW j \in Jobs, JobStep(j) \/ JobFault(j)
  PROVE  ClaimInv'
<1>1. /\ st \in [Runs -> Flags] /\ RunOf[j] \in Runs /\ j \in Skippers
      /\ UNCHANGED <<make, phase>>
  BY OneRunEach DEF JobStep, Decide, MarkRun, RunMarked, StartBox, StepStart, StepEnd,
     Destroy, FinishJob, Report, JobOver, JobFault, TypeOK, RunTypes, Skippers
<1>2. CASE JobEnds(j) /\ UNCHANGED skip
  BY <1>1, <1>2, AdvanceClaims DEF JobEnds
<1>3. CASE LoopOn(j, 0, st)
  BY <1>1, <1>3, LoopClaims
<1>4. CASE /\ \E to \in Pcs : Goto(j, to) /\ (to = "running" => Decide(j) /\ Wanted(j))
           /\ UNCHANGED skip /\ \A s \in Runs : st'[s].live = st[s].live
  <2>1. PICK to \in Pcs : Goto(j, to) /\ (to = "running" => Decide(j) /\ Wanted(j))
    BY <1>4
  <2>2. (\A k \in Jobs : k # j => pc'[k] = pc[k]) /\ pc'[j] = to
    BY <2>1 DEF Goto, TypeOK, SlotTypes
  <2>3. to = "running" => make[RunOf[j]].pc = "idle"
    <3>1. Decide(j) => j \in enq
      BY DEF Decide, SlotInv, Busy
    <3> QED
      BY <1>1, <2>1, <3>1, OneRunEach DEF Wanted, RowsInv, Made
  <2> QED
    BY <1>1, <1>4, <2>2, <2>3, ClaimStays
<1>5. \/ JobEnds(j) /\ UNCHANGED skip
      \/ LoopOn(j, 0, st)
      \/ /\ \E to \in Pcs : Goto(j, to) /\ (to = "running" => Decide(j) /\ Wanted(j))
         /\ UNCHANGED skip /\ \A s \in Runs : st'[s].live = st[s].live
  <2>1. CASE JobFault(j) \/ JobOver(j)
    BY <2>1 DEF JobFault, JobOver
  <2>2. CASE Decide(j)
    BY <2>2 DEF Decide, Pcs
  <2>3. CASE \/ MarkRun(j) \/ RunMarked(j) \/ StartBox(j) \/ StepStart(j)
             \/ StepEnd(j) \/ Destroy(j) \/ FinishJob(j) \/ Report(j)
    <3>1. PICK to \in {"runMark", "setup", "steps", "exec", "saved", "finish", "report",
                       "reported"} : Goto(j, to)
      BY <2>3 DEF MarkRun, RunMarked, StartBox, StepStart, StepEnd, Destroy, FinishJob, Report
    <3>2. to \in Pcs /\ to # "running"
      BY DEF Pcs
    <3>3. UNCHANGED skip /\ \A s \in Runs : st'[s].live = st[s].live
      BY <2>3 DEF MarkRun, RunMarked, StartBox, StepStart, StepEnd, Destroy, FinishJob, Report,
         TypeOK, RunTypes, Flags
    <3> QED
      BY <3>1, <3>2, <3>3
  <2> QED
    BY <2>1, <2>2, <2>3 DEF JobStep
<1> QED
  BY <1>2, <1>3, <1>4, <1>5

LEMMA SkipClaims ==
  ASSUME TypeOK, SlotInv, ClaimInv, NEW x \in Skippers,
         SkipAdopt(x) \/ SkipNext(x) \/ SkipFault(x)
  PROVE  ClaimInv'
<1>1. st \in [Runs -> Flags] /\ UNCHANGED <<make, phase>>
  BY DEF SkipAdopt, SkipNext, SkipFault, TypeOK, RunTypes
<1>2. CASE SkipNext(x)
  BY <1>1, <1>2, LoopClaims DEF SkipNext
<1>3. CASE SkipAdopt(x)
  <2>1. skip' = [skip EXCEPT ![x].pc = "status"] /\ UNCHANGED <<pc, st>>
    BY <1>3 DEF SkipAdopt, slots
  <2>2. \A y \in Skippers : skip'[y] = skip[y] \/ skip'[y].pc = "status"
    BY <2>1 DEF TypeOK, RunTypes
  <2> QED
    BY <1>1, <2>1, <2>2, ClaimStays
<1>4. CASE SkipFault(x)
  <2>1. /\ skip' = [skip EXCEPT ![x] = NoSkip]
        /\ IF x \in Runs THEN UNCHANGED <<pc, st>> ELSE JobEnds(x)
    BY <1>4 DEF SkipFault, slots
  <2>2. \A y \in Skippers : skip'[y] = skip[y] \/ skip'[y] = NoSkip
    BY <2>1 DEF TypeOK, RunTypes
  <2>3. CASE x \in Runs
    BY <1>1, <2>1, <2>2, <2>3, ClaimStays DEF NoSkip
  <2>4. CASE x \notin Runs
    BY <1>1, <2>1, <2>2, <2>4, AdvanceClaims, OneRunEach DEF JobEnds, Skippers
  <2> QED
    BY <2>3, <2>4
<1> QED
  BY <1>2, <1>3, <1>4

LEMMA ClaimStep ==
  ASSUME TypeOK, SlotInv, MakeInv, RowsInv, BootInv, ClaimInv, [Next]_vars
  PROVE  ClaimInv'
<1>1. CASE Crash
  BY <1>1, OneRunEach DEF Crash, ClaimInv, NoFlags, NoSkip, NoMake
<1>2. CASE BootStep \/ SweepFault
  <2>1. phase # "up" /\ UNCHANGED <<pc, st, make, skip>>
    BY <1>2 DEF BootStep, SweepJobs, SweepRuns, SweepStatus, CleanBoxes, SweepFault, slots
  <2> QED
    BY <2>1, ClaimStays
<1>3. CASE UNCHANGED vars
  BY <1>3, ClaimStays DEF vars, slots
<1> QED
  BY <1>1, <1>2, <1>3, RunClaims, JobClaims, SkipClaims DEF Next

\* The steps of a living process in which no query is rejected.
LEMMA LiveEnds ==
  ASSUME TypeOK, SlotInv, MakeInv, RowsInv, GreenInv, ClaimInv, StartInv, DoneInv,
         \/ \E r \in Runs : NewRun(r) \/ MakeStep(r) \/ MakeFails(r) \/ Cancel(r) \/ CloseRun(r)
         \/ \E j \in Jobs : JobStep(j)
         \/ \E x \in Skippers : SkipAdopt(x) \/ SkipNext(x)
  PROVE  StartInv' /\ DoneInv' /\ EndedStep
<1>1. ASSUME NEW r \in Runs,
             NewRun(r) \/ MakeStep(r) \/ MakeFails(r) \/ Cancel(r) \/ CloseRun(r)
      PROVE  StartInv' /\ DoneInv' /\ EndedStep
  <2>1. OversStay
    BY <1>1, MakeRows, CancelRows, CloseRows
  <2> QED
    BY <1>1, <2>1, MakeEnds, CancelEnds, CloseEnds
<1>2. ASSUME NEW j \in Jobs, JobStep(j) PROVE StartInv' /\ DoneInv' /\ EndedStep
  <2>1. OversStay
    BY <1>2, JobRows
  <2> QED
    BY <1>2, <2>1, JobEndsRuns
<1>3. ASSUME NEW x \in Skippers, SkipAdopt(x) \/ SkipNext(x)
      PROVE  StartInv' /\ DoneInv' /\ EndedStep
  <2>1. OversStay
    BY <1>3, SkipRows
  <2> QED
    BY <1>3, <2>1, SkipEnds
<1> QED
  BY <1>1, <1>2, <1>3

LEMMA EndsStep ==
  ASSUME TypeOK, TypeOK', SlotInv, MakeInv, RowsInv, GreenInv, BootInv, BoxInv, EndInv,
         [Next]_vars
  PROVE  EndInv' /\ (Unused("fault")' => EndedStep)
<1>1. ClaimInv /\ ClaimInv'
  BY ClaimStep DEF EndInv
<1>2. CASE Spend("fault")
  BY <1>1, <1>2, FaultUsed DEF EndInv
<1>3. CASE ~Spend("fault") /\ Unused("fault")'
  <2>1. left' = left \/ \E e \in Events : Spend(e)
    BY DEF Next, NewRun, MakeStep, MakeJob, JobMade, AllMade, AbortJob, AbortStatus,
       MakeFails, Cancel, CloseRun, CloseFault, JobStep, Decide, MarkRun, RunMarked,
       StartBox, StepStart, StepEnd, Destroy, Remove, FinishJob, Report, JobOver, JobFault,
       SkipAdopt, SkipNext, SkipFault, Crash, BootStep, SweepJobs, SweepRuns, SweepStatus,
       CleanBoxes, SweepFault, vars, Events
  <2>2. LeftFalls
    BY <2>1, LeftStays
  <2>3. StartInv /\ DoneInv
    BY <1>3, <2>2, BudgetStays DEF EndInv
  <2>4. \/ \E r \in Runs : NewRun(r) \/ MakeStep(r) \/ MakeFails(r) \/ Cancel(r) \/ CloseRun(r)
        \/ \E j \in Jobs : JobStep(j)
        \/ \E x \in Skippers : SkipAdopt(x) \/ SkipNext(x)
        \/ Crash \/ BootStep \/ UNCHANGED vars
    BY <1>3 DEF Next, CloseFault, JobFault, SkipFault, SweepFault
  <2>5. CASE UNCHANGED vars
    <3>1. UNCHANGED <<dbRun, dbJob, mem, ret, ctl, out, pc, enq, ready, st, make>>
      BY <2>5 DEF vars, db, job, slots
    <3>2. StartInv'
      BY <2>3, <3>1 DEF StartInv, Fresh, JobsOf
    <3>3. DoneInv'
      BY <2>3, <3>1 DEF DoneInv, Done, Concluded, Over, JobsOf
    <3> QED
      BY <1>1, <3>1, <3>2, <3>3 DEF EndInv, EndedStep
  <2>6. (StartInv' /\ DoneInv' /\ EndedStep) \/ UNCHANGED vars
    BY <1>1, <2>3, <2>4, LiveEnds, RestartEnds
  <2> QED
    BY <1>1, <2>5, <2>6 DEF EndInv
<1>4. CASE ~Unused("fault")'
  BY <1>1, <1>4 DEF EndInv
<1> QED
  BY <1>2, <1>3, <1>4

\* While no query is rejected, nothing writes the row of a run that ended, unless it was
\* cancelled: createRun, a late job and the boot sweep all find it closed.
THEOREM EndedRows == Spec => EndedRunStays
<1>1. Init => EndInv
  <2> SUFFICES ASSUME Init PROVE EndInv
    OBVIOUS
  <2>1. /\ \A r \in Runs : dbRun[r] = NoRow
        /\ \A k \in Jobs : mem[k] = NoRow /\ pc[k] = "idle" /\ ctl[k] = "none"
        /\ enq = {} /\ phase = "up" /\ \A x \in Skippers : skip[x] = NoSkip
    BY DEF Init, InitMemory
  <2>2. \A r \in Runs : \A k \in JobsOf(r) : k \in Jobs
    BY OneRunEach
  <2> QED
    BY <2>1, <2>2
    DEF EndInv, ClaimInv, StartInv, DoneInv, Fresh, Ends, NoRow, NoSkip
<1>2. TypeOK /\ TypeOK' /\ SlotInv /\ MakeInv /\ (RowsInv /\ GreenInv /\ BootInv)
        /\ BoxInv /\ EndInv /\ [Next]_vars => EndInv'
  BY EndsStep
<1>3. TypeOK /\ TypeOK' /\ SlotInv /\ MakeInv /\ (RowsInv /\ GreenInv /\ BootInv)
        /\ BoxInv /\ EndInv /\ [Next]_vars
        => [\A r \in Runs :
              /\ dbRun[r].con \in {"success", "failure", "skipped"}
              /\ ~st[r].cancelled /\ left'["fault"] = Budget["fault"]
              => dbRun'[r] = dbRun[r]]_vars
  BY EndsStep DEF EndedStep, Ends, Unused
<1> QED
  BY <1>1, <1>2, <1>3, TypeCorrect, SlotInvariant, ChecksInvariant, RowsInvariant,
     NeedsInvariant, PTL DEF Spec, EndedRunStays
=============================================================================

--------------------------- MODULE AgentJobsProofs ---------------------------
(* Theorems about AgentJobs, for every set of prompts and every number of  *)
(* stops, withdrawals, workspace operations, crashes and faults.           *)
EXTENDS AgentJobs, SequenceTheorems, TLAPS

(* ------------------------------ invariants --------------------------- *)

\* The records keep the fields the invariant reads; nothing here depends on the rest.
Fields ==
  /\ "status" \in DOMAIN row
  /\ {"pc", "cur", "aborted", "stopped"} \subseteq DOMAIN job
  /\ DOMAIN req = Items
  /\ left \in [Events -> Nat]
  /\ left["fault"] <= Budget["fault"]

\* One start is under way at a time, and none goes on while the process is down.
OneStart ==
  /\ \A i, k \in Starting : i = k
  /\ phase = "down" => Starting = {}

\* A job that has flushed its end has given up 'running', unless the flush was rejected.
EndIsFlushed == job.pc = "finish" /\ Unused("fault") => row.status # "running"

\* What a stop has reached stays aborted until it is gone, and pops nothing any more.
StopHolds ==
  job.stopped => job.aborted /\ job.pc \notin BetweenTurns \cup {"none"}

\* No start is past its test during an operation that saw none.
OpSawNone ==
  op.pc = "run" /\ ~op.raced => ~Live /\ \A i \in Items : req[i].pc # "written"

JobInv == Fields /\ OneStart /\ RunningHasJob /\ EndIsFlushed /\ StopHolds /\ OpSawNone

(* --------------------------- preservation ----------------------------- *)

LEMMA RequestSteps ==
  ASSUME JobInv, NEW i \in Items,
         StartRead(i) \/ EnqueueRead(i) \/ DequeueRead(i) \/ StartRefused(i) \/
                StartQueues(i) \/ StartWrites(i) \/ StartAttaches(i) \/ EnqueueWrite(i)
  PROVE  JobInv'
<1>1. CASE StartRead(i)
  <2>1. Fields'
    BY <1>1 DEF JobInv, Fields, Over, StartRead
  <2>2. OneStart'
    BY <1>1 DEF JobInv, Fields, OneStart, Starting, Over, StartRead
  <2>3. RunningHasJob' /\ EndIsFlushed' /\ StopHolds' /\ OpSawNone'
    BY <1>1 DEF JobInv, Fields, RunningHasJob, Unused, Live, EndIsFlushed, OneStart,
           Starting, StopHolds, BetweenTurns, OpSawNone, Over, StartRead
  <2> QED
    BY <2>1, <2>2, <2>3 DEF JobInv
<1>2. CASE EnqueueRead(i)
  <2>1. Fields'
    BY <1>2 DEF JobInv, Fields, EnqueueRead
  <2>2. OneStart'
    BY <1>2 DEF JobInv, Fields, OneStart, Starting, EnqueueRead
  <2>3. RunningHasJob' /\ EndIsFlushed' /\ StopHolds' /\ OpSawNone'
    BY <1>2 DEF JobInv, Fields, RunningHasJob, Unused, Live, EndIsFlushed, OneStart,
           Starting, StopHolds, BetweenTurns, OpSawNone, EnqueueRead
  <2> QED
    BY <2>1, <2>2, <2>3 DEF JobInv
<1>3. CASE DequeueRead(i)
  <2>1. Fields'
    BY <1>3 DEF JobInv, Fields, Spend, Events, DequeueRead
  <2>2. OneStart' /\ RunningHasJob' /\ EndIsFlushed' /\ StopHolds' /\ OpSawNone'
    BY <1>3 DEF JobInv, Fields, OneStart, Starting, RunningHasJob, Unused, Live,
           EndIsFlushed, StopHolds, BetweenTurns, OpSawNone, Spend, Events, DequeueRead
  <2> QED
    BY <2>1, <2>2 DEF JobInv
<1>4. CASE StartRefused(i)
  <2>1. Fields'
    BY <1>4 DEF JobInv, Fields, Over, StartRefused
  <2>2. OneStart'
    BY <1>4 DEF JobInv, Fields, OneStart, Starting, Over, StartRefused
  <2>3. RunningHasJob' /\ EndIsFlushed' /\ StopHolds' /\ OpSawNone'
    BY <1>4 DEF JobInv, Fields, RunningHasJob, Unused, Live, EndIsFlushed, OneStart,
           Starting, StopHolds, BetweenTurns, OpSawNone, Over, StartRefused
  <2> QED
    BY <2>1, <2>2, <2>3 DEF JobInv
<1>5. CASE StartQueues(i)
  <2>1. Fields'
    BY <1>5 DEF JobInv, Fields, WriteQueue, Over, StartQueues
  <2>2. OneStart'
    BY <1>5 DEF JobInv, Fields, OneStart, Starting, WriteQueue, Over, StartQueues
  <2>3. RunningHasJob' /\ EndIsFlushed' /\ StopHolds' /\ OpSawNone'
    BY <1>5 DEF JobInv, Fields, RunningHasJob, Unused, Live, EndIsFlushed, OneStart,
           Starting, StopHolds, BetweenTurns, OpSawNone, WriteQueue, Over, StartQueues
  <2> QED
    BY <2>1, <2>2, <2>3 DEF JobInv
<1>6. CASE StartWrites(i)
  <2>1. Fields'
    BY <1>6 DEF JobInv, Fields, Over, StartWrites
  <2>2. OneStart'
    BY <1>6 DEF JobInv, Fields, OneStart, Starting, Over, StartWrites
  <2>3. RunningHasJob'
    BY <1>6 DEF JobInv, Fields, RunningHasJob, Unused, Live, EndIsFlushed, OneStart,
           Starting, Over, StartWrites
  <2>4. EndIsFlushed'
    BY <1>6 DEF JobInv, Fields, EndIsFlushed, Unused, Live, Over, StartWrites
  <2>5. OpSawNone'
    BY <1>6 DEF JobInv, Fields, OpSawNone, Live, Over, StartWrites
  <2>6. StopHolds'
    BY <1>6 DEF JobInv, Fields, StopHolds, BetweenTurns, Live, Over, StartWrites
  <2> QED
    BY <2>1, <2>2, <2>3, <2>4, <2>5, <2>6 DEF JobInv
<1>7. CASE StartAttaches(i)
  <2>1. Fields'
    BY <1>7 DEF JobInv, Fields, Over, NoJob, StartAttaches
  <2>2. OneStart'
    BY <1>7 DEF JobInv, Fields, OneStart, Starting, Over, NoJob, StartAttaches
  <2>3. RunningHasJob'
    BY <1>7 DEF JobInv, Fields, RunningHasJob, Unused, Live, EndIsFlushed, OneStart,
           Starting, Over, NoJob, StartAttaches
  <2>4. StopHolds'
    BY <1>7 DEF JobInv, Fields, StopHolds, BetweenTurns, Live, Over, NoJob, StartAttaches
  <2>5. OpSawNone'
    BY <1>7 DEF JobInv, Fields, OpSawNone, Live, Over, NoJob, StartAttaches
  <2>6. EndIsFlushed'
    BY <1>7 DEF JobInv, Fields, EndIsFlushed, Unused, Live, Over, NoJob, StartAttaches
  <2> QED
    BY <2>1, <2>2, <2>3, <2>4, <2>5, <2>6 DEF JobInv
<1>8. CASE EnqueueWrite(i)
  <2>1. Fields'
    BY <1>8 DEF JobInv, Fields, WriteQueue, Over, EnqueueWrite
  <2>2. OneStart'
    BY <1>8 DEF JobInv, Fields, OneStart, Starting, WriteQueue, Over, EnqueueWrite
  <2>3. RunningHasJob' /\ EndIsFlushed' /\ StopHolds' /\ OpSawNone'
    BY <1>8 DEF JobInv, Fields, RunningHasJob, Unused, Live, EndIsFlushed, OneStart,
           Starting, StopHolds, BetweenTurns, OpSawNone, WriteQueue, Over, EnqueueWrite
  <2> QED
    BY <2>1, <2>2, <2>3 DEF JobInv
<1> QED
  BY <1>1, <1>2, <1>3, <1>4, <1>5, <1>6, <1>7, <1>8

LEMMA DriverSteps ==
  ASSUME JobInv,
         DriveBegins \/ TurnMarks \/ SteerReads \/ SteerTaken \/ SteerApplied \/ TurnEnds \/
                TurnThrows \/ PopFollowup \/ NextTurn \/ CloseJob \/ JobGone
  PROVE  JobInv'
<1>1. CASE DriveBegins
  <2>1. Fields'
    BY <1>1 DEF JobInv, Fields, TurnLoad, DriveBegins
  <2>2. StopHolds'
    BY <1>1 DEF JobInv, Fields, StopHolds, BetweenTurns, Live, TurnLoad, DriveBegins
  <2>3. OneStart' /\ RunningHasJob' /\ EndIsFlushed' /\ OpSawNone'
    BY <1>1 DEF JobInv, Fields, OneStart, Starting, RunningHasJob, Unused, Live,
           EndIsFlushed, OpSawNone, TurnLoad, DriveBegins
  <2> QED
    BY <2>1, <2>2, <2>3 DEF JobInv
<1>2. CASE TurnMarks
  <2>1. Fields'
    BY <1>2 DEF JobInv, Fields, TurnMarks
  <2>2. RunningHasJob'
    BY <1>2 DEF JobInv, Fields, RunningHasJob, Unused, Live, EndIsFlushed, OneStart,
           Starting, TurnMarks
  <2>3. StopHolds'
    BY <1>2 DEF JobInv, Fields, StopHolds, BetweenTurns, Live, TurnMarks
  <2>4. OneStart' /\ EndIsFlushed' /\ OpSawNone'
    BY <1>2 DEF JobInv, Fields, OneStart, Starting, EndIsFlushed, Unused, Live, OpSawNone,
           TurnMarks
  <2> QED
    BY <2>1, <2>2, <2>3, <2>4 DEF JobInv
<1>3. CASE SteerReads
  <2>1. Fields'
    BY <1>3 DEF JobInv, Fields, SteerReads
  <2>2. StopHolds'
    BY <1>3 DEF JobInv, Fields, StopHolds, BetweenTurns, Live, SteerReads
  <2>3. OneStart' /\ RunningHasJob' /\ EndIsFlushed' /\ OpSawNone'
    BY <1>3 DEF JobInv, Fields, OneStart, Starting, RunningHasJob, Unused, Live,
           EndIsFlushed, OpSawNone, SteerReads
  <2> QED
    BY <2>1, <2>2, <2>3 DEF JobInv
<1>4. CASE SteerTaken
  <2>1. Fields'
    BY <1>4 DEF JobInv, Fields, Take, WriteQueue, SteerTaken
  <2>2. StopHolds'
    BY <1>4 DEF JobInv, Fields, StopHolds, BetweenTurns, Live, Take, WriteQueue, SteerTaken
  <2>3. /\ job.pc = "steer" /\ job'.pc = "steered" /\ row'.status = row.status
        /\ UNCHANGED <<phase, req, op, left>>
    BY <1>4 DEF JobInv, Fields, Take, WriteQueue, SteerTaken
  <2>4. OneStart' /\ RunningHasJob' /\ EndIsFlushed' /\ OpSawNone'
    BY <2>3 DEF JobInv, OneStart, Starting, RunningHasJob, Unused, Live, EndIsFlushed, OpSawNone
  <2> QED
    BY <2>1, <2>2, <2>4 DEF JobInv
<1>5. CASE SteerApplied
  <2>1. Fields'
    BY <1>5 DEF JobInv, Fields, SteerApplied
  <2>2. StopHolds'
    BY <1>5 DEF JobInv, Fields, StopHolds, BetweenTurns, Live, SteerApplied
  <2>3. OneStart' /\ RunningHasJob' /\ EndIsFlushed' /\ OpSawNone'
    BY <1>5 DEF JobInv, Fields, OneStart, Starting, RunningHasJob, Unused, Live,
           EndIsFlushed, OpSawNone, SteerApplied
  <2> QED
    BY <2>1, <2>2, <2>3 DEF JobInv
<1>6. CASE TurnEnds
  <2>1. Fields'
    BY <1>6 DEF JobInv, Fields, TurnEnds
  <2>2. StopHolds'
    BY <1>6 DEF JobInv, Fields, StopHolds, BetweenTurns, Live, TurnEnds
  <2>3. OneStart' /\ RunningHasJob' /\ EndIsFlushed' /\ OpSawNone'
    BY <1>6 DEF JobInv, Fields, OneStart, Starting, RunningHasJob, Unused, Live,
           EndIsFlushed, OpSawNone, TurnEnds
  <2> QED
    BY <2>1, <2>2, <2>3 DEF JobInv
<1>7. CASE TurnThrows
  <2>1. Fields'
    BY <1>7 DEF JobInv, Fields, Spend, Events, TurnThrows
  <2>2. StopHolds'
    BY <1>7 DEF JobInv, Fields, StopHolds, BetweenTurns, Live, Spend, Events, TurnThrows
  <2>3. OneStart' /\ RunningHasJob' /\ EndIsFlushed' /\ OpSawNone'
    BY <1>7 DEF JobInv, Fields, OneStart, Starting, RunningHasJob, Unused, Live,
           EndIsFlushed, OpSawNone, Spend, Events, TurnThrows
  <2> QED
    BY <2>1, <2>2, <2>3 DEF JobInv
<1>8. CASE PopFollowup
  <2>1. Fields'
    BY <1>8 DEF JobInv, Fields, Take, WriteQueue, PopFollowup
  <2>2. StopHolds'
    BY <1>8 DEF JobInv, Fields, StopHolds, BetweenTurns, Live, Take, WriteQueue, PopFollowup
  <2>3. /\ job'.pc \in {"close", "popped"} /\ row'.status = row.status
        /\ UNCHANGED <<phase, req, op, left>>
    BY <1>8 DEF JobInv, Fields, Take, WriteQueue, PopFollowup
  <2>4. OneStart' /\ RunningHasJob' /\ EndIsFlushed' /\ OpSawNone'
    BY <1>8, <2>3 DEF JobInv, OneStart, Starting, RunningHasJob, Unused, Live, EndIsFlushed,
           OpSawNone, PopFollowup
  <2> QED
    BY <2>1, <2>2, <2>4 DEF JobInv
<1>9. CASE NextTurn
  <2>1. Fields'
    BY <1>9 DEF JobInv, Fields, TurnLoad, NextTurn
  <2>2. StopHolds'
    BY <1>9 DEF JobInv, Fields, StopHolds, BetweenTurns, Live, TurnLoad, NextTurn
  <2>3. OneStart' /\ RunningHasJob' /\ EndIsFlushed' /\ OpSawNone'
    BY <1>9 DEF JobInv, Fields, OneStart, Starting, RunningHasJob, Unused, Live,
           EndIsFlushed, OpSawNone, TurnLoad, NextTurn
  <2> QED
    BY <2>1, <2>2, <2>3 DEF JobInv
<1>10. CASE CloseJob
  <2>1. /\ job.pc = "close" /\ job'.pc = "finish"
        /\ job'.stopped = job.stopped /\ job'.aborted = job.aborted
        /\ DOMAIN job' = DOMAIN job
        /\ UNCHANGED <<phase, req, op>>
    BY <1>10 DEF JobInv, Fields, CloseJob
  <2>2. CASE row' = [row EXCEPT !.status = "idle", !.asked = job.mem] /\ left' = left
    <3>1. row'.status = "idle" /\ "status" \in DOMAIN row'
      BY <2>2 DEF JobInv, Fields
    <3> QED
      BY <2>1, <2>2, <3>1 DEF JobInv, Fields, OneStart, Starting, RunningHasJob, EndIsFlushed,
             StopHolds, BetweenTurns, OpSawNone, Unused, Live
  <2>3. CASE Spend("fault") /\ row' = row
    <3>1. /\ left' \in [Events -> Nat]
          /\ left'["fault"] <= Budget["fault"] /\ left'["fault"] # Budget["fault"]
      BY <2>3, ConstantsAssumption DEF JobInv, Fields, Spend, Events
    <3> QED
      BY <2>1, <2>3, <3>1 DEF JobInv, Fields, OneStart, Starting, RunningHasJob, EndIsFlushed,
             StopHolds, BetweenTurns, OpSawNone, Unused, Live
  <2> QED
    BY <1>10, <2>2, <2>3 DEF CloseJob
<1>11. CASE JobGone
  <2>1. Fields'
    BY <1>11 DEF JobInv, Fields, NoJob, JobGone
  <2>2. RunningHasJob'
    BY <1>11 DEF JobInv, Fields, RunningHasJob, Unused, Live, EndIsFlushed, OneStart,
           Starting, NoJob, JobGone
  <2>3. StopHolds'
    BY <1>11 DEF JobInv, Fields, StopHolds, BetweenTurns, Live, NoJob, JobGone
  <2>4. OneStart' /\ EndIsFlushed' /\ OpSawNone'
    BY <1>11 DEF JobInv, Fields, OneStart, Starting, EndIsFlushed, Unused, Live, OpSawNone,
           NoJob, JobGone
  <2> QED
    BY <2>1, <2>2, <2>3, <2>4 DEF JobInv
<1> QED
  BY <1>1, <1>2, <1>3, <1>4, <1>5, <1>6, <1>7, <1>8, <1>9, <1>10, <1>11

LEMMA OtherSteps ==
  ASSUME JobInv,
         DequeueWrite \/ StopReads \/ StopWrites \/ StopAborts \/ OpReads \/ OpAdmitted \/
                OpEnds \/ Crash \/ SweepStaleRuns
  PROVE  JobInv'
<1>1. CASE DequeueWrite
  <2>1. Fields'
    BY <1>1 DEF JobInv, Fields, WriteQueue, DequeueWrite
  <2>2. OneStart' /\ RunningHasJob' /\ EndIsFlushed' /\ StopHolds' /\ OpSawNone'
    BY <1>1 DEF JobInv, Fields, OneStart, Starting, RunningHasJob, Unused, Live,
           EndIsFlushed, StopHolds, BetweenTurns, OpSawNone, WriteQueue, DequeueWrite
  <2> QED
    BY <2>1, <2>2 DEF JobInv
<1>2. CASE StopReads
  <2>1. Fields'
    BY <1>2 DEF JobInv, Fields, Spend, Events, NoStop, StopReads
  <2>2. OneStart' /\ RunningHasJob' /\ EndIsFlushed' /\ StopHolds' /\ OpSawNone'
    BY <1>2 DEF JobInv, Fields, OneStart, Starting, RunningHasJob, Unused, Live,
           EndIsFlushed, StopHolds, BetweenTurns, OpSawNone, Spend, Events, NoStop,
           StopReads
  <2> QED
    BY <2>1, <2>2 DEF JobInv
<1>3. CASE StopWrites
  <2>1. Fields'
    BY <1>3 DEF JobInv, Fields, StopWrites
  <2>2. RunningHasJob'
    BY <1>3 DEF JobInv, Fields, RunningHasJob, Unused, Live, EndIsFlushed, OneStart,
           Starting, StopWrites
  <2>3. EndIsFlushed'
    BY <1>3 DEF JobInv, Fields, EndIsFlushed, Unused, Live, StopWrites
  <2>4. OneStart' /\ StopHolds' /\ OpSawNone'
    BY <1>3 DEF JobInv, Fields, OneStart, Starting, StopHolds, BetweenTurns, Live,
           OpSawNone, StopWrites
  <2> QED
    BY <2>1, <2>2, <2>3, <2>4 DEF JobInv
<1>4. CASE StopAborts
  <2>1. Fields'
    BY <1>4 DEF JobInv, Fields, StopAborts
  <2>2. StopHolds'
    BY <1>4 DEF JobInv, Fields, StopHolds, BetweenTurns, Live, StopAborts
  <2>3. OneStart' /\ RunningHasJob' /\ EndIsFlushed' /\ OpSawNone'
    BY <1>4 DEF JobInv, Fields, OneStart, Starting, RunningHasJob, Unused, Live,
           EndIsFlushed, OpSawNone, StopAborts
  <2> QED
    BY <2>1, <2>2, <2>3 DEF JobInv
<1>5. CASE OpReads
  <2>1. Fields'
    BY <1>5 DEF JobInv, Fields, Spend, Events, NoOp, OpReads
  <2>2. OpSawNone'
    BY <1>5 DEF JobInv, Fields, OpSawNone, Live, Spend, Events, NoOp, OpReads
  <2>3. OneStart' /\ RunningHasJob' /\ EndIsFlushed' /\ StopHolds'
    BY <1>5 DEF JobInv, Fields, OneStart, Starting, RunningHasJob, Unused, Live,
           EndIsFlushed, StopHolds, BetweenTurns, Spend, Events, NoOp, OpReads
  <2> QED
    BY <2>1, <2>2, <2>3 DEF JobInv
<1>6. CASE OpAdmitted
  <2>1. Fields'
    BY <1>6 DEF JobInv, Fields, NoOp, OpAdmitted
  <2>2. OpSawNone'
    BY <1>6 DEF JobInv, Fields, OpSawNone, Live, NoOp, OpAdmitted
  <2>3. OneStart' /\ RunningHasJob' /\ EndIsFlushed' /\ StopHolds'
    BY <1>6 DEF JobInv, Fields, OneStart, Starting, RunningHasJob, Unused, Live,
           EndIsFlushed, StopHolds, BetweenTurns, NoOp, OpAdmitted
  <2> QED
    BY <2>1, <2>2, <2>3 DEF JobInv
<1>7. CASE OpEnds
  <2>1. Fields'
    BY <1>7 DEF JobInv, Fields, NoOp, OpEnds
  <2>2. OpSawNone'
    BY <1>7 DEF JobInv, Fields, OpSawNone, Live, NoOp, OpEnds
  <2>3. OneStart' /\ RunningHasJob' /\ EndIsFlushed' /\ StopHolds'
    BY <1>7 DEF JobInv, Fields, OneStart, Starting, RunningHasJob, Unused, Live,
           EndIsFlushed, StopHolds, BetweenTurns, NoOp, OpEnds
  <2> QED
    BY <2>1, <2>2, <2>3 DEF JobInv
<1>8. CASE Crash
  <2>1. Fields'
    BY <1>8 DEF JobInv, Fields, Spend, Events, NoJob, NoOp, Over, Crash
  <2>2. OneStart'
    BY <1>8 DEF JobInv, Fields, OneStart, Starting, Spend, Events, NoJob, NoOp, Over, Crash
  <2>3. RunningHasJob'
    BY <1>8 DEF JobInv, Fields, RunningHasJob, Unused, Live, EndIsFlushed, OneStart,
           Starting, Spend, Events, NoJob, NoOp, Over, Crash
  <2>4. StopHolds'
    BY <1>8 DEF JobInv, Fields, StopHolds, BetweenTurns, Live, Spend, Events, NoJob, NoOp,
           Over, Crash
  <2>5. OpSawNone'
    BY <1>8 DEF JobInv, Fields, OpSawNone, Live, Spend, Events, NoJob, NoOp, Over, Crash
  <2>6. EndIsFlushed'
    BY <1>8 DEF JobInv, Fields, EndIsFlushed, Unused, Live, Spend, Events, NoJob, NoOp,
           Over, Crash
  <2> QED
    BY <2>1, <2>2, <2>3, <2>4, <2>5, <2>6 DEF JobInv
<1>9. CASE SweepStaleRuns
  <2>1. Fields'
    BY <1>9 DEF JobInv, Fields, SweepStaleRuns
  <2>2. OneStart'
    BY <1>9 DEF JobInv, Fields, OneStart, Starting, SweepStaleRuns
  <2>3. RunningHasJob'
    BY <1>9 DEF JobInv, Fields, RunningHasJob, Unused, Live, EndIsFlushed, OneStart,
           Starting, SweepStaleRuns
  <2>4. EndIsFlushed' /\ StopHolds' /\ OpSawNone'
    BY <1>9 DEF JobInv, Fields, EndIsFlushed, Unused, Live, StopHolds, BetweenTurns,
           OpSawNone, SweepStaleRuns
  <2> QED
    BY <2>1, <2>2, <2>3, <2>4 DEF JobInv
<1> QED
  BY <1>1, <1>2, <1>3, <1>4, <1>5, <1>6, <1>7, <1>8, <1>9

LEMMA Initially == Init => JobInv
BY ConstantsAssumption DEF Init, JobInv, Fields, OneStart, Starting, RunningHasJob, EndIsFlushed,
       StopHolds, OpSawNone, Live, NewRow, NoJob, NoOp, Over, Events

LEMMA Preserved == JobInv /\ [Next]_vars => JobInv'
<1> SUFFICES ASSUME JobInv, [Next]_vars PROVE JobInv'
  OBVIOUS
<1>1. CASE Next
  <2>1. CASE \E i \in Items : StartRead(i) \/ EnqueueRead(i) \/ ItemStep(i) \/ DequeueRead(i)
    BY <2>1, RequestSteps, Zenon DEF ItemStep
  <2>2. CASE DriverStep \/ TurnThrows
    BY <2>2, DriverSteps DEF DriverStep
  <2>3. CASE \/ DequeueWrite \/ StopReads \/ StopWrites \/ StopAborts \/ OpReads \/ OpAdmitted \/ OpEnds
             \/ Crash \/ SweepStaleRuns
    BY <2>3, OtherSteps
  <2> QED
    BY <1>1, <2>1, <2>2, <2>3 DEF Next
<1>2. CASE UNCHANGED vars
  BY <1>2 DEF vars, JobInv, Fields, OneStart, Starting, RunningHasJob, EndIsFlushed, StopHolds,
         OpSawNone, Unused, Live
<1> QED
  BY <1>1, <1>2

(* ------------------------------ theorems ----------------------------- *)

\* The start lock lets one request at a time pass the test of the row (OneStart), what a
\* stop has reached pops no further prompt (StopHolds), and an ended job leaves no row
\* 'running' (EndIsFlushed), in every reachable state.
THEOREM JobInvariant == Spec => []JobInv
BY Initially, Preserved, PTL DEF Spec

\* A conversation that says 'running' has a job or one about to be attached, unless a
\* flush was rejected: sweepStaleRuns and the last flush of driveJob see to it.
THEOREM RunningIsOwned == Spec => []RunningHasJob
<1>1. JobInv => RunningHasJob
  BY DEF JobInv
<1> QED
  BY <1>1, JobInvariant, PTL

\* No job runs during a workspace operation, unless its start had passed its own test
\* before the operation was admitted.
THEOREM OperationsExcludeJobs == Spec => []OpExcludesJob
<1>1. JobInv => OpExcludesJob
  BY DEF JobInv, OpSawNone, OpExcludesJob
<1> QED
  BY <1>1, JobInvariant, PTL

\* A stop that reaches a turn ends the job: the driver begins no other turn.
THEOREM StopIsFinal == Spec => StopEndsJob
<1>1. JobInv /\ [Next]_vars => [job.stopped /\ job'.pc # "none" => job'.cur = job.cur]_vars
  <2> SUFFICES ASSUME JobInv, Next, job.stopped, job'.pc # "none"
               PROVE  job'.cur = job.cur
    OBVIOUS
  <2>1. job.pc # "popped" /\ Live
    BY DEF JobInv, StopHolds, BetweenTurns, Live
  <2>2. CASE \E i \in Items : StartRead(i) \/ EnqueueRead(i) \/ ItemStep(i) \/ DequeueRead(i)
    BY <2>1, <2>2 DEF ItemStep, StartRead, EnqueueRead, DequeueRead, StartRefused, StartQueues,
           StartWrites, StartAttaches, EnqueueWrite
  <2>3. CASE DriverStep \/ TurnThrows
    <3>1. CASE DriveBegins
      BY <3>1 DEF JobInv, Fields, DriveBegins, TurnLoad
    <3>6. CASE NextTurn
      BY <2>1, <3>6 DEF NextTurn
    <3>7. CASE JobGone
      <4>1. job'.pc = "none"
        BY <3>7 DEF JobGone, NoJob
      <4> QED
        BY <4>1
    <3>2. CASE TurnMarks \/ SteerReads \/ SteerApplied
      BY <3>2 DEF JobInv, Fields, TurnMarks, SteerReads, SteerApplied
    <3>3. CASE SteerTaken
      BY <3>3 DEF JobInv, Fields, SteerTaken, Take
    <3>4. CASE PopFollowup
      BY <3>4 DEF JobInv, Fields, PopFollowup, Take
    <3>5. CASE TurnEnds \/ TurnThrows \/ CloseJob
      BY <3>5 DEF JobInv, Fields, TurnEnds, TurnThrows, CloseJob
    <3> QED
      BY <2>3, <3>1, <3>2, <3>3, <3>4, <3>5, <3>6, <3>7 DEF DriverStep
  <2>4. CASE DequeueWrite \/ StopReads \/ StopWrites \/ StopAborts
    BY <2>4 DEF JobInv, Fields, DequeueWrite, StopReads, StopWrites, StopAborts
  <2>5. CASE OpReads \/ OpAdmitted \/ OpEnds \/ Crash \/ SweepStaleRuns
    BY <2>5 DEF OpReads, OpAdmitted, OpEnds, Crash, SweepStaleRuns, NoJob
  <2> QED
    BY <2>2, <2>3, <2>4, <2>5 DEF Next
<1> QED
  BY <1>1, JobInvariant, PTL DEF Spec, StopEndsJob

(* -------------------------------- types ------------------------------- *)

\* splice(n, 1): the places behind n move up by one.
LEMMA RemoveAtSeq ==
  ASSUME NEW S, NEW q \in Seq(S), NEW n \in DOMAIN q
  PROVE  /\ RemoveAt(q, n) \in Seq(S)
         /\ DOMAIN RemoveAt(q, n) = 1 .. (Len(q) - 1)
         /\ \A m \in 1 .. (Len(q) - 1) :
              RemoveAt(q, n)[m] = IF m < n THEN q[m] ELSE q[m + 1]
<1> DEFINE a == SubSeq(q, 1, n - 1)
           b == SubSeq(q, n + 1, Len(q))
<1>1. Len(q) \in Nat /\ DOMAIN q = 1 .. Len(q) /\ n \in 1 .. Len(q) /\ \A m \in 1 .. Len(q) : q[m] \in S
  BY LenProperties, ElementOfSeq
<1>2. /\ a \in Seq(S) /\ Len(a) = n - 1
      /\ \A m \in 1 .. (n - 1) : a[m] = q[m]
  <2>1. \A m \in 1 .. (n - 1) : q[m] \in S
    BY <1>1
  <2> QED
    BY <1>1, <2>1, SubSeqProperties
<1>3. /\ b \in Seq(S) /\ Len(b) = Len(q) - n
      /\ \A m \in 1 .. (Len(q) - n) : b[m] = q[m + n]
  <2>1. \A m \in (n + 1) .. Len(q) : q[m] \in S
    BY <1>1
  <2> QED
    BY <1>1, <2>1, SubSeqProperties
<1>4. /\ a \o b \in Seq(S) /\ Len(a \o b) = Len(q) - 1
      /\ \A m \in 1 .. (Len(q) - 1) : (a \o b)[m] = IF m <= n - 1 THEN a[m] ELSE b[m - (n - 1)]
  <2> HIDE DEF a, b
  <2>1. Len(a) + Len(b) = Len(q) - 1
    BY <1>1, <1>2, <1>3
  <2>2. /\ a \o b \in Seq(S) /\ Len(a \o b) = Len(a) + Len(b)
        /\ \A m \in 1 .. (Len(a) + Len(b)) :
             (a \o b)[m] = IF m <= Len(a) THEN a[m] ELSE b[m - Len(a)]
    BY <1>2, <1>3, ConcatProperties
  <2> QED
    BY <1>2, <2>1, <2>2
<1>5. DOMAIN (a \o b) = 1 .. Len(a \o b)
  BY <1>4, LenProperties
<1>6. RemoveAt(q, n) = a \o b
  BY DEF RemoveAt
<1>7. \A m \in 1 .. (Len(q) - 1) : (a \o b)[m] = IF m < n THEN q[m] ELSE q[m + 1]
  <2> HIDE DEF a, b
  <2> SUFFICES ASSUME NEW m \in 1 .. (Len(q) - 1)
               PROVE  (a \o b)[m] = IF m < n THEN q[m] ELSE q[m + 1]
    OBVIOUS
  <2>1. CASE m < n
    BY <1>1, <1>2, <1>4, <2>1
  <2>2. CASE m >= n
    <3>1. m - (n - 1) \in 1 .. (Len(q) - n) /\ m - (n - 1) + n = m + 1
      BY <1>1, <2>2
    <3>2. (a \o b)[m] = b[m - (n - 1)]
      BY <1>1, <1>4, <2>2
    <3> QED
      BY <1>1, <1>3, <2>2, <3>1, <3>2
  <2>3. m < n \/ m >= n
    BY <1>1
  <2> QED
    BY <2>1, <2>2, <2>3
<1> QED
  BY <1>4, <1>5, <1>6, <1>7

LEMMA RemovedTyped ==
  ASSUME NEW S, NEW q \in Seq(S), NEW K, NEW n \in Places(q, K)
  PROVE  RemoveAt(q, n) \in Seq(S) /\ q[n] \in S
BY RemoveAtSeq, LenProperties, ElementOfSeq DEF Places

\* What a turn adds to the transcript is a prompt.
Prompted ==
  /\ job.pc \in {"scheduled", "mark"} => job.cur \in Items
  /\ job.pc \in {"popped", "steered"} => job.item \in Items

LEMMA TypesKept == TypeOK /\ Prompted /\ [Next]_vars => TypeOK' /\ Prompted'
<1> SUFFICES ASSUME TypeOK, Prompted, [Next]_vars PROVE TypeOK' /\ Prompted'
  OBVIOUS
<1>e. <<>> \in Seq(Items) /\ NewRow \in Row
  BY EmptySeq DEF NewRow, Row
<1>0. \A e \in Events : Spend(e) => left' \in [Events -> Nat]
  BY DEF Spend, TypeOK
<1>j. job' = job => Prompted'
  BY DEF Prompted
<1>o. \A pc \in ReqPcs : Over(pc) \in [pc : ReqPcs, seen : Row]
  BY <1>e DEF Over
<1>1. ASSUME NEW i \in Items, StartRead(i) \/ StartRefused(i) \/ EnqueueRead(i)
      PROVE  TypeOK' /\ Prompted'
  <2>1. PICK to \in {[pc |-> "start", seen |-> row], Over("refused"), [pc |-> "queue", seen |-> row]} :
          req' = [req EXCEPT ![i] = to]
    BY <1>1 DEF StartRead, StartRefused, EnqueueRead
  <2>2. to \in [pc : ReqPcs, seen : Row]
    BY <1>o DEF TypeOK, ReqPcs
  <2>3. req' \in [Items -> [pc : ReqPcs, seen : Row]]
    BY <2>1, <2>2 DEF TypeOK
  <2> QED
    BY <1>j, <1>1, <2>3 DEF StartRead, StartRefused, EnqueueRead, TypeOK
<1>2. ASSUME NEW i \in Items, StartQueues(i) \/ EnqueueWrite(i)
      PROVE  TypeOK' /\ Prompted'
  <2>1. req[i].seen.queue \in Seq(Items)
    BY DEF TypeOK, Row
  <2>2. Append(req[i].seen.queue, i) \in Seq(Items)
    BY <2>1, AppendProperties
  <2>3. row' \in Row /\ torn' \in BOOLEAN
    BY <1>2, <2>2 DEF StartQueues, EnqueueWrite, WriteQueue, TypeOK, Row
  <2>4. req' \in [Items -> [pc : ReqPcs, seen : Row]]
    BY <1>o, <1>2 DEF StartQueues, EnqueueWrite, TypeOK, ReqPcs
  <2> QED
    BY <1>j, <1>2, <2>3, <2>4 DEF StartQueues, EnqueueWrite, TypeOK
<1>3. ASSUME NEW i \in Items, StartWrites(i)
      PROVE  TypeOK' /\ Prompted'
  <2>1. req' \in [Items -> [pc : ReqPcs, seen : Row]]
    BY <1>3, <1>e, <1>o DEF StartWrites, TypeOK, ReqPcs
  <2>2. row' \in Row
    BY <1>3 DEF StartWrites, TypeOK, Row
  <2> QED
    BY <1>j, <1>3, <2>1, <2>2 DEF StartWrites, TypeOK
<1>4. ASSUME NEW i \in Items, StartAttaches(i)
      PROVE  TypeOK' /\ Prompted'
  <2>1. req' \in [Items -> [pc : ReqPcs, seen : Row]]
    BY <1>4, <1>e, <1>o DEF StartAttaches, TypeOK, ReqPcs
  <2>2. job' \in Job /\ Prompted'
    BY <1>4, <1>e DEF StartAttaches, TypeOK, Live, Job, JobPcs, InTurn, NoJob, Prompted
  <2> QED
    BY <1>j, <1>4, <2>1, <2>2 DEF StartAttaches, TypeOK
<1>5. ASSUME NEW i \in Items, DequeueRead(i)
      PROVE  TypeOK' /\ Prompted'
  <2>1. drop' \in [pc : {"idle", "read"}, item : Items \cup {0}, seen : Seq(Items),
                    withdrawn : SUBSET Items]
    BY <1>5 DEF DequeueRead, TypeOK, Row
  <2>2. left' \in [Events -> Nat]
    BY <1>5, <1>0 DEF DequeueRead, Events
  <2> QED
    BY <1>j, <1>5, <2>1, <2>2 DEF DequeueRead, TypeOK
<1>6. CASE DequeueWrite
  <2>1. PICK n \in Places(drop.seen, {drop.item}) : WriteQueue(drop.seen, RemoveAt(drop.seen, n))
    BY <1>6 DEF DequeueWrite
  <2>2. RemoveAt(drop.seen, n) \in Seq(Items)
    BY RemovedTyped DEF TypeOK
  <2>3. row' \in Row /\ torn' \in BOOLEAN
    BY <2>1, <2>2 DEF WriteQueue, TypeOK, Row
  <2>4. drop' \in [pc : {"idle", "read"}, item : Items \cup {0}, seen : Seq(Items),
                    withdrawn : SUBSET Items]
    BY <1>e, <1>6 DEF DequeueWrite, TypeOK
  <2> QED
    BY <1>j, <1>6, <2>3, <2>4 DEF DequeueWrite, TypeOK
<1>t. ASSUME NEW K, NEW to \in {"popped", "steered"}, Take(K, to)
      PROVE  row' \in Row /\ torn' \in BOOLEAN /\ job' \in Job /\ Prompted'
  <2>1. PICK n \in Places(job.seen, K) :
          /\ WriteQueue(job.seen, RemoveAt(job.seen, n))
          /\ job' = [job EXCEPT !.pc = to, !.item = job.seen[n], !.seen = <<>>]
    BY <1>t DEF Take
  <2>2. RemoveAt(job.seen, n) \in Seq(Items) /\ job.seen[n] \in Items
    BY RemovedTyped DEF TypeOK, Job
  <2>3. row' \in Row /\ torn' \in BOOLEAN
    BY <2>1, <2>2 DEF WriteQueue, TypeOK, Row
  <2>4. job' \in Job /\ Prompted'
    BY <1>e, <1>t, <2>1, <2>2 DEF TypeOK, Job, JobPcs, InTurn, BetweenTurns, Prompted
  <2> QED
    BY <2>3, <2>4
<1>7. CASE SteerTaken
  <2>1. row' \in Row /\ torn' \in BOOLEAN /\ job' \in Job /\ Prompted'
    BY <1>t, <1>7 DEF SteerTaken
  <2> QED
    BY <1>7, <2>1 DEF SteerTaken, TypeOK
<1>8. CASE PopFollowup
  <2>1. row' \in Row /\ torn' \in BOOLEAN /\ job' \in Job /\ Prompted'
    <3>1. CASE Take(Items \ Steers, "popped")
      BY <1>t, <3>1
    <3>2. CASE job' = [job EXCEPT !.pc = "close", !.seen = <<>>] /\ UNCHANGED <<row, torn>>
      BY <1>e, <3>2 DEF TypeOK, Job, JobPcs, Prompted
    <3> QED
      BY <1>8, <3>1, <3>2 DEF PopFollowup
  <2> QED
    BY <1>8, <2>1 DEF PopFollowup, TypeOK
<1>9. CASE DriveBegins
  <2>1. job' \in Job /\ Prompted'
    BY <1>9 DEF DriveBegins, TurnLoad, TypeOK, Row, Job, JobPcs, InTurn, BetweenTurns, Prompted
  <2> QED
    BY <1>j, <1>9, <2>1 DEF DriveBegins, TypeOK
<1>10. CASE NextTurn
  <2>1. job' \in Job /\ Prompted'
    BY <1>10 DEF NextTurn, TurnLoad, TypeOK, Row, Job, JobPcs, InTurn, BetweenTurns, Prompted
  <2> QED
    BY <1>j, <1>10, <2>1 DEF NextTurn, TypeOK
<1>11. CASE TurnMarks
  <2>1. row' \in Row
    BY <1>11 DEF TurnMarks, TypeOK, Row, Job, JobPcs, InTurn, BetweenTurns, Prompted
  <2>2. job' \in Job /\ Prompted'
    BY <1>11 DEF TurnMarks, TypeOK, Row, Job, JobPcs, InTurn, BetweenTurns, Prompted
  <2> QED
    BY <1>j, <1>11, <2>1, <2>2 DEF TurnMarks, TypeOK
<1>12. CASE SteerApplied
  <2>1. row' \in Row
    BY <1>12 DEF SteerApplied, TypeOK, Row, Job, JobPcs, InTurn, BetweenTurns, Prompted
  <2>2. job' \in Job /\ Prompted'
    BY <1>12 DEF SteerApplied, TypeOK, Row, Job, JobPcs, InTurn, BetweenTurns, Prompted
  <2> QED
    BY <1>j, <1>12, <2>1, <2>2 DEF SteerApplied, TypeOK
<1>13. CASE SteerReads
  <2>1. job' \in Job /\ Prompted'
    BY <1>13 DEF SteerReads, TypeOK, Row, Job, JobPcs, InTurn, BetweenTurns, Prompted
  <2> QED
    BY <1>j, <1>13, <2>1 DEF SteerReads, TypeOK
<1>14. CASE TurnEnds
  <2>1. job' \in Job /\ Prompted'
    BY <1>14 DEF TurnEnds, TypeOK, Row, Job, JobPcs, InTurn, BetweenTurns, Prompted
  <2> QED
    BY <1>j, <1>14, <2>1 DEF TurnEnds, TypeOK
<1>15. CASE JobGone
  <2>1. job' \in Job /\ Prompted'
    BY <1>15, <1>e DEF JobGone, NoJob, TypeOK, Row, Job, JobPcs, InTurn, BetweenTurns, Prompted
  <2> QED
    BY <1>j, <1>15, <2>1 DEF JobGone, TypeOK
<1>16. CASE TurnThrows
  <2>1. job' \in Job /\ Prompted'
    BY <1>16 DEF TurnThrows, TypeOK, Row, Job, JobPcs, InTurn, BetweenTurns, Prompted
  <2>2. left' \in [Events -> Nat]
    BY <1>16, <1>0 DEF TurnThrows, Events, TypeOK
  <2> QED
    BY <1>j, <1>16, <2>1, <2>2 DEF TurnThrows, TypeOK
<1>17. CASE CloseJob
  <2>1. job' \in Job /\ Prompted'
    BY <1>17 DEF CloseJob, TypeOK, Row, Job, JobPcs, InTurn, BetweenTurns, Prompted
  <2>2. row' \in Row
    BY <1>17 DEF CloseJob, TypeOK, Row, Job
  <2>3. left' \in [Events -> Nat]
    BY <1>17, <1>0 DEF CloseJob, Events, TypeOK
  <2> QED
    BY <1>j, <1>17, <2>1, <2>2, <2>3 DEF CloseJob, TypeOK
<1>18. CASE StopReads
  <2>1. stop' \in [pc : {"idle", "read", "abort"}, target : Items \cup {0}, idle : BOOLEAN]
    BY <1>18 DEF StopReads, NoStop, TypeOK
  <2>2. left' \in [Events -> Nat]
    BY <1>18, <1>0 DEF StopReads, Events
  <2> QED
    BY <1>j, <1>18, <2>1, <2>2 DEF StopReads, TypeOK
<1>19. CASE OpReads
  <2>1. op' \in [pc : {"idle", "read", "run"}, raced : BOOLEAN]
    BY <1>19 DEF OpReads, NoOp, TypeOK
  <2>2. left' \in [Events -> Nat]
    BY <1>19, <1>0 DEF OpReads, Events
  <2> QED
    BY <1>j, <1>19, <2>1, <2>2 DEF OpReads, TypeOK
<1>20. CASE StopWrites
  <2>1. stop' \in [pc : {"idle", "read", "abort"}, target : Items \cup {0}, idle : BOOLEAN]
    <3>1. stop' = NoStop \/ stop' = [stop EXCEPT !.pc = "abort", !.target = job.id]
      BY <1>20 DEF StopWrites
    <3>2. job.id \in Items \cup {0}
      BY DEF TypeOK, Job
    <3>3. CASE stop' = NoStop
      BY <3>3 DEF NoStop
    <3>4. CASE stop' = [stop EXCEPT !.pc = "abort", !.target = job.id]
      BY <3>2, <3>4 DEF TypeOK
    <3> QED
      BY <3>1, <3>3, <3>4
  <2>2. row' \in Row
    BY <1>20 DEF StopWrites, TypeOK, Row
  <2> QED
    BY <1>j, <1>20, <2>1, <2>2 DEF StopWrites, TypeOK
<1>21. CASE StopAborts
  <2>1. job' \in Job /\ Prompted'
    BY <1>21 DEF StopAborts, TypeOK, Row, Job, JobPcs, InTurn, BetweenTurns, Prompted
  <2>2. stop' \in [pc : {"idle", "read", "abort"}, target : Items \cup {0}, idle : BOOLEAN]
    BY <1>21 DEF StopAborts, NoStop, TypeOK
  <2> QED
    BY <1>j, <1>21, <2>1, <2>2 DEF StopAborts, TypeOK
<1>22. CASE OpAdmitted
  <2>1. (\E i \in Items : req[i].pc = "written") \in BOOLEAN
    OBVIOUS
  <2>2. op' = NoOp \/ \E b \in BOOLEAN : op' = [pc |-> "run", raced |-> b]
    BY <1>22, <2>1, Zenon DEF OpAdmitted
  <2>3. op' \in [pc : {"idle", "read", "run"}, raced : BOOLEAN]
    <3>1. CASE op' = NoOp
      BY <3>1 DEF NoOp
    <3>2. ASSUME NEW b \in BOOLEAN, op' = [pc |-> "run", raced |-> b]
          PROVE  op' \in [pc : {"idle", "read", "run"}, raced : BOOLEAN]
      BY <3>2
    <3> QED
      BY <2>2, <3>1, <3>2
  <2> QED
    BY <1>j, <1>22, <2>3 DEF OpAdmitted, TypeOK
<1>23. CASE OpEnds
  <2>1. op' \in [pc : {"idle", "read", "run"}, raced : BOOLEAN]
    BY <1>23 DEF OpEnds, NoOp, TypeOK
  <2> QED
    BY <1>j, <1>23, <2>1 DEF OpEnds, TypeOK
<1>24. CASE SweepStaleRuns
  <2>1. row' \in Row
    BY <1>24 DEF SweepStaleRuns, TypeOK, Row
  <2> QED
    BY <1>j, <1>24, <2>1 DEF SweepStaleRuns, TypeOK
<1>25. CASE Crash
  <2>1. req' \in [Items -> [pc : ReqPcs, seen : Row]]
    BY <1>25, <1>e, <1>o DEF Crash, TypeOK, ReqPcs
  <2>2. job' \in Job /\ Prompted'
    BY <1>25, <1>e DEF Crash, NoJob, TypeOK, Row, Job, JobPcs, InTurn, BetweenTurns, Prompted
  <2>3. drop' \in [pc : {"idle", "read"}, item : Items \cup {0}, seen : Seq(Items),
                    withdrawn : SUBSET Items]
    BY <1>25, <1>e DEF Crash, NoDrop, TypeOK
  <2>4. stop' \in [pc : {"idle", "read", "abort"}, target : Items \cup {0}, idle : BOOLEAN] /\ op' \in [pc : {"idle", "read", "run"}, raced : BOOLEAN]
    BY <1>25 DEF Crash, NoStop, NoOp
  <2>5. left' \in [Events -> Nat]
    BY <1>25, <1>0 DEF Crash, Events
  <2> QED
    BY <1>j, <1>25, <2>1, <2>2, <2>3, <2>4, <2>5 DEF Crash, TypeOK
<1>26. CASE UNCHANGED vars
  BY <1>j, <1>26 DEF vars, TypeOK
<1> QED
  BY <1>1, <1>2, <1>3, <1>4, <1>5, <1>6, <1>7, <1>8, <1>9, <1>10, <1>11, <1>12, <1>13,
     <1>14, <1>15, <1>16, <1>17, <1>18, <1>19, <1>20, <1>21, <1>22, <1>23, <1>24, <1>25, <1>26 DEF Next, ItemStep, DriverStep

\* Every state keeps the types the model declares, the stored queue a sequence of prompts,
\* and what a turn takes a prompt.
THEOREM TypeCorrect == Spec => [](TypeOK /\ Prompted)
<1>1. ASSUME Init PROVE TypeOK /\ Prompted
  <2>1. <<>> \in Seq(Items)
    BY EmptySeq
  <2>2. row \in Row /\ job \in Job /\ Prompted
    BY <1>1, <2>1 DEF Init, Row, NewRow, Job, JobPcs, NoJob, Prompted
  <2>3. req \in [Items -> [pc : ReqPcs, seen : Row]]
    BY <1>1, <2>1 DEF Init, Over, NewRow, Row, ReqPcs
  <2>4. drop = NoDrop /\ stop = NoStop /\ op = NoOp /\ phase = "up" /\ torn = FALSE /\ left = Budget
    BY <1>1 DEF Init
  <2> QED
    BY <2>1, <2>2, <2>3, <2>4, ConstantsAssumption DEF TypeOK, NoDrop, NoStop, NoOp
<1> QED
  BY <1>1, TypesKept, PTL DEF Spec

(* -------------------------- what a queue holds ------------------------ *)

\* What is spent stays spent, and only a crash takes the process down.
Spent ==
  /\ \A e \in {"crash", "stop"} : left[e] <= Budget[e]
  /\ phase = "down" => ~Unused("crash")
  /\ stop.pc # "idle" => ~Unused("stop")

Calm == ~torn /\ Unused("crash") /\ Unused("stop")

Distinct(q) == \A m, n \in DOMAIN q : q[m] = q[n] => m = n

\* The row is the running job's own: it says so, and holds the job's transcript.
JobRow ==
  /\ job.pc \notin {"none", "finish"} => row.status = "running"
  /\ job.pc = "scheduled" => job.cur \in row.asked
  /\ job.pc \notin {"none", "scheduled"} => job.mem = row.asked
  /\ \A i \in Items : req[i].pc = "written" => row.status = "running" /\ job.pc = "none"

\* A start that has read no running job still has the row's transcript in hand.
StartRow ==
  \A i \in Items : req[i].pc = "start" /\ req[i].seen.status # "running" =>
    /\ job.pc \in {"none", "finish"} /\ row.status # "running"
    /\ req[i].seen.asked = row.asked

\* Where a prompt is, by how far its request has come.
Placed(i) ==
  /\ req[i].pc \in {"new", "start", "queue", "refused"} => ~Queued(i) /\ ~Taken(i)
  /\ req[i].pc = "written" => ~Queued(i) /\ i \in row.asked
  /\ req[i].pc = "done" /\ i \notin drop.withdrawn => (Queued(i) <=> ~Taken(i))

CalmInv ==
  /\ Distinct(row.queue) /\ JobRow /\ StartRow
  /\ \A i \in Items : Placed(i)

QueueInv ==
  /\ Spent
  /\ drop.pc = "read" => drop.item \in drop.withdrawn
  /\ Calm => CalmInv

LEMMA AppendedQueue ==
  ASSUME NEW q \in Seq(Items), NEW i \in Items, Distinct(q), Places(q, {i}) = {}
  PROVE  /\ Distinct(Append(q, i))
         /\ \A k : Places(Append(q, i), {k}) # {} <=> (Places(q, {k}) # {} \/ k = i)
<1> DEFINE a == Append(q, i)
<1>1. /\ Len(q) \in Nat /\ DOMAIN q = 1 .. Len(q)
      /\ a \in Seq(Items) /\ Len(a) = Len(q) + 1
      /\ \A n \in 1 .. Len(q) : a[n] = q[n]
      /\ a[Len(q) + 1] = i
  BY LenProperties, AppendProperties
<1>2. DOMAIN a = 1 .. (Len(q) + 1)
  BY <1>1, LenProperties
<1> HIDE DEF a
<1>3. \A n \in DOMAIN a : \/ n \in DOMAIN q /\ a[n] = q[n]
                          \/ n = Len(q) + 1 /\ a[n] = i
  BY <1>1, <1>2
<1>4. \A n \in DOMAIN q : n \in DOMAIN a /\ q[n] # i /\ n # Len(q) + 1
  BY <1>1, <1>2 DEF Places
<1>5. Distinct(a)
  BY <1>3, <1>4 DEF Distinct
<1>6. ASSUME NEW k
      PROVE  Places(a, {k}) # {} <=> (Places(q, {k}) # {} \/ k = i)
  <2>1. Len(q) + 1 \in DOMAIN a
    BY <1>1, <1>2
  <2> QED
    BY <1>1, <1>3, <1>4, <2>1 DEF Places
<1> QED
  BY <1>5, <1>6 DEF a

LEMMA RemovedQueue ==
  ASSUME NEW q \in Seq(Items), NEW n \in DOMAIN q, Distinct(q)
  PROVE  /\ Distinct(RemoveAt(q, n))
         /\ \A k : Places(RemoveAt(q, n), {k}) # {} <=> (Places(q, {k}) # {} /\ k # q[n])
<1> DEFINE a == RemoveAt(q, n)
<1>1. /\ DOMAIN a = 1 .. (Len(q) - 1)
      /\ \A m \in 1 .. (Len(q) - 1) : a[m] = IF m < n THEN q[m] ELSE q[m + 1]
  BY RemoveAtSeq
<1>2. Len(q) \in Nat /\ DOMAIN q = 1 .. Len(q)
  BY LenProperties
<1> HIDE DEF a
<1> DEFINE from(m) == IF m < n THEN m ELSE m + 1
<1>3. \A m \in DOMAIN a : from(m) \in DOMAIN q /\ from(m) # n /\ a[m] = q[from(m)]
  BY <1>1, <1>2
<1>4. \A l, m \in DOMAIN a : from(l) = from(m) => l = m
  BY <1>1, <1>2
<1>5. \A j \in DOMAIN q : j # n => \E m \in DOMAIN a : from(m) = j
  <2> SUFFICES ASSUME NEW j \in DOMAIN q, j # n
               PROVE  \E m \in DOMAIN a : from(m) = j
    OBVIOUS
  <2>1. CASE j < n
    <3>1. j \in DOMAIN a /\ from(j) = j
      BY <1>1, <1>2, <2>1
    <3> QED
      BY <3>1
  <2>2. CASE j > n
    <3>1. j - 1 \in DOMAIN a /\ from(j - 1) = j
      BY <1>1, <1>2, <2>2
    <3> QED
      BY <3>1
  <2> QED
    BY <1>2, <2>1, <2>2
<1> HIDE DEF from
<1>6. Distinct(a)
  BY <1>3, <1>4 DEF Distinct
<1>7. ASSUME NEW k
      PROVE  Places(a, {k}) # {} <=> (Places(q, {k}) # {} /\ k # q[n])
  BY <1>3, <1>5 DEF Places, Distinct
<1> QED
  BY <1>6, <1>7 DEF a

LEMMA SpentKept ==
  ASSUME TypeOK, Spent, [Next]_vars
  PROVE  Spent' /\ (Calm' => Calm)
<1> USE DEF Spent, Unused
<1>1. \A e \in {"crash", "stop"} : left[e] \in Nat /\ Budget[e] \in Nat /\ left[e] <= Budget[e]
  BY ConstantsAssumption DEF TypeOK, Events
<1>2. ASSUME NEW e \in Events, Spend(e)
      PROVE  \A g \in {"crash", "stop"} :
               /\ left'[g] = IF g = e THEN left[g] - 1 ELSE left[g]
               /\ left'[g] <= Budget[g]
               /\ left[g] # Budget[g] => left'[g] # Budget[g]
  BY <1>1, <1>2 DEF Spend, TypeOK, Events
<1>3. \A q, s : WriteQueue(q, s) => (torn => torn')
  BY DEF WriteQueue
<1>4. ASSUME NEW i \in Items, StartRead(i) \/ EnqueueRead(i) \/ ItemStep(i)
      PROVE  /\ UNCHANGED <<phase, stop, left>> /\ (torn => torn')
  BY <1>3, <1>4 DEF StartRead, EnqueueRead, ItemStep, StartRefused, StartQueues, StartWrites,
     StartAttaches, EnqueueWrite
<1>5. ASSUME NEW i \in Items, DequeueRead(i)
      PROVE  Spent' /\ (Calm' => Calm)
  BY <1>1, <1>2, <1>5 DEF DequeueRead, Calm, Events
<1>6. CASE DequeueWrite
  BY <1>3, <1>6 DEF DequeueWrite, Calm
<1>7. CASE TurnThrows \/ CloseJob
  <2>1. UNCHANGED <<phase, stop, torn>> /\ (left' = left \/ \E e \in Events : Spend(e))
    BY <1>7 DEF TurnThrows, CloseJob, Events
  <2> QED
    BY <1>1, <1>2, <2>1 DEF Calm
<1>8. CASE DriverStep /\ ~CloseJob
  <2>1. \A K, to : Take(K, to) => (torn => torn')
    BY <1>3 DEF Take
  <2>2. CASE SteerTaken \/ PopFollowup
    BY <2>1, <2>2 DEF SteerTaken, PopFollowup, Calm
  <2>3. CASE DriveBegins \/ TurnMarks \/ SteerReads \/ SteerApplied
    BY <2>3 DEF DriveBegins, TurnMarks, SteerReads, SteerApplied, Calm
  <2>4. CASE TurnEnds
    BY <2>4 DEF TurnEnds, Calm
  <2>5. CASE NextTurn \/ JobGone
    BY <2>5 DEF NextTurn, TurnLoad, JobGone, Calm
  <2> QED
    BY <1>8, <2>2, <2>3, <2>4, <2>5 DEF DriverStep
<1>9. CASE StopReads
  <2>1. Spend("stop") /\ UNCHANGED <<phase, torn>>
    BY <1>9 DEF StopReads
  <2>2. left'["stop"] # Budget["stop"]
    BY <1>1, <2>1 DEF Spend, TypeOK, Events
  <2> QED
    BY <1>2, <2>1, <2>2 DEF Calm, Events
<1>10. CASE StopWrites \/ StopAborts
  <2>1. stop.pc # "idle" /\ UNCHANGED <<phase, left, torn>>
    BY <1>10 DEF StopWrites, StopAborts
  <2> QED
    BY <2>1 DEF Calm
<1>11. CASE OpReads
  BY <1>1, <1>2, <1>11 DEF OpReads, Calm, Events
<1>12. CASE OpAdmitted \/ OpEnds
  BY <1>12 DEF OpAdmitted, OpEnds, Calm
<1>13. CASE Crash
  <2>1. Spend("crash") /\ stop' = NoStop
    BY <1>13 DEF Crash
  <2>2. left'["crash"] # Budget["crash"]
    BY <1>1, <2>1 DEF Spend, TypeOK, Events
  <2> QED
    BY <1>2, <2>1, <2>2 DEF Calm, Events, NoStop
<1>14. CASE SweepStaleRuns
  BY <1>14 DEF SweepStaleRuns, Calm
<1>15. CASE UNCHANGED vars
  BY <1>15 DEF vars, Calm
<1>16. ASSUME NEW i \in Items, StartRead(i) \/ EnqueueRead(i) \/ ItemStep(i)
       PROVE  Spent' /\ (Calm' => Calm)
  BY <1>4, <1>16 DEF Calm
<1> QED
  BY <1>5, <1>6, <1>7, <1>8, <1>9, <1>10, <1>11, <1>12, <1>13, <1>14, <1>15, <1>16 DEF Next

\* Same queue, same entries.
LEMMA QueueStays ==
  ASSUME row'.queue = row.queue
  PROVE  /\ Distinct(row.queue) => Distinct(row.queue)'
         /\ \A i : Queued(i)' <=> Queued(i)
BY DEF Distinct, Queued, Places

\* The write of the queue in hand with one prompt more, and with one less.
LEMMA PromptAppended ==
  ASSUME TypeOK, Calm', Calm => CalmInv, Calm' => Calm, NEW i \in Items, ~Queued(i),
         NEW seen, WriteQueue(seen, Append(seen, i))
  PROVE  /\ Distinct(row.queue)' /\ \A k : Queued(k)' <=> (Queued(k) \/ k = i)
         /\ row'.status = row.status /\ row'.asked = row.asked
<1>1. row.queue \in Seq(Items) /\ row' = [row EXCEPT !.queue = Append(row.queue, i)]
  BY DEF TypeOK, Row, WriteQueue, Calm
<1>2. row'.queue = Append(row.queue, i)
  BY <1>1 DEF TypeOK, Row
<1>3. Distinct(row.queue) /\ Places(row.queue, {i}) = {}
  BY DEF CalmInv, Queued
<1>4. /\ Distinct(row'.queue)
      /\ \A k : Places(row'.queue, {k}) # {} <=> (Places(row.queue, {k}) # {} \/ k = i)
  BY <1>1, <1>2, <1>3, AppendedQueue
<1>5. Distinct(row.queue)' /\ \A k : Queued(k)' <=> (Queued(k) \/ k = i)
  BY <1>4 DEF Distinct, Queued, Places
<1> QED
  BY <1>1, <1>5 DEF TypeOK, Row

LEMMA PromptRemoved ==
  ASSUME TypeOK, Calm', Calm => CalmInv, Calm' => Calm,
         NEW seen, NEW n \in DOMAIN seen, WriteQueue(seen, RemoveAt(seen, n))
  PROVE  /\ Distinct(row.queue)' /\ \A k : Queued(k)' <=> (Queued(k) /\ k # seen[n])
         /\ Queued(seen[n]) /\ seen[n] \in Items
         /\ row'.status = row.status /\ row'.asked = row.asked
<1>1. row.queue \in Seq(Items) /\ row.queue = seen /\ row' = [row EXCEPT !.queue = RemoveAt(row.queue, n)]
  BY DEF TypeOK, Row, WriteQueue, Calm
<1>2. row'.queue = RemoveAt(row.queue, n)
  BY <1>1 DEF TypeOK, Row
<1>3. Distinct(row.queue)
  BY DEF CalmInv
<1>4. /\ Distinct(row'.queue)
      /\ \A k : Places(row'.queue, {k}) # {} <=> (Places(row.queue, {k}) # {} /\ k # seen[n])
  <2>1. n \in DOMAIN row.queue /\ seen[n] = row.queue[n] /\ row.queue \in Seq(Items)
    BY <1>1
  <2>2. /\ Distinct(RemoveAt(row.queue, n))
        /\ \A k : Places(RemoveAt(row.queue, n), {k}) # {} <=>
                  (Places(row.queue, {k}) # {} /\ k # row.queue[n])
    BY <1>3, <2>1, RemovedQueue
  <2> QED
    BY <1>2, <2>1, <2>2
<1>5. Distinct(row.queue)' /\ \A k : Queued(k)' <=> (Queued(k) /\ k # seen[n])
  BY <1>4 DEF Distinct, Queued, Places
<1>6. Queued(seen[n])
  BY <1>1 DEF Queued, Places
<1>7. seen[n] \in Items
  BY <1>1, LenProperties, ElementOfSeq
<1> QED
  BY <1>1, <1>5, <1>6, <1>7 DEF TypeOK, Row

\* A request moves and the job does not.
LEMMA RequestCalm ==
  ASSUME TypeOK, JobInv, CalmInv, Calm, Calm', Calm' => Calm, NEW i \in Items,
         StartRead(i) \/ EnqueueRead(i) \/ StartRefused(i) \/ StartQueues(i) \/ EnqueueWrite(i)
           \/ StartWrites(i) \/ StartAttaches(i) \/ DequeueRead(i)
  PROVE  CalmInv'
<1> USE DEF CalmInv
<1>q. row.queue = row'.queue => Distinct(row.queue)' /\ \A k : Queued(k)' <=> Queued(k)
  BY QueueStays
<1>1. CASE StartRead(i)
  <2>1. /\ UNCHANGED <<row, job, drop>> /\ req[i].pc = "new"
        /\ req'[i].pc = "start" /\ req'[i].seen = row
        /\ \A k \in Items \ {i} : req'[k] = req[k]
    BY <1>1 DEF StartRead, TypeOK
  <2>2. JobRow' /\ StartRow'
    BY <2>1 DEF JobRow, StartRow
  <2>3. \A k \in Items : Placed(k)'
    BY <1>q, <2>1 DEF Placed, Taken
  <2> QED
    BY <1>q, <2>1, <2>2, <2>3
<1>2. CASE EnqueueRead(i) \/ StartRefused(i)
  <2>1. /\ UNCHANGED <<row, job, drop>> /\ req[i].pc \in {"new", "start"}
        /\ req'[i].pc \in {"queue", "refused"}
        /\ \A k \in Items \ {i} : req'[k] = req[k]
    BY <1>2 DEF EnqueueRead, StartRefused, Over, TypeOK
  <2>2. JobRow' /\ StartRow'
    BY <2>1 DEF JobRow, StartRow
  <2>3. \A k \in Items : Placed(k)'
    BY <1>q, <2>1 DEF Placed, Taken
  <2> QED
    BY <1>q, <2>1, <2>2, <2>3
<1>3. CASE StartQueues(i) \/ EnqueueWrite(i)
  <2>1. /\ UNCHANGED <<job, drop>> /\ req[i].pc \in {"queue", "start"}
        /\ req'[i].pc = "done" /\ \A k \in Items \ {i} : req'[k] = req[k]
        /\ WriteQueue(req[i].seen.queue, Append(req[i].seen.queue, i))
    BY <1>3 DEF StartQueues, EnqueueWrite, Over, TypeOK
  <2>2. ~Queued(i) /\ ~Taken(i)
    BY <2>1 DEF Placed
  <2>3. /\ Distinct(row.queue)' /\ \A k : Queued(k)' <=> (Queued(k) \/ k = i)
        /\ row'.status = row.status /\ row'.asked = row.asked
    BY <2>1, <2>2, PromptAppended
  <2>4. JobRow' /\ StartRow'
    BY <2>1, <2>3 DEF JobRow, StartRow
  <2>5. \A k \in Items : Placed(k)'
    BY <2>1, <2>2, <2>3 DEF Placed, Taken
  <2> QED
    BY <2>3, <2>4, <2>5
<1>4. CASE StartWrites(i)
  <2>1. /\ UNCHANGED <<job, drop>> /\ req[i].pc = "start" /\ req[i].seen.status # "running"
        /\ job.pc = "none"
        /\ req'[i].pc = "written" /\ \A k \in Items \ {i} : req'[k] = req[k]
        /\ row'.queue = row.queue /\ row'.status = "running"
        /\ row'.asked = req[i].seen.asked \cup {i}
    BY <1>4 DEF StartWrites, Over, Live, TypeOK, Row
  <2>2. row'.asked = row.asked \cup {i}
    BY <2>1 DEF StartRow
  <2>3. \A k \in Items \ {i} : req[k].pc \notin {"start", "written"}
    BY <2>1 DEF JobInv, OneStart, Starting
  <2>4. JobRow' /\ StartRow'
    BY <2>1, <2>3 DEF JobRow, StartRow
  <2>5. \A k \in Items : Placed(k)'
    BY <1>q, <2>1, <2>2 DEF Placed, Taken
  <2> QED
    BY <1>q, <2>1, <2>4, <2>5
<1>5. CASE StartAttaches(i)
  <2>1. /\ UNCHANGED <<row, drop>> /\ req[i].pc = "written"
        /\ req'[i].pc = "done" /\ \A k \in Items \ {i} : req'[k] = req[k]
        /\ \/ job' = job
           \/ job.pc = "none" /\ job'.pc = "scheduled" /\ job'.cur = i
    BY <1>5 DEF StartAttaches, Over, Live, NoJob, TypeOK
  <2>2. \A k \in Items \ {i} : req[k].pc \notin {"start", "written"}
    BY <2>1 DEF JobInv, OneStart, Starting
  <2>3. i \in row.asked /\ ~Queued(i) /\ row.status = "running"
    BY <2>1 DEF Placed, JobRow
  <2>4. JobRow' /\ StartRow'
    BY <2>1, <2>2, <2>3 DEF JobRow, StartRow
  <2>5. \A k \in Items : Taken(k)' <=> Taken(k)
    BY <2>1 DEF Taken
  <2>6. \A k \in Items : Placed(k)'
    BY <1>q, <2>1, <2>3, <2>5 DEF Placed, Taken
  <2> QED
    BY <1>q, <2>1, <2>4, <2>6
<1>6. CASE DequeueRead(i)
  <2>1. UNCHANGED <<row, job, req>> /\ drop'.withdrawn = drop.withdrawn \cup {i}
    BY <1>6 DEF DequeueRead
  <2> QED
    BY <1>q, <2>1 DEF JobRow, StartRow, Placed, Taken
<1> QED
  BY <1>1, <1>2, <1>3, <1>4, <1>5, <1>6

\* The driver moves prompts from the queue through a turn into the transcript.
LEMMA DriverCalm ==
  ASSUME TypeOK, JobInv, CalmInv, Calm, Calm', Calm' => Calm, DriverStep \/ TurnThrows
  PROVE  CalmInv'
<1> USE DEF CalmInv
<1>q. row.queue = row'.queue => Distinct(row.queue)' /\ \A k : Queued(k)' <=> Queued(k)
  BY QueueStays
<1>1. CASE DriveBegins \/ NextTurn
  <2>1. /\ UNCHANGED <<row, req, drop>> /\ job'.pc = "mark" /\ job'.mem = row.asked
        /\ \/ job.pc = "scheduled" /\ job'.cur = job.cur
           \/ job.pc = "popped" /\ job'.cur = job.item
    BY <1>1 DEF DriveBegins, NextTurn, TurnLoad, TypeOK, Job
  <2>2. JobRow' /\ StartRow'
    BY <2>1 DEF JobRow, StartRow
  <2>3. \A k \in Items : Taken(k)' <=> Taken(k)
    BY <2>1 DEF Taken, JobRow
  <2> QED
    BY <1>q, <2>1, <2>2, <2>3 DEF Placed
<1>2. CASE TurnMarks \/ SteerApplied
  <2>1. /\ UNCHANGED <<req, drop>> /\ job'.pc = "turn"
        /\ \/ job.pc = "mark" /\ job'.mem = job.mem \cup {job.cur}
           \/ job.pc = "steered" /\ job'.mem = job.mem \cup {job.item}
        /\ row'.asked = job'.mem /\ row'.queue = row.queue
        /\ row'.status = "running" \/ row'.status = row.status
    BY <1>2 DEF TurnMarks, SteerApplied, TypeOK, Job, Row
  <2>2. job.mem = row.asked /\ row.status = "running"
    BY <2>1 DEF JobRow
  <2>3. JobRow' /\ StartRow'
    BY <2>1, <2>2 DEF JobRow, StartRow
  <2>4. \A k \in Items : Taken(k)' <=> Taken(k)
    BY <2>1, <2>2 DEF Taken
  <2> QED
    BY <1>q, <2>1, <2>2, <2>3, <2>4 DEF Placed, Taken
<1>3. CASE SteerReads \/ TurnEnds \/ TurnThrows
  <2>1. /\ UNCHANGED <<row, req, drop>> /\ job.pc = "turn" /\ job'.pc \in {"steer", "pop", "close"}
        /\ job'.mem = job.mem
    BY <1>3 DEF SteerReads, TurnEnds, TurnThrows, TypeOK, Job
  <2> QED
    BY <1>q, <2>1 DEF JobRow, StartRow, Placed, Taken
<1>4. ASSUME NEW K, NEW to \in {"steered", "popped"}, Take(K, to), UNCHANGED <<req, drop>>,
             job.pc \in {"steer", "pop"}
      PROVE  CalmInv'
  <2>1. PICK n \in Places(job.seen, K) :
          /\ WriteQueue(job.seen, RemoveAt(job.seen, n))
          /\ job' = [job EXCEPT !.pc = to, !.item = job.seen[n], !.seen = <<>>]
    BY <1>4 DEF Take
  <2>2. n \in DOMAIN job.seen /\ job'.pc = to /\ job'.item = job.seen[n] /\ job'.mem = job.mem
    BY <2>1 DEF Places, TypeOK, Job
  <2>3. /\ Distinct(row.queue)' /\ \A k : Queued(k)' <=> (Queued(k) /\ k # job.seen[n])
        /\ Queued(job.seen[n]) /\ job.seen[n] \in Items
        /\ row'.status = row.status /\ row'.asked = row.asked
    BY <2>1, <2>2, PromptRemoved
  <2>4. JobRow' /\ StartRow'
    BY <1>4, <2>2, <2>3 DEF JobRow, StartRow
  <2>5. \A k \in Items : Taken(k)' <=> (Taken(k) \/ k = job.seen[n])
    BY <1>4, <2>2, <2>3 DEF Taken
  <2>6. \A k \in Items : Placed(k)'
    BY <1>4, <2>3, <2>5 DEF Placed
  <2> QED
    BY <2>3, <2>4, <2>6
<1>5. CASE SteerTaken
  BY <1>4, <1>5 DEF SteerTaken
<1>6. CASE PopFollowup
  <2>1. CASE Take(Items \ Steers, "popped")
    BY <1>4, <1>6, <2>1 DEF PopFollowup
  <2>2. CASE job' = [job EXCEPT !.pc = "close", !.seen = <<>>] /\ UNCHANGED <<row, torn>>
    <3>1. /\ UNCHANGED <<row, req, drop>> /\ job.pc = "pop" /\ job'.pc = "close" /\ job'.mem = job.mem
      BY <1>6, <2>2 DEF PopFollowup, TypeOK, Job
    <3> QED
      BY <1>q, <3>1 DEF JobRow, StartRow, Placed, Taken
  <2> QED
    BY <1>6, <2>1, <2>2 DEF PopFollowup
<1>7. CASE CloseJob
  <2>1. /\ UNCHANGED <<req, drop>> /\ job.pc = "close" /\ job'.pc = "finish" /\ job'.mem = job.mem
        /\ row'.queue = row.queue /\ (row' = row \/ row'.asked = job.mem)
    BY <1>7 DEF CloseJob, TypeOK, Job, Row
  <2>2. job.mem = row.asked /\ row.status = "running"
    BY <2>1 DEF JobRow
  <2>3. row'.asked = row.asked
    BY <2>1, <2>2
  <2>4. \A k \in Items : req[k].pc # "written"
    BY <2>1 DEF JobRow
  <2>5. JobRow' /\ StartRow'
    BY <2>1, <2>2, <2>3, <2>4 DEF JobRow, StartRow
  <2>6. \A k \in Items : Placed(k)'
    BY <1>q, <2>1, <2>3 DEF Placed, Taken
  <2> QED
    BY <1>q, <2>1, <2>5, <2>6
<1>8. CASE JobGone
  <2>1. UNCHANGED <<row, req, drop>> /\ job.pc = "finish" /\ job'.pc = "none"
    BY <1>8 DEF JobGone, NoJob
  <2> QED
    BY <1>q, <2>1 DEF JobRow, StartRow, Placed, Taken
<1> QED
  BY <1>1, <1>2, <1>3, <1>5, <1>6, <1>7, <1>8 DEF DriverStep

LEMMA QueueKept ==
  ASSUME TypeOK, JobInv, QueueInv, [Next]_vars
  PROVE  QueueInv'
<1>1. Spent' /\ (Calm' => Calm)
  BY SpentKept DEF QueueInv
<1>2. drop'.pc = "read" => drop'.item \in drop'.withdrawn
  <2>1. CASE \E i \in Items : DequeueRead(i)
    BY <2>1 DEF DequeueRead, TypeOK
  <2>2. CASE DequeueWrite \/ Crash
    BY <2>2 DEF DequeueWrite, Crash, NoDrop, TypeOK
  <2>3. CASE \E i \in Items : StartRead(i) \/ EnqueueRead(i) \/ ItemStep(i)
    BY <2>3 DEF QueueInv, StartRead, EnqueueRead, ItemStep, StartRefused, StartQueues, StartWrites,
       StartAttaches, EnqueueWrite
  <2>4. CASE DriverStep \/ TurnThrows
    BY <2>4 DEF QueueInv, DriverStep, DriveBegins, TurnMarks, SteerReads, SteerTaken, SteerApplied,
       TurnEnds, TurnThrows, PopFollowup, NextTurn, CloseJob, JobGone
  <2>5. CASE StopReads \/ StopWrites \/ StopAborts \/ OpReads \/ OpAdmitted \/ OpEnds \/ SweepStaleRuns
    BY <2>5 DEF QueueInv, StopReads, StopWrites, StopAborts, OpReads, OpAdmitted, OpEnds, SweepStaleRuns
  <2>6. CASE UNCHANGED vars
    BY <2>6 DEF QueueInv, vars
  <2> QED
    BY <2>1, <2>2, <2>3, <2>4, <2>5, <2>6 DEF Next
<1>3. ASSUME Calm' PROVE CalmInv'
  <2>0. Calm /\ CalmInv /\ Calm'
    BY <1>1, <1>3 DEF QueueInv
  <2>1. CASE \E i \in Items : StartRead(i) \/ EnqueueRead(i) \/ ItemStep(i) \/ DequeueRead(i)
    <3>1. PICK i \in Items : StartRead(i) \/ EnqueueRead(i) \/ ItemStep(i) \/ DequeueRead(i)
      BY <2>1
    <3> QED
      BY <1>1, <2>0, <3>1, RequestCalm DEF ItemStep
  <2>2. CASE DriverStep \/ TurnThrows
    BY <1>1, <2>0, <2>2, DriverCalm
  <2>3. CASE DequeueWrite
    <3>1. PICK n \in Places(drop.seen, {drop.item}) : WriteQueue(drop.seen, RemoveAt(drop.seen, n))
      BY <2>3 DEF DequeueWrite
    <3>2. n \in DOMAIN drop.seen /\ drop.seen[n] = drop.item
      BY <3>1 DEF Places
    <3>3. /\ Distinct(row.queue)' /\ \A k : Queued(k)' <=> (Queued(k) /\ k # drop.item)
          /\ row'.status = row.status /\ row'.asked = row.asked
      BY <1>1, <2>0, <3>1, <3>2, PromptRemoved
    <3>4. /\ UNCHANGED <<job, req>> /\ drop'.withdrawn = drop.withdrawn
          /\ drop.item \in drop.withdrawn
      BY <2>3 DEF DequeueWrite, QueueInv, TypeOK
    <3>5. Queued(drop.item)
      BY <2>0, <3>1, <3>2 DEF Calm, WriteQueue, Queued, Places
    <3>6. JobRow' /\ StartRow'
      BY <2>0, <3>3, <3>4 DEF CalmInv, JobRow, StartRow
    <3>7. \A k \in Items : Placed(k)'
      BY <2>0, <3>3, <3>4 DEF CalmInv, Placed, Taken
    <3> QED
      BY <3>3, <3>6, <3>7 DEF CalmInv
  <2>4. CASE OpReads \/ OpAdmitted \/ OpEnds \/ UNCHANGED vars
    <3>1. UNCHANGED <<row, job, req, drop>>
      BY <2>4 DEF OpReads, OpAdmitted, OpEnds, vars
    <3> QED
      BY <2>0, <3>1, QueueStays DEF CalmInv, JobRow, StartRow, Placed, Taken
  <2>5. ~StopWrites /\ ~StopAborts /\ ~SweepStaleRuns
    BY <2>0 DEF QueueInv, Spent, Calm, StopWrites, StopAborts, SweepStaleRuns
  <2>6. ~StopReads /\ ~Crash
    <3>1. left["stop"] = Budget["stop"] /\ left["crash"] = Budget["crash"]
      BY <2>0 DEF Calm, Unused
    <3>2. left'["stop"] = Budget["stop"] /\ left'["crash"] = Budget["crash"]
      BY <2>0 DEF Calm, Unused
    <3>3. \A e \in {"stop", "crash"} : Spend(e) => left'[e] # left[e]
      BY DEF Spend, TypeOK, Events
    <3> QED
      BY <3>1, <3>2, <3>3 DEF StopReads, Crash
  <2> QED
    BY <2>1, <2>2, <2>3, <2>4, <2>5, <2>6 DEF Next
<1> QED
  BY <1>1, <1>2, <1>3 DEF QueueInv

\* Until two writes of run_queue cross, somebody stops the job or the process dies: the queue
\* names no prompt twice, the transcript in memory is the row's, and every prompt is where
\* the request that brought it says.
THEOREM QueueInvariant == Spec => []QueueInv
<1>1. Init => QueueInv
  <2> SUFFICES ASSUME Init PROVE QueueInv
    OBVIOUS
  <2>1. row.queue = <<>> /\ row.asked = {} /\ DOMAIN row.queue = {}
    BY DEF Init, NewRow
  <2>2. Distinct(row.queue) /\ JobRow /\ StartRow
    BY <2>1 DEF Init, Distinct, JobRow, StartRow, Over, NoJob
  <2>3. \A i \in Items : Placed(i)
    BY <2>1 DEF Init, Placed, Over, Queued, Places, Taken, NoJob
  <2>4. Spent /\ (drop.pc = "read" => drop.item \in drop.withdrawn)
    BY ConstantsAssumption DEF Init, Spent, Unused, Events, NoStop, NoDrop
  <2> QED
    BY <2>2, <2>3, <2>4 DEF QueueInv, CalmInv
<1>2. TypeOK /\ JobInv /\ QueueInv /\ [Next]_vars => QueueInv'
  BY QueueKept
<1> QED
  BY <1>1, <1>2, TypeCorrect, JobInvariant, PTL DEF Spec

\* Nothing accepted is lost and nothing is done twice, as long as no two read-modify-writes
\* of run_queue overlap, nobody stops the job and the process lives, for any number of
\* starts, follow-ups, steers, withdrawals and rejected flushes.
THEOREM NothingLost == Spec => []QueueExact
<1>1. QueueInv => QueueExact
  BY DEF QueueInv, Calm, CalmInv, Placed, QueueExact
<1> QED
  BY <1>1, QueueInvariant, PTL

=============================================================================

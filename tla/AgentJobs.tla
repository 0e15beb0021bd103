------------------------------ MODULE AgentJobs ------------------------------
(***************************************************************************)
(* Server-side agent jobs of one conversation (backend/src/lib/            *)
(* agentJobs.js): requests that start a job, queue a prompt, withdraw one, *)
(* stop the job or operate on its workspace, and the driver that works     *)
(* through the queue.                                                      *)
(*                                                                         *)
(* The conversation row is the only durable state.  run_queue is a JSON    *)
(* column: everybody reads the row, computes a new array and writes it     *)
(* back in a second query.  One action is the code from one await to the   *)
(* next, the effect of the next query included.                            *)
(***************************************************************************)
EXTENDS Integers, Sequences, SequencesExt

CONSTANTS
  Items,   \* prompts, each sent by one request
  Steers,  \* those sent as a steer: they join a turn instead of getting one
  Budget   \* bound: how often each request or fault happens

\* op: a workspace operation of the task panel; failure: a turn that throws, which it
\* does when the provider fails; fault: a rejected flush.
Events == {"stop", "withdraw", "op", "crash", "failure", "fault"}

ASSUME ConstantsAssumption ==
  /\ Items \subseteq Nat \ {0}
  /\ Steers \subseteq Items
  /\ Budget \in [Events -> Nat]

VARIABLES
  phase,   \* "up", or "down" until the boot sweep has run
  row,     \* the conversation row
  job,     \* the entry of `jobs`, and where its driveJob is suspended
  req,     \* the request that brings each prompt, and the row it has read
  stop,    \* stopJob under way
  drop,    \* dequeue under way; history: every prompt a dequeue was asked for
  op,      \* a workspace operation under way
  torn,    \* history: a queue was written over one the writer had not read
  left     \* what is left of Budget

vars == <<phase, row, job, req, stop, drop, op, torn, left>>

Row == [status : {"idle", "running", "stopping"},
        queue : Seq(Items),          \* run_queue
        asked : SUBSET Items]        \* prompts in messages
NewRow == [status |-> "idle", queue |-> <<>>, asked |-> {}]

InTurn == {"scheduled", "mark", "turn", "steer", "steered"}
BetweenTurns == {"pop", "popped"}
JobPcs == {"none", "close", "finish"} \cup InTurn \cup BetweenTurns
Job == [pc : JobPcs,
        id : Items \cup {0},         \* the prompt that started it
        cur : Items \cup {0},        \* the prompt of the current turn
        item : Items \cup {0},       \* what popQueueKind has taken
        aborted : BOOLEAN,           \* job.abort.signal.aborted
        stopped : BOOLEAN,           \* history: a stop reached a turn of it
        seen : Seq(Items),           \* the queue popQueueKind has read
        mem : SUBSET Items]          \* prompts in job.messages
NoJob == [pc |-> "none", id |-> 0, cur |-> 0, item |-> 0, aborted |-> FALSE,
          stopped |-> FALSE, seen |-> <<>>, mem |-> {}]

ReqPcs == {"new", "start", "written", "queue", "done", "refused"}
Over(pc) == [pc |-> pc, seen |-> NewRow]     \* a request that needs no copy any more
NoStop == [pc |-> "idle", target |-> 0, idle |-> TRUE]
NoDrop == [pc |-> "idle", item |-> 0, seen |-> <<>>, withdrawn |-> {}]
NoOp == [pc |-> "idle", raced |-> FALSE]

TypeOK ==
  /\ phase \in {"up", "down"}
  /\ row \in Row /\ job \in Job
  /\ req \in [Items -> [pc : ReqPcs, seen : Row]]
  /\ stop \in [pc : {"idle", "read", "abort"}, target : Items \cup {0}, idle : BOOLEAN]
  /\ drop \in [pc : {"idle", "read"}, item : Items \cup {0}, seen : Seq(Items),
              withdrawn : SUBSET Items]
  /\ op \in [pc : {"idle", "read", "run"}, raced : BOOLEAN]
  /\ torn \in BOOLEAN
  /\ left \in [Events -> Nat]

Init ==
  /\ phase = "up"
  /\ row = NewRow /\ job = NoJob
  /\ req = [i \in Items |-> Over("new")]
  /\ stop = NoStop /\ drop = NoDrop /\ op = NoOp
  /\ torn = FALSE
  /\ left = Budget

(* ------------------------------ helpers ----------------------------- *)

Live == job.pc # "none"                                \* jobs.has(id)
Places(q, S) == {n \in DOMAIN q : q[n] \in S}           \* where q holds one of S
Queued(i) == Places(row.queue, {i}) # {}
Spend(e) == left[e] > 0 /\ left' = [left EXCEPT ![e] = @ - 1]

\* UPDATE ... SET run_queue, computed from the queue read before.
WriteQueue(seen, queue) ==
  /\ row' = [row EXCEPT !.queue = queue]
  /\ torn' = (torn \/ row.queue # seen)

(* ------------------- startJob, behind its start lock ------------------ *)

Starting == {i \in Items : req[i].pc \in {"start", "written"}}

\* Mutant: no start lock.
StartReadUnlocked(i) ==
  /\ phase = "up" /\ req[i].pc = "new" /\ i \notin Steers
  /\ req' = [req EXCEPT ![i] = [pc |-> "start", seen |-> row]]
  /\ UNCHANGED <<phase, row, job, stop, drop, op, torn, left>>

StartRead(i) ==
  /\ phase = "up" /\ req[i].pc = "new" /\ i \notin Steers
  /\ Starting = {}
  /\ req' = [req EXCEPT ![i] = [pc |-> "start", seen |-> row]]
  /\ UNCHANGED <<phase, row, job, stop, drop, op, torn, left>>

StartRefused(i) ==
  /\ req[i].pc = "start" /\ op.pc = "run"
  /\ req' = [req EXCEPT ![i] = Over("refused")]
  /\ UNCHANGED <<phase, row, job, stop, drop, op, torn, left>>

\* A job is there, or the row says so: the prompt is queued behind it.
StartQueues(i) ==
  /\ req[i].pc = "start" /\ op.pc # "run"
  /\ req[i].seen.status = "running" \/ Live
  /\ WriteQueue(req[i].seen.queue, Append(req[i].seen.queue, i))
  /\ req' = [req EXCEPT ![i] = Over("done")]
  /\ UNCHANGED <<phase, job, stop, drop, op, left>>

\* Mutant: workspaceActions is not looked at.
StartWritesAnyway(i) ==
  /\ req[i].pc = "start"
  /\ req[i].seen.status # "running" /\ ~Live
  /\ row' = [row EXCEPT !.status = "running", !.asked = req[i].seen.asked \cup {i}]
  /\ req' = [req EXCEPT ![i] = Over("written")]
  /\ UNCHANGED <<phase, job, stop, drop, op, torn, left>>

StartWrites(i) ==
  /\ req[i].pc = "start" /\ op.pc # "run"
  /\ req[i].seen.status # "running" /\ ~Live
  /\ row' = [row EXCEPT !.status = "running", !.asked = req[i].seen.asked \cup {i}]
  /\ req' = [req EXCEPT ![i] = Over("written")]
  /\ UNCHANGED <<phase, job, stop, drop, op, torn, left>>

\* attachJob keeps a job it finds; otherwise a driver is scheduled.
StartAttaches(i) ==
  /\ req[i].pc = "written"
  /\ job' = IF Live THEN job
            ELSE [NoJob EXCEPT !.pc = "scheduled", !.id = i, !.cur = i]
  /\ req' = [req EXCEPT ![i] = Over("done")]
  /\ UNCHANGED <<phase, row, stop, drop, op, torn, left>>

(* ------------------------- enqueue, dequeue -------------------------- *)

EnqueueRead(i) ==
  /\ phase = "up" /\ req[i].pc = "new"
  /\ req' = [req EXCEPT ![i] = [pc |-> "queue", seen |-> row]]
  /\ UNCHANGED <<phase, row, job, stop, drop, op, torn, left>>

EnqueueWrite(i) ==
  /\ req[i].pc = "queue"
  /\ WriteQueue(req[i].seen.queue, Append(req[i].seen.queue, i))
  /\ req' = [req EXCEPT ![i] = Over("done")]
  /\ UNCHANGED <<phase, job, stop, drop, op, left>>

\* Only what the client has seen in the queue is withdrawn.
DequeueRead(i) ==
  /\ phase = "up" /\ drop.pc = "idle" /\ Queued(i) /\ Spend("withdraw")
  /\ drop' = [pc |-> "read", item |-> i, seen |-> row.queue,
              withdrawn |-> drop.withdrawn \cup {i}]
  /\ UNCHANGED <<phase, row, job, req, stop, op, torn>>

\* filter(i => i.id !== itemId): ids are unique, one entry goes.
DequeueWrite ==
  /\ drop.pc = "read"
  /\ \E n \in Places(drop.seen, {drop.item}) :
       WriteQueue(drop.seen, RemoveAt(drop.seen, n))
  /\ drop' = [drop EXCEPT !.pc = "idle", !.item = 0, !.seen = <<>>]
  /\ UNCHANGED <<phase, job, req, stop, op, left>>

(* ------------------------ driveJob and runTurn ----------------------- *)

\* runTurn loads the row: job.messages starts again from what was flushed.
TurnLoad(item, aborted) ==
  job' = [job EXCEPT !.pc = "mark", !.cur = item, !.item = 0, !.aborted = aborted,
                     !.mem = row.asked]

DriveBegins ==
  /\ job.pc = "scheduled"
  /\ TurnLoad(job.cur, job.aborted)
  /\ UNCHANGED <<phase, row, req, stop, drop, op, torn, left>>

\* Mutant: the prompt of a follow-up is not added to the transcript.
TurnMarksStatusOnly ==
  /\ job.pc = "mark"
  /\ row' = [row EXCEPT !.status = "running", !.asked = job.mem]
  /\ job' = [job EXCEPT !.pc = "turn"]
  /\ UNCHANGED <<phase, req, stop, drop, op, torn, left>>

TurnMarks ==
  /\ job.pc = "mark"
  /\ row' = [row EXCEPT !.status = "running", !.asked = job.mem \cup {job.cur}]
  /\ job' = [job EXCEPT !.pc = "turn", !.mem = @ \cup {job.cur}]
  /\ UNCHANGED <<phase, req, stop, drop, op, torn, left>>

\* After a round of tool calls a steer is taken from the queue, as it was read.  (A
\* round that finds none changes nothing here.)
SteerReads ==
  /\ job.pc = "turn" /\ Places(row.queue, Steers) # {}
  /\ job' = [job EXCEPT !.pc = "steer", !.seen = row.queue]
  /\ UNCHANGED <<phase, row, req, stop, drop, op, torn, left>>

\* findIndex of the first item of the kind, and splice.
Take(kind, to) ==
  \E n \in Places(job.seen, kind) :
    /\ \A m \in Places(job.seen, kind) : n <= m
    /\ WriteQueue(job.seen, RemoveAt(job.seen, n))
    /\ job' = [job EXCEPT !.pc = to, !.item = job.seen[n], !.seen = <<>>]

SteerTaken ==
  /\ job.pc = "steer"
  /\ Take(Steers, "steered")
  /\ UNCHANGED <<phase, req, stop, drop, op, left>>

SteerApplied ==
  /\ job.pc = "steered"
  /\ row' = [row EXCEPT !.asked = job.mem \cup {job.item}]
  /\ job' = [job EXCEPT !.pc = "turn", !.mem = @ \cup {job.item}, !.item = 0]
  /\ UNCHANGED <<phase, req, stop, drop, op, torn, left>>

\* Mutant: the abort is not looked at between turns.
TurnEndsUnaware ==
  /\ job.pc = "turn"
  /\ job' = [job EXCEPT !.pc = "pop", !.seen = row.queue]
  /\ UNCHANGED <<phase, row, req, stop, drop, op, torn, left>>

\* Mutant: one turn for each job.
TurnEndsJob ==
  /\ job.pc = "turn"
  /\ job' = [job EXCEPT !.pc = "close"]
  /\ UNCHANGED <<phase, row, req, stop, drop, op, torn, left>>

\* The turn is over: the abort is looked at, then the queue is read.
TurnEnds ==
  /\ job.pc = "turn"
  /\ job' = IF job.aborted THEN [job EXCEPT !.pc = "close"]
            ELSE [job EXCEPT !.pc = "pop", !.seen = row.queue]
  /\ UNCHANGED <<phase, row, req, stop, drop, op, torn, left>>

\* The provider fails, or the agent loop notices the abort.
TurnThrows ==
  /\ job.pc = "turn"
  /\ \/ job.aborted /\ UNCHANGED left
     \/ Spend("failure")
  /\ job' = [job EXCEPT !.pc = "close"]
  /\ UNCHANGED <<phase, row, req, stop, drop, op, torn>>

PopFollowup ==
  /\ job.pc = "pop"
  /\ IF Places(job.seen, Items \ Steers) = {}
     THEN job' = [job EXCEPT !.pc = "close", !.seen = <<>>] /\ UNCHANGED <<row, torn>>
     ELSE Take(Items \ Steers, "popped")
  /\ UNCHANGED <<phase, req, stop, drop, op, left>>

\* A new AbortController, and the next turn.
NextTurn ==
  /\ job.pc = "popped"
  /\ TurnLoad(job.item, FALSE)
  /\ UNCHANGED <<phase, row, req, stop, drop, op, torn, left>>

\* The last flush writes the transcript and 'idle'; its failure is only logged.
CloseJob ==
  /\ job.pc = "close"
  /\ \/ row' = [row EXCEPT !.status = "idle", !.asked = job.mem] /\ UNCHANGED left
     \/ Spend("fault") /\ UNCHANGED row
  /\ job' = [job EXCEPT !.pc = "finish"]
  /\ UNCHANGED <<phase, req, stop, drop, op, torn>>

\* finishedAt is stored; then the job leaves the map.
JobGone ==
  /\ job.pc = "finish"
  /\ job' = NoJob
  /\ UNCHANGED <<phase, row, req, stop, drop, op, torn, left>>

(* --------------------- stopJob, workspace operations ------------------ *)

StopReads ==
  /\ phase = "up" /\ stop.pc = "idle" /\ Spend("stop")
  /\ stop' = [NoStop EXCEPT !.pc = "read", !.idle = row.status = "idle"]
  /\ UNCHANGED <<phase, row, job, req, drop, op, torn>>

StopWrites ==
  /\ stop.pc = "read"
  /\ IF Live
     THEN /\ row' = [row EXCEPT !.status = "stopping"]
          /\ stop' = [stop EXCEPT !.pc = "abort", !.target = job.id]
     ELSE /\ row' = IF stop.idle THEN row ELSE [row EXCEPT !.status = "idle"]
          /\ stop' = NoStop
  /\ UNCHANGED <<phase, job, req, drop, op, torn, left>>

\* It aborts the controller the job has by then, if that job is still there.
StopAborts ==
  /\ stop.pc = "abort"
  /\ job' = IF Live /\ job.id = stop.target
            THEN [job EXCEPT !.aborted = TRUE, !.stopped = @ \/ job.pc \notin BetweenTurns]
            ELSE job
  /\ stop' = NoStop
  /\ UNCHANGED <<phase, row, req, drop, op, torn, left>>

\* POST .../controls: proposal, restore, checkpoint, verify, browser, settings.
OpReads ==
  /\ phase = "up" /\ op.pc = "idle" /\ Spend("op")
  /\ op' = [NoOp EXCEPT !.pc = "read"]
  /\ UNCHANGED <<phase, row, job, req, stop, drop, torn>>

OpAdmitted ==
  /\ op.pc = "read"
  /\ op' = IF Live THEN NoOp
           ELSE [pc |-> "run", raced |-> \E i \in Items : req[i].pc = "written"]
  /\ UNCHANGED <<phase, row, job, req, stop, drop, torn, left>>

OpEnds ==
  /\ op.pc = "run"
  /\ op' = NoOp
  /\ UNCHANGED <<phase, row, job, req, stop, drop, torn, left>>

(* --------------------------- crash and boot -------------------------- *)

Crash ==
  /\ phase = "up" /\ Spend("crash")
  /\ phase' = "down"
  /\ job' = NoJob /\ stop' = NoStop /\ op' = NoOp
  /\ drop' = [NoDrop EXCEPT !.withdrawn = drop.withdrawn]
  /\ req' = [i \in Items |-> IF req[i].pc \in {"start", "written", "queue"}
                             THEN Over("refused") ELSE req[i]]
  /\ UNCHANGED <<row, torn>>

\* Mutant: only a stop in progress is repaired.
SweepStaleStops ==
  /\ phase = "down"
  /\ phase' = "up"
  /\ row' = [row EXCEPT !.status = IF @ = "stopping" THEN "idle" ELSE @]
  /\ UNCHANGED <<job, req, stop, drop, op, torn, left>>

SweepStaleRuns ==
  /\ phase = "down"
  /\ phase' = "up"
  /\ row' = [row EXCEPT !.status = "idle"]
  /\ UNCHANGED <<job, req, stop, drop, op, torn, left>>

ItemStep(i) ==
  \/ StartRefused(i) \/ StartQueues(i) \/ StartWrites(i) \/ StartAttaches(i)
  \/ EnqueueWrite(i)

DriverStep ==
  \/ DriveBegins \/ TurnMarks \/ SteerReads \/ SteerTaken \/ SteerApplied
  \/ TurnEnds \/ PopFollowup \/ NextTurn \/ CloseJob \/ JobGone

Next ==
  \/ \E i \in Items : StartRead(i) \/ EnqueueRead(i) \/ ItemStep(i) \/ DequeueRead(i)
  \/ DequeueWrite \/ DriverStep \/ TurnThrows
  \/ StopReads \/ StopWrites \/ StopAborts
  \/ OpReads \/ OpAdmitted \/ OpEnds
  \/ Crash \/ SweepStaleRuns

Spec == Init /\ [][Next]_vars

\* Queries answer and every turn ends; nothing is assumed of the clients.
LiveSpec ==
  /\ Spec
  /\ WF_vars(DriverStep)
  /\ \A i \in Items : WF_vars(ItemStep(i))
  /\ WF_vars(SweepStaleRuns)

(* ----------------------------- properties ---------------------------- *)

Unused(e) == left[e] = Budget[e]

\* A row that says 'running' has a job, or one about to be attached, unless its last
\* flush was rejected.  Otherwise every new prompt is queued behind a job that does
\* not exist, and the conversation is stuck.
RunningHasJob ==
  phase = "up" /\ Unused("fault") /\ row.status = "running" =>
    Live \/ \E i \in Items : req[i].pc = "written"

Taken(i) ==
  \/ i \in row.asked
  \/ job.pc \in {"popped", "steered"} /\ job.item = i
  \/ job.pc = "mark" /\ job.cur = i

\* Unless two read-modify-writes of run_queue overlap, nothing is lost and nothing is
\* done twice: an accepted prompt is either queued or taken by a turn, whatever starts
\* and follow-ups cross.  (A crash loses what was taken and not yet flushed; a start
\* that read 'stopping' may write its stale copy of the messages after the job.)
QueueExact ==
  ~torn /\ Unused("crash") /\ Unused("stop") =>
    \A i \in Items : req[i].pc = "done" /\ i \notin drop.withdrawn => (Queued(i) <=> ~Taken(i))

\* A stop that reaches a turn ends the job: no later turn begins.
StopEndsJob == [][job.stopped /\ job'.pc # "none" => job'.cur = job.cur]_vars

\* No job runs during a workspace operation, except one whose start had passed its
\* test and was waiting for its UPDATE when the operation was admitted.
OpExcludesJob == op.pc = "run" /\ ~op.raced => ~Live

Disturbed(i) ==
  torn \/ i \in drop.withdrawn \/ ~Unused("crash") \/ ~Unused("stop") \/ ~Unused("failure")

\* A follow-up that is queued during a turn gets a turn of its own, unless the provider
\* fails, somebody stops the job, or a racing write loses it.
FollowupsAnswered ==
  \A i \in Items \ Steers :
    (Queued(i) /\ job.pc \in InTurn) ~> (i \in row.asked \/ Disturbed(i))

=============================================================================

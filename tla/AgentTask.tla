------------------------------ MODULE AgentTask ------------------------------
(***************************************************************************)
(* One agent task: the rounds of the agent loop (agentLoop.js), the        *)
(* controller around every tool call (agentControl.js: journal, approvals, *)
(* resume), and the one shell of the sandbox its commands go to            *)
(* (agentSandbox.js).                                                      *)
(*                                                                         *)
(* agent_task_state is durable and changed by mutateTaskState only, which  *)
(* serialises its read-modify-writes: each is one action.  AgentJobs shows *)
(* that a conversation has one turn at a time.                             *)
(***************************************************************************)
EXTENDS Integers, Sequences, FiniteSets

CONSTANTS
  Calls,     \* tool calls: an id with a name and arguments.  The model may use one again
  Id,        \* their ids: two calls may have the same one
  Commands,  \* those that are run_command calls
  Batches,   \* bound: what the model may call in a round
  Budget     \* bound: how often each of Events happens

\* task: a new task; timeout: a command takes too long.
Events == {"task", "stop", "timeout", "crash"}

ASSUME ConstantsAssumption ==
  /\ Commands \subseteq Calls
  /\ Batches \subseteq Seq(Calls)
  /\ Budget \in [Events -> Nat]

VARIABLES
  phase,   \* "up" or "down"
  task,    \* the agent_task_state row
  turn,    \* the running turn: agent loop and controller
  waiting, \* `approvals`: call -> what its promise was resolved with
  answer,  \* a decision of the user between its UPDATE and waiting.resolve
  shell,   \* the persistent bash and what core has of its output
  ran,     \* history: how often each call was carried out in this task
  shifted, \* history: commands given to a shell that still owed an answer
  stale,   \* history: the saved or resumed thread is the one of an earlier task
  left     \* what is left of Budget

vars == <<phase, task, turn, waiting, answer, shell, ran, shifted, stale, left>>

None == "none"                                          \* no call
\* mistaken: the output recorded for another call of that id.
Reply == {"absent", "called", "output", "mistaken", "error", "uncertain"}
Task == [saved : BOOLEAN,                               \* thread?.length
         thread : [Calls -> Reply],                     \* what the thread says of a call
         journal : [Calls -> {"none", "started", "failed", "completed"}],
         output : [Calls -> Calls \cup {None}],         \* whose output is recorded
         approvals : [Calls -> {"none", "pending", "approved", "rejected", "cancelled"}]]
NoTask == [saved |-> FALSE, thread |-> [c \in Calls |-> "absent"],
           journal |-> [c \in Calls |-> "none"], output |-> [c \in Calls |-> None],
           approvals |-> [c \in Calls |-> "none"]]

Pcs == {"off", "round", "asked", "save", "call", "look", "ask", "wait", "unask", "run",
        "shell", "done", "failed"}
Turn == [pc : Pcs,
         aborted : BOOLEAN,
         resumed : BOOLEAN,
         batch : Seq(Calls),              \* tool calls of this round, not yet answered
         thread : [Calls -> Reply],       \* thread in memory
         output : Calls \cup {None}]      \* of the call that is done
NoTurn == [pc |-> "off", aborted |-> FALSE, resumed |-> FALSE, batch |-> <<>>,
           thread |-> [c \in Calls |-> "absent"], output |-> None]

Shell == [bash : Seq(Calls),              \* commands bash has still to finish
          buf : Seq(Calls),               \* finished ones nobody has been told of
          waiter : Calls \cup {None},
          garbled : BOOLEAN,              \* a ^C is the start of bash's next line
          fatal : BOOLEAN]                \* bash exits at its next line
NewShell == [bash |-> <<>>, buf |-> <<>>, waiter |-> None, garbled |-> FALSE, fatal |-> FALSE]
NoAnswer == [call |-> None, granted |-> FALSE]

TypeOK ==
  /\ phase \in {"up", "down"}
  /\ task \in Task /\ turn \in Turn /\ shell \in Shell
  /\ waiting \in [Calls -> {"no", "open", "granted", "denied"}]
  /\ answer \in [call : Calls \cup {None}, granted : BOOLEAN]
  /\ ran \in [Calls -> Nat]
  /\ shifted \subseteq Calls
  /\ stale \in BOOLEAN
  /\ left \in [Events -> Nat]

Init ==
  /\ phase = "up"
  /\ task = NoTask /\ turn = NoTurn
  /\ waiting = [c \in Calls |-> "no"] /\ answer = NoAnswer
  /\ shell = NewShell
  /\ ran = [c \in Calls |-> 0] /\ shifted = {} /\ stale = FALSE
  /\ left = Budget

(* ------------------------------ helpers ----------------------------- *)

Spend(e) == left[e] > 0 /\ left' = [left EXCEPT ![e] = @ - 1]
At(pc, c) == turn.pc = pc /\ turn.batch # <<>> /\ Head(turn.batch) = c
Goto(pc) == turn' = [turn EXCEPT !.pc = pc]

\* The reply of the current call goes into the thread; on to the next call.
Replies(c, reply) ==
  turn' = [turn EXCEPT !.pc = "call", !.batch = Tail(@), !.thread[c] = reply, !.output = None]

\* The entries of the journal under the call's id.
Records(t, c) == {k \in Calls : Id[k] = Id[c] /\ t.journal[k] # "none"}

\* recoverThread: unanswered calls of the last batch, looked up by their id alone.
Recovered(t) ==
  [c \in Calls |-> IF t.thread[c] # "called" THEN t.thread[c]
                   ELSE IF \A k \in Records(t, c) : t.journal[k] # "completed" THEN "uncertain"
                   ELSE IF t.journal[c] = "completed" THEN "output" ELSE "mistaken"]

(* --------------------------- start and resume ------------------------- *)

\* control.start: everything but thread and settings is reset.
StartTask ==
  /\ phase = "up" /\ turn.pc = "off" /\ Spend("task")
  /\ task' = [NoTask EXCEPT !.saved = task.saved, !.thread = task.thread]
  /\ turn' = [NoTurn EXCEPT !.pc = "round"]
  /\ ran' = [c \in Calls |-> 0] /\ shifted' = {}
  /\ stale' = task.saved
  /\ UNCHANGED <<phase, waiting, answer, shell>>

ResumeTask ==
  /\ phase = "up" /\ turn.pc = "off" /\ task.saved
  /\ turn' = [NoTurn EXCEPT !.pc = "round", !.resumed = TRUE, !.thread = Recovered(task)]
  /\ task' = [task EXCEPT !.approvals =
       [c \in Calls |-> IF @[c] = "pending" THEN "cancelled" ELSE @[c]]]
  /\ UNCHANGED <<phase, waiting, answer, shell, ran, shifted, stale, left>>

(* ------------------------------- a round ------------------------------ *)

\* beforeRound, saveThread.
BeginRound ==
  /\ turn.pc = "round"
  /\ IF turn.aborted THEN turn' = NoTurn /\ UNCHANGED <<task, stale>>
     ELSE /\ task' = [task EXCEPT !.saved = TRUE, !.thread = turn.thread]
          /\ stale' = (stale /\ turn.resumed)
          /\ Goto("asked")
  /\ UNCHANGED <<phase, waiting, answer, shell, ran, shifted, left>>

ModelCalls(batch) ==
  /\ turn.pc = "asked" /\ ~turn.aborted
  /\ turn' = [turn EXCEPT !.pc = "save", !.batch = batch,
                !.thread = [c \in Calls |-> IF \E n \in DOMAIN batch : batch[n] = c
                                            THEN "called" ELSE @[c]]]
  /\ UNCHANGED <<phase, task, waiting, answer, shell, ran, shifted, stale, left>>

\* The model has answered, its provider failed, or the stream was aborted.
ModelEnds ==
  /\ turn.pc = "asked"
  /\ turn' = NoTurn
  /\ UNCHANGED <<phase, task, waiting, answer, shell, ran, shifted, stale, left>>

SaveCalls ==
  /\ turn.pc = "save"
  /\ task' = [task EXCEPT !.thread = turn.thread]
  /\ Goto("call")
  /\ UNCHANGED <<phase, waiting, answer, shell, ran, shifted, stale, left>>

\* Between two calls the abort is looked at.  After the last one the thread is saved.
NextCall ==
  /\ turn.pc = "call"
  /\ IF turn.batch = <<>>
     THEN Goto("round") /\ task' = [task EXCEPT !.thread = turn.thread]
     ELSE /\ turn' = IF turn.aborted THEN NoTurn ELSE [turn EXCEPT !.pc = "look"]
          /\ UNCHANGED task
  /\ UNCHANGED <<phase, waiting, answer, shell, ran, shifted, stale, left>>

(* --------------------------- control.execute -------------------------- *)

\* Mutant: nothing is recorded before the call is carried out.
LookUpOnly(c) ==
  /\ At("look", c)
  /\ CASE Records(task, c) = {} -> Goto(IF c \in Commands THEN "ask" ELSE "run")
       [] task.journal[c] = "completed" -> Replies(c, "output")
       [] OTHER -> Replies(c, "error")
  /\ UNCHANGED <<phase, task, waiting, answer, shell, ran, shifted, stale, left>>

\* Mutant: a recorded id is answered whatever the name and the arguments.
LookUpById(c) ==
  /\ At("look", c)
  /\ \/ /\ Records(task, c) = {}
        /\ task' = [task EXCEPT !.journal[c] = "started"]
        /\ Goto(IF c \in Commands THEN "ask" ELSE "run")
     \/ /\ Records(task, c) # {}
        /\ Replies(c, IF \E k \in Records(task, c) : task.journal[k] = "completed"
                      THEN "output" ELSE "error")
        /\ UNCHANGED task
  /\ UNCHANGED <<phase, waiting, answer, shell, ran, shifted, stale, left>>

\* A new id is recorded first.  A recorded call is answered from the journal if it has
\* completed; it is refused if it has not, if it is not the call of that id, or if jsonb
\* has put the keys of its arguments in another order.
LookUp(c) ==
  /\ At("look", c)
  /\ \/ /\ Records(task, c) = {}
        /\ task' = [task EXCEPT !.journal[c] = "started"]
        /\ Goto(IF c \in Commands THEN "ask" ELSE "run")
     \/ /\ Records(task, c) # {}
        /\ \/ Replies(c, "error")
           \/ task.journal[c] = "completed" /\ Replies(c, "output")
        /\ UNCHANGED task
  /\ UNCHANGED <<phase, waiting, answer, shell, ran, shifted, stale, left>>

\* An inspection tool: core carries it out, whether it succeeds or throws.
RunTool(c) ==
  /\ At("run", c) /\ c \notin Commands
  /\ ran' = [ran EXCEPT ![c] = @ + 1]
  /\ turn' \in {[turn EXCEPT !.pc = "done", !.output = c], [turn EXCEPT !.pc = "failed"]}
  /\ UNCHANGED <<phase, task, waiting, answer, shell, shifted, stale, left>>

Completed(c) ==
  /\ At("done", c)
  /\ task' = [task EXCEPT !.journal[c] = "completed", !.output[c] = turn.output]
  /\ Replies(c, "output")
  /\ UNCHANGED <<phase, waiting, answer, shell, ran, shifted, stale, left>>

Failed(c) ==
  /\ At("failed", c)
  /\ task' = [task EXCEPT !.journal[c] = "failed"]
  /\ Replies(c, "error")
  /\ UNCHANGED <<phase, waiting, answer, shell, ran, shifted, stale, left>>

(* ------------------------------ approvals ----------------------------- *)

Ask(c) ==
  /\ At("ask", c)
  /\ task' = [task EXCEPT !.approvals[c] = "pending"]
  /\ waiting' = [waiting EXCEPT ![c] = IF turn.aborted THEN "denied" ELSE "open"]
  /\ Goto("wait")
  /\ UNCHANGED <<phase, answer, shell, ran, shifted, stale, left>>

\* The user decides, once; the promise is resolved after the UPDATE.
Decide(c, granted) ==
  /\ phase = "up" /\ answer = NoAnswer
  /\ waiting[c] # "no" /\ task.approvals[c] = "pending"
  /\ task' = [task EXCEPT !.approvals[c] = IF granted THEN "approved" ELSE "rejected"]
  /\ answer' = [call |-> c, granted |-> granted]
  /\ UNCHANGED <<phase, turn, waiting, shell, ran, shifted, stale, left>>

Resolve ==
  /\ answer # NoAnswer
  /\ waiting' = [waiting EXCEPT ![answer.call] =
       IF @ = "open" THEN IF answer.granted THEN "granted" ELSE "denied" ELSE @]
  /\ answer' = NoAnswer
  /\ UNCHANGED <<phase, task, turn, shell, ran, shifted, stale, left>>

\* Mutant: whoever waits for a decision does not hear of a stop.
StopDeaf ==
  /\ turn.pc # "off" /\ ~turn.aborted /\ Spend("stop")
  /\ turn' = [turn EXCEPT !.aborted = TRUE]
  /\ UNCHANGED <<phase, task, waiting, answer, shell, ran, shifted, stale>>

\* Stopping the job denies what is being asked.
Stop ==
  /\ turn.pc # "off" /\ ~turn.aborted /\ Spend("stop")
  /\ turn' = [turn EXCEPT !.aborted = TRUE]
  /\ waiting' = [c \in Calls |-> IF waiting[c] = "open" THEN "denied" ELSE waiting[c]]
  /\ UNCHANGED <<phase, task, answer, shell, ran, shifted, stale>>

\* The decision is there: go on, or throw.  `finally` forgets the request first.
Decided(c) ==
  /\ At("wait", c) /\ waiting[c] # "open"
  /\ Goto(IF waiting[c] = "granted" /\ ~turn.aborted THEN "unask" ELSE "failed")
  /\ waiting' = [waiting EXCEPT ![c] = "no"]
  /\ task' = [task EXCEPT !.approvals[c] = IF @ = "pending" THEN "cancelled" ELSE @]
  /\ UNCHANGED <<phase, answer, shell, ran, shifted, stale, left>>

(* -------------------------- the sandbox's shell ----------------------- *)

\* execInShell.  After a ^C, bash takes the next line for a syntax error and exits; of a
\* command of several lines it loses only the first.
Send(c) ==
  /\ At("unask", c)
  /\ \E fatal \in IF shell.garbled THEN BOOLEAN ELSE {shell.fatal} :
       /\ shell' = [shell EXCEPT !.waiter = c, !.garbled = FALSE, !.fatal = fatal,
                                 !.bash = IF fatal THEN @ ELSE Append(@, c)]
       /\ ran' = IF fatal THEN ran ELSE [ran EXCEPT ![c] = @ + 1]
  /\ shifted' = IF shell.bash = <<>> /\ shell.buf = <<>> THEN shifted ELSE shifted \cup {c}
  /\ Goto("shell")
  /\ UNCHANGED <<phase, task, waiting, answer, stale, left>>

BashFinishes ==
  /\ shell.bash # <<>>
  /\ shell' = [shell EXCEPT !.buf = Append(@, Head(shell.bash)), !.bash = Tail(@)]
  /\ UNCHANGED <<phase, task, turn, waiting, answer, ran, shifted, stale, left>>

\* drainWaiters: the first marker in the buffer answers whoever waits.
Drain(c) ==
  /\ At("shell", c) /\ shell.waiter = c /\ shell.buf # <<>>
  /\ shell' = [shell EXCEPT !.waiter = None, !.buf = Tail(@)]
  /\ turn' = [turn EXCEPT !.pc = "done", !.output = Head(shell.buf)]
  /\ UNCHANGED <<phase, task, waiting, answer, ran, shifted, stale, left>>

\* 120 s: core gives up, writes ^C and lets the next command in.  Bash runs on.
TimesOut(c) ==
  /\ At("shell", c) /\ shell.waiter = c /\ shell.buf = <<>> /\ Spend("timeout")
  /\ shell' = [shell EXCEPT !.waiter = None, !.garbled = TRUE]
  /\ Goto("failed")
  /\ UNCHANGED <<phase, task, waiting, answer, ran, shifted, stale>>

\* kill: the stream has ended; the waiter, if any, is rejected.
ShellExits ==
  /\ shell.fatal /\ shell.bash = <<>>
  /\ shell.waiter # None => shell.buf = <<>>
  /\ shell' = NewShell
  /\ IF shell.waiter = None THEN UNCHANGED turn ELSE Goto("failed")
  /\ UNCHANGED <<phase, task, waiting, answer, ran, shifted, stale, left>>

(* --------------------------- failures, restart ------------------------ *)

\* No sandbox for the checkpoint before a task, or a spending limit is reached.
TurnThrows ==
  /\ turn.pc = "round"
  /\ turn' = NoTurn
  /\ UNCHANGED <<phase, task, waiting, answer, shell, ran, shifted, stale, left>>

Crash ==
  /\ phase = "up" /\ Spend("crash")
  /\ phase' = "down"
  /\ turn' = NoTurn /\ waiting' = [c \in Calls |-> "no"] /\ answer' = NoAnswer
  /\ shell' = NewShell
  /\ UNCHANGED <<task, ran, shifted, stale>>

Boot ==
  /\ phase = "down" /\ phase' = "up"
  /\ UNCHANGED <<task, turn, waiting, answer, shell, ran, shifted, stale, left>>

CallStep(c) ==
  \/ LookUp(c) \/ RunTool(c) \/ Completed(c) \/ Failed(c)
  \/ Ask(c) \/ Decided(c) \/ Send(c) \/ Drain(c)

LoopStep ==
  \/ BeginRound \/ ModelEnds \/ SaveCalls \/ NextCall
  \/ \E batch \in Batches : ModelCalls(batch)
  \/ \E c \in Calls : CallStep(c)

Next ==
  \/ StartTask \/ ResumeTask \/ LoopStep
  \/ \E c \in Calls : TimesOut(c) \/ \E granted \in BOOLEAN : Decide(c, granted)
  \/ Resolve \/ Stop \/ BashFinishes \/ ShellExits \/ TurnThrows \/ Crash \/ Boot

Spec == Init /\ [][Next]_vars

\* Queries and tools answer, the provider's stream ends, a command ends or times out.
\* Nothing is assumed of the user.
LiveSpec ==
  /\ Spec
  /\ WF_vars(LoopStep)
  /\ WF_vars(BashFinishes) /\ WF_vars(ShellExits) /\ WF_vars(Resolve)

(* ----------------------------- properties ---------------------------- *)

\* Within a task a tool call is carried out at most once, and of the calls that have an id
\* one only, through crashes, resumes and ids the model repeats.
AtMostOnce ==
  \A c \in Calls : /\ ran[c] <= 1
                   /\ ran[c] > 0 => \A k \in Calls \ {c} : Id[k] = Id[c] => ran[k] = 0

\* The saved thread tells the model the truth.  An output is that of the call, with its name
\* and arguments, which was carried out and recorded, unless its shell owed an answer to a
\* command that had timed out; a call recorded as completed is never reported as uncertain.
\* What recoverThread takes from the record of another call is "mistaken": of it only that
\* the call itself was not carried out is said.
RepliesTrue ==
  ~stale => \A c \in Calls :
    /\ task.thread[c] = "output" =>
         /\ task.journal[c] = "completed"
         /\ c \notin shifted => task.output[c] = c /\ ran[c] = 1
    /\ task.thread[c] = "mistaken" => ran[c] = 0
    /\ task.thread[c] = "uncertain" => task.journal[c] # "completed"

\* A stopped turn ends, also while a command waits for approval.
StopEndsTurn == turn.aborted ~> turn.pc = "off"

=============================================================================

--------------------------- MODULE AgentTaskProofs ---------------------------
(* What AgentTask promises for any calls, any batches a model may send and *)
(* any number of tasks, stops, timeouts, crashes and resumes.              *)
EXTENDS AgentTask, TLAPS

(* -------------------------------- types ------------------------------ *)

LEMMA RecoveredType ==
  ASSUME NEW t \in Task
  PROVE  Recovered(t) \in [Calls -> Reply]
BY DEF Recovered, Task, Reply

LEMMA SpendType ==
  ASSUME TypeOK, NEW e \in Events, Spend(e)
  PROVE  left' \in [Events -> Nat]
BY DEF TypeOK, Spend

LEMMA BatchTail ==
  ASSUME TypeOK, turn.batch # <<>>
  PROVE  /\ Tail(turn.batch) \in Seq(Calls)
         /\ Head(turn.batch) \in Calls
BY DEF TypeOK, Turn

LEMMA RepliesType ==
  ASSUME TypeOK, turn.batch # <<>>, NEW c \in Calls, NEW reply \in Reply, Replies(c, reply)
  PROVE  turn' \in Turn
<1>1. Tail(turn.batch) \in Seq(Calls)
  BY BatchTail
<1> QED
  BY <1>1 DEF Replies, TypeOK, Turn, Pcs, None

LEMMA InitialTypes ==
  /\ NoTask \in Task
  /\ NoTurn \in Turn
  /\ NewShell \in Shell
  /\ NoAnswer \in [call : Calls \cup {None}, granted : BOOLEAN]
<1>1. NoTask \in Task
  BY DEF NoTask, Task, Reply, None
<1>2. NoTurn \in Turn
  BY DEF NoTurn, Turn, Pcs, Reply, None
<1>3. NewShell \in Shell
  BY DEF NewShell, Shell, None
<1>4. NoAnswer \in [call : Calls \cup {None}, granted : BOOLEAN]
  BY DEF NoAnswer
<1> QED
  BY <1>1, <1>2, <1>3, <1>4

LEMMA TypeInit == Init => TypeOK
<1> SUFFICES ASSUME Init PROVE TypeOK
  OBVIOUS
<1>1. /\ phase \in {"up", "down"} /\ stale \in BOOLEAN /\ shifted \subseteq Calls
      /\ left \in [Events -> Nat]
  BY ConstantsAssumption DEF Init
<1>2. waiting \in [Calls -> {"no", "open", "granted", "denied"}]
  BY DEF Init
<1>3. ran \in [Calls -> Nat]
  BY DEF Init
<1>4. /\ task \in Task /\ turn \in Turn /\ shell \in Shell
      /\ answer \in [call : Calls \cup {None}, granted : BOOLEAN]
  BY InitialTypes DEF Init
<1> QED
  BY <1>1, <1>2, <1>3, <1>4 DEF TypeOK

LEMMA TypeStep == TypeOK /\ [Next]_vars => TypeOK'
<1> SUFFICES ASSUME TypeOK, [Next]_vars
             PROVE  TypeOK'
  OBVIOUS
<1>1. CASE StartTask
  <2>1. task' \in Task
    BY <1>1, InitialTypes DEF StartTask, TypeOK, Task
  <2>2. turn' \in Turn
    BY <1>1, InitialTypes DEF StartTask, Turn, Pcs
  <2>3. left' \in [Events -> Nat]
    BY <1>1, SpendType DEF StartTask, Events
  <2>4. stale' \in BOOLEAN /\ ran' \in [Calls -> Nat] /\ shifted' = {}
    BY <1>1 DEF StartTask, TypeOK, Task
  <2> QED
    BY <1>1, <2>1, <2>2, <2>3, <2>4 DEF StartTask, TypeOK
<1>2. CASE ResumeTask
  <2>1. Recovered(task) \in [Calls -> Reply]
    BY RecoveredType DEF TypeOK
  <2>2. turn' \in Turn
    BY <1>2, <2>1, InitialTypes DEF ResumeTask, Turn, Pcs
  <2>3. task' \in Task
    BY <1>2 DEF ResumeTask, TypeOK, Task
  <2> QED
    BY <1>2, <2>2, <2>3 DEF ResumeTask, TypeOK
<1>3. CASE BeginRound
  <2>1. CASE turn.aborted
    BY <1>3, <2>1, InitialTypes DEF BeginRound, TypeOK
  <2>2. CASE ~turn.aborted
    <3>1. task' \in Task
      BY <1>3, <2>2 DEF BeginRound, TypeOK, Task, Turn
    <3>2. turn' \in Turn
      BY <1>3, <2>2 DEF BeginRound, Goto, TypeOK, Turn, Pcs
    <3>3. stale' \in BOOLEAN
      BY <1>3, <2>2 DEF BeginRound, TypeOK, Turn
    <3> QED
      BY <1>3, <3>1, <3>2, <3>3 DEF BeginRound, TypeOK
  <2> QED
    BY <2>1, <2>2
<1>4. ASSUME NEW batch \in Batches, ModelCalls(batch) PROVE TypeOK'
  <2>1. batch \in Seq(Calls)
    BY ConstantsAssumption
  <2> QED
    BY <1>4, <2>1 DEF ModelCalls, TypeOK, Turn, Pcs, Reply
<1>5. CASE ModelEnds
  BY <1>5, InitialTypes DEF ModelEnds, TypeOK
<1>6. CASE SaveCalls
  BY <1>6 DEF SaveCalls, Goto, TypeOK, Task, Turn, Pcs
<1>7. CASE NextCall
  <2>1. task' \in Task
    BY <1>7 DEF NextCall, TypeOK, Task, Turn
  <2>2. [turn EXCEPT !.pc = "round"] \in Turn /\ [turn EXCEPT !.pc = "look"] \in Turn
    BY DEF TypeOK, Turn, Pcs
  <2>3. turn' \in Turn
    BY <1>7, <2>2, InitialTypes DEF NextCall, Goto
  <2> QED
    BY <1>7, <2>1, <2>3 DEF NextCall, TypeOK
<1>8. ASSUME NEW c \in Calls, LookUp(c) PROVE TypeOK'
  <2>1. task' \in Task
    BY <1>8 DEF LookUp, TypeOK, Task
  <2>2. turn' \in Turn
    <3>1. [turn EXCEPT !.pc = "ask"] \in Turn /\ [turn EXCEPT !.pc = "run"] \in Turn
      BY DEF TypeOK, Turn, Pcs
    <3>2. ASSUME NEW reply \in Reply, Replies(c, reply) PROVE turn' \in Turn
      BY <1>8, <3>2, RepliesType DEF LookUp, At
    <3> QED
      BY <1>8, <3>1, <3>2 DEF LookUp, Goto, Reply
  <2> QED
    BY <1>8, <2>1, <2>2 DEF LookUp, TypeOK
<1>9. ASSUME NEW c \in Calls, RunTool(c) PROVE TypeOK'
  <2>1. turn' \in Turn
    <3>1. [turn EXCEPT !.pc = "done", !.output = c] \in Turn
      BY DEF TypeOK, Turn, Pcs
    <3>2. [turn EXCEPT !.pc = "failed"] \in Turn
      BY DEF TypeOK, Turn, Pcs
    <3> QED
      BY <1>9, <3>1, <3>2 DEF RunTool
  <2>2. ran' \in [Calls -> Nat]
    BY <1>9 DEF RunTool, TypeOK
  <2> QED
    BY <1>9, <2>1, <2>2 DEF RunTool, TypeOK
<1>10. ASSUME NEW c \in Calls, Completed(c) PROVE TypeOK'
  <2>1. turn' \in Turn
    BY <1>10, RepliesType DEF Completed, At, Reply
  <2>2. task' \in Task
    BY <1>10 DEF Completed, TypeOK, Task, Turn
  <2> QED
    BY <1>10, <2>1, <2>2 DEF Completed, TypeOK
<1>11. ASSUME NEW c \in Calls, Failed(c) PROVE TypeOK'
  <2>1. turn' \in Turn
    BY <1>11, RepliesType DEF Failed, At, Reply
  <2>2. task' \in Task
    BY <1>11 DEF Failed, TypeOK, Task
  <2> QED
    BY <1>11, <2>1, <2>2 DEF Failed, TypeOK
<1>12. ASSUME NEW c \in Calls, Ask(c) PROVE TypeOK'
  BY <1>12 DEF Ask, At, Goto, TypeOK, Task, Turn, Pcs
<1>13. ASSUME NEW c \in Calls, Decided(c) PROVE TypeOK'
  BY <1>13 DEF Decided, At, Goto, TypeOK, Task, Turn, Pcs
<1>14. ASSUME NEW c \in Calls, Send(c) PROVE TypeOK'
  <2>1. PICK fatal \in (IF shell.garbled THEN BOOLEAN ELSE {shell.fatal}) :
          /\ shell' = [shell EXCEPT !.waiter = c, !.garbled = FALSE, !.fatal = fatal,
                                    !.bash = IF fatal THEN @ ELSE Append(@, c)]
          /\ ran' = IF fatal THEN ran ELSE [ran EXCEPT ![c] = @ + 1]
    BY <1>14 DEF Send
  <2>2. fatal \in BOOLEAN
    BY DEF TypeOK, Shell
  <2>3. shell' \in Shell
    <3>1. Append(shell.bash, c) \in Seq(Calls) /\ shell.bash \in Seq(Calls)
      BY DEF TypeOK, Shell
    <3>2. PICK bash \in Seq(Calls) :
            shell' = [shell EXCEPT !.waiter = c, !.garbled = FALSE, !.fatal = fatal, !.bash = bash]
      BY <2>1, <3>1
    <3> QED
      BY <2>2, <3>2 DEF TypeOK, Shell
  <2>4. ran' \in [Calls -> Nat]
    BY <2>1 DEF TypeOK
  <2>5. turn' \in Turn
    BY <1>14 DEF Send, Goto, TypeOK, Turn, Pcs
  <2>6. shifted' \subseteq Calls
    BY <1>14 DEF Send, TypeOK
  <2> QED
    BY <1>14, <2>3, <2>4, <2>5, <2>6 DEF Send, TypeOK
<1>15. ASSUME NEW c \in Calls, Drain(c) PROVE TypeOK'
  <2>1. Head(shell.buf) \in Calls /\ Tail(shell.buf) \in Seq(Calls)
    BY <1>15 DEF Drain, TypeOK, Shell
  <2>2. shell' \in Shell
    BY <1>15, <2>1 DEF Drain, TypeOK, Shell
  <2>3. turn' \in Turn
    BY <1>15, <2>1 DEF Drain, TypeOK, Turn, Pcs
  <2> QED
    BY <1>15, <2>2, <2>3 DEF Drain, TypeOK
<1>16. ASSUME NEW c \in Calls, TimesOut(c) PROVE TypeOK'
  BY <1>16, SpendType DEF TimesOut, At, Goto, TypeOK, Events, Turn, Pcs, Shell
<1>17. ASSUME NEW c \in Calls, NEW granted \in BOOLEAN, Decide(c, granted) PROVE TypeOK'
  BY <1>17 DEF Decide, TypeOK, Task
<1>18. CASE Resolve
  BY <1>18 DEF Resolve, TypeOK, NoAnswer
<1>19. CASE Stop
  BY <1>19, SpendType DEF Stop, TypeOK, Events, Turn
<1>20. CASE BashFinishes
  <2>1. Head(shell.bash) \in Calls /\ Tail(shell.bash) \in Seq(Calls)
    BY <1>20 DEF BashFinishes, TypeOK, Shell
  <2>2. PICK buf \in Seq(Calls), bash \in Seq(Calls) :
          shell' = [shell EXCEPT !.buf = buf, !.bash = bash]
    <3>1. Append(shell.buf, Head(shell.bash)) \in Seq(Calls)
      BY <2>1 DEF TypeOK, Shell
    <3> QED
      BY <1>20, <2>1, <3>1 DEF BashFinishes
  <2>3. shell' \in Shell
    BY <2>2 DEF TypeOK, Shell
  <2> QED
    BY <1>20, <2>3 DEF BashFinishes, TypeOK
<1>21. CASE ShellExits
  BY <1>21, InitialTypes DEF ShellExits, Goto, TypeOK, Turn, Pcs
<1>22. CASE TurnThrows
  BY <1>22, InitialTypes DEF TurnThrows, TypeOK
<1>23. CASE Crash
  BY <1>23, SpendType, InitialTypes DEF Crash, TypeOK, Events
<1>24. CASE Boot
  BY <1>24 DEF Boot, TypeOK
<1>25. CASE UNCHANGED vars
  BY <1>25 DEF vars, TypeOK
<1> QED
  BY <1>1, <1>2, <1>3, <1>4, <1>5, <1>6, <1>7, <1>8, <1>9, <1>10, <1>11, <1>12, <1>13, <1>14,
     <1>15, <1>16, <1>17, <1>18, <1>19, <1>20, <1>21, <1>22, <1>23, <1>24, <1>25
  DEF Next, LoopStep, CallStep

\* The turn, the shell and the durable state of the task keep their types.
THEOREM TypeCorrect == Spec => []TypeOK
BY TypeInit, TypeStep, PTL DEF Spec

(* ------------------------- a call is carried out once ------------------ *)

Current == {"ask", "wait", "unask", "run"}   \* recorded, not carried out
Carried == {"shell", "done", "failed"}

\* A call that is not recorded was not carried out, and the journal has one record of an id;
\* the call at hand is recorded as started, and not carried out before its turn.
OnceInv ==
  /\ \A c \in Calls : ran[c] \in {0, 1}
  /\ \A c \in Calls : task.journal[c] = "none" => ran[c] = 0
  /\ \A c, k \in Calls : task.journal[c] # "none" /\ task.journal[k] # "none" /\ Id[k] = Id[c]
                         => k = c
  /\ turn.pc \in Current \cup Carried =>
       turn.batch # <<>> /\ task.journal[Head(turn.batch)] = "started"
  /\ turn.pc \in Current => ran[Head(turn.batch)] = 0
  /\ shell.waiter # None => turn.pc = "shell"

LEMMA OnceInit == Init => OnceInv
BY DEF Init, OnceInv, NoTask, NoTurn, NewShell, Current, Carried

LEMMA OnceStep == TypeOK /\ OnceInv /\ [Next]_vars => OnceInv'
<1> SUFFICES ASSUME TypeOK, OnceInv, [Next]_vars
             PROVE  OnceInv'
  OBVIOUS
<1> USE DEF OnceInv, Current, Carried
<1>1. CASE StartTask
  BY <1>1 DEF StartTask, NoTask, NoTurn
<1>2. CASE ResumeTask
  BY <1>2 DEF ResumeTask, TypeOK, Task, Turn, NoTurn
<1>3. CASE BeginRound
  <2>1. CASE turn.aborted
    BY <1>3, <2>1 DEF BeginRound, NoTurn
  <2>2. CASE ~turn.aborted
    <3>1. task'.journal = task.journal /\ ran' = ran /\ shell' = shell
      BY <1>3, <2>2 DEF BeginRound, TypeOK, Task
    <3>2. turn'.pc = "asked" /\ turn.pc = "round"
      BY <1>3, <2>2 DEF BeginRound, Goto, TypeOK, Turn
    <3> QED
      BY <3>1, <3>2
  <2> QED
    BY <2>1, <2>2
<1>4. ASSUME NEW batch \in Batches, ModelCalls(batch) PROVE OnceInv'
  BY <1>4 DEF ModelCalls, TypeOK, Turn
<1>5. CASE ModelEnds
  BY <1>5 DEF ModelEnds, NoTurn
<1>6. CASE SaveCalls
  BY <1>6 DEF SaveCalls, Goto, TypeOK, Task, Turn
<1>7. CASE NextCall
  <2>1. task'.journal = task.journal /\ ran' = ran /\ shell' = shell
    BY <1>7 DEF NextCall, TypeOK, Task
  <2>2. turn'.pc \in {"round", "off", "look"}
    BY <1>7 DEF NextCall, Goto, TypeOK, Turn, NoTurn
  <2>3. turn.pc = "call"
    BY <1>7 DEF NextCall
  <2> QED
    BY <2>1, <2>2, <2>3
<1>8. ASSUME NEW c \in Calls, LookUp(c) PROVE OnceInv'
  <2>1. CASE Records(task, c) = {}
    <3>1. /\ task' = [task EXCEPT !.journal[c] = "started"]
          /\ turn' = [turn EXCEPT !.pc = IF c \in Commands THEN "ask" ELSE "run"]
          /\ ran' = ran /\ shell' = shell
          /\ turn.batch # <<>> /\ Head(turn.batch) = c /\ turn.pc = "look"
      BY <1>8, <2>1 DEF LookUp, At, Goto
    <3>2. /\ task'.journal[c] = "started"
          /\ \A k \in Calls : k # c => task'.journal[k] = task.journal[k]
      BY <3>1 DEF TypeOK, Task
    <3>3. turn'.batch = turn.batch /\ turn'.pc \in {"ask", "run"}
      BY <3>1 DEF TypeOK, Turn
    <3>4. turn'.pc \in Current \cup Carried =>
            turn'.batch # <<>> /\ task'.journal[Head(turn'.batch)] = "started"
      BY <3>1, <3>2, <3>3
    <3>8. \A k \in Calls : Id[k] = Id[c] => task.journal[k] = "none"
      BY <2>1 DEF Records
    <3>5. ran'[Head(turn'.batch)] = 0
      BY <1>8, <3>1, <3>3, <3>8
    <3>6. \A k \in Calls : task'.journal[k] = "none" => ran'[k] = 0
      BY <3>1, <3>2
    <3>7. shell'.waiter # None => turn'.pc = "shell"
      BY <3>1
    <3>9. \A k, j \in Calls :
            task'.journal[k] # "none" /\ task'.journal[j] # "none" /\ Id[j] = Id[k] => j = k
      BY <3>2, <3>8
    <3> QED
      BY <3>1, <3>4, <3>5, <3>6, <3>7, <3>9
  <2>2. CASE Records(task, c) # {}
    <3>1. task' = task /\ ran' = ran /\ shell' = shell /\ turn.pc = "look"
      BY <1>8, <2>2 DEF LookUp, At
    <3>2. turn'.pc = "call"
      BY <1>8, <2>2 DEF LookUp, Replies, TypeOK, Turn
    <3> QED
      BY <3>1, <3>2
  <2> QED
    BY <2>1, <2>2
<1>9. ASSUME NEW c \in Calls, RunTool(c) PROVE OnceInv'
  <2>1. turn'.batch = turn.batch /\ turn'.pc \in {"done", "failed"}
    BY <1>9 DEF RunTool, TypeOK, Turn
  <2>2. ran' = [ran EXCEPT ![c] = @ + 1] /\ ran[c] = 0 /\ UNCHANGED <<task, shell>>
    BY <1>9 DEF RunTool, At
  <2>3. turn.pc = "run" /\ Head(turn.batch) = c
    BY <1>9 DEF RunTool, At
  <2> QED
    BY <2>1, <2>2, <2>3 DEF TypeOK
<1>10. ASSUME NEW c \in Calls, Completed(c) PROVE OnceInv'
  BY <1>10 DEF Completed, At, Replies, TypeOK, Task, Turn
<1>11. ASSUME NEW c \in Calls, Failed(c) PROVE OnceInv'
  BY <1>11 DEF Failed, At, Replies, TypeOK, Task, Turn
<1>12. ASSUME NEW c \in Calls, Ask(c) PROVE OnceInv'
  BY <1>12 DEF Ask, At, Goto, TypeOK, Task, Turn
<1>13. ASSUME NEW c \in Calls, Decided(c) PROVE OnceInv'
  BY <1>13 DEF Decided, At, Goto, TypeOK, Task, Turn
<1>14. ASSUME NEW c \in Calls, Send(c) PROVE OnceInv'
  BY <1>14 DEF Send, At, Goto, TypeOK, Task, Turn
<1>15. ASSUME NEW c \in Calls, Drain(c) PROVE OnceInv'
  BY <1>15 DEF Drain, At, TypeOK, Turn
<1>16. ASSUME NEW c \in Calls, TimesOut(c) PROVE OnceInv'
  BY <1>16 DEF TimesOut, At, Goto, TypeOK, Turn
<1>17. ASSUME NEW c \in Calls, NEW granted \in BOOLEAN, Decide(c, granted) PROVE OnceInv'
  BY <1>17 DEF Decide, TypeOK, Task
<1>18. CASE Resolve
  BY <1>18 DEF Resolve
<1>19. CASE Stop
  BY <1>19 DEF Stop, TypeOK, Turn
<1>20. CASE BashFinishes
  BY <1>20 DEF BashFinishes
<1>21. CASE ShellExits
  BY <1>21 DEF ShellExits, Goto, TypeOK, Turn, NewShell
<1>22. CASE TurnThrows
  BY <1>22 DEF TurnThrows, NoTurn
<1>23. CASE Crash
  BY <1>23 DEF Crash, NoTurn, NewShell
<1>24. CASE Boot
  BY <1>24 DEF Boot
<1>25. CASE UNCHANGED vars
  BY <1>25 DEF vars
<1> QED
  BY <1>1, <1>2, <1>3, <1>4, <1>5, <1>6, <1>7, <1>8, <1>9, <1>10, <1>11, <1>12, <1>13, <1>14,
     <1>15, <1>16, <1>17, <1>18, <1>19, <1>20, <1>21, <1>22, <1>23, <1>24, <1>25
  DEF Next, LoopStep, CallStep

\* A tool call is carried out at most once, and one of an id, whatever crashes, is resumed or
\* repeated.
THEOREM CarriedOutOnce == Spec => []AtMostOnce
<1>1. OnceInv => AtMostOnce
  <2> SUFFICES ASSUME OnceInv, NEW c \in Calls
               PROVE  /\ ran[c] <= 1
                      /\ ran[c] > 0 => \A k \in Calls \ {c} : Id[k] = Id[c] => ran[k] = 0
    BY DEF AtMostOnce
  <2>1. ran[c] <= 1
    BY DEF OnceInv
  <2>2. ASSUME ran[c] > 0, NEW k \in Calls \ {c}, Id[k] = Id[c]
        PROVE  ran[k] = 0
    <3>1. task.journal[c] # "none"
      BY <2>2 DEF OnceInv
    <3>2. task.journal[k] = "none"
      BY <2>2, <3>1 DEF OnceInv
    <3> QED
      BY <3>2 DEF OnceInv
  <2> QED
    BY <2>1, <2>2
<1> QED
  BY <1>1, TypeInit, TypeStep, OnceInit, OnceStep, PTL DEF Spec

(* ------------------------- the thread tells the truth ------------------ *)

\* Another call has the record of its id.
Answered(c) == \E k \in Calls \ {c} : Id[k] = Id[c] /\ task.journal[k] # "none"

\* What RepliesTrue says, of any thread.
Truth(thread) ==
  \A c \in Calls :
    /\ thread[c] = "output" =>
         /\ task.journal[c] = "completed"
         /\ c \notin shifted => task.output[c] = c /\ ran[c] = 1
    /\ thread[c] = "mistaken" => Answered(c)
    /\ thread[c] = "uncertain" => task.journal[c] # "completed"

\* What is recorded of a call with a shell of its own is its own output.
RecordTrue ==
  \A c \in Calls :
    task.journal[c] = "completed" /\ c \notin shifted => task.output[c] = c /\ ran[c] = 1

\* The calls still to be answered stand unanswered in the thread, saved before the first.
BatchSaved ==
  /\ turn.pc \notin {"off", "round"} => task.saved
  /\ turn.pc = "save" => \A n \in DOMAIN turn.batch : turn.thread[turn.batch[n]] = "called"
  /\ turn.pc \in {"call", "look"} \cup Current \cup Carried =>
       \A n \in DOMAIN turn.batch : task.thread[turn.batch[n]] = "called"

\* What the shell has is the command that waits for it.
ShellOwn(c) ==
  \/ shell.bash = <<c>> /\ shell.buf = <<>> /\ ran[c] = 1
  \/ shell.bash = <<>> /\ shell.buf = <<c>> /\ ran[c] = 1
  \/ shell.bash = <<>> /\ shell.buf = <<>>

OutputOwn ==
  /\ turn.pc = "shell" => shell.waiter = Head(turn.batch)
  /\ turn.pc = "shell" /\ Head(turn.batch) \notin shifted => ShellOwn(Head(turn.batch))
  /\ turn.pc = "done" /\ Head(turn.batch) \notin shifted =>
       turn.output = Head(turn.batch) /\ ran[Head(turn.batch)] = 1

TruthInv ==
  /\ ~task.saved => \A c \in Calls : task.thread[c] = "absent"
  /\ ~stale => Truth(task.thread)
  /\ turn.pc # "off" /\ (~turn.resumed \/ ~stale) => Truth(turn.thread)
  /\ RecordTrue /\ BatchSaved /\ OutputOwn

LEMMA TruthInit == Init => TruthInv
<1> SUFFICES ASSUME Init PROVE TruthInv
  OBVIOUS
<1>1. /\ \A c \in Calls : task.thread[c] = "absent" /\ task.journal[c] = "none"
      /\ turn.pc = "off"
  BY DEF Init, NoTask, NoTurn
<1> QED
  BY <1>1 DEF TruthInv, Truth, RecordTrue, BatchSaved, OutputOwn, Current, Carried

\* A step that leaves what is recorded alone.
LEMMA TruthFrame ==
  ASSUME task'.journal = task.journal, task'.output = task.output, ran' = ran, shifted' = shifted
  PROVE  /\ \A t : Truth(t) => Truth(t)'
         /\ RecordTrue => RecordTrue'
BY DEF Truth, RecordTrue, Answered

\* It also leaves the turn and the saved thread alone.
LEMMA TruthOutside ==
  ASSUME TruthInv, turn' = turn, shell' = shell, ran' = ran, shifted' = shifted, stale' = stale,
         task'.journal = task.journal, task'.output = task.output,
         task'.thread = task.thread, task'.saved = task.saved
  PROVE  TruthInv'
BY DEF TruthInv, Truth, RecordTrue, BatchSaved, OutputOwn, ShellOwn, Answered

\* The turn is over: only what is recorded and saved counts.
LEMMA TruthAtEnd ==
  ASSUME TruthInv, turn' = NoTurn, ran' = ran, shifted' = shifted, stale' = stale, task' = task
  PROVE  TruthInv'
<1>1. turn'.pc = "off"
  BY DEF NoTurn
<1> QED
  BY <1>1 DEF TruthInv, Truth, RecordTrue, BatchSaved, OutputOwn, Current, Carried, Answered

\* The turn moves on among the places where a call is looked at or asked for.
LEMMA TruthMoves ==
  ASSUME TruthInv, turn.pc \in {"call", "look"} \cup Current \cup Carried,
         turn'.pc \notin {"off", "shell", "done"},
         turn'.batch = turn.batch, turn'.thread = turn.thread, turn'.resumed = turn.resumed,
         turn'.pc # "save",
         ran' = ran, shifted' = shifted, stale' = stale,
         task'.output = task.output, task'.thread = task.thread, task'.saved = task.saved,
         task'.journal = task.journal
  PROVE  TruthInv'
BY DEF TruthInv, Truth, RecordTrue, BatchSaved, OutputOwn, Current, Carried, Answered

\* The calls that remain are saved as those before them.
LEMMA TailSaved ==
  ASSUME TypeOK, turn.batch # <<>>,
         \A n \in DOMAIN turn.batch : task.thread[turn.batch[n]] = "called"
  PROVE  /\ \A n \in DOMAIN Tail(turn.batch) : task.thread[Tail(turn.batch)[n]] = "called"
         /\ task.thread[Head(turn.batch)] = "called"
<1>1. turn.batch \in Seq(Calls)
  BY DEF TypeOK, Turn
<1>2. ASSUME NEW n \in DOMAIN Tail(turn.batch)
      PROVE  n + 1 \in DOMAIN turn.batch /\ Tail(turn.batch)[n] = turn.batch[n + 1]
  BY <1>1
<1>3. 1 \in DOMAIN turn.batch /\ Head(turn.batch) = turn.batch[1]
  BY <1>1
<1> QED
  BY <1>2, <1>3

LEMMA TruthOfCallSteps ==
  ASSUME TypeOK, OnceInv, TruthInv, NEW c \in Calls, CallStep(c)
  PROVE  TruthInv'
<1> USE DEF Current, Carried
<1>1. CASE LookUp(c)
  <2>1. /\ At("look", c) /\ UNCHANGED <<ran, shifted, stale>>
        /\ turn.pc = "look" /\ turn.batch # <<>> /\ Head(turn.batch) = c
    BY <1>1 DEF LookUp, At
  <2>2. CASE Records(task, c) = {}
    <3>1. task' = [task EXCEPT !.journal[c] = "started"]
      BY <1>1, <2>2 DEF LookUp
    <3>2. /\ task'.thread = task.thread /\ task'.saved = task.saved /\ task'.output = task.output
          /\ \A k \in Calls : k # c => task'.journal[k] = task.journal[k]
          /\ task'.journal[c] = "started"
      BY <3>1 DEF TypeOK, Task
    <3>3. /\ turn'.pc \in {"ask", "run"} /\ turn'.batch = turn.batch
          /\ turn'.thread = turn.thread /\ turn'.resumed = turn.resumed
      BY <1>1, <2>2 DEF LookUp, Goto, TypeOK, Turn
    <3>6. task.journal[c] = "none"
      BY <2>2 DEF Records
    <3>4. \A t : Truth(t) => Truth(t)'
      BY <2>1, <3>2, <3>6 DEF Truth, Answered
    <3>5. RecordTrue'
      BY <2>1, <3>2, <3>6 DEF TruthInv, RecordTrue
    <3> QED
      BY <2>1, <3>2, <3>3, <3>4, <3>5 DEF TruthInv, BatchSaved, OutputOwn
  <2>3. CASE Records(task, c) # {}
    <3>1. PICK reply \in {"error", "output"} :
            /\ Replies(c, reply) /\ task' = task
            /\ reply = "output" => task.journal[c] = "completed"
      BY <1>1, <2>3 DEF LookUp
    <3>2. /\ turn'.pc = "call" /\ turn'.batch = Tail(turn.batch) /\ turn'.resumed = turn.resumed
          /\ \A k \in Calls : k # c => turn'.thread[k] = turn.thread[k]
          /\ turn'.thread[c] \in {"output", "error"}
          /\ turn'.thread[c] = "output" => task.journal[c] = "completed"
      BY <3>1 DEF Replies, TypeOK, Turn
    <3>3. BatchSaved'
      BY <2>1, <3>1, <3>2, TailSaved DEF TruthInv, BatchSaved
    <3>4. Truth(turn.thread) => Truth(turn.thread)'
      BY <2>1, <3>1, <3>2 DEF TruthInv, RecordTrue, Truth, Answered
    <3> QED
      BY <2>1, <3>1, <3>2, <3>3, <3>4 DEF TruthInv, RecordTrue, OutputOwn, Truth, Answered
  <2> QED
    BY <2>2, <2>3
<1>2. CASE RunTool(c)
  <2>1. /\ turn.pc = "run" /\ turn.batch # <<>> /\ Head(turn.batch) = c
        /\ ran' = [ran EXCEPT ![c] = @ + 1]
        /\ UNCHANGED <<task, shell, shifted, stale>>
    BY <1>2 DEF RunTool, At
  <2>2. ran'[c] = 1 /\ (\A k \in Calls : k # c => ran'[k] = ran[k]) /\ task.journal[c] = "started"
    BY <2>1 DEF OnceInv, TypeOK
  <2>3. /\ turn'.pc \in {"done", "failed"} /\ turn'.batch = turn.batch
        /\ turn'.thread = turn.thread /\ turn'.resumed = turn.resumed
        /\ turn'.pc = "done" => turn'.output = c
    BY <1>2 DEF RunTool, TypeOK, Turn
  <2>4. RecordTrue' /\ \A t : Truth(t) => Truth(t)'
    BY <2>1, <2>2 DEF TruthInv, RecordTrue, Truth, Answered
  <2> QED
    BY <2>1, <2>2, <2>3, <2>4 DEF TruthInv, BatchSaved, OutputOwn
<1>3. CASE Completed(c)
  <2>1. /\ turn.pc = "done" /\ turn.batch # <<>> /\ Head(turn.batch) = c
        /\ task' = [task EXCEPT !.journal[c] = "completed", !.output[c] = turn.output]
        /\ Replies(c, "output") /\ UNCHANGED <<ran, shifted, stale>>
    BY <1>3 DEF Completed, At
  <2>2. /\ task'.thread = task.thread /\ task'.saved = task.saved
        /\ task'.journal[c] = "completed" /\ task'.output[c] = turn.output
        /\ \A k \in Calls : k # c => task'.journal[k] = task.journal[k] /\ task'.output[k] = task.output[k]
    BY <2>1 DEF TypeOK, Task
  <2>3. /\ turn'.pc = "call" /\ turn'.batch = Tail(turn.batch) /\ turn'.resumed = turn.resumed
        /\ \A k \in Calls : k # c => turn'.thread[k] = turn.thread[k]
        /\ turn'.thread[c] = "output"
    BY <2>1 DEF Replies, TypeOK, Turn
  <2>4. c \notin shifted => turn.output = c /\ ran[c] = 1
    BY <2>1 DEF TruthInv, OutputOwn
  <2>5. BatchSaved' /\ task.thread[c] = "called"
    BY <2>1, <2>2, <2>3, TailSaved DEF TruthInv, BatchSaved
  <2>6. RecordTrue'
    BY <2>1, <2>2, <2>4 DEF TruthInv, RecordTrue
  <2>7. Truth(task.thread) => Truth(task.thread)'
    BY <2>1, <2>2, <2>5 DEF Truth, Answered
  <2>8. Truth(turn.thread) => Truth(turn.thread)'
    BY <2>1, <2>2, <2>3, <2>4 DEF Truth, Answered
  <2> QED
    BY <2>1, <2>2, <2>3, <2>5, <2>6, <2>7, <2>8 DEF TruthInv, OutputOwn
<1>4. CASE Failed(c)
  <2>1. /\ turn.pc = "failed" /\ turn.batch # <<>> /\ Head(turn.batch) = c
        /\ task' = [task EXCEPT !.journal[c] = "failed"]
        /\ Replies(c, "error") /\ UNCHANGED <<ran, shifted, stale>>
        /\ task.journal[c] = "started"
    BY <1>4 DEF Failed, At, OnceInv
  <2>2. /\ task'.thread = task.thread /\ task'.saved = task.saved /\ task'.output = task.output
        /\ task'.journal[c] = "failed"
        /\ \A k \in Calls : k # c => task'.journal[k] = task.journal[k]
    BY <2>1 DEF TypeOK, Task
  <2>3. /\ turn'.pc = "call" /\ turn'.batch = Tail(turn.batch) /\ turn'.resumed = turn.resumed
        /\ \A k \in Calls : k # c => turn'.thread[k] = turn.thread[k]
        /\ turn'.thread[c] = "error"
    BY <2>1 DEF Replies, TypeOK, Turn
  <2>5. BatchSaved'
    BY <2>1, <2>2, <2>3, TailSaved DEF TruthInv, BatchSaved
  <2>6. RecordTrue'
    BY <2>1, <2>2 DEF TruthInv, RecordTrue
  <2>7. Truth(task.thread) => Truth(task.thread)'
    BY <2>1, <2>2 DEF Truth, Answered
  <2>8. Truth(turn.thread) => Truth(turn.thread)'
    BY <2>1, <2>2, <2>3 DEF Truth, Answered
  <2> QED
    BY <2>1, <2>2, <2>3, <2>5, <2>6, <2>7, <2>8 DEF TruthInv, OutputOwn
<1>5. CASE Ask(c)
  <2>1. turn.pc = "ask" /\ UNCHANGED <<ran, shifted, stale>>
    BY <1>5 DEF Ask, At
  <2>2. /\ task'.thread = task.thread /\ task'.saved = task.saved /\ task'.output = task.output
        /\ task'.journal = task.journal
    BY <1>5 DEF Ask, TypeOK, Task
  <2>3. /\ turn'.pc = "wait" /\ turn'.batch = turn.batch
        /\ turn'.thread = turn.thread /\ turn'.resumed = turn.resumed
    BY <1>5 DEF Ask, Goto, TypeOK, Turn
  <2> QED
    BY <2>1, <2>2, <2>3, TruthMoves
<1>6. CASE Decided(c)
  <2>1. turn.pc = "wait" /\ UNCHANGED <<ran, shifted, stale>>
    BY <1>6 DEF Decided, At
  <2>2. /\ task'.thread = task.thread /\ task'.saved = task.saved /\ task'.output = task.output
        /\ task'.journal = task.journal
    BY <1>6 DEF Decided, TypeOK, Task
  <2>3. /\ turn'.pc \in {"unask", "failed"} /\ turn'.batch = turn.batch
        /\ turn'.thread = turn.thread /\ turn'.resumed = turn.resumed
    BY <1>6 DEF Decided, Goto, TypeOK, Turn
  <2> QED
    BY <2>1, <2>2, <2>3, TruthMoves
<1>7. CASE Send(c)
  <2>1. /\ turn.pc = "unask" /\ turn.batch # <<>> /\ Head(turn.batch) = c
        /\ UNCHANGED <<task, stale>>
        /\ shifted' = IF shell.bash = <<>> /\ shell.buf = <<>> THEN shifted ELSE shifted \cup {c}
    BY <1>7 DEF Send, At
  <2>2. /\ turn'.pc = "shell" /\ turn'.batch = turn.batch
        /\ turn'.thread = turn.thread /\ turn'.resumed = turn.resumed
    BY <1>7 DEF Send, Goto, TypeOK, Turn
  <2>3. PICK fatal \in BOOLEAN :
          /\ shell' = [shell EXCEPT !.waiter = c, !.garbled = FALSE, !.fatal = fatal,
                                    !.bash = IF fatal THEN @ ELSE Append(@, c)]
          /\ ran' = IF fatal THEN ran ELSE [ran EXCEPT ![c] = @ + 1]
    BY <1>7 DEF Send, TypeOK, Shell
  <2>4. task.journal[c] = "started" /\ ran[c] = 0
    BY <2>1 DEF OnceInv
  <2>5. /\ \A k \in Calls : k # c => ran'[k] = ran[k]
        /\ ~fatal => ran'[c] = 1
    BY <2>3, <2>4 DEF TypeOK
  <2>6. RecordTrue' /\ \A t : Truth(t) => Truth(t)'
    BY <2>1, <2>4, <2>5 DEF TruthInv, RecordTrue, Truth, Answered
  <2>7. /\ shell'.waiter = c /\ shell'.buf = shell.buf
        /\ shell'.bash = IF fatal THEN shell.bash ELSE Append(shell.bash, c)
    BY <2>3 DEF TypeOK, Shell
  <2>8. c \notin shifted' => ShellOwn(c)'
    <3>1. SUFFICES ASSUME c \notin shifted' PROVE ShellOwn(c)'
      OBVIOUS
    <3>2. shell.bash = <<>> /\ shell.buf = <<>>
      BY <2>1, <3>1
    <3>3. Append(<<>>, c) = <<c>>
      OBVIOUS
    <3> QED
      BY <2>5, <2>7, <3>2, <3>3 DEF ShellOwn
  <2>9. OutputOwn'
    BY <2>1, <2>2, <2>7, <2>8 DEF OutputOwn
  <2> QED
    BY <2>1, <2>2, <2>6, <2>9 DEF TruthInv, BatchSaved
<1>8. CASE Drain(c)
  <2>1. /\ turn.pc = "shell" /\ turn.batch # <<>> /\ Head(turn.batch) = c /\ shell.buf # <<>>
        /\ turn' = [turn EXCEPT !.pc = "done", !.output = Head(shell.buf)]
        /\ UNCHANGED <<task, ran, shifted, stale>>
    BY <1>8 DEF Drain, At
  <2>2. /\ turn'.pc = "done" /\ turn'.batch = turn.batch /\ turn'.output = Head(shell.buf)
        /\ turn'.thread = turn.thread /\ turn'.resumed = turn.resumed
    BY <2>1 DEF TypeOK, Turn
  <2>3. c \notin shifted => Head(shell.buf) = c /\ ran[c] = 1
    BY <2>1 DEF TruthInv, OutputOwn, ShellOwn
  <2> QED
    BY <2>1, <2>2, <2>3 DEF TruthInv, Truth, RecordTrue, BatchSaved, OutputOwn, Answered
<1> QED
  BY <1>1, <1>2, <1>3, <1>4, <1>5, <1>6, <1>7, <1>8 DEF CallStep

LEMMA TruthStep == TypeOK /\ OnceInv /\ TruthInv /\ [Next]_vars => TruthInv'
<1> SUFFICES ASSUME TypeOK, OnceInv, TruthInv, [Next]_vars
             PROVE  TruthInv'
  OBVIOUS
<1>1. CASE StartTask
  <2>1. /\ task'.saved = task.saved /\ task'.thread = task.thread
        /\ \A c \in Calls : task'.journal[c] = "none"
        /\ stale' = task.saved
    BY <1>1 DEF StartTask, NoTask
  <2>2. turn'.pc = "round" /\ \A c \in Calls : turn'.thread[c] = "absent"
    BY <1>1 DEF StartTask, NoTurn
  <2> QED
    BY <2>1, <2>2 DEF TruthInv, Truth, RecordTrue, BatchSaved, OutputOwn, Current, Carried
<1>2. CASE ResumeTask
  <2>1. /\ task'.saved = task.saved /\ task'.thread = task.thread
        /\ task'.journal = task.journal /\ task'.output = task.output
        /\ ran' = ran /\ shifted' = shifted /\ stale' = stale
    BY <1>2 DEF ResumeTask, TypeOK, Task
  <2>2. turn'.pc = "round" /\ turn'.resumed = TRUE /\ turn'.thread = Recovered(task)
    BY <1>2 DEF ResumeTask, NoTurn
  <2>3. Truth(task.thread) => Truth(Recovered(task))
    BY DEF TruthInv, RecordTrue, Truth, Recovered, Answered, Records
  <2> QED
    BY <2>1, <2>2, <2>3, TruthFrame DEF TruthInv, BatchSaved, OutputOwn, Current, Carried
<1>3. CASE BeginRound
  <2>1. CASE turn.aborted
    BY <1>3, <2>1, TruthAtEnd DEF BeginRound
  <2>2. CASE ~turn.aborted
    <3>1. /\ task' = [task EXCEPT !.saved = TRUE, !.thread = turn.thread]
          /\ stale' = (stale /\ turn.resumed) /\ turn.pc = "round"
          /\ Goto("asked") /\ UNCHANGED <<ran, shifted>>
      BY <1>3, <2>2 DEF BeginRound
    <3>2. /\ task'.saved = TRUE /\ task'.thread = turn.thread
          /\ task'.journal = task.journal /\ task'.output = task.output
      BY <3>1 DEF TypeOK, Task
    <3>3. turn'.pc = "asked" /\ turn'.thread = turn.thread /\ turn'.resumed = turn.resumed
      BY <3>1 DEF Goto, TypeOK, Turn
    <3> QED
      BY <3>1, <3>2, <3>3, TruthFrame
      DEF TruthInv, BatchSaved, OutputOwn, Current, Carried
  <2> QED
    BY <2>1, <2>2
<1>4. ASSUME NEW batch \in Batches, ModelCalls(batch) PROVE TruthInv'
  <2>1. /\ turn.pc = "asked" /\ UNCHANGED <<task, shell, ran, shifted, stale>>
    BY <1>4 DEF ModelCalls
  <2>2. /\ turn'.pc = "save" /\ turn'.resumed = turn.resumed
        /\ \A c \in Calls : turn'.thread[c] \in {"called", turn.thread[c]}
        /\ turn'.batch = batch /\ batch \in Seq(Calls)
        /\ \A n \in DOMAIN batch : turn'.thread[batch[n]] = "called"
    BY <1>4, ConstantsAssumption DEF ModelCalls, TypeOK, Turn
  <2>3. Truth(turn.thread) => Truth(turn'.thread)
    BY <2>2 DEF Truth
  <2> QED
    BY <2>1, <2>2, <2>3 DEF TruthInv, Truth, RecordTrue, BatchSaved, OutputOwn, Current, Carried, Answered
<1>5. CASE ModelEnds
  BY <1>5, TruthAtEnd DEF ModelEnds
<1>6. CASE SaveCalls
  <2>1. /\ turn.pc = "save" /\ task' = [task EXCEPT !.thread = turn.thread] /\ Goto("call")
        /\ UNCHANGED <<shell, ran, shifted, stale>>
    BY <1>6 DEF SaveCalls
  <2>2. /\ task'.saved = task.saved /\ task'.thread = turn.thread
        /\ task'.journal = task.journal /\ task'.output = task.output
    BY <2>1 DEF TypeOK, Task
  <2>3. /\ turn'.pc = "call" /\ turn'.thread = turn.thread /\ turn'.resumed = turn.resumed
        /\ turn'.batch = turn.batch
    BY <2>1 DEF Goto, TypeOK, Turn
  <2>4. task.saved /\ \A n \in DOMAIN turn.batch : turn.thread[turn.batch[n]] = "called"
    BY <2>1 DEF TruthInv, BatchSaved
  <2> QED
    BY <2>1, <2>2, <2>3, <2>4, TruthFrame DEF TruthInv, BatchSaved, OutputOwn
<1>7. CASE NextCall
  <2>1. turn.pc = "call" /\ UNCHANGED <<shell, ran, shifted, stale>> /\ task.saved
    BY <1>7 DEF NextCall, TruthInv, BatchSaved
  <2>2. CASE turn.batch = <<>>
    <3>1. /\ task'.saved = task.saved /\ task'.thread = turn.thread
          /\ task'.journal = task.journal /\ task'.output = task.output
      BY <1>7, <2>2 DEF NextCall, TypeOK, Task
    <3>2. turn'.pc = "round" /\ turn'.thread = turn.thread /\ turn'.resumed = turn.resumed
      BY <1>7, <2>2 DEF NextCall, Goto, TypeOK, Turn
    <3> QED
      BY <2>1, <3>1, <3>2, TruthFrame DEF TruthInv, BatchSaved, OutputOwn, Current, Carried
  <2>3. CASE turn.batch # <<>> /\ turn.aborted
    BY <1>7, <2>1, <2>3, TruthAtEnd DEF NextCall
  <2>4. CASE turn.batch # <<>> /\ ~turn.aborted
    <3>1. turn' = [turn EXCEPT !.pc = "look"] /\ task' = task
      BY <1>7, <2>4 DEF NextCall
    <3>2. /\ turn'.pc = "look" /\ turn'.batch = turn.batch
          /\ turn'.thread = turn.thread /\ turn'.resumed = turn.resumed
      BY <3>1 DEF TypeOK, Turn
    <3> QED
      BY <2>1, <3>1, <3>2, TruthMoves
  <2> QED
    BY <2>2, <2>3, <2>4
<1>8. ASSUME NEW c \in Calls, CallStep(c) PROVE TruthInv'
  BY <1>8, TruthOfCallSteps
<1>9. ASSUME NEW c \in Calls, TimesOut(c) PROVE TruthInv'
  <2>1. /\ turn.pc = "shell" /\ Goto("failed") /\ UNCHANGED <<task, ran, shifted, stale>>
    BY <1>9 DEF TimesOut, At
  <2>2. /\ turn'.pc = "failed" /\ turn'.batch = turn.batch
        /\ turn'.thread = turn.thread /\ turn'.resumed = turn.resumed
    BY <2>1 DEF Goto, TypeOK, Turn
  <2> QED
    BY <2>1, <2>2, TruthMoves DEF Carried
<1>10. ASSUME NEW c \in Calls, NEW granted \in BOOLEAN, Decide(c, granted) PROVE TruthInv'
  <2>1. /\ task'.thread = task.thread /\ task'.saved = task.saved /\ task'.output = task.output
        /\ task'.journal = task.journal
    BY <1>10 DEF Decide, TypeOK, Task
  <2> QED
    BY <1>10, <2>1, TruthOutside DEF Decide
<1>11. CASE Resolve \/ Boot
  BY <1>11, TruthOutside DEF Resolve, Boot
<1>12. CASE Stop
  <2>1. /\ turn'.pc = turn.pc /\ turn'.batch = turn.batch /\ turn'.output = turn.output
        /\ turn'.thread = turn.thread /\ turn'.resumed = turn.resumed
    BY <1>12 DEF Stop, TypeOK, Turn
  <2>2. UNCHANGED <<task, shell, ran, shifted, stale>>
    BY <1>12 DEF Stop
  <2> QED
    BY <2>1, <2>2 DEF TruthInv, Truth, RecordTrue, BatchSaved, OutputOwn, ShellOwn, Answered
<1>13. CASE BashFinishes
  <2>1. /\ shell.bash # <<>> /\ UNCHANGED <<task, turn, ran, shifted, stale>>
        /\ shell'.waiter = shell.waiter /\ shell'.bash = Tail(shell.bash)
        /\ shell'.buf = Append(shell.buf, Head(shell.bash))
    BY <1>13 DEF BashFinishes, TypeOK, Shell
  <2>2. ASSUME NEW c, ShellOwn(c) PROVE ShellOwn(c)'
    <3>1. shell.bash = <<c>> /\ shell.buf = <<>> /\ ran[c] = 1
      BY <2>1, <2>2 DEF ShellOwn
    <3>2. Tail(<<c>>) = <<>> /\ Head(<<c>>) = c /\ Append(<<>>, c) = <<c>>
      OBVIOUS
    <3> QED
      BY <2>1, <3>1, <3>2 DEF ShellOwn
  <2>3. OutputOwn'
    BY <2>1, <2>2 DEF TruthInv, OutputOwn
  <2> QED
    BY <2>1, <2>3 DEF TruthInv, Truth, RecordTrue, BatchSaved, Answered
<1>14. CASE ShellExits
  <2>1. shell' = NewShell /\ UNCHANGED <<task, ran, shifted, stale>>
    BY <1>14 DEF ShellExits
  <2>2. CASE shell.waiter = None
    <3>1. turn' = turn
      BY <1>14, <2>2 DEF ShellExits
    <3>2. \A c : ShellOwn(c)'
      BY <2>1 DEF ShellOwn, NewShell
    <3>3. shell'.waiter = shell.waiter
      BY <2>1, <2>2 DEF NewShell
    <3>4. OutputOwn'
      BY <2>1, <3>1, <3>2, <3>3 DEF TruthInv, OutputOwn
    <3> QED
      BY <2>1, <3>1, <3>4 DEF TruthInv, Truth, RecordTrue, BatchSaved, Answered
  <2>3. CASE shell.waiter # None
    <3>1. turn.pc = "shell" /\ Goto("failed")
      BY <1>14, <2>3 DEF ShellExits, OnceInv
    <3>2. /\ turn'.pc = "failed" /\ turn'.batch = turn.batch
          /\ turn'.thread = turn.thread /\ turn'.resumed = turn.resumed
      BY <3>1 DEF Goto, TypeOK, Turn
    <3> QED
      BY <2>1, <3>1, <3>2, TruthMoves DEF Carried
  <2> QED
    BY <2>2, <2>3
<1>15. CASE TurnThrows
  BY <1>15, TruthAtEnd DEF TurnThrows
<1>16. CASE Crash
  BY <1>16, TruthAtEnd DEF Crash
<1>17. CASE UNCHANGED vars
  BY <1>17, TruthOutside DEF vars
<1> QED
  BY <1>1, <1>2, <1>3, <1>4, <1>5, <1>6, <1>7, <1>8, <1>9, <1>10, <1>11, <1>12, <1>13, <1>14,
     <1>15, <1>16, <1>17
  DEF Next, LoopStep

\* What the saved thread says of a call is what happened: an output is its own and was
\* recorded, no recorded call is called uncertain, and a call answered from the record of
\* another of its id was not carried out, through crashes and resumes.
THEOREM ThreadIsTrue == Spec => []RepliesTrue
<1>1. OnceInv /\ TruthInv => RepliesTrue
  <2> SUFFICES ASSUME OnceInv, TruthInv, ~stale, NEW c \in Calls,
                      task.thread[c] = "mistaken"
               PROVE  ran[c] = 0
    BY DEF TruthInv, Truth, RepliesTrue
  <2>1. PICK k \in Calls \ {c} : Id[k] = Id[c] /\ task.journal[k] # "none"
    BY DEF TruthInv, Truth, Answered
  <2>2. task.journal[c] = "none"
    BY <2>1 DEF OnceInv
  <2> QED
    BY <2>2 DEF OnceInv
<1> QED
  BY <1>1, TypeInit, TypeStep, OnceInit, OnceStep, TruthInit, TruthStep, PTL DEF Spec
=============================================================================

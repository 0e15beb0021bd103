------------------------------- MODULE Sandbox -------------------------------
(***************************************************************************)
(* The Docker sandbox of one conversation (agentSandbox.js): its           *)
(* container, the shells core has open in it, the requests that wake and   *)
(* use it, and the sweeper that stops it.                                  *)
(*                                                                         *)
(* What commands do and how they are answered is AgentTask's.  The volume  *)
(* stays for good: Docker removes none that a container refers to, and the *)
(* sweeper tries before it removes the container.                          *)
(***************************************************************************)
EXTENDS Integers, Sequences, FiniteSets

CONSTANTS
  Callers,   \* bound: requests at a time
  Asks,      \* what each caller asks for
  MaxShells, \* bound: shells open at a time
  Budgets    \* bound: how often each of Events may happen in a behaviour

\* lose: the container exits or is removed by others; fault: a query or a call to Docker
\* is rejected; access: the repository is closed or opened to the user; drift: core comes
\* back with another policy, or the container was replaced by hand meanwhile.
Events == {"crash", "lose", "fault", "access", "drift"}
Sweeper == "sweeper"

ASSUME ConstantsAssumption ==
  /\ Sweeper \notin Callers
  /\ Asks \in [Callers -> SUBSET {"touch", "read", "file", "command"}]
  /\ MaxShells \in Nat
  /\ Budgets \subseteq [Events -> Nat]

VARIABLES
  phase,   \* "up" or "down"
  access,  \* what resolveWorkspace says of the user
  ctr,     \* the container
  pat,     \* the token stored in the volume is in the tokens table
  mem,     \* age of lastActivity
  line,    \* withContainerLifecycle: who goes first
  call,    \* the requests
  sweep,   \* the sweep and its row of the list
  bash,    \* the shells' streams
  shell,   \* the one in `shells`, or 0
  mishap,  \* history: what may have gone wrong since the last complete wake
  left     \* what is left of the budget

vars == <<phase, access, ctr, pat, mem, line, call, sweep, bash, shell, mishap, left>>

\* Ages are told apart by IDLE_MS and VOLUME_TTL_MS; Never: nothing in memory.
Fresh == 0
Idle == 1
Expired == 2
Never == 3

Shells == 1..MaxShells
Kinds == {"touch", "read", "file", "command"}
Creates(kind) == kind \in {"file", "command"}

NoContainer == [st |-> "none", fit |-> "ok", synced |-> FALSE, born |-> Fresh]
NoCall == [pc |-> "idle", kind |-> "touch", here |-> FALSE, sh |-> 0]
NoSweep == [pc |-> "idle", same |-> FALSE]
NoBash == [st |-> "none", here |-> FALSE]

TypeOK ==
  /\ phase \in {"up", "down"} /\ access \in BOOLEAN /\ pat \in BOOLEAN
  /\ ctr \in [st : {"none", "stopped", "running"}, fit : {"ok", "old", "foreign"},
              synced : BOOLEAN,             \* syncRepo has succeeded since the last start
              born : {Fresh, Idle, Expired}]
  /\ mem \in {Fresh, Idle, Expired, Never}
  /\ line \in Seq(Callers \cup {Sweeper})
  /\ call \in [Callers -> [pc : {"idle", "check", "evict", "revoke", "inspect", "discard",
                                 "remove", "create", "start", "mint", "sync", "abandon",
                                 "spawn", "exec", "shell"},
                           kind : Kinds,
                           here : BOOLEAN,  \* it uses the container, which has not stopped since
                           sh : 0..MaxShells]]
  /\ sweep \in [pc : {"idle", "inspect", "access", "quarantine", "stop", "expire", "evict",
                      "revoke"},
                same : BOOLEAN]             \* the row's container has not been removed
  /\ bash \in [Shells -> [st : {"none", "open", "ended"}, here : BOOLEAN]]
  /\ shell \in 0..MaxShells
  /\ mishap \subseteq {"half", "unstopped", "blind"}
  /\ left \in [Events -> Nat]

Init ==
  /\ phase = "up" /\ access = TRUE
  /\ ctr = NoContainer /\ pat = FALSE /\ mem = Never
  /\ line = <<>> /\ call = [c \in Callers |-> NoCall] /\ sweep = NoSweep
  /\ bash = [s \in Shells |-> NoBash] /\ shell = 0
  /\ mishap = {} /\ left \in Budgets

(* ------------------------------ helpers ----------------------------- *)

Spend(e) == left[e] > 0 /\ left' = [left EXCEPT ![e] = @ - 1]
Fault == Spend("fault")
Fine == UNCHANGED left

First(a) == line # <<>> /\ Head(line) = a
At(c, pc) == First(c) /\ call[c].pc = pc
Goto(c, pc) == call' = [call EXCEPT ![c].pc = pc]

\* closeShell: the shell leaves the map, its stream is ended, its command rejected.
Rejected(s) ==
  [c \in Callers |-> IF call[c].pc = "shell" /\ call[c].sh = s THEN NoCall ELSE call[c]]
CloseShell ==
  /\ shell' = 0
  /\ bash' = IF shell = 0 THEN bash ELSE [bash EXCEPT ![shell].st = "ended"]

\* The container has stopped: what was going on in it is over.
Halts(calls, st) ==
  /\ ctr' = [ctr EXCEPT !.st = st, !.synced = FALSE]
  /\ call' = [c \in Callers |-> [calls[c] EXCEPT !.here = FALSE]]
  /\ bash' = [s \in Shells |-> [bash[s] EXCEPT !.here = FALSE]]

\* stopContainerByName: an error is only logged.
StopByName(calls) ==
  \/ /\ ctr.st = "running" /\ Fine
     /\ Halts(calls, "stopped") /\ UNCHANGED mishap
  \/ /\ IF ctr.st = "running" THEN Fault ELSE Fine
     /\ mishap' = IF ctr.st = "running" THEN mishap \cup {"unstopped"} ELSE mishap
     /\ call' = calls /\ UNCHANGED <<ctr, bash>>

\* The request throws, or has nothing to do: the next in line goes on.
Leaves(c) == call' = [call EXCEPT ![c] = NoCall] /\ line' = Tail(line)

(* ----------------------- ensureRunningContainer ---------------------- *)

\* A command and a written file count as activity on arrival, an attachment does not.
Request(c, kind) ==
  /\ phase = "up" /\ call[c].pc = "idle"
  /\ call' = [call EXCEPT ![c] = [NoCall EXCEPT !.pc = "check", !.kind = kind]]
  /\ line' = Append(line, c)
  /\ mem' \in CASE kind = "command" -> {Fresh} [] kind = "file" -> {Fresh, mem} [] OTHER -> {mem}
  /\ UNCHANGED <<phase, access, ctr, pat, sweep, bash, shell, mishap, left>>

\* resolveWorkspace and containerPolicy; whatever they reject for counts as no access.
Authorize(c) ==
  /\ At(c, "check")
  /\ \/ /\ access /\ Fine /\ Goto(c, "inspect") /\ UNCHANGED <<bash, shell>>
     \/ /\ IF access THEN Fault ELSE Fine
        /\ CloseShell /\ call' = [Rejected(shell) EXCEPT ![c].pc = "evict"]
  /\ UNCHANGED <<phase, access, ctr, pat, mem, line, sweep, mishap>>

Evict(c) ==
  /\ At(c, "evict")
  /\ StopByName([call EXCEPT ![c].pc = "revoke"])
  /\ UNCHANGED <<phase, access, pat, mem, line, sweep, shell>>

RevokeToken(c) ==
  /\ At(c, "revoke")
  /\ \/ Fine /\ pat' = FALSE
     \/ Fault /\ UNCHANGED pat
  /\ Leaves(c)
  /\ UNCHANGED <<phase, access, ctr, mem, sweep, bash, shell, mishap>>

\* What a request goes on to in a container that is up.  A command needs the shell to be
\* free, or opens one.
Use(c) ==
  LET kind == call[c].kind
      free == \A k \in Callers : ~(call[k].pc = "shell" /\ call[k].sh = shell)
  IN CASE kind = "touch" -> NoCall
       [] kind \in {"read", "file"} -> [call[c] EXCEPT !.pc = "exec", !.here = TRUE]
       [] kind = "command" /\ shell = 0 -> [call[c] EXCEPT !.pc = "spawn", !.here = TRUE]
       [] kind = "command" /\ shell # 0 /\ ~free -> NoCall
       [] kind = "command" /\ shell # 0 /\ free ->
            [call[c] EXCEPT !.pc = "shell", !.here = TRUE, !.sh = shell]

\* Mutant: only the request's arrival counts as activity.
ReadyUntouched(c) ==
  /\ call' = [call EXCEPT ![c] = Use(c)] /\ line' = Tail(line)
  /\ UNCHANGED mem

\* The container is up: touch, let the next one in, and go on to the use.
Ready(c) ==
  /\ call' = [call EXCEPT ![c] = Use(c)] /\ line' = Tail(line)
  /\ mem' = Fresh

InspectFindsNone(c) ==
  /\ At(c, "inspect") /\ ctr.st = "none"
  /\ IF Creates(call[c].kind) THEN Goto(c, "create") /\ UNCHANGED line ELSE Leaves(c)
  /\ UNCHANGED <<phase, access, ctr, pat, mem, sweep, bash, shell, mishap, left>>

InspectFindsMisfit(c) ==
  /\ At(c, "inspect") /\ ctr.st # "none" /\ ctr.fit # "ok"
  /\ CloseShell /\ call' = [Rejected(shell) EXCEPT ![c].pc = "discard"]
  /\ UNCHANGED <<phase, access, ctr, pat, mem, line, sweep, mishap, left>>

InspectFindsIt(c) ==
  /\ At(c, "inspect") /\ ctr.st # "none" /\ ctr.fit = "ok"
  /\ IF ctr.st = "running" THEN Ready(c) ELSE Goto(c, "start") /\ UNCHANGED <<line, mem>>
  /\ UNCHANGED <<phase, access, ctr, pat, sweep, bash, shell, mishap, left>>

InspectFails(c) ==
  /\ At(c, "inspect") /\ Fault
  /\ Leaves(c)
  /\ UNCHANGED <<phase, access, ctr, pat, mem, sweep, bash, shell, mishap>>

\* A container with another volume is stopped and kept.  One that has exited or gone since
\* it was inspected makes the call throw.
Discard(c) ==
  LET after ==
        [call EXCEPT ![c] = IF ctr.fit = "foreign" THEN NoCall ELSE [@ EXCEPT !.pc = "remove"]]
  IN
  /\ At(c, "discard")
  /\ \/ /\ ctr.st # "none" /\ Fine
        /\ IF ctr.st = "running" THEN Halts(after, "stopped")
           ELSE call' = after /\ UNCHANGED <<ctr, bash>>
        /\ line' = IF ctr.fit = "foreign" THEN Tail(line) ELSE line
     \/ /\ IF ctr.st = "running" THEN Fault ELSE Fine
        /\ Leaves(c) /\ UNCHANGED <<ctr, bash>>
  /\ UNCHANGED <<phase, access, pat, mem, sweep, shell, mishap>>

Remove(c) ==
  /\ At(c, "remove")
  /\ \/ /\ ctr.st # "none" /\ Fine
        /\ ctr' = NoContainer /\ sweep' = [sweep EXCEPT !.same = FALSE]
        /\ Goto(c, "create") /\ UNCHANGED line
     \/ /\ IF ctr.st # "none" THEN Fault ELSE Fine
        /\ Leaves(c) /\ UNCHANGED <<ctr, sweep>>
  /\ UNCHANGED <<phase, access, pat, mem, bash, shell, mishap>>

\* createContainer, then inspect; either may be rejected.
Create(c) ==
  /\ At(c, "create")
  /\ \/ Fine /\ ctr' = [NoContainer EXCEPT !.st = "stopped"] /\ Goto(c, "start") /\ UNCHANGED line
     \/ Fault /\ ctr' \in {ctr, [NoContainer EXCEPT !.st = "stopped"]} /\ Leaves(c)
  /\ UNCHANGED <<phase, access, pat, mem, sweep, bash, shell, mishap>>

\* The shells of an earlier start are closed once the container is up.
Start(c) ==
  /\ At(c, "start")
  /\ \/ /\ ctr.st = "stopped" /\ Fine
        /\ ctr' = [ctr EXCEPT !.st = "running", !.synced = FALSE]
        /\ CloseShell /\ call' = [Rejected(shell) EXCEPT ![c].pc = "mint"]
        /\ UNCHANGED line
     \/ /\ IF ctr.st = "stopped" THEN Fault ELSE Fine
        /\ Leaves(c) /\ UNCHANGED <<ctr, bash, shell>>
  /\ UNCHANGED <<phase, access, pat, mem, sweep, mishap>>

(* ------------------------------ syncRepo ----------------------------- *)

\* mintSandboxToken: DELETE, INSERT.
Mint(c) ==
  /\ At(c, "mint")
  /\ \/ Fine /\ pat' = FALSE /\ Goto(c, "sync")
     \/ Fault /\ pat' \in {pat, FALSE} /\ Goto(c, "abandon")
  /\ UNCHANGED <<phase, access, ctr, mem, line, sweep, bash, shell, mishap>>

\* The script clones or fetches and writes the token into the volume.
Sync(c) ==
  /\ At(c, "sync")
  /\ \/ /\ ctr.st = "running" /\ Fine
        /\ ctr' = [ctr EXCEPT !.synced = TRUE] /\ pat' = TRUE /\ mishap' = {}
        /\ Ready(c)
     \/ /\ IF ctr.st = "running" THEN Fault ELSE Fine
        /\ Goto(c, "abandon") /\ UNCHANGED <<ctr, pat, mishap, line, mem>>
  /\ UNCHANGED <<phase, access, sweep, bash, shell>>

\* Mutant: a workspace that could not be synced is left running.
AbandonRunning(c) ==
  /\ At(c, "abandon")
  /\ Leaves(c)
  /\ UNCHANGED <<phase, access, ctr, pat, mem, sweep, bash, shell, mishap, left>>

Abandon(c) ==
  /\ At(c, "abandon")
  /\ StopByName([call EXCEPT ![c] = NoCall])
  /\ line' = Tail(line)
  /\ UNCHANGED <<phase, access, pat, mem, sweep, shell>>

(* ------------------------- use of the container ---------------------- *)

\* spawnShell: the new shell takes the place of any other in the map.
Spawn(c) ==
  /\ call[c].pc = "spawn"
  /\ \/ /\ call[c].here /\ Fine
        /\ \E s \in Shells :
             /\ bash[s].st = "none" /\ \A t \in 1..(s - 1) : bash[t].st # "none"
             /\ bash' = [bash EXCEPT ![s] = [st |-> "open", here |-> TRUE]]
             /\ shell' = s
             /\ call' = [call EXCEPT ![c].pc = "shell", ![c].sh = s]
     \/ /\ IF call[c].here THEN Fault ELSE Fine
        /\ call' = [call EXCEPT ![c] = NoCall] /\ UNCHANGED <<bash, shell>>
  /\ UNCHANGED <<phase, access, ctr, pat, mem, line, sweep, mishap>>

\* It succeeds, fails or, a command, times out.
UseEnds(c) ==
  /\ call[c].pc \in {"exec", "shell"}
  /\ call' = [call EXCEPT ![c] = NoCall]
  /\ UNCHANGED <<phase, access, ctr, pat, mem, line, sweep, bash, shell, mishap, left>>

\* kill, on the end of a stream: whatever shell is in the map leaves it.
BashExits(s) ==
  /\ bash[s].st = "ended" \/ (bash[s].st = "open" /\ ~bash[s].here)
  /\ bash' = [bash EXCEPT ![s] = NoBash]
  /\ shell' = 0 /\ call' = Rejected(s)
  /\ UNCHANGED <<phase, access, ctr, pat, mem, line, sweep, mishap, left>>

(* ------------------------------ the sweep ---------------------------- *)

SweepAt(pc) == First(Sweeper) /\ sweep.pc = pc
SweepGoto(pc) == sweep' = [sweep EXCEPT !.pc = pc] /\ UNCHANGED line
SweepEnds == sweep' = NoSweep /\ line' = Tail(line)

\* The list is taken before the wait.
SweepLists ==
  /\ phase = "up" /\ sweep.pc = "idle" /\ ctr.st # "none"
  /\ sweep' = [pc |-> "inspect", same |-> TRUE]
  /\ line' = Append(line, Sweeper)
  /\ UNCHANGED <<phase, access, ctr, pat, mem, call, bash, shell, mishap, left>>

\* How long ago: the label is as old as the container, memory as the last touch.
Age == IF mem < ctr.born THEN mem ELSE ctr.born

\* The idle clocks, for a container found running or not.
Clocks(up) ==
  IF up /\ Age >= Idle
  THEN SweepGoto("stop") /\ CloseShell /\ call' = Rejected(shell)
  ELSE /\ IF ~up /\ Age = Expired THEN SweepGoto("expire") ELSE SweepEnds
       /\ UNCHANGED <<bash, shell, call>>

\* Whatever goes wrong counts as no access; a container that is gone is passed over.
SweepInspects ==
  /\ SweepAt("inspect")
  /\ \/ Fine /\ ~sweep.same /\ SweepEnds /\ UNCHANGED <<bash, shell, call, mishap>>
     \/ /\ Fine /\ sweep.same /\ UNCHANGED mishap
        /\ CASE ctr.fit # "ok" -> SweepGoto("quarantine") /\ CloseShell /\ call' = Rejected(shell)
             [] ctr.fit = "ok" /\ ctr.st = "running" ->
                  SweepGoto("access") /\ UNCHANGED <<bash, shell, call>>
             [] OTHER -> Clocks(FALSE)
     \/ /\ Fault /\ SweepGoto("evict") /\ CloseShell /\ call' = Rejected(shell)
        /\ mishap' = IF sweep.same THEN mishap ELSE mishap \cup {"blind"}
  /\ UNCHANGED <<phase, access, ctr, pat, mem>>

\* Mutant: who may use the repository is only asked when they do.
SweepTrusts ==
  /\ SweepAt("access")
  /\ Clocks(TRUE)
  /\ UNCHANGED <<phase, access, ctr, pat, mem, mishap, left>>

SweepAuthorizes ==
  /\ SweepAt("access")
  /\ \/ access /\ Fine /\ Clocks(TRUE)
     \/ /\ IF access THEN Fault ELSE Fine
        /\ SweepGoto("evict") /\ CloseShell /\ call' = Rejected(shell)
  /\ UNCHANGED <<phase, access, ctr, pat, mem, mishap>>

\* The row's container is stopped: too old a policy, or idle.
SweepStops ==
  /\ SweepAt("quarantine") \/ SweepAt("stop")
  /\ IF sweep.same THEN StopByName(call) ELSE Fine /\ UNCHANGED <<ctr, bash, call, mishap>>
  /\ SweepEnds
  /\ UNCHANGED <<phase, access, pat, mem, shell>>

SweepEvicts ==
  /\ SweepAt("evict")
  /\ IF sweep.same THEN StopByName(call) ELSE Fine /\ UNCHANGED <<ctr, bash, call, mishap>>
  /\ SweepGoto("revoke")
  /\ UNCHANGED <<phase, access, pat, mem, shell>>

SweepRevokes ==
  /\ SweepAt("revoke")
  /\ \/ Fine /\ pat' = FALSE
     \/ Fault /\ UNCHANGED pat
  /\ SweepEnds
  /\ UNCHANGED <<phase, access, ctr, mem, call, bash, shell, mishap>>

SweepExpires ==
  /\ SweepAt("expire")
  /\ \/ Fine /\ ctr' = IF sweep.same THEN NoContainer ELSE ctr
     \/ Fault /\ UNCHANGED ctr
  /\ SweepEnds
  /\ UNCHANGED <<phase, access, pat, mem, call, bash, shell, mishap>>

(* --------------------------- the environment ------------------------- *)

\* 15 minutes or 7 days go by; what is done in the container takes less.
Later ==
  /\ \A c \in Callers : call[c].pc \notin {"spawn", "exec", "shell"}
  /\ \E age \in {Idle, Expired} :
       /\ mem' = IF mem < age THEN age ELSE mem
       /\ ctr' = IF ctr.st # "none" /\ ctr.born < age THEN [ctr EXCEPT !.born = age] ELSE ctr
  /\ UNCHANGED <<phase, access, pat, line, call, sweep, bash, shell, mishap, left>>

Lose ==
  /\ ctr.st = "running" /\ Spend("lose")
  /\ \/ Halts(call, "stopped") /\ UNCHANGED sweep
     \/ /\ ctr' = NoContainer /\ sweep' = [sweep EXCEPT !.same = FALSE]
        /\ call' = [c \in Callers |-> [call[c] EXCEPT !.here = FALSE]]
        /\ bash' = [s \in Shells |-> [bash[s] EXCEPT !.here = FALSE]]
  /\ UNCHANGED <<phase, access, pat, mem, line, shell, mishap>>

AccessChanges ==
  /\ Spend("access") /\ access' = ~access
  /\ UNCHANGED <<phase, ctr, pat, mem, line, call, sweep, bash, shell, mishap>>

\* The container outlives core; a script already under way in it may still finish.
Crash ==
  /\ phase = "up" /\ Spend("crash")
  /\ phase' = "down"
  /\ \E done \in {FALSE} \cup {ctr.st = "running" /\ \E c \in Callers : call[c].pc = "sync"} :
       /\ ctr' = IF done THEN [ctr EXCEPT !.synced = TRUE] ELSE ctr
       /\ pat' = IF done THEN TRUE ELSE pat
       /\ mishap' = IF ctr.st = "running" /\ ~ctr.synced /\ ~done THEN mishap \cup {"half"}
                    ELSE mishap
  /\ mem' = Never /\ line' = <<>>
  /\ call' = [c \in Callers |-> NoCall] /\ sweep' = NoSweep
  /\ bash' = [s \in Shells |-> NoBash] /\ shell' = 0
  /\ UNCHANGED access

Boot ==
  /\ phase = "down" /\ phase' = "up"
  /\ \/ Fine /\ UNCHANGED ctr
     \/ /\ ctr.st # "none" /\ Spend("drift")
        /\ \E fit \in {"old", "foreign"} : ctr' = [ctr EXCEPT !.fit = fit]
  /\ UNCHANGED <<access, pat, mem, line, call, sweep, bash, shell, mishap>>

Ensure(c) ==
  \/ Authorize(c) \/ Evict(c) \/ RevokeToken(c)
  \/ InspectFindsNone(c) \/ InspectFindsMisfit(c) \/ InspectFindsIt(c) \/ InspectFails(c)
  \/ Discard(c) \/ Remove(c) \/ Create(c) \/ Start(c) \/ Mint(c) \/ Sync(c) \/ Abandon(c)

SweepStep ==
  \/ SweepLists \/ SweepInspects \/ SweepAuthorizes \/ SweepStops
  \/ SweepEvicts \/ SweepRevokes \/ SweepExpires

Next ==
  \/ \E c \in Callers : \E kind \in Asks[c] : Request(c, kind)
  \/ \E c \in Callers : Ensure(c) \/ Spawn(c) \/ UseEnds(c)
  \/ \E s \in Shells : BashExits(s)
  \/ SweepStep
  \/ Later \/ Lose \/ AccessChanges \/ Crash \/ Boot

Spec == Init /\ [][Next]_vars

\* Queries and Docker answer, the sweep timer keeps firing, core is restarted.
LiveSpec ==
  /\ Spec
  /\ \A c \in Callers : WF_vars(Ensure(c))
  /\ WF_vars(SweepStep) /\ WF_vars(Boot)

(* ----------------------------- properties ---------------------------- *)

\* What is done in the container is done in a workspace that was synced after its last
\* start, with credentials that work, by a shell of that start.  The exceptions last until
\* the next complete wake: core died during a wake (half), Docker refused to stop a
\* container that was to be stopped (unstopped), or a sweep could not even inspect one that
\* had been replaced meanwhile and revoked the token of its successor (blind).
ReadyWhenUsed ==
  \A c \in Callers : call[c].here /\ call[c].pc \in {"exec", "shell"} =>
    /\ ctr.st = "running" /\ ctr.fit = "ok"
    /\ ctr.synced \/ mishap \cap {"half", "unstopped"} # {}
    /\ pat \/ mishap # {}
    /\ call[c].pc = "shell" => bash[call[c].sh].here

\* The idle clock never stops a container somebody is using, though a request may wait in
\* line and through a clone for longer than that clock allows.
SweepSparesWork ==
  sweep.pc = "stop" /\ sweep.same => \A c \in Callers : ~call[c].here

\* Once the repository is closed to the user, the container ends up stopped, whether or not
\* anybody asks for it again, and also when it was being started at that moment.
RevokedStops == <>[]~access => <>[](ctr.st # "running")

=============================================================================

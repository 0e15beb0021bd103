----------------------------- MODULE SandboxProofs -----------------------------
(* What Sandbox promises for any number of requests at a time, any number of    *)
(* shells and any number of crashes, faults, losses and changes of access.      *)
EXTENDS Sandbox, SequenceTheorems, TLAPS

(* -------------------------------- invariant --------------------------- *)

Using == {"spawn", "exec", "shell"}
Syncing == {"mint", "sync", "abandon"}
Changing == {"discard", "remove", "create", "start"} \cup Syncing
Waking == {"evict", "revoke", "inspect"} \cup Changing

NobodyHere == \A c \in Callers : ~call[c].here
MidWake == \E c \in Callers : call[c].pc \in Syncing

\* Whoever is past the wait is first in line, and nobody else is.
LineInv ==
  /\ \A c \in Callers : call[c].pc \in Waking => First(c)
  /\ sweep.pc \notin {"idle", "inspect"} => First(Sweeper)

DownInv ==
  phase = "down" =>
    /\ line = <<>> /\ shell = 0 /\ sweep.pc = "idle"
    /\ \A c \in Callers : call[c].pc = "idle" /\ ~call[c].here

\* A container that runs is synced, has its token and its shell, or is being woken, or
\* something went wrong that the property names.
RunningInv ==
  ctr.st = "running" =>
    /\ ctr.synced \/ mishap \cap {"half", "unstopped"} # {} \/ MidWake
    /\ pat \/ mishap # {} \/ MidWake
    /\ shell # 0 => bash[shell].here

\* Where a request is tells what it has found or done.
CallInv(c) ==
  /\ call[c].here =>
       /\ call[c].pc \in Using /\ mem = Fresh
       /\ ctr.st = "running" /\ ctr.fit = "ok"
       /\ call[c].pc = "shell" => call[c].sh # 0 /\ bash[call[c].sh].here
  /\ call[c].pc \in Changing => NobodyHere
  /\ call[c].pc \in {"discard", "remove"} => ctr.st = "none" \/ ctr.fit # "ok"
  /\ call[c].pc = "create" => ctr.st = "none"
  /\ call[c].pc = "start" => ctr.st # "running" /\ ctr.fit = "ok"
  /\ call[c].pc \in Syncing => ctr.fit = "ok" /\ ~ctr.synced
  /\ call[c].pc = "revoke" => ctr.st # "running" \/ "unstopped" \in mishap

\* ... and where the sweep is.
SweepInv ==
  /\ sweep.pc \notin {"idle", "inspect"} /\ ~sweep.same =>
       ctr.st = "none" \/ (sweep.pc \in {"evict", "revoke"} /\ "blind" \in mishap)
  /\ sweep.pc = "revoke" => ctr.st # "running" \/ mishap \cap {"unstopped", "blind"} # {}
  /\ sweep.pc = "stop" => NobodyHere
  /\ sweep.pc = "expire" => ctr.st # "running"

SandboxInv ==
  /\ TypeOK /\ LineInv /\ DownInv /\ RunningInv /\ SweepInv
  /\ \A c \in Callers : CallInv(c)

(* ------------------------------- the line ----------------------------- *)

\* The sweep is no request.
LEMMA Apart == Sweeper \notin Callers
  BY ConstantsAssumption

\* Waiting in line moves nobody from the front; leaving it moves the next one up.
LEMMA LineFacts ==
  ASSUME TypeOK
  PROVE  /\ \A a \in Callers \cup {Sweeper} :
              /\ Append(line, a) \in Seq(Callers \cup {Sweeper})
              /\ \A b : First(b) => Append(line, a) # <<>> /\ Head(Append(line, a)) = b
         /\ \A b : First(b) => Tail(line) \in Seq(Callers \cup {Sweeper})
<1>1. line \in Seq(Callers \cup {Sweeper})
  BY DEF TypeOK
<1> QED
  BY <1>1 DEF First

\* Whoever wakes the container is alone in that, and so is the sweep when it acts.
LEMMA Alone ==
  ASSUME SandboxInv
  PROVE  /\ \A c \in Callers : call[c].pc \in Waking =>
              /\ \A d \in Callers : call[d].pc \in Waking => d = c
              /\ sweep.pc \in {"idle", "inspect"}
         /\ sweep.pc \notin {"idle", "inspect"} =>
              \A c \in Callers : call[c].pc \notin Waking
         /\ \A c \in Callers : First(c) =>
              /\ \A d \in Callers : call[d].pc \in Waking => d = c
              /\ sweep.pc \in {"idle", "inspect"}
         /\ First(Sweeper) => \A c \in Callers : call[c].pc \notin Waking
  BY Apart DEF SandboxInv, LineInv, First

(* ------------------------------ the types ----------------------------- *)

Call == [pc : {"idle", "check", "evict", "revoke", "inspect", "discard", "remove", "create",
               "start", "mint", "sync", "abandon", "spawn", "exec", "shell"},
         kind : Kinds, here : BOOLEAN, sh : 0..MaxShells]
Ctr == [st : {"none", "stopped", "running"}, fit : {"ok", "old", "foreign"},
        synced : BOOLEAN, born : {Fresh, Idle, Expired}]
Bash == [st : {"none", "open", "ended"}, here : BOOLEAN]

\* A rejected command is over; nothing else changes.
LEMMA RejectedFacts ==
  ASSUME TypeOK, NEW s
  PROVE  /\ Rejected(s) \in [Callers -> Call]
         /\ \A c \in Callers : Rejected(s)[c] \in {call[c], NoCall}
         /\ \A c \in Callers : call[c].pc # "shell" => Rejected(s)[c] = call[c]
         /\ \A c \in Callers : call[c].pc = "shell" /\ call[c].sh = s => Rejected(s)[c] = NoCall
<1>1. NoCall \in Call /\ NoCall.pc = "idle"
  BY ConstantsAssumption DEF NoCall, Call, Kinds
<1> QED
  BY <1>1 DEF TypeOK, Rejected, Call

LEMMA CloseShellFacts ==
  ASSUME TypeOK, CloseShell
  PROVE  /\ shell' = 0 /\ shell' \in 0..MaxShells
         /\ bash' \in [Shells -> Bash]
         /\ \A s \in Shells : bash'[s].here = bash[s].here
<1>1. CASE shell = 0
  BY <1>1, ConstantsAssumption DEF TypeOK, CloseShell, Bash
<1>2. CASE shell # 0
  <2>1. shell \in Shells /\ bash \in [Shells -> Bash]
    BY <1>2, ConstantsAssumption DEF TypeOK, Shells, Bash
  <2>2. [bash[shell] EXCEPT !.st = "ended"] \in Bash
    BY <2>1 DEF Bash
  <2>3. bash' = [bash EXCEPT ![shell] = [bash[shell] EXCEPT !.st = "ended"]] /\ shell' = 0
    BY <1>2 DEF CloseShell
  <2>4. [bash[shell] EXCEPT !.st = "ended"].here = bash[shell].here
    BY <2>1 DEF Bash
  <2> QED
    BY <2>1, <2>2, <2>3, <2>4, ConstantsAssumption
<1> QED
  BY <1>1, <1>2

LEMMA HaltsFacts ==
  ASSUME TypeOK, NEW calls \in [Callers -> Call], NEW st \in {"stopped", "none"}, Halts(calls, st)
  PROVE  /\ ctr' \in Ctr /\ ctr'.st = st /\ ~ctr'.synced /\ ctr'.fit = ctr.fit
         /\ call' \in [Callers -> Call] /\ bash' \in [Shells -> Bash]
         /\ \A c \in Callers : call'[c].pc = calls[c].pc /\ ~call'[c].here
<1>1. ctr \in Ctr /\ ctr' = [ctr EXCEPT !.st = st, !.synced = FALSE]
  BY DEF TypeOK, Ctr, Halts
<1>2. ctr' \in Ctr /\ ctr'.st = st /\ ~ctr'.synced /\ ctr'.fit = ctr.fit
  BY <1>1 DEF Ctr
<1>3. \A c \in Callers : [calls[c] EXCEPT !.here = FALSE] \in Call
  BY DEF Call
<1>4. \A c \in Callers : /\ [calls[c] EXCEPT !.here = FALSE].pc = calls[c].pc
                          /\ ~[calls[c] EXCEPT !.here = FALSE].here
  BY DEF Call
<1>5. \A s \in Shells : [bash[s] EXCEPT !.here = FALSE] \in Bash
  BY DEF TypeOK, Bash
<1> QED
  BY <1>2, <1>3, <1>4, <1>5 DEF Halts

LEMMA SpendFacts ==
  ASSUME TypeOK, NEW e, Spend(e)
  PROVE  left' \in [Events -> Nat]
<1>1. CASE e \in Events
  BY <1>1 DEF TypeOK, Spend
<1>2. CASE e \notin Events
  BY <1>2 DEF TypeOK, Spend
<1> QED
  BY <1>1, <1>2

LEMMA FaultFacts == TypeOK /\ (Fault \/ Fine) => left' \in [Events -> Nat]
  BY SpendFacts DEF TypeOK, Fault, Fine

\* Docker stops it, or it runs on and that is known.
LEMMA StopByNameFacts ==
  ASSUME TypeOK, NEW calls \in [Callers -> Call], StopByName(calls)
  PROVE  /\ call' \in [Callers -> Call] /\ ctr' \in Ctr /\ bash' \in [Shells -> Bash]
         /\ mishap' \subseteq {"half", "unstopped", "blind"} /\ left' \in [Events -> Nat]
         /\ mishap \subseteq mishap' /\ ctr'.fit = ctr.fit /\ (ctr'.st = "none") = (ctr.st = "none")
         /\ \A c \in Callers : call'[c].pc = calls[c].pc
         /\ \/ /\ ctr'.st # "running" /\ ~ctr'.synced
               /\ \A c \in Callers : ~call'[c].here
            \/ /\ ctr' = ctr /\ bash' = bash /\ call' = calls
               /\ ctr.st = "running" => "unstopped" \in mishap'
<1>1. CASE ctr.st = "running" /\ Fine /\ Halts(calls, "stopped") /\ UNCHANGED mishap
  BY <1>1, HaltsFacts, FaultFacts DEF TypeOK
<1>2. CASE /\ IF ctr.st = "running" THEN Fault ELSE Fine
           /\ mishap' = IF ctr.st = "running" THEN mishap \cup {"unstopped"} ELSE mishap
           /\ call' = calls /\ UNCHANGED <<ctr, bash>>
  BY <1>2, FaultFacts DEF TypeOK, Ctr, Bash
<1> QED
  BY <1>1, <1>2 DEF StopByName

\* A request goes on to another place, and nothing else of it changes.
Moved(calls, c, pc) == [calls EXCEPT ![c].pc = pc]

LEMMA MovedFacts ==
  ASSUME NEW calls \in [Callers -> Call], NEW c \in Callers,
         NEW pc \in {"check", "evict", "revoke", "inspect", "discard", "remove", "create",
                     "start", "mint", "sync", "abandon"}
  PROVE  /\ Moved(calls, c, pc) \in [Callers -> Call]
         /\ Moved(calls, c, pc)[c].pc = pc /\ Moved(calls, c, pc)[c].here = calls[c].here
         /\ \A d \in Callers : d # c => Moved(calls, c, pc)[d] = calls[d]
<1>1. [calls[c] EXCEPT !.pc = pc] \in Call /\ [calls[c] EXCEPT !.pc = pc].pc = pc
      /\ [calls[c] EXCEPT !.pc = pc].here = calls[c].here
  BY DEF Call
<1>2. Moved(calls, c, pc) = [calls EXCEPT ![c] = [calls[c] EXCEPT !.pc = pc]]
  BY DEF Moved
<1> QED
  BY <1>1, <1>2

LEMMA NoCallFacts ==
  /\ NoCall \in Call /\ NoCall.pc = "idle" /\ ~NoCall.here
  /\ \A calls \in [Callers -> Call] : \A c \in Callers :
       /\ [calls EXCEPT ![c] = NoCall] \in [Callers -> Call]
       /\ [calls EXCEPT ![c] = NoCall][c] = NoCall
       /\ \A d \in Callers : d # c => [calls EXCEPT ![c] = NoCall][d] = calls[d]
  BY ConstantsAssumption DEF NoCall, Call, Kinds

(* ---------------------------- who is in front -------------------------- *)

\* One request goes on, the others do not start to wake anything.
LEMMA LineStep ==
  ASSUME SandboxInv, NEW c \in Callers, First(c), sweep'.pc = sweep.pc,
         \A d \in Callers : d # c /\ call'[d].pc \in Waking => call[d].pc \in Waking,
         line' = line \/ (line' = Tail(line) /\ call'[c].pc \notin Waking)
  PROVE  LineInv'
<1>1. \A d \in Callers : d # c => call'[d].pc \notin Waking
  BY Alone
<1>2. sweep'.pc \in {"idle", "inspect"}
  BY Alone
<1>3. call'[c].pc \in Waking => First(c)'
  BY DEF First
<1> QED
  BY <1>1, <1>2, <1>3 DEF LineInv

\* The sweep goes on, and no request starts to wake anything.
LEMMA LineSweep ==
  ASSUME SandboxInv, First(Sweeper),
         \A d \in Callers : call'[d].pc \in Waking => call[d].pc \in Waking,
         line' = line \/ (line' = Tail(line) /\ sweep'.pc = "idle")
  PROVE  LineInv'
<1>1. \A d \in Callers : call'[d].pc \notin Waking
  BY Alone
<1>2. sweep'.pc \notin {"idle", "inspect"} => First(Sweeper)'
  BY DEF First
<1> QED
  BY <1>1, <1>2 DEF LineInv

(* ------------------------- the steps of a request ----------------------- *)

\* What is the case for the one request that is waking the container.
LEMMA FrontFacts ==
  ASSUME SandboxInv, NEW c \in Callers, First(c), call[c].pc \notin Using
  PROVE  /\ ~call[c].here /\ call \in [Callers -> Call]
         /\ phase = "up"
         /\ \A d \in Callers : d # c => call[d].pc \notin Waking
         /\ MidWake <=> call[c].pc \in Syncing
<1>1. ~call[c].here /\ call \in [Callers -> Call]
  BY DEF SandboxInv, CallInv, TypeOK, Call
<1>2. phase = "up"
  BY DEF SandboxInv, DownInv, First, TypeOK
<1>3. \A d \in Callers : d # c => call[d].pc \notin Waking
  BY Alone
<1>4. MidWake <=> call[c].pc \in Syncing
  BY <1>3 DEF MidWake, Waking, Changing
<1> QED
  BY <1>1, <1>2, <1>3, <1>4

\* The request in front goes on or gives up, and the container stays as it is.  Commands
\* whose shell is closed are rejected.
LEMMA RequestStep ==
  ASSUME SandboxInv, TypeOK', NEW c \in Callers, First(c), call[c].pc \notin Using,
         UNCHANGED <<phase, ctr, mem, sweep>>, mishap \subseteq mishap',
         ~call'[c].here, call'[c].pc \notin Using,
         \A d \in Callers : d # c => call'[d] \in {call[d], NoCall},
         \A s \in Shells : bash'[s].here = bash[s].here,
         shell' \in {0, shell},
         line' = line \/ (line' = Tail(line) /\ call'[c].pc = "idle"),
         \/ ctr.st = "running" /\ call[c].pc \in Syncing => call'[c].pc \in Syncing
         \/ "unstopped" \in mishap',
         \/ pat' = pat \/ call'[c].pc \in Syncing
         \/ ctr.st = "running" => mishap' # {},
         CallInv(c)'
  PROVE  SandboxInv'
<1> USE DEF SandboxInv
<1>1. /\ ~call[c].here /\ call \in [Callers -> Call]
      /\ phase = "up"
      /\ \A d \in Callers : d # c => call[d].pc \notin Waking
      /\ MidWake <=> call[c].pc \in Syncing
  BY FrontFacts
<1>2. \A d \in Callers : call'[d].here => call[d].here /\ call'[d] = call[d]
  BY NoCallFacts
<1>3. LineInv'
  BY <1>1, NoCallFacts, LineStep DEF Waking, Changing, Syncing
<1>4. DownInv'
  BY <1>1 DEF DownInv
<1>5. RunningInv'
  <2>1. shell' # 0 => shell \in Shells /\ shell' = shell
    BY ConstantsAssumption DEF TypeOK, Shells
  <2>2. call'[c].pc \in Syncing => MidWake'
    BY DEF MidWake
  <2> QED
    BY <1>1, <2>1, <2>2 DEF RunningInv
<1>6. SweepInv'
  BY <1>2 DEF SweepInv, NobodyHere
<1>7. ASSUME NEW d \in Callers, d # c PROVE CallInv(d)'
  <2>1. CASE call'[d] = NoCall
    BY <2>1, NoCallFacts DEF CallInv, Changing, Syncing
  <2>2. CASE call'[d] = call[d]
    <3>1. call[d].pc = "shell" => call[d].sh = 0 \/ call[d].sh \in Shells
      BY ConstantsAssumption DEF TypeOK, Shells
    <3>2. call[d].pc \notin Waking
      BY <1>1, <1>7
    <3> QED
      BY <2>2, <3>1, <3>2, <1>2 DEF CallInv, Waking
  <2> QED
    BY <1>7, <2>1, <2>2
<1> QED
  BY <1>3, <1>4, <1>5, <1>6, <1>7

\* The request in front has the container stopped or removed, or finds that it is.
LEMMA RequestHalts ==
  ASSUME SandboxInv, TypeOK', NEW c \in Callers, First(c), call[c].pc \notin Using,
         UNCHANGED <<phase, mem, shell>>, sweep'.pc = sweep.pc, mishap \subseteq mishap',
         ctr'.st # "running",
         \A d \in Callers : ~call'[d].here,
         \A d \in Callers : d # c => call'[d].pc = call[d].pc,
         line' = line \/ (line' = Tail(line) /\ call'[c].pc = "idle"),
         CallInv(c)'
  PROVE  SandboxInv'
<1> USE DEF SandboxInv
<1>1. /\ ~call[c].here /\ call \in [Callers -> Call]
      /\ phase = "up"
      /\ \A d \in Callers : d # c => call[d].pc \notin Waking
      /\ sweep.pc \in {"idle", "inspect"}
  BY FrontFacts, Alone
<1>2. LineInv'
  BY <1>1, LineStep DEF Waking, Changing, Syncing
<1>3. DownInv' /\ RunningInv' /\ SweepInv'
  BY <1>1 DEF DownInv, RunningInv, SweepInv
<1>4. ASSUME NEW d \in Callers, d # c PROVE CallInv(d)'
  BY <1>1, <1>4 DEF CallInv, Waking, Changing, Syncing
<1> QED
  BY <1>2, <1>3, <1>4

\* A request that has found nothing to do, or whose call to Docker fails, leaves the line.
LEMMA LeavesInv ==
  ASSUME SandboxInv, NEW c \in Callers, First(c), call[c].pc \notin Using \cup Syncing,
         Leaves(c), UNCHANGED <<phase, access, ctr, pat, mem, sweep, bash, shell, mishap>>,
         Fault \/ Fine
  PROVE  SandboxInv'
<1>1. TypeOK /\ ~call[c].here /\ call \in [Callers -> Call]
  BY FrontFacts DEF SandboxInv
<1>2. /\ call' \in [Callers -> Call] /\ call'[c] = NoCall
      /\ \A d \in Callers : d # c => call'[d] = call[d]
  BY <1>1, NoCallFacts DEF Leaves
<1>3. TypeOK' /\ CallInv(c)'
  BY <1>1, <1>2, LineFacts, FaultFacts, NoCallFacts
  DEF Leaves, TypeOK, Call, CallInv, Changing, Syncing
<1> QED
  BY <1>1, <1>2, <1>3, NoCallFacts, RequestStep DEF Leaves, Using

LEMMA AuthorizeInv ==
  ASSUME SandboxInv, NEW c \in Callers, Authorize(c)
  PROVE  SandboxInv'
<1>1. /\ TypeOK /\ First(c) /\ call[c].pc = "check" /\ call[c].pc \notin Using \cup Syncing
      /\ ~call[c].here /\ call \in [Callers -> Call]
      /\ UNCHANGED <<phase, access, ctr, pat, mem, line, sweep, mishap>>
  BY FrontFacts DEF Authorize, At, SandboxInv, Using, Syncing
<1>2. CASE access /\ Fine /\ Goto(c, "inspect") /\ UNCHANGED <<bash, shell>>
  <2>1. /\ call' \in [Callers -> Call]
        /\ call'[c].pc = "inspect" /\ ~call'[c].here
        /\ \A d \in Callers : d # c => call'[d] = call[d]
    <3>1. call' = Moved(call, c, "inspect")
      BY <1>2 DEF Goto, Moved
    <3> QED
      BY <1>1, <3>1, MovedFacts
  <2>2. TypeOK' /\ CallInv(c)'
    BY <1>1, <1>2, <2>1 DEF TypeOK, Call, Fine, CallInv, Changing, Syncing
  <2> QED
    BY <1>1, <1>2, <2>1, <2>2, RequestStep DEF Using
<1>3. CASE /\ IF access THEN Fault ELSE Fine
           /\ CloseShell /\ call' = [Rejected(shell) EXCEPT ![c].pc = "evict"]
  <2>1. /\ call' \in [Callers -> Call]
        /\ call'[c].pc = "evict" /\ ~call'[c].here
        /\ \A d \in Callers : d # c => call'[d] \in {call[d], NoCall}
    <3>1. call' = Moved(Rejected(shell), c, "evict")
      BY <1>3 DEF Moved
    <3> QED
      BY <1>1, <3>1, MovedFacts, RejectedFacts
  <2>2. TypeOK' /\ CallInv(c)'
    BY <1>1, <1>3, <2>1, FaultFacts, CloseShellFacts
    DEF TypeOK, Call, Bash, CallInv, Changing, Syncing
  <2> QED
    BY <1>1, <1>3, <2>1, <2>2, CloseShellFacts, RequestStep DEF Using
<1> QED
  BY <1>2, <1>3 DEF Authorize

LEMMA EvictInv ==
  ASSUME SandboxInv, NEW c \in Callers, Evict(c)
  PROVE  SandboxInv'
<1> DEFINE after == Moved(call, c, "revoke")
<1>1. /\ TypeOK /\ First(c) /\ call[c].pc = "evict" /\ call[c].pc \notin Using \cup Syncing
      /\ ~call[c].here /\ call \in [Callers -> Call] /\ StopByName(after)
      /\ UNCHANGED <<phase, access, pat, mem, line, sweep, shell>>
  BY FrontFacts DEF Evict, At, SandboxInv, Using, Syncing, Moved
<1>2. /\ after \in [Callers -> Call]
      /\ after[c].pc = "revoke" /\ ~after[c].here
      /\ \A d \in Callers : d # c => after[d] = call[d]
  BY <1>1, MovedFacts
<1> HIDE DEF after
<1>3. TypeOK' /\ call'[c].pc = "revoke"
  BY <1>1, <1>2, StopByNameFacts DEF TypeOK, Call, Ctr, Bash
<1>4. CASE ctr'.st # "running" /\ \A d \in Callers : ~call'[d].here
  <2>1. CallInv(c)'
    BY <1>3, <1>4 DEF CallInv, Changing, Syncing
  <2> QED
    BY <1>1, <1>2, <1>3, <1>4, <2>1, StopByNameFacts, RequestHalts
<1>5. CASE ctr' = ctr /\ bash' = bash /\ call' = after /\ (ctr.st = "running" => "unstopped" \in mishap')
  <2>1. CallInv(c)'
    BY <1>2, <1>5 DEF CallInv, Changing, Syncing
  <2> QED
    BY <1>1, <1>2, <1>3, <1>5, <2>1, StopByNameFacts, RequestStep DEF Using
<1> QED
  BY <1>1, <1>2, <1>4, <1>5, StopByNameFacts

LEMMA RevokeTokenInv ==
  ASSUME SandboxInv, NEW c \in Callers, RevokeToken(c)
  PROVE  SandboxInv'
<1>1. /\ TypeOK /\ First(c) /\ call[c].pc = "revoke" /\ call[c].pc \notin Using \cup Syncing
      /\ ~call[c].here /\ call \in [Callers -> Call] /\ Leaves(c)
      /\ UNCHANGED <<phase, access, ctr, mem, sweep, bash, shell, mishap>>
  BY FrontFacts DEF RevokeToken, At, SandboxInv, Using, Syncing
<1>2. /\ call' \in [Callers -> Call] /\ call'[c] = NoCall
      /\ \A d \in Callers : d # c => call'[d] = call[d]
  BY <1>1, NoCallFacts DEF Leaves
<1>3. TypeOK'
  BY <1>1, <1>2, LineFacts, FaultFacts DEF RevokeToken, Leaves, TypeOK, Call
<1>4. CallInv(c)'
  BY <1>2, NoCallFacts DEF CallInv, Changing, Syncing
<1>5. ctr.st = "running" => mishap # {}
  BY <1>1 DEF SandboxInv, CallInv
<1> QED
  BY <1>1, <1>2, <1>3, <1>4, <1>5, NoCallFacts, RequestStep DEF Leaves, Using

LEMMA InspectFindsNoneInv ==
  ASSUME SandboxInv, NEW c \in Callers, InspectFindsNone(c)
  PROVE  SandboxInv'
<1>1. /\ TypeOK /\ First(c) /\ call[c].pc = "inspect" /\ call[c].pc \notin Using \cup Syncing
      /\ ~call[c].here /\ call \in [Callers -> Call] /\ ctr.st = "none"
      /\ UNCHANGED <<phase, access, ctr, pat, mem, sweep, bash, shell, mishap, left>>
  BY FrontFacts DEF InspectFindsNone, At, SandboxInv, Using, Syncing
<1>2. CASE Goto(c, "create") /\ UNCHANGED line
  <2>1. call' = Moved(call, c, "create")
    BY <1>2 DEF Goto, Moved
  <2>2. /\ call' \in [Callers -> Call]
        /\ call'[c].pc = "create" /\ ~call'[c].here
        /\ \A d \in Callers : d # c => call'[d] = call[d]
    BY <1>1, <2>1, MovedFacts
  <2>3. TypeOK' /\ NobodyHere'
    BY <1>1, <1>2, <2>2 DEF TypeOK, Call, SandboxInv, CallInv, NobodyHere
  <2>4. CallInv(c)'
    BY <1>1, <2>2, <2>3 DEF CallInv, Changing, Syncing
  <2> QED
    BY <1>1, <1>2, <2>2, <2>3, <2>4, RequestStep DEF Using
<1>3. CASE Leaves(c)
  BY <1>1, <1>3, LeavesInv DEF Fine
<1> QED
  BY <1>2, <1>3 DEF InspectFindsNone

LEMMA InspectFindsMisfitInv ==
  ASSUME SandboxInv, NEW c \in Callers, InspectFindsMisfit(c)
  PROVE  SandboxInv'
<1>1. /\ TypeOK /\ First(c) /\ call[c].pc = "inspect" /\ call[c].pc \notin Using \cup Syncing
      /\ ~call[c].here /\ call \in [Callers -> Call] /\ ctr.fit # "ok" /\ CloseShell
      /\ UNCHANGED <<phase, access, ctr, pat, mem, line, sweep, mishap, left>>
  BY FrontFacts DEF InspectFindsMisfit, At, SandboxInv, Using, Syncing
<1>2. call' = Moved(Rejected(shell), c, "discard")
  BY DEF InspectFindsMisfit, Moved
<1>3. /\ call' \in [Callers -> Call]
      /\ call'[c].pc = "discard" /\ ~call'[c].here
      /\ \A d \in Callers : d # c => call'[d] \in {call[d], NoCall}
  BY <1>1, <1>2, MovedFacts, RejectedFacts
<1>4. TypeOK'
  BY <1>1, <1>3, CloseShellFacts DEF TypeOK, Call, Bash
<1>5. NobodyHere'
  BY <1>1, <1>3, NoCallFacts DEF SandboxInv, CallInv, NobodyHere
<1>6. CallInv(c)'
  BY <1>1, <1>3, <1>5 DEF CallInv, Changing, Syncing
<1> QED
  BY <1>1, <1>3, <1>4, <1>6, CloseShellFacts, RequestStep DEF Using

LEMMA InspectFailsInv ==
  ASSUME SandboxInv, NEW c \in Callers, InspectFails(c)
  PROVE  SandboxInv'
  BY LeavesInv DEF InspectFails, At, Using, Syncing

\* A request that finds the container up, or has brought it up, uses it.
LEMMA ReadyInv ==
  ASSUME SandboxInv, NEW c \in Callers, First(c), Ready(c), UNCHANGED <<phase, access, sweep, bash, shell, left>>,
         ctr.st = "running", ctr' \in Ctr, ctr'.st = "running", ctr'.fit = "ok",
         \/ call[c].pc = "inspect" /\ UNCHANGED <<ctr, pat, mishap>>
         \/ call[c].pc = "sync" /\ ctr'.synced /\ pat' = TRUE /\ mishap' = {}
  PROVE  SandboxInv'
<1> USE DEF SandboxInv
<1>0. call[c].pc \notin Using
  BY DEF Using
<1>1. /\ TypeOK /\ ~call[c].here /\ call \in [Callers -> Call]
      /\ phase = "up"
      /\ \A d \in Callers : d # c => call[d].pc \notin Waking
      /\ MidWake <=> call[c].pc \in Syncing
      /\ sweep.pc \in {"idle", "inspect"}
  BY <1>0, FrontFacts, Alone
<1> DEFINE command == [call[c] EXCEPT !.pc = "shell", !.here = TRUE, !.sh = shell]
<1>2. PICK use : /\ call' = [call EXCEPT ![c] = use]
                 /\ \/ use \in {NoCall, [call[c] EXCEPT !.pc = "exec", !.here = TRUE],
                                [call[c] EXCEPT !.pc = "spawn", !.here = TRUE]}
                    \/ use = command /\ shell # 0
  <2> DEFINE free == \A k \in Callers : ~(call[k].pc = "shell" /\ call[k].sh = shell)
  <2>1. call[c].kind \in Kinds /\ call' = [call EXCEPT ![c] = Use(c)]
    BY <1>1 DEF Ready, TypeOK
  <2>2. \/ Use(c) \in {NoCall, [call[c] EXCEPT !.pc = "exec", !.here = TRUE],
                       [call[c] EXCEPT !.pc = "spawn", !.here = TRUE]}
        \/ Use(c) = command /\ shell # 0
    <3>1. CASE call[c].kind = "touch"
      BY <3>1 DEF Use
    <3>2. CASE call[c].kind \in {"read", "file"}
      BY <3>2 DEF Use
    <3>3. CASE call[c].kind = "command" /\ shell = 0
      BY <3>3 DEF Use
    <3>4. CASE call[c].kind = "command" /\ shell # 0 /\ free
      BY <3>4 DEF Use
    <3>5. CASE call[c].kind = "command" /\ shell # 0 /\ ~free
      BY <3>5 DEF Use
    <3> QED
      BY <2>1, <3>1, <3>2, <3>3, <3>4, <3>5 DEF Kinds
  <2> QED
    BY <2>1, <2>2
<1>3. /\ use \in Call /\ use.pc \in {"idle", "exec", "spawn", "shell"}
      /\ use.here => use.pc \in Using
      /\ use.pc = "shell" => use.sh = shell /\ shell # 0
  <2>1. call[c] \in Call /\ shell \in 0..MaxShells
    BY <1>1 DEF TypeOK
  <2> QED
    BY <1>2, <2>1, NoCallFacts DEF Call, Using
<1>4. /\ call' \in [Callers -> Call] /\ call'[c] = use
      /\ \A d \in Callers : d # c => call'[d] = call[d]
  BY <1>1, <1>2, <1>3
<1>5. line' = Tail(line) /\ mem' = Fresh
  BY DEF Ready
<1>6. TypeOK'
  BY <1>1, <1>4, <1>5, LineFacts DEF TypeOK, Call, Ctr
<1>7. LineInv'
  BY <1>1, <1>3, <1>4, <1>5, LineStep DEF Waking, Changing, Syncing
<1>8. DownInv' /\ SweepInv'
  BY <1>1 DEF DownInv, SweepInv
<1>9. RunningInv'
  BY <1>1, <1>4 DEF RunningInv, Syncing
<1>10. ASSUME NEW d \in Callers PROVE CallInv(d)'
  <2>1. CASE d = c
    <3>1. shell # 0 => bash[shell].here
      BY DEF RunningInv
    <3> QED
      BY <1>3, <1>4, <1>5, <2>1, <3>1 DEF CallInv, Changing, Syncing
  <2>2. CASE d # c
    <3>1. call'[d] = call[d] /\ call[d].pc \notin Waking
      BY <1>1, <1>4, <2>2
    <3> QED
      BY <1>1, <1>5, <3>1 DEF CallInv, Waking, Changing, Syncing
  <2> QED
    BY <2>1, <2>2
<1> QED
  BY <1>6, <1>7, <1>8, <1>9, <1>10

LEMMA InspectFindsItInv ==
  ASSUME SandboxInv, NEW c \in Callers, InspectFindsIt(c)
  PROVE  SandboxInv'
<1>1. /\ TypeOK /\ First(c) /\ call[c].pc = "inspect" /\ call[c].pc \notin Using \cup Syncing
      /\ ~call[c].here /\ call \in [Callers -> Call] /\ ctr \in Ctr /\ ctr.fit = "ok"
      /\ UNCHANGED <<phase, access, ctr, pat, sweep, bash, shell, mishap, left>>
  BY FrontFacts DEF InspectFindsIt, At, SandboxInv, Using, Syncing, TypeOK, Ctr
<1>2. CASE ctr.st = "running" /\ Ready(c)
  BY <1>1, <1>2, ReadyInv
<1>3. CASE ctr.st # "running" /\ Goto(c, "start") /\ UNCHANGED <<line, mem>>
  <2>1. call' = Moved(call, c, "start")
    BY <1>3 DEF Goto, Moved
  <2>2. /\ call' \in [Callers -> Call]
        /\ call'[c].pc = "start" /\ ~call'[c].here
        /\ \A d \in Callers : d # c => call'[d] = call[d]
    BY <1>1, <2>1, MovedFacts
  <2>0. NobodyHere
    BY <1>3 DEF SandboxInv, CallInv, NobodyHere
  <2>5. TypeOK'
    BY <1>1, <1>3, <2>2 DEF TypeOK, Call
  <2>3. NobodyHere'
    BY <1>1, <2>0, <2>2 DEF NobodyHere
  <2>4. CallInv(c)'
    BY <1>1, <1>3, <2>2, <2>3 DEF CallInv, Changing, Syncing
  <2> QED
    BY <1>1, <1>3, <2>2, <2>4, <2>5, RequestStep DEF Using
<1> QED
  BY <1>2, <1>3 DEF InspectFindsIt

LEMMA DiscardInv ==
  ASSUME SandboxInv, NEW c \in Callers, Discard(c)
  PROVE  SandboxInv'
<1> DEFINE after ==
      [call EXCEPT ![c] = IF ctr.fit = "foreign" THEN NoCall ELSE [@ EXCEPT !.pc = "remove"]]
<1>1. /\ TypeOK /\ First(c) /\ call[c].pc = "discard" /\ call[c].pc \notin Using \cup Syncing
      /\ ~call[c].here /\ call \in [Callers -> Call] /\ ctr \in Ctr
      /\ NobodyHere /\ (ctr.st = "none" \/ ctr.fit # "ok")
      /\ UNCHANGED <<phase, access, pat, mem, sweep, shell, mishap>>
  BY FrontFacts DEF Discard, At, SandboxInv, Using, Syncing, TypeOK, Ctr, CallInv, Changing
<1>2. /\ after \in [Callers -> Call]
      /\ after[c].pc = IF ctr.fit = "foreign" THEN "idle" ELSE "remove"
      /\ ~after[c].here
      /\ \A d \in Callers : d # c => after[d] = call[d]
  <2>1. CASE ctr.fit = "foreign"
    BY <1>1, <2>1, NoCallFacts
  <2>2. CASE ctr.fit # "foreign"
    <3>1. after = Moved(call, c, "remove")
      BY <2>2 DEF Moved
    <3> HIDE DEF after
    <3> QED
      BY <1>1, <2>2, <3>1, MovedFacts
  <2> QED
    BY <2>1, <2>2
<1>3. CASE /\ ctr.st # "none" /\ Fine
           /\ IF ctr.st = "running" THEN Halts(after, "stopped")
              ELSE call' = after /\ UNCHANGED <<ctr, bash>>
           /\ line' = IF ctr.fit = "foreign" THEN Tail(line) ELSE line
  <2> HIDE DEF after
  <2>1. /\ call' \in [Callers -> Call] /\ ctr' \in Ctr /\ bash' \in [Shells -> Bash]
        /\ \A d \in Callers : call'[d].pc = after[d].pc /\ ~call'[d].here
        /\ ctr'.st # "running" /\ ctr'.fit = ctr.fit
    <3>1. CASE ctr.st = "running"
      BY <1>1, <1>2, <1>3, <3>1, HaltsFacts
    <3>2. CASE ctr.st # "running"
      <4>1. call' = after /\ UNCHANGED <<ctr, bash>> /\ bash \in [Shells -> Bash]
        BY <1>1, <1>3, <3>2 DEF TypeOK, Bash
      <4>2. \A d \in Callers : ~after[d].here
        BY <1>1, <1>2 DEF NobodyHere
      <4> QED
        BY <1>1, <1>2, <3>2, <4>1, <4>2
    <3> QED
      BY <3>1, <3>2
  <2>2. TypeOK'
    BY <1>1, <1>3, <2>1, LineFacts DEF TypeOK, Call, Ctr, Bash, Fine
  <2>3. CallInv(c)'
    BY <1>1, <1>2, <1>3, <2>1 DEF CallInv, NobodyHere, Changing, Syncing
  <2> QED
    BY <1>1, <1>2, <1>3, <2>1, <2>2, <2>3, RequestHalts
<1>4. CASE /\ IF ctr.st = "running" THEN Fault ELSE Fine
           /\ Leaves(c) /\ UNCHANGED <<ctr, bash>>
  BY <1>1, <1>4, LeavesInv
<1> QED
  BY <1>3, <1>4 DEF Discard

LEMMA RemoveInv ==
  ASSUME SandboxInv, NEW c \in Callers, Remove(c)
  PROVE  SandboxInv'
<1>1. /\ TypeOK /\ First(c) /\ call[c].pc = "remove" /\ call[c].pc \notin Using \cup Syncing
      /\ ~call[c].here /\ call \in [Callers -> Call] /\ NobodyHere
      /\ UNCHANGED <<phase, access, pat, mem, bash, shell, mishap>>
  BY FrontFacts DEF Remove, At, SandboxInv, Using, Syncing, CallInv, Changing
<1>2. CASE /\ Fine /\ ctr' = NoContainer /\ sweep' = [sweep EXCEPT !.same = FALSE]
           /\ Goto(c, "create") /\ UNCHANGED line
  <2>1. call' = Moved(call, c, "create")
    BY <1>2 DEF Goto, Moved
  <2>2. /\ call' \in [Callers -> Call]
        /\ call'[c].pc = "create" /\ ~call'[c].here
        /\ \A d \in Callers : d # c => call'[d] = call[d]
    BY <1>1, <2>1, MovedFacts
  <2>3. ctr' \in Ctr /\ ctr'.st = "none" /\ sweep'.pc = sweep.pc
    BY <1>1, <1>2 DEF NoContainer, Ctr, TypeOK
  <2>4. TypeOK' /\ NobodyHere'
    BY <1>1, <1>2, <2>2, <2>3 DEF TypeOK, Call, Ctr, NobodyHere, Fine
  <2>5. CallInv(c)'
    BY <2>2, <2>3, <2>4 DEF CallInv, Changing, Syncing
  <2> QED
    BY <1>1, <1>2, <2>2, <2>3, <2>4, <2>5, RequestHalts DEF NobodyHere
<1>3. CASE /\ IF ctr.st # "none" THEN Fault ELSE Fine
           /\ Leaves(c) /\ UNCHANGED <<ctr, sweep>>
  BY <1>1, <1>3, LeavesInv
<1> QED
  BY <1>2, <1>3 DEF Remove

LEMMA CreateInv ==
  ASSUME SandboxInv, NEW c \in Callers, Create(c)
  PROVE  SandboxInv'
<1>1. /\ TypeOK /\ First(c) /\ call[c].pc = "create" /\ call[c].pc \notin Using \cup Syncing
      /\ ~call[c].here /\ call \in [Callers -> Call] /\ NobodyHere /\ ctr.st = "none" /\ ctr \in Ctr
      /\ UNCHANGED <<phase, access, pat, mem, sweep, bash, shell, mishap>>
  BY FrontFacts DEF Create, At, SandboxInv, Using, Syncing, CallInv, Changing, TypeOK, Ctr
<1>2. LET new == [NoContainer EXCEPT !.st = "stopped"]
      IN  new \in Ctr /\ new.st = "stopped" /\ new.fit = "ok"
  BY DEF NoContainer, Ctr
<1>3. CASE Fine /\ ctr' = [NoContainer EXCEPT !.st = "stopped"] /\ Goto(c, "start") /\ UNCHANGED line
  <2>1. call' = Moved(call, c, "start")
    BY <1>3 DEF Goto, Moved
  <2>2. /\ call' \in [Callers -> Call]
        /\ call'[c].pc = "start" /\ ~call'[c].here
        /\ \A d \in Callers : d # c => call'[d] = call[d]
    BY <1>1, <2>1, MovedFacts
  <2>3. TypeOK' /\ NobodyHere'
    BY <1>1, <1>2, <1>3, <2>2 DEF TypeOK, Call, Ctr, NobodyHere, Fine
  <2>4. CallInv(c)'
    BY <1>2, <1>3, <2>2, <2>3 DEF CallInv, Changing, Syncing
  <2> QED
    BY <1>1, <1>2, <1>3, <2>2, <2>3, <2>4, RequestHalts DEF NobodyHere
<1>4. CASE Fault /\ ctr' \in {ctr, [NoContainer EXCEPT !.st = "stopped"]} /\ Leaves(c)
  <2>1. /\ call' \in [Callers -> Call] /\ call'[c] = NoCall
        /\ \A d \in Callers : d # c => call'[d] = call[d]
    BY <1>1, <1>4, NoCallFacts DEF Leaves
  <2>2. NobodyHere' /\ ctr' \in Ctr /\ ctr'.st # "running"
    BY <1>1, <1>2, <1>4, <2>1, NoCallFacts DEF NobodyHere
  <2>4. TypeOK'
    BY <1>1, <1>4, <2>1, <2>2, LineFacts, FaultFacts DEF TypeOK, Call, Ctr, Leaves
  <2>3. CallInv(c)'
    BY <2>1, NoCallFacts DEF CallInv, Changing, Syncing
  <2> QED
    BY <1>1, <1>4, <2>1, <2>2, <2>3, <2>4, NoCallFacts, RequestHalts DEF NobodyHere, Leaves
<1> QED
  BY <1>3, <1>4 DEF Create

LEMMA StartInv ==
  ASSUME SandboxInv, NEW c \in Callers, Start(c)
  PROVE  SandboxInv'
<1>1. /\ TypeOK /\ First(c) /\ call[c].pc = "start" /\ call[c].pc \notin Using \cup Syncing
      /\ ~call[c].here /\ call \in [Callers -> Call] /\ NobodyHere
      /\ ctr \in Ctr /\ ctr.fit = "ok" /\ phase = "up"
      /\ \A d \in Callers : d # c => call[d].pc \notin Waking
      /\ sweep.pc \in {"idle", "inspect"}
      /\ UNCHANGED <<phase, access, pat, mem, sweep, mishap>>
  BY FrontFacts, Alone DEF Start, At, SandboxInv, Using, Syncing, CallInv, Changing, TypeOK, Ctr
<1>2. CASE /\ Fine /\ ctr' = [ctr EXCEPT !.st = "running", !.synced = FALSE]
           /\ CloseShell /\ call' = [Rejected(shell) EXCEPT ![c].pc = "mint"]
           /\ UNCHANGED line
  <2>1. call' = Moved(Rejected(shell), c, "mint")
    BY <1>2 DEF Moved
  <2>2. /\ call' \in [Callers -> Call]
        /\ call'[c].pc = "mint" /\ ~call'[c].here
        /\ \A d \in Callers : d # c => call'[d] \in {call[d], NoCall}
    BY <1>1, <2>1, MovedFacts, RejectedFacts
  <2>3. ctr' \in Ctr /\ ctr'.st = "running" /\ ~ctr'.synced /\ ctr'.fit = "ok"
    BY <1>1, <1>2 DEF Ctr
  <2>4. NobodyHere'
    BY <1>1, <2>2, NoCallFacts DEF NobodyHere
  <2>5. TypeOK'
    BY <1>1, <1>2, <2>2, <2>3, CloseShellFacts DEF TypeOK, Call, Ctr, Bash, Fine
  <2>6. LineInv'
    BY <1>1, <1>2, <2>2, NoCallFacts, LineStep DEF Waking, Changing, Syncing
  <2>7. DownInv' /\ SweepInv'
    BY <1>1 DEF DownInv, SweepInv
  <2>8. RunningInv'
    BY <1>2, <2>2, CloseShellFacts, <1>1 DEF RunningInv, MidWake, Syncing
  <2>9. ASSUME NEW d \in Callers PROVE CallInv(d)'
    <3>1. CASE d = c
      BY <2>2, <2>3, <2>4, <3>1 DEF CallInv
    <3>2. CASE d # c
      BY <1>1, <2>2, <2>4, <3>2, NoCallFacts DEF CallInv, NobodyHere, Waking, Changing, Syncing
    <3> QED
      BY <3>1, <3>2
  <2> QED
    BY <2>5, <2>6, <2>7, <2>8, <2>9 DEF SandboxInv
<1>3. CASE /\ IF ctr.st = "stopped" THEN Fault ELSE Fine
           /\ Leaves(c) /\ UNCHANGED <<ctr, bash, shell>>
  BY <1>1, <1>3, LeavesInv
<1> QED
  BY <1>2, <1>3 DEF Start

LEMMA MintInv ==
  ASSUME SandboxInv, NEW c \in Callers, Mint(c)
  PROVE  SandboxInv'
<1>1. /\ TypeOK /\ First(c) /\ call[c].pc = "mint" /\ call[c].pc \notin Using
      /\ ~call[c].here /\ call \in [Callers -> Call] /\ NobodyHere
      /\ ctr.fit = "ok" /\ ~ctr.synced
      /\ UNCHANGED <<phase, access, ctr, mem, line, sweep, bash, shell, mishap>>
  BY FrontFacts DEF Mint, At, SandboxInv, Using, CallInv, Changing, Syncing
<1>2. /\ call' = Moved(call, c, "sync") \/ call' = Moved(call, c, "abandon")
      /\ pat' \in BOOLEAN /\ (Fault \/ Fine)
  BY <1>1 DEF Mint, Goto, Moved, TypeOK
<1>3. /\ call' \in [Callers -> Call]
      /\ call'[c].pc \in {"sync", "abandon"} /\ ~call'[c].here
      /\ \A d \in Callers : d # c => call'[d] = call[d]
  BY <1>1, <1>2, MovedFacts
<1>4. TypeOK' /\ NobodyHere'
  BY <1>1, <1>2, <1>3, FaultFacts DEF TypeOK, Call, NobodyHere
<1>5. CallInv(c)'
  BY <1>1, <1>3, <1>4 DEF CallInv
<1> QED
  BY <1>1, <1>3, <1>4, <1>5, RequestStep DEF Using, Syncing

LEMMA SyncInv ==
  ASSUME SandboxInv, NEW c \in Callers, Sync(c)
  PROVE  SandboxInv'
<1>1. /\ TypeOK /\ First(c) /\ call[c].pc = "sync" /\ call[c].pc \notin Using
      /\ ~call[c].here /\ call \in [Callers -> Call] /\ NobodyHere
      /\ ctr \in Ctr /\ ctr.fit = "ok" /\ ~ctr.synced
      /\ UNCHANGED <<phase, access, sweep, bash, shell>>
  BY FrontFacts DEF Sync, At, SandboxInv, Using, CallInv, Changing, Syncing, TypeOK, Ctr
<1>2. CASE /\ ctr.st = "running" /\ Fine
           /\ ctr' = [ctr EXCEPT !.synced = TRUE] /\ pat' = TRUE /\ mishap' = {}
           /\ Ready(c)
  <2>1. ctr' \in Ctr /\ ctr'.st = "running" /\ ctr'.fit = "ok" /\ ctr'.synced
    BY <1>1, <1>2 DEF Ctr
  <2> QED
    BY <1>1, <1>2, <2>1, ReadyInv DEF Fine
<1>3. CASE /\ IF ctr.st = "running" THEN Fault ELSE Fine
           /\ Goto(c, "abandon") /\ UNCHANGED <<ctr, pat, mishap, line, mem>>
  <2>1. call' = Moved(call, c, "abandon")
    BY <1>3 DEF Goto, Moved
  <2>2. /\ call' \in [Callers -> Call]
        /\ call'[c].pc = "abandon" /\ ~call'[c].here
        /\ \A d \in Callers : d # c => call'[d] = call[d]
    BY <1>1, <2>1, MovedFacts
  <2>5. left' \in [Events -> Nat]
    BY <1>1, <1>3, FaultFacts
  <2>6. TypeOK'
    BY <1>1, <1>3, <2>2, <2>5 DEF TypeOK, Call
  <2>3. NobodyHere'
    BY <1>1, <2>2 DEF NobodyHere
  <2>4. CallInv(c)'
    BY <1>1, <1>3, <2>2, <2>3 DEF CallInv
  <2> QED
    BY <1>1, <1>3, <2>2, <2>4, <2>6, RequestStep DEF Using, Syncing
<1> QED
  BY <1>2, <1>3 DEF Sync

LEMMA AbandonInv ==
  ASSUME SandboxInv, NEW c \in Callers, Abandon(c)
  PROVE  SandboxInv'
<1> DEFINE after == [call EXCEPT ![c] = NoCall]
<1>1. /\ TypeOK /\ First(c) /\ call[c].pc = "abandon" /\ call[c].pc \notin Using
      /\ ~call[c].here /\ call \in [Callers -> Call] /\ StopByName(after) /\ line' = Tail(line)
      /\ UNCHANGED <<phase, access, pat, mem, sweep, shell>>
  BY FrontFacts DEF Abandon, At, SandboxInv, Using
<1>2. /\ after \in [Callers -> Call] /\ after[c] = NoCall
      /\ after[c].pc = "idle" /\ ~after[c].here
      /\ \A d \in Callers : d # c => after[d] = call[d]
  BY <1>1, NoCallFacts
<1> HIDE DEF after
<1>3. TypeOK' /\ call'[c].pc = "idle"
  BY <1>1, <1>2, StopByNameFacts, LineFacts DEF TypeOK, Call, Ctr, Bash
<1>4. CASE ctr'.st # "running" /\ \A d \in Callers : ~call'[d].here
  <2>1. CallInv(c)'
    BY <1>3, <1>4 DEF CallInv, Changing, Syncing
  <2> QED
    BY <1>1, <1>2, <1>3, <1>4, <2>1, StopByNameFacts, RequestHalts
<1>5. CASE ctr' = ctr /\ bash' = bash /\ call' = after /\ (ctr.st = "running" => "unstopped" \in mishap')
  <2>1. CallInv(c)'
    BY <1>2, <1>5 DEF CallInv, Changing, Syncing
  <2> QED
    BY <1>1, <1>2, <1>3, <1>5, <2>1, StopByNameFacts, RequestStep DEF Using
<1> QED
  BY <1>1, <1>2, <1>4, <1>5, StopByNameFacts

LEMMA EnsureInv ==
  ASSUME SandboxInv, NEW c \in Callers, Ensure(c)
  PROVE  SandboxInv'
  BY AuthorizeInv, EvictInv, RevokeTokenInv, InspectFindsNoneInv, InspectFindsMisfitInv,
     InspectFindsItInv, InspectFailsInv, DiscardInv, RemoveInv, CreateInv, StartInv, MintInv,
     SyncInv, AbandonInv DEF Ensure

\* A request arrives, and waits in line.
LEMMA RequestInv ==
  ASSUME SandboxInv, NEW c \in Callers, NEW kind \in Asks[c], Request(c, kind)
  PROVE  SandboxInv'
<1> DEFINE new == [NoCall EXCEPT !.pc = "check", !.kind = kind]
<1>1. /\ TypeOK /\ phase = "up" /\ call[c].pc = "idle" /\ call' = [call EXCEPT ![c] = new]
      /\ line' = Append(line, c) /\ mem' \in {Fresh, mem}
      /\ UNCHANGED <<phase, access, ctr, pat, sweep, bash, shell, mishap, left>>
  BY DEF Request, SandboxInv
<1>2. kind \in Kinds
  BY ConstantsAssumption DEF Kinds
<1>3. new \in Call /\ new.pc = "check" /\ ~new.here
  BY <1>2, NoCallFacts DEF Call
<1>4. call \in [Callers -> Call]
  BY <1>1 DEF TypeOK, Call
<1>5. /\ call' \in [Callers -> Call] /\ call'[c].pc = "check" /\ ~call'[c].here
      /\ \A d \in Callers : d # c => call'[d] = call[d]
  BY <1>1, <1>3, <1>4
<1> HIDE DEF new
<1>6. mem' \in {Fresh, Idle, Expired, Never} /\ (mem = Fresh => mem' = Fresh)
  BY <1>1 DEF TypeOK
<1>7. TypeOK'
  BY <1>1, <1>5, <1>6, LineFacts DEF TypeOK, Call
<1>8. LineInv'
  <2>1. \A b : First(b) => First(b)'
    BY <1>1, LineFacts DEF First
  <2> QED
    BY <1>1, <1>5, <2>1 DEF SandboxInv, LineInv, Waking, Changing, Syncing
<1>9. NobodyHere => NobodyHere'
  BY <1>5 DEF NobodyHere
<1>10. MidWake => MidWake'
  BY <1>1, <1>5 DEF MidWake, Syncing
<1>11. DownInv' /\ SweepInv'
  BY <1>1, <1>9 DEF SandboxInv, DownInv, SweepInv
<1>12. RunningInv'
  BY <1>1, <1>10 DEF SandboxInv, RunningInv
<1>13. ASSUME NEW d \in Callers PROVE CallInv(d)'
  <2>1. CASE d = c
    BY <1>5, <2>1 DEF CallInv, Changing, Syncing
  <2>2. CASE d # c
    <3>1. call'[d] = call[d]
      BY <1>5, <2>2
    <3> QED
      BY <1>1, <1>6, <1>9, <3>1 DEF SandboxInv, CallInv
  <2> QED
    BY <2>1, <2>2
<1> QED
  BY <1>7, <1>8, <1>11, <1>12, <1>13 DEF SandboxInv

\* Requests that use the container end, or are told that their shell has gone.
LEMMA UsesEnd ==
  ASSUME SandboxInv, TypeOK', UNCHANGED <<phase, access, ctr, pat, mem, line, sweep, mishap>>,
         \A d \in Callers : call'[d] = call[d] \/ (call[d].pc \in Using /\ call'[d] = NoCall),
         shell' \in {0, shell},
         shell' # 0 => bash'[shell] = bash[shell],
         \A d \in Callers : call'[d].here /\ call'[d].pc = "shell" => bash'[call[d].sh] = bash[call[d].sh]
  PROVE  SandboxInv'
<1> USE DEF SandboxInv
<1>1. \A d \in Callers : call'[d].pc \in Waking => call'[d] = call[d]
  BY NoCallFacts DEF Waking, Changing, Syncing
<1>2. LineInv'
  BY <1>1 DEF LineInv, First
<1>3. NobodyHere => NobodyHere'
  BY NoCallFacts DEF NobodyHere
<1>4. MidWake => MidWake'
  BY DEF MidWake, Syncing, Using
<1>5. DownInv' /\ SweepInv'
  BY <1>3, NoCallFacts DEF DownInv, SweepInv
<1>6. RunningInv'
  BY <1>4 DEF RunningInv
<1>7. ASSUME NEW d \in Callers PROVE CallInv(d)'
  <2>1. CASE call'[d] = NoCall
    BY <2>1, NoCallFacts DEF CallInv, Changing, Syncing
  <2>2. CASE call'[d] = call[d]
    BY <1>3, <2>2 DEF CallInv
  <2> QED
    BY <2>1, <2>2
<1> QED
  BY <1>2, <1>5, <1>6, <1>7

LEMMA UseEndsInv ==
  ASSUME SandboxInv, NEW c \in Callers, UseEnds(c)
  PROVE  SandboxInv'
<1>1. /\ TypeOK /\ call \in [Callers -> Call] /\ call[c].pc \in Using
      /\ call' = [call EXCEPT ![c] = NoCall]
      /\ UNCHANGED <<phase, access, ctr, pat, mem, line, sweep, bash, shell, mishap, left>>
  BY DEF UseEnds, Using, SandboxInv, TypeOK, Call
<1>2. /\ call' \in [Callers -> Call] /\ call'[c] = NoCall
      /\ \A d \in Callers : d # c => call'[d] = call[d]
  BY <1>1, NoCallFacts
<1>3. TypeOK'
  BY <1>1, <1>2 DEF TypeOK, Call
<1> QED
  BY <1>1, <1>2, <1>3, UsesEnd

LEMMA BashExitsInv ==
  ASSUME SandboxInv, NEW s \in Shells, BashExits(s)
  PROVE  SandboxInv'
<1>1. /\ TypeOK /\ bash' = [bash EXCEPT ![s] = NoBash] /\ shell' = 0 /\ call' = Rejected(s)
      /\ bash \in [Shells -> Bash]
      /\ UNCHANGED <<phase, access, ctr, pat, mem, line, sweep, mishap, left>>
  BY DEF BashExits, SandboxInv, TypeOK, Bash
<1>2. NoBash \in Bash
  BY DEF NoBash, Bash
<1>3. TypeOK'
  BY <1>1, <1>2, RejectedFacts, ConstantsAssumption DEF TypeOK, Call, Bash
<1>4. \A d \in Callers : call'[d] = call[d] \/ (call[d].pc \in Using /\ call'[d] = NoCall)
  BY <1>1, RejectedFacts DEF Using
<1>5. ASSUME NEW d \in Callers, call'[d].here, call'[d].pc = "shell"
      PROVE  bash'[call[d].sh] = bash[call[d].sh]
  <2>1. call'[d] = call[d] /\ call[d].here /\ call[d].pc = "shell"
    BY <1>4, <1>5, NoCallFacts
  <2>2. call[d].sh # s
    BY <1>1, <2>1, RejectedFacts, NoCallFacts
  <2>3. call[d].sh \in Shells
    BY <1>1, <2>1, ConstantsAssumption DEF SandboxInv, CallInv, TypeOK, Shells
  <2> QED
    BY <1>1, <2>2, <2>3
<1> QED
  BY <1>1, <1>3, <1>4, <1>5, UsesEnd

LEMMA SpawnInv ==
  ASSUME SandboxInv, NEW c \in Callers, Spawn(c)
  PROVE  SandboxInv'
<1>1. /\ TypeOK /\ call \in [Callers -> Call] /\ call[c].pc = "spawn" /\ call[c].pc \in Using
      /\ UNCHANGED <<phase, access, ctr, pat, mem, line, sweep, mishap>>
  BY DEF Spawn, Using, SandboxInv, TypeOK, Call
<1>2. ASSUME call[c].here, Fine, NEW s \in Shells,
             bash' = [bash EXCEPT ![s] = [st |-> "open", here |-> TRUE]], shell' = s,
             call' = [call EXCEPT ![c].pc = "shell", ![c].sh = s]
      PROVE  SandboxInv'
  <2> DEFINE new == [call[c] EXCEPT !.pc = "shell", !.sh = s]
  <2>1. s \in 0..MaxShells /\ s # 0
    BY ConstantsAssumption DEF Shells
  <2>2. new \in Call /\ new.pc = "shell" /\ new.sh = s /\ new.here
    BY <1>1, <1>2, <2>1 DEF Call
  <2>3. call' = [call EXCEPT ![c] = new]
    BY <1>1, <1>2
  <2> HIDE DEF new
  <2>4. /\ call' \in [Callers -> Call] /\ call'[c] = new
        /\ \A d \in Callers : d # c => call'[d] = call[d]
    BY <1>1, <2>2, <2>3
  <2>5. /\ bash' \in [Shells -> Bash] /\ bash'[s].here
        /\ \A t \in Shells : bash[t].here => bash'[t].here
    <3>1. bash \in [Shells -> Bash]
      BY <1>1 DEF TypeOK, Bash
    <3> QED
      BY <1>2, <3>1 DEF Bash
  <2>6. TypeOK'
    BY <1>1, <1>2, <2>1, <2>4, <2>5 DEF TypeOK, Call, Bash, Fine
  <2>7. \A d \in Callers : call[d].pc \notin Changing
    BY <1>2 DEF SandboxInv, CallInv, NobodyHere
  <2>8. /\ ctr.st = "running" /\ ctr.fit = "ok" /\ mem = Fresh
        /\ sweep.pc # "stop" /\ phase = "up"
    BY <1>1, <1>2 DEF SandboxInv, CallInv, SweepInv, NobodyHere, DownInv, TypeOK
  <2>9. LineInv'
    BY <1>1, <2>2, <2>4 DEF SandboxInv, LineInv, First, Waking, Changing, Syncing
  <2>10. DownInv' /\ SweepInv'
    BY <1>1, <2>8 DEF SandboxInv, DownInv, SweepInv
  <2>11. RunningInv'
    <3>1. ~MidWake
      BY <2>7 DEF MidWake, Changing
    <3> QED
      BY <1>1, <1>2, <2>5, <3>1 DEF SandboxInv, RunningInv
  <2>12. ASSUME NEW d \in Callers PROVE CallInv(d)'
    <3>1. CASE d = c
      BY <1>1, <2>1, <2>2, <2>4, <2>5, <2>8, <3>1 DEF CallInv, Using, Changing, Syncing
    <3>2. CASE d # c
      <4>1. call'[d] = call[d]
        BY <2>4, <3>2
      <4>2. call[d].here /\ call[d].pc = "shell" => call[d].sh \in Shells
        BY <1>1, ConstantsAssumption DEF SandboxInv, CallInv, TypeOK, Shells
      <4> QED
        BY <1>1, <2>5, <2>7, <4>1, <4>2 DEF SandboxInv, CallInv, Changing, Syncing
    <3> QED
      BY <3>1, <3>2
  <2> QED
    BY <2>6, <2>9, <2>10, <2>11, <2>12 DEF SandboxInv
<1>3. CASE /\ IF call[c].here THEN Fault ELSE Fine
           /\ call' = [call EXCEPT ![c] = NoCall] /\ UNCHANGED <<bash, shell>>
  <2>1. /\ call' \in [Callers -> Call] /\ call'[c] = NoCall
        /\ \A d \in Callers : d # c => call'[d] = call[d]
    BY <1>1, <1>3, NoCallFacts
  <2>2. left' \in [Events -> Nat]
    BY <1>1, <1>3, FaultFacts
  <2>3. TypeOK'
    BY <1>1, <1>3, <2>1, <2>2 DEF TypeOK, Call
  <2> QED
    BY <1>1, <1>3, <2>1, <2>3, UsesEnd
<1> QED
  BY <1>2, <1>3 DEF Spawn

(* ------------------------------- the sweep ----------------------------- *)

LEMMA SweeperFacts ==
  ASSUME SandboxInv, First(Sweeper)
  PROVE  /\ TypeOK /\ phase = "up" /\ call \in [Callers -> Call] /\ ctr \in Ctr
         /\ bash \in [Shells -> Bash]
         /\ \A d \in Callers : call[d].pc \notin Waking
         /\ ~MidWake
<1>1. \A d \in Callers : call[d].pc \notin Waking
  BY Alone
<1>2. phase = "up"
  BY DEF SandboxInv, DownInv, First, TypeOK
<1> QED
  BY <1>1, <1>2 DEF SandboxInv, TypeOK, Call, Ctr, Bash, MidWake, Waking, Changing

\* The sweep goes on, and the container stays as it is.
LEMMA SweepGoesOn ==
  ASSUME SandboxInv, TypeOK', First(Sweeper), UNCHANGED <<phase, ctr, mem>>,
         mishap \subseteq mishap',
         \A d \in Callers : call'[d] \in {call[d], NoCall},
         \A s \in Shells : bash'[s].here = bash[s].here,
         shell' \in {0, shell},
         line' = line \/ (line' = Tail(line) /\ sweep'.pc = "idle"),
         pat' = pat \/ (ctr.st = "running" => mishap' # {}),
         SweepInv'
  PROVE  SandboxInv'
<1> USE DEF SandboxInv
<1>1. phase = "up" /\ ~MidWake /\ \A d \in Callers : call[d].pc \notin Waking
  BY SweeperFacts
<1>2. \A d \in Callers : call'[d].pc \notin Waking
  BY <1>1, NoCallFacts DEF Waking, Changing, Syncing
<1>3. LineInv'
  BY <1>2, LineSweep
<1>4. DownInv'
  BY <1>1 DEF DownInv
<1>5. RunningInv'
  <2>1. shell' # 0 => shell \in Shells /\ shell' = shell
    BY ConstantsAssumption DEF TypeOK, Shells
  <2> QED
    BY <1>1, <2>1 DEF RunningInv
<1>6. ASSUME NEW d \in Callers PROVE CallInv(d)'
  <2>1. CASE call'[d] = NoCall
    BY <2>1, NoCallFacts DEF CallInv, Changing, Syncing
  <2>2. CASE call'[d] = call[d]
    <3>1. call[d].here /\ call[d].pc = "shell" => call[d].sh \in Shells
      BY ConstantsAssumption DEF CallInv, TypeOK, Shells
    <3> QED
      BY <1>1, <2>2, <3>1 DEF CallInv, Waking, Changing, Syncing
  <2> QED
    BY <2>1, <2>2
<1> QED
  BY <1>3, <1>4, <1>5, <1>6

\* The sweep has the container stopped or removed, or finds it stopped.
LEMMA SweepHalts ==
  ASSUME SandboxInv, TypeOK', First(Sweeper), UNCHANGED <<phase, mem, shell>>,
         ctr'.st # "running",
         \A d \in Callers : ~call'[d].here /\ call'[d].pc = call[d].pc,
         line' = line \/ (line' = Tail(line) /\ sweep'.pc = "idle"),
         SweepInv'
  PROVE  SandboxInv'
<1> USE DEF SandboxInv
<1>1. phase = "up" /\ \A d \in Callers : call[d].pc \notin Waking
  BY SweeperFacts
<1>2. LineInv'
  BY LineSweep
<1>3. DownInv' /\ RunningInv'
  BY <1>1 DEF DownInv, RunningInv
<1>4. ASSUME NEW d \in Callers PROVE CallInv(d)'
  BY <1>1 DEF CallInv, Waking, Changing, Syncing
<1> QED
  BY <1>2, <1>3, <1>4

LEMMA SweepEndsFacts ==
  ASSUME TypeOK, First(Sweeper), SweepEnds
  PROVE  /\ sweep'.pc = "idle" /\ line' = Tail(line)
         /\ line' \in Seq(Callers \cup {Sweeper})
         /\ sweep' \in [pc : {"idle", "inspect", "access", "quarantine", "stop", "expire",
                              "evict", "revoke"}, same : BOOLEAN]
         /\ SweepInv'
  BY LineFacts DEF SweepEnds, NoSweep, SweepInv

LEMMA SweepGotoFacts ==
  ASSUME TypeOK, NEW pc \in {"access", "quarantine", "stop", "expire", "evict", "revoke"},
         SweepGoto(pc)
  PROVE  /\ sweep'.pc = pc /\ sweep'.same = sweep.same /\ line' = line
         /\ sweep' \in [pc : {"idle", "inspect", "access", "quarantine", "stop", "expire",
                              "evict", "revoke"}, same : BOOLEAN]
  BY DEF SweepGoto, TypeOK

LEMMA SweepListsInv ==
  ASSUME SandboxInv, SweepLists
  PROVE  SandboxInv'
<1>1. /\ TypeOK /\ phase = "up" /\ sweep'.pc = "inspect" /\ line' = Append(line, Sweeper)
      /\ UNCHANGED <<phase, access, ctr, pat, mem, call, bash, shell, mishap, left>>
  BY DEF SweepLists, SandboxInv
<1>2. TypeOK'
  BY <1>1, LineFacts DEF SweepLists, TypeOK
<1>3. LineInv'
  <2>1. \A b : First(b) => First(b)'
    BY <1>1, LineFacts DEF First
  <2> QED
    BY <1>1, <2>1 DEF SandboxInv, LineInv
<1>4. DownInv' /\ SweepInv' /\ RunningInv'
  BY <1>1 DEF SandboxInv, DownInv, SweepInv, RunningInv, MidWake
<1>5. ASSUME NEW d \in Callers PROVE CallInv(d)'
  BY <1>1 DEF SandboxInv, CallInv, NobodyHere
<1> QED
  BY <1>2, <1>3, <1>4, <1>5 DEF SandboxInv

\* The idle clocks never find a container idle that somebody is using.
LEMMA ClocksInv ==
  ASSUME SandboxInv, First(Sweeper), NEW up \in BOOLEAN, Clocks(up),
         ~up => ctr.st # "running" /\ sweep.same, up => sweep.pc = "access",
         UNCHANGED <<phase, access, ctr, pat, mem, mishap, left>>
  PROVE  SandboxInv'
<1>1. /\ TypeOK /\ phase = "up" /\ call \in [Callers -> Call] /\ ctr \in Ctr
      /\ bash \in [Shells -> Bash]
      /\ \A d \in Callers : call[d].pc \notin Waking
  BY SweeperFacts
<1>2. CASE up /\ Age >= Idle
  <2>1. SweepGoto("stop") /\ CloseShell /\ call' = Rejected(shell)
    BY <1>2 DEF Clocks
  <2>2. NobodyHere
    <3>1. mem # Fresh
      BY <1>1, <1>2 DEF Age, Fresh, Idle, Expired, Never, Ctr, TypeOK
    <3> QED
      BY <3>1 DEF SandboxInv, CallInv, NobodyHere
  <2>3. NobodyHere'
    BY <1>1, <2>1, <2>2, RejectedFacts, NoCallFacts DEF NobodyHere
  <2>4. SweepInv'
    BY <1>1, <1>2, <2>1, <2>3, SweepGotoFacts DEF SandboxInv, SweepInv
  <2>5. TypeOK'
    BY <1>1, <2>1, SweepGotoFacts, CloseShellFacts, RejectedFacts DEF TypeOK, Call, Bash
  <2> QED
    BY <1>1, <2>1, <2>4, <2>5, SweepGotoFacts, CloseShellFacts, RejectedFacts, SweepGoesOn
<1>3. CASE ~up /\ Age = Expired
  <2>1. SweepGoto("expire") /\ UNCHANGED <<bash, shell, call>>
    BY <1>3 DEF Clocks
  <2>2. SweepInv'
    BY <1>3, <2>1, SweepGotoFacts, <1>1 DEF SweepInv
  <2>3. TypeOK'
    BY <1>1, <2>1, SweepGotoFacts DEF TypeOK
  <2> QED
    BY <1>1, <2>1, <2>2, <2>3, SweepGotoFacts, SweepGoesOn
<1>4. CASE ~(up /\ Age >= Idle) /\ ~(~up /\ Age = Expired)
  <2>1. SweepEnds /\ UNCHANGED <<bash, shell, call>>
    BY <1>4 DEF Clocks
  <2>2. TypeOK'
    BY <1>1, <2>1, SweepEndsFacts DEF TypeOK
  <2> QED
    BY <1>1, <2>1, <2>2, SweepEndsFacts, SweepGoesOn
<1> QED
  BY <1>2, <1>3, <1>4

\* The shell is closed, and what runs in it rejected, before the container is stopped.
LEMMA SweepCloses ==
  ASSUME SandboxInv, First(Sweeper), NEW pc \in {"quarantine", "evict"}, SweepGoto(pc),
         CloseShell, call' = Rejected(shell), UNCHANGED <<phase, access, ctr, pat, mem>>,
         left' \in [Events -> Nat], mishap \subseteq mishap',
         mishap' \subseteq {"half", "unstopped", "blind"},
         sweep.same \/ ctr.st = "none" \/ (pc = "evict" /\ "blind" \in mishap')
  PROVE  SandboxInv'
<1>1. /\ TypeOK /\ phase = "up" /\ call \in [Callers -> Call] /\ bash \in [Shells -> Bash]
  BY SweeperFacts
<1>2. SweepInv'
  BY <1>1, SweepGotoFacts DEF SweepInv
<1>3. TypeOK'
  BY <1>1, SweepGotoFacts, CloseShellFacts, RejectedFacts DEF TypeOK, Call, Bash
<1> QED
  BY <1>1, <1>2, <1>3, SweepGotoFacts, CloseShellFacts, RejectedFacts, SweepGoesOn

LEMMA SweepInspectsInv ==
  ASSUME SandboxInv, SweepInspects
  PROVE  SandboxInv'
<1>1. /\ TypeOK /\ First(Sweeper) /\ sweep.pc = "inspect"
      /\ UNCHANGED <<phase, access, ctr, pat, mem>>
  BY DEF SweepInspects, SweepAt, SandboxInv
<1>2. CASE Fine /\ ~sweep.same /\ SweepEnds /\ UNCHANGED <<bash, shell, call, mishap>>
  <2>1. TypeOK'
    BY <1>1, <1>2, SweepEndsFacts DEF TypeOK, Fine
  <2> QED
    BY <1>1, <1>2, <2>1, SweepEndsFacts, SweepGoesOn
<1>3. CASE Fine /\ sweep.same /\ UNCHANGED mishap /\ ctr.fit # "ok"
           /\ SweepGoto("quarantine") /\ CloseShell /\ call' = Rejected(shell)
  BY <1>1, <1>3, FaultFacts, SweepCloses DEF TypeOK
<1>4. CASE Fine /\ sweep.same /\ UNCHANGED mishap /\ ctr.fit = "ok" /\ ctr.st = "running"
           /\ SweepGoto("access") /\ UNCHANGED <<bash, shell, call>>
  <2>1. TypeOK'
    BY <1>1, <1>4, SweepGotoFacts DEF TypeOK, Fine
  <2>2. SweepInv'
    BY <1>1, <1>4, SweepGotoFacts DEF SweepInv
  <2> QED
    BY <1>1, <1>4, <2>1, <2>2, SweepGotoFacts, SweepGoesOn
<1>5. CASE Fine /\ sweep.same /\ UNCHANGED mishap /\ ctr.fit = "ok" /\ ctr.st # "running"
           /\ Clocks(FALSE)
  BY <1>1, <1>5, ClocksInv DEF Fine
<1>6. CASE /\ Fault /\ SweepGoto("evict") /\ CloseShell /\ call' = Rejected(shell)
           /\ mishap' = IF sweep.same THEN mishap ELSE mishap \cup {"blind"}
  <2>1. /\ mishap \subseteq mishap' /\ mishap' \subseteq {"half", "unstopped", "blind"}
        /\ sweep.same \/ "blind" \in mishap'
    BY <1>1, <1>6 DEF TypeOK
  <2> QED
    BY <1>1, <1>6, <2>1, FaultFacts, SweepCloses
<1> QED
  BY <1>2, <1>3, <1>4, <1>5, <1>6 DEF SweepInspects

LEMMA SweepAuthorizesInv ==
  ASSUME SandboxInv, SweepAuthorizes
  PROVE  SandboxInv'
<1>1. /\ TypeOK /\ First(Sweeper) /\ sweep.pc = "access"
      /\ UNCHANGED <<phase, access, ctr, pat, mem, mishap>>
  BY DEF SweepAuthorizes, SweepAt, SandboxInv
<1>2. CASE access /\ Fine /\ Clocks(TRUE)
  BY <1>1, <1>2, ClocksInv DEF Fine
<1>3. CASE /\ IF access THEN Fault ELSE Fine
           /\ SweepGoto("evict") /\ CloseShell /\ call' = Rejected(shell)
  <2>1. left' \in [Events -> Nat]
    BY <1>1, <1>3, FaultFacts
  <2>2. sweep.same \/ ctr.st = "none"
    BY <1>1 DEF SandboxInv, SweepInv
  <2> QED
    BY <1>1, <1>3, <2>1, <2>2, SweepCloses DEF TypeOK
<1> QED
  BY <1>2, <1>3 DEF SweepAuthorizes

\* The container of the row is stopped, by SweepStops or SweepEvicts.
LEMMA SweepStopFacts ==
  ASSUME SandboxInv, First(Sweeper),
         IF sweep.same THEN StopByName(call) ELSE Fine /\ UNCHANGED <<ctr, bash, call, mishap>>,
         UNCHANGED <<phase, access, pat, mem, shell>>,
         line' = line \/ (line' = Tail(line) /\ sweep'.pc = "idle"),
         line' \in Seq(Callers \cup {Sweeper}),
         sweep' \in [pc : {"idle", "inspect", "access", "quarantine", "stop", "expire",
                           "evict", "revoke"}, same : BOOLEAN],
         SweepInv'
  PROVE  SandboxInv'
<1>1. /\ TypeOK /\ call \in [Callers -> Call] /\ ctr \in Ctr /\ bash \in [Shells -> Bash]
  BY SweeperFacts
<1>2. /\ call' \in [Callers -> Call] /\ ctr' \in Ctr /\ bash' \in [Shells -> Bash]
      /\ mishap' \subseteq {"half", "unstopped", "blind"} /\ left' \in [Events -> Nat]
      /\ mishap \subseteq mishap'
      /\ \/ ctr'.st # "running" /\ \A d \in Callers : ~call'[d].here /\ call'[d].pc = call[d].pc
         \/ ctr' = ctr /\ bash' = bash /\ call' = call
  <2>1. CASE sweep.same
    BY <1>1, <2>1, StopByNameFacts
  <2>2. CASE ~sweep.same
    BY <1>1, <2>2 DEF TypeOK, Fine
  <2> QED
    BY <2>1, <2>2
<1>3. TypeOK'
  BY <1>1, <1>2 DEF TypeOK, Call, Ctr, Bash
<1>4. CASE ctr'.st # "running" /\ \A d \in Callers : ~call'[d].here /\ call'[d].pc = call[d].pc
  BY <1>3, <1>4, SweepHalts
<1>5. CASE ctr' = ctr /\ bash' = bash /\ call' = call
  BY <1>2, <1>3, <1>5, SweepGoesOn
<1> QED
  BY <1>2, <1>4, <1>5

LEMMA SweepStopsInv ==
  ASSUME SandboxInv, SweepStops
  PROVE  SandboxInv'
<1>1. TypeOK /\ First(Sweeper) /\ SweepEnds
  BY DEF SweepStops, SweepAt, SandboxInv
<1> QED
  BY <1>1, SweepEndsFacts, SweepStopFacts DEF SweepStops

LEMMA SweepEvictsInv ==
  ASSUME SandboxInv, SweepEvicts
  PROVE  SandboxInv'
<1>1. TypeOK /\ First(Sweeper) /\ sweep.pc = "evict" /\ SweepGoto("revoke") /\ call \in [Callers -> Call]
  BY SweeperFacts DEF SweepEvicts, SweepAt, SandboxInv
<1>2. SweepInv'
  <2>1. CASE sweep.same
    BY <1>1, <2>1, SweepGotoFacts, StopByNameFacts DEF SweepEvicts, SweepInv
  <2>2. CASE ~sweep.same
    BY <1>1, <2>2, SweepGotoFacts DEF SweepEvicts, SweepInv, SandboxInv
  <2> QED
    BY <2>1, <2>2
<1>3. line' \in Seq(Callers \cup {Sweeper})
  BY <1>1, SweepGotoFacts DEF TypeOK
<1> QED
  BY <1>1, <1>2, <1>3, SweepGotoFacts, SweepStopFacts DEF SweepEvicts

LEMMA SweepRevokesInv ==
  ASSUME SandboxInv, SweepRevokes
  PROVE  SandboxInv'
<1>1. /\ TypeOK /\ First(Sweeper) /\ sweep.pc = "revoke" /\ SweepEnds
      /\ UNCHANGED <<phase, access, ctr, mem, call, bash, shell, mishap>>
      /\ pat' \in BOOLEAN /\ (Fine \/ Fault)
  BY DEF SweepRevokes, SweepAt, SandboxInv, TypeOK
<1>2. ctr.st = "running" => mishap' # {}
  BY <1>1 DEF SandboxInv, SweepInv
<1>3. left' \in [Events -> Nat]
  BY <1>1, FaultFacts
<1>4. TypeOK'
  BY <1>1, <1>3, SweepEndsFacts DEF TypeOK
<1> QED
  BY <1>1, <1>2, <1>4, SweepEndsFacts, SweepGoesOn

LEMMA SweepExpiresInv ==
  ASSUME SandboxInv, SweepExpires
  PROVE  SandboxInv'
<1>1. /\ TypeOK /\ First(Sweeper) /\ sweep.pc = "expire" /\ SweepEnds
      /\ UNCHANGED <<phase, access, pat, mem, call, bash, shell, mishap>>
      /\ ctr' \in {ctr, NoContainer} /\ (Fine \/ Fault)
  BY DEF SweepExpires, SweepAt, SandboxInv
<1>2. NoContainer \in Ctr /\ NoContainer.st = "none"
  BY DEF NoContainer, Ctr
<1>3. ctr'.st # "running" /\ ctr' \in Ctr
  BY <1>1, <1>2, SweeperFacts DEF SandboxInv, SweepInv
<1>4. \A d \in Callers : ~call[d].here
  BY <1>1 DEF SandboxInv, SweepInv, CallInv
<1>5. left' \in [Events -> Nat]
  BY <1>1, FaultFacts
<1>6. TypeOK'
  BY <1>1, <1>3, <1>5, SweepEndsFacts DEF TypeOK, Ctr
<1> QED
  BY <1>1, <1>3, <1>4, <1>6, SweepEndsFacts, SweepHalts

LEMMA SweepStepInv ==
  ASSUME SandboxInv, SweepStep
  PROVE  SandboxInv'
  BY SweepListsInv, SweepInspectsInv, SweepAuthorizesInv, SweepStopsInv, SweepEvictsInv,
     SweepRevokesInv, SweepExpiresInv DEF SweepStep

(* ---------------------------- the environment -------------------------- *)

\* Time only passes while nobody uses the container.
LEMMA LaterInv ==
  ASSUME SandboxInv, Later
  PROVE  SandboxInv'
<1>1. /\ TypeOK /\ ctr \in Ctr /\ \A c \in Callers : call[c].pc \notin Using
      /\ UNCHANGED <<phase, access, pat, line, call, sweep, bash, shell, mishap, left>>
  BY DEF Later, SandboxInv, TypeOK, Ctr, Using
<1>2. PICK age \in {Idle, Expired} :
        /\ mem' = IF mem < age THEN age ELSE mem
        /\ ctr' = IF ctr.st # "none" /\ ctr.born < age THEN [ctr EXCEPT !.born = age] ELSE ctr
  BY DEF Later
<1>3. /\ ctr' \in Ctr /\ ctr'.st = ctr.st /\ ctr'.fit = ctr.fit /\ ctr'.synced = ctr.synced
  BY <1>1, <1>2 DEF Ctr
<1>4. mem' \in {Fresh, Idle, Expired, Never}
  BY <1>1, <1>2 DEF TypeOK
<1>5. \A c \in Callers : ~call[c].here
  BY <1>1 DEF SandboxInv, CallInv
<1>6. TypeOK'
  BY <1>1, <1>3, <1>4 DEF TypeOK, Ctr
<1>7. LineInv' /\ DownInv' /\ RunningInv' /\ SweepInv'
  BY <1>1, <1>3 DEF SandboxInv, LineInv, First, DownInv, RunningInv, MidWake, SweepInv, NobodyHere
<1>8. ASSUME NEW c \in Callers PROVE CallInv(c)'
  BY <1>1, <1>3, <1>5 DEF SandboxInv, CallInv, NobodyHere
<1> QED
  BY <1>6, <1>7, <1>8 DEF SandboxInv

\* A container that is lost ends what was going on in it.
LEMMA LoseInv ==
  ASSUME SandboxInv, Lose
  PROVE  SandboxInv'
<1>1. /\ TypeOK /\ call \in [Callers -> Call] /\ bash \in [Shells -> Bash] /\ ctr.st = "running"
      /\ UNCHANGED <<phase, access, pat, mem, line, shell, mishap>>
      /\ left' \in [Events -> Nat]
  BY SpendFacts DEF Lose, SandboxInv, TypeOK, Call, Bash
<1>2. /\ ctr' \in Ctr /\ ctr'.st # "running" /\ ~ctr'.synced
      /\ ctr'.fit = ctr.fit \/ (ctr'.fit = "ok" /\ ctr'.st = "none")
      /\ call' \in [Callers -> Call] /\ bash' \in [Shells -> Bash]
      /\ \A c \in Callers : call'[c].pc = call[c].pc /\ ~call'[c].here
      /\ sweep'.pc = sweep.pc
      /\ sweep'.same \in BOOLEAN /\ (sweep'.same = sweep.same \/ ctr'.st = "none")
      /\ sweep' \in [pc : {"idle", "inspect", "access", "quarantine", "stop", "expire",
                           "evict", "revoke"}, same : BOOLEAN]
  <2>1. CASE Halts(call, "stopped") /\ UNCHANGED sweep
    BY <1>1, <2>1, HaltsFacts DEF TypeOK
  <2>2. CASE /\ ctr' = NoContainer /\ sweep' = [sweep EXCEPT !.same = FALSE]
             /\ call' = [c \in Callers |-> [call[c] EXCEPT !.here = FALSE]]
             /\ bash' = [s \in Shells |-> [bash[s] EXCEPT !.here = FALSE]]
    <3>1. \A c \in Callers : /\ [call[c] EXCEPT !.here = FALSE] \in Call
                             /\ [call[c] EXCEPT !.here = FALSE].pc = call[c].pc
                             /\ ~[call[c] EXCEPT !.here = FALSE].here
      BY <1>1 DEF Call
    <3>2. \A s \in Shells : [bash[s] EXCEPT !.here = FALSE] \in Bash
      BY <1>1 DEF Bash
    <3>3. NoContainer \in Ctr /\ NoContainer.st = "none" /\ ~NoContainer.synced /\ NoContainer.fit = "ok"
      BY DEF NoContainer, Ctr
    <3> QED
      BY <1>1, <2>2, <3>1, <3>2, <3>3 DEF TypeOK
  <2> QED
    BY <2>1, <2>2 DEF Lose
<1>3. TypeOK'
  BY <1>1, <1>2 DEF TypeOK, Call, Ctr, Bash
<1>4. LineInv' /\ RunningInv'
  BY <1>1, <1>2 DEF SandboxInv, LineInv, First, RunningInv
<1>5. DownInv'
  BY <1>1, <1>2 DEF SandboxInv, DownInv
<1>6. SweepInv'
  BY <1>1, <1>2 DEF SandboxInv, SweepInv, NobodyHere
<1>7. ASSUME NEW c \in Callers PROVE CallInv(c)'
  BY <1>1, <1>2 DEF SandboxInv, CallInv, NobodyHere, Syncing
<1> QED
  BY <1>3, <1>4, <1>5, <1>6, <1>7 DEF SandboxInv

\* A crash forgets the line, and a wake it interrupts is the mishap "half".
LEMMA CrashInv ==
  ASSUME SandboxInv, Crash
  PROVE  SandboxInv'
<1>1. /\ TypeOK /\ ctr \in Ctr /\ phase' = "down" /\ access' = access /\ mem' = Never
      /\ line' = <<>> /\ call' = [c \in Callers |-> NoCall] /\ sweep' = NoSweep
      /\ bash' = [s \in Shells |-> NoBash] /\ shell' = 0
      /\ left' \in [Events -> Nat]
  BY SpendFacts DEF Crash, SandboxInv, TypeOK, Ctr
<1>2. PICK done \in BOOLEAN :
        /\ ctr' = IF done THEN [ctr EXCEPT !.synced = TRUE] ELSE ctr
        /\ pat' = IF done THEN TRUE ELSE pat
        /\ mishap' = IF ctr.st = "running" /\ ~ctr.synced /\ ~done THEN mishap \cup {"half"}
                     ELSE mishap
  BY DEF Crash
<1>3. /\ ctr' \in Ctr /\ ctr'.st = ctr.st /\ (done => ctr'.synced) /\ (~done => ctr' = ctr)
      /\ pat' \in BOOLEAN /\ mishap' \subseteq {"half", "unstopped", "blind"}
      /\ mishap \subseteq mishap'
  BY <1>1, <1>2 DEF Ctr, TypeOK
<1>4. /\ call' \in [Callers -> Call] /\ bash' \in [Shells -> Bash]
      /\ \A c \in Callers : call'[c].pc = "idle" /\ ~call'[c].here
      /\ sweep' \in [pc : {"idle", "inspect", "access", "quarantine", "stop", "expire",
                           "evict", "revoke"}, same : BOOLEAN]
      /\ sweep'.pc = "idle"
  BY <1>1, NoCallFacts DEF NoBash, Bash, NoSweep
<1>5. TypeOK'
  <2>1. <<>> \in Seq(Callers \cup {Sweeper}) /\ 0 \in 0..MaxShells
    BY ConstantsAssumption
  <2> QED
    BY <1>1, <1>3, <1>4, <2>1 DEF TypeOK, Call, Ctr, Bash
<1>6. LineInv' /\ DownInv' /\ SweepInv'
  BY <1>1, <1>4 DEF LineInv, DownInv, SweepInv, Waking, Changing, Syncing
<1>7. RunningInv'
  <2>1. SUFFICES ASSUME ctr.st = "running"
                 PROVE  /\ ctr'.synced \/ mishap' \cap {"half", "unstopped"} # {}
                        /\ pat' \/ mishap' # {}
    BY <1>1, <1>3 DEF RunningInv
  <2>2. CASE done
    BY <1>2, <1>3, <2>2
  <2>3. CASE ~done /\ ~ctr.synced
    BY <1>2, <2>1, <2>3
  <2>4. CASE ~done /\ ctr.synced
    <3>1. ~MidWake
      BY <2>4 DEF SandboxInv, CallInv, MidWake
    <3> QED
      BY <1>2, <2>1, <2>4, <3>1 DEF SandboxInv, RunningInv
  <2> QED
    BY <2>2, <2>3, <2>4
<1>8. ASSUME NEW c \in Callers PROVE CallInv(c)'
  BY <1>4 DEF CallInv, Changing, Syncing
<1> QED
  BY <1>5, <1>6, <1>7, <1>8 DEF SandboxInv

\* What was running still runs, under a policy that may have changed.
LEMMA BootInv ==
  ASSUME SandboxInv, Boot
  PROVE  SandboxInv'
<1>1. /\ TypeOK /\ ctr \in Ctr /\ phase = "down" /\ phase' = "up"
      /\ line = <<>> /\ shell = 0 /\ sweep.pc = "idle"
      /\ \A c \in Callers : call[c].pc = "idle" /\ ~call[c].here
      /\ UNCHANGED <<access, pat, mem, line, call, sweep, bash, shell, mishap>>
  BY DEF Boot, SandboxInv, DownInv, TypeOK, Ctr
<1>2. /\ ctr' \in Ctr /\ ctr'.st = ctr.st /\ ctr'.synced = ctr.synced
      /\ left' \in [Events -> Nat]
  <2>1. CASE Fine /\ UNCHANGED ctr
    BY <1>1, <2>1 DEF Fine, TypeOK
  <2>2. ASSUME Spend("drift"), NEW fit \in {"old", "foreign"}, ctr' = [ctr EXCEPT !.fit = fit]
        PROVE  <1>2!1 /\ left' \in [Events -> Nat]
    BY <1>1, <2>2, SpendFacts DEF Ctr
  <2> QED
    BY <2>1, <2>2 DEF Boot
<1>3. TypeOK'
  BY <1>1, <1>2 DEF TypeOK, Ctr
<1>4. LineInv' /\ DownInv' /\ SweepInv' /\ RunningInv'
  BY <1>1, <1>2 DEF SandboxInv, LineInv, DownInv, SweepInv, RunningInv, MidWake, Waking, Changing, Syncing
<1>5. ASSUME NEW c \in Callers PROVE CallInv(c)'
  BY <1>1 DEF CallInv, Changing, Syncing
<1> QED
  BY <1>3, <1>4, <1>5 DEF SandboxInv

LEMMA AccessChangesInv ==
  ASSUME SandboxInv, AccessChanges
  PROVE  SandboxInv'
<1>1. /\ UNCHANGED <<phase, ctr, pat, mem, line, call, sweep, bash, shell, mishap>>
      /\ access' \in BOOLEAN /\ left' \in [Events -> Nat]
  BY SpendFacts DEF AccessChanges, SandboxInv, TypeOK
<1>2. TypeOK'
  BY <1>1 DEF SandboxInv, TypeOK
<1> QED
  BY <1>1, <1>2 DEF SandboxInv, LineInv, First, DownInv, RunningInv, MidWake, SweepInv, NobodyHere, CallInv

(* ------------------------------- the theorems -------------------------- *)

\* No container, nobody in line.
LEMMA InitInv == Init => SandboxInv
<1> SUFFICES ASSUME Init PROVE SandboxInv
  OBVIOUS
<1>1. /\ call \in [Callers -> Call] /\ bash \in [Shells -> Bash] /\ ctr \in Ctr /\ ctr.st = "none"
      /\ \A c \in Callers : call[c].pc = "idle" /\ ~call[c].here
      /\ left \in [Events -> Nat]
  BY ConstantsAssumption, NoCallFacts DEF Init, NoBash, Bash, NoContainer, Ctr
<1>2. TypeOK
  <2>1. /\ line \in Seq(Callers \cup {Sweeper}) /\ shell \in 0..MaxShells
        /\ mem \in {Fresh, Idle, Expired, Never} /\ mishap \subseteq {"half", "unstopped", "blind"}
    BY ConstantsAssumption DEF Init
  <2>2. sweep \in [pc : {"idle", "inspect", "access", "quarantine", "stop", "expire",
                         "evict", "revoke"}, same : BOOLEAN]
    BY DEF Init, NoSweep
  <2> QED
    BY <1>1, <2>1, <2>2 DEF Init, TypeOK, Call, Bash, Ctr
<1>3. LineInv /\ DownInv /\ SweepInv /\ RunningInv
  BY <1>1 DEF Init, LineInv, DownInv, SweepInv, RunningInv, NoSweep, Waking, Changing, Syncing
<1>4. ASSUME NEW c \in Callers PROVE CallInv(c)
  BY <1>1 DEF CallInv, Changing, Syncing
<1> QED
  BY <1>2, <1>3, <1>4 DEF SandboxInv

LEMMA NextInv == SandboxInv /\ [Next]_vars => SandboxInv'
<1> SUFFICES ASSUME SandboxInv, [Next]_vars PROVE SandboxInv'
  OBVIOUS
<1>1. CASE Next
  BY <1>1, RequestInv, EnsureInv, SpawnInv, UseEndsInv, BashExitsInv, SweepStepInv, LaterInv,
     LoseInv, AccessChangesInv, CrashInv, BootInv DEF Next
<1>2. CASE UNCHANGED vars
  BY <1>2 DEF vars, SandboxInv, TypeOK, LineInv, First, DownInv, RunningInv, MidWake, SweepInv,
              NobodyHere, CallInv
<1> QED
  BY <1>1, <1>2

\* withContainerLifecycle and ensureRunningContainer: whoever is past the wait is alone, and
\* a container that runs is synced and has its token and its shell, is being woken, or one of
\* the named mishaps has happened since its last complete wake.
THEOREM SandboxInvariant == Spec => []SandboxInv
  BY InitInv, NextInv, PTL DEF Spec

\* What is done in the container is done in a workspace synced after its last start, with
\* credentials that work, by a shell of that start, for any number of requests and crashes.
THEOREM UsedWhenReady == Spec => []ReadyWhenUsed
<1>1. SandboxInv => ReadyWhenUsed
  <2> SUFFICES ASSUME SandboxInv, NEW c \in Callers, call[c].here, call[c].pc \in {"exec", "shell"}
               PROVE  /\ ctr.st = "running" /\ ctr.fit = "ok"
                      /\ ctr.synced \/ mishap \cap {"half", "unstopped"} # {}
                      /\ pat \/ mishap # {}
                      /\ call[c].pc = "shell" => bash[call[c].sh].here
    BY DEF ReadyWhenUsed
  <2>1. /\ ctr.st = "running" /\ ctr.fit = "ok"
        /\ call[c].pc = "shell" => bash[call[c].sh].here
    BY DEF SandboxInv, CallInv
  <2>2. ~MidWake
    BY DEF SandboxInv, CallInv, MidWake, Changing, NobodyHere
  <2> QED
    BY <2>1, <2>2 DEF SandboxInv, RunningInv
<1> QED
  BY <1>1, SandboxInvariant, PTL

\* The idle sweep of startSandboxSweeper never stops a container somebody is using.
THEOREM WorkIsSpared == Spec => []SweepSparesWork
<1>1. SandboxInv => SweepSparesWork
  BY DEF SandboxInv, SweepInv, NobodyHere, SweepSparesWork
<1> QED
  BY <1>1, SandboxInvariant, PTL
=============================================================================

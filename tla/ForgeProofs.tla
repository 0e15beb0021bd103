------------------------------ MODULE ForgeProofs ------------------------------
(* What Forge promises of merges for any number of pull requests, commits, *)
(* contexts and concurrent requests, and any pushes, settings and crashes. *)
(* The deliveries stay with TLC.                                           *)
EXTENDS Forge, TLAPS

(* -------------------------------- invariant --------------------------- *)

PullTypes ==
  /\ tip \in Heads /\ next \in Heads
  /\ target \in [ver : Nat, anc : Heads, has : Heads]
  /\ status \in [Tips -> [Contexts -> States]]
  /\ required \in BOOLEAN
  /\ pr \in [Prs -> {"none", "open", "closed", "merged"}]
  /\ opened \in [Prs -> Heads]
  /\ req \in [Requests -> Request]

\* The source branch is at its last commit or gone; nothing knows of a later one.
BranchOK ==
  /\ tip \in {0, next}
  /\ target.anc <= target.has /\ target.has <= next
  /\ \A n \in Prs : opened[n] <= next

MergePcs == {"gate", "checks", "merge", "clone", "push", "record"}

\* What a request is about to push holds what its pull request was opened with, and, as
\* long as the target has not moved, what the target holds; before it records, the target
\* does hold it.
RequestOK(r) ==
  /\ req[r].pc \in MergePcs \cup {"insert"} => req[r].pr \in Prs
  /\ req[r].pc \in MergePcs => pr[req[r].pr] # "none"
  /\ req[r].pc = "push" =>
       /\ opened[req[r].pr] <= req[r].src /\ req[r].src <= next
       /\ req[r].ver <= target.ver
       /\ req[r].ver = target.ver => target.has <= req[r].src
  /\ req[r].pc = "record" => opened[req[r].pr] <= target.has

\* A request under required checks whose reading is not out of date holds the branch's
\* head, and from the gate on a green one.
GateOK(r) ==
  req[r].required /\ ~req[r].raced =>
    /\ req[r].pc = "checks" => req[r].head = tip /\ tip # 0
    /\ req[r].pc \in {"merge", "clone"} => tip = 0 \/ (tip \in Tips /\ Green(tip))
    /\ req[r].pc = "push" => Green(req[r].src)

MergeInv ==
  /\ PullTypes /\ BranchOK
  /\ \A r \in Requests : RequestOK(r)
  /\ MergedHasLanded

(* --------------------------------- lemmas ------------------------------ *)

LEMMA HeadsAreNumbers == Heads \subseteq Nat /\ Tips \subseteq Heads /\ 0 \in Heads /\ 0 \notin Tips
BY ConstantsAssumption DEF Heads

LEMMA SuccessIsGreen ==
  ASSUME PullTypes, NEW c \in Tips, CombinedState(status[c]) = "success"
  PROVE  Green(c)
BY DEF PullTypes, States, CombinedState, Green

LEMMA RecordsTyped ==
  ASSUME PullTypes, NEW r \in Requests, NEW pc \in Pcs
  PROVE  /\ NoRequest \in Request
         /\ [NoRequest EXCEPT !.pc = pc, !.pr = req[r].pr] \in Request
         /\ [req[r] EXCEPT !.pc = pc] \in Request
BY HeadsAreNumbers DEF PullTypes, Request, NoRequest, Pcs, Methods

\* A step of one request that leaves the repository and the pull requests alone.
LEMMA OneRequest ==
  ASSUME MergeInv, NEW r \in Requests, NEW q \in Request,
         req' = [req EXCEPT ![r] = q], UNCHANGED <<repo, pr, opened>>,
         RequestOK(r)'
  PROVE  MergeInv'
<1>1. PullTypes' /\ BranchOK' /\ MergedHasLanded'
  BY DEF MergeInv, PullTypes, BranchOK, MergedHasLanded, repo
<1>2. ASSUME NEW s \in Requests, s # r PROVE RequestOK(s)'
  <2>1. req'[s] = req[s]
    BY <1>2 DEF MergeInv, PullTypes
  <2>2. RequestOK(s)
    BY DEF MergeInv
  <2> QED
    BY <2>1, <2>2 DEF RequestOK, repo
<1> QED
  BY <1>1, <1>2 DEF MergeInv

LEMMA AnsweredKeeps ==
  ASSUME MergeInv, NEW r \in Requests, Answered(r), UNCHANGED <<repo, pr, opened>>
  PROVE  MergeInv'
<1>1. PullTypes
  BY DEF MergeInv
<1>2. NoRequest \in Request
  BY <1>1, RecordsTyped DEF Pcs
<1>3. req'[r] = NoRequest
  BY <1>1 DEF Answered, PullTypes
<1>4. RequestOK(r)'
  BY <1>3 DEF RequestOK, NoRequest, MergePcs
<1> QED
  BY <1>2, <1>4, OneRequest DEF Answered

\* A change that only marks the requests it overtakes.
LEMMA RaceKeeps ==
  ASSUME MergeInv, Race, UNCHANGED <<pr, opened, target>>, next <= next', next' \in Heads
  PROVE  /\ req' \in [Requests -> Request]
         /\ \A r \in Requests : RequestOK(r)'
<1> USE DEF MergeInv
<1>1. ASSUME NEW r \in Requests
      PROVE  \E b \in BOOLEAN : req'[r] = [req[r] EXCEPT !.raced = b]
  <2>1. req[r].raced \in BOOLEAN
    BY DEF PullTypes, Request
  <2>2. (req[r].raced \/ req[r].pc \in {"checks", "merge", "clone", "push"}) \in BOOLEAN
    BY <2>1
  <2> QED
    BY <2>2 DEF Race
<1>2. req' \in [Requests -> Request]
  <2>1. ASSUME NEW r \in Requests PROVE req'[r] \in Request
    BY <1>1 DEF PullTypes, Request
  <2> QED
    BY <2>1 DEF Race
<1>3. ASSUME NEW r \in Requests PROVE RequestOK(r)'
  <2>1. PICK b \in BOOLEAN : req'[r] = [req[r] EXCEPT !.raced = b]
    BY <1>1
  <2>2. /\ req'[r].pc = req[r].pc /\ req'[r].pr = req[r].pr
        /\ req'[r].src = req[r].src /\ req'[r].ver = req[r].ver
    BY <2>1 DEF PullTypes, Request
  <2>3. RequestOK(r) /\ req[r].src \in Nat /\ next \in Nat /\ next' \in Nat
    BY HeadsAreNumbers DEF PullTypes, Request
  <2> QED
    BY <2>2, <2>3 DEF RequestOK
<1> QED
  BY <1>2, <1>3

LEMMA MergeInit == Init => MergeInv
<1> SUFFICES ASSUME Init PROVE MergeInv
  OBVIOUS
<1>1. /\ tip \in Heads /\ next \in Heads /\ required \in BOOLEAN
      /\ target \in [ver : Nat, anc : Heads, has : Heads]
  BY HeadsAreNumbers DEF Init
<1>2. status \in [Tips -> [Contexts -> States]]
  BY DEF Init, States
<1>3. /\ pr \in [Prs -> {"none", "open", "closed", "merged"}]
      /\ opened \in [Prs -> Heads]
  BY HeadsAreNumbers DEF Init
<1>4. req \in [Requests -> Request]
  BY HeadsAreNumbers DEF Init, Request, NoRequest, Pcs, Methods
<1>5. BranchOK /\ MergedHasLanded
  BY HeadsAreNumbers DEF Init, BranchOK, MergedHasLanded
<1>6. \A r \in Requests : RequestOK(r)
  BY DEF Init, RequestOK, NoRequest, MergePcs
<1> QED
  BY <1>1, <1>2, <1>3, <1>4, <1>5, <1>6 DEF MergeInv, PullTypes

(* ---------------------------- steps of a request ----------------------- *)

\* A request that only moves to a place with no obligation of its own.
LEMMA MovesKeeps ==
  ASSUME MergeInv, NEW r \in Requests, NEW q \in Request,
         req' = [req EXCEPT ![r] = q], UNCHANGED <<repo, pr, opened>>,
         q.pc \notin MergePcs, q.pc = "insert" => q.pr \in Prs
  PROVE  MergeInv'
<1>1. req'[r] = q
  BY DEF MergeInv, PullTypes
<1>2. RequestOK(r)'
  BY <1>1 DEF RequestOK, MergePcs
<1> QED
  BY <1>2, OneRequest

\* A request on its way to the merge that neither pushes nor records yet.
LEMMA ApproachKeeps ==
  ASSUME MergeInv, NEW r \in Requests, NEW q \in Request,
         req' = [req EXCEPT ![r] = q], UNCHANGED <<repo, pr, opened>>,
         q.pc \in {"gate", "checks", "merge", "clone"}, q.pr \in Prs, pr[q.pr] # "none"
  PROVE  MergeInv'
<1>1. req'[r] = q
  BY DEF MergeInv, PullTypes
<1>2. RequestOK(r)'
  BY <1>1 DEF RequestOK, MergePcs
<1> QED
  BY <1>2, OneRequest

\* The target already holds the branch: on to the record.
LEMMA AlreadyThere ==
  ASSUME MergeInv, NEW r \in Requests, Goto(r, "record"), UNCHANGED <<repo, pr, opened>>,
         req[r].pc \in MergePcs, tip # 0, tip <= target.has
  PROVE  MergeInv'
<1> USE DEF MergeInv
<1>1. PICK q \in Request : q = [NoRequest EXCEPT !.pc = "record", !.pr = req[r].pr]
  BY RecordsTyped DEF Pcs
<1>2. q.pc = "record" /\ q.pr = req[r].pr
  BY <1>1 DEF NoRequest
<1>3. req' = [req EXCEPT ![r] = q] /\ req'[r] = q
  BY <1>1 DEF Goto, PullTypes
<1>4. req[r].pr \in Prs /\ pr[req[r].pr] # "none"
  BY DEF RequestOK
<1>5. opened[req[r].pr] <= target.has
  <2>1. opened[req[r].pr] <= tip
    BY <1>4 DEF BranchOK
  <2>2. opened[req[r].pr] \in Nat /\ tip \in Nat /\ target.has \in Nat
    BY <1>4, HeadsAreNumbers DEF PullTypes
  <2> QED
    BY <2>1, <2>2
<1>6. RequestOK(r)'
  BY <1>2, <1>3, <1>4, <1>5 DEF RequestOK, MergePcs, repo
<1> QED
  BY <1>3, <1>6, OneRequest

LEMMA RequestStepKeeps ==
  ASSUME MergeInv, NEW r \in Requests, RequestStep(r)
  PROVE  MergeInv'
<1> USE DEF MergeInv
<1>0. req[r] \in Request /\ NoRequest \in Request
  BY RecordsTyped DEF PullTypes, Pcs
<1>n. /\ tip \in Nat /\ target.anc \in Nat /\ target.has \in Nat
      /\ target.anc <= target.has
  BY HeadsAreNumbers DEF PullTypes, BranchOK
<1>1. CASE EditRead(r)
  <2>1. PICK b \in BOOLEAN :
          req' = [req EXCEPT ![r] = [NoRequest EXCEPT !.pc = "edit", !.required = b]]
    BY <1>1 DEF EditRead
  <2>2. PICK q \in Request : q = [NoRequest EXCEPT !.pc = "edit", !.required = b]
    BY <1>0 DEF Request, Pcs
  <2>3. q.pc = "edit"
    BY <2>2 DEF NoRequest
  <2> QED
    BY <1>1, <2>1, <2>2, <2>3, MovesKeeps DEF EditRead, MergePcs
<1>2. CASE EditWrite(r)
  <2>1. req[r].required \in BOOLEAN
    BY <1>0 DEF Request
  <2>2. PullTypes' /\ BranchOK' /\ MergedHasLanded'
    BY <1>2, <2>1, RecordsTyped DEF EditWrite, Answered, PullTypes, BranchOK, MergedHasLanded, Pcs
  <2>3. ASSUME NEW s \in Requests PROVE RequestOK(s)'
    <3>1. CASE s = r
      BY <1>2, <3>1 DEF EditWrite, Answered, PullTypes, RequestOK, NoRequest, MergePcs
    <3>2. CASE s # r
      <4>1. req'[s] = req[s] /\ RequestOK(s)
        BY <1>2, <3>2 DEF EditWrite, Answered, PullTypes
      <4> QED
        BY <1>2, <4>1 DEF EditWrite, RequestOK
    <3> QED
      BY <3>1, <3>2
  <2> QED
    BY <2>2, <2>3
<1>3. CASE OpenRead(r)
  <2>1. PICK q \in Request : q = [req[r] EXCEPT !.pc = "number"]
    BY RecordsTyped DEF Pcs
  <2>2. q.pc = "number" /\ req' = [req EXCEPT ![r] = q]
    BY <1>0, <1>3, <2>1 DEF OpenRead, Request, PullTypes
  <2> QED
    BY <1>3, <2>2, MovesKeeps DEF OpenRead, MergePcs
<1>4. ASSUME NEW n \in Prs, OpenNumber(r, n) PROVE MergeInv'
  <2>1. PICK q \in Request : q = [req[r] EXCEPT !.pc = "insert", !.pr = n]
    BY <1>0 DEF Request, Pcs
  <2>2. q.pc = "insert" /\ q.pr = n /\ req' = [req EXCEPT ![r] = q]
    BY <1>0, <1>4, <2>1 DEF OpenNumber, Request, PullTypes
  <2> QED
    BY <1>4, <2>2, MovesKeeps DEF OpenNumber, MergePcs
<1>5. CASE OpenInsert(r)
  <2> DEFINE n == req[r].pr
  <2>1. n \in Prs
    BY <1>5 DEF OpenInsert, At, RequestOK
  <2>2. CASE pr[n] = "none"
    <3>1. /\ pr' = [pr EXCEPT ![n] = "open"] /\ opened' = [opened EXCEPT ![n] = tip]
          /\ Goto(r, "announce") /\ UNCHANGED repo
      BY <1>5, <2>2 DEF OpenInsert
    <3>2. PullTypes'
      BY <2>1, <3>1, RecordsTyped DEF PullTypes, Goto, Pcs, repo
    <3>3. BranchOK'
      <4>1. tip <= next
        BY HeadsAreNumbers DEF BranchOK, PullTypes
      <4> QED
        BY <2>1, <3>1, <4>1 DEF BranchOK, PullTypes, repo
    <3>4. MergedHasLanded'
      BY <2>1, <3>1 DEF MergedHasLanded, PullTypes, repo
    <3>5. ASSUME NEW s \in Requests PROVE RequestOK(s)'
      <4>1. CASE s = r
        <5>1. req'[s].pc = "announce"
          BY <3>1, <4>1 DEF Goto, PullTypes, NoRequest
        <5> QED
          BY <5>1 DEF RequestOK, MergePcs
      <4>2. CASE s # r
        <5>1. req'[s] = req[s] /\ RequestOK(s)
          BY <3>1, <4>2 DEF Goto, PullTypes
        <5>2. req[s].pc \in MergePcs => req[s].pr \in Prs /\ req[s].pr # n
          BY <2>2, <5>1 DEF RequestOK
        <5> QED
          BY <3>1, <5>1, <5>2 DEF RequestOK, PullTypes, repo, MergePcs
      <4> QED
        BY <4>1, <4>2
    <3> QED
      BY <3>2, <3>3, <3>4, <3>5
  <2>3. CASE pr[n] # "none"
    BY <1>5, <2>3, AnsweredKeeps DEF OpenInsert
  <2> QED
    BY <2>2, <2>3
<1>6. ASSUME NEW n \in Prs, NEW m \in Methods, MergeRead(r, n, m) PROVE MergeInv'
  <2>1. PICK q \in Request :
          q = [NoRequest EXCEPT !.pc = IF required THEN "gate" ELSE "merge",
                                !.pr = n, !.required = required, !.method = m]
    BY <1>0 DEF Request, Pcs, PullTypes
  <2>2. q.pc \in {"gate", "merge"} /\ q.pr = n
    BY <2>1 DEF NoRequest
  <2> QED
    BY <1>6, <2>1, <2>2, ApproachKeeps DEF MergeRead
<1>7. CASE MergeHead(r)
  <2>1. PICK q \in Request :
          q = [req[r] EXCEPT !.pc = IF tip = 0 THEN "merge" ELSE "checks", !.head = tip]
    BY <1>0 DEF Request, Pcs, PullTypes
  <2>2. q.pc \in {"merge", "checks"} /\ q.pr = req[r].pr
    BY <1>0, <2>1 DEF Request
  <2>3. req' = [req EXCEPT ![r] = q]
    BY <1>0, <1>7, <2>1 DEF MergeHead, PullTypes, Request
  <2>4. req[r].pr \in Prs /\ pr[req[r].pr] # "none"
    BY <1>7 DEF MergeHead, At, RequestOK, MergePcs
  <2> QED
    BY <1>7, <2>2, <2>3, <2>4, ApproachKeeps DEF MergeHead
<1>8. CASE MergeChecks(r)
  <2>1. PICK q \in Request : q = [req[r] EXCEPT !.pc = "merge"]
    BY RecordsTyped DEF Pcs
  <2>2. q.pc = "merge" /\ q.pr = req[r].pr
    BY <1>0, <2>1 DEF Request
  <2>3. Answered(r) \/ req' = [req EXCEPT ![r] = q]
    BY <1>0, <1>8, <2>1 DEF MergeChecks, PullTypes, Request
  <2>4. req[r].pr \in Prs /\ pr[req[r].pr] # "none"
    BY <1>8 DEF MergeChecks, At, RequestOK, MergePcs
  <2> QED
    BY <1>8, <2>2, <2>3, <2>4, ApproachKeeps, AnsweredKeeps DEF MergeChecks
<1>9. CASE MergeBegin(r)
  <2>1. PICK q \in Request : q = [req[r] EXCEPT !.pc = "clone"]
    BY RecordsTyped DEF Pcs
  <2>2. q.pc = "clone" /\ q.pr = req[r].pr
    BY <1>0, <2>1 DEF Request
  <2>3. req[r].pr \in Prs /\ pr[req[r].pr] # "none" /\ req[r].pc \in MergePcs
    BY <1>9 DEF MergeBegin, At, RequestOK, MergePcs
  <2>4. CASE tip # 0 /\ tip <= target.anc
    <3>1. tip <= target.has
      BY <1>n, <2>4
    <3> QED
      BY <1>9, <2>3, <2>4, <3>1, AlreadyThere DEF MergeBegin
  <2>5. CASE ~(tip # 0 /\ tip <= target.anc)
    <3>1. Answered(r) \/ req' = [req EXCEPT ![r] = q]
      BY <1>0, <1>9, <2>1, <2>5 DEF MergeBegin, PullTypes, Request
    <3> QED
      BY <1>9, <2>2, <2>3, <3>1, ApproachKeeps, AnsweredKeeps DEF MergeBegin
  <2> QED
    BY <2>4, <2>5
<1>10. CASE MergeClone(r)
  <2>1. PICK landed \in {target.anc, target.has} :
          /\ landed = target.anc \/ landed = target.has
          /\ req[r].method # "merge" => landed = target.has
          /\ \/ Answered(r)
             \/ tip # 0 /\ tip <= landed /\ Goto(r, "record")
             \/ /\ tip > landed
                /\ req' = [req EXCEPT ![r] = [@ EXCEPT !.pc = "push", !.ver = target.ver, !.src = tip]]
    BY <1>10 DEF MergeClone
  <2>2. landed <= target.has /\ landed \in Nat /\ tip \in Nat /\ target.has \in Nat
    BY <1>n, <2>1
  <2>3. req[r].pr \in Prs /\ pr[req[r].pr] # "none" /\ req[r].pc \in MergePcs
    BY <1>10 DEF MergeClone, At, RequestOK, MergePcs
  <2>4. UNCHANGED <<repo, pr, opened>>
    BY <1>10 DEF MergeClone
  <2>5. CASE Answered(r)
    BY <2>4, <2>5, AnsweredKeeps
  <2>6. CASE tip # 0 /\ tip <= landed /\ Goto(r, "record")
    BY <2>2, <2>3, <2>4, <2>6, AlreadyThere
  <2>7. CASE /\ tip > landed
             /\ req' = [req EXCEPT ![r] = [@ EXCEPT !.pc = "push", !.ver = target.ver, !.src = tip]]
    <3>1. PICK q \in Request :
            q = [req[r] EXCEPT !.pc = "push", !.ver = target.ver, !.src = tip]
      BY <1>0 DEF Request, Pcs, PullTypes
    <3>2. q.pc = "push" /\ q.pr = req[r].pr /\ q.src = tip /\ q.ver = target.ver
      BY <1>0, <3>1 DEF Request
    <3>3. req' = [req EXCEPT ![r] = q] /\ req'[r] = q
      BY <2>7, <3>1 DEF PullTypes
    <3>4. tip = next
      BY <2>2, <2>7 DEF BranchOK
    <3>5. target.has <= tip /\ opened[req[r].pr] <= tip /\ target.ver \in Nat
      BY <2>3, <3>4 DEF BranchOK, PullTypes
    <3>6. RequestOK(r)'
      BY <2>2, <2>3, <2>4, <3>2, <3>3, <3>4, <3>5 DEF RequestOK, MergePcs, repo
    <3> QED
      BY <2>4, <3>3, <3>6, OneRequest
  <2> QED
    BY <2>1, <2>5, <2>6, <2>7
<1>11. CASE MergePush(r)
  <2>1. CASE target.ver # req[r].ver
    BY <1>11, <2>1, AnsweredKeeps DEF MergePush, repo
  <2>2. CASE target.ver = req[r].ver
    <3>1. /\ target' = [ver |-> target.ver + 1, has |-> req[r].src,
                        anc |-> IF req[r].method = "merge" THEN req[r].src ELSE target.anc]
          /\ Goto(r, "record")
          /\ UNCHANGED <<tip, next, status, required, pr, opened>>
      BY <1>11, <2>2 DEF MergePush
    <3>2. /\ req[r].pr \in Prs /\ pr[req[r].pr] # "none"
          /\ opened[req[r].pr] <= req[r].src /\ req[r].src <= next
          /\ target.has <= req[r].src
      BY <1>11, <2>2 DEF MergePush, At, RequestOK, MergePcs
    <3>3. /\ req[r].src \in Heads /\ req[r].src \in Nat /\ target.ver \in Nat
          /\ target.anc \in Nat /\ target.has \in Nat /\ next \in Nat
      BY <1>0, HeadsAreNumbers DEF PullTypes, Request
    <3>4. PullTypes'
      <4>1. target' \in [ver : Nat, anc : Heads, has : Heads]
        BY <3>1, <3>3 DEF PullTypes
      <4>2. req' \in [Requests -> Request]
        BY <3>1, RecordsTyped DEF PullTypes, Goto, Pcs
      <4> QED
        BY <3>1, <4>1, <4>2 DEF PullTypes
    <3>5. BranchOK'
      BY <3>1, <3>2, <3>3 DEF BranchOK
    <3>6. MergedHasLanded'
      <4>1. ASSUME NEW n \in Prs, pr[n] = "merged" PROVE req[r].src >= opened[n]
        <5>1. target.has >= opened[n] /\ opened[n] \in Nat
          BY <4>1, HeadsAreNumbers DEF MergedHasLanded, PullTypes
        <5> QED
          BY <3>2, <3>3, <5>1
      <4> QED
        BY <3>1, <4>1 DEF MergedHasLanded
    <3>7. ASSUME NEW s \in Requests PROVE RequestOK(s)'
      <4>1. CASE s = r
        <5>1. req'[s].pc = "record" /\ req'[s].pr = req[r].pr
          BY <3>1, <4>1 DEF Goto, PullTypes, NoRequest
        <5> QED
          BY <3>1, <3>2, <5>1 DEF RequestOK, MergePcs
      <4>2. CASE s # r
        <5>1. req'[s] = req[s] /\ RequestOK(s) /\ req[s] \in Request
          BY <3>1, <4>2 DEF Goto, PullTypes
        <5>2. req[s].pc = "push" => req[s].ver \in Nat /\ req[s].ver <= target.ver
          BY <5>1 DEF RequestOK, Request
        <5>3. req[s].pc = "record" => opened[req[s].pr] <= req[r].src
          <6>1. req[s].pc = "record" => opened[req[s].pr] \in Nat /\ opened[req[s].pr] <= target.has
            BY <5>1, HeadsAreNumbers DEF RequestOK, PullTypes, MergePcs
          <6> QED
            BY <3>2, <3>3, <6>1
        <5> QED
          BY <3>1, <3>3, <5>1, <5>2, <5>3 DEF RequestOK, MergePcs
      <4> QED
        BY <4>1, <4>2
    <3> QED
      BY <3>4, <3>5, <3>6, <3>7
  <2> QED
    BY <2>1, <2>2
<1>12. CASE MergeRecord(r)
  <2>1. /\ pr' = [pr EXCEPT ![req[r].pr] = "merged"] /\ Goto(r, "announce")
        /\ UNCHANGED <<repo, opened>>
    BY <1>12 DEF MergeRecord
  <2>2. req[r].pr \in Prs /\ opened[req[r].pr] <= target.has
    BY <1>12 DEF MergeRecord, At, RequestOK, MergePcs
  <2>3. PullTypes' /\ BranchOK'
    BY <2>1, <2>2, RecordsTyped DEF PullTypes, BranchOK, Goto, Pcs, repo
  <2>4. MergedHasLanded'
    <3>1. opened[req[r].pr] \in Nat /\ target.has \in Nat
      BY <2>2, HeadsAreNumbers DEF PullTypes
    <3> QED
      BY <2>1, <2>2, <3>1 DEF MergedHasLanded, PullTypes, repo
  <2>5. ASSUME NEW s \in Requests PROVE RequestOK(s)'
    <3>1. CASE s = r
      <4>1. req'[s].pc = "announce"
        BY <2>1, <3>1 DEF Goto, PullTypes, NoRequest
      <4> QED
        BY <4>1 DEF RequestOK, MergePcs
    <3>2. CASE s # r
      <4>1. req'[s] = req[s] /\ RequestOK(s)
        BY <2>1, <3>2 DEF Goto, PullTypes
      <4> QED
        BY <2>1, <2>2, <4>1 DEF RequestOK, PullTypes, repo
    <3> QED
      BY <3>1, <3>2
  <2> QED
    BY <2>3, <2>4, <2>5
<1> QED
  BY <1>1, <1>2, <1>3, <1>4, <1>5, <1>6, <1>7, <1>8, <1>9, <1>10, <1>11, <1>12 DEF RequestStep

(* ---------------------------- every other step -------------------------- *)

\* A step of webhooks only.
LEMMA OutboxKeeps ==
  ASSUME MergeInv, UNCHANGED <<repo, pulls>>
  PROVE  MergeInv'
BY DEF MergeInv, PullTypes, BranchOK, MergedHasLanded, RequestOK, repo, pulls

LEMMA MergeStep == MergeInv /\ [Next]_vars => MergeInv'
<1> SUFFICES ASSUME MergeInv, [Next]_vars PROVE MergeInv'
  OBVIOUS
<1> USE DEF MergeInv
<1>n. /\ tip \in Nat /\ next \in Nat /\ target.ver \in Nat /\ target.anc \in Nat
      /\ target.has \in Nat
  BY HeadsAreNumbers DEF PullTypes
<1>1. ASSUME NEW c \in Tips, Push(c) PROVE MergeInv'
  <2>1. /\ c > next /\ tip' = c /\ next' = c /\ Race
        /\ UNCHANGED <<target, status, required, pr, opened>>
    BY <1>1 DEF Push
  <2>2. c \in Heads /\ c \in Nat /\ next <= next'
    BY <1>n, <2>1, HeadsAreNumbers
  <2>3. req' \in [Requests -> Request] /\ \A r \in Requests : RequestOK(r)'
    BY <2>1, <2>2, RaceKeeps
  <2>4. \A n \in Prs : opened[n] \in Nat
    BY HeadsAreNumbers DEF PullTypes
  <2>5. BranchOK' /\ MergedHasLanded'
    BY <1>n, <2>1, <2>2, <2>4 DEF BranchOK, MergedHasLanded
  <2> QED
    BY <2>1, <2>2, <2>3, <2>5 DEF PullTypes
<1>2. CASE DeleteBranch
  <2>1. tip' = 0 /\ Race /\ UNCHANGED <<next, target, status, required, pr, opened>>
    BY <1>2 DEF DeleteBranch
  <2>2. req' \in [Requests -> Request] /\ \A r \in Requests : RequestOK(r)'
    BY <1>n, <2>1, RaceKeeps DEF PullTypes
  <2> QED
    BY <2>1, <2>2, HeadsAreNumbers DEF PullTypes, BranchOK, MergedHasLanded
<1>3. CASE PushTarget
  <2>1. target' = [target EXCEPT !.ver = @ + 1] /\ UNCHANGED <<tip, next, status, required, pulls>>
    BY <1>3 DEF PushTarget
  <2>2. /\ target'.ver = target.ver + 1 /\ target'.anc = target.anc /\ target'.has = target.has
        /\ target' \in [ver : Nat, anc : Heads, has : Heads]
    BY <1>n, <2>1 DEF PullTypes
  <2>3. ASSUME NEW r \in Requests PROVE RequestOK(r)'
    <3>1. RequestOK(r) /\ req[r].ver \in Nat
      BY DEF PullTypes, Request
    <3> QED
      BY <1>n, <2>1, <2>2, <3>1 DEF RequestOK, pulls
  <2> QED
    BY <2>1, <2>2, <2>3 DEF PullTypes, BranchOK, MergedHasLanded, pulls
<1>4. ASSUME NEW c \in Tips, NEW x \in Contexts, NEW s \in States, Report(c, x, s) PROVE MergeInv'
  <2>1. /\ status' = [status EXCEPT ![c][x] = s] /\ Race
        /\ UNCHANGED <<tip, next, target, required, pr, opened>>
    BY <1>4 DEF Report
  <2>2. status' \in [Tips -> [Contexts -> States]]
    BY <2>1 DEF PullTypes
  <2>3. req' \in [Requests -> Request] /\ \A r \in Requests : RequestOK(r)'
    BY <1>n, <2>1, RaceKeeps DEF PullTypes
  <2> QED
    BY <2>1, <2>2, <2>3 DEF PullTypes, BranchOK, MergedHasLanded
<1>5. ASSUME NEW n \in Prs, NEW s \in {"open", "closed"}, SetState(n, s) PROVE MergeInv'
  <2>1. pr' = [pr EXCEPT ![n] = s] /\ pr[n] # "none" /\ UNCHANGED <<repo, opened, req>>
    BY <1>5 DEF SetState
  <2>2. ASSUME NEW r \in Requests PROVE RequestOK(r)'
    BY <2>1 DEF RequestOK, PullTypes, repo
  <2> QED
    BY <2>1, <2>2 DEF PullTypes, BranchOK, MergedHasLanded, repo
<1>6. ASSUME NEW r \in Requests, RequestStep(r) PROVE MergeInv'
  BY <1>6, RequestStepKeeps
<1>7. ASSUME NEW r \in Requests, NEW f \in Fires, FireRequest(f, r) PROVE MergeInv'
  BY <1>7, AnsweredKeeps DEF FireRequest
<1>8. ASSUME NEW f \in Fires, FirePush(f) \/ FireElsewhere(f) \/ FireFault(f) \/ SweepStep(f)
      PROVE  MergeInv'
  <2>1. UNCHANGED <<repo, pulls>>
    BY <1>8 DEF FirePush, FireElsewhere, FireFault, SweepStep, Insert, Select, Send, Write
  <2> QED
    BY <2>1, OutboxKeeps
<1>9. ASSUME NEW d \in Deliveries, Elapse(d) PROVE MergeInv'
  BY <1>9, OutboxKeeps DEF Elapse
<1>10. ASSUME NEW h \in Hooks, Hook(h) \/ Unhook(h) PROVE MergeInv'
  BY <1>10, OutboxKeeps DEF Hook, Unhook
<1>11. CASE Crash
  <2>1. /\ req' = [r \in Requests |-> NoRequest] /\ UNCHANGED <<repo, pr, opened>>
    BY <1>11 DEF Crash
  <2>2. req' \in [Requests -> Request]
    BY <2>1, HeadsAreNumbers DEF Request, NoRequest, Pcs, Methods
  <2>3. ASSUME NEW r \in Requests PROVE RequestOK(r)'
    BY <2>1 DEF RequestOK, NoRequest, MergePcs
  <2> QED
    BY <2>1, <2>2, <2>3 DEF PullTypes, BranchOK, MergedHasLanded, repo
<1>12. CASE UNCHANGED vars
  BY <1>12, OutboxKeeps DEF vars
<1> QED
  BY <1>1, <1>2, <1>3, <1>4, <1>5, <1>6, <1>7, <1>8, <1>9, <1>10, <1>11, <1>12 DEF Next

\* A pull request that is called merged is in the target, with everything it was opened
\* with, whatever merges, pushes, deletions, reopenings and crashes came in between.
THEOREM MergedIsInTarget == Spec => []MergedHasLanded
<1>1. MergeInv => MergedHasLanded
  BY DEF MergeInv
<1> QED
  BY <1>1, MergeInit, MergeStep, PTL DEF Spec

(* ------------------------------ the merge gate -------------------------- *)

GateInv == MergeInv /\ \A r \in Requests : GateOK(r)

LEMMA GateInit == Init => GateInv
BY MergeInit DEF Init, GateInv, GateOK, NoRequest

\* A request the step does not touch, branch and checks being as they were.
LEMMA OthersGate ==
  ASSUME NEW r \in Requests, GateOK(r), req'[r] = req[r], UNCHANGED <<tip, status>>
  PROVE  GateOK(r)'
BY DEF GateOK, Green

\* Whoever is overtaken by a change of branch or checks is marked.
LEMMA RaceGate ==
  ASSUME PullTypes, Race, NEW r \in Requests
  PROVE  GateOK(r)'
<1>1. req[r].raced \in BOOLEAN /\ req[r] \in Request
  BY DEF PullTypes, Request
<1>2. /\ req'[r].pc = req[r].pc
      /\ req[r].pc \in {"checks", "merge", "clone", "push"} => req'[r].raced
  BY <1>1 DEF Race, Request
<1> QED
  BY <1>2 DEF GateOK

LEMMA RequestStepGate ==
  ASSUME GateInv, NEW r \in Requests, RequestStep(r)
  PROVE  \A s \in Requests : GateOK(s)'
<1> USE DEF GateInv, MergeInv
<1>1. UNCHANGED <<tip, status>>
  BY DEF RequestStep, EditRead, EditWrite, OpenRead, OpenInsert, OpenNumber, MergeRead, MergeHead,
         MergeChecks, MergeBegin, MergeClone, MergePush, MergeRecord, repo
<1>2. ASSUME NEW s \in Requests, s # r PROVE GateOK(s)'
  <2>1. req'[s] = req[s]
    BY <1>2 DEF RequestStep, EditRead, EditWrite, OpenRead, OpenInsert, OpenNumber, MergeRead,
         MergeHead, MergeChecks, MergeBegin, MergeClone, MergePush, MergeRecord, Answered, Goto,
         PullTypes
  <2> QED
    BY <1>1, <2>1, OthersGate
<1>3. req[r] \in Request /\ GateOK(r) /\ tip \in Heads
  BY DEF PullTypes
<1>4. GateOK(r)'
  <2> USE DEF PullTypes
  <2>1. ASSUME Answered(r) PROVE GateOK(r)'
    BY <2>1 DEF Answered, GateOK, NoRequest
  <2>2. ASSUME NEW pc \in {"record", "announce"}, Goto(r, pc) PROVE GateOK(r)'
    BY <2>2 DEF Goto, GateOK, NoRequest
  <2>3. CASE EditRead(r) \/ EditWrite(r)
    <3>1. CASE EditRead(r)
      <4>1. req'[r].pc = "edit"
        BY <3>1 DEF EditRead, NoRequest
      <4> QED
        BY <4>1 DEF GateOK
    <3> QED
      BY <2>1, <2>3, <3>1 DEF EditWrite
  <2>4. CASE OpenRead(r) \/ OpenInsert(r) \/ \E n \in Prs : OpenNumber(r, n)
    <3>1. CASE OpenInsert(r)
      BY <2>1, <2>2, <3>1 DEF OpenInsert
    <3>2. CASE OpenRead(r) \/ \E n \in Prs : OpenNumber(r, n)
      <4>1. OpenRead(r) => req'[r].pc = "number"
        BY <1>3 DEF OpenRead, Request
      <4>2. ASSUME NEW n \in Prs, OpenNumber(r, n) PROVE req'[r].pc = "insert"
        BY <1>3, <4>2 DEF OpenNumber, Request
      <4> QED
        BY <3>2, <4>1, <4>2 DEF GateOK
    <3> QED
      BY <2>4, <3>1, <3>2
  <2>5. ASSUME NEW n \in Prs, NEW m \in Methods, MergeRead(r, n, m) PROVE GateOK(r)'
    <3>1. /\ req'[r].pc = IF required THEN "gate" ELSE "merge"
          /\ req'[r].required = required
      BY <2>5 DEF MergeRead, NoRequest
    <3> QED
      BY <3>1 DEF GateOK
  <2>6. CASE MergeHead(r)
    <3>1. req'[r].pc = (IF tip = 0 THEN "merge" ELSE "checks") /\ req'[r].head = tip
      BY <1>3, <2>6 DEF MergeHead, Request
    <3> QED
      BY <1>1, <3>1 DEF GateOK
  <2>7. CASE MergeChecks(r)
    <3>1. CASE CombinedState(status[req[r].head]) = "success"
      <4>1. /\ req'[r].pc = "merge" /\ req'[r].required = req[r].required
            /\ req'[r].raced = req[r].raced /\ req[r].pc = "checks"
        BY <1>3, <2>7, <3>1 DEF MergeChecks, At, Request
      <4>2. req[r].required /\ ~req[r].raced => tip \in Tips /\ Green(tip)
        <5>1. req[r].required /\ ~req[r].raced => req[r].head = tip /\ tip # 0
          BY <1>3, <4>1 DEF GateOK
        <5> QED
          BY <1>3, <3>1, <5>1, SuccessIsGreen DEF Heads
      <4> QED
        BY <1>1, <4>1, <4>2 DEF GateOK, Green
    <3> QED
      BY <2>1, <2>7, <3>1 DEF MergeChecks
  <2>8. CASE MergeBegin(r)
    <3>1. CASE req' = [req EXCEPT ![r].pc = "clone"]
      <4>1. /\ req'[r].pc = "clone" /\ req'[r].required = req[r].required
            /\ req'[r].raced = req[r].raced /\ req[r].pc = "merge"
        BY <1>3, <2>8, <3>1 DEF MergeBegin, At, Request
      <4> QED
        BY <1>1, <1>3, <4>1 DEF GateOK, Green
    <3> QED
      BY <2>1, <2>2, <2>8, <3>1 DEF MergeBegin
  <2>9. CASE MergeClone(r)
    <3>1. CASE /\ tip # 0
               /\ req' = [req EXCEPT ![r] = [@ EXCEPT !.pc = "push", !.ver = target.ver, !.src = tip]]
      <4>1. /\ req'[r].pc = "push" /\ req'[r].required = req[r].required
            /\ req'[r].raced = req[r].raced /\ req[r].pc = "clone" /\ req'[r].src = tip
        BY <1>3, <2>9, <3>1 DEF MergeClone, At, Request
      <4> QED
        BY <1>1, <1>3, <3>1, <4>1 DEF GateOK, Green
    <3>2. tip > target.anc \/ tip > target.has => tip # 0
      <4>1. target.anc \in Nat /\ target.has \in Nat
        BY HeadsAreNumbers
      <4> QED
        BY <4>1
    <3> QED
      BY <2>1, <2>2, <2>9, <3>1, <3>2 DEF MergeClone
  <2>10. CASE MergePush(r) \/ MergeRecord(r)
    BY <2>1, <2>2, <2>10 DEF MergePush, MergeRecord
  <2> QED
    BY <2>3, <2>4, <2>5, <2>6, <2>7, <2>8, <2>9, <2>10 DEF RequestStep
<1> QED
  BY <1>2, <1>4

LEMMA GateStep == GateInv /\ [Next]_vars => GateInv'
<1> SUFFICES ASSUME GateInv, [Next]_vars PROVE \A r \in Requests : GateOK(r)'
  BY MergeStep DEF GateInv
<1> USE DEF GateInv, MergeInv
<1>1. CASE Race
  BY <1>1, RaceGate
<1>2. CASE UNCHANGED <<tip, status, req>>
  BY <1>2, OthersGate
<1>3. ASSUME NEW r \in Requests, RequestStep(r) PROVE \A s \in Requests : GateOK(s)'
  BY <1>3, RequestStepGate
<1>4. ASSUME NEW r \in Requests, NEW f \in Fires, FireRequest(f, r)
      PROVE  \A s \in Requests : GateOK(s)'
  <2>1. ASSUME NEW s \in Requests, s # r PROVE GateOK(s)'
    <3>1. req'[s] = req[s] /\ UNCHANGED <<tip, status>>
      BY <1>4, <2>1 DEF FireRequest, Answered, PullTypes, repo
    <3> QED
      BY <3>1, OthersGate
  <2>2. GateOK(r)'
    BY <1>4 DEF FireRequest, Answered, GateOK, NoRequest, PullTypes
  <2> QED
    BY <2>1, <2>2
<1>5. CASE Crash
  BY <1>5 DEF Crash, GateOK, NoRequest
<1> QED
  <2>1. ASSUME NEW c \in Tips, Push(c) \/ \E x \in Contexts, s \in States : Report(c, x, s)
        PROVE  Race
    BY <2>1 DEF Push, Report
  <2>2. DeleteBranch => Race
    BY DEF DeleteBranch
  <2>3. \/ PushTarget
        \/ \E n \in Prs, s \in {"open", "closed"} : SetState(n, s)
        \/ \E f \in Fires : FirePush(f) \/ FireElsewhere(f) \/ FireFault(f) \/ SweepStep(f)
        \/ \E d \in Deliveries : Elapse(d)
        \/ \E h \in Hooks : Hook(h) \/ Unhook(h)
        \/ UNCHANGED vars
        => UNCHANGED <<tip, status, req>>
    BY DEF PushTarget, SetState, FirePush, FireElsewhere, FireFault, SweepStep, Insert, Select,
           Send, Write, Elapse, Hook, Unhook, vars, repo, pulls
  <2> QED
    BY <1>1, <1>2, <1>3, <1>4, <1>5, <2>1, <2>2, <2>3 DEF Next

\* Under required checks a merge lands only what is green, for any number of concurrent
\* merges, unless branch or checks changed between the reading of the head and the push.
THEOREM GateHolds == Spec => MergedGreen
<1>1. GateInv /\ [Next]_vars =>
        [\A r \in Requests :
           At(r, "push") /\ target' # target /\ req'[r].pc = "record" =>
             \/ ~req[r].required \/ req[r].raced
             \/ Green(req[r].src)]_vars
  BY DEF GateInv, GateOK, At, MergeInv, PullTypes, Request
<1> QED
  BY <1>1, GateInit, GateStep, PTL DEF Spec, MergedGreen
=============================================================================

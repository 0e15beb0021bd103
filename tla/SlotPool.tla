------------------------------- MODULE SlotPool ------------------------------
(* What the CI engine promises its jobs: a fixed number of slots, each job *)
(* taken once, and no slot idle while a job waits.                         *)
EXTENDS Integers, FiniteSets

CONSTANTS Jobs, Slots

VARIABLES
  seen,     \* jobs that have been submitted or withdrawn
  waiting,  \* jobs that wait for a slot
  taken     \* jobs that have one

vars == <<seen, waiting, taken>>

Init == seen = {} /\ waiting = {} /\ taken = {}

\* No more jobs than slots, and nobody waits for a free one.
Served ==
  /\ Cardinality(taken) <= Slots
  /\ waiting = {} \/ Cardinality(taken) = Slots

\* Jobs are submitted and withdrawn, give their slots back and get one, in any
\* combination; a job is submitted once, and only a submitted job gets a slot.
Turn ==
  LET submitted == waiting \cup (seen' \ seen) IN
  /\ seen \subseteq seen' /\ seen' \subseteq Jobs
  /\ waiting' \cup (taken' \ taken) \subseteq submitted
  /\ waiting' \cap taken' = {}
  /\ Served'

\* The process restarts.
Restart == seen' = {} /\ waiting' = {} /\ taken' = {}

Next == Turn \/ Restart

Spec == Init /\ [][Next]_vars

=============================================================================

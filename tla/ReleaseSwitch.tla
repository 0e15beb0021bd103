---------------------------- MODULE ReleaseSwitch ----------------------------
(* What a deployment service promises those who call the application: from *)
(* its first release on, there is a serving release, it runs, and it gives *)
(* way only to another one that runs beside it.                            *)
EXTENDS Naturals

CONSTANT Releases

VARIABLES
  serving,  \* the release requests go to; 0 before the first
  up        \* releases that run

vars == <<serving, up>>

Init == serving = 0 /\ up = {}

\* Releases start and end, except the one that serves.
Turnover ==
  /\ up' \subseteq Releases
  /\ serving # 0 => serving \in up'
  /\ UNCHANGED serving

\* Requests go to another release: both run.
Switch(d) ==
  /\ d \in up \ {serving}
  /\ serving # 0 => serving \in up
  /\ serving' = d
  /\ UNCHANGED up

Next == Turnover \/ \E d \in Releases : Switch(d)

Spec == Init /\ [][Next]_vars

=============================================================================

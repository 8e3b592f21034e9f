------------------------------ MODULE ScanRound ------------------------------
(***************************************************************************)
(* What a vehicle application promises with its system scan page, as the   *)
(* rules at the head of ArtiSystem.h tell it: a round of the scan examines *)
(* every system once, in their order; it may be paused and continued where *)
(* it stopped; it finishes only when no system is left; the next round     *)
(* begins with the first system again.  The page may be left.              *)
(***************************************************************************)
EXTENDS Naturals

CONSTANT N     \* how many systems the vehicle has

VARIABLES
  round,       \* "none", "start", "pause", "finish", or "over" once the page is left
  examined     \* how many systems this round has examined

roundVars == <<round, examined>>

RoundOK ==
  /\ round \in {"none", "start", "pause", "finish", "over"}
  /\ examined \in 0 .. N
  /\ round = "finish" => examined = N

Init == round = "none" /\ examined = 0

\* A round that is complete is followed by a new one; a paused one goes on.
Begin ==
  /\ round \in {"none", "pause", "finish"}
  /\ round' = "start"
  /\ examined' = IF examined = N THEN 0 ELSE examined

Examine ==
  /\ round = "start" /\ examined < N
  /\ examined' = examined + 1
  /\ round' = IF examined' = N THEN "finish" ELSE "start"

\* The system under examination when the scan is paused will be examined again.  A
\* pause asked for too late is shown as a pause of the finished round.
Pause ==
  /\ round \in {"start", "finish", "pause"}
  /\ round' = "pause"
  /\ UNCHANGED examined

Leave ==
  /\ round' = "over"
  /\ UNCHANGED examined

Next == Begin \/ Examine \/ Pause \/ Leave

Spec == Init /\ [][Next]_roundVars
=============================================================================

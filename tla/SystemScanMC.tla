---------------------------- MODULE SystemScanMC ----------------------------
(* Instances of SystemScan for TLC, and what is asked of them.             *)
EXTENDS SystemScan, TLC

Vehicle(first, second) ==
  [kind |-> (0 :> first) @@ (1 :> second), reads |-> TRUE, erases |-> TRUE, topvci |-> FALSE]

\* Of each circumstance one: a missing system after and before one with codes, a
\* product that asks before erasing, an entry without each right.
FewCars ==
  { [Vehicle("codes", "absent") EXCEPT !.topvci = TRUE],
    [Vehicle("codes", "absent") EXCEPT !.erases = FALSE],
    [Vehicle("absent", "codes") EXCEPT !.reads = FALSE] }

OneCar == {[Vehicle("codes", "absent") EXCEPT !.topvci = TRUE]}

ReadOnlyCar == {[Vehicle("codes", "plain") EXCEPT !.erases = FALSE]}
-----------------------------------------------------------------------------
(* What the documentation says.                                            *)

\* ArtiSystem.h, rules 7 and 11: all buttons are off until the erasure is reported done.
ClearReported == clearStatus = "start" ~> clearStatus # "start" \/ pc \in Gone

\* Rule 12: the application answers DF_ID_SYS_STOP with a pause at once.
StopPauses ==
  [][phase = "got" /\ phase' = "call" /\ ret = STOP /\ scanStatus = "start"
       => scanStatus' = "pause"]_vars

\* Rule 4: from the start of a scan to its pause or end no button but the pause is
\* available, back among them; so no scan is left through it.
NotLeftScanning == [][scanStatus = "start" => pc' # "dropped"]_vars
=============================================================================

------------------------------- MODULE Dialog -------------------------------
(***************************************************************************)
(* What a blocking show promises the vehicle application, without threads, *)
(* views, queues or timers: it asks on one screen at a time; the user may  *)
(* leave an answer in a screen's box at any moment; a show that ends takes *)
(* what is in its own screen's box, once.  An answer can be discarded      *)
(* before the show has begun to wait, and lost while the previous one is   *)
(* being handed over, but never once the show waits.                       *)
(***************************************************************************)
CONSTANTS Obj, NoObj

VARIABLES
  asking, \* the screen the vehicle application is asking on
  phase,  \* how far the show has come
  box,    \* the screens that hold an answer nobody has taken
  reply   \* what the show hands over: "answer" or "nothing"

dvars == <<asking, phase, box, reply>>

Init ==
  /\ asking = NoObj
  /\ phase = "idle"
  /\ box = {}
  /\ reply = "none"

Ask(o) ==
  /\ phase = "idle"
  /\ phase' = "entering"
  /\ asking' = o
  /\ UNCHANGED <<box, reply>>

Answer(o) ==
  /\ box' = box \cup {o}
  /\ UNCHANGED <<asking, phase, reply>>

Discard(o) ==
  /\ phase \in {"idle", "entering"}
  /\ box' = box \ {o}
  /\ UNCHANGED <<asking, phase, reply>>

Wait ==
  /\ phase = "entering"
  /\ phase' = "waiting"
  /\ UNCHANGED <<asking, box, reply>>

Take ==
  /\ phase = "waiting"
  /\ phase' = "replying"
  /\ reply' = IF asking \in box THEN "answer" ELSE "nothing"
  /\ box' = box \ {asking}
  /\ UNCHANGED asking

Return ==
  /\ phase = "replying"
  /\ phase' = "idle"
  /\ asking' = NoObj
  /\ reply' = "none"
  /\ box' = box \ {asking}

Next == Wait \/ Take \/ Return \/ \E o \in Obj : Ask(o) \/ Answer(o) \/ Discard(o)

Spec == Init /\ [][Next]_dvars
=============================================================================

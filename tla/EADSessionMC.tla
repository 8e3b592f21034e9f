----------------------------- MODULE EADSessionMC -----------------------------
(* Instances of EADSession for TLC, and what is asked of them.             *)
EXTENDS EADSession, TLC

CONSTANTS a1, a2

Symmetry == Permutations(Acc)
-----------------------------------------------------------------------------
(* What documentation says.                                                *)

\* OpenDevice returns true when the remote device is matched and connected.
OpenMeansSession ==
  [][pc["comm"] \in InOpen /\ pc'["comm"] = "ready" => session # NoAcc]_vars
=============================================================================

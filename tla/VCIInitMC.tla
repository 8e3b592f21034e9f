------------------------------ MODULE VCIInitMC ------------------------------
(* Instances of VCIInit for TLC, and what is asked of them.                *)
EXTENDS VCIInit, TLC

CONSTANTS run1, run2

Symmetry == Permutations(Run)
-----------------------------------------------------------------------------
(* What documentation and comments say.                                    *)

\* The bits of failIndex are failures to get the VCI's values.
FailIndexTrue == \A f \in VciValues : Bit[f] \in failIndex => ~value[f]

\* Waiting for the Wi-Fi module to start is given up after a time.
WifiEnds == (wifiInitStatus = "ING" /\ ~mt7628IsReady) ~> (wifiInitStatus # "ING" \/ mt7628IsReady)

\* With more than one run, too, success means that the serial number is known.
SuccessHasSN == initStatus = "SUCCESS" => value["sn"]
=============================================================================

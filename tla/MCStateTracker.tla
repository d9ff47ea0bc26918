--------------------------- MODULE MCStateTracker ---------------------------
(* The tracker alone, with its history, on two keys. *)
EXTENDS TrackerHistory

CONSTANTS k1, k2

MCKeys == {k1, k2}

\* k2 sets threshold 1, which turns its soft fail off.
MCThresholdsOneOff == [k \in MCKeys |-> IF k = k1 THEN 0 ELSE 1]
=============================================================================

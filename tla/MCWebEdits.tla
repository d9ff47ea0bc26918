----------------------------- MODULE MCWebEdits -----------------------------
(* A host, a check with durations and one without, two requests at once. *)
EXTENDS WebEdits

CONSTANTS h1, k1, k2, c1, c2

MCHostIds == {h1}
MCCheckIds == {k1, k2}
MCTimed == {k2}
MCCalls == {c1, c2}
=============================================================================

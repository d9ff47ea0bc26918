---------------------------- MODULE MCWebDetails ----------------------------
(* Two hosts and two alerts, three calls at once. *)
EXTENDS WebDetails

CONSTANTS h1, h2, a1, a2, c1, c2, c3

MCHostIds == {h1, h2}
MCAlertIds == {a1, a2}
MCCalls == {c1, c2, c3}
=============================================================================

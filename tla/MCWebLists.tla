----------------------------- MODULE MCWebLists -----------------------------
(* Two lists, two loads at once, two options to sort by. *)
EXTENDS WebLists

CONSTANTS c1, c2

MCCalls == {c1, c2}
=============================================================================

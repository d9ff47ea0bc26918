---------------------------- MODULE MCCheckTiming ---------------------------
(* One key, with intervals on both sides of every limit of the code. *)
EXTENDS CheckTiming

MCKeys == {Key}
NoThreshold == [k \in MCKeys |-> 0]

\* A third of OK is above the pending floor, WARNING has the default, CRITICAL is as
\* short as a pass, and UNKNOWN is one of those that stop the scheduler.
EveryKind == [c \in ExitCodes |-> CASE c = OK -> 120 [] c = 1 -> 0
                                     [] c = 2 -> 30   [] OTHER -> 5]
=============================================================================

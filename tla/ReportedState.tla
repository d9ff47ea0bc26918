---------------------------- MODULE ReportedState ---------------------------
(***************************************************************************)
(* What the code means soft fail to do for each tracked key, without the   *)
(* tracker's pending state, counter and reset: the reported state follows  *)
(* the run of identical results that ends with the last one.               *)
(*   - an OK result is reported at once;                                   *)
(*   - a non-OK result is reported exactly when the run has reached the    *)
(*     number of results the key needs;                                    *)
(*   - any other result leaves the reported state alone.                   *)
(* docs/SoftFail.md counts non-OK results instead, whether identical or    *)
(* not; FailuresAreReported of TrackerHistory is what it promises, and is  *)
(* violated.                                                               *)
(***************************************************************************)
EXTENDS Naturals

CONSTANTS Keys, ExitCodes,
          Need          \* results a key needs before a non-OK state is reported

VARIABLE board          \* what is reported of each tracked key, and its run

OK == 0

Entry == [state : ExitCodes, need : Nat \ {0}, code : ExitCodes, len : Nat]

\* The run is counted up to need: longer runs are not told apart.
Longer(b) == IF b.len < b.need THEN b.len + 1 ELSE b.len

Extend(b, c) == [state |-> b.state, need |-> b.need, code |-> c,
                 len |-> IF b.len > 0 /\ b.code = c THEN Longer(b) ELSE 1]

Observed(b, c) ==
  LET e == Extend(b, c)
  IN  IF c = OK \/ e.len >= e.need THEN [e EXCEPT !.state = c] ELSE e

Init == board = [k \in {} |-> k]

Fresh(k, b) == b \in Entry /\ b.len = 0 /\ b.need = Need[k]

\* Tracking begins: keys appear with any state and an empty run.
Track ==
  /\ DOMAIN board \subseteq DOMAIN board' /\ DOMAIN board' \subseteq Keys
  /\ \A k \in DOMAIN board' : IF k \in DOMAIN board THEN board'[k] = board[k]
                                                    ELSE Fresh(k, board'[k])
  /\ board' = [k \in DOMAIN board' |-> board'[k]]

Observe(k, c) ==
  /\ k \in DOMAIN board
  /\ board' = [board EXCEPT ![k] = Observed(@, c)]

\* A result of a key nobody tracks is reported as it is, then and ever after.
ObserveUntracked(k, c) ==
  /\ k \notin DOMAIN board
  /\ board' = [x \in DOMAIN board \cup {k} |->
                 IF x = k THEN [state |-> c, need |-> 1, code |-> c, len |-> 1]
                          ELSE board[x]]

\* The process ends: what was tracked is forgotten.
Forget == board' = [k \in {} |-> k]

Next == \/ Track
        \/ \E k \in Keys, c \in ExitCodes : Observe(k, c) \/ ObserveUntracked(k, c)
        \/ Forget

Spec == Init /\ [][Next]_board
=============================================================================

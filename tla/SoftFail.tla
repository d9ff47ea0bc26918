------------------------------ MODULE SoftFail ------------------------------
(***************************************************************************)
(* The pure part of soft fail in internal/monitoring/scheduler.go: the     *)
(* settings of a key, the entry the tracker keeps for it, what one result  *)
(* does to the entry, and the status made of it.                           *)
(*                                                                         *)
(* A key is one (host, check) pair, the string "host:check" of the code.   *)
(*                                                                         *)
(* The definitions called Faulty... are slips a change to the code could   *)
(* make; each breaks a property of a module that extends this one.         *)
(***************************************************************************)
EXTENDS Naturals

CONSTANTS
  Keys,               \* the (host, check) pairs
  ExitCodes,          \* exit codes a result may carry
  CheckThreshold,     \* the threshold field of the check of each key
  DefaultThreshold,   \* monitoring.default_threshold
  SoftFailGlobal      \* monitoring.soft_fail_enabled

OK == 0
Unknown == 3

ASSUME ExitCodesAssumption == ExitCodes \subseteq Nat /\ {OK, Unknown} \subseteq ExitCodes
ASSUME ThresholdAssumption == /\ CheckThreshold \in [Keys -> Nat]
                              /\ DefaultThreshold \in Nat \ {0}
ASSUME SoftFailAssumption == SoftFailGlobal \in BOOLEAN

-----------------------------------------------------------------------------
StateInfo == [CurrentState : ExitCodes, PendingState : ExitCodes,
              ConsecutiveCount : Nat, SoftFailEnabled : BOOLEAN,
              Threshold : Nat \ {0}]

\* soft and of are the n/t of a "SOFT FAIL (n/t)" output, 0 when it has none.
Status == [code : ExitCodes, soft : Nat, of : Nat]

\* Faulty: no fall-back to the default threshold.
FaultyThreshold(k) == CheckThreshold[k]

getThreshold(k) == IF CheckThreshold[k] > 0 THEN CheckThreshold[k] ELSE DefaultThreshold

isSoftFailEnabled(k) == SoftFailGlobal /\ getThreshold(k) > 1

NewInfo(k, s) == [CurrentState |-> s, PendingState |-> s, ConsecutiveCount |-> 0,
                  SoftFailEnabled |-> isSoftFailEnabled(k), Threshold |-> getThreshold(k)]

\* The entry made for a result whose key is not tracked.
UntrackedInfo(c) == [CurrentState |-> c, PendingState |-> c, ConsecutiveCount |-> 1,
                     SoftFailEnabled |-> FALSE, Threshold |-> 1]

\* The entry info with its three changing fields replaced.
With(info, current, pending, count) ==
  [CurrentState |-> current, PendingState |-> pending, ConsecutiveCount |-> count,
   SoftFailEnabled |-> info.SoftFailEnabled, Threshold |-> info.Threshold]

\* Faulty: a different result does not restart the count.
FaultyRestart(info, c) == With(info, info.CurrentState, c, info.ConsecutiveCount + 1)

\* Faulty: a repeated result is not counted.
FaultyCount(info, c) == With(info, info.CurrentState, c, 1)

Counted(info, c) ==
  With(info, info.CurrentState, c,
       IF c = info.PendingState THEN info.ConsecutiveCount + 1 ELSE 1)

\* Faulty: one result too late, one too early, and a recovery that waits as well.
FaultyLate(info, c) == c = OK \/ info.ConsecutiveCount > info.Threshold
FaultyEarly(info, c) == c = OK \/ info.ConsecutiveCount + 1 >= info.Threshold
FaultyRecovery(info, c) == info.ConsecutiveCount >= info.Threshold

\* All three non-OK branches of the code compare the count with the threshold.
ShouldChange(info, c) == c = OK \/ info.ConsecutiveCount >= info.Threshold

\* Faulty: the count is not reset when the state changes.
FaultyReset(info, c) ==
  LET seen == Counted(info, c)
  IN  IF ShouldChange(seen, c) THEN With(seen, c, c, seen.ConsecutiveCount) ELSE seen

SoftFailUpdate(info, c) ==
  LET seen == Counted(info, c)
  IN  IF ShouldChange(seen, c) THEN With(seen, c, c, 1) ELSE seen

Updated(info, c) ==
  IF info.SoftFailEnabled THEN SoftFailUpdate(info, c) ELSE With(info, c, c, 1)

\* Faulty: the raw result is stored, not the reported state.
FaultyStatus(info, c) == [code |-> c, soft |-> 0, of |-> 0]

\* handleResult: the status stored for a result c once the entry is info.
ResultStatus(info, c) ==
  LET soft == info.SoftFailEnabled /\ c # info.CurrentState
  IN  [code |-> info.CurrentState,
       soft |-> IF soft THEN info.ConsecutiveCount ELSE 0,
       of   |-> IF soft THEN info.Threshold ELSE 0]
=============================================================================

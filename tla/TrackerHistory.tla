--------------------------- MODULE TrackerHistory ---------------------------
(***************************************************************************)
(* StateTracker with a history variable: for each tracked key, the raw     *)
(* results seen since its entry was made.  The code keeps no such history; *)
(* it is what promises about consecutive results speak of.                 *)
(***************************************************************************)
EXTENDS StateTracker

VARIABLE run    \* the run of each tracked key

historyVars == <<up, states, statuses, writing, run>>

NeededBy(info) == IF info.SoftFailEnabled THEN info.Threshold ELSE 1

(***************************************************************************)
(* code, len: the identical results that end with the last one, counted up *)
(* to the number needed.  proved: the non-OK codes a full run has          *)
(* confirmed since the last OK result.  failing: the non-OK results, of     *)
(* whatever kinds, that end with the last one, counted up in the same way. *)
(***************************************************************************)
Run == [code : ExitCodes, len : Nat, proved : SUBSET ExitCodes, failing : Nat]

NewRun(s) == [code |-> s, len |-> 0, proved |-> {}, failing |-> 0]

UpTo(n, need) == IF n < need THEN n + 1 ELSE n

Extended(r, c, need) ==
  LET len == IF r.len > 0 /\ r.code = c THEN UpTo(r.len, need) ELSE 1
  IN  [code    |-> c,
       len     |-> len,
       proved  |-> IF c = OK THEN {}
                   ELSE IF len >= need THEN r.proved \cup {c} ELSE r.proved,
       failing |-> IF c = OK THEN 0 ELSE UpTo(r.failing, need)]

Follow == \* entries made by this step start with an empty run
  run' = [k \in DOMAIN states' |->
            IF k \in DOMAIN run THEN run[k] ELSE NewRun(states'[k].CurrentState)]

Observe(k, c) ==
  run' = Put(run, k,
             IF k \in DOMAIN run THEN Extended(run[k], c, NeededBy(states[k]))
                                 ELSE Extended(NewRun(c), c, 1))

HistoryInit == TrackerInit /\ run = EmptyMap

HStart(checked, unread) == Start(checked, unread) /\ Follow
HTrackNew(k) == TrackNew(k) /\ Follow
HApplyResult(k, c) == ApplyResult(k, c) /\ Observe(k, c)
HStoreStatus == StoreStatus /\ UNCHANGED run
HStoreFails == StoreFails /\ UNCHANGED run
HDeleteStatus(k) == DeleteStatus(k) /\ UNCHANGED run
HCrash == Crash /\ run' = EmptyMap

HistoryNext ==
  \/ \E checked \in SUBSET Keys : \E unread \in SUBSET checked : HStart(checked, unread)
  \/ \E k \in Keys : HTrackNew(k)
  \/ \E k \in Keys, c \in ExitCodes : HApplyResult(k, c)
  \/ HStoreStatus
  \/ HStoreFails
  \/ \E k \in Keys : HDeleteStatus(k)
  \/ HCrash

HistorySpec == HistoryInit /\ [][HistoryNext]_historyVars

-----------------------------------------------------------------------------
(* The abstract specification, implemented by this one.                    *)

NeedOf == [k \in Keys |-> NeededBy(NewInfo(k, Unknown))]

Board == [k \in DOMAIN states |->
            [state |-> states[k].CurrentState, need |-> NeededBy(states[k]),
             code |-> run[k].code, len |-> run[k].len]]

Promise == INSTANCE ReportedState WITH board <- Board, Need <- NeedOf

\* Every step of the tracker is a step of ReportedState: the pending state, the
\* counter and its resets report exactly what the run of identical results says,
\* as the comment on ConsecutiveCount has it ("How many consecutive times we've seen
\* the pending state").  It is not what docs/SoftFail.md says: FailuresAreReported.
PromiseSpec == Promise!Spec

-----------------------------------------------------------------------------
(* Properties.                                                             *)

\* The link between the counter of an entry and the run of raw results; it says
\* why the reset to 1 after a confirmation loses nothing.
CounterMatchesRun(info, r) ==
  \/ r.len = 0 /\ info.ConsecutiveCount = 0 /\ info.PendingState = info.CurrentState
  \/ /\ r.len > 0
     /\ r.code = info.PendingState
     /\ info.SoftFailEnabled /\ info.PendingState # info.CurrentState
          => r.len = info.ConsecutiveCount
     /\ info.PendingState = info.CurrentState => info.ConsecutiveCount > 0
     /\ ~info.SoftFailEnabled => info.PendingState = info.CurrentState

CountersMatchRuns ==
  /\ DOMAIN run = DOMAIN states
  /\ \A k \in DOMAIN states : CounterMatchesRun(states[k], run[k])

\* What docs/SoftFail.md promises: a check "requires multiple consecutive non-OK
\* results before changing its reported state", three of them by default, so a key
\* that has failed that often in a row is no longer reported as OK.  The tracker
\* counts identical results, and a check that alternates between WARNING and
\* CRITICAL is reported as OK for as long as it does.
FailuresAreReported ==
  \A k \in DOMAIN states :
    run[k].failing >= NeededBy(states[k]) => states[k].CurrentState # OK

\* What the bucket says of a key turns from OK to WARNING or CRITICAL only after
\* a full run of that result in this process, whatever crashes, failed writes and
\* purges came between: no half-counted failure survives a restart.  (Unknown is
\* left out: an entry made after a failed read starts there.)
NoUnconfirmedAlarm ==
  [][\A k \in DOMAIN statuses :
       ( /\ statuses[k].code = OK
         /\ k \in DOMAIN statuses'
         /\ statuses'[k].code \notin {OK, Unknown} )
       => statuses'[k].code \in run[k].proved]_historyVars
=============================================================================

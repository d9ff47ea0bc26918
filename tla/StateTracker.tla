---------------------------- MODULE StateTracker ----------------------------
(***************************************************************************)
(* The soft-fail tracker of internal/monitoring/scheduler.go and the       *)
(* durable status it feeds.                                                *)
(*                                                                         *)
(* Every raw result of a key passes through updateStateTracker, which      *)
(* decides the state that is reported; handleResult then writes that state *)
(* to the status bucket.  The tracker lives in memory and is rebuilt from  *)
(* the bucket when the scheduler starts; the bucket survives a crash.      *)
(*                                                                         *)
(* Time is not part of this module: LastCheckTime is in Scheduler, and     *)
(* LastStateChange is written by the code but never read.                  *)
(***************************************************************************)
EXTENDS SoftFail

VARIABLES
  up,         \* the scheduler of this process has started
  states,     \* StateTracker.states, a map from the tracked keys
  statuses,   \* the status bucket, a map from the keys that have a status
  writing     \* the status handleResult is about to store: a set, empty or one

trackerVars == <<up, states, statuses, writing>>

-----------------------------------------------------------------------------
\* updateStateTracker: the entry of k after a result with exit code c.
UpdatedEntry(k, c) ==
  IF k \in DOMAIN states THEN Updated(states[k], c) ELSE UntrackedInfo(c)

Put(map, k, v) == [x \in DOMAIN map \cup {k} |-> IF x = k THEN v ELSE map[x]]

Without(map, k) == [x \in DOMAIN map \ {k} |-> map[x]]

-----------------------------------------------------------------------------
(* The steps.                                                              *)

EmptyMap == [k \in {} |-> k]

TrackerInit == /\ up = FALSE
               /\ states = EmptyMap
               /\ statuses = EmptyMap
               /\ writing = {}

(***************************************************************************)
(* Scheduler.Start: initializeStateTracker makes an entry for each key of  *)
(* the checks GetChecks returns (none, when it fails), in the state of its *)
(* stored status.  The error of GetStatus is dropped: the keys of unread   *)
(* start in Unknown as if nothing were stored.                             *)
(***************************************************************************)
Start(checked, unread) ==
  /\ ~up
  /\ up' = TRUE
  /\ states' = [k \in checked |->
                  NewInfo(k, IF k \in DOMAIN statuses \ unread
                             THEN statuses[k].code ELSE Unknown)]
  /\ UNCHANGED <<statuses, writing>>

\* processSchedule meets a key without an entry; the bucket is not consulted.
TrackNew(k) ==
  /\ up
  /\ k \notin DOMAIN states
  /\ states' = Put(states, k, NewInfo(k, Unknown))
  /\ UNCHANGED <<up, statuses, writing>>

\* handleResult up to UpdateStatus, for a result with exit code c of key k.
ApplyResult(k, c) ==
  /\ up
  /\ writing = {}
  /\ states' = Put(states, k, UpdatedEntry(k, c))
  /\ writing' = {[key |-> k, status |-> ResultStatus(UpdatedEntry(k, c), c)]}
  /\ UNCHANGED <<up, statuses>>

StoreStatus ==
  \E w \in writing :
    /\ statuses' = Put(statuses, w.key, w.status)
    /\ writing' = {}
    /\ UNCHANGED <<up, states>>

\* UpdateStatus failed: handleResult returns, the entry stays as updated.
StoreFails ==
  /\ writing # {}
  /\ writing' = {}
  /\ UNCHANGED <<up, states, statuses>>

\* The purge removes the status of a key; it never touches the tracker.
DeleteStatus(k) ==
  /\ k \in DOMAIN statuses
  /\ statuses' = Without(statuses, k)
  /\ UNCHANGED <<up, states, writing>>

\* The process ends, in a crash or on a signal: main never calls Engine.Stop.
Crash ==
  /\ up
  /\ up' = FALSE
  /\ states' = EmptyMap
  /\ writing' = {}
  /\ UNCHANGED statuses

TrackerNext ==
  \/ \E checked \in SUBSET Keys : \E unread \in SUBSET checked : Start(checked, unread)
  \/ \E k \in Keys : TrackNew(k)
  \/ \E k \in Keys, c \in ExitCodes : ApplyResult(k, c)
  \/ StoreStatus
  \/ StoreFails
  \/ \E k \in Keys : DeleteStatus(k)
  \/ Crash

TrackerSpec == TrackerInit /\ [][TrackerNext]_trackerVars

-----------------------------------------------------------------------------
(* Properties.                                                             *)

Write == [key : Keys, status : Status]

\* Type invariant: the two maps are partial functions on Keys, entries and
\* statuses have the fields of StateInfo and Status, at most one write is open.
TrackerTypeOK ==
  /\ up \in BOOLEAN
  /\ DOMAIN states \subseteq Keys /\ states \in [DOMAIN states -> StateInfo]
  /\ DOMAIN statuses \subseteq Keys /\ statuses \in [DOMAIN statuses -> Status]
  /\ writing \subseteq Write /\ \A v, w \in writing : v = w

\* The count of an entry under soft fail stays below its threshold between two
\* results, and an entry waiting for confirmation waits for a non-OK state it has
\* seen at least once: the reset of updateStateTracker leaves no entry that the
\* next single failure would confirm, nor one that waits for an OK.
CountBelowThreshold ==
  \A k \in DOMAIN states : states[k].SoftFailEnabled =>
    /\ states[k].Threshold > 1
    /\ states[k].ConsecutiveCount < states[k].Threshold
    /\ states[k].PendingState # states[k].CurrentState =>
         states[k].PendingState # OK /\ states[k].ConsecutiveCount > 0

\* A "SOFT FAIL (n/t)" output, in the bucket or about to be written, always has
\* 0 < n < t: handleResult reads the count after the reset of updateStateTracker,
\* and a text with n = t or n = 0 would report a failure that is not pending.
SoftFailTextPending ==
  LET Pending(s) == (s.of = 0 /\ s.soft = 0) \/ (0 < s.soft /\ s.soft < s.of)
  IN  /\ \A k \in DOMAIN statuses : Pending(statuses[k])
      /\ \A w \in writing : Pending(w.status)

\* The status about to be stored carries the state the tracker reports for that
\* key, even though handleResult releases the tracker's lock before UpdateStatus.
WriteIsReported ==
  \A w \in writing : /\ w.key \in DOMAIN states
                     /\ w.status.code = states[w.key].CurrentState
=============================================================================

-------------------------- MODULE MonitoringProofs --------------------------
(***************************************************************************)
(* The monitoring engine: the soft-fail tracker, the promise it keeps, and *)
(* the scheduler that implements it, for any keys, exit codes, thresholds, *)
(* workers, queue capacities, intervals and number of steps.               *)
(***************************************************************************)
EXTENDS TrackerHistory, Scheduler, TLAPS, SequenceTheorems

-----------------------------------------------------------------------------
(***************************************************************************)
(* StateTracker.  The inductive invariant is the conjunction of            *)
(* TrackerTypeOK, CountBelowThreshold, SoftFailTextPending and             *)
(* WriteIsReported; the first lemmas follow one entry through one result.  *)
(***************************************************************************)
\* CountBelowThreshold for one entry.
Bounded(info) ==
  info.SoftFailEnabled =>
    /\ info.Threshold > 1
    /\ info.ConsecutiveCount < info.Threshold
    /\ info.PendingState # info.CurrentState =>
         info.PendingState # OK /\ info.ConsecutiveCount > 0

\* SoftFailTextPending for one status.
TextPending(s) == (s.of = 0 /\ s.soft = 0) \/ (0 < s.soft /\ s.soft < s.of)

-----------------------------------------------------------------------------
(* One entry, one result.                                                  *)

\* A key always needs at least one result.
LEMMA ThresholdPositive ==
  ASSUME NEW k \in Keys
  PROVE  getThreshold(k) \in Nat \ {0}
BY ThresholdAssumption DEF getThreshold

\* A new entry is well typed and waits for nothing: soft fail needs a threshold
\* above one, so the count of zero is below it.
LEMMA NewInfoBounded ==
  ASSUME NEW k \in Keys, NEW s \in ExitCodes
  PROVE  NewInfo(k, s) \in StateInfo /\ Bounded(NewInfo(k, s))
<1>1. getThreshold(k) \in Nat \ {0}
  BY ThresholdPositive
<1>2. isSoftFailEnabled(k) \in BOOLEAN
  BY DEF isSoftFailEnabled
<1>3. NewInfo(k, s) \in StateInfo
  BY <1>1, <1>2 DEF NewInfo, StateInfo
<1>4. /\ NewInfo(k, s).CurrentState = NewInfo(k, s).PendingState
      /\ NewInfo(k, s).ConsecutiveCount = 0
      /\ NewInfo(k, s).SoftFailEnabled = isSoftFailEnabled(k)
      /\ NewInfo(k, s).Threshold = getThreshold(k)
  BY DEF NewInfo
<1>5. isSoftFailEnabled(k) => getThreshold(k) > 1
  BY DEF isSoftFailEnabled
<1>6. Bounded(NewInfo(k, s))
  BY <1>1, <1>4, <1>5 DEF Bounded
<1> QED BY <1>3, <1>6

LEMMA UntrackedInfoBounded ==
  ASSUME NEW c \in ExitCodes
  PROVE  /\ UntrackedInfo(c) \in StateInfo /\ Bounded(UntrackedInfo(c))
         /\ UntrackedInfo(c).PendingState = c
BY DEF UntrackedInfo, StateInfo, Bounded

\* One result keeps an entry well typed, makes its code the pending state and leaves
\* the count below the threshold: a count that reaches it is reported and reset.
LEMMA UpdatedBounded ==
  ASSUME NEW info \in StateInfo, Bounded(info), NEW c \in ExitCodes
  PROVE  /\ Updated(info, c) \in StateInfo /\ Bounded(Updated(info, c))
         /\ Updated(info, c).PendingState = c
<1> DEFINE n == IF c = info.PendingState THEN info.ConsecutiveCount + 1 ELSE 1
           seen == With(info, info.CurrentState, c, n)
<1>1. /\ info.CurrentState \in ExitCodes /\ info.PendingState \in ExitCodes
      /\ info.SoftFailEnabled \in BOOLEAN /\ info.Threshold \in Nat
      /\ n \in Nat /\ n > 0
  BY DEF StateInfo
<1> HIDE DEF n
<1>2. CASE ~info.SoftFailEnabled
  <2>1. Updated(info, c) = With(info, c, c, 1)
    BY <1>2 DEF Updated
  <2> QED BY <1>1, <1>2, <2>1 DEF Bounded, With, StateInfo
<1>3. CASE info.SoftFailEnabled
  <2>1. info.Threshold > 1
    BY <1>3 DEF Bounded
  <2>2. /\ seen \in StateInfo
        /\ seen.CurrentState = info.CurrentState /\ seen.PendingState = c
        /\ seen.ConsecutiveCount = n /\ seen.Threshold = info.Threshold
        /\ seen.SoftFailEnabled = info.SoftFailEnabled
    BY <1>1 DEF With, StateInfo
  <2>3. Updated(info, c) = IF ShouldChange(seen, c) THEN With(seen, c, c, 1) ELSE seen
    BY <1>3 DEF Updated, SoftFailUpdate, Counted, n
  <2> HIDE DEF seen
  <2>4. CASE ShouldChange(seen, c)
    <3>1. Updated(info, c) = With(seen, c, c, 1)
      BY <2>3, <2>4
    <3> QED BY <1>1, <2>1, <2>2, <3>1 DEF Bounded, With, StateInfo
  <2>5. CASE ~ShouldChange(seen, c)
    BY <1>1, <2>1, <2>2, <2>3, <2>5 DEF Bounded, ShouldChange
  <2> QED BY <2>4, <2>5
<1> QED BY <1>1, <1>2, <1>3
\* The status made of an updated entry: it carries the reported state, and its
\* SOFT FAIL text, if any, counts a failure that is still pending.
LEMMA ResultStatusPending ==
  ASSUME NEW info \in StateInfo, Bounded(info), NEW c \in ExitCodes,
         info.PendingState = c
  PROVE  /\ ResultStatus(info, c) \in Status
         /\ ResultStatus(info, c).code = info.CurrentState
         /\ TextPending(ResultStatus(info, c))
<1>1. /\ info.CurrentState \in ExitCodes
      /\ info.ConsecutiveCount \in Nat /\ info.Threshold \in Nat
  BY DEF StateInfo
<1>2. CASE info.SoftFailEnabled /\ c # info.CurrentState
  <2>1. ResultStatus(info, c) = [code |-> info.CurrentState,
                                 soft |-> info.ConsecutiveCount, of |-> info.Threshold]
    BY <1>2 DEF ResultStatus
  <2>2. 0 < info.ConsecutiveCount /\ info.ConsecutiveCount < info.Threshold
    BY <1>1, <1>2 DEF Bounded
  <2> QED BY <1>1, <2>1, <2>2 DEF Status, TextPending
<1>3. CASE ~(info.SoftFailEnabled /\ c # info.CurrentState)
  <2>1. ResultStatus(info, c) = [code |-> info.CurrentState, soft |-> 0, of |-> 0]
    BY <1>3 DEF ResultStatus
  <2> QED BY <1>1, <2>1 DEF Status, TextPending
<1> QED BY <1>2, <1>3

-----------------------------------------------------------------------------
(* The inductive invariant.                                                *)

\* Nothing is tracked and nothing is being written while the scheduler is down.
QuietWhenDown == ~up => writing = {} /\ DOMAIN states = {}

TrackerInv == /\ TrackerTypeOK
              /\ CountBelowThreshold
              /\ SoftFailTextPending
              /\ WriteIsReported
              /\ QuietWhenDown

LEMMA TrackerInvInit == TrackerInit => TrackerInv
BY DEF TrackerInit, TrackerInv, TrackerTypeOK, CountBelowThreshold, SoftFailTextPending,
       WriteIsReported, QuietWhenDown, EmptyMap

\* The result of a key: every conjunct depends on the entry it leaves.
LEMMA EntryAfterResult ==
  ASSUME TrackerInv, NEW k \in Keys, NEW c \in ExitCodes
  PROVE  /\ UpdatedEntry(k, c) \in StateInfo
         /\ Bounded(UpdatedEntry(k, c))
         /\ UpdatedEntry(k, c).PendingState = c
<1>1. CASE k \in DOMAIN states
  <2>1. states[k] \in StateInfo /\ Bounded(states[k])
    BY <1>1 DEF TrackerInv, TrackerTypeOK, CountBelowThreshold, Bounded
  <2> QED BY <1>1, <2>1, UpdatedBounded DEF UpdatedEntry
<1>2. CASE k \notin DOMAIN states
  BY <1>2, UntrackedInfoBounded DEF UpdatedEntry
<1> QED BY <1>1, <1>2
LEMMA TrackerInvStep ==
  ASSUME TrackerInv, [TrackerNext]_trackerVars
  PROVE  TrackerInv'
<1> USE DEF TrackerInv
<1>1. ASSUME NEW checked \in SUBSET Keys, NEW unread \in SUBSET checked,
             Start(checked, unread)
      PROVE  TrackerInv'
  <2> DEFINE seed(k) == IF k \in DOMAIN statuses \ unread
                        THEN statuses[k].code ELSE Unknown
  <2>1. /\ states' = [k \in checked |-> NewInfo(k, seed(k))]
        /\ up' = TRUE /\ statuses' = statuses /\ writing' = writing /\ writing = {}
    BY <1>1 DEF Start, QuietWhenDown
  <2>2. \A k \in checked : seed(k) \in ExitCodes
    BY ExitCodesAssumption DEF TrackerTypeOK, Status
  <2> HIDE DEF seed
  <2>3. \A k \in checked : NewInfo(k, seed(k)) \in StateInfo /\ Bounded(NewInfo(k, seed(k)))
    BY <2>2, NewInfoBounded
  <2>4. TrackerTypeOK'
    BY <2>1, <2>3 DEF TrackerTypeOK
  <2>5. CountBelowThreshold'
    BY <2>1, <2>3 DEF CountBelowThreshold, Bounded
  <2> QED BY <2>1, <2>4, <2>5 DEF SoftFailTextPending, WriteIsReported, QuietWhenDown
<1>2. ASSUME NEW k \in Keys, TrackNew(k)
      PROVE  TrackerInv'
  <2>1. /\ states' = Put(states, k, NewInfo(k, Unknown)) /\ k \notin DOMAIN states
        /\ up /\ up' = up /\ statuses' = statuses /\ writing' = writing
    BY <1>2 DEF TrackNew
  <2>2. NewInfo(k, Unknown) \in StateInfo /\ Bounded(NewInfo(k, Unknown))
    BY NewInfoBounded, ExitCodesAssumption
  <2>3. /\ DOMAIN states' = DOMAIN states \cup {k}
        /\ states' \in [DOMAIN states' -> StateInfo]
        /\ states'[k] = NewInfo(k, Unknown)
        /\ \A x \in DOMAIN states : states'[x] = states[x]
    BY <2>1, <2>2 DEF TrackerTypeOK, Put
  <2>4. TrackerTypeOK'
    BY <2>1, <2>3 DEF TrackerTypeOK
  <2>5. CountBelowThreshold'
    BY <2>2, <2>3 DEF CountBelowThreshold, Bounded
  <2>6. WriteIsReported'
    BY <2>1, <2>3 DEF WriteIsReported
  <2> QED BY <2>1, <2>4, <2>5, <2>6 DEF SoftFailTextPending, QuietWhenDown
<1>3. ASSUME NEW k \in Keys, NEW c \in ExitCodes, ApplyResult(k, c)
      PROVE  TrackerInv'
  <2> DEFINE info == UpdatedEntry(k, c)
             w == [key |-> k, status |-> ResultStatus(info, c)]
  <2>1. /\ states' = Put(states, k, info) /\ writing' = {w}
        /\ up /\ up' = up /\ statuses' = statuses
    BY <1>3 DEF ApplyResult
  <2>2. info \in StateInfo /\ Bounded(info) /\ info.PendingState = c
    BY EntryAfterResult
  <2> HIDE DEF info
  <2>3. /\ ResultStatus(info, c) \in Status
        /\ ResultStatus(info, c).code = info.CurrentState
        /\ TextPending(ResultStatus(info, c))
    BY <2>2, ResultStatusPending
  <2>4. /\ DOMAIN states' = DOMAIN states \cup {k}
        /\ states' \in [DOMAIN states' -> StateInfo]
        /\ states'[k] = info
        /\ \A x \in DOMAIN states : x # k => states'[x] = states[x]
    BY <2>1, <2>2 DEF TrackerTypeOK, Put
  <2>5. TrackerTypeOK'
    BY <2>1, <2>3, <2>4 DEF TrackerTypeOK, Write
  <2>6. CountBelowThreshold'
    BY <2>2, <2>4 DEF CountBelowThreshold, Bounded
  <2>7. SoftFailTextPending'
    BY <2>1, <2>3 DEF SoftFailTextPending, TextPending
  <2>8. WriteIsReported'
    BY <2>1, <2>3, <2>4 DEF WriteIsReported
  <2> QED BY <2>1, <2>5, <2>6, <2>7, <2>8 DEF QuietWhenDown
<1>4. ASSUME StoreStatus
      PROVE  TrackerInv'
  <2>1. PICK w \in writing : /\ statuses' = Put(statuses, w.key, w.status)
                             /\ writing' = {} /\ up' = up /\ states' = states
    BY <1>4 DEF StoreStatus
  <2>2. w.key \in Keys /\ w.status \in Status
    BY DEF TrackerTypeOK, Write
  <2>3. /\ DOMAIN statuses' = DOMAIN statuses \cup {w.key}
        /\ statuses' \in [DOMAIN statuses' -> Status]
        /\ statuses'[w.key] = w.status
        /\ \A x \in DOMAIN statuses : x # w.key => statuses'[x] = statuses[x]
    BY <2>1, <2>2 DEF TrackerTypeOK, Put
  <2>4. TrackerTypeOK'
    BY <2>1, <2>2, <2>3 DEF TrackerTypeOK
  <2>5. SoftFailTextPending'
    BY <2>1, <2>3 DEF SoftFailTextPending
  <2> QED BY <2>1, <2>4, <2>5 DEF CountBelowThreshold, WriteIsReported, QuietWhenDown
<1>5. ASSUME StoreFails
      PROVE  TrackerInv'
  BY <1>5 DEF StoreFails, TrackerTypeOK, CountBelowThreshold, SoftFailTextPending,
              WriteIsReported, QuietWhenDown
<1>6. ASSUME NEW k \in Keys, DeleteStatus(k)
      PROVE  TrackerInv'
  BY <1>6 DEF DeleteStatus, Without, TrackerTypeOK, CountBelowThreshold,
              SoftFailTextPending, WriteIsReported, QuietWhenDown
<1>7. ASSUME Crash
      PROVE  TrackerInv'
  BY <1>7 DEF Crash, EmptyMap, TrackerTypeOK, CountBelowThreshold,
              SoftFailTextPending, WriteIsReported, QuietWhenDown
<1>8. ASSUME UNCHANGED trackerVars
      PROVE  TrackerInv'
  BY <1>8 DEF trackerVars, TrackerTypeOK, CountBelowThreshold, SoftFailTextPending,
              WriteIsReported, QuietWhenDown
<1> QED BY <1>1, <1>2, <1>3, <1>4, <1>5, <1>6, <1>7, <1>8 DEF TrackerNext

-----------------------------------------------------------------------------
(* The theorems.                                                           *)

LEMMA TrackerInvariant == TrackerSpec => []TrackerInv
BY TrackerInvInit, TrackerInvStep, PTL DEF TrackerSpec

\* The maps and the open write of the tracker are well typed in every behaviour.
THEOREM TrackerTypeCorrect == TrackerSpec => []TrackerTypeOK
BY TrackerInvariant, PTL DEF TrackerInv

\* updateStateTracker never leaves a count at its threshold, whatever the results,
\* restarts, failed writes and purges.
THEOREM CountsStayBelowThreshold == TrackerSpec => []CountBelowThreshold
BY TrackerInvariant, PTL DEF TrackerInv

\* Every SOFT FAIL text handleResult stores counts a failure that is still pending.
THEOREM SoftFailTextsArePending == TrackerSpec => []SoftFailTextPending
BY TrackerInvariant, PTL DEF TrackerInv

\* The status handleResult is about to store is the state the tracker reports.
THEOREM WritesAreReported == TrackerSpec => []WriteIsReported
BY TrackerInvariant, PTL DEF TrackerInv

-----------------------------------------------------------------------------
(***************************************************************************)
(* TrackerHistory.  The tracker implements ReportedState, and never stores *)
(* an unconfirmed alarm.                                                   *)
(***************************************************************************)

(* One entry, its run, one result.                                         *)

\* What ReportedState says of one result: the state reported after it.
Promised(info, q, c) ==
  IF c = OK \/ q.len >= NeededBy(info) THEN c ELSE info.CurrentState

LEMMA ExtendedFields ==
  ASSUME NEW r \in Run, NEW c \in ExitCodes, NEW need \in Nat \ {0}
  PROVE  LET q == Extended(r, c, need)
         IN  /\ q \in Run
             /\ q.code = c
             /\ q.len = IF r.len > 0 /\ r.code = c THEN UpTo(r.len, need) ELSE 1
             /\ q.len > 0
             /\ c # OK => r.proved \subseteq q.proved
             /\ c # OK /\ q.len >= need => c \in q.proved
BY DEF Extended, UpTo, Run

\* The heart of the refinement.  While an entry waits for confirmation its count is
\* the length of the run; once it reports the run's state the two may differ, but
\* then both say the same thing.
LEMMA EntryFollowsRun ==
  ASSUME NEW info \in StateInfo, Bounded(info), NEW r \in Run,
         CounterMatchesRun(info, r), NEW c \in ExitCodes
  PROVE  LET e == Updated(info, c)
             q == Extended(r, c, NeededBy(info))
         IN  /\ NeededBy(info) \in Nat \ {0}
             /\ CounterMatchesRun(e, q)
             /\ NeededBy(e) = NeededBy(info)
             /\ e.CurrentState = Promised(info, q, c)
<1> DEFINE q == Extended(r, c, NeededBy(info))
           n == IF c = info.PendingState THEN info.ConsecutiveCount + 1 ELSE 1
           seen == With(info, info.CurrentState, c, n)
<1>1. /\ info.CurrentState \in ExitCodes /\ info.PendingState \in ExitCodes
      /\ info.ConsecutiveCount \in Nat /\ info.Threshold \in Nat \ {0}
      /\ r.len \in Nat
  BY DEF StateInfo, Run
<1>2. NeededBy(info) \in Nat \ {0}
  BY <1>1 DEF NeededBy
<1>3. /\ q \in Run /\ q.code = c /\ q.len > 0
      /\ q.len = IF r.len > 0 /\ r.code = c THEN UpTo(r.len, NeededBy(info)) ELSE 1
  BY <1>2, ExtendedFields
<1>4. q.len \in Nat
  BY <1>3 DEF Run
<1> HIDE DEF q
<1>5. CASE ~info.SoftFailEnabled
  <2>1. Updated(info, c) = With(info, c, c, 1)
    BY <1>5 DEF Updated
  <2>2. NeededBy(info) = 1 /\ NeededBy(With(info, c, c, 1)) = 1
    BY <1>5 DEF NeededBy, With
  <2>3. CounterMatchesRun(With(info, c, c, 1), q)
    BY <1>3, <1>4, <1>5 DEF CounterMatchesRun, With
  <2>4. With(info, c, c, 1).CurrentState = Promised(info, q, c)
    BY <1>3, <1>4, <2>2 DEF Promised, With
  <2> QED BY <1>2, <2>1, <2>2, <2>3, <2>4 DEF q
<1>6. CASE info.SoftFailEnabled
  <2>1. /\ NeededBy(info) = info.Threshold
        /\ NeededBy(seen) = info.Threshold
        /\ NeededBy(With(seen, c, c, 1)) = info.Threshold
    BY <1>6 DEF NeededBy, With
  <2>2. info.Threshold > 1 /\ info.ConsecutiveCount < info.Threshold
    BY <1>6 DEF Bounded
  <2>3. Updated(info, c) = IF ShouldChange(seen, c) THEN With(seen, c, c, 1) ELSE seen
    BY <1>6 DEF Updated, SoftFailUpdate, Counted
  <2>4. ShouldChange(seen, c) <=> c = OK \/ n >= info.Threshold
    BY DEF ShouldChange, With
  <2>5. n \in Nat /\ n > 0
    BY <1>1
  \* The count and the run agree whenever the entry is not already reporting c.
  <2>6. c = info.CurrentState \/ n = q.len
    BY <1>1, <1>3, <1>6, <2>1, <2>2 DEF CounterMatchesRun, UpTo
  <2> HIDE DEF n
  <2>7. CASE ShouldChange(seen, c)
    <3>1. CounterMatchesRun(With(seen, c, c, 1), q)
      BY <1>3, <1>4, <1>6 DEF CounterMatchesRun, With
    <3>2. With(seen, c, c, 1).CurrentState = Promised(info, q, c)
      BY <1>4, <2>1, <2>4, <2>6, <2>7 DEF Promised, With
    <3> QED BY <1>2, <2>1, <2>3, <2>7, <3>1, <3>2 DEF q
  <2>8. CASE ~ShouldChange(seen, c)
    <3>1. CounterMatchesRun(seen, q)
      BY <1>3, <1>4, <1>6, <2>5, <2>6 DEF CounterMatchesRun, With
    <3>2. seen.CurrentState = Promised(info, q, c)
      BY <1>4, <2>1, <2>4, <2>6, <2>8 DEF Promised, With
    <3> QED BY <1>2, <2>1, <2>3, <2>8, <3>1, <3>2 DEF q
  <2> QED BY <2>7, <2>8
<1> QED BY <1>5, <1>6
-----------------------------------------------------------------------------
(* The inductive invariant.                                                *)

RunTypeOK == run \in [DOMAIN run -> Run]

\* Where the bucket says OK, the tracker reports WARNING or CRITICAL only after a
\* full run of it: the entry was made in OK or Unknown, or has passed through OK.
AlarmProved ==
  \A k \in DOMAIN statuses \cap DOMAIN states :
    statuses[k].code = OK /\ states[k].CurrentState \notin {OK, Unknown}
      => states[k].CurrentState \in run[k].proved

HistoryInv == /\ TrackerInv
              /\ RunTypeOK
              /\ CountersMatchRuns
              /\ AlarmProved

LEMMA HistoryInvInit == HistoryInit => HistoryInv
<1> SUFFICES ASSUME HistoryInit
             PROVE  HistoryInv
  OBVIOUS
<1>1. TrackerInv
  BY TrackerInvInit DEF HistoryInit
<1> QED BY <1>1 DEF HistoryInv, HistoryInit, TrackerInit, EmptyMap, RunTypeOK,
                    CountersMatchRuns, AlarmProved

\* A new entry starts with an empty run, which its counter of zero matches.
LEMMA NewRunMatches ==
  ASSUME NEW k \in Keys, NEW s \in ExitCodes
  PROVE  /\ NewRun(NewInfo(k, s).CurrentState) \in Run
         /\ CounterMatchesRun(NewInfo(k, s), NewRun(NewInfo(k, s).CurrentState))
BY DEF NewRun, Run, NewInfo, CounterMatchesRun

\* The same for an entry made by a result of an untracked key.
LEMMA UntrackedRunMatches ==
  ASSUME NEW c \in ExitCodes
  PROVE  /\ Extended(NewRun(c), c, 1) \in Run
         /\ CounterMatchesRun(UntrackedInfo(c), Extended(NewRun(c), c, 1))
         /\ c # OK => c \in Extended(NewRun(c), c, 1).proved
BY DEF Extended, NewRun, UntrackedInfo, CounterMatchesRun, Run, UpTo

\* What a result of k leaves: its entry, its run, and everything else alone.
LEMMA AfterResult ==
  ASSUME HistoryInv, NEW k \in Keys, NEW c \in ExitCodes, HApplyResult(k, c)
  PROVE  /\ statuses' = statuses
         /\ DOMAIN states' = DOMAIN states \cup {k} /\ DOMAIN run' = DOMAIN states'
         /\ \A x \in DOMAIN states : x # k => states'[x] = states[x] /\ run'[x] = run[x]
         /\ k \in DOMAIN states =>
              /\ states'[k] = Updated(states[k], c)
              /\ run'[k] = Extended(run[k], c, NeededBy(states[k]))
         /\ k \notin DOMAIN states =>
              /\ states'[k] = UntrackedInfo(c)
              /\ run'[k] = Extended(NewRun(c), c, 1)
         /\ RunTypeOK' /\ CounterMatchesRun(states'[k], run'[k])
         /\ states'[k].CurrentState # OK =>
              \/ states'[k].CurrentState \in run'[k].proved
              \/ /\ k \in DOMAIN states
                 /\ states'[k].CurrentState = states[k].CurrentState
                 /\ run[k].proved \subseteq run'[k].proved
<1>1. DOMAIN run = DOMAIN states /\ run \in [DOMAIN run -> Run]
  BY DEF HistoryInv, CountersMatchRuns, RunTypeOK
<1>2. /\ statuses' = statuses
      /\ DOMAIN states' = DOMAIN states \cup {k} /\ DOMAIN run' = DOMAIN states'
      /\ \A x \in DOMAIN states : x # k => states'[x] = states[x] /\ run'[x] = run[x]
      /\ states'[k] = UpdatedEntry(k, c)
      /\ run'[k] = IF k \in DOMAIN run THEN Extended(run[k], c, NeededBy(states[k]))
                                       ELSE Extended(NewRun(c), c, 1)
      /\ run' = [x \in DOMAIN run \cup {k} |-> IF x = k THEN run'[k] ELSE run[x]]
  BY <1>1 DEF HApplyResult, ApplyResult, Observe, Put
<1>3. CASE k \in DOMAIN states
  <2>1. /\ states[k] \in StateInfo /\ Bounded(states[k])
        /\ run[k] \in Run /\ CounterMatchesRun(states[k], run[k])
    BY <1>1, <1>3 DEF HistoryInv, TrackerInv, TrackerTypeOK, CountBelowThreshold, Bounded,
                      CountersMatchRuns
  <2> DEFINE need == NeededBy(states[k])
             q == Extended(run[k], c, need)
             e == Updated(states[k], c)
  <2>2. /\ states'[k] = e /\ run'[k] = q
    BY <1>1, <1>2, <1>3 DEF UpdatedEntry
  <2>3. /\ need \in Nat \ {0} /\ CounterMatchesRun(e, q)
        /\ e.CurrentState = Promised(states[k], q, c)
    BY <2>1, EntryFollowsRun
  <2>4. /\ q \in Run
        /\ c # OK => run[k].proved \subseteq q.proved
        /\ c # OK /\ q.len >= need => c \in q.proved
    BY <2>1, <2>3, ExtendedFields
  <2>5. RunTypeOK'
    BY <1>1, <1>2, <2>2, <2>4 DEF RunTypeOK
  <2>6. e.CurrentState # OK =>
          \/ e.CurrentState \in q.proved
          \/ /\ e.CurrentState = states[k].CurrentState
             /\ run[k].proved \subseteq q.proved
    <3> HIDE DEF e, q
    <3> QED BY <2>3, <2>4 DEF Promised
  <2>7. CounterMatchesRun(states'[k], run'[k])
    BY <2>2, <2>3
  <2>8. states'[k].CurrentState # OK =>
          \/ states'[k].CurrentState \in run'[k].proved
          \/ /\ states'[k].CurrentState = states[k].CurrentState
             /\ run[k].proved \subseteq run'[k].proved
    BY <2>2, <2>6
  <2>9. /\ states'[k] = Updated(states[k], c)
        /\ run'[k] = Extended(run[k], c, NeededBy(states[k]))
    BY <2>2
  <2> HIDE DEF e, q, need
  <2> QED BY <1>2, <1>3, <2>5, <2>7, <2>8, <2>9
<1>4. CASE k \notin DOMAIN states
  <2>1. states'[k] = UntrackedInfo(c) /\ run'[k] = Extended(NewRun(c), c, 1)
    BY <1>1, <1>2, <1>4 DEF UpdatedEntry
  <2>2. RunTypeOK'
    BY <1>1, <1>2, <2>1, UntrackedRunMatches DEF RunTypeOK
  <2>3. states'[k].CurrentState = c
    BY <2>1 DEF UntrackedInfo
  <2>4. CounterMatchesRun(states'[k], run'[k])
    BY <2>1, UntrackedRunMatches
  <2>5. states'[k].CurrentState # OK => states'[k].CurrentState \in run'[k].proved
    BY <2>1, <2>3, UntrackedRunMatches
  <2> QED BY <1>2, <1>4, <2>1, <2>2, <2>4, <2>5
<1> QED BY <1>3, <1>4
\* Every step of the history is a step of the tracker.
LEMMA HistoryStepsTracker ==
  ASSUME [HistoryNext]_historyVars
  PROVE  [TrackerNext]_trackerVars
BY DEF HistoryNext, historyVars, TrackerNext, trackerVars, HStart, HTrackNew,
       HApplyResult, HStoreStatus, HStoreFails, HDeleteStatus, HCrash

LEMMA HistoryInvStep ==
  ASSUME HistoryInv, [HistoryNext]_historyVars
  PROVE  HistoryInv'
<1>1. TrackerInv'
  BY TrackerInvStep, HistoryStepsTracker DEF HistoryInv
<1>2. DOMAIN run = DOMAIN states /\ run \in [DOMAIN run -> Run]
  BY DEF HistoryInv, CountersMatchRuns, RunTypeOK
<1>3. ASSUME NEW checked \in SUBSET Keys, NEW unread \in SUBSET checked,
             HStart(checked, unread)
      PROVE  RunTypeOK' /\ CountersMatchRuns' /\ AlarmProved'
  <2> DEFINE seed(k) == IF k \in DOMAIN statuses \ unread
                        THEN statuses[k].code ELSE Unknown
  <2>1. /\ states' = [k \in checked |-> NewInfo(k, seed(k))]
        /\ statuses' = statuses /\ ~up
        /\ run' = [k \in checked |-> IF k \in DOMAIN run THEN run[k]
                                     ELSE NewRun(states'[k].CurrentState)]
    BY <1>3 DEF HStart, Start, Follow
  <2>2. \A k \in checked : seed(k) \in ExitCodes
    BY ExitCodesAssumption DEF HistoryInv, TrackerInv, TrackerTypeOK, Status
  <2>3. DOMAIN states = {}
    BY <2>1 DEF HistoryInv, TrackerInv, QuietWhenDown
  <2>4. \A k \in checked : /\ states'[k] = NewInfo(k, seed(k))
                           /\ run'[k] = NewRun(NewInfo(k, seed(k)).CurrentState)
    BY <1>2, <2>1, <2>3
  <2>5. \A k \in checked : states'[k].CurrentState = seed(k)
    <3> HIDE DEF seed
    <3>1. \A k \in checked : NewInfo(k, seed(k)).CurrentState = seed(k)
      BY DEF NewInfo
    <3> QED BY <2>4, <3>1
  <2>6. RunTypeOK' /\ CountersMatchRuns'
    <3> HIDE DEF seed
    <3> QED BY <2>1, <2>2, <2>4, NewRunMatches DEF RunTypeOK, CountersMatchRuns
  <2>7. AlarmProved'
    BY <2>1, <2>5 DEF AlarmProved
  <2> QED BY <2>6, <2>7
<1>4. ASSUME NEW k \in Keys, HTrackNew(k)
      PROVE  RunTypeOK' /\ CountersMatchRuns' /\ AlarmProved'
  <2>1. /\ statuses' = statuses /\ k \notin DOMAIN states
        /\ DOMAIN states' = DOMAIN states \cup {k} /\ DOMAIN run' = DOMAIN states'
        /\ \A x \in DOMAIN states : states'[x] = states[x] /\ run'[x] = run[x]
        /\ states'[k] = NewInfo(k, Unknown)
        /\ run'[k] = NewRun(NewInfo(k, Unknown).CurrentState)
        /\ run' = [x \in DOMAIN run' |-> run'[x]]
    BY <1>2, <1>4 DEF HTrackNew, TrackNew, Follow, Put
  <2>2. RunTypeOK'
    BY <1>2, <2>1, NewRunMatches, ExitCodesAssumption DEF RunTypeOK
  <2>3. CountersMatchRuns'
    BY <2>1, NewRunMatches, ExitCodesAssumption DEF CountersMatchRuns, HistoryInv
  <2>4. states'[k].CurrentState = Unknown
    BY <2>1 DEF NewInfo
  <2>5. AlarmProved'
    BY <2>1, <2>4 DEF AlarmProved, HistoryInv
  <2> QED BY <2>2, <2>3, <2>5
<1>5. ASSUME NEW k \in Keys, NEW c \in ExitCodes, HApplyResult(k, c)
      PROVE  RunTypeOK' /\ CountersMatchRuns' /\ AlarmProved'
  <2>1. CountersMatchRuns'
    BY <1>5, AfterResult DEF HistoryInv, CountersMatchRuns
  <2>2. ASSUME NEW x \in DOMAIN statuses' \cap DOMAIN states', statuses'[x].code = OK,
               states'[x].CurrentState \notin {OK, Unknown}
        PROVE  states'[x].CurrentState \in run'[x].proved
    <3>1. CASE x = k
      <4>1. CASE states'[k].CurrentState \in run'[k].proved
        BY <3>1, <4>1
      <4>2. CASE /\ k \in DOMAIN states
                 /\ states'[k].CurrentState = states[k].CurrentState
                 /\ run[k].proved \subseteq run'[k].proved
        BY <1>5, <2>2, <3>1, <4>2, AfterResult DEF HistoryInv, AlarmProved
      <4> QED BY <1>5, <2>2, <3>1, <4>1, <4>2, AfterResult
    <3>2. CASE x # k
      BY <1>5, <2>2, <3>2, AfterResult DEF HistoryInv, AlarmProved
    <3> QED BY <3>1, <3>2
  <2>3. AlarmProved'
    BY <2>2 DEF AlarmProved
  <2> QED BY <1>5, <2>1, <2>3, AfterResult
<1>6. ASSUME HStoreStatus
      PROVE  RunTypeOK' /\ CountersMatchRuns' /\ AlarmProved'
  <2>1. PICK w \in writing : /\ statuses' = Put(statuses, w.key, w.status)
                             /\ states' = states /\ run' = run
    BY <1>6 DEF HStoreStatus, StoreStatus
  <2>2. w.status.code = states[w.key].CurrentState
    BY DEF HistoryInv, TrackerInv, WriteIsReported
  <2>3. /\ DOMAIN statuses' = DOMAIN statuses \cup {w.key}
        /\ statuses'[w.key] = w.status
        /\ \A x \in DOMAIN statuses : x # w.key => statuses'[x] = statuses[x]
    BY <2>1 DEF Put
  <2>4. AlarmProved'
    BY <2>1, <2>2, <2>3 DEF AlarmProved, HistoryInv
  <2> QED BY <2>1, <2>4 DEF HistoryInv, RunTypeOK, CountersMatchRuns
<1>7. ASSUME HStoreFails
      PROVE  RunTypeOK' /\ CountersMatchRuns' /\ AlarmProved'
  BY <1>7 DEF HStoreFails, StoreFails, HistoryInv, RunTypeOK, CountersMatchRuns, AlarmProved
<1>8. ASSUME NEW k \in Keys, HDeleteStatus(k)
      PROVE  RunTypeOK' /\ CountersMatchRuns' /\ AlarmProved'
  BY <1>8 DEF HDeleteStatus, DeleteStatus, Without, HistoryInv, RunTypeOK,
              CountersMatchRuns, AlarmProved
<1>9. ASSUME HCrash
      PROVE  RunTypeOK' /\ CountersMatchRuns' /\ AlarmProved'
  BY <1>9 DEF HCrash, Crash, EmptyMap, RunTypeOK, CountersMatchRuns, AlarmProved
<1>10. ASSUME UNCHANGED historyVars
       PROVE  RunTypeOK' /\ CountersMatchRuns' /\ AlarmProved'
  BY <1>10 DEF historyVars, HistoryInv, RunTypeOK, CountersMatchRuns, AlarmProved
<1> QED BY <1>1, <1>3, <1>4, <1>5, <1>6, <1>7, <1>8, <1>9, <1>10 DEF HistoryNext, HistoryInv
-----------------------------------------------------------------------------
(* The refinement.                                                         *)

\* A record of Board, with the fields it is built from.
LEMMA BoardEntry ==
  ASSUME NEW k \in DOMAIN states
  PROVE  /\ Board[k] = [state |-> states[k].CurrentState, need |-> NeededBy(states[k]),
                        code |-> run[k].code, len |-> run[k].len]
         /\ DOMAIN Board = DOMAIN states
BY DEF Board

LEMMA InitRefines == HistoryInit => Promise!Init
BY DEF HistoryInit, TrackerInit, EmptyMap, Promise!Init, Board

\* New entries appear on the board with an empty run and the need of their key.
LEMMA NewEntryFresh ==
  ASSUME NEW k \in Keys, NEW s \in ExitCodes,
         NEW b, b = [state |-> s, need |-> NeededBy(NewInfo(k, s)), code |-> s, len |-> 0]
  PROVE  Promise!Fresh(k, b)
<1>1. getThreshold(k) \in Nat \ {0}
  BY ThresholdPositive
<1>2. NeededBy(NewInfo(k, s)) \in Nat \ {0} /\ NeededBy(NewInfo(k, s)) = NeedOf[k]
  BY <1>1 DEF NeededBy, NewInfo, NeedOf
<1> QED BY <1>2 DEF Promise!Fresh, Promise!Entry

LEMMA StepRefines ==
  ASSUME HistoryInv, HistoryInv', [HistoryNext]_historyVars
  PROVE  [Promise!Next]_Board
<1>1. DOMAIN run = DOMAIN states
  BY DEF HistoryInv, CountersMatchRuns
<1>2. ASSUME NEW checked \in SUBSET Keys, NEW unread \in SUBSET checked,
             HStart(checked, unread)
      PROVE  Promise!Track
  <2> DEFINE seed(k) == IF k \in DOMAIN statuses \ unread
                        THEN statuses[k].code ELSE Unknown
  <2>1. /\ states' = [k \in checked |-> NewInfo(k, seed(k))] /\ ~up
        /\ run' = [k \in checked |-> IF k \in DOMAIN run THEN run[k]
                                     ELSE NewRun(states'[k].CurrentState)]
    BY <1>2 DEF HStart, Start, Follow
  <2>2. DOMAIN states = {}
    BY <2>1 DEF HistoryInv, TrackerInv, QuietWhenDown
  <2>3. \A k \in checked : seed(k) \in ExitCodes
    BY ExitCodesAssumption DEF HistoryInv, TrackerInv, TrackerTypeOK, Status
  <2> HIDE DEF seed
  <2>4. DOMAIN Board' = checked /\ DOMAIN Board = {}
    BY <2>1, <2>2 DEF Board
  <2>5. ASSUME NEW k \in checked
        PROVE  Promise!Fresh(k, Board'[k])
    <3>1. NewInfo(k, seed(k)).CurrentState = seed(k)
      BY DEF NewInfo
    <3>2. /\ states'[k] = NewInfo(k, seed(k)) /\ states'[k].CurrentState = seed(k)
          /\ run'[k] = NewRun(seed(k))
      BY <1>1, <2>1, <2>2, <3>1
    <3>3. run'[k].code = seed(k) /\ run'[k].len = 0
      BY <3>2 DEF NewRun
    <3>4. Board'[k] = [state |-> seed(k), need |-> NeededBy(NewInfo(k, seed(k))),
                       code |-> seed(k), len |-> 0]
      BY <2>1, <3>2, <3>3 DEF Board
    <3> QED BY <2>3, <3>4, NewEntryFresh
  <2>6. Board' = [k \in DOMAIN Board' |-> Board'[k]]
    BY DEF Board
  <2> QED BY <2>4, <2>5, <2>6 DEF Promise!Track
<1>3. ASSUME NEW k \in Keys, HTrackNew(k)
      PROVE  Promise!Track
  <2>1. /\ k \notin DOMAIN states /\ DOMAIN states' = DOMAIN states \cup {k}
        /\ \A x \in DOMAIN states : states'[x] = states[x] /\ run'[x] = run[x]
        /\ states'[k] = NewInfo(k, Unknown)
        /\ run'[k] = NewRun(NewInfo(k, Unknown).CurrentState)
    BY <1>1, <1>3 DEF HTrackNew, TrackNew, Follow, Put
  <2>2. NewInfo(k, Unknown).CurrentState = Unknown
    BY DEF NewInfo
  <2>3. run'[k].code = Unknown /\ run'[k].len = 0
    BY <2>1, <2>2 DEF NewRun
  <2>4. Board'[k] = [state |-> Unknown, need |-> NeededBy(NewInfo(k, Unknown)),
                     code |-> Unknown, len |-> 0]
    BY <2>1, <2>2, <2>3 DEF Board
  <2>5. Promise!Fresh(k, Board'[k])
    BY <2>4, NewEntryFresh, ExitCodesAssumption
  <2>6. /\ DOMAIN Board = DOMAIN states /\ DOMAIN Board' = DOMAIN states'
        /\ \A x \in DOMAIN states : Board'[x] = Board[x]
        /\ Board' = [x \in DOMAIN Board' |-> Board'[x]]
    BY <2>1 DEF Board
  <2>7. DOMAIN states' \subseteq Keys
    BY DEF HistoryInv, TrackerInv, TrackerTypeOK
  <2> QED BY <2>1, <2>5, <2>6, <2>7 DEF Promise!Track
<1>4. ASSUME NEW k \in Keys, NEW c \in ExitCodes, HApplyResult(k, c)
      PROVE  Promise!Observe(k, c) \/ Promise!ObserveUntracked(k, c)
  <2>1. /\ DOMAIN states' = DOMAIN states \cup {k}
        /\ \A x \in DOMAIN states : x # k => states'[x] = states[x] /\ run'[x] = run[x]
    BY <1>4, AfterResult
  <2>2. /\ DOMAIN Board = DOMAIN states /\ DOMAIN Board' = DOMAIN states \cup {k}
        /\ \A x \in DOMAIN states : x # k => Board'[x] = Board[x]
        /\ Board' = [x \in DOMAIN states \cup {k} |-> Board'[x]]
    BY <2>1 DEF Board
  <2>3. Board'[k] = [state |-> states'[k].CurrentState, need |-> NeededBy(states'[k]),
                     code |-> run'[k].code, len |-> run'[k].len]
    BY <2>1 DEF Board
  <2>4. CASE k \in DOMAIN states
    <3> DEFINE info == states[k]
               need == NeededBy(info)
               q == Extended(run[k], c, need)
    <3>1. /\ info \in StateInfo /\ Bounded(info)
          /\ run[k] \in Run /\ CounterMatchesRun(info, run[k])
      BY <1>1, <2>4 DEF HistoryInv, TrackerInv, TrackerTypeOK, CountBelowThreshold, Bounded,
                        CountersMatchRuns, RunTypeOK
    <3>2. states'[k] = Updated(info, c) /\ run'[k] = q
      BY <1>4, <2>4, AfterResult
    <3>3. /\ need \in Nat \ {0} /\ NeededBy(states'[k]) = need
          /\ states'[k].CurrentState = Promised(info, q, c)
      BY <3>1, <3>2, EntryFollowsRun
    <3>4. /\ q.code = c
          /\ q.len = IF run[k].len > 0 /\ run[k].code = c THEN UpTo(run[k].len, need) ELSE 1
      BY <3>1, <3>3, ExtendedFields
    <3>5. Board[k] = [state |-> info.CurrentState, need |-> need,
                      code |-> run[k].code, len |-> run[k].len]
      BY <2>4 DEF Board
    <3> HIDE DEF info, need, q
    <3>6. Board'[k] = [state |-> Promised(info, q, c), need |-> need,
                       code |-> c, len |-> q.len]
      BY <2>3, <3>2, <3>3, <3>4
    <3>7. Promise!Extend(Board[k], c) =
            [state |-> info.CurrentState, need |-> need, code |-> c, len |-> q.len]
      BY <3>4, <3>5 DEF Promise!Extend, Promise!Longer, UpTo
    <3>8. Board'[k] = Promise!Observed(Board[k], c)
      BY <3>6, <3>7 DEF Promise!Observed, Promised, need, Promise!OK, OK
    <3>9. Board' = [Board EXCEPT ![k] = Promise!Observed(Board[k], c)]
      BY <2>2, <2>4, <3>8 DEF Board
    <3> QED BY <2>2, <2>4, <3>9 DEF Promise!Observe
  <2>5. CASE k \notin DOMAIN states
    <3>1. states'[k] = UntrackedInfo(c) /\ run'[k] = Extended(NewRun(c), c, 1)
      BY <1>4, <2>5, AfterResult
    <3>2. Board'[k] = [state |-> c, need |-> 1, code |-> c, len |-> 1]
      BY <2>3, <3>1 DEF UntrackedInfo, NeededBy, Extended, NewRun, UpTo
    <3> QED BY <2>2, <2>5, <3>2 DEF Promise!ObserveUntracked
  <2> QED BY <2>4, <2>5
<1>5. ASSUME UNCHANGED <<states, run>>
      PROVE  UNCHANGED Board
  BY <1>5 DEF Board
<1>6. ASSUME HCrash
      PROVE  Promise!Forget
  BY <1>6 DEF HCrash, Crash, EmptyMap, Board, Promise!Forget
<1>7. CASE HStoreStatus \/ HStoreFails \/ UNCHANGED historyVars
  BY <1>5, <1>7 DEF HStoreStatus, StoreStatus, HStoreFails, StoreFails, historyVars
<1>8. ASSUME NEW k \in Keys, HDeleteStatus(k)
      PROVE  UNCHANGED Board
  BY <1>5, <1>8 DEF HDeleteStatus, DeleteStatus
<1> QED BY <1>2, <1>3, <1>4, <1>6, <1>7, <1>8 DEF HistoryNext, Promise!Next

-----------------------------------------------------------------------------
(* The theorems.                                                           *)

LEMMA HistoryInvariant == HistorySpec => []HistoryInv
BY HistoryInvInit, HistoryInvStep, PTL DEF HistorySpec

\* The counter of every entry says what its run of raw results says.
THEOREM CountersFollowRuns == HistorySpec => []CountersMatchRuns
BY HistoryInvariant, PTL DEF HistoryInv

\* The tracker implements ReportedState: pending state, counter and resets report
\* exactly what the run of identical results calls for.
THEOREM TrackerKeepsPromise == HistorySpec => PromiseSpec
<1>1. HistoryInit => Promise!Init
  BY InitRefines
<1>2. HistoryInv /\ HistoryInv' /\ [HistoryNext]_historyVars => [Promise!Next]_Board
  BY StepRefines
<1> QED BY <1>1, <1>2, HistoryInvariant, PTL DEF HistorySpec, PromiseSpec, Promise!Spec

\* The bucket turns from OK to WARNING or CRITICAL only after a full run of that
\* result in the running process.
THEOREM AlarmsAreConfirmed == HistorySpec => NoUnconfirmedAlarm
<1> DEFINE Confirmed ==
      \A k \in DOMAIN statuses :
        ( /\ statuses[k].code = OK
          /\ k \in DOMAIN statuses'
          /\ statuses'[k].code \notin {OK, Unknown} )
        => statuses'[k].code \in run[k].proved
<1>1. ASSUME HistoryInv, [HistoryNext]_historyVars
      PROVE  [Confirmed]_historyVars
  <2>1. CASE HStoreStatus
    <3>1. PICK w \in writing : statuses' = Put(statuses, w.key, w.status)
      BY <2>1 DEF HStoreStatus, StoreStatus
    <3>2. w.key \in DOMAIN states /\ w.status.code = states[w.key].CurrentState
      BY <1>1 DEF HistoryInv, TrackerInv, WriteIsReported
    <3>3. /\ statuses'[w.key] = w.status
          /\ \A x \in DOMAIN statuses : x # w.key => statuses'[x] = statuses[x]
      BY <3>1 DEF Put
    <3> QED BY <1>1, <3>2, <3>3 DEF HistoryInv, AlarmProved
  <2>2. CASE \E k \in Keys : HDeleteStatus(k)
    BY <2>2 DEF HDeleteStatus, DeleteStatus, Without
  <2>3. CASE statuses' = statuses
    BY <2>3
  <2> QED BY <1>1, <2>1, <2>2, <2>3
          DEF HistoryNext, HStart, Start, HTrackNew, TrackNew, HApplyResult, ApplyResult,
              HStoreFails, StoreFails, HCrash, Crash, historyVars
<1> QED BY <1>1, HistoryInvariant, PTL DEF HistorySpec, NoUnconfirmedAlarm

-----------------------------------------------------------------------------
(***************************************************************************)
(* Scheduler.  It implements the tracker, and every job and result on its  *)
(* way belongs to a tracked key.  The history has no part in it.           *)
(***************************************************************************)

(* The refinement.                                                         *)

\* A step of the scheduler is a step of the tracker or leaves it alone.  Results
\* carry the exit codes of their type, which is why the invariant is needed.
LEMMA StepTracks ==
  ASSUME SchedulerTypeOK, [Next]_vars
  PROVE  [TrackerNext]_trackerVars
<1>1. CASE StartScheduler
  BY <1>1 DEF StartScheduler, TrackerNext
<1>2. CASE CrashScheduler
  BY <1>2 DEF CrashScheduler, TrackerNext
<1>3. ASSUME NEW h \in Hosts, NEW c \in PingCodes, HealthChange(h, c)
      PROVE  UNCHANGED trackerVars
  BY <1>3 DEF HealthChange
<1>4. ASSUME NEW x \in Switchable, Toggle(x)
      PROVE  UNCHANGED trackerVars
  BY <1>4 DEF Toggle
<1>5. ASSUME NEW k \in Keys, Purge(k)
      PROVE  TrackerNext
  BY <1>5 DEF Purge, TrackerNext
<1>6. CASE ReadFails \/ StartPass
  BY <1>6 DEF ReadFails, StartPass, Tick
<1>7. ASSUME NEW k \in Keys, PassStep(k)
      PROVE  TrackerNext \/ UNCHANGED trackerVars
  <2>1. CASE VisitNew(k)
    BY <2>1 DEF VisitNew, TrackerNext
  <2>2. CASE SkipDisabled(k) \/ VisitNotDue(k) \/ VisitDue(k)
    BY <2>2 DEF SkipDisabled, VisitNotDue, VisitDue
  <2> QED BY <1>7, <2>1, <2>2 DEF PassStep, Enqueue, DropJob
<1>8. ASSUME NEW w \in Workers, TakeJob(w) \/ ExecuteJob(w) \/ SendResult(w)
      PROVE  UNCHANGED trackerVars
  BY <1>8 DEF TakeJob, ExecuteJob, SendResult, WorkerStep
<1>9. CASE HandleResult
  <2>1. Head(resultQueue) \in Result
    BY <1>9, HeadTailProperties DEF HandleResult, SchedulerTypeOK
  <2>2. /\ Head(resultQueue).key \in Keys /\ Head(resultQueue).code \in ExitCodes
        /\ ApplyResult(Head(resultQueue).key, Head(resultQueue).code)
    BY <1>9, <2>1 DEF HandleResult, Result
  <2> QED BY <2>2 DEF TrackerNext
<1>10. CASE StoreResult \/ LoseResult
  BY <1>10 DEF StoreResult, LoseResult, TrackerNext
<1>11. CASE UNCHANGED vars
  BY <1>11 DEF vars
<1> QED BY <1>1, <1>2, <1>3, <1>4, <1>5, <1>6, <1>7, <1>8, <1>9, <1>10, <1>11 DEF Next

-----------------------------------------------------------------------------
(* The inductive invariant: types, tracked keys, and empty queues while    *)
(* the process is down.                                                    *)

QueuesQuietWhenDown ==
  ~up => /\ jobQueue = <<>> /\ resultQueue = <<>>
         /\ worker = [w \in Workers |-> Idle]

SchedulerInv == TrackerInv /\ SchedulerTypeOK /\ InFlightTracked /\ QueuesQuietWhenDown

\* PassOrder names every key, and a pass starts on the check of its first one.
LEMMA WorldNotEmpty ==
  /\ Keys # {}
  /\ PassOrder \in Seq(Keys) /\ PassOrder # <<>>
  /\ CheckOf[PassOrder[1]] \in Checks
  /\ \A k \in Keys : CheckOf[k] \in Checks /\ HostOf[k] \in Hosts
<1>1. PICK k \in Keys : TRUE
  BY OrderAssumption
<1>2. PICK i \in 1..Len(PassOrder) : PassOrder[i] = k
  BY OrderAssumption
<1>3. Len(PassOrder) \in Nat /\ 1 \in 1..Len(PassOrder)
  BY <1>2, OrderAssumption, LenProperties
<1>4. PassOrder[1] \in Keys /\ PassOrder # <<>>
  BY <1>3, OrderAssumption, ElementOfSeq, EmptySeq
<1> QED BY <1>4, OrderAssumption DEF Checks, Hosts

LEMMA SchedulerInvInit == Init => SchedulerInv
<1> SUFFICES ASSUME Init
             PROVE  SchedulerInv
  OBVIOUS
<1>1. TrackerInv /\ TrackerTypeOK
  BY TrackerInvInit DEF Init, TrackerInv
<1>2. DOMAIN states = {} /\ DOMAIN age = {} /\ age \in [DOMAIN age -> 0..MaxAge]
  BY DEF Init, TrackerInit, EmptyMap
<1>3. /\ jobQueue \in Seq(Job) /\ Len(jobQueue) = 0
      /\ resultQueue \in Seq(Result) /\ Len(resultQueue) = 0
      /\ pass.todo \in Seq(Keys)
  BY EmptySeq DEF Init, NoPass
<1>4. worker \in [Workers -> WorkerState]
  BY DEF Init, WorkerState
<1>5. InFlightTracked
  BY <1>3 DEF Init, InFlightTracked, Idle
<1>6. SchedulerTypeOK
  BY <1>1, <1>2, <1>3, <1>4, CapAssumption, WorldNotEmpty
     DEF Init, NoPass, SchedulerTypeOK
<1> QED BY <1>1, <1>5, <1>6 DEF SchedulerInv, QueuesQuietWhenDown, Init

\* What a worker holds is a job, what it sends is a result.
LEMMA WorkerShapes ==
  ASSUME NEW s \in WorkerState
  PROVE  /\ s.at = "job" => s.job \in Job
         /\ s.at = "result" => s.result \in Result
BY DEF WorkerState, Idle, Holding, Sending

\* The check a job points to is a check; a settled job points to no variable.
LEMMA JobPointsToCheck ==
  ASSUME NEW job \in Job, loopVar \in Checks
  PROVE  Check(job) \in Checks /\ Settled(job) \in Job /\ Settled(job).key = job.key
BY DEF Check, Settled, Job

\* Whatever the type, executing a job of a host gives an exit code.
LEMMA OutcomeIsCode ==
  ASSUME NEW type, NEW h \in Hosts, health \in [Hosts -> PingCodes]
  PROVE  Outcome(type, h) \in ExitCodes
<1>1. health[h] \in ExitCodes /\ OK \in ExitCodes /\ Unknown \in ExitCodes
  BY WorldAssumption, ExitCodesAssumption
<1> QED BY <1>1 DEF Outcome

\* Putting an age for a tracked key keeps the ages in step with the entries.
LEMMA AgesFollowEntries ==
  ASSUME SchedulerTypeOK, NEW k \in Keys, NEW n \in 0..MaxAge,
         DOMAIN states' = DOMAIN states \cup {k}, age' = Put(age, k, n)
  PROVE  DOMAIN age' = DOMAIN states' /\ age' \in [DOMAIN age' -> 0..MaxAge]
BY DEF SchedulerTypeOK, Put

\* One step of the pass: the loop variable and the keys left to visit.
LEMMA VisitTypes ==
  ASSUME SchedulerTypeOK, NEW k \in Keys, Visit(k)
  PROVE  /\ pass' \in [todo : Seq(Keys), checks : SUBSET Checks]
         /\ loopVar' \in Checks
<1>1. Tail(pass.todo) \in Seq(Keys)
  BY HeadTailProperties DEF Visit, SchedulerTypeOK
<1>2. pass' = [todo |-> Tail(pass.todo), checks |-> pass.checks]
  BY DEF Visit, SchedulerTypeOK
<1> QED BY <1>1, <1>2, WorldNotEmpty DEF Visit, SchedulerTypeOK

\* A jobQueue, a resultQueue or the workers, one element longer, shorter or replaced.
LEMMA QueueSteps ==
  ASSUME NEW S, NEW q \in Seq(S), NEW tracked,
         \A i \in 1..Len(q) : q[i].key \in tracked
  PROVE  /\ \A x \in S : x.key \in tracked =>
              /\ Append(q, x) \in Seq(S) /\ Len(Append(q, x)) = Len(q) + 1
              /\ \A i \in 1..Len(Append(q, x)) : Append(q, x)[i].key \in tracked
         /\ q # <<>> =>
              /\ Head(q) \in S /\ Head(q).key \in tracked
              /\ Tail(q) \in Seq(S) /\ Len(Tail(q)) = Len(q) - 1 /\ Len(q) \in Nat
              /\ \A i \in 1..Len(Tail(q)) : Tail(q)[i].key \in tracked
<1>1. Len(q) \in Nat
  BY LenProperties
<1>2. ASSUME NEW x \in S, x.key \in tracked
      PROVE  /\ Append(q, x) \in Seq(S) /\ Len(Append(q, x)) = Len(q) + 1
             /\ \A i \in 1..Len(Append(q, x)) : Append(q, x)[i].key \in tracked
  BY <1>1, <1>2, AppendProperties
<1>3. ASSUME q # <<>>
      PROVE  /\ Head(q) \in S /\ Head(q).key \in tracked
             /\ Tail(q) \in Seq(S) /\ Len(Tail(q)) = Len(q) - 1
             /\ \A i \in 1..Len(Tail(q)) : Tail(q)[i].key \in tracked
  <2>1. /\ Head(q) \in S /\ Tail(q) \in Seq(S) /\ Len(Tail(q)) = Len(q) - 1
        /\ \A i \in 1..Len(Tail(q)) : Tail(q)[i] = q[i + 1]
    BY <1>3, HeadTailProperties
  <2>2. 1 \in 1..Len(q) /\ Head(q) = q[1]
    BY <1>1, <1>3, EmptySeq
  <2> QED BY <1>1, <2>1, <2>2
<1> QED BY <1>1, <1>2, <1>3
-----------------------------------------------------------------------------
(* One step keeps the types, the tracked keys and the quiet queues; the    *)
(* actions are taken in the order of Next.                                 *)

Rest == SchedulerTypeOK /\ InFlightTracked /\ QueuesQuietWhenDown

LEMMA QueueTypes ==
  ASSUME SchedulerInv
  PROVE  /\ Len(jobQueue) \in Nat /\ Len(resultQueue) \in Nat
         /\ JobCap \in Nat /\ ResultCap \in Nat
BY LenProperties, CapAssumption DEF SchedulerInv, SchedulerTypeOK

LEMMA RestStart ==
  ASSUME SchedulerInv, TrackerTypeOK', StartScheduler
  PROVE  Rest'
<1> USE DEF SchedulerInv
<1>1. PICK checked \in {Keys, {}} : \E unread \in SUBSET checked :
        Start(checked, unread) /\ age' \in [checked -> 0..MaxAge]
  BY DEF StartScheduler
<1>2. DOMAIN states' = checked /\ age' \in [checked -> 0..MaxAge] /\ ~up /\ up' = TRUE
  BY <1>1 DEF Start
<1>3. /\ jobQueue = <<>> /\ resultQueue = <<>> /\ worker = [w \in Workers |-> Idle]
      /\ UNCHANGED <<worldVars, pass, loopVar, jobQueue, worker, resultQueue>>
  BY <1>2 DEF QueuesQuietWhenDown, StartScheduler
<1>4. SchedulerTypeOK'
  BY <1>2, <1>3 DEF SchedulerTypeOK, worldVars
<1>5. InFlightTracked'
  BY <1>3, EmptySeq DEF InFlightTracked, Idle
<1> QED BY <1>2, <1>4, <1>5 DEF Rest, QueuesQuietWhenDown

LEMMA RestCrash ==
  ASSUME SchedulerInv, TrackerTypeOK', CrashScheduler
  PROVE  Rest'
<1> USE DEF SchedulerInv
<1>1. /\ DOMAIN states' = {} /\ DOMAIN age' = {} /\ age' \in [DOMAIN age' -> 0..MaxAge]
      /\ UNCHANGED worldVars /\ up' = FALSE
  BY DEF CrashScheduler, Crash, EmptyMap
<1>2. /\ jobQueue' = <<>> /\ resultQueue' = <<>> /\ worker' = [w \in Workers |-> Idle]
      /\ pass' = NoPass /\ loopVar' = CheckOf[PassOrder[1]]
  BY DEF CrashScheduler
<1>3. /\ jobQueue' \in Seq(Job) /\ resultQueue' \in Seq(Result) /\ <<>> \in Seq(Keys)
      /\ Len(jobQueue') = 0 /\ Len(resultQueue') = 0
  BY <1>2, EmptySeq
<1>4. worker' \in [Workers -> WorkerState]
  BY <1>2 DEF WorkerState
<1>5. SchedulerTypeOK'
  BY <1>1, <1>2, <1>3, <1>4, WorldNotEmpty, CapAssumption
     DEF SchedulerTypeOK, worldVars, NoPass
<1>6. InFlightTracked'
  BY <1>2, <1>3 DEF InFlightTracked, Idle
<1> QED BY <1>1, <1>2, <1>5, <1>6 DEF Rest, QueuesQuietWhenDown

\* The world: health, switches and the purge touch neither queues nor entries.
LEMMA RestWorld ==
  ASSUME SchedulerInv, TrackerTypeOK',
         \/ \E h \in Hosts, c \in PingCodes : HealthChange(h, c)
         \/ \E x \in Switchable : Toggle(x)
         \/ \E k \in Keys : Purge(k)
         \/ StoreResult \/ LoseResult
         \/ UNCHANGED vars
  PROVE  Rest'
<1> USE DEF SchedulerInv
<1>1. UNCHANGED <<schedulerVars, up, states>>
  BY DEF HealthChange, Toggle, Purge, DeleteStatus, StoreResult, StoreStatus,
         LoseResult, StoreFails, vars, trackerVars
<1>2. health' \in [Hosts -> PingCodes] /\ enabled' \subseteq Checks \cup Hosts
  BY WorldAssumption
     DEF HealthChange, Toggle, Purge, StoreResult, LoseResult, vars, worldVars,
         SchedulerTypeOK
<1>3. SchedulerTypeOK'
  BY <1>1, <1>2 DEF SchedulerTypeOK, schedulerVars
<1> QED BY <1>1, <1>3 DEF Rest, InFlightTracked, QueuesQuietWhenDown, schedulerVars

LEMMA RestReadFails ==
  ASSUME SchedulerInv, TrackerTypeOK', ReadFails
  PROVE  Rest'
<1> USE DEF SchedulerInv
<1>1. /\ UNCHANGED <<trackerVars, worldVars, pass, loopVar, jobQueue, worker, resultQueue>>
      /\ UNCHANGED <<up, states>>
  BY DEF ReadFails, trackerVars
<1>2. DOMAIN age' = DOMAIN age /\ age' \in [DOMAIN age' -> 0..MaxAge]
  BY IntervalAssumption DEF ReadFails, Tick, Older, SchedulerTypeOK
<1>3. SchedulerTypeOK'
  BY <1>1, <1>2 DEF SchedulerTypeOK, worldVars
<1> QED BY <1>1, <1>3 DEF Rest, InFlightTracked, QueuesQuietWhenDown

LEMMA RestStartPass ==
  ASSUME SchedulerInv, TrackerTypeOK', StartPass
  PROVE  Rest'
<1> USE DEF SchedulerInv
<1>1. /\ UNCHANGED <<trackerVars, worldVars, loopVar, resultQueue>> /\ up
      /\ pass' = [todo |-> PassOrder, checks |-> enabled \cap Checks]
  BY DEF StartPass, Tick
<1>2. DOMAIN age' = DOMAIN age /\ age' \in [DOMAIN age' -> 0..MaxAge]
  BY IntervalAssumption DEF StartPass, Tick, Older, SchedulerTypeOK
<1>3. /\ jobQueue' \in Seq(Job) /\ Len(jobQueue') = Len(jobQueue)
      /\ \A i \in 1..Len(jobQueue) : jobQueue'[i].key = jobQueue[i].key
  <2>1. jobQueue \in [1..Len(jobQueue) -> Job] /\ Len(jobQueue) \in Nat
    BY LenProperties DEF SchedulerTypeOK
  <2>2. jobQueue' = [i \in 1..Len(jobQueue) |-> Settled(jobQueue[i])]
    BY <2>1 DEF StartPass
  <2>3. \A i \in 1..Len(jobQueue) : /\ Settled(jobQueue[i]) \in Job
                                    /\ Settled(jobQueue[i]).key = jobQueue[i].key
    BY <2>1, JobPointsToCheck DEF SchedulerTypeOK
  <2>4. jobQueue' \in [1..Len(jobQueue) -> Job]
    BY <2>2, <2>3
  <2>5. jobQueue' \in Seq(Job)
    BY <2>1, <2>4, SeqDef
  <2>6. Len(jobQueue') = Len(jobQueue)
    BY <2>1, <2>4, <2>5, LenProperties
  <2> QED BY <2>2, <2>3, <2>5, <2>6
<1>4. ASSUME NEW w \in Workers
      PROVE  /\ worker'[w] \in WorkerState /\ worker'[w].at = worker[w].at
             /\ worker[w].at = "job" => worker'[w].job.key = worker[w].job.key
             /\ worker[w].at # "job" => worker'[w] = worker[w]
  <2>1. worker[w] \in WorkerState
    BY DEF SchedulerTypeOK
  <2>2. CASE worker[w].at = "job"
    <3>1. worker'[w] = Holding(Settled(worker[w].job))
      BY <2>2 DEF StartPass
    <3>2. Settled(worker[w].job) \in Job /\ Settled(worker[w].job).key = worker[w].job.key
      BY <2>1, <2>2, WorkerShapes, JobPointsToCheck DEF SchedulerTypeOK
    <3> QED BY <2>2, <3>1, <3>2 DEF Holding, WorkerState
  <2>3. CASE worker[w].at # "job"
    BY <2>1, <2>3 DEF StartPass
  <2> QED BY <2>2, <2>3
<1>5. worker' \in [Workers -> WorkerState]
  BY <1>4 DEF StartPass
<1>6. SchedulerTypeOK'
  BY <1>1, <1>2, <1>3, <1>5, WorldNotEmpty
     DEF SchedulerTypeOK, trackerVars, worldVars
<1>7. InFlightTracked'
  <2>1. states' = states /\ resultQueue' = resultQueue
    BY <1>1 DEF trackerVars
  <2> QED BY <1>3, <1>4, <2>1 DEF InFlightTracked
<1> QED BY <1>1, <1>6, <1>7 DEF Rest, QueuesQuietWhenDown, trackerVars

LEMMA RestPassStep ==
  ASSUME SchedulerInv, TrackerTypeOK', NEW k \in Keys, PassStep(k)
  PROVE  Rest'
<1> USE DEF SchedulerInv
<1>1. Visit(k) /\ up /\ UNCHANGED <<worldVars, worker, resultQueue>>
  BY DEF PassStep, SkipDisabled, VisitNew, VisitNotDue, Enqueue, DropJob, VisitDue, Visit
<1>2. up'
  BY <1>1 DEF PassStep, SkipDisabled, VisitNew, VisitNotDue, Enqueue, DropJob, VisitDue,
              TrackNew, trackerVars
<1>3. /\ pass' \in [todo : Seq(Keys), checks : SUBSET Checks]
      /\ loopVar' \in Checks
  BY <1>1, VisitTypes
<1>4. /\ DOMAIN age' = DOMAIN states' /\ age' \in [DOMAIN age' -> 0..MaxAge]
      /\ DOMAIN states \subseteq DOMAIN states'
  <2>1. CASE VisitNew(k)
    <3>1. DOMAIN states' = DOMAIN states \cup {k} /\ age' = Put(age, k, 0)
      BY <2>1 DEF VisitNew, TrackNew, Put
    <3> QED BY <3>1, AgesFollowEntries, IntervalAssumption
  <2>2. CASE UNCHANGED <<trackerVars, age>>
    BY <2>2 DEF trackerVars, SchedulerTypeOK
  <2> QED BY <2>1, <2>2 DEF PassStep, SkipDisabled, VisitNotDue, Enqueue, DropJob, VisitDue
<1>5. /\ jobQueue' \in Seq(Job) /\ Len(jobQueue') <= JobCap
      /\ \A i \in 1..Len(jobQueue') : jobQueue'[i].key \in DOMAIN states'
  <2>1. CASE jobQueue' = jobQueue
    BY <1>4, <2>1 DEF SchedulerTypeOK, InFlightTracked
  <2>2. CASE Enqueue(k)
    <3> DEFINE job == [key |-> k, check |-> Loop]
    <3>1. /\ jobQueue' = Append(jobQueue, job) /\ Len(jobQueue) < JobCap
          /\ k \in DOMAIN states
      BY <2>2 DEF Enqueue, VisitDue
    <3>2. job \in Job /\ job.key \in DOMAIN states
      BY <3>1 DEF Job
    <3> HIDE DEF job
    <3>3. jobQueue \in Seq(Job) /\ \A i \in 1..Len(jobQueue) : jobQueue[i].key \in DOMAIN states
      BY DEF SchedulerTypeOK, InFlightTracked
    <3>4. /\ jobQueue' \in Seq(Job) /\ Len(jobQueue') = Len(jobQueue) + 1
          /\ \A i \in 1..Len(jobQueue') : jobQueue'[i].key \in DOMAIN states
      BY <3>1, <3>2, <3>3, QueueSteps
    <3> QED BY <1>4, <3>1, <3>4, QueueTypes
  <2> QED BY <2>1, <2>2 DEF PassStep, SkipDisabled, VisitNew, VisitNotDue, DropJob
<1>6. SchedulerTypeOK'
  BY <1>1, <1>3, <1>4, <1>5 DEF SchedulerTypeOK, worldVars
<1>7. InFlightTracked'
  BY <1>1, <1>4, <1>5 DEF InFlightTracked
<1> QED BY <1>2, <1>6, <1>7 DEF Rest, QueuesQuietWhenDown

LEMMA RestTakeJob ==
  ASSUME SchedulerInv, TrackerTypeOK', NEW w \in Workers, TakeJob(w)
  PROVE  Rest'
<1> USE DEF SchedulerInv
<1>1. /\ UNCHANGED <<trackerVars, worldVars, age, pass, loopVar, resultQueue>> /\ up
      /\ jobQueue # <<>> /\ jobQueue' = Tail(jobQueue)
      /\ worker' = [worker EXCEPT ![w] = Holding(Head(jobQueue))]
  BY DEF TakeJob, WorkerStep
<1>2. /\ jobQueue \in Seq(Job)
      /\ \A i \in 1..Len(jobQueue) : jobQueue[i].key \in DOMAIN states
  BY DEF SchedulerTypeOK, InFlightTracked
<1>3. /\ Head(jobQueue) \in Job /\ Head(jobQueue).key \in DOMAIN states
      /\ jobQueue' \in Seq(Job) /\ Len(jobQueue') = Len(jobQueue) - 1
      /\ \A i \in 1..Len(jobQueue') : jobQueue'[i].key \in DOMAIN states
  BY <1>1, <1>2, QueueSteps
<1>4. /\ Holding(Head(jobQueue)) \in WorkerState
      /\ Holding(Head(jobQueue)).at = "job"
      /\ Holding(Head(jobQueue)).job = Head(jobQueue)
  BY <1>3 DEF WorkerState, Holding
<1>5. SchedulerTypeOK'
  BY <1>1, <1>3, <1>4, QueueTypes DEF SchedulerTypeOK, trackerVars, worldVars
<1>6. InFlightTracked'
  BY <1>1, <1>3, <1>4 DEF InFlightTracked, SchedulerTypeOK, trackerVars
<1> QED BY <1>1, <1>5, <1>6 DEF Rest, QueuesQuietWhenDown, trackerVars

LEMMA RestExecuteJob ==
  ASSUME SchedulerInv, TrackerTypeOK', NEW w \in Workers, ExecuteJob(w)
  PROVE  Rest'
<1> USE DEF SchedulerInv
<1> DEFINE job == worker[w].job
           type == TypeOf[Check(job)]
           result == [key |-> job.key, plugin |-> type, code |-> Outcome(type, HostOf[job.key])]
<1>1. /\ UNCHANGED <<trackerVars, worldVars, age, pass, loopVar, resultQueue, jobQueue>> /\ up
      /\ worker[w].at = "job"
      /\ worker' = [worker EXCEPT ![w] = Sending(result)]
  BY DEF ExecuteJob, WorkerStep
<1>2. job \in Job /\ job.key \in DOMAIN states /\ job.key \in Keys
  BY <1>1, WorkerShapes DEF SchedulerTypeOK, InFlightTracked, Job
<1>3. Check(job) \in Checks
  BY <1>2, JobPointsToCheck DEF SchedulerTypeOK
<1>4. Outcome(type, HostOf[job.key]) \in ExitCodes
  BY <1>2, OutcomeIsCode, WorldNotEmpty DEF SchedulerTypeOK
<1> HIDE DEF job
<1>5. result \in Result /\ result.key = job.key
  BY <1>2, <1>3, <1>4 DEF Result
<1> HIDE DEF result
<1>6. /\ Sending(result) \in WorkerState
      /\ Sending(result).at = "result" /\ Sending(result).result = result
  BY <1>5 DEF WorkerState, Sending
<1>7. SchedulerTypeOK'
  BY <1>1, <1>6 DEF SchedulerTypeOK, trackerVars, worldVars
<1>8. InFlightTracked'
  BY <1>1, <1>2, <1>5, <1>6 DEF InFlightTracked, SchedulerTypeOK, trackerVars
<1> QED BY <1>1, <1>7, <1>8 DEF Rest, QueuesQuietWhenDown, trackerVars

LEMMA RestSendResult ==
  ASSUME SchedulerInv, TrackerTypeOK', NEW w \in Workers, SendResult(w)
  PROVE  Rest'
<1> USE DEF SchedulerInv
<1>1. /\ UNCHANGED <<trackerVars, worldVars, age, pass, loopVar, jobQueue>> /\ up
      /\ worker[w].at = "result" /\ Len(resultQueue) < ResultCap
      /\ resultQueue' = Append(resultQueue, worker[w].result)
      /\ worker' = [worker EXCEPT ![w] = Idle]
  BY DEF SendResult, WorkerStep
<1>2. worker[w].result \in Result /\ worker[w].result.key \in DOMAIN states
  BY <1>1, WorkerShapes DEF SchedulerTypeOK, InFlightTracked
<1>3. /\ resultQueue \in Seq(Result)
      /\ \A i \in 1..Len(resultQueue) : resultQueue[i].key \in DOMAIN states
  BY DEF SchedulerTypeOK, InFlightTracked
<1>4. /\ resultQueue' \in Seq(Result) /\ Len(resultQueue') = Len(resultQueue) + 1
      /\ \A i \in 1..Len(resultQueue') : resultQueue'[i].key \in DOMAIN states
  BY <1>1, <1>2, <1>3, QueueSteps
<1>5. Idle \in WorkerState /\ Idle.at = "idle"
  BY DEF WorkerState, Idle
<1>6. SchedulerTypeOK'
  BY <1>1, <1>4, <1>5, QueueTypes DEF SchedulerTypeOK, trackerVars, worldVars
<1>7. InFlightTracked'
  BY <1>1, <1>4, <1>5 DEF InFlightTracked, SchedulerTypeOK, trackerVars
<1> QED BY <1>1, <1>6, <1>7 DEF Rest, QueuesQuietWhenDown, trackerVars

LEMMA RestHandleResult ==
  ASSUME SchedulerInv, TrackerTypeOK', HandleResult
  PROVE  Rest'
<1> USE DEF SchedulerInv
<1> DEFINE r == Head(resultQueue)
<1>1. /\ resultQueue # <<>> /\ resultQueue' = Tail(resultQueue)
      /\ ApplyResult(r.key, r.code) /\ age' = Put(age, r.key, 0)
      /\ UNCHANGED <<worldVars, pass, loopVar, jobQueue, worker>>
  BY DEF HandleResult
<1>2. /\ resultQueue \in Seq(Result)
      /\ \A i \in 1..Len(resultQueue) : resultQueue[i].key \in DOMAIN states
  BY DEF SchedulerTypeOK, InFlightTracked
<1>3. /\ r \in Result /\ r.key \in DOMAIN states
      /\ resultQueue' \in Seq(Result) /\ Len(resultQueue') = Len(resultQueue) - 1
      /\ \A i \in 1..Len(resultQueue') : resultQueue'[i].key \in DOMAIN states
  BY <1>1, <1>2, QueueSteps
<1>4. r.key \in Keys
  BY <1>3 DEF Result
<1>5. DOMAIN states' = DOMAIN states \cup {r.key} /\ up /\ up' = up
  BY <1>1 DEF ApplyResult, Put
<1> HIDE DEF r
<1>6. DOMAIN age' = DOMAIN states' /\ age' \in [DOMAIN age' -> 0..MaxAge]
  <2>1. 0 \in 0..MaxAge /\ age' = Put(age, r.key, 0)
    BY <1>1, IntervalAssumption
  <2> QED BY <1>4, <1>5, <2>1, AgesFollowEntries
<1>7. SchedulerTypeOK'
  BY <1>1, <1>3, <1>6, QueueTypes DEF SchedulerTypeOK, worldVars
<1>8. InFlightTracked'
  BY <1>1, <1>3, <1>5 DEF InFlightTracked
<1> QED BY <1>5, <1>7, <1>8 DEF Rest, QueuesQuietWhenDown

LEMMA SchedulerInvStep ==
  ASSUME SchedulerInv, [Next]_vars
  PROVE  SchedulerInv'
<1>1. TrackerInv' /\ TrackerTypeOK'
  BY StepTracks, TrackerInvStep DEF SchedulerInv, TrackerInv
<1>2. Rest'
  BY <1>1, RestStart, RestCrash, RestWorld, RestReadFails, RestStartPass, RestPassStep,
     RestTakeJob, RestExecuteJob, RestSendResult, RestHandleResult DEF Next
<1> QED BY <1>1, <1>2 DEF SchedulerInv, Rest

-----------------------------------------------------------------------------
(* The theorems.                                                           *)

LEMMA SchedulerInvariant == Spec => []SchedulerInv
BY SchedulerInvInit, SchedulerInvStep, PTL DEF Spec

\* The variables of the scheduler are well typed and the queues keep their caps.
THEOREM SchedulerTypeCorrect == Spec => []SchedulerTypeOK
BY SchedulerInvariant, PTL DEF SchedulerInv

\* Every job and result on its way belongs to a tracked key: the fallback branch of
\* updateStateTracker is dead code, whatever is purged, dropped, delayed or crashes.
THEOREM InFlightIsTracked == Spec => []InFlightTracked
BY SchedulerInvariant, PTL DEF SchedulerInv

\* The scheduler implements the tracker: all that is proved of StateTracker holds of
\* it under any interleaving of passes, workers, purges and crashes.
THEOREM SchedulerImplementsTracker == Spec => ImplementsTracker
<1>1. Init => TrackerInit
  BY DEF Init
<1>2. SchedulerInv /\ [Next]_vars => [TrackerNext]_trackerVars
  BY StepTracks DEF SchedulerInv
<1> QED BY <1>1, <1>2, SchedulerInvariant, PTL DEF Spec, ImplementsTracker, TrackerSpec
=============================================================================

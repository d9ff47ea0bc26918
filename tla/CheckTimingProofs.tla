-------------------------- MODULE CheckTimingProofs --------------------------
(***************************************************************************)
(* Theorems about CheckTiming, for any intervals, thresholds and latencies *)
(* below a pass.  The invariant bounds the time since the last result from *)
(* both sides, before a check is started and while it runs; what pending   *)
(* results add up to is bounded by the same two bounds, once per result.   *)
(***************************************************************************)
EXTENDS CheckTiming, TLAPS

\* What is in flight is on the grid of time, and ends before the next pass.
TimesFit ==
  /\ phase \in 0 .. Tick /\ phase % Quantum = 0
  /\ flight \subseteq {n \in 0 .. Tick - 1 : n % Quantum = 0}
  /\ \A n \in flight : n + phase < Tick
  /\ \A m, n \in flight : m = n

TimingTyped ==
  /\ alive \in BOOLEAN
  /\ since \in Nat
  /\ entry \in StateInfo
  /\ failing \in Nat

\* A check that runs was due, and was started at the first pass after it was.
StartedInTime ==
  /\ flight = {} => since <= Wait(entry) + JitterRange(entry) + phase
  /\ \A n \in flight : /\ since > Wait(entry)
                       /\ since + n <= Longest(entry)

\* As many waits have gone by as there are pending results after the first.
PendingTakesTime ==
  Pending(entry) =>
    /\ entry.ConsecutiveCount >= 1
    /\ failing >= (entry.ConsecutiveCount - 1) * PendingInterval(entry.CurrentState) + since

Inv == TimesFit /\ TimingTyped /\ StartedInTime /\ PendingTakesTime /\ ReportedInTime

-----------------------------------------------------------------------------
(* Numbers.                                                                *)

\* One latency is the slowest: otherwise they go on beyond a pass.
LEMMA SlowestIsSlowest ==
  Slowest \in Latencies /\ Slowest \in 1 .. Tick - 1 /\ \A m \in Latencies : m <= Slowest
<1>1. Latencies \subseteq 1 .. 29 /\ Latencies # {}
  BY TimingAssumption DEF Tick
<1>2. \E n \in Latencies : \A m \in Latencies : m <= n
  <2> SUFFICES ASSUME \A n \in Latencies : \E m \in Latencies : n < m
               PROVE  FALSE
    BY <1>1
  <2> DEFINE Beyond(k) == \E n \in Latencies : n >= k
  <2>1. \A k \in Nat : Beyond(k) => Beyond(k + 1)
    <3> SUFFICES ASSUME NEW k \in Nat, Beyond(k)
                 PROVE  Beyond(k + 1)
      OBVIOUS
    <3>1. PICK n \in Latencies : n >= k
      OBVIOUS
    <3>2. PICK m \in Latencies : n < m
      OBVIOUS
    <3>3. m >= k + 1
      BY <1>1, <3>1, <3>2
    <3> QED
      BY <3>3
  <2>2. Beyond(0)
    <3>1. PICK n \in Latencies : TRUE
      BY <1>1
    <3>2. n >= 0
      BY <1>1
    <3> QED
      BY <3>2
  <2>3. ~Beyond(32)
    <3> SUFFICES ASSUME NEW n \in Latencies, n >= 32
                 PROVE  FALSE
      OBVIOUS
    <3> QED
      BY <1>1
  <2> HIDE DEF Beyond
  <2>4. \A k \in Nat : Beyond(k) => Beyond(k + 2)
    BY <2>1
  <2>5. \A k \in Nat : Beyond(k) => Beyond(k + 4)
    BY <2>4
  <2>6. \A k \in Nat : Beyond(k) => Beyond(k + 8)
    BY <2>5
  <2>7. Beyond(8) /\ Beyond(16) /\ Beyond(24) /\ Beyond(32)
    BY <2>2, <2>6
  <2> QED
    BY <2>3, <2>7
<1>3. Slowest \in Latencies /\ \A m \in Latencies : m <= Slowest
  BY <1>2 DEF Slowest
<1> QED
  BY <1>1, <1>3 DEF Tick

\* The steps of time meet every pass.
LEMMA Grid ==
  ASSUME NEW n \in 0 .. Tick, n % Quantum = 0
  PROVE  /\ n > 0 => n - Quantum >= 0 /\ (n - Quantum) % Quantum = 0
         /\ n < Tick => n + Quantum <= Tick /\ (n + Quantum) % Quantum = 0
<1>1. Quantum \in {1, 2, 3, 5, 6, 10, 15, 30}
  BY TimingAssumption DEF Tick
<1>2. CASE Quantum = 1
  BY <1>2 DEF Tick
<1>3. CASE Quantum = 2
  BY <1>3 DEF Tick
<1>4. CASE Quantum = 3
  BY <1>4 DEF Tick
<1>5. CASE Quantum = 5
  BY <1>5 DEF Tick
<1>6. CASE Quantum = 6
  BY <1>6 DEF Tick
<1>7. CASE Quantum = 10
  BY <1>7 DEF Tick
<1>8. CASE Quantum = 15
  BY <1>8 DEF Tick
<1>9. CASE Quantum = 30
  BY <1>9 DEF Tick
<1> QED
  BY <1>1, <1>2, <1>3, <1>4, <1>5, <1>6, <1>7, <1>8, <1>9

\* Times are numbers.
LEMMA WaitsAreNumbers ==
  ASSUME NEW info \in StateInfo
  PROVE  /\ Interval(info.CurrentState) \in Nat
         /\ PendingInterval(info.CurrentState) \in Nat
         /\ Wait(info) \in Nat /\ JitterRange(info) \in Nat /\ Longest(info) \in Nat
         /\ Wait(info) + JitterRange(info) + Tick + Slowest = Longest(info)
         /\ Pending(info) => Wait(info) = PendingInterval(info.CurrentState)
<1>1. info.CurrentState \in ExitCodes
  BY DEF StateInfo
<1>2. Interval(info.CurrentState) \in Nat
  BY <1>1, TimingAssumption DEF Interval
<1>3. PendingInterval(info.CurrentState) \in Nat
  BY <1>2 DEF PendingInterval, AtLeast, PendingFloor
<1>4. Wait(info) \in Nat
  BY <1>2, <1>3 DEF Wait
<1>5. JitterRange(info) \in Nat
  BY <1>4 DEF JitterRange
<1>6. Longest(info) \in Nat
  BY <1>4, <1>5, SlowestIsSlowest DEF Longest, Tick
<1> QED
  BY <1>2, <1>3, <1>4, <1>5, <1>6 DEF Longest, Wait

LEMMA OneMore ==
  ASSUME NEW a \in Nat, NEW b \in Nat
  PROVE  (a - 1) * b + b = a * b
OBVIOUS

LEMMA NoLess ==
  ASSUME NEW a \in Nat, NEW b \in Nat, NEW c \in Nat, a <= c
  PROVE  a * b <= c * b /\ a * b \in Nat
OBVIOUS

-----------------------------------------------------------------------------
(* What one result does to the entry.                                      *)

LEMMA ResultEffect ==
  ASSUME NEW info \in StateInfo, NEW c \in ExitCodes,
         NEW new, new = Updated(info, c),
         NEW n, n = IF c = info.PendingState THEN info.ConsecutiveCount + 1 ELSE 1
  PROVE  /\ new \in StateInfo
         /\ new.SoftFailEnabled = info.SoftFailEnabled /\ new.PendingState = c
         /\ Pending(new) => new.CurrentState = info.CurrentState /\ new.ConsecutiveCount = n
         /\ info.SoftFailEnabled /\ new.CurrentState # info.CurrentState =>
              new.CurrentState = c /\ (c = OK \/ n >= info.Threshold)
<1>1. n \in Nat /\ 1 \in Nat
  BY DEF StateInfo
<1>2. With(info, c, c, 1) \in StateInfo /\ With(info, info.CurrentState, c, n) \in StateInfo
  BY <1>1 DEF With, StateInfo
<1>3. /\ Counted(info, c) = With(info, info.CurrentState, c, n)
      /\ With(Counted(info, c), c, c, 1) = With(info, c, c, 1)
  BY DEF Counted, With
<1>4. CASE new = With(info, c, c, 1) /\ (info.SoftFailEnabled => c = OK \/ n >= info.Threshold)
  BY <1>2, <1>4 DEF With, Pending
<1>5. CASE new = With(info, info.CurrentState, c, n)
  BY <1>2, <1>5 DEF With, Pending
<1>6. ShouldChange(Counted(info, c), c) <=> c = OK \/ n >= info.Threshold
  BY <1>3 DEF ShouldChange, With
<1> QED
  BY <1>3, <1>4, <1>5, <1>6 DEF Updated, SoftFailUpdate

LEMMA NewInfoShape ==
  ASSUME NEW s \in ExitCodes
  PROVE  NewInfo(Key, s) \in StateInfo /\ ~Pending(NewInfo(Key, s))
<1>1. getThreshold(Key) \in Nat \ {0} /\ isSoftFailEnabled(Key) \in BOOLEAN
  BY TimingAssumption, ThresholdAssumption DEF getThreshold, isSoftFailEnabled
<1> QED
  BY <1>1 DEF NewInfo, StateInfo, Pending

-----------------------------------------------------------------------------
LEMMA InitInv == Init => Inv
<1> SUFFICES ASSUME Init
             PROVE  Inv
  OBVIOUS
<1>1. entry \in StateInfo /\ ~Pending(entry)
  BY NewInfoShape DEF Init
<1>2. 0 % Quantum = 0
  BY TimingAssumption DEF Tick
<1>3. TimesFit /\ TimingTyped
  BY <1>1, <1>2 DEF Init, TimesFit, TimingTyped, Tick
<1>4. StartedInTime
  BY <1>1, WaitsAreNumbers DEF Init, StartedInTime
<1>5. PendingTakesTime /\ ReportedInTime
  BY <1>1 DEF PendingTakesTime, ReportedInTime
<1> QED
  BY <1>3, <1>4, <1>5 DEF Inv

\* A pass finds no check of the key running, and starts one when it is due.
LEMMA PassKeepsInv ==
  ASSUME Inv, Pass
  PROVE  Inv'
<1> USE DEF Inv
<1>1. flight = {}
  BY DEF TimesFit, Pass, Tick
<1>2. /\ Wait(entry) \in Nat /\ JitterRange(entry) \in Nat /\ Longest(entry) \in Nat
      /\ Wait(entry) + JitterRange(entry) + Tick + Slowest = Longest(entry)
  BY WaitsAreNumbers DEF TimingTyped
<1>3. UNCHANGED <<alive, since, entry, failing>> /\ phase' = 0 /\ phase = Tick
  BY DEF Pass
<1>4. Wait(entry)' = Wait(entry) /\ JitterRange(entry)' = JitterRange(entry) /\ Longest(entry)' = Longest(entry)
  BY <1>3 DEF Wait, JitterRange, Longest, Pending, Interval, PendingInterval
<1>5. PICK jitter \in 0 .. JitterRange(entry) - 1 :
        IF since > Wait(entry) + jitter
        THEN \E latency \in Latencies : flight' = {latency}
        ELSE flight' = {}
  BY <1>1 DEF Pass
<1>6. TimingTyped' /\ PendingTakesTime' /\ ReportedInTime'
  BY <1>3, <1>4 DEF TimingTyped, PendingTakesTime, ReportedInTime, Pending, PendingInterval, Interval
<1>7. CASE since > Wait(entry) + jitter
  <2>1. PICK latency \in Latencies : flight' = {latency}
    BY <1>5, <1>7
  <2>2. /\ latency \in 1 .. Tick - 1 /\ latency % Quantum = 0 /\ latency <= Slowest
        /\ Slowest \in 1 .. Tick - 1 /\ 0 % Quantum = 0
    BY TimingAssumption, SlowestIsSlowest DEF Tick
  <2>3. TimesFit'
    BY <1>3, <2>1, <2>2 DEF TimesFit, Tick
  <2>4. since <= Wait(entry) + JitterRange(entry) + Tick /\ since \in Nat
    BY <1>1, <1>3 DEF StartedInTime, TimingTyped
  <2>5. StartedInTime'
    BY <1>2, <1>3, <1>4, <1>7, <2>1, <2>2, <2>4 DEF StartedInTime, Tick
  <2> QED
    BY <1>6, <2>3, <2>5
<1>8. CASE ~(since > Wait(entry) + jitter)
  <2>1. flight' = {} /\ 0 % Quantum = 0
    BY <1>5, <1>8, TimingAssumption DEF Tick
  <2>2. TimesFit'
    BY <1>3, <2>1 DEF TimesFit, Tick
  <2>3. StartedInTime'
    BY <1>2, <1>3, <1>4, <1>8, <2>1 DEF StartedInTime, TimingTyped
  <2> QED
    BY <1>6, <2>2, <2>3
<1> QED
  BY <1>7, <1>8

\* Time goes by for all of them alike.
LEMMA ElapseKeepsInv ==
  ASSUME Inv, Elapse
  PROVE  Inv'
<1> USE DEF Inv
<1>1. Quantum \in 1 .. Tick /\ Tick % Quantum = 0
  BY TimingAssumption
<1>2. /\ UNCHANGED <<alive, entry>> /\ phase' = phase + Quantum /\ since' = since + Quantum
      /\ flight' = {n - Quantum : n \in flight} /\ 0 \notin flight /\ phase < Tick
  BY DEF Elapse
<1>3. /\ Wait(entry) \in Nat /\ JitterRange(entry) \in Nat /\ Longest(entry) \in Nat
      /\ PendingInterval(entry.CurrentState) \in Nat
  BY WaitsAreNumbers DEF TimingTyped
<1>4. /\ Wait(entry)' = Wait(entry) /\ JitterRange(entry)' = JitterRange(entry)
      /\ Longest(entry)' = Longest(entry) /\ Pending(entry)' = Pending(entry)
      /\ PendingInterval(entry.CurrentState)' = PendingInterval(entry.CurrentState)
  BY <1>2 DEF Wait, JitterRange, Longest, Pending, Interval, PendingInterval
<1>5. TimesFit'
  <2>1. phase + Quantum <= Tick /\ (phase + Quantum) % Quantum = 0 /\ phase \in 0 .. Tick
    BY <1>2, Grid DEF TimesFit, Tick
  <2>2. \A n \in flight : n - Quantum \in 0 .. Tick - 1 /\ (n - Quantum) % Quantum = 0
    <3> SUFFICES ASSUME NEW n \in flight
                 PROVE  n - Quantum \in 0 .. Tick - 1 /\ (n - Quantum) % Quantum = 0
      OBVIOUS
    <3>1. n \in 0 .. Tick /\ n % Quantum = 0 /\ n > 0 /\ n < Tick
      BY <1>2 DEF TimesFit, Tick
    <3>2. n - Quantum >= 0 /\ (n - Quantum) % Quantum = 0
      BY <3>1, Grid
    <3> QED
      BY <1>1, <3>1, <3>2 DEF Tick
  <2>3. \A n \in flight : (n - Quantum) + (phase + Quantum) < Tick
    BY <1>1, <2>1 DEF TimesFit, Tick
  <2>4. phase' \in 0 .. Tick /\ phase' % Quantum = 0
    BY <1>1, <1>2, <2>1 DEF Tick
  <2>5. /\ flight' \subseteq {n \in 0 .. Tick - 1 : n % Quantum = 0}
        /\ \A n \in flight' : n + phase' < Tick
        /\ \A m, n \in flight' : m = n
    BY <1>2, <2>2, <2>3 DEF TimesFit
  <2> QED
    BY <2>4, <2>5 DEF TimesFit
<1>6. TimingTyped'
  BY <1>1, <1>2 DEF TimingTyped, Elapse, Tick
<1>7. StartedInTime'
  <2>1. flight' = {} => since' <= Wait(entry)' + JitterRange(entry)' + phase'
    BY <1>1, <1>2, <1>3, <1>4 DEF StartedInTime, TimingTyped, TimesFit, Tick
  <2>2. ASSUME NEW n \in flight
        PROVE  since' > Wait(entry)' /\ since' + (n - Quantum) <= Longest(entry)'
    BY <1>1, <1>2, <1>3, <1>4, <2>2 DEF StartedInTime, TimingTyped, TimesFit, Tick
  <2> QED
    BY <1>2, <2>1, <2>2 DEF StartedInTime
<1>8. ASSUME Pending(entry)
      PROVE  /\ entry'.ConsecutiveCount >= 1
             /\ failing' >= (entry'.ConsecutiveCount - 1) * PendingInterval(entry.CurrentState)' + since'
             /\ failing' <= (entry'.ConsecutiveCount - 1) * Longest(entry)' + since'
  <2>1. failing' = failing + Quantum
    BY <1>8 DEF Elapse
  <2>2. entry.ConsecutiveCount \in Nat /\ entry.ConsecutiveCount >= 1 /\ failing \in Nat /\ since \in Nat
    BY <1>8 DEF PendingTakesTime, TimingTyped, StateInfo
  <2>3. /\ (entry.ConsecutiveCount - 1) * PendingInterval(entry.CurrentState) \in Nat
        /\ (entry.ConsecutiveCount - 1) * Longest(entry) \in Nat
    BY <1>3, <2>2, NoLess
  <2>4. /\ failing >= (entry.ConsecutiveCount - 1) * PendingInterval(entry.CurrentState) + since
        /\ failing <= (entry.ConsecutiveCount - 1) * Longest(entry) + since
    BY <1>8 DEF PendingTakesTime, ReportedInTime
  <2> QED
    BY <1>1, <1>2, <1>4, <2>1, <2>2, <2>3, <2>4 DEF Tick
<1>9. PendingTakesTime' /\ ReportedInTime'
  BY <1>4, <1>8 DEF PendingTakesTime, ReportedInTime
<1> QED
  BY <1>5, <1>6, <1>7, <1>9

\* A result ends its check, and with a pending one another wait is over.
LEMMA FinishKeepsInv ==
  ASSUME Inv, NEW c \in ExitCodes, Finish(c)
  PROVE  Inv'
<1> USE DEF Inv
<1> DEFINE n == IF c = entry.PendingState THEN entry.ConsecutiveCount + 1 ELSE 1
<1>1. /\ UNCHANGED <<alive, phase>> /\ since' = 0 /\ entry' = Updated(entry, c) /\ 0 \in flight
  BY DEF Finish
<1>2. flight' = {}
  BY DEF Finish, TimesFit
<1>3. /\ entry' \in StateInfo
      /\ entry'.SoftFailEnabled = entry.SoftFailEnabled /\ entry'.PendingState = c
      /\ Pending(entry') => entry'.CurrentState = entry.CurrentState /\ entry'.ConsecutiveCount = n
  BY <1>1, ResultEffect DEF TimingTyped
<1>4. TimesFit'
  BY <1>1, <1>2 DEF TimesFit
<1>5. TimingTyped'
  BY <1>1, <1>3 DEF TimingTyped, Finish
<1>6. StartedInTime'
  <2>1. Wait(entry') \in Nat /\ JitterRange(entry') \in Nat /\ phase \in Nat
    BY <1>3, WaitsAreNumbers DEF TimesFit, Tick
  <2>2. 0 <= Wait(entry') + JitterRange(entry') + phase
    BY <2>1
  <2> QED
    BY <1>1, <1>2, <2>2 DEF StartedInTime, Wait, JitterRange, Pending, Interval, PendingInterval
<1>7. ASSUME Pending(entry')
      PROVE  /\ entry'.ConsecutiveCount >= 1
             /\ failing' >= (entry'.ConsecutiveCount - 1) * PendingInterval(entry'.CurrentState) + since'
             /\ failing' <= (entry'.ConsecutiveCount - 1) * Longest(entry') + since'
  <2>1. /\ PendingInterval(entry.CurrentState) \in Nat /\ Longest(entry) \in Nat
        /\ PendingInterval(entry'.CurrentState) \in Nat /\ Longest(entry') \in Nat
    BY <1>3, WaitsAreNumbers DEF TimingTyped
  <2>2. CASE c = entry.PendingState
    <3>1. Pending(entry) /\ failing' = failing
      BY <1>3, <1>7, <2>2 DEF Pending, Finish
    <3>2. /\ entry'.ConsecutiveCount = entry.ConsecutiveCount + 1
          /\ entry'.CurrentState = entry.CurrentState
      BY <1>3, <1>7, <2>2
    <3>3. Longest(entry') = Longest(entry)
      BY <1>7, <3>1, <3>2 DEF Longest, Wait, JitterRange
    <3>4. /\ entry.ConsecutiveCount \in Nat /\ entry.ConsecutiveCount >= 1
          /\ failing \in Nat /\ since \in Nat
      BY <3>1 DEF PendingTakesTime, TimingTyped, StateInfo
    <3>5. since > PendingInterval(entry.CurrentState) /\ since <= Longest(entry)
      BY <1>1, <2>1, <3>1, <3>4, WaitsAreNumbers DEF StartedInTime, TimingTyped
    <3> DEFINE a == entry.ConsecutiveCount
               p == PendingInterval(entry.CurrentState)
               l == Longest(entry)
    <3>6. (a - 1) * p + p = a * p /\ (a - 1) * l + l = a * l /\ a * p \in Nat /\ a * l \in Nat
      BY <2>1, <3>4, OneMore, NoLess
    <3>7. (a - 1) * p \in Nat /\ (a - 1) * l \in Nat
      BY <2>1, <3>4, NoLess
    <3>8. failing >= (a - 1) * p + since /\ failing <= (a - 1) * l + since
      BY <3>1 DEF PendingTakesTime, ReportedInTime
    <3>9. failing >= a * p /\ failing <= a * l
      <4> HIDE DEF a, p, l
      <4>1. \A x, y, z, u \in Nat : x >= y + z /\ z > u => x >= y + u
        OBVIOUS
      <4>2. \A x, y, z, u \in Nat : x <= y + z /\ z <= u => x <= y + u
        OBVIOUS
      <4>3. p \in Nat /\ l \in Nat /\ since > p /\ since <= l
        BY <2>1, <3>5 DEF p, l
      <4> QED
        BY <3>4, <3>6, <3>7, <3>8, <4>1, <4>2, <4>3
    <3>10. (entry'.ConsecutiveCount - 1) = a
      BY <3>2, <3>4
    <3> QED
      BY <1>1, <2>1, <3>1, <3>2, <3>3, <3>4, <3>6, <3>9, <3>10
  <2>3. CASE c # entry.PendingState
    <3>1. failing' = 0 /\ entry'.ConsecutiveCount = 1
      BY <1>3, <1>7, <2>3 DEF Finish
    <3>2. 0 * PendingInterval(entry'.CurrentState) = 0 /\ 0 * Longest(entry') = 0
      BY <2>1
    <3> QED
      BY <1>1, <3>1, <3>2
  <2> QED
    BY <2>2, <2>3
<1>8. PendingTakesTime' /\ ReportedInTime'
  BY <1>7 DEF PendingTakesTime, ReportedInTime, Pending, PendingInterval, Interval,
              Longest, Wait, JitterRange
<1> QED
  BY <1>4, <1>5, <1>6, <1>8

-----------------------------------------------------------------------------
LEMMA NextKeepsInv == Inv /\ [Next]_vars => Inv'
<1> SUFFICES ASSUME Inv, [Next]_vars
             PROVE  Inv'
  OBVIOUS
<1>1. CASE Panic \/ UNCHANGED vars
  <2>1. UNCHANGED <<phase, since, entry, flight, failing>> /\ alive' \in BOOLEAN
    BY <1>1 DEF Panic, vars, Inv, TimingTyped
  <2> QED
    BY <2>1 DEF Inv, TimesFit, TimingTyped, StartedInTime, PendingTakesTime, ReportedInTime,
                Pending, PendingInterval, Interval, Longest, Wait, JitterRange
<1> QED
  BY <1>1, PassKeepsInv, ElapseKeepsInv, FinishKeepsInv DEF Next

LEMMA InvHolds == Spec => []Inv
BY InitInv, NextKeepsInv, PTL DEF Spec

\* No check is later than its interval, the jitter, one pass and its own latency
\* (processSchedule, executeJob).
THEOREM ChecksAreInTime == Spec => []CheckedInTime
<1>1. Inv => CheckedInTime
  <2> SUFFICES ASSUME Inv
               PROVE  since <= Longest(entry)
    BY DEF CheckedInTime
  <2>1. /\ Wait(entry) \in Nat /\ JitterRange(entry) \in Nat /\ Longest(entry) \in Nat
        /\ Wait(entry) + JitterRange(entry) + Tick + Slowest = Longest(entry)
        /\ Slowest \in 1 .. Tick - 1 /\ phase \in 0 .. Tick /\ since \in Nat
    BY WaitsAreNumbers, SlowestIsSlowest DEF Inv, TimingTyped, TimesFit
  <2>2. CASE flight = {}
    BY <2>1, <2>2 DEF Inv, StartedInTime, Tick
  <2>3. ASSUME NEW n \in flight
        PROVE  since <= Longest(entry)
    BY <2>1, <2>3 DEF Inv, StartedInTime, TimesFit, Tick
  <2> QED
    BY <2>2, <2>3
<1> QED
  BY <1>1, InvHolds, PTL

\* A failure that keeps coming back is reported in time (processSchedule with a
\* pending state, updateStateTracker).
THEOREM FailuresAreInTime == Spec => []ReportedInTime
<1>1. Inv => ReportedInTime
  BY DEF Inv
<1> QED
  BY <1>1, InvHolds, PTL

\* Results of one short outage do not make an alarm (processSchedule,
\* updateStateTracker): each counted result but the first had its wait before it.
THEOREM AlarmsTakeTime == Spec => AlarmTakesTime
<1> DEFINE Late == entry.SoftFailEnabled /\ entry.CurrentState = OK /\ entry'.CurrentState # OK
                     => failing >= (entry.Threshold - 1) * PendingInterval(OK)
<1>1. Inv /\ [Next]_vars => [Late]_vars
  <2> SUFFICES ASSUME Inv, Next, entry.SoftFailEnabled,
                      entry.CurrentState = OK, entry'.CurrentState # OK
               PROVE  failing >= (entry.Threshold - 1) * PendingInterval(OK)
    OBVIOUS
  <2>1. PICK c \in ExitCodes : Finish(c)
    BY DEF Next, Pass, Panic, Elapse
  <2> DEFINE n == IF c = entry.PendingState THEN entry.ConsecutiveCount + 1 ELSE 1
             p == PendingInterval(OK)
  <2>2. c # OK /\ n >= entry.Threshold
    BY <2>1, ResultEffect DEF Inv, TimingTyped, Finish
  <2>3. /\ p \in Nat /\ entry.Threshold \in Nat \ {0} /\ entry.ConsecutiveCount \in Nat
        /\ failing \in Nat /\ since \in Nat
    BY WaitsAreNumbers DEF Inv, TimingTyped, StateInfo
  <2>4. CASE c = entry.PendingState
    <3>1. Pending(entry)
      BY <2>2, <2>4 DEF Pending
    <3>2. since > p
      BY <2>1, <3>1, WaitsAreNumbers DEF Inv, StartedInTime, TimingTyped, Finish
    <3>3. failing >= (entry.ConsecutiveCount - 1) * p + since /\ entry.ConsecutiveCount >= 1
      BY <3>1 DEF Inv, PendingTakesTime
    <3>4. /\ (entry.ConsecutiveCount - 1) * p + p = entry.ConsecutiveCount * p
          /\ (entry.ConsecutiveCount - 1) * p \in Nat
      BY <2>3, <3>3, OneMore, NoLess
    <3>5. entry.Threshold - 1 \in Nat /\ entry.Threshold - 1 <= entry.ConsecutiveCount
      BY <2>2, <2>3, <2>4
    <3>6. (entry.Threshold - 1) * p <= entry.ConsecutiveCount * p /\ (entry.Threshold - 1) * p \in Nat
      BY <2>3, <3>5, NoLess
    <3> HIDE DEF p
    <3> QED
      BY <2>3, <3>2, <3>3, <3>4, <3>6 DEF p
  <2>5. CASE c # entry.PendingState
    <3>1. entry.Threshold - 1 = 0
      BY <2>2, <2>3, <2>5
    <3>2. 0 * p = 0
      BY <2>3
    <3> QED
      BY <2>3, <3>1, <3>2
  <2> QED
    BY <2>4, <2>5
<1>2. [][Late]_vars => AlarmTakesTime
  BY DEF AlarmTakesTime
<1> QED
  BY <1>1, <1>2, InvHolds, PTL DEF Spec
=============================================================================

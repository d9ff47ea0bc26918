----------------------------- MODULE CheckTiming ----------------------------
(***************************************************************************)
(* When one key is checked, in seconds: the interval processSchedule takes *)
(* for the state of the key, the shorter one while a failure is pending,   *)
(* the jitter, and the pass every 30 seconds that is the only moment a     *)
(* check can start (internal/monitoring/scheduler.go).                     *)
(*                                                                         *)
(* Time moves in steps of Quantum seconds.  A check takes less than the    *)
(* time between two passes, and finds a free worker: Latencies.            *)
(***************************************************************************)
EXTENDS SoftFail

CONSTANTS
  Key,              \* the key that is followed
  IntervalOf,       \* check.Interval in seconds, by state; 0 where it has none
  DefaultInterval,  \* monitoring.default_interval in seconds
  Latencies,        \* seconds from the pass to the result of a check
  Quantum           \* seconds in one step of time

Tick == 30          \* seconds between two passes
PendingFloor == 30  \* least seconds between two checks of a pending failure

ASSUME TimingAssumption ==
  /\ Key \in Keys
  /\ IntervalOf \in [ExitCodes -> Nat]
  /\ DefaultInterval \in Nat \ {0}
  /\ Quantum \in 1..Tick /\ Tick % Quantum = 0
  /\ Latencies # {} /\ Latencies \subseteq {n \in 1..(Tick - 1) : n % Quantum = 0}

VARIABLES
  alive,      \* the process runs; a panic of the scheduler goroutine ends it
  phase,      \* seconds since the last pass
  since,      \* seconds since the LastCheckTime of the entry
  entry,      \* the StateInfo of the key
  flight,     \* seconds to the result of the running check: a set, empty or one
  failing     \* history: seconds since the first result of the pending failure

vars == <<alive, phase, since, entry, flight, failing>>

-----------------------------------------------------------------------------
Pending(info) == info.SoftFailEnabled /\ info.PendingState # info.CurrentState

AtLeast(n, least) == IF n < least THEN least ELSE n

\* The interval of a reported state: the one of the check, or else the default.
Interval(s) == IF IntervalOf[s] = 0 THEN DefaultInterval ELSE IntervalOf[s]

PendingInterval(s) == AtLeast(Interval(s) \div 3, PendingFloor)

Wait(info) == IF Pending(info) THEN PendingInterval(info.CurrentState)
                               ELSE Interval(info.CurrentState)

\* rand.Intn of this many seconds; rand.Intn(0) panics.
JitterRange(info) == Wait(info) \div 10

-----------------------------------------------------------------------------
\* A key without a stored status, or with one stored just now.
Init == /\ alive = TRUE
        /\ phase = 0
        /\ since = 0
        /\ \E s \in ExitCodes : entry = NewInfo(Key, s)
        /\ flight = {}
        /\ failing = 0

\* One pass: the jitter is drawn before the code knows whether the key is due.
Pass ==
  /\ alive
  /\ phase = Tick
  /\ JitterRange(entry) > 0
  /\ phase' = 0
  /\ \E jitter \in 0..(JitterRange(entry) - 1) :
       IF since > Wait(entry) + jitter
       THEN \E latency \in Latencies : flight' = flight \cup {latency}
       ELSE flight' = flight
  /\ UNCHANGED <<alive, since, entry, failing>>

Panic ==
  /\ alive
  /\ phase = Tick
  /\ JitterRange(entry) = 0
  /\ alive' = FALSE
  /\ UNCHANGED <<phase, since, entry, flight, failing>>

Elapse ==
  /\ alive
  /\ phase < Tick /\ 0 \notin flight
  /\ phase' = phase + Quantum
  /\ since' = since + Quantum
  /\ flight' = {n - Quantum : n \in flight}
  /\ failing' = IF Pending(entry) THEN failing + Quantum ELSE 0
  /\ UNCHANGED <<alive, entry>>

\* Faulty: LastCheckTime is not set.
FaultyFinish(c) ==
  /\ alive
  /\ 0 \in flight
  /\ flight' = flight \ {0}
  /\ entry' = Updated(entry, c)
  /\ failing' = IF Pending(entry') /\ c = entry.PendingState THEN failing ELSE 0
  /\ UNCHANGED <<alive, phase, since>>

\* The result: updateStateTracker, and LastCheckTime is now.
Finish(c) ==
  /\ alive
  /\ 0 \in flight
  /\ flight' = flight \ {0}
  /\ since' = 0
  /\ entry' = Updated(entry, c)
  /\ failing' = IF Pending(entry') /\ c = entry.PendingState THEN failing ELSE 0
  /\ UNCHANGED <<alive, phase>>

Next == Pass \/ Panic \/ Elapse \/ \E c \in ExitCodes : Finish(c)

Spec == Init /\ [][Next]_vars

-----------------------------------------------------------------------------
(* Properties.                                                             *)

Slowest == CHOOSE n \in Latencies : \A m \in Latencies : m <= n

\* The longest a live key may wait for its result: its interval, the jitter, one
\* whole pass, and the check itself.
Longest(info) == Wait(info) + JitterRange(info) + Tick + Slowest

\* No check is later than its interval, the jitter and one pass allow: the three
\* never add up over several passes.
CheckedInTime == since <= Longest(entry)

\* A failure that keeps coming back is reported after Threshold - 1 pending waits at
\* the latest: while it is pending it is never older than the results it has.
ReportedInTime ==
  Pending(entry) =>
    failing <= (entry.ConsecutiveCount - 1) * Longest(entry) + since

\* A key with soft fail leaves OK only when the failure has lasted for Threshold - 1
\* pending waits: several results of one short outage cannot confirm it.  It rests on a check
\* never outlasting a pass: only then is the next one not due before its result.
AlarmTakesTime ==
  [][entry.SoftFailEnabled /\ entry.CurrentState = OK /\ entry'.CurrentState # OK
       => failing >= (entry.Threshold - 1) * PendingInterval(OK)]_vars
=============================================================================

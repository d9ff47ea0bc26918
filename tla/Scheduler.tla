------------------------------ MODULE Scheduler -----------------------------
(***************************************************************************)
(* internal/monitoring/scheduler.go: the 30-second pass over the checks,   *)
(* the bounded job queue, the workers, the bounded result queue and the    *)
(* result processor, as goroutines that interleave, over the tracker and   *)
(* the status bucket of StateTracker.                                      *)
(*                                                                         *)
(* Time is counted in passes: age is the number of ticks since the         *)
(* LastCheckTime of an entry, and intervals are in ticks.                  *)
(***************************************************************************)
EXTENDS StateTracker, Sequences

CONSTANTS
  PassOrder,     \* the keys in the order of a pass: checks by id, then their hosts
  CheckOf,       \* the check of each key
  HostOf,        \* the host of each key
  TypeOf,        \* the type of each check: "ping", "nagios" or another
  PingCodes,     \* what a ping can return
  Configured,    \* the keys of the configuration: the purge spares their statuses
  Switchable,    \* the hosts and checks the API may enable or disable
  Workers,       \* server.workers goroutines
  JobCap,        \* capacity of jobQueue, 1000 in the code
  ResultCap,     \* capacity of resultQueue, 1000 in the code
  Interval,      \* ticks between two runs of a key, by reported state
  Jitter,        \* most ticks the random jitter may add
  MaxAge         \* ages beyond this one are not told apart

Checks == {CheckOf[k] : k \in Keys}
Hosts == {HostOf[k] : k \in Keys}

ASSUME OrderAssumption == /\ Keys # {} /\ PassOrder \in Seq(Keys)
                          /\ \A k \in Keys : \E i \in 1..Len(PassOrder) : PassOrder[i] = k
ASSUME WorldAssumption == PingCodes \subseteq ExitCodes /\ Configured \subseteq Keys
                          /\ Switchable \subseteq Checks \cup Hosts
ASSUME CapAssumption == JobCap \in Nat \ {0} /\ ResultCap \in Nat \ {0}
ASSUME IntervalAssumption == /\ Interval \in [ExitCodes -> Nat \ {0}]
                             /\ Jitter \in Nat /\ MaxAge \in Nat
                             /\ \A c \in ExitCodes : Interval[c] + Jitter < MaxAge

VARIABLES
  enabled,       \* the hosts and the checks whose Enabled field is set in the store
  health,        \* what a ping of each host would return now
  age,           \* ticks since LastCheckTime, by tracked key
  pass,          \* the keys processSchedule has still to visit, and the checks it read
  loopVar,       \* the check in processSchedule's loop variable
  jobQueue,
  worker,        \* what each worker goroutine is doing
  resultQueue

schedulerVars == <<age, pass, loopVar, jobQueue, worker, resultQueue>>
worldVars == <<enabled, health>>
vars == <<trackerVars, worldVars, schedulerVars>>

-----------------------------------------------------------------------------
(***************************************************************************)
(* Job.Check is the address of the loop variable, which all iterations of  *)
(* one processSchedule share (go.mod says go 1.21).  A job of the last     *)
(* pass therefore refers to loopVar, written Loop here; the jobs of an     *)
(* earlier pass refer to a variable nobody assigns any more, and hold the  *)
(* value it ended with.                                                    *)
(***************************************************************************)
Loop == "loop variable"

Job == [key : Keys, check : Checks \cup {Loop}]

Check(job) == IF job.check = Loop THEN loopVar ELSE job.check

Settled(job) == [job EXCEPT !.check = Check(job)]

(***************************************************************************)
(* A worker is idle, has a job, or has a result that it is sending.  A     *)
(* result keeps the plugin that made it; an error is already exit code 3,  *)
(* as handleResult makes it.                                               *)
(***************************************************************************)
Result == [key : Keys, code : ExitCodes, plugin : {TypeOf[c] : c \in Checks}]

Idle == [at |-> "idle"]
Holding(job) == [at |-> "job", job |-> job]
Sending(result) == [at |-> "result", result |-> result]

WorkerState == {Idle} \cup {Holding(j) : j \in Job} \cup {Sending(r) : r \in Result}

\* plugins[type].Execute of a host; an unknown type is an error.
Outcome(type, host) == CASE type = "ping"   -> health[host]
                         [] type = "nagios" -> OK
                         [] OTHER           -> Unknown

-----------------------------------------------------------------------------
(* When a key is due.                                                      *)

Third(n) == IF n \div 3 > 1 THEN n \div 3 ELSE 1   \* at least 30 seconds, one tick

CheckInterval(info) ==
  IF info.SoftFailEnabled /\ info.PendingState # info.CurrentState
  THEN Third(Interval[info.CurrentState])
  ELSE Interval[info.CurrentState]

Due(k, jitter) == age[k] > CheckInterval(states[k]) + jitter

Older(n) == IF n < MaxAge THEN n + 1 ELSE n

-----------------------------------------------------------------------------
NoPass == [todo |-> <<>>, checks |-> {}]

Init == /\ TrackerInit
        /\ enabled = Checks \cup Hosts
        /\ health \in [Hosts -> PingCodes]
        /\ age = EmptyMap
        /\ pass = NoPass
        /\ loopVar = CheckOf[PassOrder[1]]
        /\ jobQueue = <<>>
        /\ worker = [w \in Workers |-> Idle]
        /\ resultQueue = <<>>

(* Start and the end of the process.                                       *)

\* GetChecks fails, or returns every check; reads of single statuses may fail.
StartScheduler ==
  /\ \E checked \in {Keys, {}} : \E unread \in SUBSET checked :
       /\ Start(checked, unread)
       /\ age' \in [checked -> 0..MaxAge]
       /\ \A k \in checked : k \in unread \/ k \notin DOMAIN statuses => age'[k] = 0
  /\ UNCHANGED <<worldVars, pass, loopVar, jobQueue, worker, resultQueue>>

CrashScheduler ==
  /\ Crash
  /\ age' = EmptyMap
  /\ pass' = NoPass
  /\ loopVar' = CheckOf[PassOrder[1]]
  /\ jobQueue' = <<>>
  /\ worker' = [w \in Workers |-> Idle]
  /\ resultQueue' = <<>>
  /\ UNCHANGED worldVars

(* The world: hosts change health; the API enables and disables.           *)

HealthChange(h, c) ==
  /\ health' = [health EXCEPT ![h] = c]
  /\ UNCHANGED <<trackerVars, enabled, schedulerVars>>

Toggle(x) ==
  /\ enabled' = IF x \in enabled THEN enabled \ {x} ELSE enabled \cup {x}
  /\ UNCHANGED <<trackerVars, health, schedulerVars>>

\* Faulty: the purge drops the tracker's entry as well.
FaultyPurge(k) ==
  /\ k \notin Configured
  /\ k \in DOMAIN statuses
  /\ statuses' = Without(statuses, k)
  /\ states' = Without(states, k)
  /\ UNCHANGED <<up, writing, worldVars, schedulerVars>>

Purge(k) ==
  /\ k \notin Configured
  /\ DeleteStatus(k)
  /\ UNCHANGED <<worldVars, schedulerVars>>

(* The scheduler goroutine: one pass per tick, one key per step.           *)

Tick ==
  /\ up
  /\ pass.todo = <<>>
  /\ age' = [k \in DOMAIN age |-> Older(age[k])]

\* The checks cannot be read: the pass ends before it began.
ReadFails ==
  /\ Tick
  /\ UNCHANGED <<trackerVars, worldVars, pass, loopVar, jobQueue, worker, resultQueue>>

StartPass ==
  /\ Tick
  /\ pass' = [todo |-> PassOrder, checks |-> enabled \cap Checks]
  /\ jobQueue' = [i \in DOMAIN jobQueue |-> Settled(jobQueue[i])]
  /\ worker' = [w \in Workers |-> IF worker[w].at = "job"
                                  THEN Holding(Settled(worker[w].job)) ELSE worker[w]]
  /\ UNCHANGED <<trackerVars, worldVars, loopVar, resultQueue>>

\* The next iteration: assigns the loop variable, whatever becomes of the key.
Visit(k) ==
  /\ up
  /\ pass.todo # <<>>
  /\ k = Head(pass.todo)
  /\ pass' = [pass EXCEPT !.todo = Tail(@)]
  /\ loopVar' = CheckOf[k]
  /\ UNCHANGED <<worldVars, worker, resultQueue>>

\* The check was read at the start of the pass, the host is read now.
Enabled(k) == CheckOf[k] \in pass.checks /\ HostOf[k] \in enabled

SkipDisabled(k) ==
  /\ Visit(k)
  /\ ~Enabled(k)
  /\ UNCHANGED <<trackerVars, age, jobQueue>>

\* A new entry has just been checked, as far as its LastCheckTime says: not due.
VisitNew(k) ==
  /\ Visit(k)
  /\ Enabled(k)
  /\ TrackNew(k)
  /\ age' = Put(age, k, 0)
  /\ UNCHANGED jobQueue

VisitNotDue(k) ==
  /\ Visit(k)
  /\ Enabled(k) /\ k \in DOMAIN states
  /\ \E jitter \in 0..Jitter : ~Due(k, jitter)
  /\ UNCHANGED <<trackerVars, age, jobQueue>>

VisitDue(k) ==
  /\ Visit(k)
  /\ Enabled(k) /\ k \in DOMAIN states
  /\ \E jitter \in 0..Jitter : Due(k, jitter)
  /\ UNCHANGED <<trackerVars, age>>

Enqueue(k) ==
  /\ VisitDue(k)
  /\ Len(jobQueue) < JobCap
  /\ jobQueue' = Append(jobQueue, [key |-> k, check |-> Loop])

\* The queue is full: the job is dropped, and the key is due again next pass.
DropJob(k) ==
  /\ VisitDue(k)
  /\ Len(jobQueue) = JobCap
  /\ UNCHANGED jobQueue

(* The workers.                                                            *)

WorkerStep(w) ==
  /\ up
  /\ UNCHANGED <<trackerVars, worldVars, age, pass, loopVar>>

TakeJob(w) ==
  /\ WorkerStep(w)
  /\ worker[w] = Idle /\ jobQueue # <<>>
  /\ worker' = [worker EXCEPT ![w] = Holding(Head(jobQueue))]
  /\ jobQueue' = Tail(jobQueue)
  /\ UNCHANGED resultQueue

\* executeJob up to the send: the type is the one Job.Check points to by now.
ExecuteJob(w) ==
  /\ WorkerStep(w)
  /\ worker[w].at = "job"
  /\ LET job  == worker[w].job
         type == TypeOf[Check(job)]
     IN  worker' = [worker EXCEPT ![w] =
                      Sending([key |-> job.key, plugin |-> type,
                               code |-> Outcome(type, HostOf[job.key])])]
  /\ UNCHANGED <<jobQueue, resultQueue>>

\* Faulty: the send never waits for room.
FaultyOverflow(w) ==
  /\ WorkerStep(w)
  /\ worker[w].at = "result"
  /\ resultQueue' = Append(resultQueue, worker[w].result)
  /\ worker' = [worker EXCEPT ![w] = Idle]
  /\ UNCHANGED jobQueue

\* Faulty: the last place of the queue is never used.
FaultySend(w) ==
  /\ WorkerStep(w)
  /\ worker[w].at = "result" /\ Len(resultQueue) + 1 < ResultCap
  /\ resultQueue' = Append(resultQueue, worker[w].result)
  /\ worker' = [worker EXCEPT ![w] = Idle]
  /\ UNCHANGED jobQueue

SendResult(w) ==
  /\ WorkerStep(w)
  /\ worker[w].at = "result" /\ Len(resultQueue) < ResultCap
  /\ resultQueue' = Append(resultQueue, worker[w].result)
  /\ worker' = [worker EXCEPT ![w] = Idle]
  /\ UNCHANGED jobQueue

(* The result processor.                                                   *)

\* Faulty: the raw result is written past the tracker.
FaultyHandle ==
  /\ up
  /\ resultQueue # <<>> /\ writing = {}
  /\ LET r == Head(resultQueue)
     IN  /\ writing' = {[key |-> r.key, status |-> [code |-> r.code, soft |-> 0, of |-> 0]]}
         /\ age' = Put(age, r.key, 0)
  /\ resultQueue' = Tail(resultQueue)
  /\ UNCHANGED <<up, states, statuses, worldVars, pass, loopVar, jobQueue, worker>>

HandleResult ==
  /\ resultQueue # <<>>
  /\ LET r == Head(resultQueue)
     IN  ApplyResult(r.key, r.code) /\ age' = Put(age, r.key, 0)
  /\ resultQueue' = Tail(resultQueue)
  /\ UNCHANGED <<worldVars, pass, loopVar, jobQueue, worker>>

StoreResult == StoreStatus /\ UNCHANGED <<worldVars, schedulerVars>>

LoseResult == StoreFails /\ UNCHANGED <<worldVars, schedulerVars>>

PassStep(k) == \/ SkipDisabled(k) \/ VisitNew(k) \/ VisitNotDue(k)
               \/ Enqueue(k) \/ DropJob(k)

Next ==
  \/ StartScheduler
  \/ CrashScheduler
  \/ \E h \in Hosts, c \in PingCodes : HealthChange(h, c)
  \/ \E x \in Switchable : Toggle(x)
  \/ \E k \in Keys : Purge(k)
  \/ ReadFails
  \/ StartPass
  \/ \E k \in Keys : PassStep(k)
  \/ \E w \in Workers : TakeJob(w) \/ ExecuteJob(w) \/ SendResult(w)
  \/ HandleResult
  \/ StoreResult
  \/ LoseResult

Spec == Init /\ [][Next]_vars
(***************************************************************************)
(* Fairness.  The runtime runs every goroutine: the pass, each worker, the *)
(* result processor; it serves the goroutines blocked on a channel in the  *)
(* order they came, so a sender is not overtaken for ever.  NoOverload:    *)
(* the ticker ticks, and three things of the world, not of the code: the   *)
(* checks can be read at some tick or other, the queue of 1000 jobs is not *)
(* full every time a key is visited, and the disk does not refuse every    *)
(* write of a key.                                                         *)
(***************************************************************************)
StoreOf(k) == StoreResult /\ \A w \in writing : w.key = k

GoroutinesRun ==
  /\ \A k \in Keys : WF_vars(PassStep(k))
  /\ \A w \in Workers : WF_vars(TakeJob(w)) /\ WF_vars(ExecuteJob(w)) /\ SF_vars(SendResult(w))
  /\ WF_vars(HandleResult)
  /\ WF_vars(StoreResult \/ LoseResult)

NoOverload == /\ WF_vars(StartPass)
              /\ \A k \in Keys : SF_vars(Enqueue(k)) /\ SF_vars(StoreOf(k))

FairSpec == Spec /\ GoroutinesRun /\ NoOverload

-----------------------------------------------------------------------------
(* Properties.                                                             *)

\* Type invariant of the scheduler's own variables; the queues keep their caps.
SchedulerTypeOK ==
  /\ TrackerTypeOK
  /\ enabled \subseteq Checks \cup Hosts
  /\ health \in [Hosts -> PingCodes]
  /\ DOMAIN age = DOMAIN states /\ age \in [DOMAIN age -> 0..MaxAge]
  /\ pass \in [todo : Seq(Keys), checks : SUBSET Checks]
  /\ loopVar \in Checks
  /\ jobQueue \in Seq(Job) /\ Len(jobQueue) <= JobCap
  /\ worker \in [Workers -> WorkerState]
  /\ resultQueue \in Seq(Result) /\ Len(resultQueue) <= ResultCap

\* Every job and every result on its way belongs to a key the tracker knows, so
\* the branch of updateStateTracker that says "This shouldn't happen" never runs:
\* it would switch soft fail off for that key until the next restart.
InFlightTracked ==
  /\ \A i \in 1..Len(jobQueue) : jobQueue[i].key \in DOMAIN states
  /\ \A w \in Workers : worker[w].at = "job" => worker[w].job.key \in DOMAIN states
  /\ \A w \in Workers : worker[w].at = "result" => worker[w].result.key \in DOMAIN states
  /\ \A i \in 1..Len(resultQueue) : resultQueue[i].key \in DOMAIN states

\* A result was made by the plugin of its own check.  It is what every reader of
\* a status takes for granted; the shared loop variable breaks it as soon as two
\* checks have different types.
OwnPlugin == \A i \in 1..Len(resultQueue) :
               resultQueue[i].plugin = TypeOf[CheckOf[resultQueue[i].key]]

\* The scheduler steps the tracker and the bucket only as StateTracker allows:
\* what is shown of the tracker alone holds under every interleaving of passes,
\* workers, purges and crashes.
ImplementsTracker == TrackerSpec

\* A worker is never stuck with a result: the processor empties the result queue.
WorkersComeBack == \A w \in Workers : worker[w].at = "result" ~> worker[w].at # "result"

Shows(k, c) == k \in DOMAIN statuses /\ statuses[k].code = c

\* Once a host keeps answering c, its check stays enabled, the process stays up and
\* no purge deletes the status any more, the stored status becomes c and stays c: no
\* drop, lost write, failed read, duplicate or reordered result, and no half-counted
\* soft fail, leaves a stale status behind.
StatusSettles ==
  \A k \in Keys, c \in PingCodes :
    ( /\ <>[](up /\ health[HostOf[k]] = c /\ {CheckOf[k], HostOf[k]} \subseteq enabled)
      /\ <>[][~Purge(k)]_vars )
    => <>[]Shows(k, c)
=============================================================================

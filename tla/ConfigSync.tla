----------------------------- MODULE ConfigSync -----------------------------
(***************************************************************************)
(* The configuration in memory and three of the store's buckets: what      *)
(* syncConfig writes, what the API edits, what the purges delete and what  *)
(* results put back.  Sources: internal/monitoring/engine.go and           *)
(* alert_manager_simple.go, internal/web/handlers.go and                   *)
(* purge_handlers.go, and the store operations they call.                  *)
(*                                                                         *)
(* Every goroutine that does one of these works through a plan, a list of  *)
(* phases, one store transaction per step; Main is the one that starts the *)
(* engine and later runs the periodic purge, the others serve requests.    *)
(* Of the fields of a host and a check only those are kept that decide     *)
(* what is monitored.                                                      *)
(*                                                                         *)
(* The definitions called Faulty... are slips a change to the code could   *)
(* make; each breaks a property below.                                     *)
(***************************************************************************)
EXTENDS Naturals, Sequences

CONSTANTS
  HostIds, CheckIds,
  HostValues,     \* what a host may be, as a record with its enabled flag
  CheckValues,    \* what a check may be, as a record with its hosts and enabled flag
  Configs,        \* the configurations the process may be started with
  Main,           \* the goroutine of the engine
  Requests        \* the goroutines of API requests

Threads == {Main} \cup Requests

PartialMaps(S, V) == UNION {[D -> V] : D \in SUBSET S}

ASSUME ThreadAssumption == Main \notin Requests
ASSUME ValueAssumption ==
  /\ HostValues \subseteq [enabled : BOOLEAN]
  /\ CheckValues \subseteq [hosts : SUBSET HostIds, enabled : BOOLEAN]
ASSUME ConfigAssumption ==
  \A c \in Configs : /\ DOMAIN c.hosts \subseteq HostIds
                     /\ c.hosts \in [DOMAIN c.hosts -> HostValues]
                     /\ DOMAIN c.checks \subseteq CheckIds
                     /\ c.checks \in [DOMAIN c.checks -> CheckValues]

VARIABLES
  up,         \* the process runs
  calm,       \* the world has stopped making requests and killing the process
  config,     \* engine.config and alertManager.config: read once, at the start
  hosts,      \* the hosts bucket, a map from ids
  checks,     \* the checks bucket
  statuses,   \* the keys of the status bucket: pairs of a host and a check
  flight,     \* the pairs with a job or a result on its way
  task        \* what each goroutine is doing

vars == <<up, calm, config, hosts, checks, statuses, flight, task>>

Pairs == HostIds \X CheckIds

-----------------------------------------------------------------------------
(* Plans.  A task has the phases still to do, what is left of the first    *)
(* one, and the edit it has read a host or a check for.                    *)

SyncConfig == <<"syncHosts", "syncChecks">>
PurgeAll == <<"orphanHosts", "orphanChecks", "staleAlerts">>

Purges == {<<"orphanHosts">>, <<"orphanChecks">>, <<"staleAlerts">>, PurgeAll}
Refresh == SyncConfig \o PurgeAll       \* RefreshConfigWithPurge

Phases == {"syncHosts", "syncChecks", "orphanHosts", "orphanChecks", "staleAlerts"}

NoEdit == [on |-> "nothing"]
HostEdit(h, v) == [on |-> "host", id |-> h, value |-> v]
CheckEdit(c, v) == [on |-> "check", id |-> c, value |-> v]

Idle == [plan |-> <<>>, todo |-> {}, edit |-> NoEdit]

Busy(t) == task[t] # Idle

In(t, phase) == task[t].plan # <<>> /\ Head(task[t].plan) = phase

\* getValidHostCheckCombinations: the pairs the configuration monitors.
Valid == {p \in Pairs :
            /\ p[2] \in DOMAIN config.checks
            /\ config.checks[p[2]].enabled /\ p[1] \in config.checks[p[2]].hosts
            /\ p[1] \in DOMAIN config.hosts /\ config.hosts[p[1]].enabled}

\* Faulty: the purge of the alerts leaves those of removed hosts to the purge of hosts.
FaultyWork(phase) ==
  CASE phase = "syncHosts"    -> DOMAIN config.hosts
    [] phase = "syncChecks"   -> DOMAIN config.checks
    [] phase = "orphanHosts"  -> DOMAIN hosts \ DOMAIN config.hosts
    [] phase = "orphanChecks" -> DOMAIN checks \ DOMAIN config.checks
    [] phase = "staleAlerts"  -> {p \in statuses \ Valid : p[1] \in DOMAIN config.hosts}

\* What a phase finds to do when it begins.
Work(phase) == CASE phase = "syncHosts"    -> DOMAIN config.hosts
                 [] phase = "syncChecks"   -> DOMAIN config.checks
                 [] phase = "orphanHosts"  -> DOMAIN hosts \ DOMAIN config.hosts
                 [] phase = "orphanChecks" -> DOMAIN checks \ DOMAIN config.checks
                 [] phase = "staleAlerts"  -> statuses \ Valid

Starting(plan) == [plan |-> plan, todo |-> Work(Head(plan)), edit |-> NoEdit]

-----------------------------------------------------------------------------
Put(map, k, v) == [x \in DOMAIN map \cup {k} |-> IF x = k THEN v ELSE map[x]]

Without(map, k) == [x \in DOMAIN map \ {k} |-> map[x]]

Empty == [x \in {} |-> x]

Init == /\ up = FALSE /\ calm = FALSE
        /\ config \in Configs
        /\ hosts = Empty /\ checks = Empty
        /\ statuses = {} /\ flight = {}
        /\ task = [t \in Threads |-> Idle]

\* main: the file is read, perhaps edited since the last time; Engine.Start syncs it.
Boot ==
  /\ ~up
  /\ up' = TRUE
  /\ config' \in Configs
  /\ task' = [task EXCEPT ![Main] =
                [plan |-> SyncConfig, todo |-> DOMAIN config'.hosts, edit |-> NoEdit]]
  /\ UNCHANGED <<calm, hosts, checks, statuses, flight>>

\* A crash or a signal: the buckets are what survives.
Crash ==
  /\ up /\ ~calm
  /\ up' = FALSE
  /\ flight' = {}
  /\ task' = [t \in Threads |-> Idle]
  /\ UNCHANGED <<calm, config, hosts, checks, statuses>>

\* From here on nobody sends requests and nothing kills the process.
CalmDown ==
  /\ up /\ ~calm
  /\ calm' = TRUE
  /\ UNCHANGED <<up, config, hosts, checks, statuses, flight, task>>

-----------------------------------------------------------------------------
(* Requests.                                                               *)

Request(t) ==
  /\ up /\ ~calm
  /\ t \in Requests /\ ~Busy(t)
  /\ UNCHANGED <<up, calm, config, statuses, flight>>

\* The request refreshes the configuration and is answered after that.
ThenSync(t) == task' = [task EXCEPT ![t] = [Starting(SyncConfig) EXCEPT !.edit = task[t].edit]]

\* createHost and createCheck: the id is new, a random one.
CreateHost(t, h, v) ==
  /\ Request(t)
  /\ h \notin DOMAIN hosts \cup DOMAIN config.hosts
  /\ hosts' = Put(hosts, h, v)
  /\ ThenSync(t)
  /\ UNCHANGED checks

CreateCheck(t, c, v) ==
  /\ Request(t)
  /\ c \notin DOMAIN checks \cup DOMAIN config.checks
  /\ checks' = Put(checks, c, v)
  /\ ThenSync(t)
  /\ UNCHANGED hosts

\* updateHost and updateCheck read first, and answer "not found" if there is nothing.
ReadHost(t, h, v) ==
  /\ Request(t)
  /\ h \in DOMAIN hosts
  /\ task' = [task EXCEPT ![t] = [plan |-> <<>>, todo |-> {}, edit |-> HostEdit(h, v)]]
  /\ UNCHANGED <<hosts, checks>>

ReadCheck(t, c, v) ==
  /\ Request(t)
  /\ c \in DOMAIN checks
  /\ task' = [task EXCEPT ![t] = [plan |-> <<>>, todo |-> {}, edit |-> CheckEdit(c, v)]]
  /\ UNCHANGED <<hosts, checks>>

\* The second half of an update: the store puts the record back, whatever became of
\* it in between; then RefreshConfig.
UpdateHost(t) ==
  /\ up
  /\ task[t].plan = <<>> /\ task[t].edit.on = "host"
  /\ hosts' = Put(hosts, task[t].edit.id, task[t].edit.value)
  /\ ThenSync(t)
  /\ UNCHANGED <<up, calm, config, checks, statuses, flight>>

UpdateCheck(t) ==
  /\ up
  /\ task[t].plan = <<>> /\ task[t].edit.on = "check"
  /\ checks' = Put(checks, task[t].edit.id, task[t].edit.value)
  /\ ThenSync(t)
  /\ UNCHANGED <<up, calm, config, hosts, statuses, flight>>

\* deleteHost does not look first; deleteCheck does.  Neither touches the statuses.
DeleteHost(t, h) ==
  /\ Request(t)
  /\ hosts' = Without(hosts, h)
  /\ ThenSync(t)
  /\ UNCHANGED checks

DeleteCheck(t, c) ==
  /\ Request(t)
  /\ c \in DOMAIN checks
  /\ checks' = Without(checks, c)
  /\ ThenSync(t)
  /\ UNCHANGED hosts

RequestPlan(t) ==
  /\ Request(t)
  /\ \E plan \in Purges \cup {Refresh} : task' = [task EXCEPT ![t] = Starting(plan)]
  /\ UNCHANGED <<hosts, checks>>

-----------------------------------------------------------------------------
(* The steps of a plan.                                                    *)

Step(t, phase, x) ==
  /\ up
  /\ In(t, phase)
  /\ x \in task[t].todo
  /\ task' = [task EXCEPT ![t].todo = @ \ {x}]
  /\ UNCHANGED <<up, calm, config, flight>>

\* A sync that only creates what is missing.
FaultySyncHost(t, h) ==
  /\ Step(t, "syncHosts", h)
  /\ hosts' = IF h \in DOMAIN hosts THEN hosts ELSE Put(hosts, h, config.hosts[h])
  /\ UNCHANGED <<checks, statuses>>

\* Create or update: either way the record ends with the fields of the configuration.
SyncHost(t, h) == /\ Step(t, "syncHosts", h)
                  /\ hosts' = Put(hosts, h, config.hosts[h])
                  /\ UNCHANGED <<checks, statuses>>

SyncCheck(t, c) == /\ Step(t, "syncChecks", c)
                   /\ checks' = Put(checks, c, config.checks[c])
                   /\ UNCHANGED <<hosts, statuses>>

PurgeHost(t, h) == /\ Step(t, "orphanHosts", h)
                   /\ hosts' = Without(hosts, h)
                   /\ UNCHANGED <<checks, statuses>>

PurgeCheck(t, c) == /\ Step(t, "orphanChecks", c)
                    /\ checks' = Without(checks, c)
                    /\ UNCHANGED <<hosts, statuses>>

PurgeAlert(t, p) == /\ Step(t, "staleAlerts", p)
                    /\ statuses' = statuses \ {p}
                    /\ UNCHANGED <<hosts, checks>>

\* The next phase reads what it has to do now; after the last one the task is over.
NextPhase(t) ==
  /\ up
  /\ task[t].plan # <<>> /\ task[t].todo = {}
  /\ task' = [task EXCEPT ![t] =
                IF Len(task[t].plan) = 1 THEN Idle
                ELSE [Starting(Tail(task[t].plan)) EXCEPT !.edit = task[t].edit]]
  /\ UNCHANGED <<up, calm, config, hosts, checks, statuses, flight>>

\* At the start, and then at every tick of the cleanup interval (hours, so that the
\* first purge has ended by then; a request's purge may overlap either).
PeriodicPurge ==
  /\ up
  /\ ~Busy(Main)
  /\ task' = [task EXCEPT ![Main] = Starting(PurgeAll)]
  /\ UNCHANGED <<up, calm, config, hosts, checks, statuses, flight>>

-----------------------------------------------------------------------------
(* The scheduler, which starts when Main has synced.  Its passes, queues   *)
(* and workers are in Scheduler; here it is the set of pairs that have a   *)
(* job or a result on the way, from which a result comes at any later time.*)

Scheduling == up /\ ~In(Main, "syncHosts") /\ ~In(Main, "syncChecks")

Schedule(p) ==
  /\ Scheduling
  /\ p \notin flight
  /\ p[2] \in DOMAIN checks /\ checks[p[2]].enabled /\ p[1] \in checks[p[2]].hosts
  /\ p[1] \in DOMAIN hosts /\ hosts[p[1]].enabled
  /\ flight' = flight \cup {p}
  /\ UNCHANGED <<up, calm, config, hosts, checks, statuses, task>>

\* UpdateStatus writes the status, without a look at the hosts and the checks.
StoreResult(p) ==
  /\ up
  /\ p \in flight
  /\ flight' = flight \ {p}
  /\ statuses' = statuses \cup {p}
  /\ UNCHANGED <<up, calm, config, hosts, checks, task>>

-----------------------------------------------------------------------------
Edits(t) ==
  \/ \E h \in HostIds, v \in HostValues : CreateHost(t, h, v) \/ ReadHost(t, h, v)
  \/ \E c \in CheckIds, v \in CheckValues : CreateCheck(t, c, v) \/ ReadCheck(t, c, v)
  \/ \E h \in HostIds : DeleteHost(t, h)
  \/ \E c \in CheckIds : DeleteCheck(t, c)
  \/ RequestPlan(t)

Work1(t) ==
  \/ UpdateHost(t) \/ UpdateCheck(t)
  \/ \E h \in HostIds : SyncHost(t, h) \/ PurgeHost(t, h)
  \/ \E c \in CheckIds : SyncCheck(t, c) \/ PurgeCheck(t, c)
  \/ \E p \in Pairs : PurgeAlert(t, p)
  \/ NextPhase(t)

Next ==
  \/ Boot \/ Crash \/ CalmDown
  \/ \E t \in Threads : Edits(t) \/ Work1(t)
  \/ PeriodicPurge
  \/ \E p \in Pairs : Schedule(p) \/ StoreResult(p)

Spec == Init /\ [][Next]_vars

(***************************************************************************)
(* Every goroutine that has something to do goes on; the ticker of the     *)
(* cleanup interval keeps ticking; a worker's check ends by its timeout.   *)
(***************************************************************************)
Fairness == /\ \A t \in Threads : WF_vars(Work1(t))
            /\ WF_vars(PeriodicPurge)
            /\ \A p \in Pairs : WF_vars(StoreResult(p))

FairSpec == Spec /\ Fairness

-----------------------------------------------------------------------------
(* Properties.                                                             *)

\* A task that has still to write x in the phase.
Will(t, phase, x) == \E i \in 1..Len(task[t].plan) :
                       task[t].plan[i] = phase /\ (i = 1 => x \in task[t].todo)

\* While the process runs, a host or a check of the configuration differs from its
\* record only as long as some goroutine has still to sync it: every edit and every
\* delete brings its own sync, and no purge takes what another one synced.
ConfigWins ==
  up => /\ \A h \in DOMAIN config.hosts :
             \/ h \in DOMAIN hosts /\ hosts[h] = config.hosts[h]
             \/ \E t \in Threads : Will(t, "syncHosts", h)
        /\ \A c \in DOMAIN config.checks :
             \/ c \in DOMAIN checks /\ checks[c] = config.checks[c]
             \/ \E t \in Threads : Will(t, "syncChecks", c)

\* What the buckets hold when nothing of the past is left.
Clean == hosts = config.hosts /\ checks = config.checks /\ statuses \subseteq Valid

\* Once the requests stop, the sync every edit brings and the periodic purge leave
\* exactly what is configured, and no alert of anything else: edits half done, late
\* results, purges that overlap and restarts on another file leave nothing behind.
Converges == <>calm => <>[]Clean

\* app.js:579 "Host updated successfully": when an update is answered, the host is
\* as it was asked to be.
UpdateSticks ==
  [][\A t \in Requests :
       task[t].edit.on = "host" /\ task[t].plan # <<>> /\ task'[t] = Idle /\ up'
         => /\ task[t].edit.id \in DOMAIN hosts'
            /\ hosts'[task[t].edit.id] = task[t].edit.value]_vars
=============================================================================

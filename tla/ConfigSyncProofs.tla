-------------------------- MODULE ConfigSyncProofs --------------------------
(***************************************************************************)
(* That the configuration wins (ConfigSync), for any hosts, checks and     *)
(* configurations and any number of requests at once.  Everything that     *)
(* takes a configured record away begins its own sync in the same step,    *)
(* except the purges; for these the invariant says besides that what one   *)
(* has still to delete was never configured: configurations only change    *)
(* with the process, which ends all purges.                                *)
(***************************************************************************)
EXTENDS ConfigSync, TLAPS, SequenceTheorems

TaskShape ==
  /\ task = [t \in Threads |-> task[t]]
  /\ \A t \in Threads :
       /\ task[t] = [plan |-> task[t].plan, todo |-> task[t].todo, edit |-> task[t].edit]
       /\ task[t].plan \in Seq(Phases)

\* The end of the process ends all it was doing.
DownIsIdle == ~up => \A t \in Threads : task[t] = Idle

PurgesSpare ==
  \A t \in Threads :
    /\ In(t, "orphanHosts") => \A x \in task[t].todo : x \notin DOMAIN config.hosts
    /\ In(t, "orphanChecks") => \A x \in task[t].todo : x \notin DOMAIN config.checks

Inv == TaskShape /\ DownIsIdle /\ PurgesSpare /\ ConfigWins

-----------------------------------------------------------------------------
(* Lemmas about plans.                                                     *)

LEMMA IdleShape ==
  /\ Idle = [plan |-> Idle.plan, todo |-> Idle.todo, edit |-> Idle.edit]
  /\ Idle.plan = <<>> /\ Idle.plan \in Seq(Phases)
BY DEF Idle

LEMMA PlansArePlans ==
  /\ SyncConfig \in Seq(Phases) /\ Len(SyncConfig) = 2
  /\ SyncConfig[1] = "syncHosts" /\ SyncConfig[2] = "syncChecks"
  /\ SyncConfig # <<>> /\ Head(SyncConfig) = "syncHosts"
  /\ \A plan \in Purges \cup {Refresh} : plan \in Seq(Phases) /\ plan # <<>>
  /\ PurgeAll \in Purges
<1>1. /\ SyncConfig \in Seq(Phases) /\ Len(SyncConfig) = 2
      /\ SyncConfig[1] = "syncHosts" /\ SyncConfig[2] = "syncChecks"
      /\ SyncConfig # <<>> /\ Head(SyncConfig) = "syncHosts"
  BY DEF SyncConfig, Phases
<1>2. PurgeAll \in Seq(Phases) /\ PurgeAll # <<>>
  BY DEF PurgeAll, Phases
<1>3. /\ <<"orphanHosts">> \in Seq(Phases) /\ <<"orphanChecks">> \in Seq(Phases)
      /\ <<"staleAlerts">> \in Seq(Phases)
      /\ <<"orphanHosts">> # <<>> /\ <<"orphanChecks">> # <<>> /\ <<"staleAlerts">> # <<>>
  BY DEF Phases
<1>4. Refresh \in Seq(Phases) /\ Refresh # <<>>
  <2>1. Refresh \in Seq(Phases) /\ Len(Refresh) = Len(SyncConfig) + Len(PurgeAll)
    BY <1>1, <1>2, ConcatProperties DEF Refresh
  <2> QED
    BY <1>1, <1>2, <2>1
<1> QED
  BY <1>1, <1>2, <1>3, <1>4 DEF Purges

\* A goroutine that syncs from the beginning will write every record.
LEMMA SyncingWritesAll ==
  ASSUME NEW t \in Threads, task'[t].plan = SyncConfig, task'[t].todo = DOMAIN config'.hosts
  PROVE  ConfigWins'
<1>1. \A h \in DOMAIN config'.hosts : Will(t, "syncHosts", h)'
  BY PlansArePlans DEF Will
<1>2. \A c \in DOMAIN config'.checks : Will(t, "syncChecks", c)'
  BY PlansArePlans DEF Will
<1> QED
  BY <1>1, <1>2 DEF ConfigWins

\* A step of one goroutine leaves what the others will do alone.
LEMMA OneTask ==
  ASSUME TaskShape, NEW t \in Threads, NEW x, task' = [task EXCEPT ![t] = x],
         x = [plan |-> x.plan, todo |-> x.todo, edit |-> x.edit], x.plan \in Seq(Phases)
  PROVE  /\ TaskShape'
         /\ task'[t] = x
         /\ \A u \in Threads \ {t} : task'[u] = task[u]
<1>1. task'[t] = x /\ \A u \in Threads \ {t} : task'[u] = task[u]
  BY DEF TaskShape
<1>2. task' = [u \in Threads |-> task'[u]]
  BY DEF TaskShape
<1> QED
  BY <1>1, <1>2 DEF TaskShape

LEMMA StartingShape ==
  ASSUME NEW plan \in Seq(Phases), plan # <<>>
  PROVE  /\ Starting(plan).plan = plan /\ Starting(plan).todo = Work(Head(plan))
         /\ Starting(plan) = [plan |-> Starting(plan).plan, todo |-> Starting(plan).todo,
                              edit |-> Starting(plan).edit]
         /\ \A e : [Starting(plan) EXCEPT !.edit = e] = [plan |-> plan, todo |-> Work(Head(plan)), edit |-> e]
BY DEF Starting

LEMMA WorkOfPhases ==
  /\ Work("syncHosts") = DOMAIN config.hosts
  /\ Work("syncChecks") = DOMAIN config.checks
  /\ \A x \in Work("orphanHosts") : x \notin DOMAIN config.hosts
  /\ \A x \in Work("orphanChecks") : x \notin DOMAIN config.checks
BY DEF Work

\* A phase that begins spares what is configured.
LEMMA BeginningSpares ==
  ASSUME PurgesSpare, TaskShape, NEW t \in Threads, UNCHANGED config,
         \A u \in Threads \ {t} : task'[u] = task[u],
         task'[t].plan # <<>> => task'[t].todo = Work(Head(task'[t].plan))
  PROVE  PurgesSpare'
BY WorkOfPhases DEF PurgesSpare, In

-----------------------------------------------------------------------------
(* Requests and the beginning of plans.                                    *)

\* Whatever was done to the records, it is followed by its own sync.
LEMMA ThenSyncKeepsInv ==
  ASSUME Inv, NEW t \in Threads, up, up' = up, config' = config, ThenSync(t)
  PROVE  Inv'
<1> USE DEF Inv
<1> DEFINE next == [plan |-> SyncConfig, todo |-> Work("syncHosts"), edit |-> task[t].edit]
<1>1. task' = [task EXCEPT ![t] = next]
  <2>1. [Starting(SyncConfig) EXCEPT !.edit = task[t].edit]
          = [plan |-> SyncConfig, todo |-> Work(Head(SyncConfig)), edit |-> task[t].edit]
    BY PlansArePlans, StartingShape
  <2> QED
    BY <2>1, PlansArePlans DEF ThenSync
<1>2. /\ TaskShape' /\ task'[t] = next
      /\ \A u \in Threads \ {t} : task'[u] = task[u]
  BY <1>1, OneTask, PlansArePlans
<1>3. ConfigWins'
  BY <1>2, SyncingWritesAll, WorkOfPhases
<1>4. PurgesSpare'
  BY <1>2, BeginningSpares, PlansArePlans
<1> QED
  BY <1>2, <1>3, <1>4 DEF DownIsIdle

\* A goroutine that had nothing to do will do no less when it has something.
LEMMA BeginningKeepsInv ==
  ASSUME Inv, NEW t \in Threads, task[t] = Idle, up, UNCHANGED <<up, config, hosts, checks>>,
         NEW plan \in Seq(Phases), NEW todo, NEW edit, plan # <<>> => todo = Work(Head(plan)),
         task' = [task EXCEPT ![t] = [plan |-> plan, todo |-> todo, edit |-> edit]]
  PROVE  Inv'
<1> USE DEF Inv
<1>1. /\ TaskShape' /\ task'[t] = [plan |-> plan, todo |-> todo, edit |-> edit]
      /\ \A u \in Threads \ {t} : task'[u] = task[u]
  BY OneTask
<1>2. PurgesSpare'
  BY <1>1, BeginningSpares
<1>3. \A u \in Threads : \A phase, x : Will(u, phase, x) => Will(u, phase, x)'
  <2> SUFFICES ASSUME NEW u \in Threads, NEW phase, NEW x, Will(u, phase, x)
               PROVE  Will(u, phase, x)'
    OBVIOUS
  <2>1. u # t
    BY IdleShape DEF Will
  <2> QED
    BY <1>1, <2>1 DEF Will
<1>4. ConfigWins'
  BY <1>3 DEF ConfigWins
<1> QED
  BY <1>1, <1>2, <1>4 DEF DownIsIdle

LEMMA EditsKeepInv ==
  ASSUME Inv, NEW t \in Threads, Edits(t)
  PROVE  Inv'
<1> USE DEF Inv
<1>1. up /\ up' = up /\ config' = config /\ task[t] = Idle
  BY DEF Edits, CreateHost, ReadHost, CreateCheck, ReadCheck, DeleteHost, DeleteCheck,
         RequestPlan, Request, Busy
<1>2. CASE ThenSync(t)
  BY <1>1, <1>2, ThenSyncKeepsInv
<1>3. ASSUME NEW edit, task' = [task EXCEPT ![t] = [plan |-> <<>>, todo |-> {}, edit |-> edit]],
             UNCHANGED <<hosts, checks>>
      PROVE  Inv'
  <2>1. <<>> \in Seq(Phases)
    OBVIOUS
  <2> QED
    BY <1>1, <1>3, <2>1, BeginningKeepsInv
<1>4. CASE RequestPlan(t)
  <2>1. PICK plan \in Purges \cup {Refresh} : task' = [task EXCEPT ![t] = Starting(plan)]
    BY <1>4 DEF RequestPlan
  <2>2. plan \in Seq(Phases) /\ plan # <<>>
    BY PlansArePlans
  <2> QED
    BY <1>1, <1>4, <2>1, <2>2, BeginningKeepsInv DEF Starting, RequestPlan, Request
<1> QED
  BY <1>2, <1>3, <1>4 DEF Edits, CreateHost, ReadHost, CreateCheck, ReadCheck, DeleteHost, DeleteCheck

-----------------------------------------------------------------------------
(* The steps of a plan.                                                    *)

\* One thing less to do, and nothing else.
LEMMA StepEffect ==
  ASSUME Inv, NEW t \in Threads, NEW phase, NEW x, Step(t, phase, x)
  PROVE  /\ TaskShape' /\ DownIsIdle' /\ PurgesSpare'
         /\ \A u \in Threads : \A p, y :
              Will(u, p, y) /\ ~(u = t /\ p = phase /\ y = x) => Will(u, p, y)'
<1> USE DEF Inv
<1> DEFINE next == [plan |-> task[t].plan, todo |-> task[t].todo \ {x}, edit |-> task[t].edit]
<1>1. task[t] = [plan |-> task[t].plan, todo |-> task[t].todo, edit |-> task[t].edit]
  BY DEF TaskShape
<1>2. [task[t] EXCEPT !.todo = task[t].todo \ {x}] = next
  BY <1>1
<1>3. task' = [task EXCEPT ![t] = next]
  BY <1>2 DEF Step, TaskShape
<1>4. next.plan \in Seq(Phases)
  BY DEF TaskShape
<1>5. /\ TaskShape' /\ task'[t] = next
      /\ \A u \in Threads \ {t} : task'[u] = task[u]
  BY <1>3, <1>4, OneTask
<1>6. PurgesSpare'
  BY <1>5 DEF PurgesSpare, In, Step
<1>7. ASSUME NEW u \in Threads, NEW p, NEW y, Will(u, p, y), ~(u = t /\ p = phase /\ y = x)
      PROVE  Will(u, p, y)'
  <2>1. CASE u = t
    <3>1. PICK i \in 1 .. Len(task[t].plan) : task[t].plan[i] = p /\ (i = 1 => y \in task[t].todo)
      BY <1>7, <2>1 DEF Will
    <3>2. i = 1 => p = phase
      BY <3>1 DEF Step, In
    <3>3. i = 1 => y \in task'[t].todo
      BY <1>5, <1>7, <2>1, <3>1, <3>2
    <3> QED
      BY <1>5, <2>1, <3>1, <3>3 DEF Will
  <2>2. CASE u # t
    BY <1>5, <1>7, <2>2 DEF Will
  <2> QED
    BY <2>1, <2>2
<1> QED
  BY <1>5, <1>6, <1>7 DEF DownIsIdle, Step

LEMMA PhaseStepsKeepInv ==
  ASSUME Inv, NEW t \in Threads,
         \/ \E h \in HostIds : SyncHost(t, h) \/ PurgeHost(t, h)
         \/ \E c \in CheckIds : SyncCheck(t, c) \/ PurgeCheck(t, c)
         \/ \E p \in Pairs : PurgeAlert(t, p)
  PROVE  Inv'
<1>1. ASSUME NEW h \in HostIds, SyncHost(t, h)
      PROVE  Inv'
  <2>1. Step(t, "syncHosts", h) /\ hosts' = Put(hosts, h, config.hosts[h]) /\ checks' = checks
    BY <1>1 DEF SyncHost
  <2>2. up' = up /\ config' = config
    BY <2>1 DEF Step
  <2>3. \A g \in DOMAIN config.hosts :
           IF g = h THEN g \in DOMAIN hosts' /\ hosts'[g] = config.hosts[g]
           ELSE g \in DOMAIN hosts => g \in DOMAIN hosts' /\ hosts'[g] = hosts[g]
    BY <2>1 DEF Put
  <2> QED
    BY <2>1, <2>2, <2>3, StepEffect DEF Inv, ConfigWins
<1>2. ASSUME NEW c \in CheckIds, SyncCheck(t, c)
      PROVE  Inv'
  <2>1. Step(t, "syncChecks", c) /\ checks' = Put(checks, c, config.checks[c]) /\ hosts' = hosts
    BY <1>2 DEF SyncCheck
  <2>2. up' = up /\ config' = config
    BY <2>1 DEF Step
  <2>3. \A d \in DOMAIN config.checks :
           IF d = c THEN d \in DOMAIN checks' /\ checks'[d] = config.checks[d]
           ELSE d \in DOMAIN checks => d \in DOMAIN checks' /\ checks'[d] = checks[d]
    BY <2>1 DEF Put
  <2> QED
    BY <2>1, <2>2, <2>3, StepEffect DEF Inv, ConfigWins
<1>3. ASSUME NEW h \in HostIds, PurgeHost(t, h)
      PROVE  Inv'
  <2>1. Step(t, "orphanHosts", h) /\ hosts' = Without(hosts, h) /\ checks' = checks
    BY <1>3 DEF PurgeHost
  <2>2. up' = up /\ config' = config /\ h \notin DOMAIN config.hosts
    BY <2>1 DEF Step, Inv, PurgesSpare
  <2>3. \A g \in DOMAIN config.hosts : g \in DOMAIN hosts => g \in DOMAIN hosts' /\ hosts'[g] = hosts[g]
    BY <2>1, <2>2 DEF Without
  <2> QED
    BY <2>1, <2>2, <2>3, StepEffect DEF Inv, ConfigWins
<1>4. ASSUME NEW c \in CheckIds, PurgeCheck(t, c)
      PROVE  Inv'
  <2>1. Step(t, "orphanChecks", c) /\ checks' = Without(checks, c) /\ hosts' = hosts
    BY <1>4 DEF PurgeCheck
  <2>2. up' = up /\ config' = config /\ c \notin DOMAIN config.checks
    BY <2>1 DEF Step, Inv, PurgesSpare
  <2>3. \A d \in DOMAIN config.checks : d \in DOMAIN checks => d \in DOMAIN checks' /\ checks'[d] = checks[d]
    BY <2>1, <2>2 DEF Without
  <2> QED
    BY <2>1, <2>2, <2>3, StepEffect DEF Inv, ConfigWins
<1>5. ASSUME NEW p \in Pairs, PurgeAlert(t, p)
      PROVE  Inv'
  <2>1. Step(t, "staleAlerts", p) /\ UNCHANGED <<hosts, checks>>
    BY <1>5 DEF PurgeAlert
  <2>2. up' = up /\ config' = config
    BY <2>1 DEF Step
  <2> QED
    BY <2>1, <2>2, StepEffect DEF Inv, ConfigWins
<1> QED
  BY <1>1, <1>2, <1>3, <1>4, <1>5

\* What a phase had to do is done; what later phases will do, they will do still.
LEMMA NextPhaseKeepsInv ==
  ASSUME Inv, NEW t \in Threads, NextPhase(t)
  PROVE  Inv'
<1> USE DEF Inv
<1> DEFINE plan == task[t].plan
           rest == Tail(plan)
<1>1. /\ plan \in Seq(Phases) /\ plan # <<>> /\ task[t].todo = {}
      /\ UNCHANGED <<up, config, hosts, checks>> /\ up
  BY DEF NextPhase, TaskShape
<1>2. CASE Len(plan) = 1
  <2>1. task' = [task EXCEPT ![t] = Idle]
    BY <1>2 DEF NextPhase
  <2>2. /\ TaskShape' /\ task'[t] = Idle
        /\ \A u \in Threads \ {t} : task'[u] = task[u]
    BY <2>1, OneTask, IdleShape
  <2>3. PurgesSpare'
    BY <1>1, <2>2, BeginningSpares, IdleShape
  <2>4. \A phase, x : ~Will(t, phase, x)
    BY <1>1, <1>2 DEF Will
  <2>5. \A u \in Threads : \A phase, x : Will(u, phase, x) => Will(u, phase, x)'
    BY <2>2, <2>4 DEF Will
  <2> QED
    BY <1>1, <2>2, <2>3, <2>5 DEF ConfigWins, DownIsIdle
<1>3. CASE Len(plan) # 1
  <2>1. rest \in Seq(Phases) /\ rest # <<>> /\ Len(rest) = Len(plan) - 1
        /\ \A i \in 1 .. Len(rest) : rest[i] = plan[i + 1]
    <3>1. /\ rest \in Seq(Phases) /\ Len(rest) = Len(plan) - 1
          /\ \A i \in 1 .. Len(rest) : rest[i] = plan[i + 1]
      BY <1>1, HeadTailProperties
    <3>2. Len(plan) \in Nat /\ Len(plan) # 0
      BY <1>1
    <3>3. Len(rest) # 0
      BY <1>3, <3>1, <3>2
    <3>4. Len(<<>>) = 0
      OBVIOUS
    <3>5. rest # <<>>
      BY <3>3, <3>4, Zenon
    <3> QED
      BY <3>1, <3>5
  <2>2. task' = [task EXCEPT ![t] = [plan |-> rest, todo |-> Work(Head(rest)), edit |-> task[t].edit]]
    BY <1>3, <2>1, StartingShape DEF NextPhase
  <2>3. /\ TaskShape'
        /\ task'[t] = [plan |-> rest, todo |-> Work(Head(rest)), edit |-> task[t].edit]
        /\ \A u \in Threads \ {t} : task'[u] = task[u]
    BY <2>1, <2>2, OneTask
  <2>4. PurgesSpare'
    BY <1>1, <2>3, BeginningSpares
  <2>5. ASSUME NEW phase, NEW x, Will(t, phase, x), x \in Work(phase)
        PROVE  Will(t, phase, x)'
    <3>1. PICK i \in 1 .. Len(plan) : plan[i] = phase /\ (i = 1 => x \in task[t].todo)
      BY <2>5 DEF Will
    <3>2. i - 1 \in 1 .. Len(rest) /\ rest[i - 1] = phase
      BY <1>1, <2>1, <3>1
    <3>3. i - 1 = 1 => x \in Work(Head(rest))
      BY <2>1, <2>5, <3>2
    <3>4. task'[t].plan = rest /\ task'[t].todo = Work(Head(rest))
      BY <2>3
    <3> HIDE DEF rest
    <3> QED
      BY <3>2, <3>3, <3>4 DEF Will
  <2>6. ASSUME NEW u \in Threads, NEW phase, NEW x, Will(u, phase, x), x \in Work(phase)
        PROVE  Will(u, phase, x)'
    <3>1. CASE u = t
      BY <2>5, <2>6, <3>1
    <3>2. CASE u # t
      BY <2>3, <2>6, <3>2 DEF Will
    <3> QED
      BY <3>1, <3>2
  <2>7. ConfigWins'
    BY <1>1, <2>6, WorkOfPhases DEF ConfigWins
  <2> QED
    BY <1>1, <2>3, <2>4, <2>7 DEF DownIsIdle
<1> QED
  BY <1>2, <1>3

-----------------------------------------------------------------------------
LEMMA InitInv == Init => Inv
<1> SUFFICES ASSUME Init
             PROVE  Inv
  OBVIOUS
<1>1. \A t \in Threads : task[t] = Idle
  BY DEF Init
<1>2. TaskShape
  BY <1>1, IdleShape DEF Init, TaskShape
<1>3. DownIsIdle /\ PurgesSpare /\ ConfigWins
  BY <1>1, IdleShape DEF Init, DownIsIdle, PurgesSpare, In, ConfigWins
<1> QED
  BY <1>2, <1>3 DEF Inv

LEMMA BootKeepsInv ==
  ASSUME Inv, Boot
  PROVE  Inv'
<1> DEFINE next == [plan |-> SyncConfig, todo |-> DOMAIN config'.hosts, edit |-> NoEdit]
<1>1. Main \in Threads /\ \A t \in Threads : task[t] = Idle
  BY DEF Threads, Inv, DownIsIdle, Boot
<1>2. /\ TaskShape' /\ task'[Main] = next
      /\ \A u \in Threads \ {Main} : task'[u] = task[u]
  BY <1>1, OneTask, PlansArePlans DEF Inv, Boot
<1>3. ConfigWins'
  BY <1>1, <1>2, SyncingWritesAll
<1>4. PurgesSpare'
  <2> SUFFICES ASSUME NEW t \in Threads
               PROVE  ~In(t, "orphanHosts")' /\ ~In(t, "orphanChecks")'
    BY DEF PurgesSpare
  <2> QED
    BY <1>1, <1>2, IdleShape, PlansArePlans DEF In
<1>5. DownIsIdle'
  BY DEF Boot, DownIsIdle
<1> QED
  BY <1>2, <1>3, <1>4, <1>5 DEF Inv

LEMMA NextKeepsInv == Inv /\ [Next]_vars => Inv'
<1> SUFFICES ASSUME Inv, [Next]_vars
             PROVE  Inv'
  OBVIOUS
<1>1. CASE Boot
  BY <1>1, BootKeepsInv
<1>2. CASE Crash
  <2>1. ~up' /\ task' = [t \in Threads |-> Idle] /\ \A t \in Threads : task'[t] = Idle
    BY <1>2 DEF Crash
  <2>2. TaskShape'
    BY <2>1, IdleShape DEF TaskShape
  <2>3. DownIsIdle' /\ PurgesSpare' /\ ConfigWins'
    BY <2>1, IdleShape DEF DownIsIdle, PurgesSpare, In, ConfigWins
  <2> QED
    BY <2>2, <2>3 DEF Inv
<1>3. ASSUME UNCHANGED <<up, config, hosts, checks, task>>
      PROVE  Inv'
  BY <1>3 DEF Inv, TaskShape, DownIsIdle, PurgesSpare, In, ConfigWins, Will
<1>4. CASE CalmDown \/ UNCHANGED vars
  BY <1>3, <1>4 DEF CalmDown, vars
<1>5. ASSUME NEW p \in Pairs, Schedule(p) \/ StoreResult(p)
      PROVE  Inv'
  BY <1>3, <1>5 DEF Schedule, StoreResult
<1>6. ASSUME NEW t \in Threads, Edits(t)
      PROVE  Inv'
  BY <1>6, EditsKeepInv
<1>7. ASSUME NEW t \in Threads, Work1(t)
      PROVE  Inv'
  <2>1. CASE UpdateHost(t) \/ UpdateCheck(t)
    BY <2>1, ThenSyncKeepsInv DEF UpdateHost, UpdateCheck
  <2> QED
    BY <1>7, <2>1, PhaseStepsKeepInv, NextPhaseKeepsInv DEF Work1
<1>8. CASE PeriodicPurge
  <2>1. Main \in Threads /\ task[Main] = Idle /\ task' = [task EXCEPT ![Main] = Starting(PurgeAll)]
        /\ up /\ UNCHANGED <<up, config, hosts, checks>>
    BY <1>8 DEF PeriodicPurge, Busy, Threads
  <2>2. PurgeAll \in Seq(Phases) /\ PurgeAll # <<>>
    BY PlansArePlans
  <2> QED
    BY <2>1, <2>2, BeginningKeepsInv DEF Starting
<1> QED
  BY <1>1, <1>2, <1>4, <1>5, <1>6, <1>7, <1>8 DEF Next

\* While the process runs, what differs from the configuration has still to be
\* synced (syncConfig, the handlers of hosts and checks, the purges).
THEOREM ConfigurationWins == Spec => []ConfigWins
<1>1. Inv => ConfigWins
  BY DEF Inv
<1> QED
  BY <1>1, InitInv, NextKeepsInv, PTL DEF Spec

\* What a purge has still to delete is not configured, whenever it read the
\* store and whatever was synced since (PurgeOrphanedHosts, PurgeOrphanedChecks).
THEOREM PurgesSpareConfigured == Spec => []PurgesSpare
<1>1. Inv => PurgesSpare
  BY DEF Inv
<1> QED
  BY <1>1, InitInv, NextKeepsInv, PTL DEF Spec
=============================================================================

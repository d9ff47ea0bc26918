# Raven: a verification of the monitoring core and its web front end

Raven polls hosts with checks, smooths failures ("soft fail"), stores the reported status of
every (host, check) pair in a bbolt file and shows it in a web interface. This directory holds
TLA+ models of the parts of it in which order, concurrency and failure matter, TLC runs over
small instances, and TLAPS proofs for all instances. Paths below are relative to the repository.

## 1. Inventory

| Part | Code | State | Operations |
|---|---|---|---|
| Soft-fail tracker | `internal/monitoring/scheduler.go` | `stateTracker.states`: per pair the reported and the pending state, a count, a threshold | `initializeStateTracker`, `updateStateTracker`, `handleResult` |
| Scheduler | same file | job and result queues (1000 each), workers, the running pass | `Start`, `processSchedule` every 30 s, `executeJob`, `processResults` |
| Plugins | `plugins.go` | none | `Execute` of `ping` and `nagios`; other types are "unknown check type" |
| Engine | `engine.go` | the configuration read at the start | `Start`, `RefreshConfig`, `RefreshConfigWithPurge`, `syncConfig`; `Stop` has no caller |
| Alert manager | `alert_manager_simple.go`, `web/purge_handlers.go` | the configuration | purge of hosts, checks, alerts; all three at the start, periodically and on request |
| Bolt store | `internal/database/*.go` | buckets hosts, checks, status, status history | one transaction per call; `CompactDatabase` (no caller) replaces the file |
| Web handlers | `internal/web/handlers.go`, `server.go` | none of their own | create, update, delete of hosts and checks; views of statuses and alerts |
| WebSocket hub | `internal/web/websocket.go` | the map of clients | connect, ping, read, `broadcast` (no caller) |
| Configuration | `internal/config/config.go` | the file and its includes | load, merge, defaults, validation |
| Main | `cmd/raven/main.go` | none | start, wait for a signal, sleep two seconds, close the store |
| Metrics | `internal/metrics/prometheus.go` | gauges | one update per result, one routine of the server |
| raven-discover | `cmd/raven-discover/main.go` | results of a scan | worker pool over the addresses of a network |
| Front end: pages | `web/js/app.js`, `components/*-detail-view.js` | the view, the details of a host and of an alert, loading flags | `setView`, `showHostDetail`, `showAlertDetail` and their awaits |
| Front end: lists, socket | `app.js`, `components/hosts-view.js` | lists, a shared loading flag, the order of the hosts view, the socket | `loadHosts`, `loadChecks`, `loadAlerts`, the refresh timer, `connectWebSocket` |
| Front end: edits | `app.js`, the two modals, `utils.js`, `api.js` | forms, records being edited, `saving`, the notification | open, cancel, save, delete, `showNotification` |
| Front end: what is shown | all views, `utils.js`, `api.js` | none: functions of the answers of the server | sorting, filtering, grading, naming, counting, CSV |

How they interact. The engine writes the configuration into the buckets `hosts` and `checks`;
the scheduler reads these two at every pass and never the configuration. A pass turns due pairs
into jobs; workers turn jobs into results; one result processor feeds each result to the tracker
and writes the state the tracker reports. API requests edit the two buckets beside all this and
then refresh, that is, write the configuration over the buckets again. Purges delete what the
configuration does not have. Nothing but the buckets survives the end of the process.

What is hard here, and what would make each part correct:

- *Tracker.* Sequences of results, restarts in the middle of one, writes that fail. Right if a
  reported state changes exactly after a full run of identical results (at once for a recovery),
  and no stored status becomes an alarm without such a run. Identical results are what the code
  counts; the document counts failures of any kind (section 5).
- *Scheduler.* Five kinds of goroutines and two bounded queues; duplicates of a job, results in
  another order than the jobs, jobs dropped. Right if it drives the tracker only in ways the
  tracker is right for, never hangs, and in the end shows what a host is.
- *Timing.* Interval, jitter, ticker and latency add up, in integer seconds. Right if checks are
  never later than these allow and an alarm is neither late nor premature.
- *Engine, purges, API.* Transactions of several goroutines over the same records. Right if the
  configuration wins in the end, whatever was half done, and an answered request is true.
- *Configuration.* Definitions of one check spread over files, pointers kept across an append,
  defaults set in a copy. Right if the result is what the documented rules make of the files.
- *Front end, in time.* Every method that loads is async, nothing is cancelled, and flags, details,
  forms and the notification are shared by whatever calls overlap. Right if no spinner or disabled
  button stays, pages show things that belong together, lists catch up, a record is only
  overwritten by its own form, and the connection is always tried again.
- *Front end, in substance.* A dozen functions derive names, grades, orders and counts of the same
  statuses, each in its own way. Right if they agree with each other and hide no failure.
- *Store.* History beside statuses, limits of queries, the close at the end.
  *WebSocket, discover.* Unsynchronised maps, worker pools.

`PROJECT.json` lists the hazards, each at its line, with the properties that cover it.

## 2. Modules

    SoftFail ──► StateTracker ──► TrackerHistory ──► MonitoringProofs
       │              │                 │                  ▲
       │              │                 └─ INSTANCE ReportedState (abstract)
       │              └──► Scheduler ──────────────────────┘
       └──► CheckTiming ──► CheckTimingProofs

    ConfigSync ──► ConfigSyncProofs          Picking ──► ConfigMerge ──► ConfigMergeProofs

    WebDetails ──► WebDetailsProofs          WebLists ──► WebListsProofs
    WebEdits ──► WebEditsProofs              HostViews ──► WebExports ──► HostViewsProofs

**SoftFail** is the pure part: `getThreshold`, `isSoftFailEnabled`, the entry (`StateInfo`) and
what `updateStateTracker` does to it (`Counted`, `ShouldChange`, `SoftFailUpdate`, `Updated`),
and the status `handleResult` makes of it. Outputs are abstracted to the two numbers of
"SOFT FAIL (n/t)". The three branches for a non-OK result have the same condition in the code
and are one here. `LastStateChange` is written by the code and never read, and is left out.

**StateTracker** adds the map of entries, the status bucket and the write between them.
`ApplyResult` is `handleResult` up to `UpdateStatus`; `StoreStatus` and `StoreFails` are its two
outcomes. They are separate steps because a pass, a purge or the end of the process can come
between. `Start` rebuilds the map from the bucket; a failed `GetChecks` gives an empty map, a
failed `GetStatus` gives Unknown, as in the code, which drops both errors. `Crash` is any end
of the process: `main` calls neither `Engine.Stop` nor anything that waits for results.

**ReportedState** is the promise of the code, without counters: a board that holds for every tracked key its
reported state and the length of the current run of identical results. It changes after a full
run, or at once on an OK. It is not the promise of docs/SoftFail.md, which counts results that are not
OK, whatever they are: that is `FailuresAreReported`, and the tracker breaks it. **TrackerHistory** adds
the history of raw results to StateTracker as ghost state (`run`: the last result, how often it came in a
row, and how many failures of any kind), with which the refinement mapping `Board` and the properties are
written. The history never restricts a step.

**Scheduler** adds the goroutines. `Tick` is the ticker; the pass it starts reads the checks
(`StartPass`) or ends because they cannot be read (`ReadFails`). A pass visits one key per step, because
the workers run meanwhile; the checks are read at its start, each host when it is reached. `loopVar` is the
variable `check` of the `for` loop in `processSchedule`, whose address every job carries: all jobs
of one pass share it, those of earlier passes hold the value their loop ended with. `Enqueue` and
`DropJob` are the two branches of the `select`. `worker` says whether a goroutine is idle, runs
a job, or is blocked in its send. Time is counted in passes (`age`). `Toggle` is the Enabled field
as the API changes it, `Purge` the deletion of unconfigured statuses, `HealthChange` the world.

**CheckTiming** follows one key in seconds, to the second where the code rounds: `Interval`,
`PendingInterval`, `JitterRange`, the pass every 30 seconds, the latency of a check. It reuses
SoftFail. A check whose jitter range is zero is the step `Panic`. Passes whose read of the checks fails
are not in it: each would add its 30 seconds to the bounds.

**ConfigSync** is the engine, the purges and the API over three buckets. A goroutine works
through a plan, a list of phases; a phase first reads what it has to do (`Work`) and then makes
one transaction per step, so plans of several goroutines interleave as the code's do. `Main` is
`Engine.Start` and then the purge goroutine. Updates are two steps (`ReadHost`, `UpdateHost`), as
the handlers read and write in two transactions. `GetHost` followed by create or update in
`syncConfig` is one step: both branches write the configured fields, whatever was read.
The scheduler and the queues are the set `flight`.

**ConfigMerge** loads a configuration: the main file, then the included files in order. The
definitions of a file are chosen one at a time, each by a turn of the loop of `mergeChecks`: hosts
appended (`appendHostsToCheck`), replaced (`ReplaceCheck`) or added (`AddCheck`). `existing` is its
map of pointers; `live` says whether one still leads into `config.Checks`, or to the array that
`append` left when `capacity` was used up. How much room the new array has is the runtime's choice
(`Room`; `MaxSpare` bounds it). The ghost `wanted` holds what the rules of docs/ModularConfig.md:406-409
make of the same definitions, without those that are lost: the definitions of a check that was there
when the array moved (the ghost `stranded`), in the rest of that file. **Picking** says which elements of a list are left when some are
picked out, in the order they have. The sections of settings all follow one rule (values override when
given, flags always) and are represented by two settings of monitoring. Finding and sorting the
files and the syntax checks of `validate` are abstracted.

**WebDetails** is navigation and the two detail pages. A call is `showHostDetail` or
`showAlertDetail` between two of its awaits; it holds the id it was made for. Statuses are
represented by the id they are of, the list of affected hosts by the alert and the statuses it was
computed from, so that parts of two calls can be told apart. Loads of the hosts in between only
matter as `listed`: whether a host is found in `this.hosts`. The ghost `undisturbed` says that nobody
left before a call had ended.

**WebLists** is what the main views load: the flags, the versions of the server's data that lists
show, the order of the hosts view (component state, lost with the view, saved and restored by
`app.js`), `mounted`, the refresh timer, and the socket with its reconnect timers. `setView` is
in both modules, each time with the part of the state that is the module's own; its other part
changes nothing there. The ghost `chosen` is the order the user chose last, in peace.

**WebEdits** is the two modals. Each public method of the code is an action (`openAddHostModal`,
`editCheck`, `saveHost`, ...) and an instance of one operator per idea for a host or a check. A form is
represented by the record it was filled from and the type of its durations; a form with numeric
durations does not render, which leaves the page clickable under an open modal. `Apply` is the
server, so that answers can be lost after it acted. The ghost `copies` counts the records one form
made, less those whose answer was lost.

**HostViews** has no sequence of its own to get right; its state is the store's (hosts, checks,
statuses, time), its actions are what may happen to it, and everything else is operators: the answers
of `/api/hosts` and `/api/status`, and what the views, `RavenUtils` and `RavenAPI` make of them.
Texts are naturals ordered as `localeCompare` orders them; JavaScript's `||`, its stable sort, the
32-bit shift of `ipToNumber` and its floating point limits are modelled by what they do.
`aggregateHostStatus`, `filterHostsByStatus`, `sortHostsByPriority`, `getMonitoringSummary`,
`formatMonitoringResultsForDisplay`, `getHostSummary`, `findHostsWithAlert` and the CSV exports
belong to the helper objects the front end exports and have no caller in it yet. **WebExports** adds the
three exports, on texts spelled out as tokens (`Spelling`; any sequences of strings), and a reader of
such files to compare with, which takes one token per turn. It reads a file in blocks of `Block` tokens
only so that TLC does not run out of stack, and reads the same as without them (`BlocksAreRead`).

Definitions named `Faulty...` are slips a change to the code could make, placed before the
definition they replace. No behaviour uses them; each violates one property when put in.

The MC modules hold the values of the small instances, the `Proofs` modules the theorems.

## 3. Runs

| Run | What it asks | Instance |
|---|---|---|
| `tracker` | type, counters, texts, writes; `PromiseSpec`: the tracker implements ReportedState; `NoUnconfirmedAlarm` | two keys, all four exit codes, threshold 3 for one and soft fail off for the other |
| `alternating_failures` (violated) | a key that failed as often in a row as it must is not reported as OK | as `tracker` |
| `scheduler` | types and capacities, `InFlightTracked`; `ImplementsTracker`; `WorkersComeBack`, `StatusSettles` | one key the purge does not spare, two workers, queues of one, a host that is switched on and off, under `FairSpec` |
| `shared_loop_variable` (violated) | a result comes from the plugin of its check | a nagios and a ping check of one host |
| `timing` | `CheckedInTime`, `ReportedInTime`, `AlarmTakesTime` | intervals 120, 60 by default, 30, and 5, which panics |
| `config_sync` | `ConfigWins`, `Converges` | one host, one check, two requests, a file with both and with neither, under `FairSpec` |
| `update_reverted` (violated) | an answered update is in the store | one version of the file |
| `config_merge` | `MergedByTheRules`, `NoHostTwice`, `EntriesStayUnique` | two checks, two hosts, a main file of up to two definitions, two of one check among them, and two included ones with two each |
| `web_details` | types, `SpinnerHasCall`, `NothingLeftBehind`, `DetailsBelongTogether`; `SpinnersStop` | two hosts, two alerts, three calls at once, under `FairSpec` |
| `web_lists` | `LoadingHasCall`, `SortKept`, `OneConnection`; `ListsCatchUp`, `NeverGivesUp` | two lists, two loads at once, two options to sort by, one change of the data, under `FairSpec` |
| `web_edits` | `SavingIsOneSave`, `RequestsMatchForms`, `CreatedOnce`; `FailedSaveKeepsForm` | one host, a check with durations and one without, two requests at once |
| `host_views` | `ViewsAgree`, `HostsInOrder`, `AlertsTellAll`, `HealthyMeansHealthy`, `CSVReadsBack`; `AffectedAreAffected` | three hosts, two of them checked, two checks, exit codes 0, 1, 2 and 4 |

*Why the bounds are enough to be interesting.* Threshold 3 is the least that tells "first",
"middle" and "last" result of a run apart; the second key without soft fail checks that keys do
not mix. Queues of one place with two workers let a full job queue, a full result queue and two
jobs of one key in flight occur at once; the second job of a key exists because the key stays due
until its result is handled. Only the host is switched there, not the check as well: a pass treats a key
alike whichever of the two is off, and the theorems hold for any `Switchable`. `MaxAge` is above every interval plus jitter, so that larger ages
would not be told apart by the code. With the file changed between two starts, one version lacks
both, so every phase of every plan has work; two requests beside the engine let an update meet
a delete of the same record. In ConfigMerge the array of the main file is full, so the first check
an include adds moves it, with a definition left in the same file and a file after it; `MaxSpare` 1 gives an
array that is full again and one that is not.
`CHECK_DEADLOCK FALSE` of CheckTiming allows the panic, after which the process is gone; in
ConfigMerge loading ends; the store of HostViews stops at `MaxTime`.

Three calls let two of one host surround one of another, or of an alert, and end in any order. Two
loads are the least that overlap, and one change of the data (`MaxVersion`) tells an old answer
from a new one. `MaxNotices` bounds requests and timers together: three are two notifications of
which the first one's timer hides the second, and a request beside them. In HostViews
the octets of addresses have 4 bits and `ipToNumber` 16, because TLC's own integers have 32; an
address in the upper half makes the shift negative, as there. `MaxTime` lets three things happen to
the store, from every naming of the checks on; lists and requests have limits of two, which stores of three statuses
exceed. Thresholds of 1 and 2 put a failure at and at half of its threshold, the default 3
below. Names of checks are empty or the id of another check; some texts hold commas, quotes and line ends.

*Fairness.* Scheduler: `GoroutinesRun` is weak fairness of every goroutine that can run, which the
Go runtime gives, and strong fairness of a blocked send, which channels give by serving waiting
senders in order. `NoOverload` is about the world, not the code: the ticker ticks, the checks can be
read at some tick or other, the queue of 1000 jobs is not full at every visit of a key, and the disk does
not refuse every write of a key. Without it a starved key is never checked, which the code allows. Crashes need no fairness: the
properties ask for what follows once they stop. ConfigSync: every goroutine goes on, the purge
ticker ticks, and a check that was started ends (its context has a timeout). WebDetails: every request is answered or fails, as browsers see to.
WebLists: the same, timers fire, a socket that failed is closed, and the loads of one list do not
fail for ever; the refresh timer needs strong fairness, because in the model it must wait while all
`Calls` are in use, which the code does not. Invariants, action properties and refinements need
none of this; some are checked under a fair specification only because one run checks both kinds,
and their theorems are about `Spec`.

## 4. What is proved

TLAPS checks the following for every value of the constants that satisfies the named assumptions:
any sets of keys, hosts, checks, alerts and calls, any thresholds, codes, workers and capacities.

- `MonitoringProofs`, of the tracker: `TrackerTypeCorrect`, `CountsStayBelowThreshold`,
  `SoftFailTextsArePending`, `WritesAreReported`. The last three are not inductive alone: a write
  is right because the entry it was made from had a count below its threshold when the result came,
  so the invariant proved is the conjunction of all four. Lemmas say what one result does to one entry.
- Of its history: `CountersFollowRuns` strengthens the above with the link between count
  and run (`CounterMatchesRun`); from it come `TrackerKeepsPromise`, the refinement to
  ReportedState (the code's promise) step by step, and `AlarmsAreConfirmed`. The latter needs, besides, that what is
  stored or being written as an alarm was confirmed in this process or was stored before.
- Of the scheduler: `SchedulerTypeCorrect`, `InFlightIsTracked` (nothing deletes an entry while
  the process lives, and the end of the process empties the queues), and
  `SchedulerImplementsTracker`: each step of the scheduler is a step of StateTracker or a stutter,
  so the theorems about the tracker hold under every interleaving of passes and workers.
- `CheckTimingProofs`: `ChecksAreInTime`, `FailuresAreInTime` and `AlarmsTakeTime`, for all
  intervals and thresholds. `StartedInTime` bounds the time since the
  last result while no check is under way, and from both sides while one is; `PendingTakesTime` says how long
  a failure with so many results has lasted at least, and `ReportedInTime` itself how long at most.
  They rest on there being a slowest latency, and on steps of time that meet every pass.
- `ConfigSyncProofs`: `ConfigurationWins` and `PurgesSpareConfigured`. What takes a configured record
  away begins its own sync in the same step, except the purges. The invariant says of these that
  what one has still to delete is not configured (`PurgesSpare`), whatever was synced since it read
  the store; this holds because configurations only change with the process, whose end
  leaves no purge under way (`DownIsIdle`).
- `ConfigMergeProofs`: `FilesMergeByTheRules`, `HostsAreListedOnce`, `FilesKeepEntriesUnique`. They need
  that the map of pointers leads to the last entry of every id, and that a pointer leads to the array
  `append` left behind exactly if its check was there when that array was left (`PointersLead`). So what is
  written through such a pointer is lost, and `MergedByTheRules` counts it as lost; every other definition
  changes the entry as the rules of docs/ModularConfig.md:406-409 say. What the same document calls errors
  is not refused by the code (section 5), and the theorem says what becomes of it.
- `WebDetailsProofs`: `DetailsTypeCorrect`, `SpinnersHaveCalls`, `NothingIsLeftBehind`, `DetailsAreWhole`.
  The flags need to be related to every call that can reset them, the details to the call that put them there.
  As long as nobody disturbs a page, all calls are for its item, and a part that does not belong to the
  page is still to be replaced by one of them (`Together`).
- `WebListsProofs`: `HiddenListsAreLoading`, `OrderComesBack`, `ConnectionIsOne`. The
  first two are inductive given the types; the socket needs that at most one load goes on mounting the page (`MountsOnce`).
- `WebEditsProofs`: `SavesAreAlone`, `RequestsAreOfTheirForms`, `RecordsAreMadeOnce`, `FailuresKeepForms`.
  A request matches because the open form is of the record being edited (`FormIsOfRecord`) after
  every open, cancel and late answer. At most one record more than lost answers is made because a form that
  has made one has a call under way that will close it or take the count back (`Made`, `CopyHasCall`).
  A failed save finds its form as it was sent because no other save can end before it (`SentFormStays`).
- `HostViewsProofs`: `TheViewsAgree`, `TheListIsInOrder`, `EveryFailureIsAnAlert`, `OKMeansAllWell` and
  `AlertPageIsRight`. The inductive invariant is the type of the store (`StoreTypeCorrect`); the
  order by status is left out of `TheListIsInOrder` (section 5). The
  work is to say what functions of lists return for lists of any length. `SelectedFacts` says that a filter keeps some
  places in their order, `ArrangedIsArranged` that a finite set in a strict order has an element at each
  place, `SortedFacts` that sorting lists the same elements with none after one it is before, given
  that the comparison is one (`Compares`, and `RankedCompares` for a pair of numbers). `FoundFacts`
  then gives the statuses of an answer, and `HostFacts`, `AlertsFacts`, `RecentFacts` and others what each view makes of them.
  Filters are recursive functions for this, over which `UpTo` does the induction: what is left of a finite
  set of numbers would have a least one. For addresses, `SignedIs` says that every turn of `ipToNumber`
  changes its sum by multiples of 2^32 only, `AddressIs` that the last `>>> 0` takes them away, and
  `DigitBelow` that the sums are then in the order of the octets.
- Of the exports, in the same module: `ExportsReadBack`. What `arrayToCSV` writes is one recursion over the table and what the
  reader makes of it another. `TurnsMake` makes a sequence of steps of either kind, and `ReadMore` says
  that a text is read by reading its first part and then the rest. The argument goes from inside
  out: a field with a comma, a quote or a line end is between quotes, and inside them, escaped, it is read
  token by token into the field it was; a field with none of these is read as it is
  (`EscapedFacts`, `PlainFacts`, `QuotedFacts`). Either way the reader ends in a mode in which the next comma
  ends the field and the next line end the row (`Ended`), so rows are read one field at a time (`LineFacts`)
  and tables one row at a time (`CSVFacts`, `WrittenIsRead`), given that no row is empty. The last
  part shows of the three exports that they are such tables, all rows as long as the
  headers, and counts their rows (`HostsTableFacts`, `ResultsTableFacts`, `AlertsTableFacts`).

*Assumptions.* `ThresholdAssumption`: the default threshold is positive, which `validate` enforces.
`ExitCodesAssumption`: OK and Unknown are exit codes. `TimingAssumption`: a check takes less than
the 30 seconds between two passes, and the steps of time divide these; intervals may be anything, and
one of zero seconds means the default. The code does not force checks to be so short: a timeout above
30 seconds lets one outage count twice, and nothing is claimed of that here.
`CapAssumption`, `OrderAssumption`, `IntervalAssumption`, `WorldAssumption`,
`ThreadAssumption`, `ValueAssumption`, `ConfigAssumption`, `ViewsAssumption`, `SortAssumption`,
`IdsAssumption`, `RecordAssumption`, `FilesAssumption`, `TimedAssumption`, `NoticesAssumption` and `VersionAssumption`
say what the constants are; `NoneAssumption` that "nothing" is no record or call; `ScoreAssumption` that
an answer on which a health score is based has fewer than 200 statuses (the request asks for 100), above
which rounding makes 100 % of a single failure. TLC evaluates all of them. `AlertsTellAll`, `ViewsAgree`,
`HealthyMeansHealthy` and a part of `AffectedAreAffected` speak of statuses that fit in the answers, whose limits the code sets; what is
beyond them is not shown (section 5).

`SpellingAssumption` says that every text is spelled as a sequence of strings, the empty one as the empty sequence.

*Functions and sequences.* The prover's encoding of sequences lets a function with another domain than 1..n pass for one
in some goals. No proof here depends on that: the functions that count from 0, over which the recursions
go, are only ever said to have such and such values at 0..n, and the goals given to the SMT solver
also hold with the encoding's rule restricted to what is true, that a domain of 1..n gives the length n.

*Only model-checked.* Every invariant and every safety property of the passing runs is a theorem. All
liveness (`WorkersComeBack`, `StatusSettles`, `Converges`, `SpinnersStop`, `ListsCatchUp`,
`NeverGivesUp`) needs ENABLED, which is out of the prover's reach.

## 5. Where code and documents disagree

Each has a run marked "violated".

1. The tracker counts identical results (`scheduler.go:446-453`); docs/SoftFail.md:5, :12, :45 and :51 and
   the status text (`scheduler.go:371`) count results that are not OK. A check that alternates between WARNING
   and CRITICAL is never reported (`alternating_failures`).
2. A job carries the address of the loop variable, so a ping check can be run by another plugin
   (`shared_loop_variable`).
3. An update of a configured host or check is answered as done when it has been undone
   (`update_reverted`).

Met while modelling and not made a run. In the server:

- Intervals under ten seconds end the process in `rand.Intn(0)`; under 30 seconds a pending failure
  is checked less often than before.
- Definitions of a check are lost in a file that has before added another check, if that moved the slice
  (`config.go:282`; the pointers taken at :265-268 stay in the old one). docs/ModularConfig.md:407 and :409
  have no such exception.
- docs/ModularConfig.md:185 and :189-198 call it an error to assign hosts to a check that does not exist; the code
  adds a check of that id with nothing else in it. :187 and :209-223 call a second full definition of a check
  an error; the code replaces the first, as the rule at :409 of the same document has it.
- The default timeout never reaches a check: the example of the repository's README has one whose
  every run is cancelled at once.
- A result stored while an alert purge runs survives it, until the next purge (`Converges`).
- A definition that lists a host twice keeps it twice, against docs/ModularConfig.md:408; one with
  nothing but zero values besides id and hosts counts as partial, against docs/ModularConfig.md:409.
- The status of a host is the first its statuses are listed with; `broadcast` of a status has no caller.

In the front end:

- "Host State (Critical First)" (`hosts-view.js:15`, `:60`, `:343`) is not that: `getStatusPriority` (`:246-268`)
  puts a critical host whose failures are at half of a threshold or more, but below it, with the warnings, and a host whose
  only failure has a threshold of 1 with the critical ones. And the comparison returns (`:62`, `:68`) before
  the direction is looked at, so the button for it (`:350-354`) does nothing for this order.
  `HostsInOrder` claims no order by status for these reasons.
- The filter "Soft Fails Only" is always empty and its card 0; hard failures are shown with a
  soft-fail count. Statistics ignore exit codes above 3.
- Alerts are made of the first 100 statuses, so the page may say that all systems are healthy while
  a check fails. "Based on recent history" is the current statuses in the order of their keys.
- Names: affected hosts are taken from other checks of the same name, or whose id is that name. A host never
  checked shows a date in the year 1.
- The loop of `formatOKDuration` over several checks declares a second `okInfo`, which the loop itself
  reads before it is set: a ReferenceError. `isValidDuration` accepts days, which the server refuses.
- A late answer to a click takes the user to its page; the end of a save closes whatever modal of that kind is
  open; the timer of an older notification hides a newer one; `editCheck` shares the intervals with
  the list, so Cancel keeps what was typed; a check with numeric durations has no form.
- The refresh interval of the settings is read once, when the page is mounted.

## 6. Not modelled, and the plan

Still to write, most important first, with what each is to show:

1. Updates of thresholds and of the Enabled flag in a composition of ConfigSync and Scheduler: that
   an entry keeps the threshold it was made with until the next start.
2. `BoltStore`: statuses, history and their deletion, the limit of a purge, the second in the key of
   a history entry, the close at the end while results arrive; that it implements the maps the other modules use.
3. `Discover`, `WebSocketHub`.

Not modelled in the front end: `keyboard-navigation.js`, which no page loads; the about page, the
settings and the theme; trends; the cache, `pollStatus`, `debounce`, `throttle`, `exportData`,
`validateHostConfig` and `validateCheckConfig`, which have no caller; icons, colours and layout.

Left out on purpose: the text of outputs and logs, parsing of the ping command's output, HTML and
style sheets, packaging, the migration script, the sample configurations. Metrics are written and
never read by the program. `Scheduler.Stop` is unreachable. Malformed records in the store are
left out, as only the program itself writes them.

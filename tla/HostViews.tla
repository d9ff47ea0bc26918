------------------------------ MODULE HostViews ------------------------------
(***************************************************************************)
(* What the web front end shows of the hosts, their checks and statuses:   *)
(* the computed properties and methods of web/js (app.js, utils.js, api.js *)
(* and the views), as operators on the answers of the server.              *)
(*                                                                         *)
(* The state is the store's: the hosts, the checks and one status for a    *)
(* host and a check.  Every view is checked in every state of the store.   *)
(*                                                                         *)
(* Texts are naturals in the order localeCompare gives them, 0 the empty   *)
(* one; so are ids, which serve as names where a name is missing.  Times   *)
(* are naturals; the zero time of a host never checked comes before all.   *)
(* The maps of an answer have their keys in order, as Go writes them: they *)
(* are sequences.  ip_address_ok is TRUE, as the server says of every host.*)
(***************************************************************************)
EXTENDS Integers, Sequences, FiniteSets

CONSTANTS
  HostIds, CheckIds,
  CheckedHosts,   \* the hosts that checks are assigned to, now or later
  HostRecord,     \* what the store holds of each host: name, display_name, ...
  Threshold,      \* of each check, 0 when not set
  Names,          \* of checks, 0 among them: the API takes an empty name
  DefaultGroup,
  ExitCodes,
  Octets,         \* how many values an octet has: 256
  Limit,          \* the limits of the requests and lists; see LimitFields
  Substrings,     \* the pairs <<q, t>> of texts with q a part of t
  MaxTime,        \* bounds the steps of the store
  None

LimitFields == {"alerts", "stats", "host_page", "alert_page", "activity", "history"}

ASSUME IdsAssumption ==
  /\ HostIds \subseteq Nat \ {0} /\ IsFiniteSet(HostIds) /\ CheckedHosts \subseteq HostIds
  /\ CheckIds \subseteq Nat \ {0} /\ IsFiniteSet(CheckIds)
  /\ Names \subseteq Nat /\ 0 \in Names
  /\ 0 \in ExitCodes /\ ExitCodes \subseteq Nat
  /\ Limit \in [LimitFields -> Nat \ {0}]
  /\ Threshold \in [CheckIds -> Nat]

Octet == 0 .. Octets - 1

\* No IPv4 address, or one of four octets.
ASSUME RecordAssumption ==
  /\ Octets \in Nat \ {0} /\ DefaultGroup \in Nat
  /\ HostRecord \in [HostIds -> [name : Nat, display_name : Nat, ip_text : Nat, hostname : Nat,
                                 group : Nat, ipv4 : Seq(Octet)]]
  /\ \A h \in HostIds : Len(HostRecord[h].ipv4) \in {0, 4}

ASSUME NoneAssumption ==
  /\ None \notin [exit_code : Nat, timestamp : Nat]
  /\ None \notin [name : Nat, hosts : SUBSET HostIds]

\* A percentage that is rounded tells one failure among as many results.
ASSUME ScoreAssumption == Limit["alert_page"] < 200

VARIABLES
  hosts,       \* the ids of the hosts there are
  checks,      \* [name, hosts] of each check, None when it is deleted
  statuses,    \* [exit_code, timestamp] of a host and a check, or None
  now

vars == <<hosts, checks, statuses, now>>

-----------------------------------------------------------------------------
(* JavaScript.                                                             *)

\* a || b, of texts
Or(a, b) == IF a # 0 THEN a ELSE b

\* s.slice(0, n), and how the store stops at a limit
Cut(s, n) == IF Len(s) <= n THEN s ELSE SubSeq(s, 1, n)

SetOf(s) == {s[i] : i \in DOMAIN s}

\* The elements at the places that keep holds at.
Selected(s, keep) ==
  LET kept[i \in 0 .. Len(s)] ==
        IF i = 0 THEN <<>> ELSE IF keep[i] THEN Append(kept[i - 1], s[i]) ELSE kept[i - 1]
  IN  kept[Len(s)]

\* s.filter(Keep): what SelectSeq gives, defined so that it can be reasoned about.
Filter(s, Keep(_)) == Selected(s, [i \in DOMAIN s |-> Keep(s[i])])

Count(s, Test(_)) == Len(Filter(s, Test))

\* s.map(F); SubSeq has TLC evaluate each element once, here and below.
Mapped(s, F(_)) == SubSeq([i \in DOMAIN s |-> F(s[i])], 1, Len(s))

\* The elements of a finite set in the order of a relation.
Arranged(S, R) ==
  SubSeq([k \in 1 .. Cardinality(S) |->
            CHOOSE x \in S : Cardinality({y \in S : <<y, x>> \in R}) = k - 1],
         1, Cardinality(S))

InOrder(S) == SubSeq([k \in 1 .. Cardinality(S) |->
                        CHOOSE x \in S : Cardinality({y \in S : y < x}) = k - 1],
                     1, Cardinality(S))

\* The elements of s with its places in the order of a relation.
Sorted(s, R) == LET places == Arranged(DOMAIN s, R)
                IN  SubSeq([k \in DOMAIN s |-> s[places[k]]], 1, Len(s))

\* s.sort, which is stable
StableSort(s, Before(_, _)) ==
  Sorted(s, {e \in (DOMAIN s) \X (DOMAIN s) :
               \/ Before(s[e[1]], s[e[2]])
               \/ ~Before(s[e[2]], s[e[1]]) /\ e[1] < e[2]})

Largest(S) == CHOOSE x \in S : \A y \in S : y <= x

-----------------------------------------------------------------------------
(* The answers of the server.                                              *)

Earlier(k, l) == k[1] < l[1] \/ (k[1] = l[1] /\ k[2] < l[2])

Keys == LET S == HostIds \X CheckIds
        IN  Arranged(S, {e \in S \X S : Earlier(e[1], e[2])})

\* GetStatus: in the order of their keys, up to the limit.
Found(hs, cs, limit) ==
  Cut(Filter(Keys, LAMBDA k : k[1] \in hs /\ k[2] \in cs /\ statuses[k] # None), limit)

CheckExists(c) == checks[c] # None

\* The name the two lists of a host have, never empty.
CheckLabel(c) == IF CheckExists(c) THEN Or(checks[c].name, c) ELSE c

ThresholdMax(c) == IF CheckExists(c) /\ Threshold[c] > 0 THEN Threshold[c] ELSE 3

\* One status for a host and a check, so one failure at most is counted.
SoftFailInfo(k) ==
  [check_id |-> k[2], check_name |-> CheckLabel(k[2]), current_fails |-> 1,
   threshold_max |-> ThresholdMax(k[2]), first_fail_time |-> statuses[k].timestamp]

OKInfo(k) ==
  [check_id |-> k[2], check_name |-> CheckLabel(k[2]),
   ok_since |-> statuses[k].timestamp, check_count |-> 1]

Failing(k) == statuses[k].exit_code # 0

Healthy(k) == ~Failing(k)

getStatusName(code) == CASE code = 0 -> "ok" [] code = 1 -> "warning"
                         [] code = 2 -> "critical" [] OTHER -> "unknown"

\* GET /api/status
StatusResponse(k) ==
  [host_id |-> k[1], check_id |-> k[2],
   exit_code |-> statuses[k].exit_code, timestamp |-> statuses[k].timestamp,
   check_name |-> IF CheckExists(k[2]) THEN checks[k[2]].name ELSE k[2],
   host_name |-> IF k[1] \in hosts
                 THEN Or(HostRecord[k[1]].display_name, HostRecord[k[1]].name)
                 ELSE k[1],
   soft_fails_info |-> IF Failing(k) THEN <<SoftFailInfo(k)>> ELSE <<>>]

getStatus(hs, cs, limit) == Mapped(Found(hs, cs, limit), StatusResponse)

\* GET /api/hosts: the status of a host is that of the first of its statuses.
HostResponse(h) ==
  LET found == Found({h}, CheckIds, Limit["alerts"])
      assigned == {c \in CheckIds : CheckExists(c) /\ h \in checks[c].hosts}
  IN  [id |-> h, fields |-> HostRecord[h],
       status |-> IF found = <<>> THEN "unknown" ELSE getStatusName(statuses[found[1]].exit_code),
       last_check |-> IF found = <<>> THEN 0 ELSE statuses[found[1]].timestamp,
       soft_fail_info |-> Mapped(Filter(found, Failing), SoftFailInfo),
       ok_duration |-> Mapped(Filter(Found({h}, CheckIds, Limit["stats"]), Healthy), OKInfo),
       check_names |-> [c \in assigned |-> checks[c].name]]

getHosts == Mapped(InOrder(hosts), HostResponse)

-----------------------------------------------------------------------------
(* The list of hosts.                                                      *)

Includes(text, query) == query = 0 \/ <<query, text>> \in Substrings

filteredHosts(list, query, group) ==
  Filter(list, LAMBDA host :
    /\ \/ query = 0
       \/ \E f \in {"name", "display_name", "ip_text", "hostname"} :
            host.fields[f] # 0 /\ Includes(host.fields[f], query)
    /\ group = 0 \/ host.fields.group = group)

DisplayName(host) == Or(host.fields.display_name, host.fields.name)

\* The severity of one failing check, from the share of the threshold it has used.
FailSeverity(info) ==
  LET fails == info.current_fails
      max == info.threshold_max
  IN  IF fails >= max THEN 4
      ELSE IF 10 * fails >= 8 * max THEN 3 ELSE IF 2 * fails >= max THEN 2 ELSE 1

StatusPriority == [critical |-> 4, warning |-> 3, unknown |-> 2, ok |-> 1]

\* From half the threshold on the checks decide, for better or worse.
getStatusPriority(host) ==
  LET severity == Largest({0} \cup {FailSeverity(info) : info \in SetOf(host.soft_fail_info)})
  IN  StatusPriority[CASE severity = 4 -> "critical"
                       [] severity \in {2, 3} -> "warning"
                       [] OTHER -> host.status]

\* Bits are shifted and added in 32-bit integers, read as unsigned in the end.
Word == Octets * Octets * Octets * Octets

Signed(n) == LET m == n % Word IN IF m >= Word \div 2 THEN m - Word ELSE m

Shifted(ip) ==
  LET acc[i \in 0 .. Len(ip)] == IF i = 0 THEN 0 ELSE Signed(acc[i - 1] * Octets) + ip[i]
  IN  acc[Len(ip)]

\* Without >>> 0.
FaultyipToNumber(ip) == IF ip = <<>> THEN 0 ELSE Shifted(ip)

ipToNumber(ip) == IF ip = <<>> THEN 0 ELSE Shifted(ip) % Word

SortOptions == {"name", "group", "hostname", "ip", "last_check", "status"}

SortValue(host, sortBy) ==
  CASE sortBy = "name" -> DisplayName(host)
    [] sortBy = "group" -> Or(host.fields.group, DefaultGroup)
    [] sortBy = "hostname" -> Or(host.fields.hostname, host.fields.ip_text)
    [] sortBy = "ip" -> ipToNumber(host.fields.ipv4)
    [] sortBy = "last_check" -> host.last_check

\* Where a comes before b: by the status, the worst first, else by the name; and
\* by another value, up or down.
StatusBefore(a, b) ==
  LET pa == getStatusPriority(a)
      pb == getStatusPriority(b)
  IN  pa > pb \/ (pa = pb /\ DisplayName(a) < DisplayName(b))

ValueBefore(a, b, sortBy, sortOrder) ==
  IF sortOrder = "asc" THEN SortValue(a, sortBy) < SortValue(b, sortBy)
                       ELSE SortValue(a, sortBy) > SortValue(b, sortBy)

sortedHosts(list, sortBy, sortOrder) ==
  LET Before(a, b) == ValueBefore(a, b, sortBy, sortOrder)
  IN  IF sortBy = "status" THEN StableSort(list, StatusBefore) ELSE StableSort(list, Before)

-----------------------------------------------------------------------------
(* The tests of a host, as its row, its page and RavenUtils list them.      *)

\* check_names[id], where there is one that is not empty
Named(host, id) == id \in DOMAIN host.check_names /\ host.check_names[id] # 0

\* getCheckNameWithFallback of the hosts view; the infos repeat what it looks for.
getCheckNameWithFallback(id, host) ==
  LET infos == {i \in SetOf(host.soft_fail_info) \cup SetOf(host.ok_duration) : i.check_id = id}
  IN  IF Named(host, id) THEN host.check_names[id]
      ELSE IF infos # {} THEN (CHOOSE i \in infos : TRUE).check_name ELSE id

\* That of the page of a host.
PageCheckName(id, host) == IF Named(host, id) THEN host.check_names[id] ELSE id

FailEntry(info, name) ==
  [checkId |-> info.check_id, checkName |-> name,
   currentFails |-> info.current_fails, thresholdMax |-> info.threshold_max]

formatSoftFailsForDisplay(host) ==
  Mapped(host.soft_fail_info, LAMBDA info :
    FailEntry(info, Or(info.check_name, getCheckNameWithFallback(info.check_id, host))))

PageSoftFails(host) ==
  Mapped(host.soft_fail_info, LAMBDA info :
    FailEntry(info, Or(info.check_name, PageCheckName(info.check_id, host))))

OKEntry(info, name) ==
  [checkId |-> info.check_id, checkName |-> name, okSince |-> info.ok_since,
   checkCount |-> info.check_count]

formatOKDurationForDisplay(host) ==
  Mapped(host.ok_duration, LAMBDA info :
    OKEntry(info, Or(info.check_name, getCheckNameWithFallback(info.check_id, host))))

PageOKDurations(host) ==
  Mapped(host.ok_duration, LAMBDA info :
    OKEntry(info, Or(info.check_name, PageCheckName(info.check_id, host))))

hasMonitoringData(host) == host.soft_fail_info # <<>> \/ host.ok_duration # <<>>

\* The status cell of a row: a badge, and the two lists where there are any.
StatusCell(host) ==
  [badge |-> host.status,
   failing |-> IF hasMonitoringData(host) THEN formatSoftFailsForDisplay(host) ELSE <<>>,
   healthy |-> IF hasMonitoringData(host) THEN formatOKDurationForDisplay(host) ELSE <<>>]

\* RavenUtils has the name from the info, or from check_names, or the id, and
\* sorts by it.
formatMonitoringResultsForDisplay(infos, host) ==
  LET Name(info) == Or(info.check_name, PageCheckName(info.check_id, host))
  IN  StableSort(Mapped(infos, LAMBDA info : [checkId |-> info.check_id, checkName |-> Name(info)]),
                 LAMBDA a, b : a.checkName < b.checkName)

getMonitoringSummary(host) ==
  LET Critical(info) == info.current_fails >= info.threshold_max
      critical == Count(host.soft_fail_info, Critical)
  IN  [totalChecks |-> Cardinality(DOMAIN host.check_names),
       checkNames |-> Mapped(InOrder(DOMAIN host.check_names), LAMBDA c : host.check_names[c]),
       healthyChecks |-> Len(host.ok_duration),
       failingChecks |-> Len(host.soft_fail_info),
       criticalFailures |-> critical,
       softFailures |-> Len(host.soft_fail_info) - critical]

Severities(host) ==
  {CASE FailSeverity(i) = 4 -> "critical" [] FailSeverity(i) \in {2, 3} -> "warning"
     [] OTHER -> "unknown" : i \in SetOf(host.soft_fail_info)}

\* OK with any healthy test.
FaultyaggregateHostStatus(host) ==
  CASE host.ok_duration # <<>> -> "ok"
    [] host.ok_duration = <<>> /\ "critical" \in Severities(host) -> "critical"
    [] OTHER -> host.status

\* The most severe of the failing tests, else OK; the status with no test at all.
aggregateHostStatus(host) ==
  CASE "critical" \in Severities(host) -> "critical"
    [] Severities(host) \ {"unknown"} = {"warning"} -> "warning"
    [] Severities(host) = {"unknown"} -> "unknown"
    [] Severities(host) = {} /\ host.ok_duration # <<>> -> "ok"
    [] OTHER -> host.status

HasStatus(host, filter) ==
  CASE filter = "all" -> TRUE
    [] filter = "failing" -> aggregateHostStatus(host) \in {"critical", "warning", "unknown"}
    [] filter = "soft_failing" -> host.soft_fail_info # <<>>
    [] OTHER -> aggregateHostStatus(host) = filter

filterHostsByStatus(list, filter) == Filter(list, LAMBDA host : HasStatus(host, filter))

getHostPriority(host) ==
  LET severities == {FailSeverity(i) : i \in SetOf(host.soft_fail_info)}
  IN  IF host.status = "critical" THEN 4
      ELSE IF severities \cap {3, 4} # {} THEN 3
      ELSE IF 2 \in severities \/ host.status = "warning" THEN 2 ELSE 0

PriorityBefore(a, b) ==
  LET pa == getHostPriority(a)
      pb == getHostPriority(b)
  IN  pa > pb \/ (pa = pb /\ DisplayName(a) < DisplayName(b))

sortHostsByPriority(list) == StableSort(list, PriorityBefore)

-----------------------------------------------------------------------------
(* The page of a host: its statuses.                                       *)

HostStatuses(h) == getStatus({h}, CheckIds, Limit["host_page"])

\* No fallback.
FaultyEntryName(status, host) == status.check_name

EntryName(status, host) == Or(status.check_name, PageCheckName(status.check_id, host))

getStatusHistory(list, host) ==
  Mapped(Cut(list, Limit["history"]), LAMBDA s :
    [checkName |-> EntryName(s, host), timestamp |-> s.timestamp,
     status |-> getStatusName(s.exit_code)])

\* The newest status of each check, where the first of several as new counts.
Newest(list) ==
  Filter([i \in DOMAIN list |-> <<i, list[i]>>], LAMBDA e :
    \A j \in DOMAIN list :
      list[j].check_id = e[2].check_id =>
        \/ list[j].timestamp < e[2].timestamp
        \/ list[j].timestamp = e[2].timestamp /\ j >= e[1])

getRecentChecks(list, host) ==
  StableSort(Mapped(Newest(list), LAMBDA e :
               [check_id |-> e[2].check_id, checkName |-> EntryName(e[2], host),
                timestamp |-> e[2].timestamp, exit_code |-> e[2].exit_code]),
             LAMBDA a, b : a.timestamp > b.timestamp)

CountOf(list, code) == Count(list, LAMBDA s : s.exit_code = code)

StatusCounts(list) == [ok |-> CountOf(list, 0), warning |-> CountOf(list, 1),
                       critical |-> CountOf(list, 2), unknown |-> CountOf(list, 3)]

\* RavenAPI's summary of a host; the score is a percentage, rounded.
getHostSummary(h) ==
  LET list == getStatus({h}, CheckIds, Limit["alert_page"])
      n == Len(list)
  IN  [statusCounts |-> StatusCounts(list),
       totalChecks |-> Cardinality({list[i].check_id : i \in DOMAIN list}),
       healthScore |-> IF n = 0 THEN 0 ELSE (200 * CountOf(list, 0) + n) \div (2 * n)]

-----------------------------------------------------------------------------
(* The dashboard and the alerts.                                           *)

loadStats == StatusCounts(getStatus(HostIds, CheckIds, Limit["stats"]))

recentActivity ==
  Cut(StableSort(getStatus(HostIds, CheckIds, Limit["stats"]),
                 LAMBDA a, b : a.timestamp > b.timestamp), Limit["activity"])

SeverityOrder == [critical |-> 3, warning |-> 2, unknown |-> 1]

\* Orders alerts by their age first.
FaultyAlertBefore(a, b) ==
  \/ a.timestamp > b.timestamp
  \/ a.timestamp = b.timestamp /\ SeverityOrder[a.severity] > SeverityOrder[b.severity]

AlertBefore(a, b) ==
  \/ SeverityOrder[a.severity] > SeverityOrder[b.severity]
  \/ a.severity = b.severity /\ a.timestamp > b.timestamp

loadAlerts ==
  LET failing == Filter(getStatus(HostIds, CheckIds, Limit["alerts"]),
                           LAMBDA s : s.exit_code > 0)
      Alert(s) == [severity |-> getStatusName(s.exit_code), timestamp |-> s.timestamp,
                   host |-> s.host_id, check |-> s.check_id,
                   host_name |-> s.host_name, check_name |-> s.check_name]
  IN  StableSort(Mapped(failing, Alert), AlertBefore)

activeAlerts(alerts) == Filter(alerts, LAMBDA a : a.severity # "ok")

OfSeverity(alerts, severity) == Filter(alerts, LAMBDA a : a.severity = severity)

alertMetrics(alerts) ==
  [active |-> Len(activeAlerts(alerts)), critical |-> Len(OfSeverity(alerts, "critical")),
   warning |-> Len(OfSeverity(alerts, "warning"))]

filteredAlerts(alerts, alertFilter) ==
  IF alertFilter = "all" THEN activeAlerts(alerts) ELSE OfSeverity(alerts, alertFilter)

\* What the alerts view says when there is none.
SaysHealthy(alerts) == alerts = <<>>

-----------------------------------------------------------------------------
(* The page of an alert: its statuses are fetched first, the hosts later.  *)

AlertStatuses(alert) == getStatus(HostIds, {alert.check}, Limit["alert_page"])

\* A failing test of a host is taken for the alert's by its id or by its name.
IsAbout(info, alert) ==
  info.check_id = alert.check \/ info.check_name \in {alert.check_name, alert.check}

\* Any failure among the statuses will do.
FaultyaffectedHosts(alert, list, hostList) ==
  Filter(hostList, LAMBDA host :
    \/ \E info \in SetOf(host.soft_fail_info) : IsAbout(info, alert)
    \/ \E s \in SetOf(list) : s.exit_code > 0)

affectedHosts(alert, list, hostList) ==
  Filter(hostList, LAMBDA host :
    \/ \E info \in SetOf(host.soft_fail_info) : IsAbout(info, alert)
    \/ \E s \in SetOf(list) : s.host_id = host.id /\ s.exit_code > 0)

\* RavenAPI looks at the failing tests only.
findHostsWithAlert(alert, hostList) ==
  Filter(hostList, LAMBDA host :
    \E info \in SetOf(host.soft_fail_info) :
      info.check_id = alert.check \/ info.check_name = alert.check_name)

getRecentAlertHistory(alert, list) ==
  Cut(Filter(list, LAMBDA s : s.check_id = alert.check \/ s.check_name = alert.check_name),
      Limit["history"])

\* The rows of the page, the latest alert first; the time is 0 ("Never") for a
\* host that no status of the alert is of.
getHostsAffectedByThisAlert(alert, list, hostList) ==
  LET Time(host) == LET found == Filter(list, LAMBDA s : s.host_id = host.id)
                    IN  IF found = <<>> THEN 0 ELSE found[1].timestamp
      Row(host) == [id |-> host.id, lastAlertTime |-> Time(host),
                    softFailInfo |-> Cut(Filter(host.soft_fail_info,
                                                   LAMBDA info : IsAbout(info, alert)), 1)]
  IN  StableSort(Mapped(affectedHosts(alert, list, hostList), Row),
                 LAMBDA a, b : a.lastAlertTime > b.lastAlertTime)

-----------------------------------------------------------------------------
(* The store.  A result may come late, for what was changed or deleted; a   *)
(* purge removes any status.  The hosts and checks are not in the          *)
(* configuration, which would undo their edits (ConfigSync).               *)

Init ==
  /\ hosts = HostIds
  /\ \E name \in [CheckIds -> Names] :
       checks = [c \in CheckIds |-> [name |-> name[c], hosts |-> CheckedHosts]]
  /\ statuses = [k \in HostIds \X CheckIds |-> None]
  /\ now = 1

Step == now < MaxTime /\ now' = now + 1

UpdateStatus(k, code) ==
  /\ Step
  /\ statuses' = [statuses EXCEPT ![k] = [exit_code |-> code, timestamp |-> now]]
  /\ UNCHANGED <<hosts, checks>>

DeleteStatus(k) ==
  /\ Step
  /\ statuses[k] # None
  /\ statuses' = [statuses EXCEPT ![k] = None]
  /\ UNCHANGED <<hosts, checks>>

UpdateCheck(c, name, assigned) ==
  /\ Step
  /\ CheckExists(c)
  /\ checks' = [checks EXCEPT ![c] = [name |-> name, hosts |-> assigned]]
  /\ UNCHANGED <<hosts, statuses>>

DeleteCheck(c) ==
  /\ Step
  /\ CheckExists(c)
  /\ checks' = [checks EXCEPT ![c] = None]
  /\ UNCHANGED <<hosts, statuses>>

DeleteHost(h) ==
  /\ Step
  /\ h \in hosts
  /\ hosts' = hosts \ {h}
  /\ UNCHANGED <<checks, statuses>>

Next ==
  \/ \E k \in CheckedHosts \X CheckIds :
       DeleteStatus(k) \/ \E code \in ExitCodes : UpdateStatus(k, code)
  \/ \E c \in CheckIds :
       \/ DeleteCheck(c)
       \/ \E name \in Names, h \in CheckedHosts : UpdateCheck(c, name, CheckedHosts \ {h})
  \/ \E h \in HostIds : DeleteHost(h)

Spec == Init /\ [][Next]_vars

-----------------------------------------------------------------------------
(* Properties.                                                             *)

Known == {k \in HostIds \X CheckIds : statuses[k] # None}

KnownOf(h) == {k \in Known : k[1] = h}

TestsOf(entries) == {<<e.checkId, e.checkName>> : e \in SetOf(entries)}

RecentTests(entries, codes) ==
  {<<e.check_id, e.checkName>> : e \in {r \in SetOf(entries) : r.exit_code \in codes}}

NamesIn(entries) == {e.checkName : e \in SetOf(entries)}

Agree(host) ==
  LET cell == StatusCell(host)
      recent == getRecentChecks(HostStatuses(host.id), host)
      summary == getMonitoringSummary(host)
  IN  /\ cell.failing = PageSoftFails(host) /\ cell.healthy = PageOKDurations(host)
      /\ TestsOf(cell.failing) = RecentTests(recent, ExitCodes \ {0})
      /\ TestsOf(cell.healthy) = RecentTests(recent, {0})
      /\ TestsOf(formatMonitoringResultsForDisplay(host.soft_fail_info, host)) = TestsOf(cell.failing)
      /\ NamesIn(getStatusHistory(HostStatuses(host.id), host)) = NamesIn(recent)
      /\ Len(recent) = Cardinality(KnownOf(host.id))
      /\ getHostSummary(host.id).totalChecks = Len(recent)
      /\ summary.failingChecks + summary.healthyChecks = Len(recent)
      /\ summary.criticalFailures + summary.softFailures = summary.failingChecks
      /\ \A a \in SetOf(loadAlerts) : a.host = host.id =>
           <<a.check, Or(a.check_name, a.check)>> \in TestsOf(cell.failing)

\* The row of a host, its page, the list of its recent results and both
\* summaries tell of the same tests, each failing or healthy and never both, by
\* the same names, though each finds the name in its own way: whatever checks
\* were renamed to, taken off the host or deleted since the result, as long as
\* the statuses of the host fit in the lists and answers.
ViewsAgree ==
  \A host \in SetOf(getHosts) :
    (\A f \in LimitFields \ {"activity"} : Cardinality(KnownOf(host.id)) <= Limit[f]) => Agree(host)

\* Before, by octets.
IPBefore(a, b) ==
  \/ a = <<>> /\ b # <<>> /\ \E i \in DOMAIN b : b[i] # 0
  \/ /\ a # <<>> /\ b # <<>>
     /\ \E i \in DOMAIN b : a[i] < b[i] /\ \A j \in 1 .. i - 1 : a[j] = b[j]

\* The hosts of the list s are in the order that was asked for.
SortedBy(s, sortBy, order) ==
  \A j \in DOMAIN s : \A i \in 1 .. j - 1 :
    LET first == IF order = "asc" THEN s[i] ELSE s[j]
        last == IF order = "asc" THEN s[j] ELSE s[i]
    IN  CASE sortBy = "ip" -> ~IPBefore(last.fields.ipv4, first.fields.ipv4)
          [] sortBy = "last_check" -> first.last_check <= last.last_check
          [] OTHER -> SortValue(first, sortBy) <= SortValue(last, sortBy)

\* The list of hosts shows each host that is looked for once, however it is
\* sorted; and by name, group, hostname, address and last check it is in the
\* order and the direction that were asked for, addresses by their octets
\* (ipToNumber is 32 bits wide).  It says nothing of the order by status, which
\* is not the one the view announces (sortedHosts, getStatusPriority): no
\* direction turns it, and a critical host that has used up half of a threshold
\* and not all of it is ranked with the warnings.
HostsInOrder ==
  LET all == getHosts
      groups == {h.fields.group : h \in SetOf(all)}
  IN  \A group \in groups \cup {0}, query \in {0} \cup {p[1] : p \in Substrings} :
        LET list == filteredHosts(all, query, group)
        IN  \A sortBy \in SortOptions, order \in {"asc", "desc"} :
              LET s == sortedHosts(list, sortBy, order)
              IN  /\ Len(s) = Len(list) /\ SetOf(s) = SetOf(list)
                  /\ sortBy # "status" => SortedBy(s, sortBy, order)

\* As long as there are no more statuses than are asked for: every failure there
\* is is an alert, once, the worst first and of those the newest; the numbers on
\* the alerts page and on the dashboard are of the same failures, exit codes
\* above 3 apart; and the latest result is on top of the activity.
AlertsTellAll ==
  (\A f \in {"alerts", "stats"} : Cardinality(Known) <= Limit[f]) =>
    LET alerts == loadAlerts
        metrics == alertMetrics(alerts)
        stats == loadStats
        failing == {k \in Known : Failing(k)}
        Name(k) == getStatusName(statuses[k].exit_code)
        Worse(k, l) == \/ SeverityOrder[Name(k)] > SeverityOrder[Name(l)]
                       \/ Name(k) = Name(l) /\ statuses[k].timestamp > statuses[l].timestamp
        Key(a) == <<a.host, a.check>>
    IN  /\ Len(alerts) = Cardinality(failing) /\ {Key(a) : a \in SetOf(alerts)} = failing
        /\ SaysHealthy(alerts) = (failing = {})
        /\ \A j \in DOMAIN alerts : \A i \in 1 .. j - 1 : ~Worse(Key(alerts[j]), Key(alerts[i]))
        /\ metrics.active = Len(filteredAlerts(alerts, "all"))
        /\ metrics.active = metrics.critical + metrics.warning
                            + Len(filteredAlerts(alerts, "unknown"))
        /\ metrics.critical = stats.critical /\ metrics.warning = stats.warning
        /\ stats.ok + stats.warning + stats.critical + stats.unknown
             = Cardinality({k \in Known : statuses[k].exit_code <= 3})
        /\ Known # {} => \A k \in Known : statuses[k].timestamp <= recentActivity[1].timestamp

\* As long as the statuses of every host fit in the answers: RavenUtils calls a
\* host OK exactly when it has results and all of them are, so its filters "ok"
\* and "failing" leave no host out; such a host has the lowest priority in both
\* rankings and is never listed before one that needs attention.
HealthyMeansHealthy ==
  (\A h \in hosts, f \in {"alerts", "stats", "alert_page"} : Cardinality(KnownOf(h)) <= Limit[f]) =>
  LET all == getHosts
      byPriority == sortHostsByPriority(all)
      OK(host) == KnownOf(host.id) # {} /\ \A k \in KnownOf(host.id) : Healthy(k)
  IN  /\ \A host \in SetOf(all) :
           /\ (aggregateHostStatus(host) = "ok") = OK(host)
           /\ OK(host) = (getHostSummary(host.id).healthScore = 100)
           /\ OK(host) => getStatusPriority(host) = 1 /\ getHostPriority(host) = 0
      /\ Len(filterHostsByStatus(all, "ok")) + Len(filterHostsByStatus(all, "failing")) = Len(all)
      /\ SetOf(filterHostsByStatus(all, "soft_failing")) \subseteq SetOf(filterHostsByStatus(all, "failing"))
      /\ \A j \in DOMAIN byPriority : \A i \in 1 .. j - 1 :
           OK(byPriority[i]) => getHostPriority(byPriority[j]) = 0

FailsAt(s) == s # None /\ s.exit_code # 0

AlertPage(alert, list, later, rows) ==
  LET Fails(h) == FailsAt(statuses[<<h, alert.check>>])
      FailsLater(h) == FailsAt(statuses'[<<h, alert.check>>])
      Unmistakable == \A c \in CheckIds \ {alert.check} :
                        CheckLabel(c)' \notin {alert.check_name, alert.check}
      ids == {r.id : r \in SetOf(rows)}
      Fit(h) == Cardinality(KnownOf(h)') <= Limit["alerts"]
  IN  /\ {h \in hosts' : Fit(h) /\ FailsLater(h)} \subseteq ids
      /\ Unmistakable => \A h \in ids : Fails(h) \/ FailsLater(h)
      /\ \A r \in SetOf(rows) : r.lastAlertTime # 0 \/ r.softFailInfo # <<>>
      /\ SetOf(findHostsWithAlert(alert, later)) \subseteq SetOf(affectedHosts(alert, list, later))
      /\ Limit["history"] >= Len(list) => getRecentAlertHistory(alert, list) = list

\* The store may change between the two requests of the page of an alert.  A
\* host whose check fails when the hosts are fetched is on the page, with a time
\* or with its failures, if its statuses fit in the answer; one that is there
\* failed at one of the two requests, unless another check has the name or the
\* id of this one for a name.
AffectedAreAffected ==
  [][loadAlerts # <<>> =>
       \A later \in {getHosts'}, alert \in SetOf(loadAlerts) : \A list \in {AlertStatuses(alert)} :
       \A rows \in {getHostsAffectedByThisAlert(alert, list, later)} :
         AlertPage(alert, list, later, rows)]_vars
=============================================================================

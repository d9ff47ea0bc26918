------------------------------ MODULE WebExports ------------------------------
(***************************************************************************)
(* The exports of web/js/utils.js: hosts, results and alerts as tables of  *)
(* comma separated values.                                                 *)
(*                                                                         *)
(* Here texts are spelled out, as sequences of tokens: a comma, "q" for a  *)
(* quote, "n" for the end of a line, anything else for plain characters.   *)
(***************************************************************************)
EXTENDS HostViews, TLC

CONSTANTS
  Spelling,       \* of each text
  Output          \* what a check that ends with an exit code prints, a text

ASSUME SpellingAssumption ==
  /\ Spelling[0] = <<>> /\ \A t \in DOMAIN Spelling : Spelling[t] \in Seq(STRING)
  /\ Names \cup HostIds \cup CheckIds \subseteq DOMAIN Spelling
  /\ \A h \in HostIds, f \in {"name", "display_name", "ip_text", "hostname", "group"} :
       HostRecord[h][f] \in DOMAIN Spelling
  /\ \A code \in ExitCodes : Output[code] \in DOMAIN Spelling

-----------------------------------------------------------------------------
(* Fields.                                                                 *)

Text(t) == Spelling[t]

Number(n) == <<ToString(n)>>

\* toLocaleString has a comma; the zero time of a host never checked has, too.
formatTime(t) == <<"day", ",", ToString(t)>>

Duration == <<"5m">>

Concat(ss) ==
  LET upto[i \in 0 .. Len(ss)] == IF i = 0 THEN <<>> ELSE upto[i - 1] \o ss[i]
  IN  upto[Len(ss)]

Joined(parts, separator) ==
  Concat([i \in DOMAIN parts |-> IF i = 1 THEN parts[1] ELSE <<separator>> \o parts[i]])

\* Of one failing check.
formatSoftFailStatus(info) ==
  Text(info.check_name) \o <<": ", ToString(info.current_fails), "/",
                             ToString(info.threshold_max), " fails (">> \o Duration \o <<")">>

Tests(n) == IF n > 0 THEN <<ToString(n), " tests">> ELSE <<"None">>

-----------------------------------------------------------------------------
(* Tables: the headers and a row for each host, result or alert.           *)

Headers(names) == [i \in DOMAIN names |-> <<names[i]>>]

HostHeaders ==
  Headers(<<"Name", "Display Name", "IP Address", "Hostname", "Group", "Status", "IP Check",
            "Last Check", "Enabled", "Active Checks", "Failing Tests", "Healthy Tests">>)

HostRow(host) ==
  LET summary == getMonitoringSummary(host)
      f == host.fields
  IN  <<Text(f.name), Text(f.display_name), Text(f.ip_text), Text(f.hostname), Text(f.group),
        <<host.status>>, <<"OK">>, formatTime(host.last_check), <<"Yes">>,
        Joined(Mapped(summary.checkNames, Text), "; "),
        Tests(summary.failingChecks), Tests(summary.healthyChecks)>>

HostsTable(list) == <<HostHeaders>> \o Mapped(list, HostRow)

ResultHeaders ==
  Headers(<<"Host Name", "Check Name", "Check Type", "Status", "Failures", "Threshold",
            "First Fail Time", "OK Since", "OK Duration">>)

FailedRow(hostName, info) ==
  <<hostName, Text(info.check_name), <<"Failing">>, <<"Soft Fail">>,
    <<ToString(info.current_fails), "/", ToString(info.threshold_max)>>,
    Number(info.threshold_max), formatTime(info.first_fail_time), <<>>, <<>>>>

OKRow(hostName, info) ==
  <<hostName, Text(info.check_name), <<"Healthy">>, <<"OK">>, <<>>, <<>>, <<>>,
    formatTime(info.ok_since), Duration>>

ResultRows(host) ==
  LET hostName == Text(DisplayName(host))
  IN  Mapped(host.soft_fail_info, LAMBDA info : FailedRow(hostName, info))
      \o Mapped(host.ok_duration, LAMBDA info : OKRow(hostName, info))

MonitoringResultsTable(list) == <<ResultHeaders>> \o Concat(Mapped(list, ResultRows))

AlertHeaders ==
  Headers(<<"Timestamp", "Severity", "Host", "Check Name", "Message", "Duration",
            "Soft Fails", "OK Since">>)

Message(output) == IF output = 0 THEN <<"No message">> ELSE Text(output)

\* The alerts as the page has them: with what the check printed, never with an
\* ok_info, of the status they come from.
AlertRow(alert) ==
  LET k == <<alert.host, alert.check>>
  IN  <<formatTime(alert.timestamp), <<alert.severity>>, Text(Or(alert.host_name, alert.host)),
        Text(Or(alert.check_name, alert.check)), Message(Output[statuses[k].exit_code]), Duration,
        formatSoftFailStatus(SoftFailInfo(k)), <<>>>>

AlertsTable(alerts) == <<AlertHeaders>> \o Mapped(alerts, AlertRow)

-----------------------------------------------------------------------------
(* Comma separated values.                                                 *)

Escaped(field) ==
  Concat([i \in DOMAIN field |-> IF field[i] = "q" THEN <<"q", "q">> ELSE <<field[i]>>])

\* Quotes for a comma or a quote, none for the end of a line.
FaultyQuoted(field) ==
  IF SetOf(field) \cap {",", "q"} # {} THEN <<"q">> \o Escaped(field) \o <<"q">> ELSE field

Quoted(field) ==
  IF SetOf(field) \cap {",", "q", "n"} # {} THEN <<"q">> \o Escaped(field) \o <<"q">> ELSE field

arrayToCSV(data) ==
  Joined(Mapped(data, LAMBDA row : Joined(Mapped(row, Quoted), ",")), "n")

exportHostsToCSV(list) == arrayToCSV(HostsTable(list))

exportMonitoringResultsToCSV(list) == arrayToCSV(MonitoringResultsTable(list))

exportAlertsToCSV(alerts) == arrayToCSV(AlertsTable(alerts))

-----------------------------------------------------------------------------
(* How such a file is read: a field that starts with a quote is what is      *)
(* between its quotes, where two of them stand for one.                      *)

\* What has been read: the rows, the fields of the next one, and of its next
\* field what there is so far.
Reader(rows, row, field, mode) == [rows |-> rows, row |-> row, field |-> field, mode |-> mode]

Taken(r, x) ==
  IF r.mode = "quoted"
  THEN IF x = "q" THEN [r EXCEPT !.mode = "closing"] ELSE [r EXCEPT !.field = Append(@, x)]
  ELSE IF x = "," THEN Reader(r.rows, Append(r.row, r.field), <<>>, "start")
  ELSE IF x = "n" THEN Reader(Append(r.rows, Append(r.row, r.field)), <<>>, <<>>, "start")
  ELSE IF x = "q" /\ r.mode = "start" THEN [r EXCEPT !.mode = "quoted"]
  ELSE IF x = "q" /\ r.mode = "closing" THEN [r EXCEPT !.mode = "quoted", !.field = Append(@, x)]
  ELSE [r EXCEPT !.mode = "plain", !.field = Append(@, x)]

Read(start, csv) ==
  LET reader[i \in 0 .. Len(csv)] == IF i = 0 THEN start ELSE Taken(reader[i - 1], csv[i])
  IN  reader[Len(csv)]

\* A bound on how deep Read recurs: a file is read in blocks of so many tokens.
Block == 40

\* Each choice is from one value: it has TLC read a block before the next one.
ReadCSV(csv) ==
  LET End(k) == IF k * Block <= Len(csv) THEN k * Block ELSE Len(csv)
      blocks == Len(csv) \div Block + 1
      reader[k \in 0 .. blocks] ==
        IF k = 0 THEN Reader(<<>>, <<>>, <<>>, "start")
        ELSE LET block == SubSeq(csv, End(k - 1) + 1, End(k))
             IN  CHOOSE next \in {Read(r, block) : r \in {reader[k - 1]}} : TRUE
      end == reader[blocks]
  IN  Append(end.rows, Append(end.row, end.field))

\* What is exported is read back as it was: names and outputs with commas,
\* quotes and several lines stay in their column and row, with a field for each
\* header.  There is a row for each host, for each result of a host there is, if
\* its statuses fit in the lists of its results, and for each alert (arrayToCSV
\* and the three exports).
CSVReadsBack ==
  LET Same(csv, table) == /\ ReadCSV(csv) = table
                          /\ \A row \in SetOf(table) : Len(row) = Len(table[1])
      all == getHosts
      Fit == \A h \in hosts, f \in {"alerts", "stats"} : Cardinality(KnownOf(h)) <= Limit[f]
  IN  /\ Same(exportHostsToCSV(all), HostsTable(all))
      /\ Same(exportMonitoringResultsToCSV(all), MonitoringResultsTable(all))
      /\ Same(exportAlertsToCSV(loadAlerts), AlertsTable(loadAlerts))
      /\ Len(HostsTable(all)) = Cardinality(hosts) + 1
      /\ Fit => Len(MonitoringResultsTable(all)) = Cardinality({k \in Known : k[1] \in hosts}) + 1
      /\ Len(AlertsTable(loadAlerts)) = Len(loadAlerts) + 1
=============================================================================

----------------------------- MODULE WebDetails -----------------------------
(***************************************************************************)
(* The pages of the web front end and the details of a host or an alert    *)
(* (web/js/app.js, with the pages of host-detail-view.js and               *)
(* alert-detail-view.js).                                                  *)
(*                                                                         *)
(* showHostDetail and showAlertDetail are async: each waits for one or two *)
(* answers of the server, and the user goes on clicking meanwhile.  A call *)
(* is such a method between two of its steps; it holds the id it was made  *)
(* for.  Nothing cancels a call and nothing tells a late answer from a     *)
(* timely one.                                                             *)
(*                                                                         *)
(* hostStatuses and alertStatuses are represented by the id whose statuses *)
(* they are, None when empty.  loadingHostStatuses is set and reset with   *)
(* loadingHostDetail, the three flags of alerts likewise: one flag each.   *)
(* viewHistory is only read by goBack, which nothing calls.                *)
(***************************************************************************)
EXTENDS Naturals

CONSTANTS
  HostIds, AlertIds,   \* an alert stands for the check it is about
  MainViews,           \* the entries of the sidebar
  Calls,               \* bounds how many details are loading at once
  None

DetailViews == {"host-detail", "alert-detail"}

ASSUME ViewsAssumption == /\ {"dashboard", "hosts", "alerts"} \subseteq MainViews
                          /\ MainViews \cap DetailViews = {}

VARIABLES
  view,                \* currentView
  currentHostDetail, hostStatuses,
  currentAlertDetail, alertStatuses, affectedHosts,
  loading,             \* {"host", "alert"}: which of the flags are set
  calls,               \* what each call waits for, None when it is not in use
  undisturbed          \* ghost: see Disturb

hostVars == <<currentHostDetail, hostStatuses>>
alertVars == <<currentAlertDetail, alertStatuses, affectedHosts>>
vars == <<view, hostVars, alertVars, loading, calls, undisturbed>>

-----------------------------------------------------------------------------
(* Calls.                                                                  *)

HostSteps == {"host", "host statuses"}
AlertSteps == {"alert statuses", "affected hosts"}

HostCall == [step : HostSteps, id : HostIds]
AlertCall == [step : AlertSteps, id : AlertIds]

\* What the list of affected hosts was computed from.
AffectedHosts == [alert : AlertIds, statuses : AlertIds \cup {None}]

ASSUME NoneAssumption ==
  None \notin HostIds \cup AlertIds \cup HostCall \cup AlertCall \cup AffectedHosts

InUse == {c \in Calls : calls[c] # None}

WaitFor(c, step, id) == calls' = [calls EXCEPT ![c] = [step |-> step, id |-> id]]

Done(c) == calls' = [calls EXCEPT ![c] = None]

(***************************************************************************)
(* The ghost: details are undisturbed while nobody leaves for a main view  *)
(* or opens something else before a call has ended.  Once disturbed, they  *)
(* are so until a main view is entered with no call left.                  *)
(***************************************************************************)
Disturb(id) ==
  undisturbed' = (undisturbed /\ \A c \in InUse : calls[c].id = id)

-----------------------------------------------------------------------------
(* Navigation.                                                             *)

\* Forgets to empty the affected hosts.
FaultysetView(v) ==
  /\ view' = v
  /\ v \in MainViews => /\ currentHostDetail' = None
                        /\ hostStatuses' = None
                        /\ currentAlertDetail' = None
                        /\ alertStatuses' = None
                        /\ affectedHosts' = affectedHosts

\* setView, for what it does to the details; a detail view leaves them alone.
setView(v) ==
  /\ view' = v
  /\ v \in MainViews => /\ currentHostDetail' = None
                        /\ hostStatuses' = None
                        /\ currentAlertDetail' = None
                        /\ alertStatuses' = None
                        /\ affectedHosts' = None

\* The entries of the sidebar, backToHosts and backToAlerts.
GoTo(v) ==
  /\ setView(v)
  /\ undisturbed' = (InUse = {})
  /\ UNCHANGED <<loading, calls>>

\* What the two pages show: a spinner, "not found", or the details.
HostPage == IF "host" \in loading THEN "loading"
            ELSE IF currentHostDetail = None THEN "not found" ELSE "details"

AlertPage == IF "alert" \in loading THEN "loading"
             ELSE IF currentAlertDetail = None THEN "not found" ELSE "details"

-----------------------------------------------------------------------------
(* The details of a host.                                                  *)

\* showHostDetail, up to its first await: a host of the list this.hosts is
\* shown from there, any other is fetched.
showHostDetail(c, h, listed) ==
  /\ calls[c] = None
  /\ loading' = loading \cup {"host"}
  /\ IF listed
     THEN /\ currentHostDetail' = h
          /\ WaitFor(c, "host statuses", h)
     ELSE /\ currentHostDetail' = currentHostDetail
          /\ WaitFor(c, "host", h)
  /\ Disturb(h)
  /\ UNCHANGED <<view, hostStatuses, alertVars>>

\* A row of the hosts view is a host of the list.
OpenHost(c, h) == view = "hosts" /\ showHostDetail(c, h, TRUE)

\* The list may have been loaded again without the host, or never.
viewHostDetailFromAlert(c, h, listed) ==
  /\ view = "alert-detail"
  /\ AlertPage = "details"
  /\ affectedHosts # None
  /\ showHostDetail(c, h, listed)

\* The button is disabled while the flag is set.
refreshHostData(c, listed) ==
  /\ view = "host-detail"
  /\ HostPage = "details"
  /\ showHostDetail(c, currentHostDetail, listed)

\* Keeps the answer itself and not the data in it.
FaultyHostAnswered(c) ==
  /\ calls[c] # None /\ calls[c].step = "host"
  /\ currentHostDetail' = calls[c]
  /\ WaitFor(c, "host statuses", calls[c].id)
  /\ UNCHANGED <<view, hostStatuses, alertVars, loading, undisturbed>>

HostAnswered(c) ==
  /\ calls[c] # None /\ calls[c].step = "host"
  /\ currentHostDetail' = calls[c].id
  /\ WaitFor(c, "host statuses", calls[c].id)
  /\ UNCHANGED <<view, hostStatuses, alertVars, loading, undisturbed>>

\* A page for a host that could not be fetched.
FaultyHostRefused(c) ==
  /\ calls[c] # None /\ calls[c].step = "host"
  /\ setView("host-detail")
  /\ loading' = loading \ {"host"}
  /\ Done(c)
  /\ UNCHANGED <<hostVars, alertVars, undisturbed>>

\* No answer, or no such host: an error is notified and the page stays.
HostRefused(c) ==
  /\ calls[c] # None /\ calls[c].step = "host"
  /\ loading' = loading \ {"host"}
  /\ Done(c)
  /\ UNCHANGED <<view, hostVars, alertVars, undisturbed>>

\* Returns before the flag is reset.
FaultyHostStatusesEnd(c) ==
  /\ calls[c] # None /\ calls[c].step = "host statuses"
  /\ hostStatuses' \in {calls[c].id, None}
  /\ setView("host-detail")
  /\ Done(c)
  /\ UNCHANGED <<currentHostDetail, alertVars, loading, undisturbed>>

\* The end of showHostDetail; statuses that cannot be loaded are empty.
HostStatusesEnd(c) ==
  /\ calls[c] # None /\ calls[c].step = "host statuses"
  /\ hostStatuses' \in {calls[c].id, None}
  /\ setView("host-detail")
  /\ loading' = loading \ {"host"}
  /\ Done(c)
  /\ UNCHANGED <<currentHostDetail, alertVars, undisturbed>>

-----------------------------------------------------------------------------
(* The details of an alert.                                                *)

\* showAlertDetail, up to its first await: the alert is shown from its row.
showAlertDetail(c, a) ==
  /\ calls[c] = None
  /\ loading' = loading \cup {"alert"}
  /\ currentAlertDetail' = a
  /\ WaitFor(c, "alert statuses", a)
  /\ Disturb(a)
  /\ UNCHANGED <<view, hostVars, alertStatuses, affectedHosts>>

OpenAlert(c, a) == view = "alerts" /\ showAlertDetail(c, a)

refreshAlertData(c) ==
  /\ view = "alert-detail"
  /\ AlertPage = "details"
  /\ showAlertDetail(c, currentAlertDetail)

AlertStatusesAnswered(c) ==
  /\ calls[c] # None /\ calls[c].step = "alert statuses"
  /\ alertStatuses' \in {calls[c].id, None}
  /\ WaitFor(c, "affected hosts", calls[c].id)
  /\ UNCHANGED <<view, hostVars, currentAlertDetail, affectedHosts, loading, undisturbed>>

\* The end of showAlertDetail: the hosts that have the alert of this call, or a
\* failure among the statuses shown now; none when /api/hosts fails.
AffectedHostsEnd(c) ==
  /\ calls[c] # None /\ calls[c].step = "affected hosts"
  /\ affectedHosts' \in {[alert |-> calls[c].id, statuses |-> alertStatuses], None}
  /\ setView("alert-detail")
  /\ loading' = loading \ {"alert"}
  /\ Done(c)
  /\ UNCHANGED <<hostVars, currentAlertDetail, alertStatuses, undisturbed>>

-----------------------------------------------------------------------------
Init ==
  /\ view = "dashboard"
  /\ currentHostDetail = None /\ hostStatuses = None
  /\ currentAlertDetail = None /\ alertStatuses = None /\ affectedHosts = None
  /\ loading = {}
  /\ calls = [c \in Calls |-> None]
  /\ undisturbed = TRUE

Opens(c) ==
  \/ \E h \in HostIds : OpenHost(c, h)
  \/ \E h \in HostIds, listed \in BOOLEAN : viewHostDetailFromAlert(c, h, listed)
  \/ \E listed \in BOOLEAN : refreshHostData(c, listed)
  \/ \E a \in AlertIds : OpenAlert(c, a)
  \/ refreshAlertData(c)

Answers(c) ==
  \/ HostAnswered(c)
  \/ HostRefused(c)
  \/ HostStatusesEnd(c)
  \/ AlertStatusesAnswered(c)
  \/ AffectedHostsEnd(c)

Next ==
  \/ \E v \in MainViews : GoTo(v)
  \/ \E c \in Calls : Opens(c) \/ Answers(c)

Spec == Init /\ [][Next]_vars

\* Every request is answered or fails, as the browser sees to.
FairSpec == Spec /\ \A c \in Calls : WF_vars(Answers(c))

-----------------------------------------------------------------------------
(* Properties.                                                             *)

\* Every variable has its type; a host is never shown as an alert.
TypeOK ==
  /\ view \in MainViews \cup DetailViews
  /\ currentHostDetail \in HostIds \cup {None}
  /\ hostStatuses \in HostIds \cup {None}
  /\ currentAlertDetail \in AlertIds \cup {None}
  /\ alertStatuses \in AlertIds \cup {None}
  /\ affectedHosts \in AffectedHosts \cup {None}
  /\ loading \in SUBSET {"host", "alert"}
  /\ calls \in [Calls -> HostCall \cup AlertCall \cup {None}]
  /\ undisturbed \in BOOLEAN

Awaited(steps) == \E c \in InUse : calls[c].step \in steps

\* A spinner is shown only while a call is under way that will take it away,
\* whichever calls overlapped and failed (the finally blocks of showHostDetail
\* and showAlertDetail).  The button to try again is disabled until then.
SpinnerHasCall ==
  /\ "host" \in loading => Awaited(HostSteps)
  /\ "alert" \in loading => Awaited(AlertSteps)

\* In a main view no details are left ("Clear detail view data when switching
\* to main views", app.js), except those of a call that will still open its page.
NothingLeftBehind ==
  view \in MainViews =>
    /\ currentHostDetail # None => Awaited({"host statuses"})
    /\ hostStatuses = None
    /\ currentAlertDetail # None => Awaited(AlertSteps)
    /\ alertStatuses # None => Awaited({"affected hosts"})
    /\ affectedHosts = None

\* Details that were opened undisturbed are whole when their calls have ended:
\* a page has what it is a page of, with the statuses and hosts of just that.
DetailsBelongTogether ==
  undisturbed /\ InUse = {} =>
    /\ view = "host-detail" => currentHostDetail # None
    /\ view = "alert-detail" => currentAlertDetail # None
    /\ hostStatuses \in {currentHostDetail, None}
    /\ alertStatuses \in {currentAlertDetail, None}
    /\ affectedHosts \in {[alert |-> currentAlertDetail, statuses |-> alertStatuses], None}

\* No page shows its spinner for ever, however often details are opened.
SpinnersStop == \A page \in {"host", "alert"} : []<>(page \notin loading)
=============================================================================

------------------------------ MODULE WebLists ------------------------------
(***************************************************************************)
(* What the main views of the web front end load (web/js/app.js): the      *)
(* lists of hosts, checks and alerts and the build information, their      *)
(* loading flags, the order of the hosts view that is saved and restored   *)
(* around its loads, the start of the page and its WebSocket.              *)
(*                                                                         *)
(* A load is an async method waiting for its answer; loads overlap, and    *)
(* their answers come in any order.  What a list shows is the version of   *)
(* the server's data it was made from: an answer carries a version between *)
(* the one at the request and the one now.  The statistics are loaded at   *)
(* the same times, have no flag, and show in no list: see HostViews.       *)
(*                                                                         *)
(* The server has no caller for broadcast, so no message ever arrives.     *)
(* The detail pages (WebDetails) come and go as other views without a list.*)
(***************************************************************************)
EXTENDS Naturals, FiniteSets

CONSTANTS
  Lists,          \* the views with a list: "hosts", "checks", "alerts"
  OtherViews,     \* views without one
  SortOptions,    \* the entries of the menu of the hosts view
  Calls,          \* bounds how many loads are under way at once
  MaxVersion,     \* bounds how often the server's data change
  None

ASSUME ViewsAssumption ==
  /\ "hosts" \in Lists
  /\ {"about", "dashboard"} \subseteq OtherViews
  /\ Lists \cap OtherViews = {}

ASSUME SortAssumption == "status" \in SortOptions

ASSUME VersionAssumption == MaxVersion \in Nat

VARIABLES
  view, version, shown, loading, calls,
  sort,           \* <<sortBy, sortOrder>> of the hosts view, while there is one
  savedSort,      \* savedHostsSortState
  stage,          \* how far mounted() has come
  sockets,        \* how many sockets are in each state, and reconnect timers
  connected,
  chosen          \* ghost: the order the user chose last; see Hurry

listVars == <<version, shown, loading, calls>>
sortVars == <<sort, savedSort, chosen>>
socketVars == <<sockets, connected>>
vars == <<view, listVars, sortVars, stage, socketVars>>

-----------------------------------------------------------------------------
(* Loading.                                                                *)

Loads == Lists \cup {"about"}

\* Hosts, checks and alerts share this.loading.
Flag(list) == IF list = "about" THEN "loadingBuildInfo" ELSE "loading"

Call == [list : Loads, since : Nat, then : {"restore sort", "go on mounting", "nothing"}]

ASSUME NoneAssumption == None \notin Call

Load(c, list, then) ==
  /\ calls[c] = None
  /\ loading' = loading \cup {Flag(list)}
  /\ calls' = [calls EXCEPT ![c] = [list |-> list, since |-> version, then |-> then]]

RestorePending == \E c \in Calls : calls[c] # None /\ calls[c].then = "restore sort"

(***************************************************************************)
(* The ghost.  A user who goes to another page or sorts again before the   *)
(* order of the hosts view has been restored is in a hurry: what was       *)
(* chosen is forgotten (None) until the next time of sorting in peace.     *)
(***************************************************************************)
Hurry == chosen' = IF RestorePending THEN None ELSE chosen

DefaultSort == <<"status", "desc">>

-----------------------------------------------------------------------------
(* Views.                                                                  *)

\* Saves nothing.
FaultysetView(v) ==
  /\ savedSort' = savedSort
  /\ view' = v
  /\ sort' = IF view = "hosts" /\ v = "hosts" THEN sort ELSE DefaultSort
  /\ Hurry
  /\ IF v \in Loads
     THEN \E c \in Calls :
            Load(c, v, IF v = "hosts" THEN "restore sort" ELSE "nothing")
     ELSE UNCHANGED <<loading, calls>>
  /\ UNCHANGED <<version, shown>>

\* setView: the hosts view comes and goes with its order; the order it had is
\* saved when another view (or itself) is opened, and restored after the load.
setView(v) ==
  /\ savedSort' = IF view = "hosts" THEN sort ELSE savedSort
  /\ view' = v
  /\ sort' = IF view = "hosts" /\ v = "hosts" THEN sort ELSE DefaultSort
  /\ Hurry
  /\ IF v \in Loads
     THEN \E c \in Calls :
            Load(c, v, IF v = "hosts" THEN "restore sort" ELSE "nothing")
     ELSE UNCHANGED <<loading, calls>>
  /\ UNCHANGED <<version, shown>>

\* By a click, or late, by the end of showHostDetail.
GoTo(v) == setView(v) /\ UNCHANGED <<stage, socketVars>>

\* showHostDetail saves the order of the hosts view when it starts, too.
OpenHostDetail ==
  /\ view = "hosts"
  /\ savedSort' = sort
  /\ Hurry
  /\ UNCHANGED <<view, listVars, sort, stage, socketVars>>

-----------------------------------------------------------------------------
(* The order of the hosts view.                                            *)

Sorted(order) ==
  /\ view = "hosts"
  /\ sort' = order
  /\ chosen' = IF RestorePending THEN None ELSE order
  /\ UNCHANGED <<view, listVars, savedSort, stage, socketVars>>

\* setSortBy, by the menu, which only reports another option than the present.
setSortBy(option) ==
  /\ option # sort[1]
  /\ Sorted(<<option, IF option \in {"status", "last_check"} THEN "desc" ELSE "asc">>)

\* The button beside it.
ToggleOrder == Sorted(<<sort[1], IF sort[2] = "asc" THEN "desc" ELSE "asc">>)

-----------------------------------------------------------------------------
(* Answers, the start of the page, refreshing.                             *)

\* connectWebSocket
Connect(s) == [s EXCEPT !.connecting = @ + 1]

\* What the end of a load leads to: the order is restored if the hosts view is
\* there, whether the load succeeded or not; mounted goes on and connects.
AfterLoad(then) ==
  /\ sort' = IF then = "restore sort" /\ view = "hosts" THEN savedSort ELSE sort
  /\ IF then = "go on mounting"
     THEN stage' = "stats" /\ sockets' = Connect(sockets)
     ELSE UNCHANGED <<stage, sockets>>

LoadEnds(c) ==
  /\ loading' = loading \ {Flag(calls[c].list)}
  /\ calls' = [calls EXCEPT ![c] = None]
  /\ AfterLoad(calls[c].then)
  /\ UNCHANGED <<view, version, savedSort, chosen, connected>>

LoadAnswered(c, list) ==
  /\ calls[c] # None /\ calls[c].list = list
  /\ IF list \in Lists
     THEN \E v \in calls[c].since .. version : shown' = [shown EXCEPT ![list] = v]
     ELSE UNCHANGED shown
  /\ LoadEnds(c)

\* The flag stays when the load fails.
FaultyLoadFailed(c) ==
  /\ calls[c] # None
  /\ calls' = [calls EXCEPT ![c] = None]
  /\ AfterLoad(calls[c].then)
  /\ UNCHANGED <<view, version, shown, loading, savedSort, chosen, connected>>

LoadFailed(c) ==
  /\ calls[c] # None
  /\ UNCHANGED shown
  /\ LoadEnds(c)

\* mounted: the configuration (or its default), the hosts, the socket, statistics.
ConfigLoaded ==
  /\ stage = "config"
  /\ stage' = "hosts"
  /\ \E c \in Calls : Load(c, "hosts", "go on mounting")
  /\ UNCHANGED <<view, version, shown, sortVars, socketVars>>

StatsLoaded ==
  /\ stage = "stats"
  /\ stage' = "running"
  /\ UNCHANGED <<view, listVars, sortVars, socketVars>>

\* Refreshes what was there when the timer was made.
FaultyRefresh ==
  /\ stage = "running"
  /\ view \in Lists \ {"hosts"}
  /\ \E c \in Calls : Load(c, view, "nothing")
  /\ UNCHANGED <<view, version, shown, sortVars, stage, socketVars>>

\* The interval at the end of mounted.
Refresh ==
  /\ stage = "running"
  /\ view \in Lists
  /\ \E c \in Calls : Load(c, view, "nothing")
  /\ UNCHANGED <<view, version, shown, sortVars, stage, socketVars>>

ServerChanges ==
  /\ version < MaxVersion
  /\ version' = version + 1
  /\ UNCHANGED <<view, shown, loading, calls, sortVars, stage, socketVars>>

\* An edit of this page that succeeded loads its list again, in whatever view.
EditDone(c, list) ==
  /\ calls[c] = None
  /\ version < MaxVersion
  /\ version' = version + 1
  /\ loading' = loading \cup {Flag(list)}
  /\ calls' = [calls EXCEPT ![c] = [list |-> list, since |-> version', then |-> "nothing"]]
  /\ UNCHANGED <<view, shown, sortVars, stage, socketVars>>

-----------------------------------------------------------------------------
(* The WebSocket.  A failing one reports the error and is closed then.     *)

onopen ==
  /\ sockets.connecting > 0
  /\ sockets' = [sockets EXCEPT !.connecting = @ - 1, !.open = @ + 1]
  /\ connected' = TRUE
  /\ UNCHANGED <<view, listVars, sortVars, stage>>

Failing(state) == [sockets EXCEPT ![state] = @ - 1, !.failing = @ + 1]

\* Tries again at once; the close that follows does so as well.
Faultyonerror(state) ==
  /\ sockets[state] > 0
  /\ sockets' = [Failing(state) EXCEPT !.timers = @ + 1]
  /\ connected' = FALSE
  /\ UNCHANGED <<view, listVars, sortVars, stage>>

onerror(state) ==
  /\ sockets[state] > 0
  /\ sockets' = Failing(state)
  /\ connected' = FALSE
  /\ UNCHANGED <<view, listVars, sortVars, stage>>

\* Does not try again.
Faultyonclose(state) ==
  /\ sockets[state] > 0
  /\ sockets' = [sockets EXCEPT ![state] = @ - 1]
  /\ connected' = FALSE
  /\ UNCHANGED <<view, listVars, sortVars, stage>>

onclose(state) ==
  /\ sockets[state] > 0
  /\ sockets' = [sockets EXCEPT ![state] = @ - 1, !.timers = @ + 1]
  /\ connected' = FALSE
  /\ UNCHANGED <<view, listVars, sortVars, stage>>

Reconnect ==
  /\ sockets.timers > 0
  /\ sockets' = Connect([sockets EXCEPT !.timers = @ - 1])
  /\ UNCHANGED <<view, listVars, sortVars, stage, connected>>

Live == sockets.connecting + sockets.open + sockets.failing

-----------------------------------------------------------------------------
Init ==
  /\ view = "dashboard"
  /\ version = 0
  /\ shown = [l \in Lists |-> 0]
  /\ loading = {}
  /\ calls = [c \in Calls |-> None]
  /\ sort = DefaultSort /\ savedSort = DefaultSort
  /\ chosen = DefaultSort
  /\ stage = "config"
  /\ sockets = [connecting |-> 0, open |-> 0, failing |-> 0, timers |-> 0]
  /\ connected = FALSE

UserStep ==
  \/ \E v \in Lists \cup OtherViews : GoTo(v)
  \/ OpenHostDetail
  \/ \E option \in SortOptions : setSortBy(option)
  \/ ToggleOrder
  \/ \E c \in Calls, list \in Lists \ {"alerts"} : EditDone(c, list)

SocketStep ==
  \/ onopen
  \/ \E state \in {"connecting", "open"} : onerror(state)
  \/ \E state \in {"open", "failing"} : onclose(state)
  \/ Reconnect

Answer(c) == LoadFailed(c) \/ \E list \in Loads : LoadAnswered(c, list)

Next ==
  \/ UserStep
  \/ \E c \in Calls : Answer(c)
  \/ ConfigLoaded \/ StatsLoaded \/ Refresh
  \/ ServerChanges
  \/ SocketStep

Spec == Init /\ [][Next]_vars

(***************************************************************************)
(* Every request ends, timers fire, a failing socket is closed; and the    *)
(* loads of a list do not fail for ever.                                   *)
(***************************************************************************)
Fairness ==
  /\ \A c \in Calls : WF_vars(Answer(c))
  /\ \A list \in Lists : SF_vars(\E c \in Calls : LoadAnswered(c, list))
  /\ WF_vars(ConfigLoaded) /\ WF_vars(StatsLoaded)
  /\ SF_vars(Refresh)
  /\ WF_vars(Reconnect) /\ WF_vars(onclose("failing"))

FairSpec == Spec /\ Fairness

-----------------------------------------------------------------------------
(* Properties.                                                             *)

\* A list is hidden behind its spinner only while a load is under way that will
\* show it again; the flag is shared, and any end of a load resets it.
LoadingHasCall ==
  \A flag \in loading : \E c \in Calls : calls[c] # None /\ Flag(calls[c].list) = flag

\* The order a user chose comes back with the hosts view ("Restore sort state
\* when returning to hosts view", app.js), whatever loads fail or come late,
\* unless the user went on before it was back.
SortKept ==
  chosen # None => chosen = IF view = "hosts" /\ ~RestorePending THEN sort ELSE savedSort

\* There is one socket, or one timer that will make one, from the first connect
\* on, and the header says "connected" only of an open one.
OneConnection ==
  /\ Live + sockets.timers = IF stage \in {"stats", "running"} THEN 1 ELSE 0
  /\ connected => sockets.open = 1

\* A list that stays in view comes to show what the server has, though loads
\* fail and older answers come after newer ones.
ListsCatchUp ==
  \A list \in Lists : <>[](view = list) => <>[](shown[list] = version)

\* However often the connection is lost, another one is tried.
NeverGivesUp == [](stage = "running" => <>(sockets.connecting + sockets.open > 0))
=============================================================================

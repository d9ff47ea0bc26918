--------------------------- MODULE WebListsProofs ---------------------------
(***************************************************************************)
(* Theorems about WebLists, for any lists, any options to sort by and any  *)
(* number of loads at once.  LoadingHasCall and SortKept are inductive     *)
(* given the types.  OneConnection needs besides that the load mounted()   *)
(* waits for is under way once at most, and only at that stage: its end    *)
(* makes the first socket.                                                 *)
(***************************************************************************)
EXTENDS WebLists, TLAPS

Flags == {"loading", "loadingBuildInfo"}

ListsTyped ==
  /\ view \in Lists \cup OtherViews
  /\ version \in Nat
  /\ loading \subseteq Flags
  /\ calls \in [Calls -> Call \cup {None}]
  /\ stage \in {"config", "hosts", "stats", "running"}
  /\ sockets \in [connecting : Nat, open : Nat, failing : Nat, timers : Nat]
  /\ connected \in BOOLEAN

Mounting == {c \in Calls : calls[c] # None /\ calls[c].then = "go on mounting"}

MountsOnce == /\ \A c, d \in Mounting : c = d
              /\ Mounting # {} => stage = "hosts"

Inv == ListsTyped /\ MountsOnce /\ LoadingHasCall /\ SortKept /\ OneConnection

LEMMA InitInv == Init => Inv
<1> SUFFICES ASSUME Init
             PROVE  Inv
  OBVIOUS
<1>1. ListsTyped
  BY ViewsAssumption DEF Init, ListsTyped
<1>2. Mounting = {} /\ ~RestorePending
  BY DEF Init, Mounting, RestorePending
<1>3. MountsOnce /\ LoadingHasCall /\ SortKept
  BY <1>2 DEF Init, MountsOnce, LoadingHasCall, SortKept
<1>4. OneConnection
  BY DEF Init, OneConnection, Live
<1> QED
  BY <1>1, <1>3, <1>4 DEF Inv

-----------------------------------------------------------------------------
(* Loads.                                                                  *)

\* A load that begins is a call of its own, and its flag is set.
LEMMA Begins ==
  ASSUME ListsTyped, NEW c \in Calls, NEW list \in Loads, NEW since \in Nat,
         NEW then \in {"restore sort", "go on mounting", "nothing"},
         calls[c] = None, loading' = loading \cup {Flag(list)},
         calls' = [calls EXCEPT ![c] = [list |-> list, since |-> since, then |-> then]]
  PROVE  /\ calls' \in [Calls -> Call \cup {None}]
         /\ loading' \subseteq Flags
         /\ LoadingHasCall => LoadingHasCall'
         /\ RestorePending' <=> RestorePending \/ then = "restore sort"
         /\ Mounting' = IF then = "go on mounting" THEN Mounting \cup {c} ELSE Mounting
<1>1. [list |-> list, since |-> since, then |-> then] \in Call
  BY DEF Call
<1>2. /\ calls' \in [Calls -> Call \cup {None}]
      /\ calls'[c] = [list |-> list, since |-> since, then |-> then]
      /\ \A d \in Calls \ {c} : calls'[d] = calls[d]
  BY <1>1 DEF ListsTyped
<1>3. calls'[c] # None /\ calls'[c].list = list /\ calls'[c].then = then
  BY <1>1, <1>2, NoneAssumption
<1>4. loading' \subseteq Flags
  BY DEF ListsTyped, Flag, Flags
<1>5. ASSUME LoadingHasCall, NEW flag \in loading'
      PROVE  \E d \in Calls : calls'[d] # None /\ Flag(calls'[d].list) = flag
  <2>1. CASE flag = Flag(list)
    BY <1>3, <2>1
  <2>2. CASE flag # Flag(list)
    <3>1. PICK d \in Calls : calls[d] # None /\ Flag(calls[d].list) = flag
      BY <1>5, <2>2 DEF LoadingHasCall
    <3> QED
      BY <1>2, <3>1
  <2> QED
    BY <2>1, <2>2
<1>6. RestorePending' <=> RestorePending \/ then = "restore sort"
  BY <1>2, <1>3 DEF RestorePending
<1>7. Mounting' = IF then = "go on mounting" THEN Mounting \cup {c} ELSE Mounting
  BY <1>2, <1>3 DEF Mounting
<1> QED
  BY <1>2, <1>4, <1>5, <1>6, <1>7 DEF LoadingHasCall

\* A load that ends is gone, its flag is reset, and the order is back.
LEMMA EndKeepsInv ==
  ASSUME Inv, NEW c \in Calls, calls[c] # None, LoadEnds(c)
  PROVE  Inv'
<1> USE DEF Inv
<1>1. /\ calls[c] \in Call
      /\ calls' \in [Calls -> Call \cup {None}]
      /\ calls'[c] = None
      /\ \A d \in Calls \ {c} : calls'[d] = calls[d]
  BY DEF LoadEnds, ListsTyped
<1>2. LoadingHasCall'
  <2> SUFFICES ASSUME NEW flag \in loading'
               PROVE  \E d \in Calls : calls'[d] # None /\ Flag(calls'[d].list) = flag
    BY DEF LoadingHasCall
  <2>1. flag \in loading /\ flag # Flag(calls[c].list)
    BY DEF LoadEnds
  <2>2. PICK d \in Calls : calls[d] # None /\ Flag(calls[d].list) = flag
    BY <2>1 DEF LoadingHasCall
  <2> QED
    BY <1>1, <2>1, <2>2
<1>3. Mounting' = Mounting \ {c}
  BY <1>1, ZenonT(60) DEF Mounting
<1>4. SortKept'
  <2>1. CASE calls[c].then = "restore sort"
    <3>1. RestorePending
      BY <2>1 DEF RestorePending
    <3>2. sort' = IF view = "hosts" THEN savedSort ELSE sort
      BY <2>1 DEF LoadEnds, AfterLoad
    <3> QED
      BY <3>1, <3>2 DEF LoadEnds, SortKept
  <2>2. CASE calls[c].then # "restore sort"
    <3>1. RestorePending' <=> RestorePending
      BY <1>1, <2>2 DEF RestorePending
    <3>2. sort' = sort
      BY <2>2 DEF LoadEnds, AfterLoad
    <3> QED
      BY <3>1, <3>2 DEF LoadEnds, SortKept
  <2> QED
    BY <2>1, <2>2
<1>5. CASE calls[c].then = "go on mounting"
  <2>1. c \in Mounting /\ stage = "hosts" /\ Mounting' = {}
    BY <1>3, <1>5 DEF Mounting, MountsOnce
  <2>2. stage' = "stats" /\ sockets' = [sockets EXCEPT !.connecting = @ + 1]
    BY <1>5 DEF LoadEnds, AfterLoad, Connect
  <2>3. ListsTyped' /\ MountsOnce'
    BY <1>1, <2>1, <2>2 DEF LoadEnds, ListsTyped, MountsOnce
  <2>4. OneConnection'
    BY <2>1, <2>2 DEF LoadEnds, OneConnection, Live, ListsTyped
  <2> QED
    BY <1>2, <1>4, <2>3, <2>4
<1>6. CASE calls[c].then # "go on mounting"
  <2>1. stage' = stage /\ sockets' = sockets
    BY <1>6 DEF LoadEnds, AfterLoad
  <2>2. ListsTyped' /\ MountsOnce'
    BY <1>1, <1>3, <2>1 DEF LoadEnds, ListsTyped, MountsOnce
  <2>3. OneConnection'
    BY <2>1 DEF LoadEnds, OneConnection, Live
  <2> QED
    BY <1>2, <1>4, <2>2, <2>3
<1> QED
  BY <1>5, <1>6

\* A load that begins for itself, of a list or to go on mounting.
LEMMA LoadsKeepInv ==
  ASSUME Inv, ConfigLoaded \/ Refresh \/ \E c \in Calls, list \in Lists \ {"alerts"} : EditDone(c, list)
  PROVE  Inv'
<1> USE DEF Inv
<1> Lists \subseteq Loads /\ "hosts" \in Loads
  BY ViewsAssumption DEF Loads
<1>1. CASE ConfigLoaded
  <2>1. PICK c \in Calls : Load(c, "hosts", "go on mounting")
    BY <1>1 DEF ConfigLoaded
  <2>2. /\ calls' \in [Calls -> Call \cup {None}] /\ loading' \subseteq Flags
        /\ LoadingHasCall'
        /\ RestorePending' <=> RestorePending
        /\ Mounting' = Mounting \cup {c}
    BY <2>1, Begins DEF Load, ListsTyped
  <2>3. Mounting' = {c} /\ stage' = "hosts"
    BY <1>1, <2>2 DEF ConfigLoaded, MountsOnce
  <2>4. ListsTyped' /\ MountsOnce'
    BY <1>1, <2>2, <2>3 DEF ConfigLoaded, ListsTyped, MountsOnce, socketVars
  <2>5. SortKept' /\ OneConnection'
    BY <1>1, <2>2 DEF ConfigLoaded, SortKept, sortVars, socketVars, OneConnection, Live
  <2> QED
    BY <2>2, <2>4, <2>5
<1>2. ASSUME NEW c \in Calls, NEW list \in Lists, NEW since \in Nat,
             calls[c] = None, loading' = loading \cup {Flag(list)},
             calls' = [calls EXCEPT ![c] = [list |-> list, since |-> since, then |-> "nothing"]],
             version' \in Nat,
             UNCHANGED <<view, sortVars, stage, socketVars>>
      PROVE  Inv'
  <2>1. /\ calls' \in [Calls -> Call \cup {None}] /\ loading' \subseteq Flags
        /\ LoadingHasCall'
        /\ RestorePending' <=> RestorePending
        /\ Mounting' = Mounting
    BY <1>2, Begins
  <2>2. ListsTyped' /\ MountsOnce'
    BY <1>2, <2>1 DEF ListsTyped, MountsOnce, socketVars
  <2>3. SortKept' /\ OneConnection'
    BY <1>2, <2>1 DEF SortKept, sortVars, socketVars, OneConnection, Live
  <2> QED
    BY <2>1, <2>2, <2>3
<1>3. CASE Refresh
  <2>1. PICK c \in Calls : Load(c, view, "nothing")
    BY <1>3 DEF Refresh
  <2>2. view \in Lists /\ version \in Nat
    BY <1>3 DEF Refresh, ListsTyped
  <2> QED
    BY <1>2, <1>3, <2>1, <2>2 DEF Refresh, Load
<1>4. ASSUME NEW c \in Calls, NEW list \in Lists \ {"alerts"}, EditDone(c, list)
      PROVE  Inv'
  <2>1. version' \in Nat
    BY <1>4 DEF EditDone, ListsTyped
  <2> QED
    BY <1>2, <1>4, <2>1 DEF EditDone
<1> QED
  BY <1>1, <1>3, <1>4

-----------------------------------------------------------------------------
(* Views and sorting.                                                      *)

LEMMA GoToKeepsInv ==
  ASSUME Inv, NEW v \in Lists \cup OtherViews, GoTo(v)
  PROVE  Inv'
<1> USE DEF Inv
<1>1. "hosts" \in Loads /\ UNCHANGED <<version, stage, sockets, connected>> /\ view' = v
  BY ViewsAssumption DEF Loads, GoTo, setView, socketVars
<1>2. /\ calls' \in [Calls -> Call \cup {None}] /\ loading' \subseteq Flags
      /\ LoadingHasCall'
      /\ RestorePending' <=> RestorePending \/ v = "hosts"
      /\ Mounting' = Mounting
  <2>1. CASE v \in Loads
    <3>1. PICK c \in Calls : Load(c, v, IF v = "hosts" THEN "restore sort" ELSE "nothing")
      BY <2>1 DEF GoTo, setView
    <3>2. CASE v = "hosts"
      BY <2>1, <3>1, <3>2, Begins DEF Load, ListsTyped
    <3>3. CASE v # "hosts"
      BY <2>1, <3>1, <3>3, Begins DEF Load, ListsTyped
    <3> QED
      BY <3>2, <3>3
  <2>2. CASE v \notin Loads
    <3>1. UNCHANGED <<loading, calls>> /\ v # "hosts"
      BY <1>1, <2>2 DEF GoTo, setView
    <3> QED
      BY <3>1 DEF ListsTyped, LoadingHasCall, RestorePending, Mounting
  <2> QED
    BY <2>1, <2>2
<1>3. ListsTyped' /\ MountsOnce' /\ OneConnection'
  BY <1>1, <1>2 DEF ListsTyped, MountsOnce, OneConnection, Live
<1>4. SortKept'
  <2>1. savedSort' = IF view = "hosts" THEN sort ELSE savedSort
    BY DEF GoTo, setView
  <2>2. chosen' = IF RestorePending THEN None ELSE chosen
    BY DEF GoTo, setView, Hurry
  <2>3. ~(view' = "hosts" /\ ~RestorePending')
    BY <1>1, <1>2
  <2> QED
    BY <2>1, <2>2, <2>3 DEF SortKept
<1> QED
  BY <1>2, <1>3, <1>4

LEMMA SortingKeepsInv ==
  ASSUME Inv, OpenHostDetail \/ (\E option \in SortOptions : setSortBy(option)) \/ ToggleOrder
  PROVE  Inv'
<1> USE DEF Inv
<1>1. UNCHANGED <<view, listVars, stage, socketVars>>
  BY DEF OpenHostDetail, setSortBy, ToggleOrder, Sorted
<1>2. ListsTyped' /\ MountsOnce' /\ LoadingHasCall' /\ OneConnection'
  BY <1>1 DEF listVars, socketVars, ListsTyped, MountsOnce, Mounting, LoadingHasCall, OneConnection, Live
<1>3. RestorePending' <=> RestorePending
  BY <1>1 DEF RestorePending, listVars
<1>4. SortKept'
  <2>1. CASE OpenHostDetail
    BY <1>3, <2>1 DEF OpenHostDetail, Hurry, SortKept
  <2>2. ASSUME NEW order, Sorted(order)
        PROVE  SortKept'
    BY <1>3, <2>2 DEF Sorted, SortKept
  <2> QED
    BY <2>1, <2>2 DEF setSortBy, ToggleOrder
<1> QED
  BY <1>2, <1>4

-----------------------------------------------------------------------------
(* Sockets.                                                                *)

Sockets == [connecting : Nat, open : Nat, failing : Nat, timers : Nat]

\* What each change of the counts of sockets gives.
LEMMA Counts ==
  ASSUME NEW s \in Sockets, NEW r
  PROVE  /\ s.connecting \in Nat /\ s.open \in Nat /\ s.failing \in Nat /\ s.timers \in Nat
         /\ r = [s EXCEPT !.connecting = @ - 1, !.open = @ + 1] =>
              r = [connecting |-> s.connecting - 1, open |-> s.open + 1,
                   failing |-> s.failing, timers |-> s.timers]
         /\ r = [s EXCEPT !["connecting"] = @ - 1, !.failing = @ + 1] =>
              r = [connecting |-> s.connecting - 1, open |-> s.open,
                   failing |-> s.failing + 1, timers |-> s.timers]
         /\ r = [s EXCEPT !["open"] = @ - 1, !.failing = @ + 1] =>
              r = [connecting |-> s.connecting, open |-> s.open - 1,
                   failing |-> s.failing + 1, timers |-> s.timers]
         /\ r = [s EXCEPT !["open"] = @ - 1, !.timers = @ + 1] =>
              r = [connecting |-> s.connecting, open |-> s.open - 1,
                   failing |-> s.failing, timers |-> s.timers + 1]
         /\ r = [s EXCEPT !["failing"] = @ - 1, !.timers = @ + 1] =>
              r = [connecting |-> s.connecting, open |-> s.open,
                   failing |-> s.failing - 1, timers |-> s.timers + 1]
         /\ r = [[s EXCEPT !.timers = @ - 1] EXCEPT !.connecting = @ + 1] =>
              r = [connecting |-> s.connecting + 1, open |-> s.open,
                   failing |-> s.failing, timers |-> s.timers - 1]
<1>1. s.connecting \in Nat /\ s.open \in Nat /\ s.failing \in Nat /\ s.timers \in Nat
  BY DEF Sockets
<1>2. s = [connecting |-> s.connecting, open |-> s.open, failing |-> s.failing, timers |-> s.timers]
  BY DEF Sockets
<1>3. ASSUME r = [s EXCEPT !.connecting = @ - 1, !.open = @ + 1]
      PROVE  r = [connecting |-> s.connecting - 1, open |-> s.open + 1,
                  failing |-> s.failing, timers |-> s.timers]
  BY <1>2, <1>3 DEF Sockets
<1>4. ASSUME r = [s EXCEPT !["connecting"] = @ - 1, !.failing = @ + 1]
      PROVE  r = [connecting |-> s.connecting - 1, open |-> s.open,
                  failing |-> s.failing + 1, timers |-> s.timers]
  BY <1>2, <1>4 DEF Sockets
<1>5. ASSUME r = [s EXCEPT !["open"] = @ - 1, !.failing = @ + 1]
      PROVE  r = [connecting |-> s.connecting, open |-> s.open - 1,
                  failing |-> s.failing + 1, timers |-> s.timers]
  BY <1>2, <1>5 DEF Sockets
<1>6. ASSUME r = [s EXCEPT !["open"] = @ - 1, !.timers = @ + 1]
      PROVE  r = [connecting |-> s.connecting, open |-> s.open - 1,
                  failing |-> s.failing, timers |-> s.timers + 1]
  BY <1>2, <1>6 DEF Sockets
<1>7. ASSUME r = [s EXCEPT !["failing"] = @ - 1, !.timers = @ + 1]
      PROVE  r = [connecting |-> s.connecting, open |-> s.open,
                  failing |-> s.failing - 1, timers |-> s.timers + 1]
  BY <1>2, <1>7 DEF Sockets
<1>8. ASSUME r = [[s EXCEPT !.timers = @ - 1] EXCEPT !.connecting = @ + 1]
      PROVE  r = [connecting |-> s.connecting + 1, open |-> s.open,
                  failing |-> s.failing, timers |-> s.timers - 1]
  BY <1>2, <1>8 DEF Sockets
<1> QED
  BY <1>1, <1>3, <1>4, <1>5, <1>6, <1>7, <1>8

LEMMA SocketsKeepInv ==
  ASSUME Inv, SocketStep
  PROVE  Inv'
<1> USE DEF Inv
<1>1. UNCHANGED <<view, listVars, sortVars, stage>>
  BY DEF SocketStep, onopen, onerror, onclose, Reconnect
<1>2. MountsOnce' /\ LoadingHasCall' /\ SortKept'
  BY <1>1 DEF listVars, sortVars, MountsOnce, Mounting, LoadingHasCall, SortKept, RestorePending
<1> DEFINE Kept == /\ sockets' \in [connecting : Nat, open : Nat, failing : Nat, timers : Nat]
                   /\ connected' \in BOOLEAN
                   /\ Live' + sockets'.timers = Live + sockets.timers
                   /\ connected' => sockets'.open = 1
<1>3. Kept
  <2> sockets \in Sockets
    BY DEF ListsTyped, Sockets
  <2>0. /\ sockets.connecting \in Nat /\ sockets.open \in Nat
        /\ sockets.failing \in Nat /\ sockets.timers \in Nat
        /\ sockets.connecting + sockets.open + sockets.failing + sockets.timers <= 1
    <3>1. Live + sockets.timers <= 1
      BY DEF OneConnection
    <3> QED
      BY <3>1, Counts DEF Live
  <2>1. CASE onopen
    <3>1. /\ sockets.connecting > 0 /\ connected' = TRUE
          /\ sockets' = [connecting |-> sockets.connecting - 1, open |-> sockets.open + 1,
                         failing |-> sockets.failing, timers |-> sockets.timers]
      BY <2>1, Counts DEF onopen
    <3> QED
      BY <2>0, <3>1 DEF Live
  <2>2. CASE onerror("connecting")
    <3>1. /\ sockets.connecting > 0 /\ ~connected' /\ connected' \in BOOLEAN
          /\ sockets' = [connecting |-> sockets.connecting - 1, open |-> sockets.open,
                         failing |-> sockets.failing + 1, timers |-> sockets.timers]
      BY <2>2, Counts DEF onerror, Failing
    <3> QED
      BY <2>0, <3>1 DEF Live
  <2>3. CASE onerror("open")
    <3>1. /\ sockets.open > 0 /\ ~connected' /\ connected' \in BOOLEAN
          /\ sockets' = [connecting |-> sockets.connecting, open |-> sockets.open - 1,
                         failing |-> sockets.failing + 1, timers |-> sockets.timers]
      BY <2>3, Counts DEF onerror, Failing
    <3> QED
      BY <2>0, <3>1 DEF Live
  <2>4. CASE onclose("open")
    <3>1. /\ sockets.open > 0 /\ ~connected' /\ connected' \in BOOLEAN
          /\ sockets' = [connecting |-> sockets.connecting, open |-> sockets.open - 1,
                         failing |-> sockets.failing, timers |-> sockets.timers + 1]
      BY <2>4, Counts DEF onclose
    <3> QED
      BY <2>0, <3>1 DEF Live
  <2>5. CASE onclose("failing")
    <3>1. /\ sockets.failing > 0 /\ ~connected' /\ connected' \in BOOLEAN
          /\ sockets' = [connecting |-> sockets.connecting, open |-> sockets.open,
                         failing |-> sockets.failing - 1, timers |-> sockets.timers + 1]
      BY <2>5, Counts DEF onclose
    <3> QED
      BY <2>0, <3>1 DEF Live
  <2>6. CASE Reconnect
    <3>1. /\ sockets.timers > 0 /\ connected' = connected
          /\ sockets' = [connecting |-> sockets.connecting + 1, open |-> sockets.open,
                         failing |-> sockets.failing, timers |-> sockets.timers - 1]
      BY <2>6, Counts DEF Reconnect, Connect
    <3>2. connected \in BOOLEAN /\ (connected => sockets.open = 1)
      BY DEF ListsTyped, OneConnection
    <3> QED
      BY <2>0, <3>1, <3>2 DEF Live
  <2> QED
    BY <2>1, <2>2, <2>3, <2>4, <2>5, <2>6 DEF SocketStep
<1>4. ListsTyped' /\ OneConnection'
  BY <1>1, <1>3 DEF ListsTyped, OneConnection, listVars
<1> QED
  BY <1>2, <1>4

-----------------------------------------------------------------------------
LEMMA NextKeepsInv == Inv /\ [Next]_vars => Inv'
<1> SUFFICES ASSUME Inv, [Next]_vars
             PROVE  Inv'
  OBVIOUS
<1>1. CASE UserStep
  BY <1>1, GoToKeepsInv, SortingKeepsInv, LoadsKeepInv DEF UserStep
<1>2. ASSUME NEW c \in Calls, Answer(c)
      PROVE  Inv'
  BY <1>2, EndKeepsInv DEF Answer, LoadFailed, LoadAnswered
<1>3. CASE ConfigLoaded \/ Refresh
  BY <1>3, LoadsKeepInv
<1>4. CASE StatsLoaded \/ ServerChanges \/ UNCHANGED vars
  <2>1. UNCHANGED <<view, loading, calls, sortVars, socketVars>>
    BY <1>4 DEF StatsLoaded, ServerChanges, vars, listVars
  <2>2. /\ version' \in Nat
        /\ \/ stage' = stage
           \/ stage = "stats" /\ stage' = "running"
    BY <1>4 DEF StatsLoaded, ServerChanges, vars, listVars, Inv, ListsTyped
  <2>3. ListsTyped' /\ MountsOnce'
    BY <2>1, <2>2 DEF Inv, ListsTyped, MountsOnce, Mounting, socketVars
  <2>4. LoadingHasCall' /\ SortKept' /\ OneConnection'
    BY <2>1, <2>2 DEF Inv, LoadingHasCall, SortKept, RestorePending, OneConnection, Live,
                      sortVars, socketVars
  <2> QED
    BY <2>3, <2>4 DEF Inv
<1>5. CASE SocketStep
  BY <1>5, SocketsKeepInv
<1> QED
  BY <1>1, <1>2, <1>3, <1>4, <1>5 DEF Next

LEMMA InvHolds == Spec => []Inv
BY InitInv, NextKeepsInv, PTL DEF Spec

\* A list is hidden behind its spinner only while a load is under way that will
\* show it again (loadHosts, loadChecks, loadAlerts, loadBuildInfo).
THEOREM HiddenListsAreLoading == Spec => []LoadingHasCall
<1>1. Inv => LoadingHasCall
  BY DEF Inv
<1> QED
  BY <1>1, InvHolds, PTL

\* The order of the hosts view comes back with it (setView, showHostDetail).
THEOREM OrderComesBack == Spec => []SortKept
<1>1. Inv => SortKept
  BY DEF Inv
<1> QED
  BY <1>1, InvHolds, PTL

\* There is one socket or one timer that will make one (mounted, connectWebSocket).
THEOREM ConnectionIsOne == Spec => []OneConnection
<1>1. Inv => OneConnection
  BY DEF Inv
<1> QED
  BY <1>1, InvHolds, PTL
=============================================================================

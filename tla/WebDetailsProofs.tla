-------------------------- MODULE WebDetailsProofs --------------------------
(***************************************************************************)
(* Theorems about WebDetails, for any hosts, alerts, main views and any    *)
(* number of calls at once.  Three invariants are inductive together: a    *)
(* flag, and what is left in a main view, each belong to a call, and the   *)
(* step that ends that call resets the flag and leaves the main view.      *)
(* DetailsBelongTogether holds when the calls have ended; the invariant it *)
(* needs says what each call still under way is going to put right.        *)
(***************************************************************************)
EXTENDS WebDetails, TLAPS

Inv == TypeOK /\ SpinnerHasCall /\ NothingLeftBehind

LEMMA InitInv == Init => Inv
BY ViewsAssumption DEF Init, Inv, TypeOK, SpinnerHasCall, NothingLeftBehind, DetailViews

-----------------------------------------------------------------------------
(* Lemmas about calls.                                                     *)

\* The details views are not main views.
LEMMA ViewsDiffer ==
  /\ "dashboard" \in MainViews /\ "hosts" \in MainViews /\ "alerts" \in MainViews
  /\ "host-detail" \notin MainViews /\ "alert-detail" \notin MainViews
BY ViewsAssumption DEF DetailViews

\* A call waits for a step of its kind, with an id of its kind.
LEMMA CallShape ==
  ASSUME TypeOK, NEW c \in Calls, calls[c] # None
  PROVE  /\ calls[c] \in HostCall \cup AlertCall
         /\ calls[c].step \in HostSteps => calls[c].id \in HostIds
         /\ calls[c].step \in AlertSteps => calls[c].id \in AlertIds
BY DEF TypeOK, HostCall, AlertCall, HostSteps, AlertSteps

\* A call that is made or goes on keeps the calls well formed, and is awaited.
LEMMA WaitingIsAwaited ==
  ASSUME TypeOK, NEW c \in Calls, NEW step, NEW id,
         \/ step \in HostSteps /\ id \in HostIds
         \/ step \in AlertSteps /\ id \in AlertIds,
         WaitFor(c, step, id)
  PROVE  /\ calls' \in [Calls -> HostCall \cup AlertCall \cup {None}]
         /\ \A steps : step \in steps => Awaited(steps)'
<1>1. [step |-> step, id |-> id] \in HostCall \cup AlertCall
  BY DEF HostCall, AlertCall
<1>2. calls' \in [Calls -> HostCall \cup AlertCall \cup {None}]
  BY <1>1 DEF TypeOK, WaitFor
<1>3. calls'[c] = [step |-> step, id |-> id]
  BY DEF TypeOK, WaitFor
<1>4. calls'[c] # None /\ calls'[c].step = step
  BY <1>1, <1>3, NoneAssumption
<1> QED
  BY <1>2, <1>4 DEF Awaited, InUse

\* What is awaited is so still, when the call that changes waited for something else.
LEMMA StillAwaited ==
  ASSUME TypeOK, NEW c \in Calls, NEW x, calls' = [calls EXCEPT ![c] = x],
         NEW steps, Awaited(steps), calls[c] = None \/ calls[c].step \notin steps
  PROVE  Awaited(steps)'
<1>1. PICK d \in InUse : calls[d].step \in steps
  BY DEF Awaited
<1>2. d # c /\ calls'[d] = calls[d]
  BY <1>1 DEF InUse, TypeOK
<1> QED
  BY <1>1, <1>2 DEF Awaited, InUse

\* A call that has ended leaves the calls well formed.
LEMMA DoneShape ==
  ASSUME TypeOK, NEW c \in Calls, Done(c)
  PROVE  calls' \in [Calls -> HostCall \cup AlertCall \cup {None}]
BY DEF TypeOK, Done

-----------------------------------------------------------------------------
(* The steps.                                                              *)

LEMMA OpenHostKeepsInv ==
  ASSUME Inv, NEW c \in Calls, NEW h \in HostIds, NEW listed \in BOOLEAN,
         showHostDetail(c, h, listed)
  PROVE  Inv'
<1> USE DEF Inv
<1> DEFINE step == IF listed THEN "host statuses" ELSE "host"
<1>1. step \in HostSteps /\ WaitFor(c, step, h)
  BY DEF showHostDetail, HostSteps
<1> HIDE DEF step
<1>2. /\ calls' \in [Calls -> HostCall \cup AlertCall \cup {None}]
      /\ \A steps : step \in steps => Awaited(steps)'
  BY <1>1, WaitingIsAwaited
<1>3. ASSUME NEW steps, Awaited(steps)
      PROVE  Awaited(steps)'
  BY <1>1, <1>3, StillAwaited DEF showHostDetail, WaitFor
<1>4. TypeOK'
  BY <1>2 DEF showHostDetail, TypeOK, alertVars, Disturb
<1>5. SpinnerHasCall'
  BY <1>1, <1>2, <1>3 DEF showHostDetail, SpinnerHasCall
<1>6. listed => Awaited({"host statuses"})'
  BY <1>2 DEF step
<1>7. NothingLeftBehind'
  BY <1>3, <1>6 DEF showHostDetail, NothingLeftBehind, alertVars
<1> QED
  BY <1>4, <1>5, <1>7

LEMMA OpenAlertKeepsInv ==
  ASSUME Inv, NEW c \in Calls, NEW a \in AlertIds, showAlertDetail(c, a)
  PROVE  Inv'
<1> USE DEF Inv
<1>1. "alert statuses" \in AlertSteps /\ WaitFor(c, "alert statuses", a)
  BY DEF showAlertDetail, AlertSteps
<1>2. /\ calls' \in [Calls -> HostCall \cup AlertCall \cup {None}]
      /\ \A steps : "alert statuses" \in steps => Awaited(steps)'
  BY <1>1, WaitingIsAwaited
<1>3. ASSUME NEW steps, Awaited(steps)
      PROVE  Awaited(steps)'
  BY <1>1, <1>3, StillAwaited DEF showAlertDetail, WaitFor
<1>4. TypeOK'
  BY <1>2 DEF showAlertDetail, TypeOK, hostVars, Disturb
<1>5. SpinnerHasCall'
  BY <1>1, <1>2, <1>3 DEF showAlertDetail, SpinnerHasCall
<1>6. NothingLeftBehind'
  BY <1>1, <1>2, <1>3 DEF showAlertDetail, NothingLeftBehind, hostVars
<1> QED
  BY <1>4, <1>5, <1>6

LEMMA OpensKeepInv ==
  ASSUME Inv, NEW c \in Calls, Opens(c)
  PROVE  Inv'
<1>1. ASSUME NEW h \in HostIds, OpenHost(c, h)
      PROVE  Inv'
  BY <1>1, OpenHostKeepsInv DEF OpenHost
<1>2. ASSUME NEW h \in HostIds, NEW listed \in BOOLEAN, viewHostDetailFromAlert(c, h, listed)
      PROVE  Inv'
  BY <1>2, OpenHostKeepsInv DEF viewHostDetailFromAlert
<1>3. ASSUME NEW listed \in BOOLEAN, refreshHostData(c, listed)
      PROVE  Inv'
  <2>1. currentHostDetail \in HostIds
    BY <1>3 DEF refreshHostData, HostPage, Inv, TypeOK
  <2> QED
    BY <1>3, <2>1, OpenHostKeepsInv DEF refreshHostData
<1>4. ASSUME NEW a \in AlertIds, OpenAlert(c, a)
      PROVE  Inv'
  BY <1>4, OpenAlertKeepsInv DEF OpenAlert
<1>5. ASSUME refreshAlertData(c)
      PROVE  Inv'
  <2>1. currentAlertDetail \in AlertIds
    BY <1>5 DEF refreshAlertData, AlertPage, Inv, TypeOK
  <2> QED
    BY <1>5, <2>1, OpenAlertKeepsInv DEF refreshAlertData
<1> QED
  BY <1>1, <1>2, <1>3, <1>4, <1>5 DEF Opens

LEMMA AnswersKeepInv ==
  ASSUME Inv, NEW c \in Calls, Answers(c)
  PROVE  Inv'
<1> USE DEF Inv
<1>1. CASE HostAnswered(c)
  <2>1. "host statuses" \in HostSteps /\ calls[c].id \in HostIds
    BY <1>1, CallShape DEF HostAnswered, HostSteps
  <2>2. WaitFor(c, "host statuses", calls[c].id)
    BY <1>1 DEF HostAnswered
  <2>3. /\ calls' \in [Calls -> HostCall \cup AlertCall \cup {None}]
        /\ \A steps : "host statuses" \in steps => Awaited(steps)'
    BY <2>1, <2>2, WaitingIsAwaited
  <2>4. ASSUME NEW steps, Awaited(steps), "host" \notin steps
        PROVE  Awaited(steps)'
    BY <1>1, <2>2, <2>4, StillAwaited DEF HostAnswered, WaitFor
  <2>5. TypeOK'
    BY <1>1, <2>1, <2>3 DEF HostAnswered, TypeOK, alertVars
  <2>6. SpinnerHasCall'
    BY <1>1, <2>1, <2>3, <2>4 DEF HostAnswered, SpinnerHasCall, AlertSteps
  <2>7. NothingLeftBehind'
    BY <1>1, <2>3, <2>4 DEF HostAnswered, NothingLeftBehind, alertVars, AlertSteps
  <2> QED
    BY <2>5, <2>6, <2>7
<1>2. CASE HostRefused(c)
  <2>1. calls' \in [Calls -> HostCall \cup AlertCall \cup {None}]
    BY <1>2, DoneShape DEF HostRefused
  <2>2. ASSUME NEW steps, Awaited(steps), "host" \notin steps
        PROVE  Awaited(steps)'
    BY <1>2, <2>2, StillAwaited DEF HostRefused, Done
  <2>3. TypeOK'
    BY <1>2, <2>1 DEF HostRefused, TypeOK, hostVars, alertVars
  <2>4. SpinnerHasCall'
    BY <1>2, <2>2 DEF HostRefused, SpinnerHasCall, AlertSteps
  <2>5. NothingLeftBehind'
    BY <1>2, <2>2 DEF HostRefused, NothingLeftBehind, hostVars, alertVars, AlertSteps
  <2> QED
    BY <2>3, <2>4, <2>5
<1>3. CASE HostStatusesEnd(c)
  <2>1. calls' \in [Calls -> HostCall \cup AlertCall \cup {None}]
    BY <1>3, DoneShape DEF HostStatusesEnd
  <2>2. calls[c].id \in HostIds
    BY <1>3, CallShape DEF HostStatusesEnd, HostSteps
  <2>3. ASSUME NEW steps, Awaited(steps), "host statuses" \notin steps
        PROVE  Awaited(steps)'
    BY <1>3, <2>3, StillAwaited DEF HostStatusesEnd, Done
  <2>4. view' = "host-detail"
    BY <1>3 DEF HostStatusesEnd, setView
  <2>5. TypeOK'
    BY <1>3, <2>1, <2>2, <2>4 DEF HostStatusesEnd, TypeOK, alertVars, DetailViews
  <2>6. SpinnerHasCall'
    BY <1>3, <2>3 DEF HostStatusesEnd, SpinnerHasCall, AlertSteps
  <2>7. NothingLeftBehind'
    BY <2>4, ViewsDiffer DEF NothingLeftBehind
  <2> QED
    BY <2>5, <2>6, <2>7
<1>4. CASE AlertStatusesAnswered(c)
  <2>1. "affected hosts" \in AlertSteps /\ calls[c].id \in AlertIds
    BY <1>4, CallShape DEF AlertStatusesAnswered, AlertSteps
  <2>2. WaitFor(c, "affected hosts", calls[c].id)
    BY <1>4 DEF AlertStatusesAnswered
  <2>3. /\ calls' \in [Calls -> HostCall \cup AlertCall \cup {None}]
        /\ \A steps : "affected hosts" \in steps => Awaited(steps)'
    BY <2>1, <2>2, WaitingIsAwaited
  <2>4. ASSUME NEW steps, Awaited(steps), "alert statuses" \notin steps
        PROVE  Awaited(steps)'
    BY <1>4, <2>2, <2>4, StillAwaited DEF AlertStatusesAnswered, WaitFor
  <2>5. TypeOK'
    BY <1>4, <2>1, <2>3 DEF AlertStatusesAnswered, TypeOK, hostVars
  <2>6. SpinnerHasCall'
    BY <1>4, <2>1, <2>3, <2>4 DEF AlertStatusesAnswered, SpinnerHasCall, HostSteps
  <2>7. NothingLeftBehind'
    BY <1>4, <2>1, <2>3, <2>4 DEF AlertStatusesAnswered, NothingLeftBehind, hostVars
  <2> QED
    BY <2>5, <2>6, <2>7
<1>5. CASE AffectedHostsEnd(c)
  <2>1. calls' \in [Calls -> HostCall \cup AlertCall \cup {None}]
    BY <1>5, DoneShape DEF AffectedHostsEnd
  <2>2. calls[c].id \in AlertIds
    BY <1>5, CallShape DEF AffectedHostsEnd, AlertSteps
  <2>3. ASSUME NEW steps, Awaited(steps), "affected hosts" \notin steps
        PROVE  Awaited(steps)'
    BY <1>5, <2>3, StillAwaited DEF AffectedHostsEnd, Done
  <2>4. view' = "alert-detail"
    BY <1>5 DEF AffectedHostsEnd, setView
  <2>5. affectedHosts' \in AffectedHosts \cup {None}
    <3>1. alertStatuses \in AlertIds \cup {None}
      BY DEF TypeOK
    <3>2. [alert |-> calls[c].id, statuses |-> alertStatuses] \in AffectedHosts
      BY <2>2, <3>1 DEF AffectedHosts
    <3> QED
      BY <1>5, <3>2 DEF AffectedHostsEnd
  <2>6. TypeOK'
    BY <1>5, <2>1, <2>4, <2>5 DEF AffectedHostsEnd, TypeOK, hostVars, DetailViews
  <2>7. SpinnerHasCall'
    BY <1>5, <2>3 DEF AffectedHostsEnd, SpinnerHasCall, HostSteps
  <2>8. NothingLeftBehind'
    BY <2>4, ViewsDiffer DEF NothingLeftBehind
  <2> QED
    BY <2>6, <2>7, <2>8
<1> QED
  BY <1>1, <1>2, <1>3, <1>4, <1>5 DEF Answers

LEMMA GoToKeepsInv ==
  ASSUME Inv, NEW v \in MainViews, GoTo(v)
  PROVE  Inv'
<1>1. /\ view' = v
      /\ currentHostDetail' = None /\ hostStatuses' = None
      /\ currentAlertDetail' = None /\ alertStatuses' = None /\ affectedHosts' = None
      /\ loading' = loading /\ calls' = calls /\ undisturbed' \in BOOLEAN
  BY DEF GoTo, setView
<1> QED
  BY <1>1 DEF Inv, TypeOK, SpinnerHasCall, NothingLeftBehind, Awaited, InUse

LEMMA NextKeepsInv == Inv /\ [Next]_vars => Inv'
<1>1. ASSUME Inv, UNCHANGED vars
      PROVE  Inv'
  BY <1>1 DEF vars, hostVars, alertVars, Inv, TypeOK, SpinnerHasCall, NothingLeftBehind,
              Awaited, InUse
<1> QED
  BY <1>1, GoToKeepsInv, OpensKeepInv, AnswersKeepInv DEF Next

-----------------------------------------------------------------------------
(* Details that were opened undisturbed.                                   *)

\* All calls are of one id, and each page is of it from the moment on that its call
\* has only statuses or affected hosts to wait for.
CallsAgree ==
  /\ \A c, d \in InUse : calls[c].id = calls[d].id
  /\ \A c \in InUse :
       /\ calls[c].step = "host statuses" => currentHostDetail = calls[c].id
       /\ calls[c].step \in AlertSteps => currentAlertDetail = calls[c].id

\* What does not belong to its page is about to be replaced by a call.
PartsBelong ==
  /\ view = "host-detail" => currentHostDetail # None
  /\ view = "alert-detail" => currentAlertDetail # None
  /\ hostStatuses \in {currentHostDetail, None} \/ Awaited({"host statuses"})
  /\ alertStatuses \in {currentAlertDetail, None} \/ Awaited({"alert statuses"})
  /\ \/ affectedHosts \in {[alert |-> currentAlertDetail, statuses |-> alertStatuses], None}
     \/ Awaited(AlertSteps)

Together == undisturbed => CallsAgree /\ PartsBelong

\* A call that is made or goes on, undisturbed, agrees with the others.
LEMMA OpenHostKeepsTogether ==
  ASSUME Inv, Together, NEW c \in Calls, NEW h \in HostIds, NEW listed \in BOOLEAN,
         showHostDetail(c, h, listed)
  PROVE  Together'
<1> SUFFICES ASSUME undisturbed'
             PROVE  CallsAgree' /\ PartsBelong'
  BY DEF Together
<1> DEFINE step == IF listed THEN "host statuses" ELSE "host"
<1>1. step \in HostSteps /\ WaitFor(c, step, h) /\ calls[c] = None
  BY DEF showHostDetail, HostSteps
<1>2. listed => step = "host statuses"
  OBVIOUS
<1>3. ~listed => step = "host"
  OBVIOUS
<1> HIDE DEF step
<1>4. undisturbed /\ CallsAgree /\ PartsBelong /\ \A d \in InUse : calls[d].id = h
  BY DEF showHostDetail, Disturb, Together
<1>5. /\ calls'[c].step = step /\ calls'[c].id = h
      /\ \A d \in Calls \ {c} : calls'[d] = calls[d]
  BY <1>1 DEF Inv, TypeOK, WaitFor
<1>6. /\ InUse' \subseteq InUse \cup {c}
      /\ \A d \in InUse \ {c} : calls'[d] = calls[d]
  BY <1>5 DEF InUse
<1>7. /\ UNCHANGED <<view, hostStatuses, currentAlertDetail, alertStatuses, affectedHosts>>
      /\ currentHostDetail' = IF listed THEN h ELSE currentHostDetail
  BY DEF showHostDetail, alertVars
<1>8. step \notin AlertSteps
  BY <1>1 DEF HostSteps, AlertSteps
<1>9. CallsAgree'
  <2>1. \A d \in InUse' : calls'[d].id = h
    BY <1>4, <1>5, <1>6
  <2>2. ASSUME NEW d \in InUse', d # c
        PROVE  /\ calls'[d].step = "host statuses" => currentHostDetail' = calls'[d].id
               /\ calls'[d].step \in AlertSteps => currentAlertDetail' = calls'[d].id
    BY <1>4, <1>6, <1>7, <2>2 DEF CallsAgree
  <2>3. /\ calls'[c].step = "host statuses" => currentHostDetail' = h
        /\ calls'[c].step \notin AlertSteps
    BY <1>3, <1>5, <1>7, <1>8
  <2> QED
    BY <2>1, <2>2, <2>3 DEF CallsAgree
<1>10. ASSUME NEW steps, Awaited(steps)
       PROVE  Awaited(steps)'
  BY <1>1, <1>10, StillAwaited DEF WaitFor, Inv
<1>11. listed => Awaited({"host statuses"})'
  BY <1>1, <1>2, WaitingIsAwaited DEF Inv
<1>12. PartsBelong'
  BY <1>4, <1>7, <1>10, <1>11, NoneAssumption DEF PartsBelong
<1> QED
  BY <1>9, <1>12

LEMMA OpenAlertKeepsTogether ==
  ASSUME Inv, Together, NEW c \in Calls, NEW a \in AlertIds, showAlertDetail(c, a)
  PROVE  Together'
<1> SUFFICES ASSUME undisturbed'
             PROVE  CallsAgree' /\ PartsBelong'
  BY DEF Together
<1>1. WaitFor(c, "alert statuses", a) /\ calls[c] = None
  BY DEF showAlertDetail
<1>2. undisturbed /\ CallsAgree /\ PartsBelong /\ \A d \in InUse : calls[d].id = a
  BY DEF showAlertDetail, Disturb, Together
<1>3. /\ calls'[c].step = "alert statuses" /\ calls'[c].id = a
      /\ \A d \in Calls \ {c} : calls'[d] = calls[d]
  BY <1>1 DEF Inv, TypeOK, WaitFor
<1>4. /\ InUse' \subseteq InUse \cup {c}
      /\ \A d \in InUse \ {c} : calls'[d] = calls[d]
  BY <1>3 DEF InUse
<1>5. /\ UNCHANGED <<view, currentHostDetail, hostStatuses, alertStatuses, affectedHosts>>
      /\ currentAlertDetail' = a
  BY DEF showAlertDetail, hostVars
<1>6. CallsAgree'
  <2>1. \A d \in InUse' : calls'[d].id = a
    BY <1>2, <1>3, <1>4
  <2>2. ASSUME NEW d \in InUse', d # c
        PROVE  calls'[d].step = "host statuses" => currentHostDetail' = calls'[d].id
    BY <1>2, <1>4, <1>5, <2>2 DEF CallsAgree
  <2>3. calls'[c].step # "host statuses"
    BY <1>3
  <2> QED
    BY <1>5, <2>1, <2>2, <2>3 DEF CallsAgree
<1>7. ASSUME NEW steps, Awaited(steps)
      PROVE  Awaited(steps)'
  BY <1>1, <1>7, StillAwaited DEF WaitFor, Inv
<1>8. Awaited({"alert statuses"})' /\ Awaited(AlertSteps)'
  BY <1>1, WaitingIsAwaited DEF Inv, AlertSteps
<1>9. PartsBelong'
  BY <1>2, <1>5, <1>7, <1>8, NoneAssumption DEF PartsBelong
<1> QED
  BY <1>6, <1>9

LEMMA OpensKeepTogether ==
  ASSUME Inv, Together, NEW c \in Calls, Opens(c)
  PROVE  Together'
<1>1. ASSUME NEW h \in HostIds, OpenHost(c, h)
      PROVE  Together'
  BY <1>1, OpenHostKeepsTogether DEF OpenHost
<1>2. ASSUME NEW h \in HostIds, NEW listed \in BOOLEAN, viewHostDetailFromAlert(c, h, listed)
      PROVE  Together'
  BY <1>2, OpenHostKeepsTogether DEF viewHostDetailFromAlert
<1>3. ASSUME NEW listed \in BOOLEAN, refreshHostData(c, listed)
      PROVE  Together'
  <2>1. currentHostDetail \in HostIds
    BY <1>3 DEF refreshHostData, HostPage, Inv, TypeOK
  <2> QED
    BY <1>3, <2>1, OpenHostKeepsTogether DEF refreshHostData
<1>4. ASSUME NEW a \in AlertIds, OpenAlert(c, a)
      PROVE  Together'
  BY <1>4, OpenAlertKeepsTogether DEF OpenAlert
<1>5. ASSUME refreshAlertData(c)
      PROVE  Together'
  <2>1. currentAlertDetail \in AlertIds
    BY <1>5 DEF refreshAlertData, AlertPage, Inv, TypeOK
  <2> QED
    BY <1>5, <2>1, OpenAlertKeepsTogether DEF refreshAlertData
<1> QED
  BY <1>1, <1>2, <1>3, <1>4, <1>5 DEF Opens

\* A call that ends, or goes on with its id, leaves the others in agreement.
LEMMA AnsweredCalls ==
  ASSUME Inv, NEW c \in Calls, calls[c] # None,
         Done(c) \/ \E step : WaitFor(c, step, calls[c].id)
  PROVE  /\ InUse' \subseteq InUse
         /\ \A d \in InUse \ {c} : calls'[d] = calls[d]
         /\ c \in InUse' => calls'[c].id = calls[c].id
<1>1. \A d \in Calls \ {c} : calls'[d] = calls[d]
  BY DEF Inv, TypeOK, Done, WaitFor
<1>2. CASE Done(c)
  <2>1. calls'[c] = None
    BY <1>2 DEF Inv, TypeOK, Done
  <2> QED
    BY <1>1, <2>1 DEF InUse
<1>3. ASSUME NEW step, WaitFor(c, step, calls[c].id)
      PROVE  calls'[c].id = calls[c].id
  BY <1>3 DEF Inv, TypeOK, WaitFor
<1> QED
  BY <1>1, <1>2, <1>3 DEF InUse

LEMMA AnswersKeepTogether ==
  ASSUME Inv, Together, NEW c \in Calls, Answers(c)
  PROVE  Together'
<1> SUFFICES ASSUME undisturbed'
             PROVE  CallsAgree' /\ PartsBelong'
  BY DEF Together
<1>1. undisturbed /\ CallsAgree /\ PartsBelong /\ calls[c] # None
  BY DEF Answers, HostAnswered, HostRefused, HostStatusesEnd, AlertStatusesAnswered,
         AffectedHostsEnd, Together
<1>2. c \in InUse /\ \A d \in InUse : calls[d].id = calls[c].id
  BY <1>1 DEF InUse, CallsAgree
<1>3. /\ InUse' \subseteq InUse
      /\ \A d \in InUse \ {c} : calls'[d] = calls[d]
      /\ c \in InUse' => calls'[c].id = calls[c].id
  BY <1>1, AnsweredCalls DEF Answers, HostAnswered, HostRefused, HostStatusesEnd,
     AlertStatusesAnswered, AffectedHostsEnd
<1>4. \A d, e \in InUse' : calls'[d].id = calls'[e].id
  BY <1>2, <1>3
<1>5. /\ calls[c].step \in HostSteps => calls[c].id \in HostIds
      /\ calls[c].step \in AlertSteps => calls[c].id \in AlertIds
  BY <1>1, CallShape DEF Inv
<1>6. CASE HostAnswered(c)
  <2>1. calls'[c].step = "host statuses" /\ calls'[c].id = calls[c].id
    BY <1>6 DEF HostAnswered, WaitFor, Inv, TypeOK
  <2>2. CallsAgree'
    <3>1. currentHostDetail' = calls[c].id /\ currentAlertDetail' = currentAlertDetail
      BY <1>6 DEF HostAnswered, alertVars
    <3>2. ASSUME NEW d \in InUse', d # c
          PROVE  /\ calls'[d].step = "host statuses" => currentHostDetail' = calls'[d].id
                 /\ calls'[d].step \in AlertSteps => currentAlertDetail' = calls'[d].id
      BY <1>1, <1>2, <1>3, <3>1, <3>2 DEF CallsAgree
    <3>3. calls'[c].step \notin AlertSteps /\ calls'[c].id = calls[c].id
      BY <2>1 DEF AlertSteps
    <3> QED
      BY <1>4, <3>1, <3>2, <3>3 DEF CallsAgree
  <2>3. Awaited({"host statuses"})'
    BY <1>5, <1>6, WaitingIsAwaited DEF HostAnswered, HostSteps, Inv
  <2>4. ASSUME NEW steps, Awaited(steps), "host" \notin steps
        PROVE  Awaited(steps)'
    BY <1>6, <2>4, StillAwaited DEF HostAnswered, WaitFor, Inv
  <2>5. calls[c].id # None
    BY <1>5, <1>6, NoneAssumption DEF HostAnswered, HostSteps
  <2>6. PartsBelong'
    BY <1>1, <1>6, <2>3, <2>4, <2>5 DEF PartsBelong, HostAnswered, alertVars, AlertSteps
  <2> QED
    BY <2>2, <2>6
<1>7. CASE HostRefused(c)
  <2>1. c \notin InUse'
    BY <1>7 DEF HostRefused, Done, InUse, Inv, TypeOK
  <2>2. CallsAgree'
    BY <1>1, <1>3, <1>4, <1>7, <2>1 DEF CallsAgree, HostRefused, hostVars, alertVars
  <2>3. ASSUME NEW steps, Awaited(steps), "host" \notin steps
        PROVE  Awaited(steps)'
    BY <1>7, <2>3, StillAwaited DEF HostRefused, Done, Inv
  <2>4. PartsBelong'
    BY <1>1, <1>7, <2>3 DEF PartsBelong, HostRefused, hostVars, alertVars, AlertSteps
  <2> QED
    BY <2>2, <2>4
<1>8. CASE HostStatusesEnd(c)
  <2>1. c \notin InUse'
    BY <1>8 DEF HostStatusesEnd, Done, InUse, Inv, TypeOK
  <2>2. CallsAgree'
    BY <1>1, <1>3, <1>4, <1>8, <2>1 DEF CallsAgree, HostStatusesEnd, alertVars
  <2>3. ASSUME NEW steps, Awaited(steps), "host statuses" \notin steps
        PROVE  Awaited(steps)'
    BY <1>8, <2>3, StillAwaited DEF HostStatusesEnd, Done, Inv
  <2>4. currentHostDetail = calls[c].id /\ calls[c].id # None
    BY <1>1, <1>2, <1>5, <1>8, NoneAssumption DEF CallsAgree, HostStatusesEnd, HostSteps
  <2>5. PartsBelong'
    BY <1>1, <1>8, <2>3, <2>4 DEF PartsBelong, HostStatusesEnd, setView, alertVars, AlertSteps
  <2> QED
    BY <2>2, <2>5
<1>9. CASE AlertStatusesAnswered(c)
  <2>1. calls'[c].step = "affected hosts" /\ calls'[c].id = calls[c].id
    BY <1>9 DEF AlertStatusesAnswered, WaitFor, Inv, TypeOK
  <2>2. currentAlertDetail = calls[c].id
    BY <1>1, <1>2, <1>9 DEF CallsAgree, AlertStatusesAnswered, AlertSteps
  <2>3. CallsAgree'
    <3>1. currentHostDetail' = currentHostDetail /\ currentAlertDetail' = currentAlertDetail
      BY <1>9 DEF AlertStatusesAnswered, hostVars
    <3>2. ASSUME NEW d \in InUse', d # c
          PROVE  /\ calls'[d].step = "host statuses" => currentHostDetail' = calls'[d].id
                 /\ calls'[d].step \in AlertSteps => currentAlertDetail' = calls'[d].id
      BY <1>1, <1>2, <1>3, <3>1, <3>2 DEF CallsAgree
    <3>3. calls'[c].step # "host statuses" /\ calls'[c].id = calls[c].id
      BY <2>1
    <3> QED
      BY <1>4, <2>2, <3>1, <3>2, <3>3 DEF CallsAgree
  <2>4. Awaited(AlertSteps)'
    BY <1>5, <1>9, WaitingIsAwaited DEF AlertStatusesAnswered, AlertSteps, Inv
  <2>5. ASSUME NEW steps, Awaited(steps), "alert statuses" \notin steps
        PROVE  Awaited(steps)'
    BY <1>9, <2>5, StillAwaited DEF AlertStatusesAnswered, WaitFor, Inv
  <2>6. PartsBelong'
    BY <1>1, <1>9, <2>2, <2>4, <2>5 DEF PartsBelong, AlertStatusesAnswered, hostVars
  <2> QED
    BY <2>3, <2>6
<1>10. CASE AffectedHostsEnd(c)
  <2>1. c \notin InUse'
    BY <1>10 DEF AffectedHostsEnd, Done, InUse, Inv, TypeOK
  <2>2. CallsAgree'
    BY <1>1, <1>3, <1>4, <1>10, <2>1 DEF CallsAgree, AffectedHostsEnd, hostVars
  <2>3. ASSUME NEW steps, Awaited(steps), "affected hosts" \notin steps
        PROVE  Awaited(steps)'
    BY <1>10, <2>3, StillAwaited DEF AffectedHostsEnd, Done, Inv
  <2>4. currentAlertDetail = calls[c].id /\ calls[c].id # None
    BY <1>1, <1>2, <1>5, <1>10, NoneAssumption DEF CallsAgree, AffectedHostsEnd, AlertSteps
  <2>5. PartsBelong'
    BY <1>1, <1>10, <2>3, <2>4 DEF PartsBelong, AffectedHostsEnd, setView, hostVars
  <2> QED
    BY <2>2, <2>5
<1> QED
  BY <1>6, <1>7, <1>8, <1>9, <1>10 DEF Answers

\* Leaving for a main view empties both pages; it is undisturbed when no call is left.
LEMMA GoToKeepsTogether ==
  ASSUME Inv, NEW v \in MainViews, GoTo(v)
  PROVE  Together'
<1> SUFFICES ASSUME undisturbed'
             PROVE  CallsAgree' /\ PartsBelong'
  BY DEF Together
<1>1. InUse' = {}
  BY DEF GoTo, InUse
<1>2. /\ view' \in MainViews
      /\ hostStatuses' = None /\ alertStatuses' = None /\ affectedHosts' = None
  BY DEF GoTo, setView
<1> QED
  BY <1>1, <1>2, ViewsDiffer DEF CallsAgree, PartsBelong

LEMMA NextKeepsTogether == Inv /\ Together /\ [Next]_vars => Together'
<1>1. ASSUME Together, UNCHANGED vars
      PROVE  Together'
  BY <1>1 DEF vars, hostVars, alertVars, Together, CallsAgree, PartsBelong, Awaited, InUse
<1> QED
  BY <1>1, GoToKeepsTogether, OpensKeepTogether, AnswersKeepTogether DEF Next

-----------------------------------------------------------------------------
(* The theorems.                                                           *)

LEMMA InvHolds == Spec => []Inv
BY InitInv, NextKeepsInv, PTL DEF Spec

\* Every variable of the detail pages keeps its type, for any number of calls.
THEOREM DetailsTypeCorrect == Spec => []TypeOK
<1>1. Inv => TypeOK
  BY DEF Inv
<1> QED
  BY <1>1, InvHolds, PTL

\* A spinner has a call that will end it, however many calls overlap.
THEOREM SpinnersHaveCalls == Spec => []SpinnerHasCall
<1>1. Inv => SpinnerHasCall
  BY DEF Inv
<1> QED
  BY <1>1, InvHolds, PTL

\* Main views keep no details but those of a call that is going to leave them.
THEOREM NothingIsLeftBehind == Spec => []NothingLeftBehind
<1>1. Inv => NothingLeftBehind
  BY DEF Inv
<1> QED
  BY <1>1, InvHolds, PTL

\* Details opened undisturbed are whole when their calls have ended.
THEOREM DetailsAreWhole == Spec => []DetailsBelongTogether
<1>1. Init => Together
  BY DEF Init, Together, CallsAgree, PartsBelong, InUse
<1>2. Inv /\ Together /\ [Next]_vars => Together'
  BY NextKeepsTogether
<1>3. Together => DetailsBelongTogether
  BY DEF Together, PartsBelong, DetailsBelongTogether, Awaited
<1> QED
  BY <1>1, <1>2, <1>3, InvHolds, PTL DEF Spec
=============================================================================

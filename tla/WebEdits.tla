------------------------------ MODULE WebEdits ------------------------------
(***************************************************************************)
(* Adding, editing and deleting hosts and checks in the web front end, and *)
(* the notifications about it (web/js/app.js, utils.js, api.js, and what   *)
(* the two modals let the user do).                                        *)
(*                                                                         *)
(* Both kinds have a modal, a form and the record being edited; the flag   *)
(* saving and the notification are shared.  A form is represented by the   *)
(* record its values were copied from (None: the empty form) and by the    *)
(* type of its durations: text, as the server wants them, or number, as    *)
(* the server's own GET /api/checks gives them.  A form with a number does *)
(* not render (isValidDuration calls trim), and the page below it stays    *)
(* open to clicks.  Rows may be of records that are gone: the list is what *)
(* some load brought (WebLists, which also has the loads after an edit).   *)
(*                                                                         *)
(* A call is a request and the rest of the method that waits for it.       *)
(***************************************************************************)
EXTENDS Naturals, FiniteSets

CONSTANTS
  HostIds, CheckIds,
  Timed,        \* the checks with an interval or a timeout
  Calls,        \* bounds how many requests are under way at once
  MaxNotices,   \* bounds the requests and timers of notifications together
  None

ASSUME IdsAssumption == HostIds \cap CheckIds = {} /\ None \notin HostIds \cup CheckIds

ASSUME TimedAssumption == Timed \subseteq CheckIds

ASSUME NoticesAssumption == MaxNotices \in Nat

VARIABLES
  shown,        \* showHostModal, showCheckModal
  editing,      \* editingHost, editingCheck
  form,         \* hostForm, checkForm
  saving, calls,
  notice,       \* the type of the notification that is shown, or None
  timers,       \* how many setTimeouts of showNotification are pending
  copies        \* ghost: records made from this form, less those whose answer was lost

modalVars == <<shown, editing, form>>
vars == <<modalVars, saving, calls, notice, timers, copies>>

-----------------------------------------------------------------------------
Kinds == {"host", "check"}

\* getEmptyHostForm, getEmptyCheckForm
EmptyForm == [of |-> None, durations |-> "text"]

\* A check is copied with its durations, or with '30s' and {} for those it lacks.
FormOf(id) == [of |-> id, durations |-> IF id \in Timed THEN "number" ELSE "text"]

\* isValidDuration throws on a number, and the modal is not rendered.
Rendered(k) == shown[k] /\ form[k].durations = "text"

\* The overlay of a modal covers the page.
PageClickable == \A k \in Kinds : ~Rendered(k)

-----------------------------------------------------------------------------
(* Modals.  A call knows whether the form it was sent from is still there. *)

Ids == HostIds \cup CheckIds \cup {None}

Form == [of : Ids, durations : {"text", "number"}]

Call == [op : {"create", "update", "delete"}, kind : Kinds, id : Ids, form : Form,
         applied : BOOLEAN, own : BOOLEAN]

ASSUME NoneAssumption == None \notin Call

InUse == {c \in Calls : calls[c] # None}

Disowned(k) == [c \in Calls |-> IF c \in InUse /\ calls[c].kind = k
                                THEN [calls[c] EXCEPT !.own = FALSE] ELSE calls[c]]

NewForm(k) == copies' = [copies EXCEPT ![k] = 0]

\* Keeps what was edited before.
FaultyopenAdd(k) ==
  /\ PageClickable
  /\ form' = [form EXCEPT ![k] = EmptyForm]
  /\ shown' = [shown EXCEPT ![k] = TRUE]
  /\ calls' = Disowned(k) /\ NewForm(k)
  /\ UNCHANGED <<editing, saving, notice, timers>>

\* An empty form, for a new record.
openAdd(k) ==
  /\ PageClickable
  /\ editing' = [editing EXCEPT ![k] = None]
  /\ form' = [form EXCEPT ![k] = EmptyForm]
  /\ shown' = [shown EXCEPT ![k] = TRUE]
  /\ calls' = Disowned(k) /\ NewForm(k)
  /\ UNCHANGED <<saving, notice, timers>>

\* The form filled from a record.
edit(k, id) ==
  /\ PageClickable
  /\ editing' = [editing EXCEPT ![k] = id]
  /\ form' = [form EXCEPT ![k] = FormOf(id)]
  /\ shown' = [shown EXCEPT ![k] = TRUE]
  /\ calls' = Disowned(k) /\ NewForm(k)
  /\ UNCHANGED <<saving, notice, timers>>

Closed(k) ==
  /\ shown' = [shown EXCEPT ![k] = FALSE]
  /\ editing' = [editing EXCEPT ![k] = None]
  /\ form' = [form EXCEPT ![k] = EmptyForm]
  /\ NewForm(k)

\* Cancel, the cross, or a click beside the modal; also while saving.
close(k) ==
  /\ Rendered(k)
  /\ Closed(k)
  /\ calls' = Disowned(k)
  /\ UNCHANGED <<saving, notice, timers>>

-----------------------------------------------------------------------------
(* Notifications.                                                          *)

\* showNotification
Notify(type) ==
  /\ notice' = type
  /\ timers' = timers + 1

\* Any timer, also of an earlier notification, hides the one that is shown.
HideNotice ==
  /\ timers > 0
  /\ timers' = timers - 1
  /\ notice' = None
  /\ UNCHANGED <<modalVars, saving, calls, copies>>

NoticeAlone(type) ==
  /\ PageClickable
  /\ Cardinality(InUse) + timers < MaxNotices
  /\ Notify(type)
  /\ UNCHANGED <<modalVars, saving, calls, copies>>

\* Not implemented, as it says.
exportConfig == NoticeAlone("info")

\* Says that data was refreshed before any of it is here (the loads: WebLists).
refreshData == NoticeAlone("success")

-----------------------------------------------------------------------------
(* Requests.                                                               *)

Send(c, op, k, id) ==
  /\ calls[c] = None
  /\ Cardinality(InUse) + timers < MaxNotices
  /\ calls' = [calls EXCEPT ![c] =
       [op |-> op, kind |-> k, id |-> id, form |-> form[k], applied |-> FALSE, own |-> TRUE]]

\* The button is not disabled.
Faultysave(c, k) ==
  /\ Rendered(k)
  /\ saving' = TRUE
  /\ IF editing[k] # None THEN Send(c, "update", k, editing[k]) ELSE Send(c, "create", k, None)
  /\ UNCHANGED <<modalVars, notice, timers, copies>>

\* The button is disabled while saving, of either kind.
save(c, k) ==
  /\ Rendered(k)
  /\ ~saving
  /\ saving' = TRUE
  /\ IF editing[k] # None THEN Send(c, "update", k, editing[k]) ELSE Send(c, "create", k, None)
  /\ UNCHANGED <<modalVars, notice, timers, copies>>

\* Confirmed by the user.
delete(c, k, id) ==
  /\ PageClickable
  /\ Send(c, "delete", k, id)
  /\ UNCHANGED <<modalVars, saving, notice, timers, copies>>

\* The server does what it was asked to.
Apply(c) ==
  /\ c \in InUse /\ ~calls[c].applied
  /\ calls' = [calls EXCEPT ![c].applied = TRUE]
  /\ copies' = IF calls[c].op = "create" /\ calls[c].own
               THEN [copies EXCEPT ![calls[c].kind] = @ + 1] ELSE copies
  /\ UNCHANGED <<modalVars, saving, notice, timers>>

\* The form stays open.
FaultySaveAnswered(c) ==
  /\ c \in InUse /\ calls[c].op # "delete" /\ calls[c].applied
  /\ Notify("success")
  /\ saving' = FALSE
  /\ calls' = [calls EXCEPT ![c] = None]
  /\ UNCHANGED <<modalVars, copies>>

\* Whatever modal of the kind is open now is closed and its form emptied.
SaveAnswered(c) ==
  /\ c \in InUse /\ calls[c].op # "delete" /\ calls[c].applied
  /\ Notify("success")
  /\ Closed(calls[c].kind)
  /\ saving' = FALSE
  /\ calls' = [calls EXCEPT ![c] = None]

\* The server refused, or did what was asked and its answer was lost.
SaveFailed(c) ==
  /\ c \in InUse /\ calls[c].op # "delete"
  /\ Notify("error")
  /\ saving' = FALSE
  /\ calls' = [calls EXCEPT ![c] = None]
  /\ copies' = IF calls[c].op = "create" /\ calls[c].own /\ calls[c].applied
               THEN [copies EXCEPT ![calls[c].kind] = @ - 1] ELSE copies
  /\ UNCHANGED modalVars

DeleteEnds(c) ==
  /\ c \in InUse /\ calls[c].op = "delete"
  /\ \/ calls[c].applied /\ Notify("success")
     \/ Notify("error")
  /\ calls' = [calls EXCEPT ![c] = None]
  /\ UNCHANGED <<modalVars, saving, copies>>

-----------------------------------------------------------------------------
Init ==
  /\ shown = [k \in Kinds |-> FALSE]
  /\ editing = [k \in Kinds |-> None]
  /\ form = [k \in Kinds |-> EmptyForm]
  /\ saving = FALSE
  /\ calls = [c \in Calls |-> None]
  /\ notice = None /\ timers = 0
  /\ copies = [k \in Kinds |-> 0]

openAddHostModal == openAdd("host")
openAddCheckModal == openAdd("check")
editHost(id) == edit("host", id)
editCheck(id) == edit("check", id)
closeHostModal == close("host")
closeCheckModal == close("check")
saveHost(c) == save(c, "host")
saveCheck(c) == save(c, "check")
deleteHost(c, id) == delete(c, "host", id)
deleteCheck(c, id) == delete(c, "check", id)

UserStep ==
  \/ openAddHostModal \/ openAddCheckModal
  \/ closeHostModal \/ closeCheckModal
  \/ exportConfig \/ refreshData
  \/ \E id \in HostIds : editHost(id) \/ \E c \in Calls : deleteHost(c, id)
  \/ \E id \in CheckIds : editCheck(id) \/ \E c \in Calls : deleteCheck(c, id)
  \/ \E c \in Calls : saveHost(c) \/ saveCheck(c)

Answer(c) == SaveAnswered(c) \/ SaveFailed(c) \/ DeleteEnds(c)

Next ==
  \/ UserStep
  \/ \E c \in Calls : Apply(c) \/ Answer(c)
  \/ HideNotice

Spec == Init /\ [][Next]_vars

-----------------------------------------------------------------------------
(* Properties.                                                             *)

Saves == {c \in InUse : calls[c].op # "delete"}

\* The flag that disables both Save buttons is set exactly while one save is
\* under way, whatever modals are closed and opened meanwhile (saveHost, saveCheck).
SavingIsOneSave == Cardinality(Saves) = IF saving THEN 1 ELSE 0

\* A record is only overwritten with the form that was filled from it, a new one
\* is only made from a form that was empty, and durations are sent as the server
\* reads them, also after an edit whose modal never appeared.
RequestsMatchForms ==
  \A c \in Saves : /\ calls[c].form.of = calls[c].id
                   /\ calls[c].form.durations = "text"
                   /\ calls[c].op = IF calls[c].id = None THEN "create" ELSE "update"

\* One form makes at most one record more than answers to it were lost, however it is
\* submitted: who saves again because he was told of a failure gets one duplicate, and
\* nobody else gets any (saveHost, saveCheck).
CreatedOnce == \A k \in Kinds : copies[k] <= 1

\* A save that is refused, or whose answer is lost, leaves its form open and as it was
\* sent, of the record it was sent for, so that it can be saved again; unless the user
\* left it meanwhile.  No end of another save may take the form away.
FailedSaveKeepsForm ==
  [][\A c \in Saves :
       calls[c].own /\ SaveFailed(c) =>
         LET k == calls[c].kind
         IN  shown'[k] /\ form'[k] = calls[c].form /\ editing'[k] = calls[c].id]_vars
=============================================================================

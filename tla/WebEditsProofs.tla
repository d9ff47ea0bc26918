--------------------------- MODULE WebEditsProofs ---------------------------
(***************************************************************************)
(* Theorems about WebEdits, for any hosts and checks and any number of     *)
(* requests at once.  Two facts carry them: the form of a modal is always  *)
(* of the record being edited, and there is one save at most, which the    *)
(* flag tells of.  From the second, a form that has made a record still    *)
(* has the request that made it, until it is emptied or the answer is      *)
(* lost, and nothing but the user takes a form away that is being saved.   *)
(***************************************************************************)
EXTENDS WebEdits, TLAPS, FiniteSetTheorems

EditsTyped ==
  /\ shown \in [Kinds -> BOOLEAN]
  /\ editing \in [Kinds -> Ids]
  /\ form \in [Kinds -> Form]
  /\ saving \in BOOLEAN
  /\ calls \in [Calls -> Call \cup {None}]
  /\ notice \in {"success", "error", "info", None}
  /\ timers \in Nat
  /\ copies \in [Kinds -> 0 .. 1]

FormIsOfRecord == \A k \in Kinds : form[k].of = editing[k]

OneSave == /\ \A c, d \in Saves : c = d
           /\ saving <=> Saves # {}

\* The save of kind k that made a record of the form, and waits for its answer.
Made(k) == {c \in Saves : /\ calls[c].own /\ calls[c].applied
                          /\ calls[c].op = "create" /\ calls[c].kind = k}

\* A form has made a record exactly while the save that did is waiting.
CopyHasCall == \A k \in Kinds : copies[k] = 1 <=> Made(k) # {}

\* A form that is being saved is open and as it was sent.
SentFormStays ==
  \A c \in Saves : calls[c].own =>
    /\ shown[calls[c].kind]
    /\ form[calls[c].kind] = calls[c].form
    /\ editing[calls[c].kind] = calls[c].id

Inv == EditsTyped /\ FormIsOfRecord /\ OneSave /\ CopyHasCall /\ RequestsMatchForms /\ SentFormStays

LEMMA InitInv == Init => Inv
<1> SUFFICES ASSUME Init
             PROVE  Inv
  OBVIOUS
<1>1. Saves = {}
  BY DEF Init, Saves, InUse
<1>2. EmptyForm \in Form /\ EmptyForm.of = None /\ None \in Ids
  BY DEF EmptyForm, Form, Ids
<1>3. EditsTyped /\ FormIsOfRecord
  <2>1. shown \in [Kinds -> BOOLEAN] /\ saving \in BOOLEAN
    BY DEF Init
  <2>2. editing \in [Kinds -> Ids] /\ form \in [Kinds -> Form] /\ copies \in [Kinds -> 0 .. 1]
    BY <1>2 DEF Init
  <2>3. calls \in [Calls -> Call \cup {None}] /\ notice = None /\ timers = 0
    BY DEF Init
  <2> QED
    BY <1>2, <2>1, <2>2, <2>3 DEF Init, EditsTyped, FormIsOfRecord
<1>4. OneSave /\ CopyHasCall /\ RequestsMatchForms /\ SentFormStays
  BY <1>1 DEF Init, OneSave, CopyHasCall, Made, RequestsMatchForms, SentFormStays
<1> QED
  BY <1>3, <1>4 DEF Inv

-----------------------------------------------------------------------------
(* Modals.                                                                 *)

\* A call that loses its form is the same call otherwise.
LEMMA DisownedCalls ==
  ASSUME EditsTyped, NEW k \in Kinds, calls' = Disowned(k)
  PROVE  /\ calls' \in [Calls -> Call \cup {None}]
         /\ Saves' = Saves
         /\ \A c \in Saves : /\ calls'[c].op = calls[c].op /\ calls'[c].id = calls[c].id
                             /\ calls'[c].form = calls[c].form
                             /\ calls'[c].applied = calls[c].applied
                             /\ calls'[c].kind = calls[c].kind
                             /\ calls[c].kind # k => calls'[c].own = calls[c].own
                             /\ calls[c].kind = k => ~calls'[c].own
<1>1. ASSUME NEW c \in InUse, calls[c].kind = k
      PROVE  /\ calls[c] \in Call
             /\ calls'[c] = [calls[c] EXCEPT !.own = FALSE]
  BY <1>1 DEF EditsTyped, Disowned, InUse
<1>2. ASSUME NEW c \in Calls, ~(c \in InUse /\ calls[c].kind = k)
      PROVE  calls'[c] = calls[c]
  BY <1>2 DEF Disowned
<1>3. ASSUME NEW c \in InUse
      PROVE  /\ calls'[c] \in Call
             /\ calls'[c].op = calls[c].op /\ calls'[c].id = calls[c].id
             /\ calls'[c].form = calls[c].form
             /\ calls'[c].applied = calls[c].applied /\ calls'[c].kind = calls[c].kind
             /\ calls[c].kind # k => calls'[c].own = calls[c].own
             /\ calls[c].kind = k => ~calls'[c].own
  <2>1. calls[c] \in Call /\ c \in Calls
    BY <1>3 DEF EditsTyped, InUse
  <2>2. CASE calls[c].kind = k
    <3>1. [calls[c] EXCEPT !.own = FALSE] \in Call
      BY <2>1 DEF Call
    <3> QED
      BY <1>1, <1>3, <2>1, <2>2, <3>1 DEF Call
  <2>3. CASE calls[c].kind # k
    BY <1>2, <2>1, <2>3
  <2> QED
    BY <2>2, <2>3
<1>4. \A c \in Calls \ InUse : calls'[c] = None
  BY <1>2 DEF InUse
<1>5. calls' \in [Calls -> Call \cup {None}]
  <2>1. \A c \in Calls : calls'[c] \in Call \cup {None}
    BY <1>3, <1>4
  <2> DEFINE next(c) == IF c \in InUse /\ calls[c].kind = k
                        THEN [calls[c] EXCEPT !.own = FALSE] ELSE calls[c]
  <2>2. calls' = [c \in Calls |-> next(c)]
    BY DEF Disowned
  <2>3. \A c \in Calls : next(c) \in Call \cup {None}
    BY <2>1, <2>2
  <2> HIDE DEF next
  <2> QED
    BY <2>2, <2>3
<1>6. InUse' = InUse
  BY <1>3, <1>4, NoneAssumption DEF InUse
<1>7. Saves' = Saves
  BY <1>3, <1>6 DEF Saves
<1> QED
  BY <1>3, <1>5, <1>7 DEF Saves

\* A step that only fills, empties, shows or hides a modal.
LEMMA ModalKeepsInv ==
  ASSUME Inv, NEW k \in Kinds, NEW id \in Ids, NEW f \in Form, f.of = id, NEW s \in BOOLEAN,
         shown' = [shown EXCEPT ![k] = s],
         editing' = [editing EXCEPT ![k] = id],
         form' = [form EXCEPT ![k] = f],
         calls' = Disowned(k), NewForm(k),
         UNCHANGED <<saving, notice, timers>>
  PROVE  Inv'
<1> USE DEF Inv
<1>1. /\ calls' \in [Calls -> Call \cup {None}]
      /\ Saves' = Saves
      /\ \A c \in Saves : /\ calls'[c].op = calls[c].op /\ calls'[c].id = calls[c].id
                          /\ calls'[c].form = calls[c].form
                          /\ calls'[c].applied = calls[c].applied
                          /\ calls'[c].kind = calls[c].kind
                          /\ calls[c].kind # k => calls'[c].own = calls[c].own
                          /\ calls[c].kind = k => ~calls'[c].own
  BY DisownedCalls
<1>2. EditsTyped'
  BY <1>1 DEF EditsTyped, NewForm
<1>3. FormIsOfRecord'
  BY DEF FormIsOfRecord, EditsTyped
<1>4. OneSave'
  BY <1>1 DEF OneSave
<1>5. CopyHasCall'
  <2>1. Made(k)' = {} /\ copies'[k] = 0
    BY <1>1 DEF Made, NewForm, EditsTyped
  <2>2. ASSUME NEW l \in Kinds, l # k
        PROVE  Made(l)' = Made(l) /\ copies'[l] = copies[l]
    BY <1>1, <2>2 DEF Made, NewForm, EditsTyped
  <2> QED
    BY <2>1, <2>2 DEF CopyHasCall
<1>6. RequestsMatchForms'
  BY <1>1 DEF RequestsMatchForms
<1>7. SentFormStays'
  <2> SUFFICES ASSUME NEW c \in Saves, calls'[c].own
               PROVE  /\ shown'[calls'[c].kind]
                      /\ form'[calls'[c].kind] = calls'[c].form
                      /\ editing'[calls'[c].kind] = calls'[c].id
    BY <1>1 DEF SentFormStays
  <2>1. calls[c].kind # k /\ calls[c].own
    BY <1>1
  <2> QED
    BY <1>1, <2>1 DEF SentFormStays, EditsTyped
<1> QED
  BY <1>2, <1>3, <1>4, <1>5, <1>6, <1>7

LEMMA FormsAreForms ==
  /\ EmptyForm \in Form /\ EmptyForm.of = None /\ None \in Ids
  /\ \A id \in HostIds \cup CheckIds : id \in Ids /\ FormOf(id) \in Form /\ FormOf(id).of = id
BY DEF EmptyForm, FormOf, Form, Ids

LEMMA ModalStepsKeepInv ==
  ASSUME Inv, NEW k \in Kinds,
         openAdd(k) \/ close(k) \/ \E id \in HostIds \cup CheckIds : edit(k, id)
  PROVE  Inv'
<1>1. CASE openAdd(k)
  BY <1>1, ModalKeepsInv, FormsAreForms DEF openAdd
<1>2. CASE close(k)
  <2>1. /\ shown' = [shown EXCEPT ![k] = FALSE]
        /\ editing' = [editing EXCEPT ![k] = None]
        /\ form' = [form EXCEPT ![k] = EmptyForm]
        /\ NewForm(k) /\ calls' = Disowned(k)
        /\ UNCHANGED <<saving, notice, timers>>
    BY <1>2 DEF close, Closed
  <2> QED
    BY <2>1, ModalKeepsInv, FormsAreForms
<1>3. ASSUME NEW id \in HostIds \cup CheckIds, edit(k, id)
      PROVE  Inv'
  BY <1>3, ModalKeepsInv, FormsAreForms DEF edit
<1> QED
  BY <1>1, <1>2, <1>3

-----------------------------------------------------------------------------
(* Notifications and requests.                                             *)

LEMMA NoticesKeepInv ==
  ASSUME Inv, HideNotice \/ exportConfig \/ refreshData
  PROVE  Inv'
<1> USE DEF Inv
<1>1. UNCHANGED <<modalVars, saving, calls, copies>>
  BY DEF HideNotice, exportConfig, refreshData, NoticeAlone
<1>2. /\ notice' \in {"success", "error", "info", None}
      /\ timers' \in Nat
  BY DEF HideNotice, exportConfig, refreshData, NoticeAlone, Notify, EditsTyped
<1>3. EditsTyped' /\ FormIsOfRecord' /\ RequestsMatchForms'
  BY <1>1, <1>2 DEF EditsTyped, modalVars, FormIsOfRecord, RequestsMatchForms, Saves, InUse
<1>4. OneSave' /\ CopyHasCall' /\ SentFormStays'
  BY <1>1 DEF OneSave, CopyHasCall, Made, SentFormStays, Saves, InUse, modalVars
<1> QED
  BY <1>3, <1>4

\* What is sent becomes a call of its own.
LEMMA SentCall ==
  ASSUME EditsTyped, NEW c \in Calls, NEW op \in {"create", "update", "delete"},
         NEW k \in Kinds, NEW id \in Ids, Send(c, op, k, id)
  PROVE  /\ calls' \in [Calls -> Call \cup {None}]
         /\ calls[c] = None /\ calls'[c] # None
         /\ calls'[c].op = op /\ calls'[c].id = id /\ calls'[c].form = form[k]
         /\ calls'[c].kind = k /\ ~calls'[c].applied
         /\ \A d \in Calls \ {c} : calls'[d] = calls[d]
         /\ Saves' = IF op = "delete" THEN Saves ELSE Saves \cup {c}
<1> DEFINE new == [op |-> op, kind |-> k, id |-> id, form |-> form[k],
                   applied |-> FALSE, own |-> TRUE]
<1>1. new \in Call
  BY DEF Call, EditsTyped
<1>2. /\ calls[c] = None /\ calls'[c] = new
      /\ calls' \in [Calls -> Call \cup {None}]
      /\ \A d \in Calls \ {c} : calls'[d] = calls[d]
  BY <1>1 DEF Send, EditsTyped
<1>3. calls'[c] # None
  BY <1>1, <1>2, NoneAssumption
<1>4. /\ c \notin InUse /\ InUse' = InUse \cup {c}
  BY <1>2, <1>3 DEF InUse
<1>5. Saves' = IF op = "delete" THEN Saves ELSE Saves \cup {c}
  BY <1>2, <1>4 DEF Saves, InUse
<1> QED
  BY <1>2, <1>3, <1>5

LEMMA DeleteKeepsInv ==
  ASSUME Inv, NEW c \in Calls, NEW k \in Kinds, NEW id \in HostIds \cup CheckIds, delete(c, k, id)
  PROVE  Inv'
<1> USE DEF Inv
<1>1. id \in Ids /\ Send(c, "delete", k, id)
  BY DEF delete, Ids
<1>2. /\ calls' \in [Calls -> Call \cup {None}]
      /\ calls[c] = None
      /\ \A d \in Calls \ {c} : calls'[d] = calls[d]
      /\ Saves' = Saves
  BY <1>1, SentCall
<1>3. \A d \in Saves : calls'[d] = calls[d]
  BY <1>2 DEF Saves, InUse
<1>4. EditsTyped' /\ FormIsOfRecord'
  BY <1>2 DEF delete, EditsTyped, FormIsOfRecord, modalVars
<1>5. OneSave' /\ RequestsMatchForms' /\ SentFormStays'
  BY <1>2, <1>3 DEF delete, OneSave, RequestsMatchForms, SentFormStays, modalVars
<1>6. CopyHasCall'
  <2>1. \A l \in Kinds : Made(l)' = Made(l)
    BY <1>2, <1>3 DEF Made
  <2> QED
    BY <2>1 DEF delete, CopyHasCall
<1> QED
  BY <1>4, <1>5, <1>6

\* The form of the modal is of the record that is written, and is all text.
LEMMA SaveKeepsInv ==
  ASSUME Inv, NEW c \in Calls, NEW k \in Kinds, save(c, k)
  PROVE  Inv'
<1> USE DEF Inv
<1> DEFINE op == IF editing[k] # None THEN "update" ELSE "create"
<1>1. editing[k] \in Ids /\ op \in {"create", "update", "delete"} /\ op # "delete"
  BY DEF EditsTyped
<1>2. Send(c, op, k, editing[k])
  BY DEF save
<1>3. /\ calls' \in [Calls -> Call \cup {None}]
      /\ calls[c] = None /\ calls'[c] # None
      /\ calls'[c].op = op /\ calls'[c].id = editing[k] /\ calls'[c].form = form[k]
      /\ calls'[c].kind = k /\ ~calls'[c].applied
      /\ \A d \in Calls \ {c} : calls'[d] = calls[d]
      /\ Saves' = IF op = "delete" THEN Saves ELSE Saves \cup {c}
  BY <1>1, <1>2, SentCall
<1>4. Saves = {} /\ Saves' = {c}
  BY <1>1, <1>3 DEF save, OneSave
<1>5. EditsTyped' /\ FormIsOfRecord'
  BY <1>3 DEF save, EditsTyped, FormIsOfRecord, modalVars
<1>6. OneSave'
  BY <1>4 DEF save, OneSave
<1>7. CopyHasCall'
  <2>1. \A l \in Kinds : Made(l) = {} /\ Made(l)' = {}
    BY <1>3, <1>4 DEF Made
  <2> QED
    BY <2>1 DEF save, CopyHasCall
<1>8. RequestsMatchForms'
  <2>1. form[k].of = editing[k] /\ form[k].durations = "text"
    BY DEF FormIsOfRecord, save, Rendered
  <2> QED
    BY <1>3, <1>4, <2>1 DEF RequestsMatchForms
<1>9. SentFormStays'
  BY <1>3, <1>4 DEF save, Rendered, modalVars, SentFormStays
<1> QED
  BY <1>5, <1>6, <1>7, <1>8, <1>9

LEMMA ApplyKeepsInv ==
  ASSUME Inv, NEW c \in Calls, Apply(c)
  PROVE  Inv'
<1> USE DEF Inv
<1>1. calls[c] \in Call /\ c \in InUse /\ ~calls[c].applied
  BY DEF Apply, EditsTyped, InUse
<1>2. /\ calls' = [calls EXCEPT ![c] = [calls[c] EXCEPT !.applied = TRUE]]
      /\ [calls[c] EXCEPT !.applied = TRUE] \in Call
  BY <1>1 DEF Apply, Call
<1>3. /\ calls' \in [Calls -> Call \cup {None}]
      /\ calls'[c] # None /\ calls'[c].applied
      /\ calls'[c].op = calls[c].op /\ calls'[c].id = calls[c].id /\ calls'[c].form = calls[c].form
      /\ calls'[c].kind = calls[c].kind /\ calls'[c].own = calls[c].own
      /\ \A d \in Calls \ {c} : calls'[d] = calls[d]
  BY <1>1, <1>2, NoneAssumption DEF EditsTyped, Call
<1>4. InUse' = InUse /\ Saves' = Saves
  BY <1>1, <1>3 DEF InUse, Saves
<1>5. FormIsOfRecord' /\ OneSave' /\ RequestsMatchForms' /\ SentFormStays'
  BY <1>3, <1>4 DEF Apply, modalVars, FormIsOfRecord, OneSave, RequestsMatchForms, SentFormStays,
                    Saves, InUse
<1>6. ASSUME NEW k \in Kinds
      PROVE  copies'[k] \in 0 .. 1 /\ (copies'[k] = 1 <=> Made(k)' # {})
  <2>1. CASE calls[c].op = "create" /\ calls[c].own /\ calls[c].kind = k
    <3>1. c \in Saves
      BY <1>1, <2>1 DEF Saves
    <3>2. Made(k) = {}
      BY <1>1, <3>1 DEF OneSave, Made
    <3>3. copies[k] = 0 /\ copies'[k] = copies[k] + 1
      BY <2>1, <3>2 DEF CopyHasCall, Apply, EditsTyped
    <3>4. c \in Made(k)'
      BY <1>3, <1>4, <2>1, <3>1 DEF Made
    <3> QED
      BY <3>3, <3>4
  <2>2. CASE ~(calls[c].op = "create" /\ calls[c].own /\ calls[c].kind = k)
    <3>1. copies'[k] = copies[k] /\ copies[k] \in 0 .. 1
      BY <2>2 DEF Apply, EditsTyped
    <3>2. Made(k)' = Made(k)
      BY <1>3, <1>4, <2>2 DEF Made, Saves, InUse
    <3> QED
      BY <3>1, <3>2 DEF CopyHasCall
  <2> QED
    BY <2>1, <2>2
<1>7. EditsTyped'
  <2>1. copies' = [k \in Kinds |-> copies'[k]]
    BY DEF Apply, EditsTyped
  <2>2. copies' \in [Kinds -> 0 .. 1]
    BY <1>6, <2>1
  <2> QED
    BY <1>3, <2>2 DEF Apply, EditsTyped, modalVars
<1> QED
  BY <1>5, <1>6, <1>7 DEF CopyHasCall

-----------------------------------------------------------------------------
(* Answers.                                                                *)

\* The end of a call takes it, and no other, away.
LEMMA EndedCall ==
  ASSUME EditsTyped, NEW c \in InUse, calls' = [calls EXCEPT ![c] = None]
  PROVE  /\ calls' \in [Calls -> Call \cup {None}]
         /\ \A d \in Calls \ {c} : calls'[d] = calls[d]
         /\ Saves' = Saves \ {c}
<1>1. /\ c \in Calls /\ calls'[c] = None
      /\ calls' \in [Calls -> Call \cup {None}]
      /\ \A d \in Calls \ {c} : calls'[d] = calls[d]
  BY DEF InUse, EditsTyped
<1> QED
  BY <1>1 DEF Saves, InUse

LEMMA AnswersKeepInv ==
  ASSUME Inv, NEW c \in Calls, Answer(c)
  PROVE  Inv'
<1> USE DEF Inv
<1>1. c \in InUse /\ calls' = [calls EXCEPT ![c] = None] /\ calls[c] \in Call /\ calls[c].kind \in Kinds
  BY DEF Answer, SaveAnswered, SaveFailed, DeleteEnds, InUse, EditsTyped, Call
<1>2. /\ calls' \in [Calls -> Call \cup {None}]
      /\ \A d \in Calls \ {c} : calls'[d] = calls[d]
      /\ Saves' = Saves \ {c}
  BY <1>1, EndedCall
<1>3. /\ notice' \in {"success", "error", "info", None}
      /\ timers' \in Nat
      /\ saving' \in BOOLEAN
  <2>1. Notify("success") \/ Notify("error")
    BY DEF Answer, SaveAnswered, SaveFailed, DeleteEnds
  <2>2. saving' \in BOOLEAN
    BY DEF Answer, SaveAnswered, SaveFailed, DeleteEnds, EditsTyped
  <2> QED
    BY <2>1, <2>2 DEF Notify, EditsTyped
<1>5. RequestsMatchForms'
  BY <1>2 DEF RequestsMatchForms, Saves, InUse
<1>6. CASE DeleteEnds(c)
  <2>1. Saves' = Saves /\ \A d \in Saves : calls'[d] = calls[d]
    BY <1>2, <1>6 DEF DeleteEnds, Saves, InUse
  <2>2. EditsTyped' /\ FormIsOfRecord' /\ OneSave' /\ SentFormStays'
    BY <1>2, <1>3, <1>6, <2>1
       DEF DeleteEnds, EditsTyped, FormIsOfRecord, OneSave, SentFormStays, modalVars
  <2>3. \A k \in Kinds : Made(k)' = Made(k)
    BY <2>1 DEF Made
  <2>4. CopyHasCall'
    BY <1>6, <2>3 DEF DeleteEnds, CopyHasCall
  <2> QED
    BY <1>5, <2>2, <2>4
<1>7. CASE SaveAnswered(c) \/ SaveFailed(c)
  <2>1. c \in Saves /\ saving' = FALSE
    BY <1>7 DEF SaveAnswered, SaveFailed, Saves
  <2>2. Saves' = {} /\ \A k \in Kinds : Made(k)' = {}
    BY <1>2, <2>1 DEF OneSave, Made
  <2>3. OneSave' /\ SentFormStays'
    BY <2>1, <2>2 DEF OneSave, SentFormStays
  <2>4. \A k \in Kinds : copies[k] = 1 <=> c \in Made(k)
    BY <2>1 DEF OneSave, Made, CopyHasCall
  <2>5. ASSUME NEW k \in Kinds
        PROVE  copies'[k] = 0
    <3>1. copies[k] \in 0 .. 1
      BY DEF EditsTyped
    <3>2. CASE SaveAnswered(c)
      <4>1. CASE k = calls[c].kind
        BY <3>2, <4>1 DEF SaveAnswered, Closed, NewForm, EditsTyped
      <4>2. CASE k # calls[c].kind
        BY <2>4, <3>1, <3>2, <4>2 DEF SaveAnswered, Closed, NewForm, EditsTyped, Made
      <4> QED
        BY <4>1, <4>2
    <3>3. CASE SaveFailed(c) /\ c \in Made(k)
      <4>1. copies'[k] = copies[k] - 1
        BY <1>1, <3>3 DEF SaveFailed, Made, EditsTyped
      <4> QED
        BY <2>4, <3>3, <4>1
    <3>4. CASE SaveFailed(c) /\ c \notin Made(k)
      <4>1. copies'[k] = copies[k]
        BY <1>1, <2>1, <3>4 DEF SaveFailed, Made, EditsTyped
      <4> QED
        BY <2>4, <3>1, <3>4, <4>1
    <3> QED
      BY <1>7, <3>2, <3>3, <3>4
  <2>6. CopyHasCall'
    BY <2>2, <2>5 DEF CopyHasCall
  <2>7. copies' \in [Kinds -> 0 .. 1]
    <3>1. copies' = [k \in Kinds |-> copies'[k]]
      BY <1>7 DEF SaveAnswered, SaveFailed, Closed, NewForm, EditsTyped
    <3> QED
      BY <2>5, <3>1
  <2>8. EditsTyped' /\ FormIsOfRecord'
    <3>1. CASE SaveAnswered(c)
      <4>1. Closed(calls[c].kind)
        BY <3>1 DEF SaveAnswered
      <4>2. /\ shown' \in [Kinds -> BOOLEAN] /\ editing' \in [Kinds -> Ids]
            /\ form' \in [Kinds -> Form] /\ FormIsOfRecord'
        BY <1>1, <4>1, FormsAreForms DEF Closed, FormIsOfRecord, EditsTyped
      <4> QED
        BY <1>2, <1>3, <2>7, <4>2 DEF EditsTyped
    <3>2. CASE SaveFailed(c)
      BY <1>2, <1>3, <2>7, <3>2 DEF SaveFailed, modalVars, EditsTyped, FormIsOfRecord
    <3> QED
      BY <1>7, <3>1, <3>2
  <2> QED
    BY <1>5, <2>3, <2>6, <2>8
<1> QED
  BY <1>6, <1>7 DEF Answer

-----------------------------------------------------------------------------
LEMMA NextKeepsInv == Inv /\ [Next]_vars => Inv'
<1> SUFFICES ASSUME Inv, [Next]_vars
             PROVE  Inv'
  OBVIOUS
<1>1. CASE UserStep
  <2> "host" \in Kinds /\ "check" \in Kinds
    BY DEF Kinds
  <2>1. CASE openAddHostModal \/ openAddCheckModal
    BY <2>1, ModalStepsKeepInv DEF openAddHostModal, openAddCheckModal
  <2>2. CASE closeHostModal \/ closeCheckModal
    BY <2>2, ModalStepsKeepInv DEF closeHostModal, closeCheckModal
  <2>3. CASE exportConfig \/ refreshData
    BY <2>3, NoticesKeepInv
  <2>4. ASSUME NEW id \in HostIds, editHost(id) \/ \E c \in Calls : deleteHost(c, id)
        PROVE  Inv'
    BY <2>4, ModalStepsKeepInv, DeleteKeepsInv DEF editHost, deleteHost
  <2>5. ASSUME NEW id \in CheckIds, editCheck(id) \/ \E c \in Calls : deleteCheck(c, id)
        PROVE  Inv'
    BY <2>5, ModalStepsKeepInv, DeleteKeepsInv DEF editCheck, deleteCheck
  <2>6. ASSUME NEW c \in Calls, saveHost(c) \/ saveCheck(c)
        PROVE  Inv'
    BY <2>6, SaveKeepsInv DEF saveHost, saveCheck
  <2> QED
    BY <1>1, <2>1, <2>2, <2>3, <2>4, <2>5, <2>6 DEF UserStep
<1>2. CASE \E c \in Calls : Apply(c) \/ Answer(c)
  BY <1>2, ApplyKeepsInv, AnswersKeepInv
<1>3. CASE HideNotice
  BY <1>3, NoticesKeepInv
<1>4. CASE UNCHANGED vars
  <2>1. EditsTyped' /\ FormIsOfRecord' /\ SentFormStays'
    BY <1>4 DEF Inv, vars, modalVars, EditsTyped, FormIsOfRecord, SentFormStays, Saves, InUse
  <2>2. OneSave' /\ CopyHasCall' /\ RequestsMatchForms'
    BY <1>4 DEF Inv, vars, OneSave, CopyHasCall, Made, RequestsMatchForms, Saves, InUse
  <2> QED
    BY <2>1, <2>2 DEF Inv
<1> QED
  BY <1>1, <1>2, <1>3, <1>4 DEF Next

LEMMA InvHolds == Spec => []Inv
BY InitInv, NextKeepsInv, PTL DEF Spec

\* The flag that disables both Save buttons is set exactly while one save is under
\* way (saveHost, saveCheck): OneSave, counted.
THEOREM SavesAreAlone == Spec => []SavingIsOneSave
<1>1. Inv => SavingIsOneSave
  <2> SUFFICES ASSUME OneSave
               PROVE  SavingIsOneSave
    BY DEF Inv
  <2>1. CASE saving
    <3>1. PICK c : Saves = {c}
      BY <2>1 DEF OneSave
    <3>2. Cardinality({c}) = 1
      BY FS_Singleton
    <3> QED
      BY <2>1, <3>1, <3>2 DEF SavingIsOneSave
  <2>2. CASE ~saving
    <3>1. Saves = {} /\ Cardinality({}) = 0
      BY <2>2, FS_EmptySet DEF OneSave
    <3> QED
      BY <2>2, <3>1 DEF SavingIsOneSave
  <2> QED
    BY <2>1, <2>2
<1> QED
  BY <1>1, InvHolds, PTL

\* A record is only overwritten with the form that was filled from it, with
\* durations the server reads (editHost, editCheck, saveHost, saveCheck).
THEOREM RequestsAreOfTheirForms == Spec => []RequestsMatchForms
<1>1. Inv => RequestsMatchForms
  BY DEF Inv
<1> QED
  BY <1>1, InvHolds, PTL

\* One form makes at most one record more than answers to it were lost (saveHost,
\* saveCheck).
THEOREM RecordsAreMadeOnce == Spec => []CreatedOnce
<1>1. Inv => CreatedOnce
  BY DEF Inv, EditsTyped, CreatedOnce
<1> QED
  BY <1>1, InvHolds, PTL

\* A save that fails leaves its form open and as it was sent, for any records and
\* requests, unless the user left it (saveHost, saveCheck): SentFormStays holds until
\* the answer comes, because no other save can be answered meanwhile.
THEOREM FailuresKeepForms == Spec => FailedSaveKeepsForm
<1> DEFINE Keeps ==
      \A c \in Saves :
        calls[c].own /\ SaveFailed(c) =>
          LET k == calls[c].kind
          IN  shown'[k] /\ form'[k] = calls[c].form /\ editing'[k] = calls[c].id
<1>1. Inv /\ [Next]_vars => [Keeps]_vars
  BY DEF Inv, SentFormStays, SaveFailed, modalVars
<1> QED
  BY <1>1, InvHolds, PTL DEF Spec, FailedSaveKeepsForm
=============================================================================

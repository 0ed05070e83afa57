---------------------------- MODULE RecordEditor ----------------------------
(***************************************************************************)
(* One record in its modal, from the record's row to the form, through the *)
(* field's control, and back by a save.  One field is followed: what a     *)
(* save does to it depends on its control, its policy and its store, and   *)
(* on no other field but the gear's type and pickup configuration.  A save *)
(* outlives its modal.  For a gear the maintenance log is part of the view.*)
(*                                                                         *)
(* Item are the catalog entries a search can find; Own is the one that is  *)
(* the record itself when its parents are picked.                          *)
(***************************************************************************)
EXTENDS RecordForms, Integers, FiniteSets

CONSTANTS
    Item, Own,   \* what can be typed or found; the record itself
    Made,        \* a brand created from the brand control
    None, Asked,
    MaxEntries   \* bound: maintenance entries

ASSUME EditorAssumption ==
    /\ Own \in Item /\ {Junk, Made, Text} \cap Item = {}
    /\ Junk # Made /\ Text \notin {Junk, Made}
    /\ Null # Omit /\ {Null, Omit} \cap SUBSET (Item \cup {Junk, Made, Text}) = {}
    /\ None \notin Item /\ None # Asked /\ {None, Asked} \cap (0 .. MaxEntries) = {}
    /\ MaxEntries \in Nat

VARIABLES
    field,   \* the field followed
    row,     \* its value on the server, of the record made last; Omit before
    base,    \* its value when the modal took it; Omit in a form that adds
    form, touched,  \* its value in the form, and whether the user changed it
    gear,    \* the form's gear: is it a guitar, and has its configuration the slot
    mode,    \* "view", "edit", "closed"
    call,    \* the save in flight
    box,     \* the control's search box
    making,  \* the brand being created from it: "no", "asked", "made"
    recents, \* the parents picked lately, kept by the browser for every record
    mlog     \* the maintenance log of a gear

vars == <<field, row, base, form, touched, gear, mode, call, box, making,
          recents, mlog>>

Search == INSTANCE TypeAhead WITH Query <- Item, Guarded <- FALSE

Searched == {"brand", "model", "models", "parents"}
Many == {"picks", "models", "parents"}

Value == {Null} \cup (SUBSET Item) \cup {{Junk}, {Made}, {Text}}
Single == {{}} \cup {{i} : i \in Item}
RowValues ==
    {Null} \cup (IF field.store = "dropped" THEN {}
                 ELSE IF field.control = "parents" THEN SUBSET (Item \ {Own})
                 ELSE IF field.control \in Many THEN SUBSET Item
                 ELSE IF field.control \in {"text", "json"} THEN Single ELSE Single \ {{}})

MLog == [entries : 0 .. MaxEntries, shown : {None} \cup 0 .. MaxEntries,
         ask : {None, Asked} \cup 0 .. MaxEntries, told : 0 .. MaxEntries,
         entry : {"none", "form", "sent"}, post : {"none", "sent", "done", "failed"}]
Call == [form : Value, touched : BOOLEAN, payload : Value \cup {Omit},
         base : Value \cup {Omit}, shown : BOOLEAN, state : {"sent", "done", "failed"}]

Editing == mode = "edit"
Shown == field.policy \in {"guitar", "slot"} => gear.guitar /\ (field.policy = "slot" => gear.slot)

\* The gear, as far as the field's policy looks at it.
Gear == {g \in [guitar : BOOLEAN, slot : BOOLEAN] :
            /\ g.guitar => field.policy \in {"guitar", "slot"}
            /\ g.slot => g.guitar /\ field.policy = "slot"}

\* Bound: the log is followed along with one field only, the gear's name.
Logged == field.store = "coalesce" /\ field.control = "text" /\ field.policy = "skip"

\* The form on the row that was listed, or on none.
Loaded(value) == IF value = Omit THEN {} ELSE ToForm(field, value)

session == <<mode, call>>
draft == <<base, form, touched, gear>>
control == <<box, making, recents>>

\* The browser's list of parents: what tells it from a search is the record itself.
Recents == SUBSET {i \in {Own} : field.control = "parents"}

Init ==
    /\ field \in Fields
    /\ row \in {Omit} \cup RowValues
    /\ base = row /\ form = Loaded(base)
    /\ gear \in Gear
    /\ mode = IF row = Omit THEN "edit" ELSE "view"
    /\ touched = FALSE /\ call = None
    /\ box = Search!Idle /\ making = "no" /\ recents \in Recents
    /\ mlog = [entries |-> 0, shown |-> 0, told |-> 0, entry |-> "none", post |-> "none",
               ask |-> IF mode = "view" /\ Logged THEN Asked ELSE None]

-----------------------------------------------------------------------------
(***************************************************************************)
(* The modal.                                                              *)
(***************************************************************************)
\* The log once nothing shows it: the entries stored, n of them just now.
Unmounted(n) == [entries |-> mlog.entries + n, shown |-> 0, ask |-> None, told |-> 0,
                 entry |-> "none", post |-> "none"]

\* A modal is opened on the row as it is, if the service can list it: the log is
\* asked for with the view.
Open ==
    /\ mode = "closed" /\ row \notin {Omit, {Text}}
    /\ mode' = "view" /\ base' = row /\ form' = Loaded(row)
    /\ mlog' = IF Logged THEN [mlog EXCEPT !.ask = Asked] ELSE mlog
    /\ UNCHANGED <<field, row, touched, gear, call, control>>

\* Bound: one record is added, until there is one.
Add ==
    /\ mode = "closed" /\ row = Omit
    /\ mode' = "edit"
    /\ UNCHANGED <<field, row, draft, call, control, mlog>>

\* The modal goes, and with it its form and the state of its controls.
Unmount ==
    /\ base' = Omit /\ form' = {} /\ touched' = FALSE
    /\ box' = Search!Idle /\ making' = "no"
    /\ UNCHANGED <<field, row, gear, recents>>

\* The view goes, and with it the log and its entry form; an entry on its way is
\* stored or not.
Leave(m) ==
    /\ mode' = m
    /\ \E n \in IF mlog.post = "sent" /\ mlog.entries < MaxEntries THEN {0, 1} ELSE {0} :
          mlog' = Unmounted(n)

Edit ==
    /\ mode = "view" /\ Leave("edit")
    /\ UNCHANGED <<field, row, draft, call, control>>

\* Escape and a click outside close the modal during a save too.
Close ==
    /\ mode \in {"view", "edit"} /\ Leave("closed") /\ Unmount
    /\ UNCHANGED call

-----------------------------------------------------------------------------
(***************************************************************************)
(* The controls.                                                           *)
(***************************************************************************)
Set(value) == form' = value /\ touched' = TRUE

\* A text, a JSON text, an option of a list, a path: any value the control gives.
Type(value) ==
    /\ Editing /\ Shown /\ field.control \notin Searched
    /\ value \in IF field.control = "picks" THEN SUBSET Item
                 ELSE Single \cup (IF field.control = "json" THEN {{Junk}} ELSE {})
    /\ value # form
    /\ Set(value)
    /\ UNCHANGED <<field, row, base, gear, session, control, mlog>>

\* The gear's type and its pickup configuration.  Bound: not during a save, whose
\* payload is built by then.
Refit(g) ==
    /\ Editing /\ call = None /\ g \in Gear \ {gear}
    /\ gear' = g
    /\ UNCHANGED <<field, row, base, form, touched, session, control, mlog>>

Boxed(b) ==
    /\ Editing /\ Shown /\ field.control \in Searched
    /\ box' = b
    /\ UNCHANGED <<field, row, base, gear, session, recents, mlog>>

\* Bound: nothing is typed into a search while a save is under way.
TypeQuery(q) == call = None /\ Boxed(Search!Typed(box, q)) /\ UNCHANGED <<form, touched, making>>
LeaveBox == box.open /\ Boxed(Search!Left(box)) /\ UNCHANGED <<form, touched, making>>
Fire == box.timer /\ Boxed(Search!Fired(box, field.control = "parents")) /\ UNCHANGED <<form, touched, making>>
Answer(q) == q \in box.flight /\ Boxed(Search!Answered(box, q))
             /\ UNCHANGED <<form, touched, making>>
Fail(q) == q \in box.flight /\ Boxed(Search!Failed(box, q)) /\ UNCHANGED <<form, touched, making>>

\* The entry found; a parent search leaves the record itself out.
Pick(i) ==
    /\ i \in Search!Offered(box)
    /\ field.control = "parents" => i # Own
    /\ IF field.control \in {"brand", "model"}
       THEN /\ Boxed([box EXCEPT !.query = i, !.open = FALSE, !.timer = FALSE])
            /\ Set({i})
       ELSE /\ Boxed(box)
            /\ Set(IF form # Null /\ i \in form THEN form \ {i}
                   ELSE (IF form = Null THEN {} ELSE form) \cup {i})
    /\ UNCHANGED making

\* A recent parent: the list of the browser, the record itself not left out.
PickRecent(i) ==
    /\ field.control = "parents" /\ box.open /\ box.query = None /\ ~box.timer
    /\ i \in recents
    /\ Boxed(box) /\ Set(IF i \in form THEN form \ {i} ELSE form \cup {i})
    /\ UNCHANGED making

\* The cross of a badge, or of a single control.
Remove(i) ==
    /\ form # Null /\ i \in form
    /\ IF field.control \in {"brand", "model"}
       THEN Boxed([box EXCEPT !.query = None, !.open = FALSE, !.timer = FALSE,
                              !.results = IF field.control = "brand" THEN None ELSE @])
       ELSE Boxed(box)
    /\ Set(form \ {i})
    /\ UNCHANGED making

\* "Create" of the brand control, once the query matches no brand found.
MakeBrand ==
    /\ field.control = "brand" /\ box.open /\ making = "no"
    /\ box.query # None /\ box.results # box.query
    /\ Boxed(box) /\ making' = "asked" /\ UNCHANGED <<form, touched>>

\* The brand is created and taken, whatever was picked meanwhile; or it is refused.
BrandMade ==
    /\ making = "asked" /\ making' = "no"
    /\ \/ Boxed([box EXCEPT !.open = FALSE, !.timer = FALSE]) /\ Set({Made})
       \/ Boxed(box) /\ UNCHANGED <<form, touched>>

-----------------------------------------------------------------------------
(***************************************************************************)
(* Saving.                                                                 *)
(***************************************************************************)
\* The request is built when Save is clicked; the form can still be edited.  A
\* payload that throws is reported and nothing is sent.  Bound: one save under way;
\* a modal opened during another's save could send a second.
Save ==
    /\ Editing /\ call = None /\ ~Throws(field, form)
    /\ call' = [form |-> form, touched |-> touched, base |-> base, shown |-> Shown,
                payload |-> Payload(field, form, gear.guitar, gear.slot), state |-> "sent"]
    /\ UNCHANGED <<field, row, draft, mode, control, mlog>>

\* A form that adds makes a row each time it is saved.  The row is committed before it
\* is read back, and a row whose attributes are a string cannot be read.
Serve ==
    /\ call # None /\ call.state = "sent"
    /\ row' = Stored(field, call.base = Omit, row, call.payload)
    /\ call' = [call EXCEPT !.state = IF row' = {Text} THEN "failed" ELSE "done"]
    /\ UNCHANGED <<field, draft, mode, control, mlog>>

\* Refused, or lost on the way there or back.
Lose ==
    /\ call # None /\ call.state \in {"sent", "done"}
    /\ call' = [call EXCEPT !.state = "failed"]
    /\ UNCHANGED <<field, row, draft, mode, control, mlog>>

\* Whatever modal is open by then is closed.
Succeed ==
    /\ call # None /\ call.state = "done"
    /\ call' = None /\ Leave("closed") /\ Unmount

\* The modal stays, with the error; if it was closed, nobody is told.
ShowError ==
    /\ call # None /\ call.state = "failed"
    /\ call' = None
    /\ UNCHANGED <<field, row, draft, mode, control, mlog>>

\* Another user, or a scan that adds a path.  Bound: not while the modal is closed,
\* and not again before it is opened anew or saved.
OtherWrites(value) ==
    /\ row # Omit /\ row = base /\ mode # "closed" /\ value \in RowValues \ {row}
    /\ row' = value
    /\ UNCHANGED <<field, draft, session, control, mlog>>

-----------------------------------------------------------------------------
(***************************************************************************)
(* The maintenance log of a gear in view.                                  *)
(***************************************************************************)
Log(next) ==
    /\ mode = "view" /\ Logged
    /\ mlog' = next
    /\ UNCHANGED <<field, row, draft, session, control>>

ServeLog == mlog.ask = Asked /\ Log([mlog EXCEPT !.ask = mlog.entries])
LogArrives == mlog.ask \notin {None, Asked}
              /\ Log([mlog EXCEPT !.shown = mlog.ask, !.ask = None])
LogFails == mlog.ask # None /\ Log([mlog EXCEPT !.shown = None, !.ask = None])
AddEntry == mlog.entry = "none" /\ Log([mlog EXCEPT !.entry = "form"])
CancelEntry == mlog.entry # "none" /\ Log([mlog EXCEPT !.entry = "none"])

\* Bound: one entry on its way at a time.
SubmitEntry == mlog.entry = "form" /\ mlog.post = "none" /\ mlog.entries < MaxEntries
               /\ Log([mlog EXCEPT !.entry = "sent", !.post = "sent"])
ServeEntry == mlog.post = "sent" /\ Log([mlog EXCEPT !.post = "done", !.entries = @ + 1])
LoseEntry == mlog.post \in {"sent", "done"} /\ Log([mlog EXCEPT !.post = "failed"])

\* Mutant: the form closes and the log is not asked again.
EntryDoneQuietly ==
    \/ mlog.post = "done"
       /\ Log([mlog EXCEPT !.post = "none", !.entry = "none", !.told = mlog.entries])
    \/ mlog.post = "failed" /\ Log([mlog EXCEPT !.post = "none",
                                                !.entry = IF @ = "sent" THEN "form" ELSE @])

\* Stored: the log is asked again, an earlier request for it being dropped, and
\* whatever entry form is open closes, a cancelled entry's answer included.
\* Failed: the form stays, with its error.
EntryDone ==
    \/ mlog.post = "done"
       /\ Log([mlog EXCEPT !.post = "none", !.entry = "none", !.told = mlog.entries,
                           !.ask = Asked])
    \/ mlog.post = "failed" /\ Log([mlog EXCEPT !.post = "none",
                                                !.entry = IF @ = "sent" THEN "form" ELSE @])

Next ==
    \/ Open \/ Add \/ Edit \/ Close \/ Save \/ Serve \/ Lose \/ Succeed \/ ShowError
    \/ \E value \in Value : Type(value) \/ OtherWrites(value)
    \/ \E g \in [guitar : BOOLEAN, slot : BOOLEAN] : Refit(g)
    \/ \E q \in Item \cup {None} : TypeQuery(q)
    \/ LeaveBox \/ Fire \/ MakeBrand \/ BrandMade
    \/ \E q \in Item : Answer(q) \/ Fail(q) \/ Pick(q) \/ PickRecent(q)
    \/ \E i \in Item \cup {Made} : Remove(i)
    \/ ServeLog \/ LogArrives \/ LogFails \/ AddEntry \/ CancelEntry
    \/ SubmitEntry \/ ServeEntry \/ LoseEntry \/ EntryDone

\* A request is answered in the end, or reported as failed.
Spec == Init /\ [][Next]_vars /\ WF_vars(\E q \in Item : Answer(q) \/ Fail(q))

-----------------------------------------------------------------------------
TypeOK ==
    /\ field \in Fields
    /\ {row, base} \subseteq Value \cup {Omit} /\ form \in Value /\ row # {Junk}
    /\ gear \in [guitar : BOOLEAN, slot : BOOLEAN]
    /\ mode \in {"view", "edit", "closed"}
    /\ touched \in BOOLEAN
    /\ call = None \/ call \in Call
    /\ box \in Search!Box /\ making \in {"no", "asked", "made"}
    /\ recents \subseteq Item /\ mlog \in MLog

Same(v, w) == v = w \/ {v, w} \subseteq {{}, Null}

\* A save writes nothing into a field its user left alone, whichever form it is,
\* unless the row is no longer what the modal took; but a save of a model rewrites
\* its untouched attributes as a string.
UntouchedKept ==
    [][Serve /\ ~call.touched /\ call.base # Omit /\ Same(row, call.base) =>
          Same(row', row) \/ (field.store = "encoded" /\ row' = {Text})]_vars

\* A value given in a form is the row's once the save is served; and an emptied
\* field, or one the gear no longer shows, is emptied or left as it was.  But models
\* picked for three kinds of tools are dropped, and the attributes of a model and of a
\* new effect, instrument or library become a string.
EditsLand ==
    [][Serve /\ call.touched =>
          \/ Same(row', call.form)
          \/ /\ row' = IF call.base = Omit THEN Null ELSE row
             /\ call.form \in {{}, {Junk}} \/ ~call.shown \/ field.store = "dropped"
          \/ Encodes(field, call.base = Omit) /\ row' = {Text}]_vars

\* The spinner of a search stops.
SearchSettles == box.searching /\ Editing /\ Shown ~> ~(box.searching /\ Editing /\ Shown)

\* Once no request for it is under way, the log shows every entry the page was
\* told is stored, or none after an error.
LogShown == mode = "view" /\ mlog.ask = None /\ mlog.shown # None => mlog.shown >= mlog.told

=============================================================================

------------------------- MODULE RecordEditorProofs -------------------------
(***************************************************************************)
(* Proofs about RecordEditor and the forms it is made of: its types, that  *)
(* a save leaves alone what its user left alone, that an edit lands, and   *)
(* that the maintenance log shows what was stored.                         *)
(***************************************************************************)
EXTENDS RecordEditor, TLAPS

-----------------------------------------------------------------------------
(***************************************************************************)
(* What the forms have in common.                                          *)
(***************************************************************************)
\* Only a JSON text can be no JSON, and it is parsed before it is sent; only a
\* list of models is left out when it was NULL; what depends on a slot of the gear
\* is stored by the gear service.
FieldOK(f) ==
    /\ f.control = "json" => f.policy \in {"json", "json!"}
    /\ f.policy = "keep" => f.control = "models"
    /\ f.policy = "slot" => f.store = "coalesce"

\* What can be the value of a field in its form.
FormOK(v) ==
    /\ v \in Value /\ v # {Text}
    /\ v = {Junk} => field.control = "json"
    /\ v = {Made} => field.control = "brand"
    /\ v = Null => field.policy = "keep"

\* What a modal can be opened on.
BaseOK(b) ==
    /\ b \in Value \cup {Omit} /\ b \notin {{Junk}, {Text}}
    /\ b = {Made} => field.control = "brand"

RowOK ==
    /\ row = {Made} => field.control = "brand"
    /\ making # "no" => field.control = "brand"

\* Until it is touched, the form is what the modal was opened on.
DraftOK ==
    /\ BaseOK(base) /\ FormOK(form)
    /\ touched => form # Null /\ mode # "closed"
    /\ ~touched => form = Loaded(base)

\* A save in flight holds what the form had when it was made.
Built(c) ==
    \E guitar, slot \in BOOLEAN :
        /\ c.payload = Payload(field, c.form, guitar, slot)
        /\ c.shown = (field.policy \in {"guitar", "slot"} =>
                          guitar /\ (field.policy = "slot" => slot))
CallOK ==
    call # None =>
        /\ BaseOK(call.base) /\ FormOK(call.form) /\ Built(call)
        /\ call.touched => call.form # Null
        /\ ~call.touched => call.form = Loaded(call.base)

\* The log holds every entry the page was told of, and so does an answer with it.
LogOK ==
    /\ mlog.told =< mlog.entries
    /\ mlog.ask \notin {None, Asked} => mlog.told =< mlog.ask
    /\ mlog.ask = None /\ mlog.shown # None => mlog.told =< mlog.shown
    /\ mlog.post = "sent" => mlog.entries < MaxEntries

IInv == TypeOK /\ FieldOK(field) /\ RowOK /\ DraftOK /\ CallOK /\ LogOK

-----------------------------------------------------------------------------
\* Every field of the nine forms is as FieldOK says.
LEMMA FieldsAreOK == \A f \in Fields : FieldOK(f)
<1> SUFFICES ASSUME NEW f \in Fields
             PROVE  FieldOK(f)
    OBVIOUS
<1>1. PICK controls, policy, store :
          /\ f \in Field(controls, policy, store)
          /\ \/ controls = BrandControls /\ policy = BrandPolicy
             \/ controls = ModelControls /\ policy = ModelPolicy
             \/ controls = EffectControls /\ policy = EffectPolicy
             \/ controls = InstrumentControls /\ policy = InstrumentPolicy
             \/ controls = LibraryControls /\ policy = LibraryPolicy
             \/ controls = ToolControls /\ policy = ToolPolicy
             \/ controls = WorkstationControls /\ policy = WorkstationPolicy
             \/ controls = ConfigControls /\ policy = ConfigPolicy
             \/ controls = GearControls /\ policy = GearPolicy /\ store = GearStore
    BY DEF Fields
<1>2. PICK n \in DOMAIN controls :
          f = [control |-> controls[n], policy |-> policy[n], store |-> store[n]]
    BY <1>1 DEF Field
<1>3. SUFFICES /\ controls[n] = "json" => policy[n] \in {"json", "json!"}
               /\ policy[n] = "keep" => controls[n] = "models"
               /\ policy[n] = "slot" => store[n] = "coalesce"
    BY <1>2 DEF FieldOK
<1>4. CASE controls = BrandControls /\ policy = BrandPolicy
    BY <1>4 DEF BrandControls, BrandPolicy, All, ++
<1>5. CASE controls = ModelControls /\ policy = ModelPolicy
    BY <1>5 DEF ModelControls, ModelPolicy, All, ++
<1>6. CASE controls = EffectControls /\ policy = EffectPolicy
    <2>1. controls[n] = "json" => n = "attributes"
        BY <1>6 DEF EffectControls, All, ++
    <2>2. n \in DOMAIN policy
        BY <1>6 DEF EffectPolicy, ++
    <2>3. policy[n] \notin {"keep", "slot"} /\ (n = "attributes" => policy[n] = "json")
        BY <1>6, <2>2 DEF EffectPolicy, All, ++
    <2>4. QED
        BY <2>1, <2>3
<1>7. CASE controls = InstrumentControls /\ policy = InstrumentPolicy
    <2>1. controls[n] = "json" => n = "attributes"
        BY <1>7 DEF InstrumentControls, All, ++
    <2>2. n \in DOMAIN policy
        BY <1>7 DEF InstrumentPolicy, ++
    <2>3. policy[n] \notin {"keep", "slot"} /\ (n = "attributes" => policy[n] = "json")
        BY <1>7, <2>2 DEF InstrumentPolicy, All, ++
    <2>4. QED
        BY <2>1, <2>3
<1>8. CASE controls = LibraryControls /\ policy = LibraryPolicy
    BY <1>8 DEF LibraryControls, LibraryPolicy, All, ++
<1>9. CASE controls = ToolControls /\ policy = ToolPolicy
    BY <1>9 DEF ToolControls, ToolPolicy, All, ++
<1>10. CASE controls = WorkstationControls /\ policy = WorkstationPolicy
    BY <1>10 DEF WorkstationControls, WorkstationPolicy, All, ++
<1>11. CASE controls = ConfigControls /\ policy = ConfigPolicy
    BY <1>11 DEF ConfigControls, ConfigPolicy, All, ++
<1>12. CASE controls = GearControls /\ policy = GearPolicy /\ store = GearStore
    <2>1. store[n] = "coalesce"
        BY <1>12 DEF GearStore, All
    <2>2. controls[n] # "json" /\ policy[n] # "keep"
        BY <1>12 DEF GearControls, GearPolicy, All, ++
    <2>3. QED
        BY <2>1, <2>2
<1>13. QED
    BY <1>1, <1>4, <1>5, <1>6, <1>7, <1>8, <1>9, <1>10, <1>11, <1>12

\* A value is no Omit, and Null is no set of items.
LEMMA Values ==
    /\ Omit \notin Value /\ Null \in Value /\ {} \in Value
    /\ {{Junk}, {Made}, {Text}} \subseteq Value /\ SUBSET Item \subseteq Value
    /\ \A v \in (SUBSET Item) \cup {{Junk}, {Made}, {Text}} : v # Null
    /\ \A v \in SUBSET Item : v # {Junk} /\ v # {Made} /\ v # {Text}
    /\ {Junk} # {} /\ {Made} # {} /\ {Text} # {}
    /\ {Junk} # {Made} /\ {Text} # {Junk} /\ {Text} # {Made}
<1>1. /\ Null # Omit /\ Null \notin SUBSET (Item \cup {Junk, Made, Text})
      /\ Omit \notin SUBSET (Item \cup {Junk, Made, Text})
      /\ Junk \notin Item /\ Made \notin Item /\ Text \notin Item
      /\ Junk # Made /\ Text # Junk /\ Text # Made
    BY EditorAssumption DEF EditorAssumption
<1>2. /\ {{Junk}, {Made}, {Text}} \subseteq SUBSET (Item \cup {Junk, Made, Text})
      /\ \A v \in SUBSET Item : v \in SUBSET (Item \cup {Junk, Made, Text})
    OBVIOUS
<1>3. Omit \notin Value /\ \A v \in (SUBSET Item) \cup {{Junk}, {Made}, {Text}} : v # Null
    BY <1>1, <1>2 DEF Value
<1>4. /\ Null \in Value /\ {} \in Value
      /\ {{Junk}, {Made}, {Text}} \subseteq Value /\ SUBSET Item \subseteq Value
    BY DEF Value
<1>5. \A v \in SUBSET Item : v # {Junk} /\ v # {Made} /\ v # {Text}
    BY <1>1
<1>6. /\ {Junk} # {} /\ {Made} # {} /\ {Text} # {}
      /\ {Junk} # {Made} /\ {Text} # {Junk} /\ {Text} # {Made}
    BY <1>1
<1>7. QED
    BY <1>3, <1>4, <1>5, <1>6

\* What a modal is opened on can be shown by its form.
LEMMA FormsLoad ==
    ASSUME FieldOK(field), NEW b, BaseOK(b)
    PROVE  FormOK(Loaded(b)) /\ FormOK({})
BY Values DEF FieldOK, BaseOK, FormOK, Loaded, ToForm

-----------------------------------------------------------------------------
(***************************************************************************)
(* The maintenance log.                                                    *)
(***************************************************************************)
LEMMA LogStep ==
    ASSUME TypeOK, LogOK, [Next]_vars
    PROVE  mlog' \in MLog /\ LogOK'
<1> USE EditorAssumption DEF EditorAssumption, MLog, LogOK
<1>1. mlog \in MLog /\ MaxEntries \in Nat
    BY DEF TypeOK
<1>2. CASE UNCHANGED mlog
    BY <1>1, <1>2
<1>3. CASE Open
    BY <1>1, <1>3 DEF Open
<1>4. ASSUME NEW m, Leave(m)
      PROVE  mlog' \in MLog /\ LogOK'
    <2>1. PICK n \in {0, 1} : mlog' = Unmounted(n) /\ (n = 1 => mlog.entries < MaxEntries)
        BY <1>4 DEF Leave
    <2>2. mlog.entries \in 0 .. MaxEntries /\ mlog.entries + n \in 0 .. MaxEntries
        BY <1>1, <2>1
    <2>3. QED
        BY <1>1, <2>1, <2>2 DEF Unmounted
<1>5. CASE Edit
    BY <1>4, <1>5 DEF Edit
<1>6. CASE Close
    BY <1>4, <1>6 DEF Close
<1>7. CASE ServeLog
    BY <1>1, <1>7 DEF ServeLog, Log
<1>8. CASE LogArrives
    BY <1>1, <1>8 DEF LogArrives, Log
<1>9. CASE LogFails
    BY <1>1, <1>9 DEF LogFails, Log
<1>10. CASE AddEntry
    BY <1>1, <1>10 DEF AddEntry, Log
<1>11. CASE CancelEntry
    BY <1>1, <1>11 DEF CancelEntry, Log
<1>12. CASE SubmitEntry
    BY <1>1, <1>12 DEF SubmitEntry, Log
<1>13. CASE ServeEntry
    <2>1. mlog.entries + 1 \in 0 .. MaxEntries
        BY <1>1, <1>13 DEF ServeEntry
    <2>2. /\ mlog' \in MLog /\ mlog'.entries = mlog.entries + 1 /\ mlog'.post = "done"
          /\ mlog'.ask = mlog.ask /\ mlog'.shown = mlog.shown /\ mlog'.told = mlog.told
        BY <1>1, <1>13, <2>1 DEF ServeEntry, Log
    <2>3. QED
        BY <1>1, <2>1, <2>2
<1>14. CASE LoseEntry
    BY <1>1, <1>14 DEF LoseEntry, Log
<1>15. CASE EntryDone
    <2>1. CASE mlog' = [mlog EXCEPT !.post = "none", !.entry = "none", !.told = mlog.entries,
                                    !.ask = Asked]
        <3>1. mlog.entries \in 0 .. MaxEntries /\ Asked \in {None, Asked} \cup 0 .. MaxEntries
            BY <1>1
        <3>2. mlog' \in MLog
            BY <1>1, <2>1, <3>1
        <3>3. /\ mlog'.told = mlog.entries /\ mlog'.entries = mlog.entries
              /\ mlog'.ask = Asked /\ mlog'.post = "none"
            BY <1>1, <2>1
        <3>4. QED
            BY <3>1, <3>2, <3>3
    <2>2. CASE mlog' = [mlog EXCEPT !.post = "none",
                                    !.entry = IF @ = "sent" THEN "form" ELSE @]
        BY <1>1, <2>2
    <2>3. QED
        BY <1>15, <2>1, <2>2 DEF EntryDone, Log
<1>19. CASE Succeed
    BY <1>4, <1>19 DEF Succeed
<1>16. CASE \/ Add \/ Save \/ Serve \/ Lose \/ ShowError
            \/ \E value \in Value : Type(value) \/ OtherWrites(value)
            \/ \E g \in [guitar : BOOLEAN, slot : BOOLEAN] : Refit(g)
    BY <1>2, <1>16 DEF Add, Save, Serve, Lose, ShowError, Type, OtherWrites, Refit
<1>17. CASE \/ \E q \in Item \cup {None} : TypeQuery(q)
            \/ LeaveBox \/ Fire \/ MakeBrand \/ BrandMade
            \/ \E q \in Item : Answer(q) \/ Fail(q) \/ Pick(q) \/ PickRecent(q)
            \/ \E i \in Item \cup {Made} : Remove(i)
    <2>1. SUFFICES ASSUME NEW b, Boxed(b)
                   PROVE  UNCHANGED mlog
        BY <1>2, <1>17 DEF TypeQuery, LeaveBox, Fire, MakeBrand, BrandMade, Answer, Fail,
           Pick, PickRecent, Remove
    <2>2. QED
        BY <2>1 DEF Boxed
<1>18. QED
    BY <1>2, <1>3, <1>5, <1>6, <1>7, <1>8, <1>9, <1>10, <1>11, <1>12, <1>13, <1>14, <1>15,
       <1>16, <1>17, <1>19 DEF Next, vars
-----------------------------------------------------------------------------
(***************************************************************************)
(* A save.                                                                 *)
(***************************************************************************)
\* The row after a save is served that was built from a form with the value v, in a
\* modal opened on b: it is the row as it was, if v is what was loaded of b and b is
\* still the row; and it is v, unless v is empty, no JSON, or of no use to the gear or
\* the table.  Objects that are encoded are the exception to both.
LEMMA Served ==
    ASSUME TypeOK, FieldOK(field), RowOK, NEW v, FormOK(v), NEW b, BaseOK(b),
           NEW guitar \in BOOLEAN, NEW slot \in BOOLEAN,
           NEW p, p = Payload(field, v, guitar, slot),
           NEW r, r = Stored(field, b = Omit, row, p)
    PROVE  /\ p \in Value \cup {Omit}
           /\ r \in Value \cup {Omit} /\ r # {Junk} /\ (r = {Made} => field.control = "brand")
           /\ v = Loaded(b) /\ b # Omit /\ Same(row, b) =>
                 Same(r, row) \/ (field.store = "encoded" /\ r = {Text})
           /\ v # Null =>
                 \/ Same(r, v)
                 \/ /\ r = IF b = Omit THEN Null ELSE row
                    /\ \/ v \in {{}, {Junk}} \/ field.store = "dropped"
                       \/ ~(field.policy \in {"guitar", "slot"} =>
                                guitar /\ (field.policy = "slot" => slot))
                 \/ Encodes(field, b = Omit) /\ r = {Text}
<1>1. /\ v \in Value /\ (v = {Junk} => field.control = "json")
      /\ v = {Made} => field.control = "brand"
      /\ v = Null => field.policy = "keep"
    BY DEF FormOK
<1>2. /\ row \in Value \cup {Omit} /\ row # {Junk} /\ (row = {Made} => field.control = "brand")
      /\ b \in Value \cup {Omit}
      /\ field.control = "json" => field.policy \in {"json", "json!"}
      /\ field.policy = "slot" => field.store = "coalesce"
      /\ field.policy = "keep" => field.control = "models"
    BY DEF TypeOK, RowOK, FieldOK, BaseOK
<1>3. /\ Omit # Null /\ Null # {} /\ Omit # {} /\ Null \in Value /\ {} \in Value /\ Omit \notin Value
      /\ Null # {Junk} /\ Null # {Made} /\ {Junk} # {} /\ {Made} # {}
      /\ {Text} \in Value /\ {Text} # {Junk} /\ {Text} # {Made}
    BY Values
<1>4. r = IF p = Omit \/ field.store = "dropped" \/ (p = Null /\ field.store = "coalesce")
          THEN IF b = Omit THEN Null ELSE row
          ELSE IF p # Null /\ (field.store = "encoded" \/ (field.store = "encoded anew" /\ b = Omit))
          THEN {Text} ELSE p
    BY DEF Stored, Encodes
<1>5. /\ b # Omit => Loaded(b) = IF b = Null /\ field.policy # "keep" THEN {} ELSE b
      /\ Encodes(field, b = Omit) <=>
             field.store = "encoded" \/ (field.store = "encoded anew" /\ b = Omit)
    BY DEF Loaded, ToForm, Encodes
<1>6. /\ Same(r, row) <=> r = row \/ (r \in {{}, Null} /\ row \in {{}, Null})
      /\ Same(row, b) <=> row = b \/ (row \in {{}, Null} /\ b \in {{}, Null})
      /\ Same(r, v) <=> r = v \/ (r \in {{}, Null} /\ v \in {{}, Null})
    BY DEF Same
<1>7. CASE field.policy = "skip"
    <2>1. p = IF v = {} THEN Omit ELSE v
        BY <1>7 DEF Payload
    <2>2. QED
        BY <1>1, <1>2, <1>3, <1>4, <1>5, <1>6, <1>7, <2>1
<1>8. CASE field.policy \in {"json", "json!"}
    <2>1. p = IF v \in {{}, {Junk}} THEN Omit ELSE v
        BY <1>8 DEF Payload
    <2>2. QED
        BY <1>1, <1>2, <1>3, <1>4, <1>5, <1>6, <1>8, <2>1
<1>9. CASE field.policy = "keep"
    <2>1. p = IF v = Null THEN Omit ELSE v
        BY <1>9 DEF Payload
    <2>2. QED
        BY <1>1, <1>2, <1>3, <1>4, <1>5, <1>6, <1>9, <2>1
<1>10. CASE field.policy = "null"
    <2>1. p = IF v = {} THEN Null ELSE v
        BY <1>10 DEF Payload, OrNull
    <2>2. QED
        BY <1>1, <1>2, <1>3, <1>4, <1>5, <1>6, <1>10, <2>1
<1>11. CASE field.policy = "guitar"
    <2>1. p = IF ~guitar THEN Omit ELSE IF v = {} THEN Null ELSE v
        BY <1>11 DEF Payload, OrNull
    <2>2. QED
        BY <1>1, <1>2, <1>3, <1>4, <1>5, <1>6, <1>11, <2>1
<1>12. CASE field.policy = "slot"
    <2>1. p = IF ~guitar THEN Omit ELSE IF ~slot THEN Null ELSE IF v = {} THEN Null ELSE v
        BY <1>12 DEF Payload, OrNull
    <2>2. QED
        BY <1>1, <1>2, <1>3, <1>4, <1>5, <1>6, <1>12, <2>1
<1>13. CASE field.policy \notin {"skip", "json", "json!", "keep", "null", "guitar", "slot"}
    <2>1. p = v
        BY <1>13 DEF Payload
    <2>2. QED
        BY <1>1, <1>2, <1>3, <1>4, <1>5, <1>6, <1>13, <2>1
<1>14. QED
    BY <1>7, <1>8, <1>9, <1>10, <1>11, <1>12, <1>13
-----------------------------------------------------------------------------
(***************************************************************************)
(* The controls.                                                           *)
(***************************************************************************)
\* Every step of the search box gives a search box.
LEMMA Boxes ==
    ASSUME box \in Search!Box
    PROVE  /\ Search!Left(box) \in Search!Box
           /\ \A q \in Item \cup {None} : Search!Typed(box, q) \in Search!Box
           /\ Search!Fired(box, field.control = "parents") \in Search!Box
           /\ \A q \in Item : /\ Search!Answered(box, q) \in Search!Box
                              /\ Search!Failed(box, q) \in Search!Box
           /\ Search!Offered(box) \subseteq Item
           /\ Search!Idle \in Search!Box
<1> USE DEF Search!Box
<1>1. Search!Left(box) \in Search!Box
    BY DEF Search!Left
<1>2. ASSUME NEW q \in Item \cup {None}
      PROVE  Search!Typed(box, q) \in Search!Box
    BY <1>2 DEF Search!Typed
<1>3. Search!Fired(box, field.control = "parents") \in Search!Box
    BY DEF Search!Fired
<1>4. ASSUME NEW q \in Item
      PROVE  Search!Answered(box, q) \in Search!Box
    BY <1>4 DEF Search!Answered, Search!Applies
<1>5. ASSUME NEW q \in Item
      PROVE  Search!Failed(box, q) \in Search!Box
    BY <1>5 DEF Search!Failed, Search!Applies
<1>6. Search!Offered(box) \subseteq Item
    BY DEF Search!Offered
<1>7. Search!Idle \in Search!Box
    BY DEF Search!Idle
<1>8. QED
    BY <1>1, <1>2, <1>3, <1>4, <1>5, <1>6, <1>7

\* What stays true of a save while nothing it depends on changes, and of the form.
LEMMA CallKept ==
    ASSUME CallOK, UNCHANGED <<field, call>>
    PROVE  CallOK'
BY DEF CallOK, BaseOK, FormOK, Built, Loaded

LEMMA DraftKept ==
    ASSUME DraftOK, UNCHANGED <<field, base, form, touched>>,
           mode' = mode \/ mode' # "closed"
    PROVE  DraftOK'
BY DEF DraftOK, BaseOK, FormOK, Loaded

\* A step of a control keeps the invariant, if what it sets can be the field's value
\* in the form, and is no Null.
LEMMA ControlStep ==
    ASSUME IInv, Editing, box' \in Search!Box, making' \in {"no", "asked", "made"},
           making' # "no" => field.control = "brand",
           UNCHANGED <<field, row, base, gear, session, recents, mlog>>,
           \/ UNCHANGED <<form, touched>>
           \/ FormOK(form') /\ form' # Null /\ touched' = TRUE
    PROVE  IInv'
<1>1. UNCHANGED <<field, row, base, gear, mode, call, recents, mlog>>
    BY DEF session
<1>2. FormOK(form)' /\ (touched' => form' # Null)
    BY <1>1 DEF IInv, DraftOK, FormOK
<1>3. TypeOK'
    BY <1>1, <1>2 DEF IInv, TypeOK, FormOK
<1>4. FieldOK(field)' /\ RowOK'
    BY <1>1 DEF IInv, FieldOK, RowOK
<1>5. BaseOK(base)' /\ Loaded(base)' = Loaded(base)
    BY <1>1 DEF IInv, DraftOK, BaseOK, Loaded
<1>6. DraftOK'
    BY <1>1, <1>2, <1>5 DEF IInv, DraftOK, Editing
<1>7. CallOK'
    BY <1>1, CallKept DEF IInv
<1>8. LogOK'
    BY <1>1 DEF IInv, LogOK
<1>9. QED
    BY <1>3, <1>4, <1>6, <1>7, <1>8 DEF IInv

\* What a control gives.
LEMMA Given ==
    ASSUME IInv, NEW i \in Item
    PROVE  /\ FormOK({i}) /\ {i} # Null
           /\ form \in SUBSET Item => FormOK(form \ {i}) /\ FormOK(form \cup {i})
           /\ \A v \in SUBSET Item : FormOK(v) /\ v # Null
BY Values DEF FormOK

LEMMA TypeStep == ASSUME IInv, NEW value, Type(value) PROVE IInv'
<1>1. /\ Editing /\ Set(value) /\ field.control \notin Searched
      /\ value \in IF field.control = "picks" THEN SUBSET Item
                   ELSE Single \cup (IF field.control = "json" THEN {{Junk}} ELSE {})
      /\ UNCHANGED <<field, row, base, gear, session, control, mlog>>
    BY DEF Type
<1>2. FormOK(value) /\ value # Null
    BY <1>1, Values DEF FormOK, Single
<1>3. UNCHANGED <<box, making, recents>>
    BY <1>1 DEF control
<1>4. QED
    BY <1>1, <1>2, <1>3, ControlStep DEF Set, IInv, TypeOK, RowOK

LEMMA SearchStep ==
    ASSUME IInv,
           \/ \E q \in Item \cup {None} : TypeQuery(q)
           \/ LeaveBox \/ Fire
           \/ \E q \in Item : Answer(q) \/ Fail(q)
    PROVE  IInv'
<1>1. box \in Search!Box /\ making \in {"no", "asked", "made"}
      /\ (making # "no" => field.control = "brand")
    BY DEF IInv, TypeOK, RowOK
<1>2. PICK b \in Search!Box : Boxed(b) /\ UNCHANGED <<form, touched, making>>
    BY <1>1, Boxes DEF TypeQuery, LeaveBox, Fire, Answer, Fail
<1>3. QED
    BY <1>1, <1>2, ControlStep DEF Boxed

LEMMA PickStep ==
    ASSUME IInv, NEW i \in Item, Pick(i) \/ PickRecent(i)
    PROVE  IInv'
<1>1. box \in Search!Box /\ making \in {"no", "asked", "made"}
      /\ (making # "no" => field.control = "brand")
    BY DEF IInv, TypeOK, RowOK
<1>2. PICK b \in Search!Box : Boxed(b) /\ UNCHANGED making
    BY <1>1 DEF Pick, PickRecent, Search!Box
<1>3. form = Null \/ form \in SUBSET Item \/ form \in {{Junk}, {Made}}
    BY DEF IInv, DraftOK, FormOK, Value
<1>4. /\ form = {Junk} => field.control = "json"
      /\ form = {Made} => field.control = "brand"
      /\ form = Null => field.policy = "keep" /\ field.control = "models"
    BY DEF IInv, DraftOK, FormOK, FieldOK
<1>5. field.control \in Searched /\ Editing
      /\ UNCHANGED <<field, row, base, gear, session, recents, mlog>> /\ box' \in Search!Box
    BY <1>2 DEF Boxed
<1>6. PICK v : Set(v) /\ v \in SUBSET Item
    <2>1. CASE field.control \in {"brand", "model"}
        BY <2>1 DEF Pick, PickRecent
    <2>2. CASE field.control \notin {"brand", "model"}
        <3>1. form = Null \/ form \in SUBSET Item
            BY <1>3, <1>4, <1>5, <2>2 DEF Searched
        <3>2. CASE Pick(i)
            BY <2>2, <3>1, <3>2 DEF Pick
        <3>3. CASE PickRecent(i)
            BY <1>4, <3>1, <3>3 DEF PickRecent
        <3>4. QED
            BY <3>2, <3>3
    <2>3. QED
        BY <2>1, <2>2
<1>7. FormOK(v) /\ v # Null
    BY <1>6, Given
<1>8. QED
    BY <1>1, <1>2, <1>5, <1>6, <1>7, ControlStep DEF Set

LEMMA RemoveStep ==
    ASSUME IInv, NEW i \in Item \cup {Made}, Remove(i)
    PROVE  IInv'
<1>1. box \in Search!Box /\ making \in {"no", "asked", "made"}
      /\ (making # "no" => field.control = "brand")
    BY DEF IInv, TypeOK, RowOK
<1>2. PICK b \in Search!Box : Boxed(b)
    BY <1>1 DEF Remove, Search!Box
<1>3. form \in SUBSET Item \/ form = {Junk} \/ form = {Made}
    BY DEF Remove, IInv, DraftOK, FormOK, Value
<1>4. form = {Junk} => i = Junk
    BY DEF Remove
<1>5. form \ {i} \in SUBSET Item
    BY <1>3, <1>4, EditorAssumption DEF Remove, EditorAssumption
<1>6. FormOK(form \ {i}) /\ form \ {i} # Null
    BY <1>5, Values DEF FormOK
<1>7. Set(form \ {i}) /\ UNCHANGED making
    BY DEF Remove
<1>8. QED
    BY <1>1, <1>2, <1>6, <1>7, ControlStep DEF Boxed, Set

LEMMA BrandStep ==
    ASSUME IInv, MakeBrand \/ BrandMade
    PROVE  IInv'
<1>1. box \in Search!Box /\ making \in {"no", "asked", "made"}
      /\ (making # "no" => field.control = "brand")
    BY DEF IInv, TypeOK, RowOK
<1>2. field.control = "brand"
    BY <1>1 DEF MakeBrand, BrandMade
<1>3. PICK b \in Search!Box : Boxed(b)
    BY <1>1 DEF MakeBrand, BrandMade, Search!Box
<1>4. making' \in {"no", "asked", "made"}
    BY DEF MakeBrand, BrandMade
<1>5. FormOK({Made}) /\ {Made} # Null
    BY <1>2, Values DEF FormOK
<1>6. UNCHANGED <<form, touched>> \/ Set({Made})
    BY DEF MakeBrand, BrandMade
<1>7. QED
    BY <1>2, <1>3, <1>4, <1>5, <1>6, ControlStep DEF Boxed, Set

-----------------------------------------------------------------------------
(***************************************************************************)
(* The modal and its save.                                                 *)
(***************************************************************************)
\* A row the catalog can hold.
LEMMA Rows ==
    ASSUME NEW v \in RowValues
    PROVE  v \in Value /\ v # Omit /\ v # {Junk} /\ v # {Made} /\ v # {Text}
<1>1. v = Null \/ v \in SUBSET Item
    BY DEF RowValues, Single
<1>2. QED
    BY <1>1, Values

LEMMA InitHolds == Init => IInv
<1> SUFFICES ASSUME Init
             PROVE  IInv
    OBVIOUS
<1>1. row = Omit \/ (row \in RowValues /\ row \in Value)
    BY Rows DEF Init
<1>2. row \notin {{Junk}, {Made}, {Text}}
    <2>1. Omit \notin {{Junk}, {Made}, {Text}}
        BY Values
    <2>2. QED
        BY <1>1, <2>1, Rows
<1>3. FieldOK(field)
    BY FieldsAreOK DEF Init
<1>4. BaseOK(base) /\ FormOK(form) /\ form = Loaded(base)
    BY <1>1, <1>2, <1>3, FormsLoad DEF Init, BaseOK
<1>5. mlog \in MLog /\ LogOK
    BY EditorAssumption DEF Init, EditorAssumption, MLog, LogOK
<1>6. box \in Search!Box
    BY DEF Init, Search!Box, Search!Idle
<1>7. gear \in [guitar : BOOLEAN, slot : BOOLEAN]
    BY DEF Init, Gear
<1>8. TypeOK
    BY <1>1, <1>2, <1>4, <1>5, <1>6, <1>7, EditorAssumption DEF Init, Recents, TypeOK, FormOK, EditorAssumption
<1>9. RowOK /\ DraftOK /\ CallOK
    BY <1>2, <1>4 DEF Init, RowOK, DraftOK, CallOK
<1>10. QED
    BY <1>3, <1>5, <1>8, <1>9 DEF IInv

LEMMA LogActions ==
    ASSUME IInv, NEW next, Log(next), mlog' \in MLog, LogOK'
    PROVE  IInv'
<1>1. UNCHANGED <<field, row, base, form, touched, gear, mode, call, box, making, recents>>
    BY DEF Log, draft, session, control
<1>2. TypeOK' /\ FieldOK(field)' /\ RowOK'
    BY <1>1 DEF IInv, TypeOK, FieldOK, RowOK
<1>3. DraftOK' /\ CallOK'
    BY <1>1, CallKept, DraftKept DEF IInv
<1>4. QED
    BY <1>2, <1>3 DEF IInv

\* When the modal goes, the form and its controls go with it.
LEMMA UnmountStep ==
    ASSUME IInv, Unmount, call' = None \/ UNCHANGED call, mode' = "closed",
           mlog' \in MLog, LogOK'
    PROVE  IInv'
<1>1. UNCHANGED <<field, row, gear, recents>> /\ base' = Omit /\ form' = {} /\ touched' = FALSE
      /\ box' = Search!Idle /\ making' = "no"
    BY DEF Unmount
<1>2. box' \in Search!Box
    BY <1>1 DEF Search!Idle, Search!Box
<1>3. TypeOK'
    BY <1>1, <1>2, Values DEF IInv, TypeOK
<1>4. FieldOK(field)' /\ RowOK'
    BY <1>1 DEF IInv, FieldOK, RowOK
<1>5. DraftOK'
    BY <1>1, Values DEF DraftOK, BaseOK, FormOK, Loaded
<1>6. CallOK'
    <2>1. CASE call' = None
        BY <2>1 DEF CallOK
    <2>2. CASE UNCHANGED call
        BY <1>1, <2>2, CallKept DEF IInv
    <2>3. QED
        BY <2>1, <2>2
<1>7. QED
    BY <1>3, <1>4, <1>5, <1>6 DEF IInv

LEMMA OpenStep == ASSUME IInv, Open, mlog' \in MLog, LogOK' PROVE IInv'
<1>1. /\ mode = "closed" /\ row \notin {Omit, {Text}}
      /\ mode' = "view" /\ base' = row /\ form' = Loaded(row)
      /\ UNCHANGED <<field, row, touched, gear, call, box, making, recents>>
    BY DEF Open, control
<1>2. BaseOK(row)
    BY <1>1 DEF IInv, TypeOK, RowOK, BaseOK
<1>3. FormOK(form') /\ touched' = FALSE
    BY <1>1, <1>2, FormsLoad DEF IInv, DraftOK, TypeOK
<1>4. TypeOK'
    BY <1>1, <1>3 DEF IInv, TypeOK, FormOK
<1>5. FieldOK(field)' /\ RowOK'
    BY <1>1 DEF IInv, FieldOK, RowOK
<1>6. DraftOK'
    BY <1>1, <1>2, <1>3 DEF DraftOK, BaseOK, FormOK, Loaded
<1>7. CallOK'
    BY <1>1, CallKept DEF IInv
<1>8. QED
    BY <1>4, <1>5, <1>6, <1>7 DEF IInv

LEMMA AddStep == ASSUME IInv, Add, mlog' \in MLog, LogOK' PROVE IInv'
<1>1. /\ mode' = "edit"
      /\ UNCHANGED <<field, row, base, form, touched, gear, call, box, making, recents>>
    BY DEF Add, draft, control
<1>2. TypeOK' /\ FieldOK(field)' /\ RowOK'
    BY <1>1 DEF IInv, TypeOK, FieldOK, RowOK
<1>3. DraftOK' /\ CallOK'
    BY <1>1, CallKept, DraftKept DEF IInv
<1>4. QED
    BY <1>2, <1>3 DEF IInv

LEMMA EditStep == ASSUME IInv, Edit, mlog' \in MLog, LogOK' PROVE IInv'
<1>1. /\ mode' = "edit"
      /\ UNCHANGED <<field, row, base, form, touched, gear, call, box, making, recents>>
    BY DEF Edit, Leave, draft, control
<1>2. TypeOK' /\ FieldOK(field)' /\ RowOK'
    BY <1>1 DEF IInv, TypeOK, FieldOK, RowOK
<1>3. DraftOK' /\ CallOK'
    BY <1>1, CallKept, DraftKept DEF IInv
<1>4. QED
    BY <1>2, <1>3 DEF IInv

LEMMA RefitStep == ASSUME IInv, NEW g \in [guitar : BOOLEAN, slot : BOOLEAN], Refit(g) PROVE IInv'
<1>1. /\ gear' = g
      /\ UNCHANGED <<field, row, base, form, touched, mode, call, box, making, recents, mlog>>
    BY DEF Refit, session, control
<1>2. TypeOK' /\ FieldOK(field)' /\ RowOK' /\ LogOK'
    BY <1>1 DEF IInv, TypeOK, FieldOK, RowOK, LogOK
<1>3. DraftOK' /\ CallOK'
    BY <1>1, CallKept, DraftKept DEF IInv
<1>4. QED
    BY <1>2, <1>3 DEF IInv

LEMMA SaveStep == ASSUME IInv, Save PROVE IInv'
<1> DEFINE c == [form |-> form, touched |-> touched, base |-> base, shown |-> Shown,
                 payload |-> Payload(field, form, gear.guitar, gear.slot), state |-> "sent"]
<1>1. /\ call' = c
      /\ UNCHANGED <<field, row, base, form, touched, gear, mode, box, making, recents, mlog>>
    BY DEF Save, draft, control
<1>2. /\ gear.guitar \in BOOLEAN /\ gear.slot \in BOOLEAN /\ FormOK(form) /\ form \in Value
      /\ base \in Value \cup {Omit} /\ touched \in BOOLEAN /\ Shown \in BOOLEAN
      /\ BaseOK(base) /\ (touched => form # Null) /\ (~touched => form = Loaded(base))
    BY DEF IInv, TypeOK, DraftOK, Shown
<1>3. c.payload \in Value \cup {Omit}
    <2> DEFINE p == Payload(field, form, gear.guitar, gear.slot)
               r == Stored(field, base = Omit, row, p)
    <2>1. p \in Value \cup {Omit}
        <3> HIDE DEF p, r
        <3>1. p = Payload(field, form, gear.guitar, gear.slot)
              /\ r = Stored(field, base = Omit, row, p)
            BY DEF p, r
        <3>2. QED
            BY <1>2, <3>1, Served DEF IInv
    <2>2. QED
        BY <2>1
<1>4. /\ c \in Call /\ c.form = form /\ c.touched = touched /\ c.base = base
      /\ c.payload = Payload(field, c.form, gear.guitar, gear.slot) /\ c.shown = Shown
    BY <1>2, <1>3 DEF Call
<1> HIDE DEF c
<1>5. TypeOK' /\ FieldOK(field)' /\ RowOK' /\ LogOK'
    BY <1>1, <1>4 DEF IInv, TypeOK, FieldOK, RowOK, LogOK
<1>6. DraftOK'
    BY <1>1, DraftKept DEF IInv
<1>7. CallOK'
    <2>1. Built(c)
        BY <1>2, <1>4 DEF Built, Shown
    <2>2. /\ FormOK(call.form)' <=> FormOK(c.form)
          /\ BaseOK(call.base)' <=> BaseOK(c.base)
          /\ Built(call)' <=> Built(c)
          /\ Loaded(call.base)' = Loaded(c.base)
        BY <1>1 DEF FormOK, BaseOK, Built, Loaded
    <2>3. QED
        BY <1>1, <1>2, <1>4, <2>1, <2>2 DEF CallOK
<1>8. QED
    BY <1>5, <1>6, <1>7 DEF IInv

\* What a step of Serve does to the row.
LEMMA ServeRow ==
    ASSUME IInv, Serve
    PROVE  /\ row' \in Value \cup {Omit} /\ row' # {Junk} /\ (row' = {Made} => field.control = "brand")
           /\ call.form = Loaded(call.base) /\ call.base # Omit /\ Same(row, call.base) =>
                 Same(row', row) \/ (field.store = "encoded" /\ row' = {Text})
           /\ call.form # Null =>
                 \/ Same(row', call.form)
                 \/ /\ row' = IF call.base = Omit THEN Null ELSE row
                    /\ call.form \in {{}, {Junk}} \/ ~call.shown \/ field.store = "dropped"
                 \/ Encodes(field, call.base = Omit) /\ row' = {Text}
<1>1. PICK guitar, slot \in BOOLEAN :
          /\ call.payload = Payload(field, call.form, guitar, slot)
          /\ call.shown = (field.policy \in {"guitar", "slot"} =>
                               guitar /\ (field.policy = "slot" => slot))
    BY DEF IInv, CallOK, Built, Serve
<1>2. FormOK(call.form) /\ BaseOK(call.base)
    BY DEF IInv, CallOK, Serve
<1>3. row' = Stored(field, call.base = Omit, row, call.payload)
    BY DEF Serve
<1>4. QED
    BY <1>1, <1>2, <1>3, Served DEF IInv

\* A save that is answered, or fails, is the same save.
LEMMA CallMoves ==
    ASSUME TypeOK, CallOK, call # None, NEW state \in {"sent", "done", "failed"},
           call' = [call EXCEPT !.state = state], UNCHANGED field
    PROVE  call' \in Call /\ CallOK'
<1>1. call \in Call
    BY DEF TypeOK
<1>2. /\ call' \in Call /\ call'.form = call.form /\ call'.touched = call.touched
      /\ call'.base = call.base /\ call'.payload = call.payload /\ call'.shown = call.shown
    BY <1>1 DEF Call
<1>3. /\ FormOK(call.form)' <=> FormOK(call.form)
      /\ BaseOK(call.base)' <=> BaseOK(call.base)
      /\ Built(call)' <=> Built(call)
      /\ Loaded(call.base)' = Loaded(call.base)
    BY <1>2 DEF FormOK, BaseOK, Built, Loaded
<1>4. QED
    BY <1>2, <1>3 DEF CallOK

LEMMA ServeStep == ASSUME IInv, Serve PROVE IInv'
<1>1. /\ call # None
      /\ call' = [call EXCEPT !.state = IF row' = {Text} THEN "failed" ELSE "done"]
      /\ UNCHANGED <<field, base, form, touched, gear, mode, box, making, recents, mlog>>
    BY DEF Serve, draft, control
<1>2. call' \in Call /\ CallOK'
    <2>1. PICK state \in {"sent", "done", "failed"} : call' = [call EXCEPT !.state = state]
        BY <1>1
    <2>2. QED
        BY <1>1, <2>1, CallMoves DEF IInv
<1>3. row' \in Value \cup {Omit} /\ row' # {Junk} /\ (row' = {Made} => field.control = "brand")
    BY ServeRow
<1>4. TypeOK' /\ FieldOK(field)' /\ RowOK' /\ LogOK'
    BY <1>1, <1>2, <1>3 DEF IInv, TypeOK, FieldOK, RowOK, LogOK
<1>5. DraftOK'
    BY <1>1, DraftKept DEF IInv
<1>6. QED
    BY <1>2, <1>4, <1>5 DEF IInv

LEMMA LoseStep == ASSUME IInv, Lose PROVE IInv'
<1>1. /\ call # None /\ call' = [call EXCEPT !.state = "failed"]
      /\ UNCHANGED <<field, row, base, form, touched, gear, mode, box, making, recents, mlog>>
    BY DEF Lose, draft, control
<1>2. call' \in Call /\ CallOK'
    BY <1>1, CallMoves DEF IInv
<1>3. TypeOK' /\ FieldOK(field)' /\ RowOK' /\ LogOK'
    BY <1>1, <1>2 DEF IInv, TypeOK, FieldOK, RowOK, LogOK
<1>4. DraftOK'
    BY <1>1, DraftKept DEF IInv
<1>5. QED
    BY <1>2, <1>3, <1>4 DEF IInv

LEMMA ShowErrorStep == ASSUME IInv, ShowError PROVE IInv'
<1>1. /\ call' = None
      /\ UNCHANGED <<field, row, base, form, touched, gear, mode, box, making, recents, mlog>>
    BY DEF ShowError, draft, control
<1>2. TypeOK' /\ FieldOK(field)' /\ RowOK' /\ LogOK'
    BY <1>1 DEF IInv, TypeOK, FieldOK, RowOK, LogOK
<1>3. DraftOK' /\ CallOK'
    BY <1>1, DraftKept DEF IInv, CallOK
<1>4. QED
    BY <1>2, <1>3 DEF IInv

LEMMA OtherStep == ASSUME IInv, NEW value, OtherWrites(value) PROVE IInv'
<1>1. /\ value \in RowValues /\ row' = value
      /\ UNCHANGED <<field, base, form, touched, gear, mode, call, box, making, recents, mlog>>
    BY DEF OtherWrites, draft, session, control
<1>2. row' \in Value /\ row' # {Junk} /\ row' # {Made}
    BY <1>1, Rows
<1>3. TypeOK' /\ FieldOK(field)' /\ RowOK' /\ LogOK'
    BY <1>1, <1>2 DEF IInv, TypeOK, FieldOK, RowOK, LogOK
<1>4. DraftOK' /\ CallOK'
    BY <1>1, CallKept, DraftKept DEF IInv
<1>5. QED
    BY <1>3, <1>4 DEF IInv

-----------------------------------------------------------------------------
(***************************************************************************)
(* The theorems.                                                           *)
(***************************************************************************)
LEMMA NextKeeps == IInv /\ [Next]_vars => IInv'
<1> SUFFICES ASSUME IInv, [Next]_vars
             PROVE  IInv'
    OBVIOUS
<1>1. mlog' \in MLog /\ LogOK'
    BY LogStep DEF IInv
<1>2. CASE UNCHANGED vars
    <2>1. UNCHANGED <<field, row, base, form, touched, gear, mode, call, box, making, recents, mlog>>
        BY <1>2 DEF vars
    <2>2. TypeOK' /\ FieldOK(field)' /\ RowOK'
        BY <2>1 DEF IInv, TypeOK, FieldOK, RowOK
    <2>3. DraftOK' /\ CallOK'
        BY <2>1, CallKept, DraftKept DEF IInv
    <2>4. QED
        BY <1>1, <2>2, <2>3 DEF IInv
<1>3. CASE Open
    BY <1>1, <1>3, OpenStep
<1>4. CASE Edit
    BY <1>1, <1>4, EditStep
<1>5. CASE Close
    BY <1>1, <1>5, UnmountStep DEF Close, Leave
<1>6. CASE Save
    BY <1>6, SaveStep
<1>7. CASE Serve
    BY <1>7, ServeStep
<1>8. CASE Lose
    BY <1>8, LoseStep
<1>9. CASE Succeed
    BY <1>1, <1>9, UnmountStep DEF Succeed, Leave
<1>10. CASE ShowError
    BY <1>10, ShowErrorStep
<1>11. CASE \E value \in Value : Type(value) \/ OtherWrites(value)
    BY <1>11, TypeStep, OtherStep
<1>12. CASE \E g \in [guitar : BOOLEAN, slot : BOOLEAN] : Refit(g)
    BY <1>12, RefitStep
<1>13. CASE \/ \E q \in Item \cup {None} : TypeQuery(q)
            \/ LeaveBox \/ Fire
            \/ \E q \in Item : Answer(q) \/ Fail(q)
    BY <1>13, SearchStep
<1>14. CASE MakeBrand \/ BrandMade
    BY <1>14, BrandStep
<1>15. CASE \E q \in Item : Pick(q) \/ PickRecent(q)
    BY <1>15, PickStep
<1>16. CASE \E i \in Item \cup {Made} : Remove(i)
    BY <1>16, RemoveStep
<1>17. CASE \/ ServeLog \/ LogArrives \/ LogFails \/ AddEntry \/ CancelEntry
            \/ SubmitEntry \/ ServeEntry \/ LoseEntry \/ EntryDone
    <2>1. PICK next : Log(next)
        BY <1>17 DEF ServeLog, LogArrives, LogFails, AddEntry, CancelEntry, SubmitEntry,
           ServeEntry, LoseEntry, EntryDone
    <2>2. QED
        BY <1>1, <2>1, LogActions
<1>18. CASE Add
    BY <1>1, <1>18, AddStep
<1>19. QED
    BY <1>2, <1>3, <1>4, <1>5, <1>6, <1>7, <1>8, <1>9, <1>10, <1>11, <1>12, <1>13, <1>14,
       <1>15, <1>16, <1>17, <1>18 DEF Next

\* The invariant holds in every reachable state, whatever the entries there are to find.
THEOREM SoundAlways == Spec => []IInv
<1>1. QED
    BY InitHolds, NextKeeps, PTL DEF Spec

\* Every field of the nine forms keeps its type through form, request and row.
THEOREM TypeCorrect == Spec => []TypeOK
<1>1. IInv => TypeOK
    BY DEF IInv
<1>2. QED
    BY <1>1, SoundAlways, PTL

\* Once no request for it is under way, the log shows every entry the page was told
\* is stored: an answer asked for before the entry was stored is dropped.
THEOREM LogIsShown == Spec => []LogShown
<1>1. IInv => LogShown
    BY EditorAssumption DEF IInv, TypeOK, MLog, LogOK, LogShown, EditorAssumption
<1>2. QED
    BY <1>1, SoundAlways, PTL

\* In every form and for every field, a save leaves as it was what its user left alone,
\* unless the row is no longer what the modal took.  The exception are the attributes of
\* a model: update_model encodes them a second time.
THEOREM UntouchedIsKept == Spec => UntouchedKept
<1>1. IInv /\ [Next]_vars =>
          [Serve /\ ~call.touched /\ call.base # Omit /\ Same(row, call.base) =>
              Same(row', row) \/ (field.store = "encoded" /\ row' = {Text})]_vars
    <2>1. SUFFICES ASSUME IInv, Serve, ~call.touched, call.base # Omit, Same(row, call.base)
                   PROVE  Same(row', row) \/ (field.store = "encoded" /\ row' = {Text})
        OBVIOUS
    <2>2. call.form = Loaded(call.base)
        BY <2>1 DEF IInv, CallOK, Serve
    <2>3. QED
        BY <2>1, <2>2, ServeRow
<1>2. QED
    BY <1>1, SoundAlways, PTL DEF Spec, UntouchedKept

\* A value given in a form is the row's once the save is served; a field that was
\* emptied, is no JSON, or is not shown for the gear, is emptied or left as it was.  The
\* exceptions are the models of a tool whose table has none, which are dropped, and the
\* attributes that are encoded twice.
THEOREM EditsAreStored == Spec => EditsLand
<1> DEFINE Lands ==
        \/ Same(row', call.form)
        \/ /\ row' = IF call.base = Omit THEN Null ELSE row
           /\ call.form \in {{}, {Junk}} \/ ~call.shown \/ field.store = "dropped"
        \/ Encodes(field, call.base = Omit) /\ row' = {Text}
<1>1. IInv /\ [Next]_vars => [Serve /\ call.touched => Lands]_vars
    <2>1. SUFFICES ASSUME IInv, Serve, call.touched
                   PROVE  Lands
        OBVIOUS
    <2>2. call.form # Null
        BY <2>1 DEF IInv, CallOK, Serve
    <2>3. QED
        BY <2>1, <2>2, ServeRow
<1>2. QED
    BY <1>1, SoundAlways, PTL DEF Spec, EditsLand

=============================================================================

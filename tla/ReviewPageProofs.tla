-------------------------- MODULE ReviewPageProofs --------------------------
(***************************************************************************)
(* Proofs about ReviewPage, the change review page, for any number of      *)
(* entries, pages and requests in flight: its types, that the list shown   *)
(* is what the backend answers, and that its backend keeps the audit log   *)
(* as AuditLifecycle says.                                                 *)
(***************************************************************************)
EXTENDS ReviewPage, FiniteSetTheorems, SequenceTheorems, TLAPS

\* A request for the list counts the entries before it reads the page.
CountFirst(r) == r # None /\ r.rows # None => r.total # None

\* What a request has read of the list is what the backend has.
InSync(r) ==
    r # None => /\ r.total # None => r.total = Total(r.view)
                /\ r.rows # None => r.rows = Rows(r.view)

\* Something the page sent is done, and its answer not heard yet.
Unheard ==
    \/ \E e \in Entry : act[e] # None /\ act[e].stage = "done" /\ act[e].own
    \/ \E s \in Slot : bulk[s] # None /\ bulk[s].stage = "done" /\ bulk[s].own

Shows == page.data # None =>
             page.data = [total |-> Total(page.view), rows |-> Rows(page.view)]

\* A reload asks for the view shown; in a calm page so does a refresh, and they are
\* not in flight at once.
AsksOK ==
    /\ CountFirst(page.hard) /\ CountFirst(page.refresh)
    /\ page.hard # None => page.hard.view = page.view
    /\ calm /\ page.refresh # None => page.hard = None /\ page.refresh.view = page.view

\* While a calm page has nothing to hear of, what it reads is what the backend has,
\* and so is what it shows unless it is being read anew.
ReadsOK ==
    calm /\ ~Unheard =>
        /\ InSync(page.hard) /\ InSync(page.refresh)
        /\ page.hard = None /\ page.refresh = None /\ ~page.error /\ ~page.stale => Shows

IInv == TypeOK /\ AsksOK /\ ReadsOK

PageState == [view : View, data : Data \cup {None}, error : BOOLEAN, stale : BOOLEAN,
              hard : Asked \cup {None}, refresh : Asked \cup {None}, failed : SUBSET Entry]

-----------------------------------------------------------------------------
(***************************************************************************)
(* The list, and the requests for it.                                      *)
(***************************************************************************)
\* A page of the log is a page, and the entries are counted by a number.
LEMMA ListTyped ==
    ASSUME log \in [Entry -> Status \cup {"none"}], NEW v
    PROVE  Total(v) \in Nat /\ Rows(v) \in RowsOf
<1>1. Total(v) \in Nat
    <2>1. {e \in Entry : Has(e, v)} \subseteq Entry
        OBVIOUS
    <2>2. IsFiniteSet({e \in Entry : Has(e, v)})
        BY <2>1, FS_Subset, PageAssumption DEF PageAssumption
    <2>3. QED
        BY <2>2, FS_CardinalityType DEF Total
<1>2. Rows(v) \in RowsOf
    <2> DEFINE newer(e) == Cardinality({x \in Entry : Has(x, v) /\ x > e})
               listed == {x \in Entry : Has(x, v) /\ newer(x) \div PageSize = v.page - 1}
    <2>1. Rows(v) = [e \in listed |-> log[e]]
        BY DEF Rows
    <2>2. \A e \in listed : log[e] \in Status
        BY DEF Has
    <2> HIDE DEF listed
    <2>3. Rows(v) \in [listed -> Status]
        BY <2>1, <2>2
    <2>4. listed \in SUBSET Entry
        BY DEF listed
    <2>5. QED
        BY <2>3, <2>4 DEF RowsOf
<1>3. QED
    BY <1>1, <1>2

LEMMA AskTyped ==
    ASSUME NEW v \in View
    PROVE  /\ Ask(v) \in Asked /\ Ask(v) # None /\ Ask(v).view = v
           /\ Ask(v).total = None /\ Ask(v).rows = None
<1>1. Ask(v) \in Asked /\ Ask(v).view = v /\ Ask(v).total = None /\ Ask(v).rows = None
    BY DEF Ask, Asked
<1>2. QED
    BY <1>1, NoneAssumption DEF NoneAssumption

LEMMA ReloadTyped ==
    ASSUME NEW p \in PageState, NEW v \in View
    PROVE  /\ Reload(p, v) \in PageState
           /\ Reload(p, v).view = v /\ Reload(p, v).hard = Ask(v)
           /\ Reload(p, v).refresh = p.refresh
<1>1. Ask(v) \in Asked
    BY AskTyped
<1>2. Reload(p, v) \in PageState
    BY <1>1 DEF Reload, PageState
<1>3. Reload(p, v).view = v /\ Reload(p, v).hard = Ask(v)
    BY DEF Reload, PageState
<1>4. Reload(p, v).refresh = p.refresh
    BY DEF Reload, PageState
<1>5. QED
    BY <1>2, <1>3, <1>4

LEMMA RefreshTyped ==
    ASSUME NEW p \in PageState
    PROVE  /\ Refresh(p) \in PageState
           /\ Refresh(p).view = p.view /\ Refresh(p).hard = p.hard
           /\ Refresh(p).refresh = Ask(p.view)
<1>1. p.view \in View /\ Ask(p.view) \in Asked
    BY AskTyped DEF PageState
<1>2. QED
    BY <1>1 DEF Refresh, PageState

\* What is shown takes the place of the list, or the page is left for an earlier one.
LEMMA ShowTyped ==
    ASSUME NEW p \in PageState, NEW data \in Data \cup {None}
    PROVE  \/ /\ Show(p, data) \in PageState
              /\ Show(p, data) = [p EXCEPT !.data = data]
           \/ \E v \in View : v # p.view /\ Show(p, data) = Reload(p, v)
<1>1. CASE data # None /\ DOMAIN data.rows = {} /\ p.view.page > 1
    <2> DEFINE back == IF p.view.page > 2 THEN p.view.page - 2 ELSE 1
               v == [p.view EXCEPT !.page = back]
    <2>1. p.view \in View /\ p.view.page \in 1 .. Cardinality(Entry) + 1
        BY DEF PageState, View
    <2>2. Cardinality(Entry) \in Nat
        BY FS_CardinalityType, PageAssumption DEF PageAssumption
    <2>3. back \in 1 .. Cardinality(Entry) + 1 /\ back # p.view.page
        BY <1>1, <2>1, <2>2
    <2>4. v \in View /\ v # p.view
        <3> HIDE DEF back
        <3>1. v \in View /\ v.page = back
            BY <2>1, <2>3 DEF View
        <3>2. QED
            BY <2>3, <3>1
    <2>5. Show(p, data) = Reload(p, v)
        BY <1>1 DEF Show
    <2>6. QED
        BY <2>4, <2>5
<1>2. CASE ~(data # None /\ DOMAIN data.rows = {} /\ p.view.page > 1)
    BY <1>2 DEF Show, PageState
<1>3. QED
    BY <1>1, <1>2

LEMMA WithoutTyped ==
    ASSUME NEW data \in Data \cup {None}, NEW e \in Entry
    PROVE  Without(data, e) \in Data \cup {None}
<1>1. CASE data = None \/ e \notin DOMAIN data.rows
    BY <1>1 DEF Without
<1>2. CASE data # None /\ e \in DOMAIN data.rows
    <2> DEFINE rest == [x \in DOMAIN data.rows \ {e} |-> data.rows[x]]
    <2>1. data \in Data /\ data.total \in Int /\ data.rows \in RowsOf
        BY <1>2 DEF Data
    <2>2. PICK es \in SUBSET Entry : data.rows \in [es -> Status]
        BY <2>1 DEF RowsOf
    <2>3. rest \in [es \ {e} -> Status] /\ es \ {e} \in SUBSET Entry
        BY <2>2
    <2>4. rest \in RowsOf
        BY <2>3 DEF RowsOf
    <2>5. Without(data, e) = [total |-> data.total - 1, rows |-> rest]
        BY <1>2 DEF Without
    <2> HIDE DEF rest
    <2>6. QED
        BY <2>1, <2>4, <2>5 DEF Data
<1>3. QED
    BY <1>1, <1>2

\* The list is what it was as long as the log is.
LEMMA LogKept ==
    ASSUME UNCHANGED log
    PROVE  \A v : Total(v)' = Total(v) /\ Rows(v)' = Rows(v)
BY DEF Total, Rows, Has

\* A page that has just asked for the list is sound, whatever it held before.
LEMMA AskedAnew ==
    ASSUME page' \in PageState, page'.hard = Ask(page'.view),
           CountFirst(page.refresh)', calm' => page'.refresh = None
    PROVE  AsksOK' /\ ReadsOK'
<1>1. page'.view \in View
    BY DEF PageState
<1>2. /\ page'.hard # None /\ page'.hard.view = page'.view
      /\ page'.hard.total = None /\ page'.hard.rows = None
    BY <1>1, AskTyped
<1>3. QED
    BY <1>2 DEF AsksOK, ReadsOK, CountFirst, InSync

LEMMA RefreshedAnew ==
    ASSUME page' \in PageState, page'.refresh = Ask(page'.view),
           CountFirst(page.hard)', page'.hard # None => page'.hard.view = page'.view,
           calm' => page'.hard = None
    PROVE  AsksOK' /\ ReadsOK'
<1>1. page'.view \in View
    BY DEF PageState
<1>2. /\ page'.refresh # None /\ page'.refresh.view = page'.view
      /\ page'.refresh.total = None /\ page'.refresh.rows = None
    BY <1>1, AskTyped
<1>3. QED
    BY <1>2 DEF AsksOK, ReadsOK, CountFirst, InSync

-----------------------------------------------------------------------------
(***************************************************************************)
(* Steps that leave the list and its requests as they are.                 *)
(***************************************************************************)
LEMMA PageKept ==
    ASSUME TypeOK, AsksOK, ReadsOK,
           page'.view = page.view, page'.data = page.data, page'.error = page.error,
           page'.stale = page.stale, page'.hard = page.hard, page'.refresh = page.refresh,
           calm' => calm, calm' /\ ~Unheard' => ~Unheard /\ UNCHANGED log
    PROVE  AsksOK' /\ ReadsOK'
<1>1. AsksOK'
    BY DEF AsksOK, CountFirst
<1>2. ASSUME calm', ~Unheard'
      PROVE  /\ InSync(page.hard)' /\ InSync(page.refresh)'
             /\ page'.hard = None /\ page'.refresh = None /\ ~page'.error /\ ~page'.stale => Shows'
    <2>1. calm /\ ~Unheard /\ UNCHANGED log
        BY <1>2
    <2>2. \A v : Total(v)' = Total(v) /\ Rows(v)' = Rows(v)
        BY <2>1, LogKept
    <2>3. InSync(page.hard)' /\ InSync(page.refresh)'
        BY <2>1, <2>2 DEF ReadsOK, InSync
    <2>4. page'.hard = None /\ page'.refresh = None /\ ~page'.error /\ ~page'.stale => Shows'
        BY <2>1, <2>2 DEF ReadsOK, Shows
    <2>5. QED
        BY <2>3, <2>4
<1>3. QED
    BY <1>1, <1>2 DEF ReadsOK

LEMMA Stutter == ASSUME IInv, UNCHANGED vars PROVE IInv'
<1>1. UNCHANGED <<log, page, ticks, act, bulk, calm, acts, writes, faults>>
    BY DEF vars
<1>2. TypeOK'
    BY <1>1 DEF IInv, TypeOK
<1>3. Unheard' = Unheard
    BY <1>1 DEF Unheard
<1>4. QED
    BY <1>1, <1>2, <1>3, PageKept DEF IInv

LEMMA TicksStep ==
    ASSUME IInv,
           \/ SelectAll \/ CloseBulkAction
           \/ \E action \in {"approve", "reject"} : OpenBulkAction(action)
           \/ \E e \in Entry : Toggle(e) \/ ShiftToggle(e)
    PROVE  IInv'
<1>1. /\ UNCHANGED <<log, page, act, bulk, calm, writes, faults>>
      /\ acts' = acts \/ acts' = acts + 1
    BY DEF SelectAll, CloseBulkAction, OpenBulkAction, Toggle, ShiftToggle, Tick, User
<1>2. Listed \subseteq Entry
    BY DEF IInv, TypeOK, Listed, Data, RowsOf
<1>3. /\ ticks \in [ids : SUBSET Entry, last : Entry \cup {None}, ask : {"approve", "reject", None}]
      /\ ticks.ids \in SUBSET Entry /\ ticks.last \in Entry \cup {None}
    BY DEF IInv, TypeOK
<1>4. ticks' \in [ids : SUBSET Entry, last : Entry \cup {None}, ask : {"approve", "reject", None}]
    <2>1. ASSUME NEW ids \in SUBSET Entry, NEW last \in Entry \cup {None}, Tick(ids, last)
          PROVE  ticks' \in [ids : SUBSET Entry, last : Entry \cup {None}, ask : {"approve", "reject", None}]
        BY <1>3, <2>1 DEF Tick
    <2>2. CASE SelectAll
        BY <1>2, <1>3, <2>1, <2>2 DEF SelectAll
    <2>3. CASE CloseBulkAction
        BY <1>3, <2>3 DEF CloseBulkAction
    <2>4. CASE \E action \in {"approve", "reject"} : OpenBulkAction(action)
        BY <1>3, <2>4 DEF OpenBulkAction
    <2>5. ASSUME NEW e \in Entry, Toggle(e)
          PROVE  ticks' \in [ids : SUBSET Entry, last : Entry \cup {None}, ask : {"approve", "reject", None}]
        BY <1>3, <2>1, <2>5 DEF Toggle, Flip
    <2>6. ASSUME NEW e \in Entry, ShiftToggle(e)
          PROVE  ticks' \in [ids : SUBSET Entry, last : Entry \cup {None}, ask : {"approve", "reject", None}]
        <3> DEFINE ids == IF ticks.last \in Listed
                          THEN ticks.ids \cup {x \in Listed : \/ e <= x /\ x <= ticks.last
                                                              \/ ticks.last <= x /\ x <= e}
                          ELSE Flip(e)
        <3>1. Tick(ids, e)
            BY <2>6 DEF ShiftToggle
        <3>2. ids \in SUBSET Entry
            BY <1>2, <1>3 DEF Flip
        <3> HIDE DEF ids
        <3>3. QED
            BY <2>1, <3>1, <3>2
    <2>7. QED
        BY <2>2, <2>3, <2>4, <2>5, <2>6
<1>5. TypeOK'
    BY <1>1, <1>4 DEF IInv, TypeOK
<1>6. Unheard' = Unheard
    BY <1>1 DEF Unheard
<1>7. QED
    BY <1>1, <1>5, <1>6, PageKept DEF IInv

LEMMA HandleStep ==
    ASSUME IInv, NEW e \in Entry, NEW path \in {"acknowledge", "undo", "permanent"},
           HandleAction(e, path)
    PROVE  IInv'
<1> DEFINE a == [path |-> path, stage |-> "sent", own |-> TRUE]
<1>1. /\ UNCHANGED <<log, page, ticks, bulk, calm, writes, faults>> /\ acts' = acts + 1
      /\ act[e] = None /\ act' = [act EXCEPT ![e] = a]
    BY DEF HandleAction, User
<1>2. a \in Action /\ a.stage = "sent"
    BY DEF Action, Stage
<1> HIDE DEF a
<1>3. act' \in [Entry -> Action \cup {None}]
    BY <1>1, <1>2 DEF IInv, TypeOK
<1>4. TypeOK'
    BY <1>1, <1>3 DEF IInv, TypeOK
<1>5. ~Unheard' => ~Unheard
    BY <1>1 DEF IInv, TypeOK, Unheard
<1>6. QED
    BY <1>1, <1>4, <1>5, PageKept DEF IInv

LEMMA ConfirmStep == ASSUME IInv, NEW s \in Slot, ConfirmBulk(s) PROVE IInv'
<1> DEFINE b == [ids |-> ticks.ids, path |-> ticks.ask, stage |-> "sent", own |-> TRUE]
<1>1. /\ UNCHANGED <<log, page, ticks, act, calm, writes, faults>> /\ acts' = acts + 1
      /\ bulk[s] = None /\ bulk' = [bulk EXCEPT ![s] = b]
      /\ ticks.ids # {} /\ ticks.ask # None
    BY DEF ConfirmBulk, User
<1>2. b \in BulkAction /\ b.stage = "sent"
    BY <1>1 DEF BulkAction, Stage, IInv, TypeOK
<1> HIDE DEF b
<1>3. bulk' \in [Slot -> BulkAction \cup {None}]
    BY <1>1, <1>2 DEF IInv, TypeOK
<1>4. TypeOK'
    BY <1>1, <1>3 DEF IInv, TypeOK
<1>5. ~Unheard' => ~Unheard
    BY <1>1 DEF IInv, TypeOK, Unheard
<1>6. QED
    BY <1>1, <1>4, <1>5, PageKept DEF IInv

\* The server settles an entry the page asked it to: the page has to hear of it.
LEMMA ServeActStep == ASSUME IInv, NEW e \in Entry, ServeAct(e) PROVE IInv'
<1>1. /\ UNCHANGED <<page, ticks, bulk, acts, writes, faults>>
      /\ act[e] # None /\ act[e].stage = "sent" /\ calm' = (calm /\ act[e].own)
    BY DEF ServeAct
<1>2. act \in [Entry -> Action \cup {None}] /\ act[e] \in Action /\ act[e].own \in BOOLEAN
      /\ calm \in BOOLEAN
    BY <1>1 DEF IInv, TypeOK, Action
<1>3. CASE log[e] = "pending"
    <2> DEFINE a == [act[e] EXCEPT !.stage = "done"]
    <2>1. log' = [log EXCEPT ![e] = Outcome(act[e].path)] /\ act' = [act EXCEPT ![e] = a]
        BY <1>3 DEF ServeAct
    <2>2. a \in Action /\ a.stage = "done" /\ a.own = act[e].own
        BY <1>2 DEF Action, Stage
    <2> HIDE DEF a
    <2>3. act' \in [Entry -> Action \cup {None}] /\ act'[e] = a
        BY <1>2, <2>1, <2>2
    <2>4. log' \in [Entry -> Status \cup {"none"}]
        BY <2>1 DEF Outcome, Status, IInv, TypeOK
    <2>5. TypeOK'
        BY <1>1, <1>2, <2>3, <2>4 DEF IInv, TypeOK
    <2>6. calm' => Unheard'
        BY <1>1, <2>2, <2>3, NoneAssumption DEF Unheard, NoneAssumption
    <2>7. QED
        BY <1>1, <2>5, <2>6, PageKept DEF IInv
<1>4. CASE log[e] # "pending"
    <2> DEFINE a == [act[e] EXCEPT !.stage = "failed"]
    <2>1. UNCHANGED log /\ act' = [act EXCEPT ![e] = a]
        BY <1>4 DEF ServeAct
    <2>2. a \in Action /\ a.stage = "failed"
        BY <1>2 DEF Action, Stage
    <2> HIDE DEF a
    <2>3. act' \in [Entry -> Action \cup {None}] /\ \A x \in Entry \ {e} : act'[x] = act[x]
        BY <1>2, <2>1, <2>2
    <2>4. TypeOK'
        BY <1>1, <1>2, <2>1, <2>3 DEF IInv, TypeOK
    <2>5. ~Unheard' => ~Unheard
        BY <1>1, <2>3 DEF Unheard
    <2>6. QED
        BY <1>1, <2>1, <2>4, <2>5, PageKept DEF IInv
<1>5. QED
    BY <1>3, <1>4

LEMMA ServeBulkStep == ASSUME IInv, NEW s \in Slot, ServeBulk(s) PROVE IInv'
<1>1. /\ UNCHANGED <<page, ticks, act, acts, writes, faults>>
      /\ bulk[s] # None /\ bulk[s].stage = "sent" /\ calm' = (calm /\ bulk[s].own)
    BY DEF ServeBulk
<1>2. /\ bulk \in [Slot -> BulkAction \cup {None}] /\ bulk[s] \in BulkAction
      /\ bulk[s].own \in BOOLEAN /\ calm \in BOOLEAN
    BY <1>1 DEF IInv, TypeOK, BulkAction
<1>3. CASE \A e \in bulk[s].ids : log[e] = "pending"
    <2> DEFINE b == [bulk[s] EXCEPT !.stage = "done"]
    <2>1. /\ log' = [e \in Entry |-> IF e \in bulk[s].ids THEN Outcome(bulk[s].path) ELSE log[e]]
          /\ bulk' = [bulk EXCEPT ![s] = b]
        BY <1>3 DEF ServeBulk
    <2>2. b \in BulkAction /\ b.stage = "done" /\ b.own = bulk[s].own
        BY <1>2 DEF BulkAction, Stage
    <2> HIDE DEF b
    <2>3. bulk' \in [Slot -> BulkAction \cup {None}] /\ bulk'[s] = b
        BY <1>2, <2>1, <2>2
    <2>4. log' \in [Entry -> Status \cup {"none"}]
        BY <2>1 DEF Outcome, Status, IInv, TypeOK
    <2>5. TypeOK'
        BY <1>1, <1>2, <2>3, <2>4 DEF IInv, TypeOK
    <2>6. calm' => Unheard'
        BY <1>1, <2>2, <2>3, NoneAssumption DEF Unheard, NoneAssumption
    <2>7. QED
        BY <1>1, <2>5, <2>6, PageKept DEF IInv
<1>4. CASE ~\A e \in bulk[s].ids : log[e] = "pending"
    <2> DEFINE b == [bulk[s] EXCEPT !.stage = "failed"]
    <2>1. UNCHANGED log /\ bulk' = [bulk EXCEPT ![s] = b]
        BY <1>4 DEF ServeBulk
    <2>2. b \in BulkAction /\ b.stage = "failed"
        BY <1>2 DEF BulkAction, Stage
    <2> HIDE DEF b
    <2>3. bulk' \in [Slot -> BulkAction \cup {None}] /\ \A x \in Slot \ {s} : bulk'[x] = bulk[x]
        BY <1>2, <2>1, <2>2
    <2>4. TypeOK'
        BY <1>1, <1>2, <2>1, <2>3 DEF IInv, TypeOK
    <2>5. ~Unheard' => ~Unheard
        BY <1>1, <2>3 DEF Unheard
    <2>6. QED
        BY <1>1, <2>1, <2>4, <2>5, PageKept DEF IInv
<1>5. QED
    BY <1>3, <1>4

\* What others do, and what is lost, is known to be unknown.
LEMMA LoseStep == ASSUME IInv, Lose PROVE IInv'
<1>1. calm' = FALSE /\ UNCHANGED <<log, page, ticks, acts, writes>> /\ faults' = faults + 1
    BY DEF Lose
<1>2. act' \in [Entry -> Action \cup {None}] /\ bulk' \in [Slot -> BulkAction \cup {None}]
    <2>1. ASSUME NEW e \in Entry, act[e] # None, act' = [act EXCEPT ![e].stage = "failed"]
          PROVE  act' \in [Entry -> Action \cup {None}]
        <3> DEFINE a == [act[e] EXCEPT !.stage = "failed"]
        <3>1. a \in Action
            BY <2>1 DEF Action, Stage, IInv, TypeOK
        <3>2. act' = [act EXCEPT ![e] = a]
            BY <2>1
        <3> HIDE DEF a
        <3>3. QED
            BY <3>1, <3>2 DEF IInv, TypeOK
    <2>2. ASSUME NEW s \in Slot, bulk[s] # None, bulk' = [bulk EXCEPT ![s].stage = "failed"]
          PROVE  bulk' \in [Slot -> BulkAction \cup {None}]
        <3> DEFINE b == [bulk[s] EXCEPT !.stage = "failed"]
        <3>1. b \in BulkAction
            BY <2>2 DEF BulkAction, Stage, IInv, TypeOK
        <3>2. bulk' = [bulk EXCEPT ![s] = b]
            BY <2>2
        <3> HIDE DEF b
        <3>3. QED
            BY <3>1, <3>2 DEF IInv, TypeOK
    <2>3. QED
        BY <2>1, <2>2 DEF Lose, IInv, TypeOK
<1>3. TypeOK'
    <2>1. calm' \in BOOLEAN
        BY <1>1
    <2>2. {acts, writes, faults}' \subseteq Nat
        BY <1>1 DEF IInv, TypeOK
    <2>3. QED
        BY <1>1, <1>2, <2>1, <2>2 DEF IInv, TypeOK
<1>4. QED
    BY <1>1, <1>3, PageKept DEF IInv

LEMMA OtherStep == ASSUME IInv, NEW e \in Entry, OtherWrites(e) PROVE IInv'
<1>1. calm' = FALSE /\ UNCHANGED <<page, ticks, act, bulk, acts, faults>> /\ writes' = writes + 1
    BY DEF OtherWrites
<1>2. log' \in [Entry -> Status \cup {"none"}]
    BY DEF OtherWrites, Status, IInv, TypeOK
<1>3. TypeOK'
    <2>1. calm' \in BOOLEAN
        BY <1>1
    <2>2. {acts, writes, faults}' \subseteq Nat
        BY <1>1 DEF IInv, TypeOK
    <2>3. QED
        BY <1>1, <1>2, <2>1, <2>2 DEF IInv, TypeOK
<1>4. QED
    BY <1>1, <1>3, PageKept DEF IInv

LEMMA ActFailsStep == ASSUME IInv, NEW e \in Entry, ActFails(e) PROVE IInv'
<1>1. /\ UNCHANGED <<log, ticks, bulk, calm, acts, writes, faults>>
      /\ act[e].stage = "failed" /\ act' = [act EXCEPT ![e] = None]
      /\ page' = IF act[e].own THEN [page EXCEPT !.failed = @ \cup {e}] ELSE page
    BY DEF ActFails
<1>2. page \in PageState /\ act \in [Entry -> Action \cup {None}]
    BY DEF IInv, TypeOK, PageState
<1>3. /\ page' \in PageState /\ page'.view = page.view /\ page'.data = page.data
      /\ page'.error = page.error /\ page'.stale = page.stale
      /\ page'.hard = page.hard /\ page'.refresh = page.refresh
    BY <1>1, <1>2 DEF PageState
<1>4. act' \in [Entry -> Action \cup {None}] /\ \A x \in Entry \ {e} : act'[x] = act[x]
    BY <1>1, <1>2
<1>5. TypeOK'
    BY <1>1, <1>3, <1>4 DEF IInv, TypeOK, PageState
<1>6. ~Unheard' => ~Unheard
    BY <1>1, <1>4 DEF Unheard
<1>7. QED
    BY <1>1, <1>3, <1>5, <1>6, PageKept DEF IInv

LEMMA BulkFailsStep == ASSUME IInv, NEW s \in Slot, BulkFails(s) PROVE IInv'
<1>1. /\ UNCHANGED <<log, page, ticks, act, calm, acts, writes, faults>>
      /\ bulk[s].stage = "failed" /\ bulk' = [bulk EXCEPT ![s] = None]
    BY DEF BulkFails
<1>2. bulk' \in [Slot -> BulkAction \cup {None}] /\ \A x \in Slot \ {s} : bulk'[x] = bulk[x]
    BY <1>1 DEF IInv, TypeOK
<1>3. TypeOK'
    BY <1>1, <1>2 DEF IInv, TypeOK
<1>4. ~Unheard' => ~Unheard
    BY <1>1, <1>2 DEF Unheard
<1>5. QED
    BY <1>1, <1>3, <1>4, PageKept DEF IInv

LEMMA ClearStep == ASSUME IInv, NEW e \in Entry, ClearRowError(e) PROVE IInv'
<1>1. /\ UNCHANGED <<log, ticks, act, bulk, calm, acts, writes, faults>>
      /\ page' = [page EXCEPT !.failed = @ \ {e}]
    BY DEF ClearRowError
<1>2. /\ page' \in PageState /\ page'.view = page.view /\ page'.data = page.data
      /\ page'.error = page.error /\ page'.stale = page.stale
      /\ page'.hard = page.hard /\ page'.refresh = page.refresh
    BY <1>1 DEF PageState, IInv, TypeOK
<1>3. TypeOK'
    BY <1>1, <1>2 DEF IInv, TypeOK, PageState
<1>4. Unheard' = Unheard
    BY <1>1 DEF Unheard
<1>5. QED
    BY <1>1, <1>2, <1>3, <1>4, PageKept DEF IInv

-----------------------------------------------------------------------------
(***************************************************************************)
(* Steps of the list and its requests.                                     *)
(***************************************************************************)
LEMMA FreshTyped ==
    /\ Fresh \in PageState /\ Fresh.view \in View
    /\ Fresh.hard = Ask(Fresh.view) /\ Fresh.refresh = None
<1> DEFINE v == [status |-> "pending", op |-> "all", page |-> 1]
<1>1. Cardinality(Entry) \in Nat
    BY FS_CardinalityType, PageAssumption DEF PageAssumption
<1>2. v \in View
    BY <1>1 DEF View, Status
<1> HIDE DEF v
<1>3. Ask(v) \in Asked
    BY <1>2, AskTyped
<1>4. Fresh = [view |-> v, data |-> None, error |-> FALSE, stale |-> FALSE,
               hard |-> Ask(v), refresh |-> None, failed |-> {}]
    BY DEF Fresh, v
<1>5. QED
    BY <1>2, <1>3, <1>4 DEF PageState

LEMMA InitHolds == Init => IInv
<1> SUFFICES ASSUME Init
             PROVE  IInv
    OBVIOUS
<1>1. page \in PageState /\ page.hard = Ask(page.view) /\ page.view \in View /\ page.refresh = None
    BY FreshTyped DEF Init
<1>2. /\ page.hard # None /\ page.hard.view = page.view
      /\ page.hard.total = None /\ page.hard.rows = None
    BY <1>1, AskTyped
<1>3. TypeOK
    BY <1>1 DEF Init, TypeOK, PageState, NoTicks, Status
<1>4. AsksOK /\ ReadsOK
    BY <1>1, <1>2 DEF AsksOK, ReadsOK, CountFirst, InSync
<1>5. QED
    BY <1>3, <1>4 DEF IInv

\* The page after a step, if it asked for the list when it took that step.
LEMMA BecomesAsking ==
    ASSUME IInv, NEW p \in PageState, NEW v \in View, v # p.view,
           CountFirst(p.refresh), Becomes(Reload(p, v))
    PROVE  page' \in PageState /\ AsksOK' /\ ReadsOK' /\ calm' \in BOOLEAN
<1>1. page' = Reload(p, v)
    BY DEF Becomes
<1>2. /\ page' \in PageState /\ page'.view = v /\ page'.hard = Ask(v)
      /\ page'.refresh = p.refresh
    BY <1>1, ReloadTyped
<1>3. page'.hard # None
    BY <1>2, AskTyped
<1>4. /\ calm' => page'.hard = None \/ page'.refresh = None
      /\ calm' \in BOOLEAN
    BY <1>1 DEF Becomes
<1>5. CountFirst(page.refresh)'
    BY <1>2 DEF CountFirst
<1>6. QED
    BY <1>2, <1>3, <1>4, <1>5, AskedAnew

LEMMA FilterStep ==
    ASSUME IInv,
           \/ \E status \in Status \cup {"all"}, op \in {"all", "DELETE"} : SetFilter(status, op)
           \/ \E n \in 1 .. Cardinality(Entry) : SetPage(n)
    PROVE  IInv'
<1>1. /\ 1 \in 1 .. Cardinality(Entry) + 1
      /\ \A n \in 1 .. Cardinality(Entry) : n \in 1 .. Cardinality(Entry) + 1
      /\ 1 .. Cardinality(Entry) + 1 \subseteq Int
    <2> DEFINE N == Cardinality(Entry)
    <2>1. N \in Nat
        BY FS_CardinalityType, PageAssumption DEF PageAssumption
    <2> HIDE DEF N
    <2>2. /\ 1 \in 1 .. N + 1 /\ 1 .. N + 1 \subseteq Int
          /\ \A n \in 1 .. N : n \in 1 .. N + 1
        BY <2>1
    <2>3. QED
        BY <2>2 DEF N
<1>2. page \in PageState /\ page.view \in View /\ CountFirst(page.refresh)
    BY DEF IInv, TypeOK, AsksOK, PageState
<1>3. PICK v \in View : v # page.view /\ Becomes(Reload(page, v))
    <2>1. ASSUME NEW status \in Status \cup {"all"}, NEW op \in {"all", "DELETE"},
                 SetFilter(status, op)
          PROVE  \E v \in View : v # page.view /\ Becomes(Reload(page, v))
        <3> DEFINE v == [status |-> status, op |-> op, page |-> 1]
        <3>1. v \in View /\ v.status = status /\ v.op = op
            BY <1>1, status \in Status \cup {"all"}, op \in {"all", "DELETE"} DEF View
        <3>2. v # page.view
            BY <2>1, <3>1 DEF SetFilter
        <3>3. QED
            BY <2>1, <3>1, <3>2 DEF SetFilter
    <2>2. ASSUME NEW n \in 1 .. Cardinality(Entry), SetPage(n)
          PROVE  \E v \in View : v # page.view /\ Becomes(Reload(page, v))
        <3> DEFINE v == [page.view EXCEPT !.page = n]
        <3>1. v \in View /\ v.page = n
            BY <1>1, <1>2 DEF View
        <3>2. page.view.page \in Int
            <4>1. page.view.page \in 1 .. Cardinality(Entry) + 1
                BY <1>2 DEF View
            <4>2. QED
                BY <1>1, <4>1
        <3>3. n # page.view.page
            <4>1. n = page.view.page - 1 \/ n = page.view.page + 1
                BY <2>2 DEF SetPage
            <4>2. QED
                BY <3>2, <4>1
        <3>4. v # page.view
            BY <3>1, <3>3
        <3>5. QED
            BY <2>2, <3>1, <3>4 DEF SetPage
    <2>3. QED
        BY <2>1, <2>2
<1>4. page' \in PageState /\ AsksOK' /\ ReadsOK' /\ calm' \in BOOLEAN
    BY <1>2, <1>3, BecomesAsking
<1>5. UNCHANGED <<log, ticks, act, bulk, writes, faults>> /\ acts' = acts + 1
    BY DEF SetFilter, SetPage, User
<1>6. TypeOK'
    <2>1. acts' = acts + 1 /\ writes' = writes /\ faults' = faults
        BY <1>5
    <2>2. acts \in Nat /\ writes \in Nat /\ faults \in Nat
        BY DEF IInv, TypeOK
    <2>3. acts' \in Nat /\ writes' \in Nat /\ faults' \in Nat
        BY <2>1, <2>2
    <2>4. QED
        BY <1>4, <1>5, <2>3 DEF IInv, TypeOK, PageState
<1>7. QED
    BY <1>4, <1>6 DEF IInv

LEMMA ReopenStep == ASSUME IInv, Reopen PROVE IInv'
<1>1. /\ acts' = acts + 1 /\ page' = Fresh /\ ticks' = NoTicks /\ calm' = TRUE
      /\ act' = [e \in Entry |-> IF act[e] = None THEN None ELSE [act[e] EXCEPT !.own = FALSE]]
      /\ bulk' = [s \in Slot |-> IF bulk[s] = None THEN None ELSE [bulk[s] EXCEPT !.own = FALSE]]
      /\ UNCHANGED <<log, writes, faults>>
    BY DEF Reopen
<1>2. act' \in [Entry -> Action \cup {None}]
    <2>1. ASSUME NEW e \in Entry, act[e] # None
          PROVE  [act[e] EXCEPT !.own = FALSE] \in Action
        <3>1. act[e] \in Action
            BY <2>1 DEF IInv, TypeOK
        <3>2. QED
            BY <3>1 DEF Action
    <2>2. QED
        BY <1>1, <2>1
<1>3. bulk' \in [Slot -> BulkAction \cup {None}]
    <2>1. ASSUME NEW s \in Slot, bulk[s] # None
          PROVE  [bulk[s] EXCEPT !.own = FALSE] \in BulkAction
        <3>1. bulk[s] \in BulkAction
            BY <2>1 DEF IInv, TypeOK
        <3>2. QED
            BY <3>1 DEF BulkAction
    <2>2. QED
        BY <1>1, <2>1
<1>4. page' \in PageState /\ page'.hard = Ask(page'.view) /\ page'.refresh = None
    BY <1>1, FreshTyped
<1>5. AsksOK' /\ ReadsOK'
    BY <1>4, AskedAnew DEF CountFirst
<1>6. ticks' \in [ids : SUBSET Entry, last : Entry \cup {None}, ask : {"approve", "reject", None}]
    BY <1>1 DEF NoTicks
<1>7. TypeOK'
    BY <1>1, <1>2, <1>3, <1>4, <1>6 DEF IInv, TypeOK, PageState
<1>8. QED
    BY <1>5, <1>7 DEF IInv

\* A request after the backend has read for it.
LEMMA Read ==
    ASSUME TypeOK, NEW r \in Asked, r.rows = None, CountFirst(r),
           NEW t, t = IF r.total = None THEN [r EXCEPT !.total = Total(r.view)]
                      ELSE [r EXCEPT !.rows = Rows(r.view)]
    PROVE  /\ t \in Asked /\ t # None /\ t.view = r.view /\ CountFirst(t)
           /\ InSync(r) => InSync(t)
<1>1. r.view \in View /\ r # None
    BY NoneAssumption DEF Asked, NoneAssumption
<1>2. /\ Total(r.view) \in Nat /\ Rows(r.view) \in RowsOf
      /\ Total(r.view) # None
    BY ListTyped, NoneAssumption DEF TypeOK, NoneAssumption
<1>3. CASE r.total = None
    <2>1. t \in Asked /\ t.view = r.view /\ t.total = Total(r.view) /\ t.rows = None
        BY <1>2, <1>3 DEF Asked
    <2>2. QED
        BY <2>1, NoneAssumption DEF CountFirst, InSync, NoneAssumption
<1>4. CASE r.total # None
    <2>1. t \in Asked /\ t.view = r.view /\ t.total = r.total /\ t.rows = Rows(r.view)
        BY <1>2, <1>4 DEF Asked
    <2>2. QED
        BY <1>1, <1>4, <2>1, NoneAssumption DEF CountFirst, InSync, NoneAssumption
<1>5. QED
    BY <1>3, <1>4

LEMMA ServeListStep ==
    ASSUME IInv, NEW which \in {"hard", "refresh"}, ServeList(which)
    PROVE  IInv'
<1> DEFINE r == page[which]
           t == IF r.total = None THEN [r EXCEPT !.total = Total(r.view)]
                ELSE [r EXCEPT !.rows = Rows(r.view)]
<1>1. /\ r # None /\ r.rows = None
      /\ UNCHANGED <<log, ticks, act, bulk, calm, acts, writes, faults>>
    BY DEF ServeList
<1>2. page \in PageState /\ r \in Asked /\ CountFirst(r)
    BY <1>1 DEF IInv, TypeOK, PageState, AsksOK
<1>3. page' = [page EXCEPT ![which] = t]
    BY <1>1, <1>2 DEF ServeList
<1>4. /\ t \in Asked /\ t # None /\ t.view = r.view /\ CountFirst(t)
      /\ InSync(r) => InSync(t)
    BY <1>1, <1>2, Read DEF IInv
<1>5. \A v : Total(v)' = Total(v) /\ Rows(v)' = Rows(v)
    BY <1>1, LogKept
<1>6. Unheard' = Unheard
    BY <1>1 DEF Unheard
<1>7. \A q : InSync(q)' <=> InSync(q)
    BY <1>5 DEF InSync
<1>8. CASE which = "hard"
    <2> HIDE DEF t
    <2>1. /\ page' \in PageState /\ page'.hard = t /\ page'.view = page.view
          /\ page'.refresh = page.refresh
        BY <1>2, <1>3, <1>4, <1>8 DEF PageState
    <2>2. AsksOK'
        BY <1>1, <1>4, <1>8, <2>1 DEF AsksOK, IInv, CountFirst
    <2>3. InSync(page.hard)' <=> InSync(t)
        BY <1>5, <2>1 DEF InSync
    <2>4. InSync(page.refresh)' <=> InSync(page.refresh)
        BY <1>5, <2>1 DEF InSync
    <2>5. ReadsOK'
        BY <1>1, <1>4, <1>6, <1>8, <2>1, <2>3, <2>4 DEF ReadsOK, IInv
    <2>6. TypeOK'
        BY <1>1, <2>1 DEF IInv, TypeOK, PageState
    <2>7. QED
        BY <2>2, <2>5, <2>6 DEF IInv
<1>9. CASE which = "refresh"
    <2> HIDE DEF t
    <2>1. /\ page' \in PageState /\ page'.refresh = t /\ page'.view = page.view
          /\ page'.hard = page.hard
        BY <1>2, <1>3, <1>4, <1>9 DEF PageState
    <2>2. AsksOK'
        BY <1>1, <1>4, <1>9, <2>1 DEF AsksOK, IInv, CountFirst
    <2>3. InSync(page.refresh)' <=> InSync(t)
        BY <1>5, <2>1 DEF InSync
    <2>4. InSync(page.hard)' <=> InSync(page.hard)
        BY <1>5, <2>1 DEF InSync
    <2>5. ReadsOK'
        BY <1>1, <1>4, <1>6, <1>9, <2>1, <2>3, <2>4 DEF ReadsOK, IInv
    <2>6. TypeOK'
        BY <1>1, <2>1 DEF IInv, TypeOK, PageState
    <2>7. QED
        BY <2>2, <2>5, <2>6 DEF IInv
<1>10. QED
    BY <1>8, <1>9

\* An answer takes its place in the list, or the page is left for an earlier one.
LEMMA ArriveStep ==
    ASSUME IInv, NEW which \in {"hard", "refresh"}, ListArrives(which)
    PROVE  IInv'
<1> DEFINE r == page[which]
           p == [page EXCEPT ![which] = None]
           data == [total |-> r.total, rows |-> r.rows]
<1>1. /\ r # None /\ r.rows # None /\ Becomes(Show(p, data))
      /\ UNCHANGED <<log, ticks, act, bulk, acts, writes, faults>>
    BY DEF ListArrives
<1>2. page \in PageState /\ r \in Asked /\ r.total # None
    BY <1>1 DEF IInv, TypeOK, PageState, AsksOK, CountFirst
<1>3. data \in Data /\ data # None
    <2>1. data \in Data
        BY <1>1, <1>2 DEF Asked, Data
    <2>2. QED
        BY <2>1, NoneAssumption DEF NoneAssumption
<1>4. /\ p \in PageState /\ p.view = page.view /\ p.error = page.error /\ p.stale = page.stale
      /\ p.hard = IF which = "hard" THEN None ELSE page.hard
      /\ p.refresh = IF which = "refresh" THEN None ELSE page.refresh
    BY <1>2 DEF PageState
<1>5. CountFirst(p.hard) /\ CountFirst(p.refresh)
    BY <1>4 DEF IInv, AsksOK, CountFirst
<1>6. data.total = r.total /\ data.rows = r.rows
    OBVIOUS
<1> HIDE DEF p, data
<1>7. CASE \E v \in View : v # p.view /\ Show(p, data) = Reload(p, v)
    <2>1. page' \in PageState /\ AsksOK' /\ ReadsOK' /\ calm' \in BOOLEAN
        BY <1>1, <1>4, <1>5, <1>7, BecomesAsking
    <2>2. TypeOK'
        BY <1>1, <2>1 DEF IInv, TypeOK, PageState
    <2>3. QED
        BY <2>1, <2>2 DEF IInv
<1>8. CASE Show(p, data) = [p EXCEPT !.data = data]
    <2>1. /\ page' \in PageState /\ page'.view = page.view /\ page'.data = data
          /\ page'.hard = p.hard /\ page'.refresh = p.refresh
        BY <1>1, <1>3, <1>4, <1>8 DEF Becomes, PageState
    <2>2. (calm' => calm) /\ calm' \in BOOLEAN
        BY <1>1, <1>8, <1>4, <2>1 DEF Becomes, IInv, TypeOK
    <2>3. Unheard' = Unheard
        BY <1>1 DEF Unheard
    <2>4. \A v : Total(v)' = Total(v) /\ Rows(v)' = Rows(v)
        BY <1>1, LogKept
    <2>5. AsksOK'
        BY <1>4, <1>5, <2>1, <2>2 DEF AsksOK, IInv, CountFirst
    <2>6. ASSUME calm', ~Unheard'
          PROVE  InSync(page.hard)' /\ InSync(page.refresh)' /\ Shows'
        <3>1. InSync(page.hard) /\ InSync(page.refresh)
            BY <2>2, <2>3, <2>6 DEF IInv, ReadsOK
        <3>2. InSync(page.hard)' /\ InSync(page.refresh)'
            BY <1>4, <2>1, <2>4, <3>1 DEF InSync
        <3>3. r.view = page.view
            BY <1>1, <2>2, <2>6 DEF IInv, AsksOK
        <3>4. r.total = Total(page.view) /\ r.rows = Rows(page.view)
            BY <1>1, <1>2, <3>1, <3>3 DEF InSync
        <3>5. data = [total |-> Total(page.view), rows |-> Rows(page.view)]
            BY <3>4 DEF data
        <3>6. Shows'
            BY <2>1, <2>4, <3>5 DEF Shows
        <3>7. QED
            BY <3>2, <3>6
    <2>7. TypeOK'
        BY <1>1, <2>1, <2>2 DEF IInv, TypeOK, PageState
    <2>8. QED
        BY <2>5, <2>6, <2>7 DEF IInv, ReadsOK
<1>9. QED
    BY <1>3, <1>4, <1>7, <1>8, ShowTyped

LEMMA ListFailsStep ==
    ASSUME IInv, NEW which \in {"hard", "refresh"}, ListFails(which)
    PROVE  IInv'
<1>1. UNCHANGED <<log, ticks, act, bulk, calm, acts, writes>> /\ faults' = faults + 1
    BY DEF ListFails
<1>2. page \in PageState
    BY DEF IInv, TypeOK, PageState
<1>3. /\ page' \in PageState /\ page'.view = page.view /\ page'.data = page.data
      /\ page'.error \/ page'.stale
    BY <1>2 DEF ListFails, PageState
<1>4. page'.hard \in {None, page.hard} /\ page'.refresh \in {None, page.refresh}
    BY <1>2 DEF ListFails, PageState
<1>5. Unheard' = Unheard
    BY <1>1 DEF Unheard
<1>6. \A v : Total(v)' = Total(v) /\ Rows(v)' = Rows(v)
    BY <1>1, LogKept
<1>7. AsksOK'
    BY <1>1, <1>3, <1>4 DEF AsksOK, IInv, CountFirst
<1>8. ReadsOK'
    BY <1>1, <1>3, <1>4, <1>5, <1>6 DEF ReadsOK, IInv, InSync
<1>9. TypeOK'
    BY <1>1, <1>3 DEF IInv, TypeOK, PageState
<1>10. QED
    BY <1>7, <1>8, <1>9 DEF IInv

\* An action is heard of: the list is asked for again.
LEMMA ActDoneStep == ASSUME IInv, NEW e \in Entry, ActDone(e) PROVE IInv'
<1>1. /\ act[e] # None /\ act[e].stage = "done" /\ act' = [act EXCEPT ![e] = None]
      /\ UNCHANGED <<log, ticks, bulk, acts, writes, faults>>
    BY DEF ActDone
<1>2. /\ act' \in [Entry -> Action \cup {None}] /\ act[e].own \in BOOLEAN
      /\ \A x \in Entry \ {e} : act'[x] = act[x]
    BY <1>1 DEF IInv, TypeOK, Action
<1>3. page \in PageState
    BY DEF IInv, TypeOK, PageState
<1>4. CASE ~act[e].own
    <2>1. page' = page /\ (calm' => calm) /\ calm' \in BOOLEAN
        BY <1>1, <1>4 DEF ActDone, Becomes, IInv, TypeOK
    <2>2. ~Unheard' => ~Unheard
        BY <1>1, <1>2, <1>4 DEF Unheard
    <2>3. TypeOK'
        BY <1>1, <1>2, <2>1 DEF IInv, TypeOK
    <2>4. QED
        BY <1>1, <2>1, <2>2, <2>3, PageKept DEF IInv
<1>5. CASE act[e].own
    <2> DEFINE p == Refresh(page)
               data == Without(page.data, e)
    <2>1. Becomes(Show(p, data))
        BY <1>1, <1>5 DEF ActDone
    <2>2. /\ p \in PageState /\ p.view = page.view /\ p.hard = page.hard
          /\ p.refresh = Ask(page.view) /\ page.view \in View
        BY <1>3, RefreshTyped DEF PageState
    <2>3. data \in Data \cup {None}
        BY <1>3, WithoutTyped DEF PageState
    <2>4. CountFirst(p.refresh) /\ p.refresh # None
        BY <2>2, AskTyped DEF CountFirst
    <2> HIDE DEF p, data
    <2>5. CASE \E v \in View : v # p.view /\ Show(p, data) = Reload(p, v)
        <3>1. page' \in PageState /\ AsksOK' /\ ReadsOK' /\ calm' \in BOOLEAN
            BY <2>1, <2>2, <2>4, <2>5, BecomesAsking
        <3>2. TypeOK'
            BY <1>1, <1>2, <3>1 DEF IInv, TypeOK, PageState
        <3>3. QED
            BY <3>1, <3>2 DEF IInv
    <2>6. CASE Show(p, data) = [p EXCEPT !.data = data]
        <3>1. /\ page' \in PageState /\ page'.view = page.view
              /\ page'.hard = p.hard /\ page'.refresh = p.refresh
            BY <2>1, <2>2, <2>3, <2>6 DEF Becomes, PageState
        <3>2. calm' => page'.hard = None \/ page'.refresh = None
            BY <2>1 DEF Becomes
        <3>3. calm' \in BOOLEAN
            BY <2>1 DEF Becomes
        <3>4. AsksOK' /\ ReadsOK'
            <4>1. CountFirst(page.hard)' /\ (page'.hard # None => page'.hard.view = page'.view)
                BY <2>2, <3>1 DEF IInv, AsksOK, CountFirst
            <4>2. page'.refresh = Ask(page'.view) /\ (calm' => page'.hard = None)
                BY <2>2, <2>4, <3>1, <3>2
            <4>3. QED
                BY <3>1, <4>1, <4>2, RefreshedAnew
        <3>5. TypeOK'
            BY <1>1, <1>2, <3>1, <3>3 DEF IInv, TypeOK, PageState
        <3>6. QED
            BY <3>4, <3>5 DEF IInv
    <2>7. QED
        BY <2>2, <2>3, <2>5, <2>6, ShowTyped
<1>6. QED
    BY <1>2, <1>4, <1>5

LEMMA BulkDoneStep == ASSUME IInv, NEW s \in Slot, BulkDone(s) PROVE IInv'
<1>1. /\ bulk[s] # None /\ bulk[s].stage = "done" /\ bulk' = [bulk EXCEPT ![s] = None]
      /\ UNCHANGED <<log, act, acts, writes, faults>>
    BY DEF BulkDone
<1>2. /\ bulk' \in [Slot -> BulkAction \cup {None}] /\ bulk[s].own \in BOOLEAN
      /\ \A x \in Slot \ {s} : bulk'[x] = bulk[x]
    BY <1>1 DEF IInv, TypeOK, BulkAction
<1>3. page \in PageState
    BY DEF IInv, TypeOK, PageState
<1>4. ticks' \in [ids : SUBSET Entry, last : Entry \cup {None}, ask : {"approve", "reject", None}]
    BY DEF BulkDone, NoTicks, IInv, TypeOK
<1>5. CASE ~bulk[s].own
    <2>1. page' = page /\ (calm' => calm) /\ calm' \in BOOLEAN
        BY <1>1, <1>5 DEF BulkDone, Becomes, IInv, TypeOK
    <2>2. ~Unheard' => ~Unheard
        BY <1>1, <1>2, <1>5 DEF Unheard
    <2>3. TypeOK'
        BY <1>1, <1>2, <1>4, <2>1 DEF IInv, TypeOK
    <2>4. QED
        BY <1>1, <2>1, <2>2, <2>3, PageKept DEF IInv
<1>6. CASE bulk[s].own
    <2>1. Becomes(Refresh(page))
        BY <1>1, <1>6 DEF BulkDone
    <2>2. page' = Refresh(page)
        BY <2>1 DEF Becomes
    <2>3. /\ page' \in PageState /\ page'.view = page.view /\ page'.hard = page.hard
          /\ page'.refresh = Ask(page.view) /\ page.view \in View
        BY <1>3, <2>2, RefreshTyped DEF PageState
    <2>4. page'.refresh # None
        BY <2>3, AskTyped
    <2>5. (calm' => page'.hard = None \/ page'.refresh = None) /\ calm' \in BOOLEAN
        BY <2>1, <2>2 DEF Becomes
    <2>6. AsksOK' /\ ReadsOK'
        <3>1. CountFirst(page.hard)' /\ (page'.hard # None => page'.hard.view = page'.view)
            BY <2>3 DEF IInv, AsksOK, CountFirst
        <3>2. page'.refresh = Ask(page'.view) /\ (calm' => page'.hard = None)
            BY <2>3, <2>4, <2>5
        <3>3. QED
            BY <2>3, <3>1, <3>2, RefreshedAnew
    <2>7. TypeOK'
        BY <1>1, <1>2, <1>4, <2>3, <2>5 DEF IInv, TypeOK, PageState
    <2>8. QED
        BY <2>6, <2>7 DEF IInv
<1>7. QED
    BY <1>2, <1>5, <1>6

-----------------------------------------------------------------------------
(***************************************************************************)
(* The theorems.                                                           *)
(***************************************************************************)
LEMMA NextKeeps == IInv /\ [Next]_vars => IInv'
<1> SUFFICES ASSUME IInv, [Next]_vars
             PROVE  IInv'
    OBVIOUS
<1>1. CASE UNCHANGED vars
    BY <1>1, Stutter
<1>2. CASE \/ \E status \in Status \cup {"all"}, op \in {"all", "DELETE"} : SetFilter(status, op)
           \/ \E n \in 1 .. Cardinality(Entry) : SetPage(n)
    BY <1>2, FilterStep
<1>3. CASE Reopen
    BY <1>3, ReopenStep
<1>4. CASE \/ SelectAll \/ CloseBulkAction
           \/ \E action \in {"approve", "reject"} : OpenBulkAction(action)
           \/ \E e \in Entry : Toggle(e) \/ ShiftToggle(e)
    BY <1>4, TicksStep
<1>5. CASE \E e \in Entry : \E path \in {"acknowledge", "undo", "permanent"} : HandleAction(e, path)
    BY <1>5, HandleStep
<1>6. CASE \E e \in Entry : ServeAct(e)
    BY <1>6, ServeActStep
<1>7. CASE \E e \in Entry : ActDone(e)
    BY <1>7, ActDoneStep
<1>8. CASE \E e \in Entry : ActFails(e)
    BY <1>8, ActFailsStep
<1>9. CASE \E e \in Entry : ClearRowError(e)
    BY <1>9, ClearStep
<1>10. CASE \E e \in Entry : OtherWrites(e)
    BY <1>10, OtherStep
<1>11. CASE \E s \in Slot : ConfirmBulk(s)
    BY <1>11, ConfirmStep
<1>12. CASE \E s \in Slot : ServeBulk(s)
    BY <1>12, ServeBulkStep
<1>13. CASE \E s \in Slot : BulkDone(s)
    BY <1>13, BulkDoneStep
<1>14. CASE \E s \in Slot : BulkFails(s)
    BY <1>14, BulkFailsStep
<1>15. CASE \E which \in {"hard", "refresh"} : ServeList(which)
    BY <1>15, ServeListStep
<1>16. CASE \E which \in {"hard", "refresh"} : ListArrives(which)
    BY <1>16, ArriveStep
<1>17. CASE \E which \in {"hard", "refresh"} : ListFails(which)
    BY <1>17, ListFailsStep
<1>18. CASE Lose
    BY <1>18, LoseStep
<1>19. QED
    BY <1>1, <1>2, <1>3, <1>4, <1>5, <1>6, <1>7, <1>8, <1>9, <1>10, <1>11, <1>12, <1>13,
       <1>14, <1>15, <1>16, <1>17, <1>18 DEF Next

\* The invariant holds in every reachable state, for any number of entries, pages and
\* requests in flight.
THEOREM SoundAlways == Spec => []IInv
<1>1. QED
    BY InitHolds, NextKeeps, PTL DEF Spec

\* Every variable of the page keeps its type; in particular the page never leaves the
\* pages there are.
THEOREM TypeCorrect == Spec => []TypeOK
<1>1. IInv => TypeOK
    BY DEF IInv
<1>2. QED
    BY <1>1, SoundAlways, PTL

\* A page at rest shows what the backend answers to its filters and page, however its
\* actions, reloads and refreshes overlapped.
THEOREM ListIsShown == Spec => []ListShown
<1>1. ASSUME IInv, Rest, calm
      PROVE  page.data = [total |-> Total(page.view), rows |-> Rows(page.view)]
    <2>1. (\A e \in Entry : act[e] = None) /\ (\A s \in Slot : bulk[s] = None)
        BY <1>1 DEF Rest
    <2>a. ~Unheard
        BY <2>1 DEF Unheard
    <2>2. QED
        BY <1>1, <2>a DEF IInv, ReadsOK, Rest, Shows
<1>2. IInv => ListShown
    BY <1>1 DEF ListShown
<1>3. QED
    BY <1>2, SoundAlways, PTL

-----------------------------------------------------------------------------
(***************************************************************************)
(* The entries as AuditLifecycle sees them.                                *)
(***************************************************************************)
Written == {e \in Entry : log[e] # "none"}
outcomes == [e \in Written |-> log[e]]

Lifecycle == INSTANCE AuditLifecycle WITH status <- outcomes

\* A request that settles some of the entries, all of them pending.
LEMMA Settles ==
    ASSUME TypeOK, NEW S \in SUBSET Entry, NEW out \in {"acknowledged", "undone"}, S # {},
           \A e \in S : log[e] = "pending",
           log' = [e \in Entry |-> IF e \in S THEN out ELSE log[e]]
    PROVE  Lifecycle!Next
<1>1. S \in SUBSET DOMAIN outcomes /\ \A e \in S : outcomes[e] = "pending"
    BY DEF outcomes, Written
<1>2. Written' = Written
    BY DEF Written
<1>3. outcomes' = [e \in DOMAIN outcomes |-> IF e \in S THEN out ELSE outcomes[e]]
    BY <1>2 DEF outcomes, Written
<1>4. Lifecycle!Settle(S, out)
    BY <1>1, <1>3 DEF Lifecycle!Settle
<1>5. QED
    BY <1>1, <1>4 DEF Lifecycle!Next

\* What the backend does with a single action and with what others do.
LEMMA SettlesOne ==
    ASSUME TypeOK, NEW e \in Entry, NEW out \in {"acknowledged", "undone"},
           log[e] = "pending", log' = [log EXCEPT ![e] = out]
    PROVE  Lifecycle!Next
<1>1. log' = [x \in Entry |-> IF x \in {e} THEN out ELSE log[x]]
    BY DEF TypeOK
<1>2. QED
    BY <1>1, Settles

LEMMA Appends ==
    ASSUME TypeOK, NEW e \in Entry, log[e] = "none", log' = [log EXCEPT ![e] = "pending"]
    PROVE  Lifecycle!Next
<1>1. \A x \in Entry : log'[x] = IF x = e THEN "pending" ELSE log[x]
    BY DEF TypeOK
<1>2. Written' = Written \cup {e} /\ e \notin Written
    BY <1>1 DEF Written
<1>3. outcomes' = [x \in Written \cup {e} |-> IF x = e THEN "pending" ELSE outcomes[x]]
    BY <1>1, <1>2 DEF outcomes, Written
<1>4. DOMAIN outcomes = Written /\ DOMAIN outcomes' = Written \cup {e}
    BY <1>3 DEF outcomes
<1>5. Lifecycle!AppendEntry
    BY <1>2, <1>3, <1>4 DEF Lifecycle!AppendEntry
<1>6. QED
    BY <1>5 DEF Lifecycle!Next

\* The backend that the page talks to implements the same abstract log as the handlers
\* of ChangeReview do: whatever single and bulk actions overlap, with those of others,
\* an entry is settled once and for all.
THEOREM LogIsAudited == Spec => Lifecycle!Spec
<1>1. Init => Lifecycle!Init
    BY DEF Init, Lifecycle!Init, outcomes, Written
<1>2. ASSUME TypeOK, [Next]_vars PROVE [Lifecycle!Next]_outcomes
    <2>1. CASE log' = log
        BY <2>1 DEF outcomes, Written
    <2>2. ASSUME NEW e \in Entry, ServeAct(e) PROVE [Lifecycle!Next]_outcomes
        <3>1. CASE log[e] = "pending"
            BY <1>2, <2>2, <3>1, SettlesOne DEF ServeAct, Outcome
        <3>2. CASE log[e] # "pending"
            BY <2>1, <2>2, <3>2 DEF ServeAct
        <3>3. QED
            BY <3>1, <3>2
    <2>3. ASSUME NEW s \in Slot, ServeBulk(s) PROVE [Lifecycle!Next]_outcomes
        <3>1. bulk[s] \in BulkAction
            BY <1>2, <2>3 DEF TypeOK, ServeBulk
        <3>2. bulk[s].ids \in SUBSET Entry /\ bulk[s].ids # {}
            BY <3>1 DEF BulkAction
        <3>3. CASE \A e \in bulk[s].ids : log[e] = "pending"
            BY <1>2, <2>3, <3>2, <3>3, Settles DEF ServeBulk, Outcome
        <3>4. CASE ~\A e \in bulk[s].ids : log[e] = "pending"
            BY <2>1, <2>3, <3>4 DEF ServeBulk
        <3>5. QED
            BY <3>3, <3>4
    <2>4. ASSUME NEW e \in Entry, OtherWrites(e) PROVE [Lifecycle!Next]_outcomes
        BY <1>2, <2>4, SettlesOne, Appends DEF OtherWrites
    <2>5. \/ log' = log
          \/ \E e \in Entry : ServeAct(e) \/ OtherWrites(e)
          \/ \E s \in Slot : ServeBulk(s)
        BY <1>2 DEF Next, vars, SetFilter, SetPage, Reopen, Toggle, ShiftToggle, Tick,
           ActDone, ActFails, ClearRowError, HandleAction, SelectAll, CloseBulkAction,
           OpenBulkAction, ConfirmBulk, BulkDone, BulkFails, ServeList, ListArrives,
           ListFails, Lose
    <2>6. QED
        BY <2>1, <2>2, <2>3, <2>4, <2>5
<1>3. QED
    BY <1>1, <1>2, TypeCorrect, PTL DEF Spec, Lifecycle!Spec

=============================================================================

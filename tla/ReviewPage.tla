----------------------------- MODULE ReviewPage -----------------------------
(***************************************************************************)
(* The change review page in an administrator's browser (page.tsx,         *)
(* useChangeReview, useRowActions, useChangeReviewBulk): one page of the   *)
(* audit log under its filters, the actions on single entries and on those *)
(* that are ticked, the reload when filter or page changes and the refresh *)
(* in the background after an action, while others settle and append       *)
(* entries.                                                                *)
(*                                                                         *)
(* Entries are numbers in the order of performed_at; the newest is listed  *)
(* first.  The table filter does what the operation filter does and is     *)
(* left out, and so are the dialog with an entry's data and the banner of  *)
(* a bulk action that failed.  What a click does between two renders, with *)
(* the effects that follow, is one step.                                   *)
(***************************************************************************)
EXTENDS Integers, FiniteSets

CONSTANTS
    Entry, Deletes,   \* the entries; those of a DELETE
    Later,            \* those that others append
    PageSize,         \* PAGE_SIZE (50 in the code)
    None,
    \* Bounds: acts of the user, bulk requests in flight at once, what others
    \* write, requests or answers lost.
    MaxActs, Slot, MaxWrites, MaxFaults

ASSUME PageAssumption ==
    /\ Entry \subseteq Nat /\ IsFiniteSet(Entry) /\ Deletes \subseteq Entry /\ Later \subseteq Entry
    /\ PageSize \in Nat \ {0} /\ {MaxActs, MaxWrites, MaxFaults} \subseteq Nat

VARIABLES
    log,      \* the status of each entry, "none" before it is written
    page,     \* what the page keeps: its controls, its list, its requests for it
    ticks,    \* selectedIds, the last box clicked, and the bulk action asked for
    act,      \* the request about each entry in flight
    bulk,     \* bulk requests in flight
    calm,     \* history: since the last reload nobody else settled or appended an
              \* entry, no answer was lost, and no refresh met a reload in flight
    acts, writes, faults

vars == <<log, page, ticks, act, bulk, calm, acts, writes, faults>>

Status == {"pending", "acknowledged", "undone"}
View == [status : Status \cup {"all"}, op : {"all", "DELETE"}, page : 1 .. Cardinality(Entry) + 1]
RowsOf == UNION {[es -> Status] : es \in SUBSET Entry}
Data == [total : Int, rows : RowsOf]
Asked == [view : View, total : Nat \cup {None}, rows : RowsOf \cup {None}]
Stage == {"sent", "done", "failed"}
Action == [path : {"acknowledge", "undo", "permanent"}, stage : Stage, own : BOOLEAN]
BulkAction == [ids : (SUBSET Entry) \ {{}}, path : {"approve", "reject"}, stage : Stage,
               own : BOOLEAN]

\* None is none of the values it stands beside.
ASSUME NoneAssumption ==
    /\ None \notin Entry /\ None \notin Nat /\ None \notin RowsOf /\ None \notin Data
    /\ None \notin Asked /\ None \notin Action /\ None \notin BulkAction

Has(e, v) == /\ log[e] # "none"
             /\ v.status \in {"all", log[e]}
             /\ v.op = "DELETE" => e \in Deletes

\* list_change_review: the number of entries, then one page of them, newest first.
Total(v) == Cardinality({e \in Entry : Has(e, v)})
Rows(v) ==
    LET newer(e) == Cardinality({x \in Entry : Has(x, v) /\ x > e})
    IN  [e \in {x \in Entry : Has(x, v) /\ newer(x) \div PageSize = v.page - 1} |-> log[e]]

Ask(v) == [view |-> v, total |-> None, rows |-> None]

\* The effect of a change of filter or page: it aborts an earlier reload, and no
\* refresh.
Reload(p, v) ==
    [p EXCEPT !.view = v, !.data = None, !.error = FALSE, !.stale = FALSE, !.hard = Ask(v)]

\* Mutant: the first page is left too.
ShowAnyPage(p, data) ==
    IF data # None /\ DOMAIN data.rows = {}
    THEN Reload(p, [p.view EXCEPT !.page = @ - 1])
    ELSE [p EXCEPT !.data = data]

\* setData, and the effect that leaves a page without entries: that effect runs
\* again for the page it went to, before the reload of that page clears the list.
Show(p, data) ==
    LET at == p.view.page
        back == IF at > 2 THEN at - 2 ELSE 1
    IN  IF data # None /\ DOMAIN data.rows = {} /\ at > 1
        THEN Reload(p, [p.view EXCEPT !.page = back])
        ELSE [p EXCEPT !.data = data]

\* Mutant: a refresh waits for the one already in flight.
RefreshOnce(p) ==
    [p EXCEPT !.refresh = IF @ = None THEN Ask(p.view) ELSE @, !.stale = FALSE]

\* triggerRefresh: it aborts an earlier refresh, and no reload.
Refresh(p) == [p EXCEPT !.refresh = Ask(p.view), !.stale = FALSE]

\* removeEntry
Without(data, e) ==
    IF data = None \/ e \notin DOMAIN data.rows THEN data
    ELSE [total |-> data.total - 1, rows |-> [x \in DOMAIN data.rows \ {e} |-> data.rows[x]]]

Fresh ==
    LET v == [status |-> "pending", op |-> "all", page |-> 1]
    IN  [view |-> v, data |-> None, error |-> FALSE, stale |-> FALSE, hard |-> Ask(v),
         refresh |-> None, failed |-> {}]
NoTicks == [ids |-> {}, last |-> None, ask |-> None]

Init ==
    /\ log = [e \in Entry |-> IF e \in Later THEN "none" ELSE "pending"]
    /\ page = Fresh /\ ticks = NoTicks
    /\ act = [e \in Entry |-> None] /\ bulk = [s \in Slot |-> None]
    /\ calm = TRUE /\ acts = 0 /\ writes = 0 /\ faults = 0

Pages(p) == IF p.data = None \/ p.data.total <= 0 THEN 1
            ELSE (p.data.total + PageSize - 1) \div PageSize
Listed == IF page.data = None THEN {} ELSE DOMAIN page.data.rows

User == ~page.error /\ acts < MaxActs /\ acts' = acts + 1
Becomes(p) ==
    /\ page' = p
    /\ calm' = /\ p.hard = None \/ p.refresh = None
               /\ calm \/ p.view # page.view

-----------------------------------------------------------------------------
(***************************************************************************)
(* The controls.                                                           *)
(***************************************************************************)
SetFilter(status, op) ==
    /\ User /\ <<status, op>> # <<page.view.status, page.view.op>>
    /\ Becomes(Reload(page, [status |-> status, op |-> op, page |-> 1]))
    /\ UNCHANGED <<log, ticks, act, bulk, writes, faults>>

\* Previous and Next
SetPage(n) ==
    /\ User /\ \/ n = page.view.page - 1
               \/ n = page.view.page + 1 /\ n <= Pages(page)
    /\ Becomes(Reload(page, [page.view EXCEPT !.page = n]))
    /\ UNCHANGED <<log, ticks, act, bulk, writes, faults>>

\* The page is left and opened again: its lists are aborted, what it sent to
\* settle entries goes on unheard.
Reopen ==
    /\ acts < MaxActs /\ acts' = acts + 1
    /\ page' = Fresh /\ ticks' = NoTicks /\ calm' = TRUE
    /\ act' = [e \in Entry |-> IF act[e] = None THEN None ELSE [act[e] EXCEPT !.own = FALSE]]
    /\ bulk' = [s \in Slot |-> IF bulk[s] = None THEN None ELSE [bulk[s] EXCEPT !.own = FALSE]]
    /\ UNCHANGED <<log, writes, faults>>

\* A second click while the first is in flight is disabled, and so it is as long
\* as the cell shows an error.
HandleAction(e, path) ==
    /\ User /\ e \in Listed /\ page.data.rows[e] = "pending"
    /\ act[e] = None /\ e \notin page.failed
    /\ path \in {"undo", IF e \in Deletes THEN "permanent" ELSE "acknowledge"}
    /\ act' = [act EXCEPT ![e] = [path |-> path, stage |-> "sent", own |-> TRUE]]
    /\ UNCHANGED <<log, page, ticks, bulk, calm, writes, faults>>

Tick(ids, last) ==
    /\ User /\ ticks' = [ticks EXCEPT !.ids = ids, !.last = last]
    /\ UNCHANGED <<log, page, act, bulk, calm, writes, faults>>

Flip(e) == IF e \in ticks.ids THEN ticks.ids \ {e} ELSE ticks.ids \cup {e}
Toggle(e) == e \in Listed /\ Tick(Flip(e), e)
ShiftToggle(e) ==
    /\ e \in Listed
    /\ Tick(IF ticks.last \in Listed
            THEN ticks.ids \cup {x \in Listed : \/ e <= x /\ x <= ticks.last
                                                \/ ticks.last <= x /\ x <= e}
            ELSE Flip(e), e)
SelectAll == Listed # {} /\ Tick(IF Listed \subseteq ticks.ids THEN {} ELSE Listed, ticks.last)

OpenBulkAction(action) ==
    /\ ~page.error /\ ticks.ids # {} /\ ticks.ask # action
    /\ ticks' = [ticks EXCEPT !.ask = action]
    /\ UNCHANGED <<log, page, act, bulk, calm, acts, writes, faults>>
CloseBulkAction ==
    /\ ~page.error /\ ticks.ids # {} /\ ticks.ask # None
    /\ ticks' = [ticks EXCEPT !.ask = None]
    /\ UNCHANGED <<log, page, act, bulk, calm, acts, writes, faults>>

\* The dialog stays until the answer: it may be confirmed again.
ConfirmBulk(s) ==
    /\ User /\ ticks.ids # {} /\ ticks.ask # None /\ bulk[s] = None
    /\ bulk' = [bulk EXCEPT ![s] = [ids |-> ticks.ids, path |-> ticks.ask,
                                    stage |-> "sent", own |-> TRUE]]
    /\ UNCHANGED <<log, page, ticks, act, calm, writes, faults>>

-----------------------------------------------------------------------------
(***************************************************************************)
(* The server.                                                             *)
(***************************************************************************)
Outcome(path) == IF path \in {"acknowledge", "approve"} THEN "acknowledged" ELSE "undone"

ServeAct(e) ==
    /\ act[e] # None /\ act[e].stage = "sent"
    /\ IF log[e] = "pending"
       THEN /\ log' = [log EXCEPT ![e] = Outcome(act[e].path)]
            /\ act' = [act EXCEPT ![e].stage = "done"]
       ELSE act' = [act EXCEPT ![e].stage = "failed"] /\ UNCHANGED log
    /\ calm' = (calm /\ act[e].own)
    /\ UNCHANGED <<page, ticks, bulk, acts, writes, faults>>

\* All of them or, when one is settled already, none.
ServeBulk(s) ==
    /\ bulk[s] # None /\ bulk[s].stage = "sent"
    /\ IF \A e \in bulk[s].ids : log[e] = "pending"
       THEN /\ log' = [e \in Entry |-> IF e \in bulk[s].ids THEN Outcome(bulk[s].path) ELSE log[e]]
            /\ bulk' = [bulk EXCEPT ![s].stage = "done"]
       ELSE bulk' = [bulk EXCEPT ![s].stage = "failed"] /\ UNCHANGED log
    /\ calm' = (calm /\ bulk[s].own)
    /\ UNCHANGED <<page, ticks, act, acts, writes, faults>>

\* A request refused or lost, or its answer.
Lose ==
    /\ faults < MaxFaults /\ faults' = faults + 1
    /\ calm' = FALSE
    /\ \/ \E e \in Entry : /\ act[e] # None /\ act[e].stage # "failed"
                           /\ act' = [act EXCEPT ![e].stage = "failed"] /\ UNCHANGED bulk
       \/ \E s \in Slot : /\ bulk[s] # None /\ bulk[s].stage # "failed"
                          /\ bulk' = [bulk EXCEPT ![s].stage = "failed"] /\ UNCHANGED act
    /\ UNCHANGED <<log, page, ticks, acts, writes>>

\* Another administrator settles an entry, or a change of the catalog appends one.
OtherWrites(e) ==
    /\ writes < MaxWrites /\ writes' = writes + 1
    /\ calm' = FALSE
    /\ \/ log[e] = "pending" /\ \E o \in {"acknowledged", "undone"} : log' = [log EXCEPT ![e] = o]
       \/ log[e] = "none" /\ log' = [log EXCEPT ![e] = "pending"]
    /\ UNCHANGED <<page, ticks, act, bulk, acts, faults>>

-----------------------------------------------------------------------------
(***************************************************************************)
(* The answers.                                                            *)
(***************************************************************************)
\* Two statements: the count, and then the page.
ServeList(which) ==
    /\ page[which] # None /\ page[which].rows = None
    /\ LET v == page[which].view
       IN page' = IF page[which].total = None THEN [page EXCEPT ![which].total = Total(v)]
                  ELSE [page EXCEPT ![which].rows = Rows(v)]
    /\ UNCHANGED <<log, ticks, act, bulk, calm, acts, writes, faults>>

ListArrives(which) ==
    /\ page[which] # None /\ page[which].rows # None
    /\ Becomes(Show([page EXCEPT ![which] = None],
                    [total |-> page[which].total, rows |-> page[which].rows]))
    /\ UNCHANGED <<log, ticks, act, bulk, acts, writes, faults>>

\* A failed reload takes the place of the page, controls included; a failed
\* refresh leaves the list.
ListFails(which) ==
    /\ page[which] # None /\ faults < MaxFaults /\ faults' = faults + 1
    /\ page' = IF which = "hard" THEN [page EXCEPT !.hard = None, !.error = TRUE]
               ELSE [page EXCEPT !.refresh = None, !.stale = TRUE]
    /\ UNCHANGED <<log, ticks, act, bulk, calm, acts, writes>>

\* applyRemoval, with the refresh of the page as it was.
ActDone(e) ==
    /\ act[e] # None /\ act[e].stage = "done"
    /\ act' = [act EXCEPT ![e] = None]
    /\ Becomes(IF act[e].own THEN Show(Refresh(page), Without(page.data, e)) ELSE page)
    /\ UNCHANGED <<log, ticks, bulk, acts, writes, faults>>

ActFails(e) ==
    /\ act[e] # None /\ act[e].stage = "failed"
    /\ act' = [act EXCEPT ![e] = None]
    /\ page' = IF act[e].own THEN [page EXCEPT !.failed = @ \cup {e}] ELSE page
    /\ UNCHANGED <<log, ticks, bulk, calm, acts, writes, faults>>

\* After five seconds.
ClearRowError(e) ==
    /\ e \in page.failed
    /\ page' = [page EXCEPT !.failed = @ \ {e}]
    /\ UNCHANGED <<log, ticks, act, bulk, calm, acts, writes, faults>>

BulkDone(s) ==
    /\ bulk[s] # None /\ bulk[s].stage = "done"
    /\ bulk' = [bulk EXCEPT ![s] = None]
    /\ Becomes(IF bulk[s].own THEN Refresh(page) ELSE page)
    /\ ticks' = IF bulk[s].own THEN NoTicks ELSE ticks
    /\ UNCHANGED <<log, act, acts, writes, faults>>

BulkFails(s) ==
    /\ bulk[s] # None /\ bulk[s].stage = "failed"
    /\ bulk' = [bulk EXCEPT ![s] = None]
    /\ UNCHANGED <<log, page, ticks, act, calm, acts, writes, faults>>

Next ==
    \/ \E status \in Status \cup {"all"}, op \in {"all", "DELETE"} : SetFilter(status, op)
    \/ (\E n \in 1 .. Cardinality(Entry) : SetPage(n)) \/ Reopen
    \/ \E e \in Entry : \/ Toggle(e) \/ ShiftToggle(e) \/ ServeAct(e) \/ ActDone(e) \/ ActFails(e)
                        \/ ClearRowError(e) \/ OtherWrites(e)
                        \/ \E path \in {"acknowledge", "undo", "permanent"} : HandleAction(e, path)
    \/ SelectAll \/ CloseBulkAction \/ (\E action \in {"approve", "reject"} : OpenBulkAction(action))
    \/ \E s \in Slot : ConfirmBulk(s) \/ ServeBulk(s) \/ BulkDone(s) \/ BulkFails(s)
    \/ \E which \in {"hard", "refresh"} : ServeList(which) \/ ListArrives(which) \/ ListFails(which)
    \/ Lose

Spec == Init /\ [][Next]_vars

-----------------------------------------------------------------------------
(***************************************************************************)
(* Properties.                                                             *)
(***************************************************************************)
\* Every variable keeps its type.
TypeOK ==
    /\ log \in [Entry -> Status \cup {"none"}]
    /\ page \in [view : View, data : Data \cup {None}, error : BOOLEAN, stale : BOOLEAN,
                 hard : Asked \cup {None}, refresh : Asked \cup {None}, failed : SUBSET Entry]
    /\ ticks \in [ids : SUBSET Entry, last : Entry \cup {None},
                  ask : {"approve", "reject", None}]
    /\ act \in [Entry -> Action \cup {None}]
    /\ bulk \in [Slot -> BulkAction \cup {None}]
    /\ calm \in BOOLEAN /\ {acts, writes, faults} \subseteq Nat

Rest == /\ page.hard = None /\ page.refresh = None
        /\ page.data # None /\ ~page.error /\ ~page.stale
        /\ \A e \in Entry : act[e] = None
        /\ \A s \in Slot : bulk[s] = None

\* A page at rest shows what the backend answers to its filters and page, after
\* any actions on single and ticked entries, however they overlapped; save what
\* others did and what an answer lost did.  A refresh and a reload in flight at
\* once are excepted: neither aborts the other, and the older answer may win.
ListShown == Rest /\ calm => page.data = [total |-> Total(page.view), rows |-> Rows(page.view)]
=============================================================================

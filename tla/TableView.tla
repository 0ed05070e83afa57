----------------------------- MODULE TableView -----------------------------
(***************************************************************************)
(* A paged table as its user filters, sorts and scrolls it (TablePage,     *)
(* useSessionState, useTableData, DataTable, FilterCell): the controls,    *)
(* the debounced filter, the view kept in localStorage for each user, and  *)
(* the pages react-query keeps under each query key, while other users add *)
(* and delete rows.                                                        *)
(*                                                                         *)
(* One column is filtered.  Rows are numbers; the sort field "key" orders  *)
(* them, "tie" has one value for all.  Hit are the rows a value typed into *)
(* the filter matches.  "calm" marks pages since whose first no other user *)
(* wrote.                                                                  *)
(***************************************************************************)
EXTENDS TableColumns, Integers, SequencesExt

CONSTANTS
    Row, Absent,  \* the table's rows; those not there at the start
    Hit,
    PageSize,     \* the limit of a page (100 in the code)
    User, First,  \* the users, and the one at the start
    None,
    MaxActs, MaxWrites, MaxFaults  \* bounds: user acts, others' writes, failures

ASSUME ViewAssumption ==
    /\ Row \subseteq Nat /\ IsFiniteSet(Row) /\ Absent \cup Hit \subseteq Row /\ First \in User
    /\ PageSize \in Nat \ {0} /\ {MaxActs, MaxWrites, MaxFaults} \subseteq Nat

VARIABLES
    column,  \* what the table can do with the column filtered
    live,    \* the rows on the server
    user,
    entry,   \* the filter as it is typed; None when there is none
    active,  \* the filter in the query
    timer,   \* the debounce timer runs
    sorting, vis,  \* the sort levels; the column's visibility
    store,   \* localStorage, per user; None when nothing is kept
    cache,   \* per query key: its pages and total
    flight,  \* per query key: the request under way
    failed,  \* the last request of the query shown failed
    acts, writes, faults

tableVars == <<column, live, user, entry, active, timer, sorting, vis, store, cache, flight,
          failed, acts, writes, faults>>
controls == <<entry, active, timer, sorting, vis>>
bounds == <<acts, writes, faults>>

-----------------------------------------------------------------------------
Fields == {"key", "tie"}
Level == [id : Fields, desc : BOOLEAN]
MaxLevels == 3
Operator == {Default} \cup ValueFree \cup DateOps
Value == {"none", "short", "long", "date"}
FilterEntry == [op : Operator, value : Value]
View == [sort : UNION {[1 .. n -> Level] : n \in 0 .. MaxLevels}, filter : FilterEntry \cup {None}]
Session == [filter : FilterEntry \cup {None}, sort : UNION {[1 .. n -> Level] : n \in 0 .. MaxLevels},
            vis : {"unset", "shown", "hidden"}]
DefaultSort == <<[id |-> "key", desc |-> FALSE]>>
DefaultSession == [filter |-> None, sort |-> DefaultSort, vis |-> "unset"]

\* None is none of the values it stands beside.
ASSUME NoneAssumption == None \notin Nat \cup Session

\* isEntryActive: two characters or more, unless the operator takes a date or none.
Active(e) ==
    IF e = None THEN None
    ELSE IF e.op \in ValueFree \/ e.value = "long" \/ (e.op \in DateOps /\ e.value # "none") THEN e
    ELSE None

\* Mutant: the query key leaves the sorting out.
KeyUnsorted(f, s) == [sort |-> DefaultSort, filter |-> f]

Key(f, s) == [sort |-> s, filter |-> f]
Current == Key(active, sorting)

\* Rows selected by a filter, and in the order of the sort levels: the id breaks
\* ties in the direction of the last one.
Selects(f, rows) ==
    IF f = None THEN rows ELSE IF f.op = "is_empty" THEN rows \ Hit ELSE rows \cap Hit
Descending(s) ==
    IF \E i \in DOMAIN s : s[i].id = "key" THEN \E i \in DOMAIN s : s[i].id = "key" /\ s[i].desc
    ELSE s # <<>> /\ s[Len(s)].desc
Sorted(s, rows) ==
    LET upTo(r) == {x \in rows : IF Descending(s) THEN x >= r ELSE x <= r}
    IN  [i \in 1 .. Cardinality(rows) |-> CHOOSE r \in rows : Cardinality(upTo(r)) = i]

\* What the controls ask for, and what the service answers.
Wanted(v) == Sorted(v.sort, Selects(v.filter, live))
Answer(v) ==
    LET heard == v.filter # None /\ v.filter.op \in column.heeded
    IN Sorted(IF column.sorted THEN v.sort ELSE DefaultSort,
              Selects(IF heard THEN v.filter ELSE None, live))

\* A text left under a date operator is no date to the database.
Refused(v) == v.filter # None /\ v.filter.op \in DateOps \cap column.heeded /\ v.filter.value # "date"

\* The pages loaded: how many, and their rows one after the other.
Pages == [count : Nat, rows : Seq(Row)]
NoPages == [count |-> 0, rows |-> <<>>]
PageAt(rows, offset) ==
    SubSeq(rows, offset + 1, IF offset + PageSize < Len(rows) THEN offset + PageSize ELSE Len(rows))
WithPage(pages, rows) ==
    [count |-> pages.count + 1, rows |-> pages.rows \o PageAt(rows, Len(pages.rows))]

\* getNextPageParam: the rows loaded, as long as there are more.
NextOffset(pages, total) == IF Len(pages.rows) < total THEN Len(pages.rows) ELSE None

Put(f, k, x) == [j \in DOMAIN f \cup {k} |-> IF j = k THEN x ELSE f[j]]
Loading(n) == [want |-> n, got |-> NoPages, calm |-> TRUE]

\* Mutant: no query begins while another is under way.
BeginAlone(f, v) == IF f # <<>> \/ v \in DOMAIN cache THEN f ELSE Put(f, v, Loading(1))

Begin(f, v) == IF v \in DOMAIN cache \cup DOMAIN f THEN f
               ELSE Put(f, v, Loading(1))
Without(f, v) == [j \in DOMAIN f \ {v} |-> f[j]]

TableInit ==
    /\ column \in Columns
    /\ live = Row \ Absent
    /\ user = First
    /\ entry = None /\ active = None /\ timer = TRUE
    /\ sorting = DefaultSort /\ vis = "unset"
    /\ store = [u \in User |-> None]
    /\ cache = <<>> /\ flight = Put(<<>>, Key(None, DefaultSort), Loading(1))
    /\ failed = FALSE
    /\ acts = 0 /\ writes = 0 /\ faults = 0

-----------------------------------------------------------------------------
(***************************************************************************)
(* The controls.  Each change is persisted by an effect of the same render.*)
(***************************************************************************)
Act == acts < MaxActs /\ acts' = acts + 1

\* Mutant: a view back at its defaults stays in localStorage.
PersistKeeps(session) ==
    store' = IF session = DefaultSession THEN store ELSE [store EXCEPT ![user] = session]

\* The persist effect: a view that is all default is removed.
Persist(session) ==
    store' = [store EXCEPT ![user] = IF session = DefaultSession THEN None ELSE session]

\* The controls become these, the timer runs anew when the filter was touched, and
\* a query that is not cached is asked.
Change(e, a, t, s, w) ==
    /\ Act
    /\ entry' = e /\ active' = a /\ timer' = t /\ sorting' = s /\ vis' = w
    /\ Persist([filter |-> e, sort |-> s, vis |-> w])
    /\ flight' = Begin(flight, Key(a, s))
    /\ failed' = (failed /\ Key(a, s) = Current)
    /\ UNCHANGED <<column, live, user, cache, writes, faults>>

SetEntry(e) == Change(e, active, TRUE, sorting, vis)

\* The value of the filter; emptied, the entry goes, and its operator with it.
TypeValue(v) ==
    /\ LET cell == IF entry = None THEN [op |-> Default, value |-> "none"] ELSE entry
       IN /\ cell.op \notin ValueFree /\ cell.value # v
          /\ v # "none" => (v = "date" <=> cell.op \in DateOps)
          /\ SetEntry(IF v = "none" THEN None ELSE [cell EXCEPT !.value = v])

\* An operator offered; one that takes no value drops it.
SelectOperator(op) ==
    /\ op \in column.offered
    /\ SetEntry([op |-> op, value |-> IF op \in ValueFree \/ entry = None THEN "none" ELSE entry.value])

ClearFilters == entry # None /\ Change(None, None, TRUE, sorting, vis)

Sort(s) == Change(entry, active, timer, s, vis)

SortAdd(id) ==
    /\ Len(sorting) < MaxLevels /\ \A i \in DOMAIN sorting : sorting[i].id # id
    /\ Sort(Append(sorting, [id |-> id, desc |-> FALSE]))
SortRemove(i) == Sort(RemoveAt(sorting, i))
SortToggle(i) == Sort([sorting EXCEPT ![i].desc = ~@])

ToggleColumn == Change(entry, active, timer, sorting, IF vis = "hidden" THEN "shown" ELSE "hidden")

ResetView ==
    /\ [filter |-> entry, sort |-> sorting, vis |-> vis] # DefaultSession
    /\ Change(None, None, TRUE, DefaultSort, "unset")

Debounce ==
    /\ timer
    /\ timer' = FALSE /\ active' = Active(entry)
    /\ flight' = Begin(flight, Key(Active(entry), sorting))
    /\ failed' = (failed /\ Key(Active(entry), sorting) = Current)
    /\ UNCHANGED <<column, live, user, entry, sorting, vis, store, cache, bounds>>

\* What a mount, or another user under the mounted table, takes from localStorage.
Stored(u) == IF store[u] = None THEN DefaultSession ELSE store[u]
Take(session) ==
    /\ entry' = session.filter /\ active' = Active(session.filter) /\ timer' = TRUE
    /\ sorting' = session.sort /\ vis' = session.vis

\* The key of the storage changes: the view of the new user is read, and persisted
\* over what the effect of the old one wrote under the new key in the same commit.
SwitchUser(u) ==
    /\ u # user /\ Act
    /\ user' = u /\ Take(Stored(u))
    /\ flight' = Begin(flight, Key(Active(Stored(u).filter), Stored(u).sort))
    /\ failed' = FALSE
    /\ UNCHANGED <<column, live, store, cache, writes, faults>>

\* The page is loaded again: nothing is left but what was stored.
Reload ==
    /\ Act
    /\ Take(Stored(user))
    /\ cache' = <<>> /\ failed' = FALSE
    /\ flight' = Put(<<>>, Key(Active(Stored(user).filter), Stored(user).sort), Loading(1))
    /\ UNCHANGED <<column, live, user, store, writes, faults>>

-----------------------------------------------------------------------------
(***************************************************************************)
(* The pages.                                                              *)
(***************************************************************************)
\* The last row is near: the next page, unless a request is under way.
FetchNextPage ==
    /\ Current \in DOMAIN cache \ DOMAIN flight
    /\ LET c == cache[Current] IN
       /\ NextOffset(c.pages, c.total) # None
       /\ flight' = Put(flight, Current, [want |-> c.pages.count + 1, got |-> c.pages, calm |-> c.calm])
    /\ UNCHANGED <<column, live, user, controls, store, cache, failed, bounds>>

\* A stale query that is shown, a focus of the window, a write of this user: every
\* page is asked again, from the first.
Refetch ==
    /\ Act
    /\ Current \in DOMAIN cache
    /\ flight' = Put(flight, Current, Loading(cache[Current].pages.count))
    /\ UNCHANGED <<column, live, user, controls, store, cache, failed, writes, faults>>

\* One more page, or the answer complete once this many pages are in.
Arrive(v, complete) ==
    LET got == flight[v].got
        total == Len(Answer(v))
        pages == WithPage(got, Answer(v))
        calm == got.count = 0 \/ flight[v].calm
    IN /\ IF complete \/ NextOffset(pages, total) = None
          THEN /\ cache' = Put(cache, v, [pages |-> pages, total |-> total, calm |-> calm])
               /\ flight' = Without(flight, v)
               /\ failed' = (failed /\ v # Current)
          ELSE /\ flight' = [flight EXCEPT ![v].got = pages, ![v].calm = calm]
               /\ UNCHANGED <<cache, failed>>
       /\ UNCHANGED <<column, live, user, controls, store, bounds>>

\* Mutant: one page too many is asked.
PageArrivesOver(v) ==
    v \in DOMAIN flight /\ ~Refused(v) /\ Arrive(v, flight[v].got.count = flight[v].want)

\* A page is served and arrives; the last one wanted, or the last there is, makes
\* the answer the query's.
PageArrives(v) ==
    v \in DOMAIN flight /\ ~Refused(v) /\ Arrive(v, flight[v].got.count + 1 = flight[v].want)

\* The request ends in an error, or the service refuses it.
PageFails(v) ==
    /\ v \in DOMAIN flight
    /\ \/ Refused(v) /\ UNCHANGED faults
       \/ ~Refused(v) /\ faults < MaxFaults /\ faults' = faults + 1
    /\ flight' = Without(flight, v) /\ failed' = (failed \/ v = Current)
    /\ UNCHANGED <<column, live, user, controls, store, cache, acts, writes>>

\* Another user adds a row or deletes one: pages read before and after do not fit.
OtherWrites(r) ==
    /\ writes < MaxWrites /\ writes' = writes + 1
    /\ live' = IF r \in live THEN live \ {r} ELSE live \cup {r}
    /\ cache' = [v \in DOMAIN cache |-> [cache[v] EXCEPT !.calm = FALSE]]
    /\ flight' = [v \in DOMAIN flight |-> [flight[v] EXCEPT !.calm = FALSE]]
    /\ UNCHANGED <<column, user, controls, store, failed, acts, faults>>

TableNext ==
    \/ \E v \in Value : TypeValue(v)
    \/ \E op \in Operator : SelectOperator(op)
    \/ ClearFilters \/ ToggleColumn \/ ResetView \/ Debounce \/ Reload
    \/ \E id \in Fields : SortAdd(id)
    \/ \E i \in DOMAIN sorting : SortRemove(i) \/ SortToggle(i)
    \/ \E u \in User : SwitchUser(u)
    \/ FetchNextPage \/ Refetch
    \/ \E v \in DOMAIN flight : PageArrives(v) \/ PageFails(v)
    \/ \E r \in Row : OtherWrites(r)

\* A timer fires, and a request ends.
TableSpec ==
    /\ TableInit /\ [][TableNext]_tableVars
    /\ WF_tableVars(Debounce) /\ WF_tableVars(\E v \in DOMAIN flight : PageArrives(v) \/ PageFails(v))

-----------------------------------------------------------------------------
\* Every variable keeps its type.
TableTypeOK ==
    /\ column \in Columns /\ live \subseteq Row /\ user \in User
    /\ {entry, active} \subseteq FilterEntry \cup {None}
    /\ {timer, failed} \subseteq BOOLEAN
    /\ Current \in View /\ vis \in {"unset", "shown", "hidden"}
    /\ store \in [User -> Session \cup {None}]
    /\ DOMAIN cache \cup DOMAIN flight \subseteq View
    /\ \A v \in DOMAIN cache :
          cache[v].total \in Nat /\ cache[v].pages \in Pages /\ cache[v].pages.count > 0
    /\ \A v \in DOMAIN flight :
          flight[v].want \in Nat /\ flight[v].got \in Pages /\ flight[v].got.count < flight[v].want

Settled == ~timer /\ Current \in DOMAIN cache \ DOMAIN flight /\ ~failed

\* The rows shown, once nothing is under way and unless a row was added or deleted
\* since the first page was read, are what the filter as it is typed selects, in
\* the order of the sort pills, none twice and none left out; with every page
\* loaded, they are all of them.  (Where the service knows filter and field.)
ControlsShown ==
    /\ Settled /\ cache[Current].calm /\ column.sorted
    /\ entry # None => entry.op \in column.heeded
    => LET shown == cache[Current].pages.rows
           wanted == Wanted([sort |-> sorting, filter |-> Active(entry)])
       IN /\ IsPrefix(shown, wanted)
          /\ NextOffset(cache[Current].pages, cache[Current].total) = None => shown = wanted

\* Each step leaves stored what a reload would show, and changes the stored view
\* of no user but the one who takes it.
ViewsKept ==
    [][/\ (Stored(user) = [filter |-> entry, sort |-> sorting, vis |-> vis])'
       /\ \A u \in User : store'[u] # store[u] => u = user /\ user' = user]_tableVars

\* A table whose user rests ends up showing the rows of its controls, or an error.
TableSettles == []<>(Settled \/ failed)

=============================================================================

------------------------------ MODULE ScanDesk ------------------------------
(***************************************************************************)
(* The scan workbench in a browser (ScanWorkbenchPage, useWorkbench,       *)
(* useScanWorkbenchActions and their modals) over what the backend tells   *)
(* of the last scan: filters, the selection, the bulk actions behind their *)
(* confirmation, the actions on one row, and the lists react-query keeps   *)
(* for each bucket asked.                                                  *)
(*                                                                         *)
(* Rows are numbers in the order of the list.  A mismatch is one of the    *)
(* version; the rows of one record have one version on disk.  The other    *)
(* client filters do what the sub-state does and are left out, and so is a *)
(* name alias, which the workbench does not read.                          *)
(***************************************************************************)
EXTENDS Integers, FiniteSets

CONSTANTS
    Row, Record, RecordOf,  \* the rows listed, and the record each is matched with
    Orphan,       \* records without an install, listed as rows of their own
    Stored,       \* rows whose match was stored by the ingest
    Renamed,      \* rows that an enabled rule shows under another name
    Confirmed, Differing,   \* rows confirmed, records of another version, at the start
    Key,          \* the buckets asked for, "all" among them
    None,
    \* Bounds: user acts, actions under way at once, failures and others' writes.
    MaxActs, MaxRuns, MaxFaults

ASSUME DeskAssumption ==
    /\ Row \subseteq Nat /\ IsFiniteSet(Row) /\ RecordOf \in [Row -> Record]
    /\ Differing \subseteq Record
    /\ "all" \in Key
    /\ Orphan \cup Stored \cup Renamed \cup Confirmed \subseteq Row
    /\ {MaxActs, MaxRuns, MaxFaults} \subseteq Nat

VARIABLES
    server,    \* what the backend keeps
    bucket, sub,      \* the filters
    cache, flight,    \* per bucket asked: the list held, the request under way
    failed,           \* the last request of the list shown failed
    selected, last,   \* the selection; the index last clicked
    confirm,   \* the confirmation shown: the action, and how many rows it names
    runs,      \* bulk loops under way: rejects, excludes
    sent,      \* the other requests under way
    queue, modal,     \* rows of a guided resolution; the dialog of a row
    acts, faults

list == <<cache, flight, failed>>
choice == <<selected, last>>
bounds == <<acts, faults>>
deskVars == <<server, bucket, sub, list, choice, confirm, runs, sent, queue, modal, bounds>>

-----------------------------------------------------------------------------
Bucket == {"unlinked", "orphaned", "collision", "needs_review", "known", "excluded"}
Kind == {"exclude", "reject", "update"}

\* Fingerprints: of the name on disk, and of the name shown.
Disk(r) == <<r, "disk">>
Shown(s, r) == IF r \in Renamed /\ s.rules THEN <<r, "rule">> ELSE Disk(r)
Fingerprint == Row \X {"disk", "rule"}

Server == [scan : BOOLEAN, rules : BOOLEAN, oneFormat : BOOLEAN, stored : SUBSET Row,
           confirmed : SUBSET Row, dismissed : SUBSET Row, differs : SUBSET Record,
           excluded : SUBSET Fingerprint, rejected : SUBSET Fingerprint]

\* The workbench matches anew, by the name shown.
Matched(s, r) == Shown(s, r) \notin s.excluded \cup s.rejected

\* Two installs of one record in one format.
Collides(s, r) ==
    \E t \in Row \ (Orphan \cup {r}) : s.oneFormat /\ RecordOf[t] = RecordOf[r] /\ Matched(s, t)

BucketOf(s, r) ==
    IF r \in Orphan THEN "orphaned"
    ELSE IF Shown(s, r) \in s.excluded THEN "excluded"
    ELSE IF ~Matched(s, r) THEN "unlinked"
    ELSE IF Collides(s, r) THEN "collision"
    ELSE IF r \in s.confirmed THEN "known" ELSE "needs_review"

Item == [bucket : Bucket, differs : BOOLEAN]

\* GET /scanner/workbench for a bucket, or for all.
Listing(s, k) ==
    LET listed == IF s.scan THEN {r \in Row : k \in {"all", BucketOf(s, r)}} ELSE {}
    IN [r \in listed |-> [bucket |-> BucketOf(s, r), differs |-> RecordOf[r] \in s.differs]]

-----------------------------------------------------------------------------
(***************************************************************************)
(* What the desk shows.                                                    *)
(***************************************************************************)
\* Rows still to decide, and settled rows: those show beside the former only.
Active(i) == i.bucket \in {"needs_review", "collision", "orphaned"}
Passive(i) == i.bucket = "known"
WithSiblings(rows) ==
    {r \in DOMAIN rows : Passive(rows[r]) =>
        \E t \in DOMAIN rows : Active(rows[t]) /\ RecordOf[t] = RecordOf[r]}

Mismatch(i) == i.bucket = "needs_review" /\ i.differs
SubState(i) == IF Mismatch(i) THEN "mismatch" ELSE "unconfirmed"

Held == IF bucket \in DOMAIN cache THEN cache[bucket].rows ELSE <<>>
Visible == {r \in WithSiblings(Held) : sub # "all" => SubState(Held[r]) = sub}
Chosen == Visible \cap selected

\* The rows chosen that a bulk action applies to.
Affected(kind) ==
    {r \in Chosen : CASE kind = "exclude" -> TRUE
                      [] kind = "reject" -> Held[r].bucket \in {"needs_review", "known"}
                      [] kind = "update" -> Mismatch(Held[r])}

-----------------------------------------------------------------------------
(***************************************************************************)
(* The lists.  "calm" marks a list that nobody and nothing but this desk's *)
(* answered writes has made stale.                                         *)
(***************************************************************************)
Put(f, k, x) == [j \in DOMAIN f \cup {k} |-> IF j = k THEN x ELSE f[j]]
Without(f, k) == [j \in DOMAIN f \ {k} |-> f[j]]
Request(first) == [first |-> first, read |-> None, calm |-> TRUE]

\* Mutant: a list is asked for only when none is under way.
AskAlone(c, f, k) == IF f # <<>> \/ k \in DOMAIN c THEN f ELSE Put(f, k, Request(TRUE))

\* The list of k is shown: asked unless it is held and valid, or on its way.
Ask(c, f, k) ==
    IF k \in DOMAIN f \/ (k \in DOMAIN c /\ c[k].valid) THEN f
    ELSE Put(f, k, Request(k \notin DOMAIN c))

\* Mutant: a refetch under way goes on.
InvalidateKeeps ==
    /\ cache' = [k \in DOMAIN cache |-> [cache[k] EXCEPT !.valid = FALSE]]
    /\ flight' = Ask(cache', flight, bucket)
    /\ UNCHANGED failed

\* invalidateQueries: every list is marked, the one shown is asked anew.  Its refetch
\* under way is cancelled; a first load, or the refetch of a list not shown, goes on,
\* and what it read may be too old.
Invalidate ==
    /\ cache' = [k \in DOMAIN cache |-> [cache[k] EXCEPT !.valid = FALSE]]
    /\ LET kept == {k \in DOMAIN flight : flight[k].first \/ k # bucket}
       IN flight' = Ask(cache', [k \in kept |-> [flight[k] EXCEPT !.calm = @ /\ flight[k].read = None]],
                        bucket)
    /\ UNCHANGED failed

Disturb ==
    /\ cache' = [k \in DOMAIN cache |-> [cache[k] EXCEPT !.calm = FALSE]]
    /\ flight' = [k \in DOMAIN flight |->
                     [flight[k] EXCEPT !.calm = @ /\ flight[k].read = None]]
    /\ UNCHANGED failed

DeskInit ==
    /\ \E one \in BOOLEAN :
          server = [scan |-> TRUE, rules |-> TRUE, oneFormat |-> one, stored |-> Stored,
                    confirmed |-> Confirmed, dismissed |-> {}, differs |-> Differing,
                    excluded |-> {}, rejected |-> {}]
    /\ bucket = "all" /\ sub = "all"
    /\ cache = <<>> /\ flight = Put(<<>>, "all", Request(TRUE)) /\ failed = FALSE
    /\ selected = {} /\ last = None /\ confirm = None
    /\ runs = {} /\ sent = {} /\ queue = {} /\ modal = None
    /\ acts = 0 /\ faults = 0

\* The backend reads the list ...
Serve(k) ==
    /\ flight[k].read = None
    /\ flight' = [flight EXCEPT ![k].read = Listing(server, k)]
    /\ UNCHANGED <<server, bucket, sub, cache, failed, choice, confirm, runs, sent, queue,
                   modal, bounds>>

\* ... and it arrives.
Arrive(k) ==
    /\ flight[k].read # None
    /\ cache' = Put(cache, k, [rows |-> flight[k].read, valid |-> TRUE, calm |-> flight[k].calm])
    /\ flight' = Without(flight, k)
    /\ failed' = (failed /\ k # bucket)
    /\ UNCHANGED <<server, bucket, sub, choice, confirm, runs, sent, queue, modal, bounds>>

Fault == faults < MaxFaults /\ faults' = faults + 1

LoadFails(k) ==
    /\ Fault
    /\ flight' = Without(flight, k) /\ failed' = (failed \/ k = bucket)
    /\ UNCHANGED <<server, bucket, sub, cache, choice, confirm, runs, sent, queue, modal,
                   acts>>

-----------------------------------------------------------------------------
(***************************************************************************)
(* Filters and selection.  A dialog covers the page beneath it.            *)
(***************************************************************************)
Act == acts < MaxActs /\ acts' = acts + 1
Uncovered == confirm = None /\ modal = None /\ queue = {}

\* The bucket goes to the backend too; another one than needs_review drops the
\* sub-state.
SetBucket(b) ==
    /\ Act /\ Uncovered /\ b # bucket
    /\ bucket' = b /\ sub' = IF b = "needs_review" THEN sub ELSE "all"
    /\ flight' = Ask(cache, flight, b) /\ failed' = FALSE
    /\ UNCHANGED <<server, cache, choice, confirm, runs, sent, queue, modal, faults>>

SetSubState(v) ==
    /\ Act /\ Uncovered /\ bucket = "needs_review" /\ v # sub
    /\ sub' = v
    /\ UNCHANGED <<server, bucket, list, choice, confirm, runs, sent, queue, modal, faults>>

\* The window gets the focus, or a list is shown again after 30 seconds.
Refetch ==
    /\ Act /\ bucket \notin DOMAIN flight
    /\ flight' = Put(flight, bucket, Request(bucket \notin DOMAIN cache))
    /\ UNCHANGED <<server, bucket, sub, cache, failed, choice, confirm, runs, sent, queue,
                   modal, faults>>

Select(ids, i) ==
    /\ Act /\ Uncovered
    /\ selected' = ids /\ last' = i
    /\ UNCHANGED <<server, bucket, sub, list, confirm, runs, sent, queue, modal, faults>>

\* Mutant: lines count from zero.
IndexFromZero(r) == Cardinality({t \in Visible : t < r})

Index(r) == Cardinality({t \in Visible : t <= r})

ToggleSelect(r) ==
    /\ r \in Visible
    /\ Select(IF r \in selected THEN selected \ {r} ELSE selected \cup {r}, Index(r))

\* From the line clicked last, or what is there now.
ShiftSelect(r) ==
    /\ r \in Visible
    /\ LET to == Index(r)
           n == Cardinality(Visible)
           from == IF last = None THEN to ELSE IF last > n THEN n ELSE last
           range == {t \in Visible : Index(t) \in (from .. to) \cup (to .. from)}
       IN Select(selected \cup range, last)

ToggleSelectAll ==
    /\ Visible # {}
    /\ IF Visible \subseteq selected THEN Select({}, None) ELSE Select(Visible, last)

ClearSelection == selected # {} /\ Select({}, None)

-----------------------------------------------------------------------------
(***************************************************************************)
(* Writes, as the backend does them.                                       *)
(***************************************************************************)
\* POST results/{id}/reject: the pairing of the name on disk with the match stored,
\* if one is stored, and the match and its confirmation go.
Reject(s, R) ==
    [s EXCEPT !.rejected = @ \cup {Disk(r) : r \in R \cap s.stored},
              !.stored = @ \ R, !.confirmed = @ \ R]

\* POST exclude: of the name on disk; an orphaned record has none.
Exclude(s, R) == [s EXCEPT !.excluded = @ \cup {Disk(r) : r \in R \ Orphan}]

\* POST workbench/bulk-update: the versions of the records stored as matches.
Update(s, R) == [s EXCEPT !.differs = @ \ {RecordOf[r] : r \in R \cap s.stored}]

What == {"reject", "exclude", "keep", "update", "soft", "hard"}

\* What a request makes of the service.  A collision is resolved by confirming the
\* copies kept and dismissing the others, which the workbench goes on to list.
Does(s, q) ==
    CASE q.what = "reject" -> Reject(s, q.rows)
      [] q.what = "exclude" -> Exclude(s, q.rows)
      [] q.what = "keep" -> [s EXCEPT !.confirmed = @ \cup q.keep,
                                      !.dismissed = @ \cup (q.rows \ q.keep)]
      [] q.what = "update" -> Update(s, q.rows)
      [] q.what = "soft" -> [s EXCEPT !.rules = FALSE]
      [] q.what = "hard" -> [s EXCEPT !.scan = FALSE, !.rules = FALSE, !.stored = {},
                                      !.confirmed = {}, !.dismissed = {}, !.excluded = {},
                                      !.rejected = {}]

\* A row that is gone is not rejected, nor is a copy kept that has lost its match, nor
\* one alone when some copy was dismissed before.
Accepted(s, q) ==
    CASE q.what = "reject" -> s.scan
      [] q.what = "keep" -> /\ q.rows \subseteq s.stored
                            /\ q.keep # q.rows => q.rows \cap s.dismissed = {}
      [] OTHER -> TRUE

-----------------------------------------------------------------------------
(***************************************************************************)
(* Requests of one action: sent, served, and answered or failed.  Nothing  *)
(* waits for an earlier one.                                               *)
(***************************************************************************)
Free == Cardinality(runs) + Cardinality(sent) < MaxRuns
NewId == CHOOSE i \in 1 .. MaxRuns : \A u \in runs \cup sent : u.id # i

Send(what, rows, keep, dialog) ==
    /\ Free
    /\ sent' = sent \cup {[id |-> NewId, what |-> what, rows |-> rows, keep |-> keep,
                            dialog |-> dialog, state |-> "sent"]}

Becomes(q, state) == sent' = (sent \ {q}) \cup {[q EXCEPT !.state = state]}

\* Served in one transaction; an update goes record by record, and an error leaves
\* some of them updated.
ServeRequest(q) ==
    /\ q.state = "sent" /\ Accepted(server, q)
    /\ \/ server' = Does(server, q) /\ Becomes(q, "served") /\ UNCHANGED faults
       \/ /\ q.what = "update" /\ Fault /\ Becomes(q, "broken")
          /\ \E R \in SUBSET q.rows : server' = Update(server, R)
    /\ UNCHANGED <<bucket, sub, list, choice, confirm, runs, queue, modal, acts>>

\* The lists are loaded anew; a dialog closes, also one that was opened since;
\* after an update the selection is cleared.
RequestAnswered(q) ==
    /\ q.state = "served" /\ sent' = sent \ {q}
    /\ Invalidate
    /\ modal' = IF q.dialog THEN None ELSE modal
    /\ IF q.what = "update" THEN selected' = {} /\ last' = None ELSE UNCHANGED choice
    /\ UNCHANGED <<server, bucket, sub, confirm, runs, queue, bounds>>

Refused(q) == q.state = "sent" /\ ~Accepted(server, q)

\* An error: of the service, or of the network before or after the request was served.
\* The lists are not loaded; the dialog that sent it, if it is still there, stays.
RequestFails(q) ==
    /\ sent' = sent \ {q}
    /\ IF Refused(q) \/ q.state = "broken" THEN UNCHANGED faults ELSE Fault
    /\ IF q.state = "sent" THEN UNCHANGED list ELSE Disturb
    /\ modal' = IF modal # None /\ modal.request = q.id
                THEN [modal EXCEPT !.error = TRUE, !.request = None] ELSE modal
    /\ UNCHANGED <<server, bucket, sub, choice, confirm, runs, queue, acts>>

\* The action of a row: reject where it is offered, exclude of an unlinked row.
Single(what, rows) ==
    /\ Act /\ Uncovered /\ Send(what, rows, {}, FALSE)
    /\ UNCHANGED <<server, bucket, sub, list, choice, confirm, runs, queue, modal, faults>>

HandleReject(r) ==
    /\ r \in Visible /\ Held[r].bucket \in {"needs_review", "known"}
    /\ Single("reject", {r})

HandleExclude(r) ==
    /\ r \in Visible /\ Held[r].bucket = "unlinked"
    /\ Single("exclude", {r})

HandleSoftReset == Single("soft", {})

\* Its button waits for the answer.
HandleHardReset == (\A q \in sent : q.what # "hard") /\ Single("hard", {})

-----------------------------------------------------------------------------
(***************************************************************************)
(* Dialogs.                                                                *)
(***************************************************************************)
Dialog(q, m) ==
    /\ queue' = q /\ modal' = m
    /\ UNCHANGED <<server, bucket, sub, list, choice, confirm, runs, sent, faults>>

\* Resolve: the rows chosen that need it, one after the other.
HandleBulkResolve ==
    /\ Act /\ Uncovered
    /\ LET R == {r \in Chosen : Held[r].bucket = "needs_review"}
       IN R # {} /\ Dialog(R, None)

DialogType == {"resolution", "details", "collision", "find", "create"}

\* A click on a row, and Create Record of an unlinked one.  A dialog keeps the row
\* as it was, for a collision with its copies.
HandleRowClick(r, type) ==
    /\ Act /\ Uncovered /\ r \in Visible
    /\ type \in CASE Held[r].bucket = "needs_review" -> {"resolution"}
                   [] Held[r].bucket = "known" -> {"details"}
                   [] Held[r].bucket = "collision" -> {"collision"}
                   [] Held[r].bucket = "unlinked" -> {"find", "create"}
                   [] Held[r].bucket = "orphaned" -> {"find"}
                   [] Held[r].bucket = "excluded" -> {}
    /\ Dialog({}, [type |-> type, row |-> r,
                    error |-> FALSE, request |-> None,
                    copies |-> {t \in DOMAIN Held \ Orphan : RecordOf[t] = RecordOf[r]}])

CloseDialog == (modal # None \/ queue # {}) /\ Dialog({}, None) /\ UNCHANGED acts

\* Save asks the backend for /catalog/..., which it does not mount: an error is shown
\* and the dialog stays.  (So does the guided one: its queue never advances.)
SaveFails(type) ==
    /\ modal # None /\ modal.type = type
    /\ Dialog({}, [modal EXCEPT !.error = TRUE]) /\ UNCHANGED acts
HandleSave == SaveFails("resolution")
HandleCreate == SaveFails("create")

\* Link: for an unlinked row the candidate is looked up by an id candidates have
\* not, nothing is sent, and the dialog closes as linked.  (For an orphaned record
\* the request names no table and is refused: nothing changes.)
HandleConfirmLink ==
    /\ modal # None /\ modal.type = "find" /\ modal.row \notin Orphan
    /\ modal' = None /\ Invalidate
    /\ UNCHANGED <<server, bucket, sub, choice, confirm, runs, sent, queue, bounds>>

\* Keep all, remove stragglers, or exclude, one of them at a time.
ResolveCollision ==
    /\ modal # None /\ modal.type = "collision" /\ modal.request = None
    /\ \/ \E C \in {{t} : t \in modal.copies} \cup {modal.copies} :
             Send("keep", modal.copies, C, TRUE)
       \/ Send("exclude", {modal.row}, {}, TRUE)
    /\ IF modal.error THEN Act ELSE UNCHANGED acts
    /\ modal' = [modal EXCEPT !.error = FALSE, !.request = NewId]
    /\ UNCHANGED <<server, bucket, sub, list, choice, confirm, runs, queue, faults>>

-----------------------------------------------------------------------------
(***************************************************************************)
(* Bulk actions.                                                           *)
(***************************************************************************)
Confirmation(c) ==
    /\ confirm' = c
    /\ UNCHANGED <<server, bucket, sub, list, choice, queue, modal, faults>>

RequestBulk(kind) ==
    /\ Uncovered /\ selected # {} /\ (kind = "exclude" \/ Affected(kind) # {})
    /\ Confirmation([kind |-> kind, rows |-> Affected(kind)]) /\ UNCHANGED <<runs, sent, acts>>

CancelConfirm == confirm # None /\ Confirmation(None) /\ UNCHANGED <<runs, sent, acts>>

\* The handler takes the rows affected now; nothing waits for an earlier one.  An
\* update is one request.
ConfirmPending ==
    /\ Act /\ confirm # None /\ confirm.rows # {}
    /\ Confirmation(None)
    /\ IF confirm.kind = "update"
       THEN Send("update", Affected("update"), {}, FALSE) /\ UNCHANGED runs
       ELSE /\ Free /\ UNCHANGED sent
            /\ runs' = runs \cup {[id |-> NewId, kind |-> confirm.kind,
                                   left |-> Affected(confirm.kind)]}

Rest == <<bucket, sub, confirm, sent, queue, modal, acts>>

\* The requests of a reject follow each other, and stop at an error.  (That one is
\* answered changes nothing but that the next is sent.)
RejectNext(u) ==
    /\ u.kind = "reject" /\ u.left # {}
    /\ LET r == CHOOSE x \in u.left : \A y \in u.left : x <= y
           s == Reject(server, {r})
       IN \/ /\ server.scan /\ server' = s /\ UNCHANGED faults
             /\ runs' = (runs \ {u}) \cup {[u EXCEPT !.left = @ \ {r}]}
          \/ /\ IF server.scan THEN Fault ELSE UNCHANGED faults
             /\ server' \in {server, s}
             /\ runs' = (runs \ {u}) \cup {[u EXCEPT !.left = {}]}
    /\ UNCHANGED <<list, choice, Rest>>

\* Those of an exclude are sent at once, and all are awaited.
ExcludeOne(u, r) ==
    /\ u.kind = "exclude" /\ r \in u.left
    /\ \/ server' = Exclude(server, {r}) /\ UNCHANGED faults
       \/ Fault /\ server' \in {server, Exclude(server, {r})}
    /\ runs' = (runs \ {u}) \cup {[u EXCEPT !.left = @ \ {r}]}
    /\ UNCHANGED <<list, choice, Rest>>

\* Either then clears the selection and loads anew.
RunEnds(u) ==
    /\ u.left = {}
    /\ selected' = {} /\ last' = None /\ runs' = runs \ {u}
    /\ Invalidate
    /\ UNCHANGED <<server, faults, Rest>>

\* Another administrator confirms a row, or switches the rules.
OthersWrite ==
    /\ Fault
    /\ server' \in {[server EXCEPT !.confirmed = @ \cup {r}] : r \in server.stored}
                   \cup {[server EXCEPT !.rules = ~@]}
    /\ Disturb
    /\ UNCHANGED <<bucket, sub, choice, confirm, runs, sent, queue, modal, acts>>

Loads == \E k \in DOMAIN flight : Serve(k) \/ Arrive(k) \/ LoadFails(k)
Running ==
    \/ \E u \in runs : RejectNext(u) \/ (\E r \in u.left : ExcludeOne(u, r)) \/ RunEnds(u)
    \/ \E q \in sent : ServeRequest(q) \/ RequestAnswered(q) \/ RequestFails(q)

DeskNext ==
    \/ Loads \/ Running \/ OthersWrite
    \/ (\E b \in Key : SetBucket(b)) \/ (\E v \in {"all", "mismatch", "unconfirmed"} : SetSubState(v))
    \/ Refetch \/ ToggleSelectAll \/ ClearSelection
    \/ \E r \in Row : ToggleSelect(r) \/ ShiftSelect(r) \/ HandleReject(r) \/ HandleExclude(r)
                      \/ \E type \in DialogType :
                            HandleRowClick(r, type)
    \/ HandleSoftReset \/ HandleHardReset
    \/ HandleBulkResolve \/ CloseDialog \/ HandleSave \/ HandleCreate \/ HandleConfirmLink \/ ResolveCollision
    \/ (\E kind \in Kind : RequestBulk(kind)) \/ CancelConfirm \/ ConfirmPending

\* Requests end.
DeskSpec == DeskInit /\ [][DeskNext]_deskVars /\ WF_deskVars(Loads) /\ WF_deskVars(Running)

-----------------------------------------------------------------------------
List(rows) == DOMAIN rows \subseteq Row /\ \A r \in DOMAIN rows : rows[r] \in Item

\* Every variable keeps its type.
DeskTypeOK ==
    /\ server \in Server /\ failed \in BOOLEAN
    /\ bucket \in Key /\ sub \in {"all", "mismatch", "unconfirmed"}
    /\ sub # "all" => bucket = "needs_review"
    /\ DOMAIN cache \cup DOMAIN flight \subseteq Key
    /\ \A k \in DOMAIN cache : List(cache[k].rows) /\ {cache[k].valid, cache[k].calm} \subseteq BOOLEAN
    /\ \A k \in DOMAIN flight : flight[k].read = None \/ List(flight[k].read)
    /\ selected \subseteq Row /\ (last = None \/ last \in 1 .. Cardinality(Row))
    /\ confirm # None => confirm.kind \in Kind /\ confirm.rows \subseteq Row
    /\ \A u \in runs : u.kind \in Kind \ {"update"} /\ u.left \subseteq Row
    /\ \A q \in sent : q.what \in What /\ q.rows \cup q.keep \subseteq Row
    /\ queue \subseteq Row

Idle == runs = {} /\ sent = {}
Quiet == Idle /\ bucket \in DOMAIN cache \ DOMAIN flight /\ ~failed

\* With no action under way, the list shown is what the backend would answer, however
\* the decisions of this desk overlapped and whichever bulk reject or exclude stopped
\* at an error; save what others wrote, what a request did that was no bulk reject or
\* exclude and whose answer was an error or was lost, and what a load that an
\* invalidation does not cancel (the first of a list, or of one not shown) had read.
OwnWritesShown ==
    Quiet /\ cache[bucket].valid /\ cache[bucket].calm => Held = Listing(server, bucket)

\* A desk whose user rests ends its runs and shows a list, or an error.
DeskSettles == []<>(Quiet \/ (failed /\ Idle))

=============================================================================

----------------------------- MODULE RecordDesk -----------------------------
(***************************************************************************)
(* The record tables of the studio frontend as one administrator uses      *)
(* them: a table page (TablePage), its record modal (useRecordModal,       *)
(* RecordModal), its bulk edit bar (BulkEditBar) and the query cache under *)
(* them (useTableData), while other users write the same rows.             *)
(*                                                                         *)
(* A field's value is the edit that gave it: text holds the number of the  *)
(* last edit that typed it, tags the numbers of the edits that added one,  *)
(* and 0 stands for what was there before any.  Each request is three      *)
(* steps: the browser sends it, the server serves or refuses it, the       *)
(* answer reaches the browser.  version, seen, touched and early are       *)
(* history: no guard reads them, but for the bound on versions.            *)
(***************************************************************************)
EXTENDS Integers, FiniteSets

CONSTANTS
    Record,      \* primary keys of one table
    Spare,       \* those not in use at the start
    Slots,       \* bound: requests of the modals in flight at a time
    BulkSlots,   \* bound: bulk operations in flight at a time
    MaxEdits,    \* bound: edits, of this user and the others
    MaxVersion,  \* bound: writes to one record
    MaxWrites,   \* bound: writes to all of them
    MaxFaults,   \* bound: requests refused or lost, answers lost
    MaxUses,     \* bound: modals opened from the table and bulk operations started
    None, Asked, New  \* nothing there; a list asked for; the record an Add form will make

ASSUME DeskAssumption ==
    /\ Spare \subseteq Record
    /\ {None, Asked, New} \cap Record = {} /\ None # New /\ None # Asked
    /\ {MaxEdits, MaxVersion, MaxWrites, MaxFaults, MaxUses} \subseteq Nat

VARIABLES
    rows,    \* the table on the server
    list,    \* the cached answer under [queryKey]; None before the first one
    fetch,   \* the request for that list: None, Asked, or the answer on its way
    stale,   \* the cached list is invalidated
    modal,   \* the record modal, None when closed
    call,    \* the saves and deletes in flight
    bulk,    \* the bulk operations in flight
    edits, faults, uses,  \* how many there have been of what the bounds limit
    mine,    \* per record, the version after this user's last announced write
    early    \* a write was announced while the first answer was on its way

vars == <<rows, list, fetch, stale, modal, call, bulk,
          edits, faults, uses, mine, early>>
server == <<rows, faults>>
cache == <<list, fetch, stale, mine, early>>
desk == <<modal, call, uses>>

-----------------------------------------------------------------------------
Stamp == 0 .. MaxEdits
Form == [text : Stamp, tags : SUBSET Stamp]
Row == [live : BOOLEAN, text : Stamp, tags : SUBSET Stamp,
        version : 0 .. MaxVersion]
Blank == [live |-> FALSE, text |-> 0, tags |-> {}, version |-> 0]
Snapshot == [Record -> Row]

Fields == {"text", "tags"}
Modal == [rec : Record \cup {New}, seen : 0 .. MaxVersion, form : Form,
          mode : {"view", "edit", "history"}, confirm : BOOLEAN,
          saving : BOOLEAN, deleting : BOOLEAN, error : BOOLEAN,
          touched : SUBSET Fields]
Call == [kind : {"save", "delete"}, rec : Record \cup {New}, seen : 0 .. MaxVersion,
         form : Form, touched : SUBSET Fields,
         own : BOOLEAN, state : {"sent", "done", "failed"}, version : 0 .. MaxVersion]
Bulk == [kind : {"text", "add", "drop", "delete"}, edit : Stamp, base : [Record -> Row],
         state : [Record -> {"none", "sent", "done", "failed"}],
         version : [Record -> 0 .. MaxVersion]]

\* A modal is not None.
ASSUME ModalAssumption == None \notin Modal

Shown == IF list = None THEN {} ELSE {r \in Record : list[r].live}

\* toForm: the form starts as the row the modal was given.
ToForm(row) == [text |-> row.text, tags |-> row.tags]

\* Mutant: the modal is not keyed by its record, so a form outlives a navigation.
MountKeepsForm(r, row, mode) ==
    IF modal # None THEN [modal EXCEPT !.rec = r, !.seen = row.version]
    ELSE [rec |-> r, seen |-> row.version, form |-> ToForm(row), mode |-> mode, confirm |-> FALSE,
          saving |-> FALSE, deleting |-> FALSE, error |-> FALSE, touched |-> {}]

\* A modal is mounted for one record: its key is the record's id, so another
\* record makes another modal, with a form of its own.
Mount(r, row, mode) ==
    [rec |-> r, seen |-> row.version, form |-> ToForm(row), mode |-> mode, confirm |-> FALSE,
     saving |-> FALSE, deleting |-> FALSE, error |-> FALSE, touched |-> {}]

Use == uses < MaxUses /\ uses' = uses + 1

\* What is in flight outlives the modal that sent it.
Orphans == [i \in Slots |-> IF call[i] = None THEN None ELSE [call[i] EXCEPT !.own = FALSE]]

\* Mutant: the request already in flight is taken for the refetch.
AskJoining(f) == IF f # None THEN f ELSE Asked

\* invalidateQueries: the list is asked again, and an older request for it is
\* dropped unless it is the first one.
Ask(f) == IF list = None /\ f # None THEN f ELSE Asked

Init ==
    /\ rows = [r \in Record |-> IF r \in Spare THEN Blank ELSE [Blank EXCEPT !.live = TRUE, !.tags = {0}]]
    /\ list = None /\ fetch = Asked /\ stale = FALSE
    /\ modal = None
    /\ call = [i \in Slots |-> None]
    /\ bulk = [b \in BulkSlots |-> None]
    /\ edits = 0 /\ faults = 0
    /\ mine = [r \in Record |-> 0] /\ early = FALSE
    /\ uses = 0

-----------------------------------------------------------------------------
(***************************************************************************)
(* The list: react-query's request, answer and failure.                    *)
(***************************************************************************)
\* Window focus, or a mount, once the answer is older than staleTime.
Refetch ==
    /\ fetch = None
    /\ fetch' = Asked
    /\ UNCHANGED <<server, desk, bulk, list, stale, mine, early, edits>>

ServeList ==
    /\ fetch = Asked
    /\ fetch' = rows
    /\ UNCHANGED <<server, desk, bulk, list, stale, mine, early, edits>>

\* Mutant: rows are shown before any came.
ListArrivesEarly ==
    /\ fetch # None
    /\ list' = fetch /\ fetch' = None /\ stale' = FALSE
    /\ early' = (early /\ list = None)
    /\ UNCHANGED <<server, desk, bulk, mine, edits>>

ListArrives ==
    /\ fetch \notin {None, Asked}
    /\ list' = fetch /\ fetch' = None /\ stale' = FALSE
    /\ early' = (early /\ list = None)
    /\ UNCHANGED <<server, desk, bulk, mine, edits>>

\* After one retry the request fails; the rows shown stay.
ListFails ==
    /\ fetch # None /\ faults < MaxFaults
    /\ fetch' = None /\ faults' = faults + 1
    /\ early' = (early /\ list # None)
    /\ UNCHANGED <<rows, desk, bulk, list, stale, mine, edits>>

-----------------------------------------------------------------------------
(***************************************************************************)
(* Pages and the modal.                                                    *)
(***************************************************************************)
OpenRow(r) ==
    /\ modal = None /\ r \in Shown
    /\ modal' = Mount(r, list[r], "view") /\ Use
    /\ UNCHANGED <<server, cache, bulk, call, edits>>

\* ?open=<id>: the record is read afresh, and takes the place of any modal.
OpenById(r) ==
    /\ rows[r].live
    /\ modal # None => modal.rec # r
    /\ modal' = Mount(r, rows[r], "view") /\ call' = Orphans /\ Use
    /\ UNCHANGED <<server, cache, bulk, edits>>

Add ==
    /\ modal = None
    /\ modal' = Mount(New, Blank, "edit") /\ Use
    /\ UNCHANGED <<server, cache, bulk, call, edits>>

\* The previous or next row of the table as it is loaded now, in any mode.
Navigate(r) ==
    /\ modal # None
    /\ modal.rec \in Shown \ {r} /\ r \in Shown
    /\ modal' = Mount(r, list[r], "view") /\ call' = Orphans
    /\ UNCHANGED <<server, cache, bulk, edits, uses>>

\* Cancel, Escape or the overlay, which are there while a save is in flight too.
Close ==
    /\ modal # None
    /\ modal' = None /\ call' = Orphans
    /\ UNCHANGED <<server, cache, bulk, edits, uses>>

SetMode(m) ==
    /\ modal # None /\ modal.mode = "view" /\ m \in {"edit", "history"}
    /\ modal' = [modal EXCEPT !.mode = m, !.confirm = FALSE]
    /\ UNCHANGED <<server, cache, bulk, call, edits, uses>>

\* set(key, value): a new text, a tag more or a tag less.
Edit(f) ==
    /\ modal # None /\ modal.mode = "edit" /\ edits < MaxEdits
    /\ \/ f = "text" /\ modal' = [modal EXCEPT !.form.text = edits + 1, !.touched = @ \cup {f}]
       \/ f = "tags" /\ modal' = [modal EXCEPT !.form.tags = @ \cup {edits + 1},
                                               !.touched = @ \cup {f}]
    /\ edits' = edits + 1
    /\ UNCHANGED <<server, cache, bulk, call, uses>>

Untag(t) ==
    /\ modal # None /\ modal.mode = "edit" /\ t \in modal.form.tags
    /\ modal' = [modal EXCEPT !.form.tags = @ \ {t}, !.touched = @ \cup {"tags"}]
    /\ UNCHANGED <<server, cache, bulk, call, edits, uses>>

AskDelete ==
    /\ modal # None /\ modal.mode # "history" /\ ~modal.confirm
    /\ modal.mode = "edit" => ~modal.saving
    /\ modal' = [modal EXCEPT !.confirm = TRUE]
    /\ UNCHANGED <<server, cache, bulk, call, edits, uses>>

CancelDelete ==
    /\ modal # None /\ modal.confirm /\ ~modal.deleting
    /\ modal' = [modal EXCEPT !.confirm = FALSE]
    /\ UNCHANGED <<server, cache, bulk, call, edits, uses>>

Send(kind) == \E i \in Slots :
    /\ call[i] = None
    /\ call' = [call EXCEPT ![i] =
          [kind |-> kind, rec |-> modal.rec, seen |-> modal.seen, form |-> modal.form,
           touched |-> modal.touched,
           own |-> TRUE, state |-> "sent", version |-> 0]]

Save ==
    /\ modal # None /\ modal.mode = "edit" /\ ~modal.saving /\ ~modal.deleting
    /\ Send("save")
    /\ modal' = [modal EXCEPT !.saving = TRUE, !.error = FALSE]
    /\ UNCHANGED <<server, cache, bulk, edits, uses>>

\* "Confirm Delete" of an Add form has no record to delete and shows an error.
ConfirmDelete ==
    /\ modal # None /\ modal.confirm /\ ~modal.deleting
    /\ IF modal.rec = New
       THEN modal' = [modal EXCEPT !.error = TRUE] /\ UNCHANGED call
       ELSE Send("delete") /\ modal' = [modal EXCEPT !.deleting = TRUE]
    /\ UNCHANGED <<server, cache, bulk, edits, uses>>

\* The history posts to /admin/change-review/{id}/undo, and the service mounts
\* its change review at /studio/admin: the answer is 404, and nothing is undone.
HistoryUndo ==
    /\ modal # None /\ modal.mode = "history" /\ ~modal.error
    /\ modal.seen > 0
    /\ modal' = [modal EXCEPT !.error = TRUE]
    /\ UNCHANGED <<server, cache, bulk, call, edits, uses>>

-----------------------------------------------------------------------------
(***************************************************************************)
(* The server, and the answers.                                            *)
(***************************************************************************)
Write(r, row) == [row EXCEPT !.version = rows[r].version + 1]
Writes == {w \in Record \X (1 .. MaxVersion) : w[2] <= rows[w[1]].version}
CanWrite(r) == rows[r].version < MaxVersion /\ Cardinality(Writes) < MaxWrites

\* buildPayload sends every field of the form, not only those that changed.
Apply(r, form) == Write(r, [rows[r] EXCEPT !.text = form.text, !.tags = form.tags])

ServeSave(i) ==
    LET c == call[i] IN
    /\ c # None /\ c.kind = "save" /\ c.state = "sent"
    /\ \E r \in IF c.rec = New THEN {s \in Record : rows[s] = Blank} ELSE {c.rec} :
          /\ CanWrite(r)
          /\ IF c.rec # New /\ ~rows[r].live
             THEN call' = [call EXCEPT ![i].state = "failed"] /\ UNCHANGED rows
             ELSE LET row == Apply(r, c.form) IN
                  /\ rows' = [rows EXCEPT ![r] = [row EXCEPT !.live = TRUE]]
                  /\ call' = [call EXCEPT ![i].state = "done", ![i].rec = r,
                                          ![i].version = row.version]
    /\ UNCHANGED <<cache, bulk, faults, modal, edits, uses>>

ServeDelete(i) ==
    LET c == call[i] IN
    /\ c # None /\ c.kind = "delete" /\ c.state = "sent" /\ CanWrite(c.rec)
    /\ IF rows[c.rec].live
       THEN LET row == Write(c.rec, [rows[c.rec] EXCEPT !.live = FALSE]) IN
            /\ rows' = [rows EXCEPT ![c.rec] = row]
            /\ call' = [call EXCEPT ![i].state = "done", ![i].version = row.version]
       ELSE call' = [call EXCEPT ![i].state = "failed"] /\ UNCHANGED rows
    /\ UNCHANGED <<cache, bulk, faults, modal, edits, uses>>

\* Refused (a constraint, a dead session), or lost on the way to the server.
Refuse(i) ==
    /\ call[i] # None /\ call[i].state = "sent" /\ faults < MaxFaults
    /\ call' = [call EXCEPT ![i].state = "failed"] /\ faults' = faults + 1
    /\ UNCHANGED <<cache, bulk, rows, modal, edits, uses>>

LoseAnswer(i) ==
    /\ call[i] # None /\ call[i].state = "done" /\ faults < MaxFaults
    /\ call' = [call EXCEPT ![i].state = "failed"] /\ faults' = faults + 1
    /\ UNCHANGED <<cache, bulk, rows, modal, edits, uses>>

\* handleMutate: the table's list is invalidated and asked again, unless it is being
\* loaded for the first time: that request is kept, and its answer shown as fresh.
Announce(news) ==
    /\ fetch' = Ask(fetch) /\ stale' = TRUE
    /\ mine' = [r \in Record |-> IF news[r] > mine[r] THEN news[r] ELSE mine[r]]
    /\ early' = (early \/ (list = None /\ fetch \notin {None, Asked}))

\* onMutate, then onClose: which closes the modal that is open by now.
Succeed(i) ==
    LET c == call[i] IN
    /\ c # None /\ c.state = "done"
    /\ Announce([r \in Record |-> IF r = c.rec THEN c.version ELSE 0])
    /\ modal' = None /\ call' = [Orphans EXCEPT ![i] = None]
    /\ UNCHANGED <<server, bulk, list, edits, uses>>

\* The error is shown by the modal that sent the request, if it is still there.
Fail(i) ==
    LET c == call[i] IN
    /\ c # None /\ c.state = "failed"
    /\ call' = [call EXCEPT ![i] = None]
    /\ modal' = IF ~c.own THEN modal
                ELSE [modal EXCEPT !.error = TRUE,
                                   !.saving = @ /\ c.kind # "save",
                                   !.deleting = @ /\ c.kind # "delete"]
    /\ UNCHANGED <<server, cache, bulk, edits, uses>>

\* Another user edits a record, or deletes it.
OtherWrites(r) ==
    /\ rows[r].live /\ CanWrite(r)
    /\ \/ /\ edits < MaxEdits /\ edits' = edits + 1
          /\ \E row \in {[rows[r] EXCEPT !.text = edits + 1],
                         [rows[r] EXCEPT !.tags = @ \cup {edits + 1}]} :
                rows' = [rows EXCEPT ![r] = Write(r, row)]
       \/ /\ rows' = [rows EXCEPT ![r] = Write(r, [@ EXCEPT !.live = FALSE])]
          /\ UNCHANGED edits
    /\ UNCHANGED <<cache, desk, bulk, faults>>

-----------------------------------------------------------------------------
(***************************************************************************)
(* The bulk edit bar.                                                      *)
(***************************************************************************)
\* Apply, or Delete and Confirm: one request per ticked row that is shown, all at
\* once, each made from the row as the list has it.  Another may be in flight: a
\* deletion may be confirmed during an Apply, and a bar that was cleared is new.
StartBulk(b, kind, rs, e) ==
    /\ modal = None /\ bulk[b] = None /\ rs # {}
    /\ kind \in {"text", "add"} => edits < MaxEdits /\ e = edits + 1
    /\ kind = "drop" => \E r \in rs : e \in list[r].tags
    /\ kind = "delete" => e = 0
    /\ edits' = IF kind \in {"text", "add"} THEN e ELSE edits
    /\ bulk' = [bulk EXCEPT ![b] =
          [kind |-> kind, edit |-> e, base |-> list,
           state |-> [r \in Record |-> IF r \in rs THEN "sent" ELSE "none"],
           version |-> [r \in Record |-> 0]]]
    /\ Use
    /\ UNCHANGED <<server, cache, modal, call>>

\* Mutant: the value added takes the place of the row's own.
BulkFormReplaces(o, r) ==
    CASE o.kind = "text" -> [text |-> o.edit, tags |-> rows[r].tags]
      [] o.kind = "add"  -> [text |-> rows[r].text, tags |-> {o.edit}]
      [] o.kind = "drop" -> [text |-> rows[r].text, tags |-> o.base[r].tags \ {o.edit}]
      [] OTHER -> ToForm(rows[r])

\* The field's new value: typed, the row's tags and the new one, or the row's
\* tags without the one removed.
BulkForm(o, r) ==
    CASE o.kind = "text" -> [text |-> o.edit, tags |-> rows[r].tags]
      [] o.kind = "add"  -> [text |-> rows[r].text, tags |-> o.base[r].tags \cup {o.edit}]
      [] o.kind = "drop" -> [text |-> rows[r].text, tags |-> o.base[r].tags \ {o.edit}]
      [] OTHER -> ToForm(rows[r])

ServeBulk(b, r) ==
    LET o == bulk[b] IN
    /\ o # None /\ o.state[r] = "sent" /\ CanWrite(r)
    /\ IF rows[r].live
       THEN LET row == IF o.kind = "delete" THEN Write(r, [rows[r] EXCEPT !.live = FALSE])
                       ELSE Apply(r, BulkForm(o, r)) IN
            /\ rows' = [rows EXCEPT ![r] = row]
            /\ bulk' = [bulk EXCEPT ![b].state[r] = "done", ![b].version[r] = row.version]
       ELSE bulk' = [bulk EXCEPT ![b].state[r] = "failed"] /\ UNCHANGED rows
    /\ UNCHANGED <<cache, desk, faults, edits>>

\* Refused, or lost on the way; or the answer is lost and the row was written.
RefuseBulk(b, r) ==
    /\ bulk[b] # None /\ bulk[b].state[r] \in {"sent", "done"} /\ faults < MaxFaults
    /\ bulk' = [bulk EXCEPT ![b].state[r] = "failed"] /\ faults' = faults + 1
    /\ UNCHANGED <<rows, cache, desk, edits>>

\* All settled: when every request succeeded the selection is
\* cleared and the list asked again; otherwise the bar counts the failures.
EndBulk(b) ==
    /\ bulk[b] # None /\ \A r \in Record : bulk[b].state[r] # "sent"
    /\ bulk' = [bulk EXCEPT ![b] = None]
    /\ IF \E r \in Record : bulk[b].state[r] = "failed"
       THEN UNCHANGED <<fetch, stale, mine, early>>
       ELSE Announce(bulk[b].version)
    /\ UNCHANGED <<server, desk, list, edits>>

Next ==
    \/ Refetch \/ ServeList \/ ListArrives \/ ListFails
    \/ \E r \in Record :
          \/ OpenRow(r) \/ OpenById(r) \/ Navigate(r)
          \/ OtherWrites(r)
          \/ \E b \in BulkSlots : ServeBulk(b, r) \/ RefuseBulk(b, r)
    \/ Add \/ Close \/ AskDelete \/ CancelDelete \/ Save \/ ConfirmDelete \/ HistoryUndo
    \/ \E m \in {"edit", "history"} : SetMode(m)
    \/ \E f \in Fields : Edit(f)
    \/ \E t \in Stamp : Untag(t)
    \/ \E i \in Slots : ServeSave(i) \/ ServeDelete(i) \/ Refuse(i)
                        \/ LoseAnswer(i) \/ Succeed(i) \/ Fail(i)
    \/ \E b \in BulkSlots :
          \/ \E kind \in {"text", "add", "drop", "delete"}, rs \in SUBSET Shown, e \in Stamp :
                StartBulk(b, kind, rs, e)
          \/ EndBulk(b)

Spec == Init /\ [][Next]_vars

-----------------------------------------------------------------------------
(***************************************************************************)
(* Properties.                                                             *)
(***************************************************************************)
\* Every variable keeps its type.
TypeOK ==
    /\ rows \in Snapshot
    /\ list = None \/ list \in Snapshot
    /\ fetch \in {None, Asked} \/ fetch \in Snapshot
    /\ stale \in BOOLEAN
    /\ modal = None \/ modal \in Modal
    /\ \A i \in Slots : call[i] = None \/ call[i] \in Call
    /\ \A b \in BulkSlots : bulk[b] = None \/ bulk[b] \in Bulk
    /\ edits \in Stamp /\ faults \in 0 .. MaxFaults
    /\ mine \in [Record -> 0 .. MaxVersion] /\ early \in BOOLEAN
    /\ uses \in 0 .. MaxUses

\* A save changes the fields its user changed and no other, unless the row was
\* written after the modal's copy of it was read.
SavesOwnChanges ==
    [][\A i \in Slots :
          LET c == call[i] IN
          (/\ c # None /\ c.kind = "save" /\ c.state = "sent" /\ call'[i].state = "done"
           /\ c.rec # New /\ rows[c.rec].version = c.seen)
             => /\ rows'[c.rec].text # rows[c.rec].text => "text" \in c.touched
                /\ rows'[c.rec].tags # rows[c.rec].tags => "tags" \in c.touched]_vars

\* Read your writes: a list shown as fresh, with no request for it in flight, is
\* no older than the last write of this user that the table page announced.  The one
\* exception is the first list, when its answer was on its way at the announcement:
\* react-query keeps that request, so the page shows the table without the write.
OwnWritesShown ==
    list # None /\ ~stale /\ fetch = None /\ ~early =>
        \A r \in Record : list[r].version >= mine[r]

\* A bulk edit that adds a value keeps those the row has, and one that removes a
\* value takes no other, unless the row was written after the list was read.
BulkKeepsOthers ==
    [][\A b \in BulkSlots, r \in Record :
          LET o == bulk[b] IN
          (/\ o # None /\ bulk'[b] # None
           /\ o.state[r] = "sent" /\ bulk'[b].state[r] = "done"
           /\ rows[r].version = o.base[r].version)
             => /\ o.kind # "delete" => rows'[r].live
                /\ rows[r].tags \subseteq rows'[r].tags \cup
                      (IF o.kind = "drop" THEN {o.edit} ELSE {})
                /\ rows'[r].text # rows[r].text => o.kind = "text"]_vars

=============================================================================

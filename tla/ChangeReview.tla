---------------------------- MODULE ChangeReview ----------------------------
(***************************************************************************)
(* Change Review (routers/change_review.py, change_review_undo.py): an     *)
(* administrator acknowledges, undoes or confirms the entries of audit_log *)
(* while the catalog handlers of AuditedCatalog run.                       *)
(*                                                                         *)
(* Each single-entry handler reads the entry with fetch_mutable_entry and  *)
(* writes in a later step WHERE audit_id = $1, without a second look at    *)
(* acknowledged_at and undone_at: what separates the two outcomes is the   *)
(* constraint audit_log_state_exclusive, whose violation rolls back.       *)
(***************************************************************************)
EXTENDS AuditedCatalog

Ids == 1 .. Len(log)
Pending(i) == ~log[i].acked /\ ~log[i].undone

\* fetch_mutable_entry, and the handler's own test of the operation.
BeginReview(p, i, kind) ==
    /\ req[p] = Idle
    /\ i \in Ids
    /\ Pending(i)
    /\ kind = "purge" => log[i].op = "DELETE"
    /\ req' = [req EXCEPT ![p] = [kind |-> kind, rec |-> log[i].rec,
                                  snap |-> NoRow, entry |-> i]]
    /\ UNCHANGED <<row, log>>

\* UPDATE audit_log SET acknowledged_at or undone_at of an entry.
Acked(e) == [e EXCEPT !.acked = TRUE]
Undone(e) == [e EXCEPT !.undone = TRUE]

\* Mutant of MarkAcked: no constraint audit_log_state_exclusive.
MarkAckedBlindly(i) == log' = [log EXCEPT ![i] = Acked(@)]

\* The same WHERE audit_id, under the constraint audit_log_state_exclusive.
MarkAcked(i) == ~log[i].undone /\ log' = [log EXCEPT ![i] = Acked(@)]
MarkUndone(i) == ~log[i].acked /\ log' = [log EXCEPT ![i] = Undone(@)]

CommitAcknowledge(p) ==
    LET i == req[p].entry IN
    /\ req[p].kind = "acknowledge"
    /\ \/ MarkAcked(i)
       \/ log[i].undone /\ UNCHANGED log
    /\ Finish(p)
    /\ UNCHANGED row

\* apply_undo_operation on a row that exists.  apply_old_data restores every
\* column of the snapshot but the timestamps of creation and update: deleted_at
\* is restored too.
Reversed(e) ==
    CASE e.op = "CREATE" -> [row[e.rec] EXCEPT !.state = "deleted"]
      [] e.op = "UPDATE" -> e.old
      [] e.op = "DELETE" -> [row[e.rec] EXCEPT !.state = "live"]

\* Mutant: it inserts a row that is gone.
ApplyUndoInserts(e) ==
    /\ e.op = "UPDATE" => BrandIdOK(e.rec, e.old.val)
    /\ row' = [row EXCEPT ![e.rec] = Reversed(e)]

\* An UPDATE of a row that is gone changes nothing and is no error.
ApplyUndo(e) ==
    IF Exists(e.rec)
    THEN /\ e.op = "UPDATE" => BrandIdOK(e.rec, e.old.val)
         /\ row' = [row EXCEPT ![e.rec] = Reversed(e)]
    ELSE UNCHANGED row

\* ForeignKeyViolationError: the brand of the snapshot is gone.
UndoRefused(e) ==
    Exists(e.rec) /\ e.op = "UPDATE" /\ ~BrandIdOK(e.rec, e.old.val)

\* Mutant of CommitUndo: the mark is refused after the reversal was committed.
CommitUndoTwice(p) ==
    LET i == req[p].entry IN
    /\ req[p].kind = "undo"
    /\ ApplyUndo(log[i])
    /\ MarkUndone(i) \/ (log[i].acked /\ UNCHANGED log)
    /\ Finish(p)

CommitUndo(p) ==
    LET i == req[p].entry IN
    /\ req[p].kind = "undo"
    /\ \/ ApplyUndo(log[i]) /\ MarkUndone(i)
       \/ (log[i].acked \/ UndoRefused(log[i])) /\ UNCHANGED <<row, log>>
    /\ Finish(p)

\* DELETE FROM table WHERE pk, whatever the row's deleted_at.
CommitPermanentDelete(p) ==
    LET i == req[p].entry
        r == log[i].rec
    IN
    /\ req[p].kind = "purge"
    /\ \/ /\ ~Referenced(r)
          /\ row' = IF Exists(r) THEN [row EXCEPT ![r] = GoneRow] ELSE row
          /\ MarkUndone(i)
       \/ /\ log[i].acked \/ Referenced(r)
          /\ UNCHANGED <<row, log>>
    /\ Finish(p)

\* One UPDATE ... WHERE audit_id = ANY(ids) AND neither mark is set; fewer rows
\* than ids is a 409 and a rollback.  The data is never touched.
BulkAction(action, S) ==
    /\ S # {} /\ \A i \in S : Pending(i)
    /\ log' = [i \in Ids |-> IF i \notin S THEN log[i]
                             ELSE IF action = "undo" THEN Undone(log[i])
                             ELSE Acked(log[i])]
    /\ UNCHANGED <<row, req>>

CatalogStep ==
    \/ \E r \in Records : \E v \in Values(r) : Create(r, v)
    \/ \E p \in Requests :
          \/ \E r \in Records : BeginUpdate(p, r) \/ BeginDelete(p, r)
          \/ \E v \in Vals : CommitUpdate(p, v)
          \/ CheckRefs(p)
          \/ CommitDelete(p)
    \/ Crash

ReviewStep ==
    \/ \E p \in Requests :
          \/ \E i \in Ids, kind \in {"acknowledge", "undo", "purge"} :
                BeginReview(p, i, kind)
          \/ CommitAcknowledge(p)
          \/ CommitUndo(p)
          \/ CommitPermanentDelete(p)
    \/ \E action \in {"acknowledge", "undo"}, S \in SUBSET Ids : BulkAction(action, S)

Next == CatalogStep \/ ReviewStep

Spec == Init /\ [][Next]_vars

-----------------------------------------------------------------------------
(***************************************************************************)
(* Properties.                                                             *)
(***************************************************************************)

\* Every variable keeps its type; a request refers to a record, and a review
\* to an entry of the log.
TypeOK ==
    /\ row \in [Records -> Row]
    /\ log \in Seq(Entry)
    /\ req \in [Requests -> Request]
    /\ \A p \in Requests :
          /\ req[p].kind \in {"update", "refcheck", "delete"} =>
                req[p].rec \in Records
          /\ req[p].kind \in {"acknowledge", "undo", "purge"} =>
                req[p].entry \in Ids

\* A drawn key has exactly one CREATE entry and an undrawn one no entry at all:
\* no write goes unlogged or is logged against a row that never was, although
\* the entry is written with a row read earlier.
CreationLogged ==
    \A r \in Records :
        IF row[r].state = "unused"
        THEN \A i \in Ids : log[i].rec # r
        ELSE \E i \in Ids : /\ log[i].rec = r /\ log[i].op = "CREATE"
                            /\ \A j \in Ids : log[j].rec = r /\ log[j].op = "CREATE"
                                               => j = i

\* A soft-deleted row is deleted for a reason the log shows: a DELETE entry, or
\* a CREATE entry that was undone.  Undoing an UPDATE must therefore never
\* restore a snapshot of a deleted row.
DeletionAccounted ==
    \A r \in Records : row[r].state = "deleted" =>
        \E i \in Ids : /\ log[i].rec = r
                        /\ \/ log[i].op = "DELETE"
                           \/ log[i].op = "CREATE" /\ log[i].undone

\* A row is removed for good only by permanent_delete, through a DELETE entry that
\* a review settled, and the acknowledgement that raced the removal did not win.
\* The undo of a creation is no such removal: apply_undo_operation sets deleted_at
\* there, where docs/manual.md:167 and docs/arch/api.md:315 say it hard-deletes.
PurgeReviewed ==
    \A r \in Records : row[r].state = "gone" =>
        \E i \in Ids : /\ log[i].rec = r /\ log[i].op = "DELETE"
                        /\ log[i].undone /\ ~log[i].acked

\* No row, live or soft-deleted, names a brand whose row was removed: not the one
\* created or changed between the reference check of a delete and its commit, not
\* one of a table that the check leaves out, no late update, and no undo of an
\* old one, which would bring such a brand_id back.
NoDanglingBrand ==
    \A i \in Items : Exists(i) /\ row[i].val # Null =>
        row[i].val \in Brands /\ Exists(row[i].val)

\* A row that was removed stays removed, and the audit log keeps what it says of
\* a change: review marks entries, it never edits or drops them.
HistoryKept ==
    [][/\ \A r \in Records : row[r].state = "gone" => row'[r].state = "gone"
       /\ \A i \in Ids : /\ i <= Len(log')
                         /\ log'[i].rec = log[i].rec /\ log'[i].op = log[i].op
                         /\ log'[i].old = log[i].old]_vars

\* The entry whose undo or permanent delete request p commits in this step.
Reverses(p, i) ==
    /\ req[p].kind \in {"undo", "purge"} /\ req[p].entry = i
    /\ req'[p] = Idle
    /\ log'[i].undone /\ ~log[i].acked

\* A row changes only together with one audit entry of that row: the one the
\* write appends, or the one whose review reverses it in the same step.  No
\* acknowledged change is ever reversed, and no step changes two rows.
ChangesAudited ==
    [][\A r \in Records : row'[r] # row[r] =>
          /\ \A q \in Records \ {r} : row'[q] = row[q]
          /\ \/ /\ Len(log') = Len(log) + 1
                /\ log'[Len(log')].rec = r
             \/ \E p \in Requests, i \in Ids :
                   log[i].rec = r /\ Reverses(p, i)]_vars

\* The outcome of an entry under the two marks.
Outcome(e) == CASE e.acked /\ e.undone -> "contradictory"
                [] e.acked /\ ~e.undone -> "acknowledged"
                [] ~e.acked /\ e.undone -> "undone"
                [] ~e.acked /\ ~e.undone -> "pending"

outcomes == [i \in Ids |-> Outcome(log[i])]

Lifecycle == INSTANCE AuditLifecycle WITH status <- outcomes

\* Racing reviews settle an entry once and for all: the check-then-write of the
\* handlers implements AuditLifecycle.
OutcomeFinal == Lifecycle!Spec

-----------------------------------------------------------------------------
(***************************************************************************)
(* What the documentation says and the code does not do.                   *)
(***************************************************************************)

\* docs/arch/data-model.md: rows are removed for good only after a soft delete.
PurgeOnlyDeleted ==
    [][\A r \in Records : row[r].state = "live" => row'[r].state # "gone"]_vars

=============================================================================

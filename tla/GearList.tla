------------------------------ MODULE GearList ------------------------------
(***************************************************************************)
(* The GearList service (app/gearlist_backend): gear and gear types with   *)
(* their audit entries in PostgreSQL, gear photos in MinIO.                *)
(*                                                                         *)
(* A write begins its transaction, reads the row (Get) and then runs the   *)
(* statement that changes it, WHERE deleted_at IS NULL; the delete of a    *)
(* type reads before it begins.  Under READ COMMITTED another transaction  *)
(* may commit between these, so they are steps of their own; from the      *)
(* statement to the commit the row is locked, which makes the rest of the  *)
(* transaction one step.  The upload of a photo is outside any             *)
(* transaction, and its removal after a failure is too.                    *)
(*                                                                         *)
(* The log is in the order of commits, which nothing in the database       *)
(* records: an entry is listed by performed_at, DEFAULT NOW(), the time at *)
(* which its transaction began.  Of that time an entry keeps what decides  *)
(* anything: how many entries had been committed by then.                  *)
(***************************************************************************)
EXTENDS Naturals, Sequences

CONSTANTS
    Gear, Types,   \* primary keys of gear and of gear_types
    Names,         \* what a gear type can be called
    Exts,          \* the extensions of the accepted image formats
    Requests,      \* the requests in flight at a time
    Null,          \* SQL's NULL
    MaxLog         \* bound: audit entries of the service

Records == Gear \cup Types

ASSUME GearAssumption ==
    /\ Gear \cap Types = {}
    /\ Names \cap Types = {}
    /\ Null \notin Names \cup Types \cup Exts
    /\ MaxLog \in Nat

VARIABLES
    row,     \* the rows of gear and gear_types
    log,     \* their entries in audit_log, in the order of commits
    bucket,  \* the objects gear/{id}/photo{ext} of studio-photos
    req      \* what each request in flight has read, and what it does next

vars == <<row, log, bucket, req>>

-----------------------------------------------------------------------------
\* A gear type's value is its type_name, a piece of gear's its gear_type_id.
Vals == Names \cup Types \cup {Null}
Values(r) == IF r \in Types THEN Names ELSE Types \cup {Null}

GearRow == [state : {"unused", "live", "deleted"}, val : Vals, photo : Exts \cup {Null}]
NoRow == [state |-> "unused", val |-> Null, photo |-> Null]

\* since and began: the entries there were when the handler's first statement
\* ran, and when its transaction began.
Entry == [rec : Records, op : {"CREATE", "UPDATE", "DELETE"}, old : GearRow, new : GearRow,
          since : Nat, began : Nat]

Request == [kind : {"idle", "update", "delete", "setkey", "cleanup"},
            step : {"begin", "read", "write"},
            rec : Records \cup {Null}, ext : Exts \cup {Null}, old : GearRow,
            since : Nat, began : Nat]
Idle == [kind |-> "idle", step |-> "begin", rec |-> Null, ext |-> Null, old |-> NoRow,
         since |-> 0, began |-> 0]

Live(r) == row[r].state = "live"

\* UNIQUE (type_name) holds for deleted types too, and the gear_type_id of a
\* piece of gear may be a deleted type's.
ValueOK(r, v) ==
    IF r \in Types THEN \A t \in Types \ {r} : row[t].val # v
    ELSE v # Null => row[v].state # "unused"

\* One entry in the transaction of the change, with the row read before it and
\* the row read again after it (none after a DELETE).
WriteAudit(r, op, old, new, since, began) ==
    /\ Len(log) < MaxLog
    /\ log' = Append(log, [rec |-> r, op |-> op, old |-> old, new |-> new,
                           since |-> since, began |-> began])

\* The entry of the write that request p commits.
WriteAuditOf(p, op, new) ==
    WriteAudit(req[p].rec, op, req[p].old, new, req[p].since, req[p].began)

Finish(p) == req' = [req EXCEPT ![p] = Idle]

Init ==
    /\ row = [r \in Records |-> NoRow]
    /\ log = <<>>
    /\ bucket = {}
    /\ req = [p \in Requests |-> Idle]

-----------------------------------------------------------------------------
(***************************************************************************)
(* Rows.                                                                   *)
(***************************************************************************)
Create(r, v) ==
    LET new == [state |-> "live", val |-> v, photo |-> Null] IN
    /\ row[r].state = "unused"
    /\ ValueOK(r, v)
    /\ row' = [row EXCEPT ![r] = new]
    /\ WriteAudit(r, "CREATE", NoRow, new, Len(log), Len(log))
    /\ UNCHANGED <<bucket, req>>

\* An update or a soft delete begins its transaction, the soft delete of a type
\* reads with Get before that; a row that is not live ends the request.
BeginWrite(p, r, kind) ==
    LET start == [Idle EXCEPT !.kind = kind, !.rec = r, !.since = Len(log)] IN
    /\ req[p] = Idle
    /\ row[r].state # "unused"
    /\ \/ /\ ~(kind = "delete" /\ r \in Types)
          /\ req' = [req EXCEPT ![p] = [start EXCEPT !.step = "read", !.began = Len(log)]]
       \/ /\ kind = "delete" /\ r \in Types /\ Live(r)
          /\ req' = [req EXCEPT ![p] = [start EXCEPT !.old = row[r]]]
    /\ UNCHANGED <<row, log, bucket>>

\* The transaction of a request that had something to do before: the delete of a
\* type has read its row, the photo of a gear has been stored.
BeginTx(p) ==
    /\ req[p].kind \in {"delete", "setkey"} /\ req[p].step = "begin"
    /\ req' = [req EXCEPT ![p].began = Len(log),
                          ![p].since = IF req[p].kind = "setkey" THEN Len(log) ELSE @,
                          ![p].step = IF req[p].kind = "setkey" THEN "read" ELSE "write"]
    /\ UNCHANGED <<row, log, bucket>>

\* Mutant of Get: the request goes on without the row.
GetForgets(p) ==
    /\ req[p].step = "read" /\ Live(req[p].rec)
    /\ req' = [req EXCEPT ![p].step = "write", ![p].rec = Null]
    /\ UNCHANGED <<row, log, bucket>>

Get(p) ==
    /\ req[p].step = "read" /\ Live(req[p].rec)
    /\ req' = [req EXCEPT ![p].step = "write", ![p].old = row[req[p].rec]]
    /\ UNCHANGED <<row, log, bucket>>

\* Mutant of CommitUpdate: the audited row is built from the row read first.
CommitUpdateStale(p, v) ==
    LET r == req[p].rec
        new == [row[r] EXCEPT !.val = IF v = Null THEN @ ELSE v]
    IN
    /\ req[p].kind = "update" /\ req[p].step = "write"
    /\ Live(r)
    /\ v \in Values(r) /\ ValueOK(r, v)
    /\ row' = [row EXCEPT ![r] = new]
    /\ WriteAuditOf(p, "UPDATE", [req[p].old EXCEPT !.val = new.val])
    /\ Finish(p)
    /\ UNCHANGED bucket

\* COALESCE: a NULL leaves the column as it is.
CommitUpdate(p, v) ==
    LET r == req[p].rec
        new == [row[r] EXCEPT !.val = IF v = Null THEN @ ELSE v]
    IN
    /\ req[p].kind = "update" /\ req[p].step = "write"
    /\ Live(r)
    /\ v \in Values(r) /\ ValueOK(r, v)
    /\ row' = [row EXCEPT ![r] = new]
    /\ WriteAuditOf(p, "UPDATE", new)
    /\ Finish(p)
    /\ UNCHANGED bucket

\* Mutant of CommitDelete: RowsAffected is not looked at.
CommitDeleteTwice(p) ==
    LET r == req[p].rec IN
    /\ req[p].kind = "delete" /\ req[p].step = "write"
    /\ row' = [row EXCEPT ![r].state = "deleted"]
    /\ WriteAuditOf(p, "DELETE", NoRow)
    /\ Finish(p)
    /\ UNCHANGED bucket

CommitDelete(p) ==
    LET r == req[p].rec IN
    /\ req[p].kind = "delete" /\ req[p].step = "write"
    /\ Live(r)
    /\ row' = [row EXCEPT ![r].state = "deleted"]
    /\ WriteAuditOf(p, "DELETE", NoRow)
    /\ Finish(p)
    /\ UNCHANGED bucket

\* No row affected, a constraint, or an error of the database: rolled back.
Rollback(p) ==
    /\ req[p].kind \in {"update", "delete"}
    /\ Finish(p)
    /\ UNCHANGED <<row, log, bucket>>

-----------------------------------------------------------------------------
(***************************************************************************)
(* Photos.  The key of an object is the gear_id and the extension, so a    *)
(* second upload of the same format overwrites the first.                  *)
(***************************************************************************)

\* The object is stored before anything is known of the gear_id.
Upload(p, g, e) ==
    /\ req[p] = Idle
    /\ bucket' = bucket \cup {<<g, e>>}
    /\ req' = [req EXCEPT ![p] = [Idle EXCEPT !.kind = "setkey", !.rec = g, !.ext = e]]
    /\ UNCHANGED <<row, log>>

\* Mutant of SetPhotoKey: Get runs after the UPDATE.
SetPhotoKeyRereads(p) ==
    LET r == req[p].rec
        new == [row[r] EXCEPT !.photo = req[p].ext]
    IN
    /\ req[p].kind = "setkey" /\ req[p].step = "write"
    /\ Live(r)
    /\ row' = [row EXCEPT ![r] = new]
    /\ WriteAudit(r, "UPDATE", new, new, req[p].since, req[p].began)
    /\ Finish(p)
    /\ UNCHANGED bucket

\* SetPhotoKey, once Get has found the gear.
SetPhotoKey(p) ==
    LET r == req[p].rec
        new == [row[r] EXCEPT !.photo = req[p].ext]
    IN
    /\ req[p].kind = "setkey" /\ req[p].step = "write"
    /\ Live(r)
    /\ row' = [row EXCEPT ![r] = new]
    /\ WriteAuditOf(p, "UPDATE", new)
    /\ Finish(p)
    /\ UNCHANGED bucket

\* "gear not found", or an error of the database.
PhotoFails(p) ==
    /\ req[p].kind = "setkey"
    /\ req' = [req EXCEPT ![p] = [Idle EXCEPT !.kind = "cleanup", !.rec = req[p].rec, !.ext = req[p].ext]]
    /\ UNCHANGED <<row, log, bucket>>

\* cleanupPhoto: RemoveObject of the key, whose own failure is only logged.
CleanupPhoto(p) ==
    /\ req[p].kind = "cleanup"
    /\ \/ bucket' = bucket \ {<<req[p].rec, req[p].ext>>}
       \/ UNCHANGED bucket
    /\ Finish(p)
    /\ UNCHANGED <<row, log>>

\* The service stops: transactions roll back, requests are forgotten.
Crash ==
    /\ req' = [p \in Requests |-> Idle]
    /\ UNCHANGED <<row, log, bucket>>

Next ==
    \/ \E r \in Records : \E v \in Values(r) : Create(r, v)
    \/ \E p \in Requests :
          \/ \E r \in Records, kind \in {"update", "delete"} : BeginWrite(p, r, kind)
          \/ BeginTx(p)
          \/ Get(p)
          \/ \E v \in Vals : CommitUpdate(p, v)
          \/ CommitDelete(p)
          \/ Rollback(p)
          \/ \E g \in Gear, e \in Exts : Upload(p, g, e)
          \/ SetPhotoKey(p)
          \/ PhotoFails(p)
          \/ CleanupPhoto(p)
    \/ Crash

Spec == Init /\ [][Next]_vars

-----------------------------------------------------------------------------
(***************************************************************************)
(* Properties.                                                             *)
(***************************************************************************)
Ids == 1 .. Len(log)

\* Every variable keeps its type; a request about to write names a record.
TypeOK ==
    /\ row \in [Records -> GearRow]
    /\ log \in Seq(Entry)
    /\ bucket \subseteq Gear \X Exts
    /\ req \in [Requests -> Request]
    /\ \A p \in Requests :
          /\ req[p].kind \in {"update", "delete"} => req[p].rec \in Records
          /\ req[p].kind \in {"setkey", "cleanup"} =>
                req[p].rec \in Gear /\ req[p].ext \in Exts
          /\ req[p].kind \in {"idle", "cleanup"} => req[p].step # "read"

\* The entries of a row, and that i is listed after j whatever the clock said:
\* its transaction began when the other's was committed.
EntriesOf(r) == {i \in Ids : log[i].rec = r}
After(i, j) == log[i].began >= j

\* The entries that History may list first: no other is listed after them for sure.
Newest(r) == {i \in EntriesOf(r) : \A j \in EntriesOf(r) : ~After(j, i)}

\* SoftDelete is idempotent however requests race: a row is deleted exactly when
\* it has a DELETE entry, it has one only, and no write that began when the row
\* was deleted left an entry, so that it is among those listed first.
OneDeletion ==
    \A r \in Records :
        /\ row[r].state = "deleted" <=> \E i \in EntriesOf(r) : log[i].op = "DELETE"
        /\ \A i \in EntriesOf(r) : log[i].op = "DELETE" =>
              /\ \A j \in EntriesOf(r) : log[j].op = "DELETE" => j = i
              /\ i \in Newest(r)

\* Of the entries of a live row that History may list first one shows the row as
\* it is, hence the one listed first where no two writes of it overlapped: what
\* a write re-reads for its entry nobody else has changed, and no write of a
\* field or a photo goes unlogged.
NewestShowsRow ==
    \A r \in Records : Live(r) => \E i \in Newest(r) : log[i].new = row[r]

\* The old row of an entry is what an earlier entry of the row shows as the new
\* one, and the entries between the two were all committed while this write was
\* under way.  What Get has read and the UPDATE finds changed is thus the only
\* way in which the history of a row has a gap.
OldExplained ==
    \A i \in Ids : log[i].op # "CREATE" =>
        \E j \in EntriesOf(log[i].rec) :
            /\ j < i /\ log[j].new = log[i].old
            /\ \A k \in EntriesOf(log[i].rec) : j < k /\ k < i => log[i].since < k

=============================================================================

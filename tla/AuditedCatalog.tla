--------------------------- MODULE AuditedCatalog ---------------------------
(***************************************************************************)
(* The catalog tables of the ControlRoom backend, their soft-delete column *)
(* and the audit_log every write appends to (routers/_crud_ops.py,         *)
(* routers/_helpers.py and the create/update handlers of the routers).     *)
(*                                                                         *)
(* Every handler runs on a connection of its own.  A SELECT outside        *)
(* conn.transaction() is one step; a transaction is one step, its commit:  *)
(* its statements lock the row they change, so under READ COMMITTED the    *)
(* transactions on a row are serial.  Between two steps of a request the   *)
(* steps of other requests interleave, and what a request read is kept in  *)
(* req, where it grows stale.                                              *)
(***************************************************************************)
EXTENDS Naturals, Sequences

CONSTANTS
    Brands,        \* primary keys of the brands table
    Models,        \* of a table with a brand_id that _check_brand_refs reads
    Workstations,  \* of a table with a brand_id that it does not read
    Names,         \* what a brand's own columns can hold
    Requests,      \* the requests in flight at a time
    Null,          \* SQL's NULL
    MaxLog         \* bound: rows of audit_log

Items == Models \cup Workstations
Records == Brands \cup Items

ASSUME CatalogAssumption ==
    /\ Brands \cap Items = {}
    /\ Models \cap Workstations = {}
    /\ Names \cap Brands = {}
    /\ Null \notin Records \cup Names
    /\ MaxLog \in Nat

VARIABLES
    row,   \* the row of each primary key
    log,   \* audit_log, in the order of commits
    req    \* what each request in flight has read, and what it does next

vars == <<row, log, req>>

-----------------------------------------------------------------------------
(***************************************************************************)
(* Rows, audit entries and requests.  A brand's value is one of Names, an  *)
(* item's is its brand_id.  Keys are UUIDs the database draws: "unused" is *)
(* a key not drawn yet, "gone" one whose row was hard-deleted.             *)
(***************************************************************************)
Vals == Names \cup Brands \cup {Null}
Values(r) == IF r \in Brands THEN Names ELSE Brands \cup {Null}

Row == [state : {"unused", "live", "deleted", "gone"}, val : Vals]
NoRow == [state |-> "unused", val |-> Null]
GoneRow == [state |-> "gone", val |-> Null]

\* acked and undone: acknowledged_at and undone_at are set.
Entry == [rec : Records, op : {"CREATE", "UPDATE", "DELETE"}, old : Row,
          acked : BOOLEAN, undone : BOOLEAN]

Request == [kind : {"idle", "update", "refcheck", "delete",
                    "acknowledge", "undo", "purge"},
            rec : Records \cup {Null}, snap : Row, entry : Nat]
Idle == [kind |-> "idle", rec |-> Null, snap |-> NoRow, entry |-> 0]

Exists(r) == row[r].state \in {"live", "deleted"}

\* REFERENCES brands(brand_id), as an INSERT or UPDATE and as a DELETE meet it.
BrandIdOK(r, v) == (r \in Items /\ v # Null) => v \in Brands /\ Exists(v)

\* Mutant of Referenced: the foreign key is there for some tables only, those
\* that _check_brand_refs knows.
ReferencedByModels(b) == \E m \in Models : Exists(m) /\ row[m].val = b

Referenced(b) == \E i \in Items : Exists(i) /\ row[i].val = b

LogAudit(r, op, old) ==
    /\ Len(log) < MaxLog
    /\ log' = Append(log, [rec |-> r, op |-> op, old |-> old,
                           acked |-> FALSE, undone |-> FALSE])

Finish(p) == req' = [req EXCEPT ![p] = Idle]

Init ==
    /\ row = [r \in Records |-> NoRow]
    /\ log = <<>>
    /\ req = [p \in Requests |-> Idle]

-----------------------------------------------------------------------------
(***************************************************************************)
(* The write handlers of the catalog.                                      *)
(***************************************************************************)

\* Mutant of Create: the audit entry is left to the caller.
CreateUnlogged(r, v) ==
    /\ row[r].state = "unused"
    /\ BrandIdOK(r, v)
    /\ row' = [row EXCEPT ![r] = [state |-> "live", val |-> v]]
    /\ UNCHANGED <<log, req>>

\* One transaction: INSERT, re-read, log_audit.  The brand_id only has to
\* exist: it may be the key of a soft-deleted brand.
Create(r, v) ==
    /\ row[r].state = "unused"
    /\ BrandIdOK(r, v)
    /\ row' = [row EXCEPT ![r] = [state |-> "live", val |-> v]]
    /\ LogAudit(r, "CREATE", NoRow)
    /\ UNCHANGED req

\* The old row is read before the transaction; 404 and 409 leave no trace.
BeginUpdate(p, r) ==
    /\ req[p] = Idle
    /\ row[r].state = "live"
    /\ req' = [req EXCEPT ![p] = [kind |-> "update", rec |-> r,
                                  snap |-> row[r], entry |-> 0]]
    /\ UNCHANGED <<row, log>>

\* UPDATE ... WHERE pk, without looking at deleted_at again; old_data is the
\* row read before.  A vanished row makes dict(None) raise, an unknown brand_id
\* breaks the foreign key: all rolls back.
CommitUpdate(p, v) ==
    LET r == req[p].rec IN
    /\ req[p].kind = "update"
    /\ v \in Values(r)
    /\ \/ /\ Exists(r) /\ BrandIdOK(r, v)
          /\ row' = [row EXCEPT ![r].val = v]
          /\ LogAudit(r, "UPDATE", req[p].snap)
       \/ /\ ~(Exists(r) /\ BrandIdOK(r, v))
          /\ UNCHANGED <<row, log>>
    /\ Finish(p)

\* Workstations and tools are configured without a ref_check.
BeginDelete(p, r) ==
    /\ req[p] = Idle
    /\ row[r].state = "live"
    /\ req' = [req EXCEPT ![p] =
                 [kind |-> IF r \in Workstations THEN "delete" ELSE "refcheck",
                  rec |-> r, snap |-> row[r], entry |-> 0]]
    /\ UNCHANGED <<row, log>>

LiveReferences(b) == {m \in Models : row[m].state = "live" /\ row[m].val = b}

\* Mutant of CheckRefs: the handler goes on without the row it read.
CheckRefsForgets(p) ==
    /\ req[p].kind = "refcheck"
    /\ req[p].rec \in Brands => LiveReferences(req[p].rec) = {}
    /\ req' = [req EXCEPT ![p] = [Idle EXCEPT !.kind = "delete"]]
    /\ UNCHANGED <<row, log>>

\* 409 when a live row refers to the record.  The tables that refer to an item
\* are not modelled, so either answer is possible for an item.
CheckRefs(p) ==
    /\ req[p].kind = "refcheck"
    /\ \/ /\ req[p].rec \in Brands => LiveReferences(req[p].rec) = {}
          /\ req' = [req EXCEPT ![p].kind = "delete"]
       \/ /\ req[p].rec \in Brands => LiveReferences(req[p].rec) # {}
          /\ Finish(p)
    /\ UNCHANGED <<row, log>>

\* Mutant of CommitDelete: a connection of its own for the audit entry, lost.
CommitDeleteUnlogged(p) ==
    LET r == req[p].rec IN
    /\ req[p].kind = "delete"
    /\ row' = IF Exists(r) THEN [row EXCEPT ![r].state = "deleted"] ELSE row
    /\ UNCHANGED log
    /\ Finish(p)

\* One transaction: deleted_at = NOW() WHERE pk (no row, no effect), log_audit
\* with the row read by BeginDelete.
CommitDelete(p) ==
    LET r == req[p].rec IN
    /\ req[p].kind = "delete"
    /\ row' = IF Exists(r) THEN [row EXCEPT ![r].state = "deleted"] ELSE row
    /\ LogAudit(r, "DELETE", req[p].snap)
    /\ Finish(p)

\* The backend stops: the transactions of its connections roll back and the
\* requests between two steps are forgotten.
Crash ==
    /\ req' = [p \in Requests |-> Idle]
    /\ UNCHANGED <<row, log>>

=============================================================================

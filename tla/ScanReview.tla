----------------------------- MODULE ScanReview -----------------------------
(***************************************************************************)
(* What administrators decide about the rows of a plugin scan: confirm,    *)
(* reject, ignore, create, acknowledge, force (scanner_actions.py), links  *)
(* and rejections, name aliases, clean acknowledgement by rules, and the   *)
(* resolution of collisions (routers/scanner*.py).                         *)
(*                                                                         *)
(* A handler reads the rows it decides about without a lock, then writes   *)
(* the row, its catalog record and the persistent binding in one           *)
(* transaction.  Those that add an install to a record's disk_paths lock   *)
(* the record first and the rows after it; confirm and the removal of      *)
(* stragglers lock the rows first.                                         *)
(***************************************************************************)
EXTENDS Naturals, FiniteSets

CONSTANTS
    Results,   \* rows of plugin_scan_results; each is an install at a path of its own
    Plugins,   \* fingerprints "{vendor} {name}"
    PluginOf,  \* the fingerprint of each row
    Records,   \* catalog records
    Requests,  \* requests the backend handles at once
    Null,
    MaxOps     \* bound: decisions taken

ASSUME ReviewAssumption ==
    /\ PluginOf \in [Results -> Plugins]
    /\ Null \notin Records \cup Results
    /\ MaxOps \in Nat

VARIABLES
    result,    \* plugin_scan_results: match, status, confirmation, dismissal
    record,    \* the state of the catalog records
    paths,     \* their disk_paths: the installs recorded on them
    link,      \* scanner_plugin_links
    alias,     \* scanner_name_aliases
    rejected,  \* scanner_rejections
    excluded,  \* scanner_exclusions
    req,       \* what each request has read and locked
    ops        \* decisions taken

tables == <<result, record, paths, link, alias, rejected, excluded>>
vars == <<tables, req, ops>>

-----------------------------------------------------------------------------
Match == Records \cup {Null}

\* "listed" stands for known, needs_review and unlinked: which one a row shows
\* decides nothing here.
Result == [status : {"absent", "listed", "excluded"},
           rec : Match, confirmed : BOOLEAN, dismissed : BOOLEAN]
\* Mutant of NoResult: the reset leaves a row without its confirmation.
NoResultUntyped == [status |-> "deleted", rec |-> Null, confirmed |-> FALSE, dismissed |-> FALSE]

NoResult == [status |-> "absent", rec |-> Null, confirmed |-> FALSE, dismissed |-> FALSE]

\* As an ingest stores them.
Ingested == {x \in Result : x.status = "listed" /\ ~x.confirmed /\ ~x.dismissed}

RowKinds == {"reject", "ignore", "create", "force", "reject_match", "clean", "link", "links"}
RecordFirst == {"acknowledge", "pattern"}
RowsFirst == {"confirm", "straggler"}

\* seen: the match that each row had when it was read (for a pattern: the record
\* its name resolves to); locked, paths: the records read FOR UPDATE, and their
\* disk_paths.
Request == [kind : RowKinds \cup RecordFirst \cup RowsFirst \cup {"none"},
            stage : {"idle", "read", "held", "linked"},
            rows : SUBSET Results, seen : [Results -> Match],
            target : Match, keeper : Results \cup {Null},
            locked : SUBSET Records, paths : [Records -> SUBSET Results]]
NoRequest == [kind |-> "none", stage |-> "idle", rows |-> {}, seen |-> [r \in Results |-> Null],
              target |-> Null, keeper |-> Null, locked |-> {}, paths |-> [c \in Records |-> {}]]

Init ==
    /\ result \in [Results -> Ingested]
    /\ record \in [Records -> {"unused", "live"}]
    /\ \A r \in Results : result[r].rec # Null => record[result[r].rec] = "live"
    /\ paths = [c \in Records |-> {}]
    /\ link = [d \in Plugins |-> Null]
    /\ alias = [d \in Plugins |-> Null]
    /\ rejected = {}
    /\ excluded = {}
    /\ req = [p \in Requests |-> NoRequest]
    /\ ops = 0

-----------------------------------------------------------------------------
(***************************************************************************)
(* Locks.                                                                  *)
(***************************************************************************)
Touched(p) == {req[p].seen[r] : r \in req[p].rows}
HeldRecords(p) == req[p].locked

\* Mutant of HeldRows: the copies are selected without FOR UPDATE.
HeldRowsNone(p) == {}

HeldRows(p) ==
    IF req[p].stage = "held" /\ req[p].kind \in RowsFirst THEN req[p].rows ELSE {}

\* No other transaction holds one of these.
RowsFree(p, R) == \A q \in Requests \ {p} : HeldRows(q) \cap R = {}
RecordsFree(p, C) == \A q \in Requests \ {p} : HeldRecords(q) \cap C = {}

-----------------------------------------------------------------------------
(***************************************************************************)
(* Reads and requests.                                                     *)
(***************************************************************************)
Present(r) == result[r].status # "absent"
Unconfirmed(r) == Present(r) /\ ~result[r].confirmed
IsOpen(r) == Unconfirmed(r) /\ result[r].status # "excluded"

Begin(p, r0) ==
    /\ req[p].stage = "idle" /\ ops < MaxOps
    /\ req' = [req EXCEPT ![p] = r0]
    /\ ops' = ops + 1
    /\ UNCHANGED tables

\* What t, the record that a decision names or creates, has to be.
TargetOK(k, t) ==
    CASE k = "force" -> t # Null /\ record[t] = "live"
      [] k \in {"link", "links"} -> t # Null /\ record[t] # "unused"
      [] k = "create" -> /\ t # Null /\ record[t] = "unused"
                         /\ \A q \in Requests : ~(req[q].kind = "create" /\ req[q].target = t)
      [] OTHER -> t = Null

\* Decisions that use the match as it was read; the others use only what a row never changes.
MatchKinds == {"confirm", "acknowledge", "reject_match"}

\* The rows are read, and the record is looked up: keep_all and the bulk
\* endpoints read several rows.  Requests that are refused leave no trace.
ReadResults(p, k, R, t) ==
    /\ R # {} /\ \A r \in R : Present(r)
    /\ k \in {"acknowledge", "links"} \/ Cardinality(R) = 1
    /\ k \in {"confirm", "acknowledge"} => \A r \in R : result[r].rec # Null
    /\ k = "acknowledge" => \A r \in R : record[result[r].rec] = "live"
    /\ TargetOK(k, t)
    /\ Begin(p, [NoRequest EXCEPT !.kind = k, !.stage = "read", !.rows = R, !.target = t,
                    !.seen = [r \in Results |-> IF r \in R /\ k \in MatchKinds
                                               THEN result[r].rec ELSE Null]])

\* acknowledge-clean of a vendor or name rule: any unconfirmed rows may be clean.
ReadClean(p, R) ==
    /\ R # {} /\ \A r \in R : Unconfirmed(r)
    /\ Begin(p, [NoRequest EXCEPT !.kind = "clean", !.stage = "read", !.rows = R])

\* acknowledge-clean of a pattern: open rows and the records they resolve to.
ReadPattern(p, R, f) ==
    /\ R # {} /\ \A r \in R : IsOpen(r) /\ f[r] # Null /\ record[f[r]] = "live"
    /\ \A r \in Results \ R : f[r] = Null
    /\ Begin(p, [NoRequest EXCEPT !.kind = "pattern", !.stage = "read", !.rows = R, !.seen = f])

\* remove_straggler: the copies are locked, still shown, and one whole collision.
LockCopies(p, R, k) ==
    /\ k \in R /\ RowsFree(p, R)
    /\ \A r \in R : Present(r) /\ ~result[r].dismissed /\ result[r].rec # Null
                    /\ result[r].rec = result[k].rec
    /\ \A r \in Results \ R : result[r].rec = result[k].rec => result[r].dismissed
    /\ record[result[k].rec] = "live"
    /\ Begin(p, [NoRequest EXCEPT !.kind = "straggler", !.stage = "held", !.rows = R, !.keeper = k,
                    !.seen = [r \in Results |-> IF r \in R THEN result[r].rec ELSE Null]])

\* Once the last of them is read, the request goes on to write.
Reading(p, c) ==
    req' = [req EXCEPT ![p].locked = @ \cup {c}, ![p].paths[c] = paths[c],
              ![p].stage = IF Touched(p) \subseteq req[p].locked \cup {c} THEN "held" ELSE "read"]

\* Mutant of LockRecord: SELECT disk_paths without FOR UPDATE.
LockRecordUnlocked(p, c) ==
    /\ req[p].stage = "read" /\ req[p].kind \in RecordFirst
    /\ c \in Touched(p) \ req[p].locked
    /\ Reading(p, c)
    /\ UNCHANGED <<tables, ops>>

\* append_disk_path: SELECT disk_paths ... FOR UPDATE, of one record after the other.
LockRecord(p, c) ==
    /\ req[p].stage = "read" /\ req[p].kind \in RecordFirst
    /\ c \in Touched(p) \ req[p].locked
    /\ RecordsFree(p, {c})
    /\ Reading(p, c)
    /\ UNCHANGED <<tables, ops>>

\* confirm updates the row before the record.
LockRow(p) ==
    /\ req[p].stage = "read" /\ req[p].kind = "confirm"
    /\ RowsFree(p, req[p].rows)
    /\ req' = [req EXCEPT ![p].stage = "held"]
    /\ UNCHANGED <<tables, ops>>

-----------------------------------------------------------------------------
(***************************************************************************)
(* Writes.                                                                 *)
(***************************************************************************)
End(p) == req' = [req EXCEPT ![p] = NoRequest] /\ UNCHANGED ops

\* UPDATE plugin_scan_results: a row that a reset deleted is not there.
Mark(R, s, c) ==
    [r \in Results |-> IF r \in R /\ Present(r)
                       THEN [result[r] EXCEPT !.status = s, !.rec = c, !.confirmed = TRUE]
                       ELSE result[r]]
Confirmed(R) ==
    [r \in Results |-> IF r \in R /\ Present(r)
                       THEN [result[r] EXCEPT !.confirmed = TRUE] ELSE result[r]]

\* Upserts keyed by fingerprint: of rows with one key the last one counts.
Upserts(table, R, f) ==
    {L \in [Plugins -> Match] : \A d \in Plugins :
        LET S == {r \in R : PluginOf[r] = d}
        IN IF S = {} THEN L[d] = table[d] ELSE L[d] \in {f[r] : r \in S}}
Unlinked(p) == [d \in Plugins |-> IF \E r \in req[p].rows : PluginOf[r] = d THEN Null ELSE link[d]]

Recorded(base, R, f) ==
    [c \in Records |-> IF \E r \in R : f[r] = c
                       THEN base[c] \cup {r \in R : f[r] = c} ELSE paths[c]]

At(p, k, s) == req[p].kind = k /\ req[p].stage = s

\* confirm: the row is confirmed; its match is the one read, the row's own is not written.
Confirm(p) ==
    /\ At(p, "confirm", "held") /\ RecordsFree(p, Touched(p))
    /\ result' = [r \in Results |-> IF r \in req[p].rows /\ Present(r)
                    THEN [result[r] EXCEPT !.status = "listed", !.confirmed = TRUE] ELSE result[r]]
    /\ link' \in Upserts(link, req[p].rows, req[p].seen)
    /\ End(p)
    /\ UNCHANGED <<record, paths, alias, rejected, excluded>>

Reject(p) ==
    /\ At(p, "reject", "read") /\ RowsFree(p, req[p].rows)
    /\ result' = Mark(req[p].rows, "listed", Null)
    /\ link' = Unlinked(p)
    /\ End(p)
    /\ UNCHANGED <<record, paths, alias, rejected, excluded>>

Ignore(p) ==
    /\ At(p, "ignore", "read") /\ RowsFree(p, req[p].rows)
    /\ excluded' = excluded \cup {PluginOf[r] : r \in req[p].rows}
    /\ link' = Unlinked(p)
    /\ result' = [r \in Results |-> IF r \in req[p].rows /\ Present(r)
                    THEN [result[r] EXCEPT !.status = "excluded", !.confirmed = TRUE] ELSE result[r]]
    /\ End(p)
    /\ UNCHANGED <<record, paths, alias, rejected>>

\* create: a new record becomes the match.
Create(p) ==
    /\ At(p, "create", "read") /\ RowsFree(p, req[p].rows)
    /\ record' = [record EXCEPT ![req[p].target] = "live"]
    /\ result' = Mark(req[p].rows, "listed", req[p].target)
    /\ link' \in Upserts(link, req[p].rows, [r \in Results |-> req[p].target])
    /\ End(p)
    /\ UNCHANGED <<paths, alias, rejected, excluded>>

ForceMatch(p) ==
    /\ At(p, "force", "read") /\ RowsFree(p, req[p].rows)
    /\ result' = Mark(req[p].rows, "listed", req[p].target)
    /\ link' \in Upserts(link, req[p].rows, [r \in Results |-> req[p].target])
    /\ End(p)
    /\ UNCHANGED <<record, paths, alias, rejected, excluded>>

\* acknowledge, and keep_all of a collision: every row or none.
Acknowledge(p) ==
    /\ At(p, "acknowledge", "held") /\ RowsFree(p, req[p].rows)
    /\ paths' = Recorded(req[p].paths, req[p].rows, req[p].seen)
    /\ result' = Confirmed(req[p].rows)
    /\ link' \in Upserts(link, req[p].rows, req[p].seen)
    /\ End(p)
    /\ UNCHANGED <<record, alias, rejected, excluded>>

\* remove_straggler: the keeper is acknowledged, the other copies are dismissed.
RemoveStraggler(p) ==
    LET k == req[p].keeper IN
    /\ At(p, "straggler", "held")
    /\ RecordsFree(p, Touched(p))
    /\ paths' = Recorded(paths, {k}, req[p].seen)
    /\ result' = [r \in Results |->
                    CASE r = k -> [result[r] EXCEPT !.confirmed = TRUE]
                      [] r \in req[p].rows \ {k} -> [result[r] EXCEPT !.dismissed = TRUE]
                      [] OTHER -> result[r]]
    /\ link' \in Upserts(link, {k}, req[p].seen)
    /\ End(p)
    /\ UNCHANGED <<record, alias, rejected, excluded>>

\* Mutant of Agreeing: what _write_alias returns is not looked at.
AgreeingAll(p, A) == req[p].rows

\* An alias that is there stays; a row that contradicts it is left for review.
Agreeing(p, A) == {r \in req[p].rows : A[PluginOf[r]] = req[p].seen[r]}

PersistResolutions(p) ==
    /\ At(p, "pattern", "held") /\ RowsFree(p, req[p].rows)
    /\ alias' \in Upserts(alias, {r \in req[p].rows : alias[PluginOf[r]] = Null}, req[p].seen)
    /\ paths' = Recorded(req[p].paths, Agreeing(p, alias'), req[p].seen)
    /\ result' = Confirmed(Agreeing(p, alias'))
    /\ End(p)
    /\ UNCHANGED <<record, link, rejected, excluded>>

AcknowledgeClean(p) ==
    /\ At(p, "clean", "read") /\ RowsFree(p, req[p].rows)
    /\ result' = Confirmed(req[p].rows)
    /\ End(p)
    /\ UNCHANGED <<record, paths, link, alias, rejected, excluded>>

\* POST /results/{id}/reject: the match read before the transaction is rejected.
RejectMatch(p) ==
    /\ At(p, "reject_match", "read") /\ RowsFree(p, req[p].rows)
    /\ rejected' = rejected \cup
         {<<PluginOf[r], req[p].seen[r]>> : r \in {x \in req[p].rows : req[p].seen[x] # Null}}
    /\ result' = [r \in Results |-> IF r \in req[p].rows /\ Present(r)
                    THEN [result[r] EXCEPT !.rec = Null, !.confirmed = FALSE] ELSE result[r]]
    /\ End(p)
    /\ UNCHANGED <<record, paths, link, alias, excluded>>

Purged(p) == rejected \ {<<PluginOf[r], req[p].target>> : r \in req[p].rows}

\* POST /links has no transaction: the link is committed before the rejection is purged.
WriteLink(p) ==
    /\ At(p, "link", "read")
    /\ link' \in Upserts(link, req[p].rows, [r \in Results |-> req[p].target])
    /\ req' = [req EXCEPT ![p].stage = "linked"]
    /\ UNCHANGED <<result, record, paths, alias, rejected, excluded, ops>>
OptimisticPurge(p) ==
    /\ At(p, "link", "linked")
    /\ rejected' = Purged(p)
    /\ End(p)
    /\ UNCHANGED <<result, record, paths, link, alias, excluded>>

\* POST /links/bulk has one.
BulkLink(p) ==
    /\ At(p, "links", "read")
    /\ link' \in Upserts(link, req[p].rows, [r \in Results |-> req[p].target])
    /\ rejected' = Purged(p)
    /\ End(p)
    /\ UNCHANGED <<result, record, paths, alias, excluded>>

-----------------------------------------------------------------------------
(***************************************************************************)
(* Requests that end without a write.                                      *)
(***************************************************************************)
\* The client or the connection goes away, a statement fails, or PostgreSQL ends a
\* cycle of waits: what is not committed is undone, and no handler tries again.
Fail(p) == req[p].stage # "idle" /\ End(p) /\ UNCHANGED tables

-----------------------------------------------------------------------------
(***************************************************************************)
(* Operations of one statement or one transaction without earlier reads.   *)
(***************************************************************************)
Op == ops < MaxOps /\ ops' = ops + 1 /\ UNCHANGED req

DismissResult(r) ==
    /\ Op /\ Present(r) /\ \A q \in Requests : r \notin HeldRows(q)
    /\ result' = [result EXCEPT ![r].dismissed = TRUE]
    /\ UNCHANGED <<record, paths, link, alias, rejected, excluded>>

\* POST /aliases; 409 when the name has another record.
CreateAlias(d, c) ==
    /\ Op /\ record[c] = "live" /\ alias[d] \in {Null, c}
    /\ alias' = [alias EXCEPT ![d] = c]
    /\ UNCHANGED <<result, record, paths, link, rejected, excluded>>

DeleteRejection(x) ==
    /\ Op /\ x \in rejected
    /\ rejected' = rejected \ {x}
    /\ UNCHANGED <<result, record, paths, link, alias, excluded>>

RemoveExclusion(d) ==
    /\ Op /\ d \in excluded
    /\ excluded' = excluded \ {d}
    /\ UNCHANGED <<result, record, paths, link, alias, rejected>>

\* DELETE of a catalog record.
SoftDelete(c) ==
    /\ Op /\ record[c] = "live" /\ \A q \in Requests : c \notin HeldRecords(q)
    /\ record' = [record EXCEPT ![c] = "deleted"]
    /\ UNCHANGED <<result, paths, link, alias, rejected, excluded>>

\* PATCH of a catalog record: its form replaces disk_paths as a whole.
EditPaths(c, S) ==
    /\ Op /\ record[c] = "live" /\ \A q \in Requests : c \notin HeldRecords(q)
    /\ paths' = [paths EXCEPT ![c] = S]
    /\ UNCHANGED <<result, record, link, alias, rejected, excluded>>

\* Everything but the links.
ResetHard ==
    /\ Op /\ \A q \in Requests : HeldRows(q) = {}
    /\ result' = [r \in Results |-> NoResult]
    /\ alias' = [d \in Plugins |-> Null]
    /\ rejected' = {}
    /\ excluded' = {}
    /\ UNCHANGED <<record, paths, link>>

-----------------------------------------------------------------------------
Arrive(p) ==
    \/ \E k \in (RowKinds \ {"clean"}) \cup {"acknowledge", "confirm"},
          R \in SUBSET Results, t \in Match : ReadResults(p, k, R, t)
    \/ \E R \in SUBSET Results : ReadClean(p, R)
    \/ \E R \in SUBSET Results, f \in [Results -> Match] : ReadPattern(p, R, f)
    \/ \E R \in SUBSET Results, k \in Results : LockCopies(p, R, k)

Handle(p) ==
    \/ (\E c \in Records : LockRecord(p, c)) \/ LockRow(p)
    \/ Confirm(p) \/ Reject(p) \/ Ignore(p) \/ Create(p) \/ ForceMatch(p)
    \/ Acknowledge(p) \/ RemoveStraggler(p) \/ PersistResolutions(p) \/ AcknowledgeClean(p)
    \/ RejectMatch(p) \/ WriteLink(p) \/ OptimisticPurge(p) \/ BulkLink(p)

Single ==
    \/ \E r \in Results : DismissResult(r)
    \/ \E d \in Plugins, c \in Records : CreateAlias(d, c)
    \/ \E x \in Plugins \X Records : DeleteRejection(x)
    \/ \E d \in Plugins : RemoveExclusion(d)
    \/ \E c \in Records : SoftDelete(c)
    \/ \E c \in Records, S \in SUBSET Results : EditPaths(c, S)
    \/ ResetHard

Next == (\E p \in Requests : Arrive(p) \/ Handle(p) \/ Fail(p)) \/ Single

Spec == Init /\ [][Next]_vars

-----------------------------------------------------------------------------
(***************************************************************************)
(* Properties.                                                             *)
(***************************************************************************)
\* The types of the tables and of what requests keep.
TypeOK ==
    /\ result \in [Results -> Result]
    /\ record \in [Records -> {"unused", "live", "deleted"}]
    /\ paths \in [Records -> SUBSET Results]
    /\ link \in [Plugins -> Match]
    /\ alias \in [Plugins -> Match]
    /\ rejected \subseteq Plugins \X Records
    /\ excluded \subseteq Plugins
    /\ req \in [Requests -> Request]
    /\ \A p \in Requests : req[p].kind = "straggler" => req[p].keeper \in req[p].rows
    /\ ops \in 0 .. MaxOps

\* No decision takes an install off a catalog record, only an editor's form does:
\* of two requests that append to one record's disk_paths neither loses the
\* other's entry, nor what an editor wrote meanwhile (append_disk_path's FOR UPDATE).
PathsKept ==
    [][\A c \in Records : paths[c] \subseteq paths'[c] \/ EditPaths(c, paths'[c])]_vars

\* The resolution of a collision leaves the copy it was told to keep: it is still
\* shown and confirmed, and the record of each copy that was dismissed with it
\* has the kept install on it, whoever else decides about the same rows meanwhile
\* (_lock_copies, _resolve_remove_straggler).
Resolves(p) == At(p, "straggler", "held") /\ req'[p] # req[p] /\ result' # result
CopyKept ==
    [][\A p \in Requests : Resolves(p) =>
        LET k == req[p].keeper IN
        /\ ~result'[k].dismissed /\ result'[k].confirmed
        /\ \A r \in req[p].rows :
             result'[r].dismissed => result[r].rec # Null /\ k \in paths'[result[r].rec]]_vars

\* The first alias of a disk name wins: only a hard reset, which takes all of
\* them, takes it away again (_write_alias, _upsert_alias).
AliasKept ==
    [][\A d \in Plugins : alias[d] # Null /\ alias'[d] # alias[d] =>
        \A e \in Plugins : alias'[e] = Null]_vars

\* A row that a pattern's acknowledge-clean confirms or records on disk is resolved
\* by the alias of its name to the same record (_persist_resolutions), although
\* another request may have written the alias since the row was resolved.
Persists(p) == At(p, "pattern", "held") /\ req'[p] # req[p] /\ tables' # tables
PatternAgrees ==
    [][\A p \in Requests : Persists(p) =>
        \A r \in req[p].rows :
            LET c == req[p].seen[r] IN
            \/ alias'[PluginOf[r]] = c /\ r \in paths'[c]
            \/ result'[r] = result[r] /\ (r \in paths'[c] => r \in paths[c])]_vars

=============================================================================

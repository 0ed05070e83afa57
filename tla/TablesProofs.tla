---------------------------- MODULE TablesProofs ----------------------------
(***************************************************************************)
(* Proofs about the rows of a table and the table that shows them.         *)
(* GearList, the service of the gear tables, for all sets of gear, types   *)
(* and requests: its types, that a row is deleted once, that what History  *)
(* may list first shows the row, and that the old rows of the entries are  *)
(* explained.  TableView, the paged tables: their types, that the rows     *)
(* shown are those the controls ask for, and that the view kept is the     *)
(* view that is seen.                                                      *)
(***************************************************************************)
EXTENDS GearList, TableView, SequenceTheorems, FiniteSetTheorems, TLAPS

-----------------------------------------------------------------------------
(***************************************************************************)
(* GearList: the service of the gear tables.                               *)
(***************************************************************************)
\* Whose write an entry is of: a creation's, or that of request p.
Source(r, op, old, since, began) ==
    \/ op = "CREATE" /\ since = Len(log) /\ began = Len(log)
    \/ \E p \in Requests : /\ req[p].step = "write" /\ req[p].rec = r /\ req[p].old = old
                           /\ req[p].since = since /\ req[p].began = began

\* What a step that writes does, whatever the handler: it replaces one row that
\* was not deleted and appends the entry of that change.
Writes(r, op, old, new, now, since, began) ==
    /\ row' = [row EXCEPT ![r] = now]
    /\ WriteAudit(r, op, old, new, since, began)
    /\ Source(r, op, old, since, began)
    /\ \/ op = "CREATE" /\ row[r].state = "unused" /\ now.state = "live" /\ new = now
       \/ op = "UPDATE" /\ row[r].state = "live" /\ now.state = "live" /\ new = now
       \/ op = "DELETE" /\ row[r].state = "live" /\ now.state = "deleted"

Ops == {"CREATE", "UPDATE", "DELETE"}

\* An appended entry leaves the others in place and has the type of an entry.
LEMMA WriteAuditAppends ==
    ASSUME TypeOK, NEW r \in Records, NEW op \in Ops, NEW old \in GearRow, NEW new \in GearRow,
           NEW since \in Nat, NEW began \in Nat, WriteAudit(r, op, old, new, since, began)
    PROVE  /\ log' \in Seq(Entry)
           /\ Len(log) \in Nat /\ Len(log') = Len(log) + 1
           /\ \A i \in Ids : log'[i] = log[i]
           /\ log'[Len(log) + 1] = [rec |-> r, op |-> op, old |-> old, new |-> new,
                                    since |-> since, began |-> began]
<1> DEFINE e == [rec |-> r, op |-> op, old |-> old, new |-> new,
                 since |-> since, began |-> began]
<1>1. log \in Seq(Entry)
  BY DEF TypeOK
<1>2. e \in Entry
  BY DEF Entry, Ops
<1>3. log' = Append(log, e)
  BY DEF WriteAudit
<1> HIDE DEF e
<1>4. /\ log' \in Seq(Entry)
      /\ Len(log) \in Nat /\ Len(log') = Len(log) + 1
      /\ \A i \in 1 .. Len(log) : log'[i] = log[i]
      /\ log'[Len(log) + 1] = e
  BY <1>1, <1>2, <1>3
<1> QED
  BY <1>4 DEF e, Ids

\* The rows the handlers write are rows.
LEMMA RowTypes ==
    /\ NoRow \in GearRow /\ Idle \in Request
    /\ \A r \in Records : Values(r) \subseteq Vals
    /\ \A v \in Vals : [state |-> "live", val |-> v, photo |-> Null] \in GearRow
    /\ \A x \in GearRow : [x EXCEPT !.state = "deleted"] \in GearRow
    /\ \A x \in GearRow, v \in Vals : [x EXCEPT !.val = IF v = Null THEN @ ELSE v] \in GearRow
    /\ \A x \in GearRow, e \in Exts : [x EXCEPT !.photo = e] \in GearRow
<1>1. NoRow \in GearRow /\ Idle \in Request
  BY DEF NoRow, Idle, GearRow, Request, Vals
<1>2. \A r \in Records : Values(r) \subseteq Vals
  BY DEF Values, Vals
<1>3. \A v \in Vals : [state |-> "live", val |-> v, photo |-> Null] \in GearRow
  BY DEF GearRow
<1>4. \A x \in GearRow : [x EXCEPT !.state = "deleted"] \in GearRow
  BY DEF GearRow
<1>5. \A x \in GearRow, v \in Vals : [x EXCEPT !.val = IF v = Null THEN @ ELSE v] \in GearRow
  BY DEF GearRow
<1>6. \A x \in GearRow, e \in Exts : [x EXCEPT !.photo = e] \in GearRow
  BY DEF GearRow
<1> QED
  BY <1>1, <1>2, <1>3, <1>4, <1>5, <1>6

\* Some write of the shape above.
SomeWrite ==
    \E r \in Records, op \in Ops, old \in GearRow, new \in GearRow, now \in GearRow,
       since \in Nat, began \in Nat : Writes(r, op, old, new, now, since, began)

\* The write of a request that changed a live row: its entry is the request's.
LEMMA RequestWrites ==
    ASSUME TypeOK, NEW p \in Requests, req[p].rec \in Records, req[p].step = "write",
           NEW op \in Ops, NEW new \in GearRow, NEW now \in GearRow,
           row[req[p].rec].state = "live", row' = [row EXCEPT ![req[p].rec] = now],
           WriteAuditOf(p, op, new),
           \/ op = "UPDATE" /\ now.state = "live" /\ new = now
           \/ op = "DELETE" /\ now.state = "deleted"
    PROVE  SomeWrite
<1>1. req[p] \in Request
  BY DEF TypeOK
<1>2. req[p].old \in GearRow /\ req[p].since \in Nat /\ req[p].began \in Nat
  BY <1>1 DEF Request
<1>3. Source(req[p].rec, op, req[p].old, req[p].since, req[p].began)
  BY DEF Source
<1>4. Writes(req[p].rec, op, req[p].old, new, now, req[p].since, req[p].began)
  BY <1>3 DEF Writes, WriteAuditOf
<1> QED
  BY <1>2, <1>4 DEF SomeWrite

\* Every step either leaves rows and log alone or is a write of the shape above.
LEMMA StepShapes ==
    ASSUME TypeOK, [Next]_vars
    PROVE  UNCHANGED <<row, log>> \/ SomeWrite
<1>0. /\ \A r \in Records : row[r] \in GearRow
      /\ \A p \in Requests :
            /\ req[p].kind \in {"update", "delete"} => req[p].rec \in Records
            /\ req[p].kind \in {"setkey", "cleanup"} =>
                  req[p].rec \in Gear /\ req[p].ext \in Exts
  BY DEF TypeOK
<1>1. CASE UNCHANGED vars
  BY <1>1 DEF vars
<1>2. ASSUME NEW r \in Records, NEW v \in Values(r), Create(r, v)
      PROVE  SomeWrite
  <2> DEFINE now == [state |-> "live", val |-> v, photo |-> Null]
  <2>1. now \in GearRow /\ NoRow \in GearRow
    BY RowTypes
  <2>2. Len(log) \in Nat
    BY DEF TypeOK
  <2>3. Source(r, "CREATE", NoRow, Len(log), Len(log))
    BY DEF Source
  <2>4. Writes(r, "CREATE", NoRow, now, now, Len(log), Len(log))
    BY <1>2, <2>3 DEF Create, Writes
  <2> QED
    BY <2>1, <2>2, <2>4 DEF Ops, SomeWrite
<1>3. ASSUME NEW p \in Requests, NEW v \in Vals, CommitUpdate(p, v)
      PROVE  SomeWrite
  <2> DEFINE r == req[p].rec
             now == [row[r] EXCEPT !.val = IF v = Null THEN @ ELSE v]
  <2>1. r \in Records /\ row[r] \in GearRow
    BY <1>0, <1>3 DEF CommitUpdate
  <2>2. now \in GearRow /\ now.state = row[r].state
    BY <2>1, RowTypes DEF GearRow
  <2>3. row[r].state = "live" /\ row' = [row EXCEPT ![r] = now]
        /\ WriteAuditOf(p, "UPDATE", now) /\ req[p].step = "write"
    BY <1>3 DEF CommitUpdate, Live
  <2> HIDE DEF now
  <2> QED
    BY <2>1, <2>2, <2>3, RequestWrites DEF Ops
<1>4. ASSUME NEW p \in Requests, CommitDelete(p)
      PROVE  SomeWrite
  <2> DEFINE r == req[p].rec
             now == [row[r] EXCEPT !.state = "deleted"]
  <2>1. r \in Records /\ row[r] \in GearRow
    BY <1>0, <1>4 DEF CommitDelete
  <2>2. now \in GearRow /\ now.state = "deleted" /\ NoRow \in GearRow
    BY <2>1, RowTypes DEF GearRow
  <2>3. row[r].state = "live" /\ row' = [row EXCEPT ![r] = now]
        /\ WriteAuditOf(p, "DELETE", NoRow) /\ req[p].step = "write"
    BY <1>4 DEF CommitDelete, Live
  <2> HIDE DEF now
  <2> QED
    BY <2>1, <2>2, <2>3, RequestWrites DEF Ops
<1>5. ASSUME NEW p \in Requests, SetPhotoKey(p)
      PROVE  SomeWrite
  <2> DEFINE r == req[p].rec
             now == [row[r] EXCEPT !.photo = req[p].ext]
  <2>1. r \in Records /\ row[r] \in GearRow /\ req[p].ext \in Exts
    BY <1>0, <1>5 DEF SetPhotoKey, Records
  <2>2. now \in GearRow /\ now.state = row[r].state
    BY <2>1, RowTypes DEF GearRow
  <2>3. row[r].state = "live" /\ row' = [row EXCEPT ![r] = now]
        /\ WriteAuditOf(p, "UPDATE", now) /\ req[p].step = "write"
    BY <1>5 DEF SetPhotoKey, Live
  <2> HIDE DEF now
  <2> QED
    BY <2>1, <2>2, <2>3, RequestWrites DEF Ops
<1>6. ASSUME NEW p \in Requests,
             \/ \E r \in Records, kind \in {"update", "delete"} : BeginWrite(p, r, kind)
             \/ Rollback(p)
             \/ \E g \in Gear, e \in Exts : Upload(p, g, e)
             \/ BeginTx(p) \/ Get(p)
             \/ PhotoFails(p)
             \/ CleanupPhoto(p)
      PROVE  UNCHANGED <<row, log>>
  BY <1>6 DEF BeginWrite, Rollback, Upload, BeginTx, Get, PhotoFails, CleanupPhoto
<1>7. CASE Crash
  BY <1>7 DEF Crash
<1> QED
  BY <1>1, <1>2, <1>3, <1>4, <1>5, <1>6, <1>7 DEF Next

-----------------------------------------------------------------------------
(***************************************************************************)
(* Type correctness.                                                       *)
(***************************************************************************)

\* What a request is, with the record and the format its kind needs.
RequestOK(x) ==
    /\ x \in Request
    /\ x.kind \in {"update", "delete"} => x.rec \in Records
    /\ x.kind \in {"setkey", "cleanup"} => x.rec \in Gear /\ x.ext \in Exts
    /\ x.kind \in {"idle", "cleanup"} => x.step # "read"

\* The ways a step changes one request that goes on, by the action that takes it.
LEMMA RequestSteps ==
    ASSUME TypeOK, [Next]_vars, NEW p \in Requests
    PROVE  \/ req'[p] = req[p]
           \/ req'[p] = Idle
           \/ \E r \in Records, kind \in {"update", "delete"} : BeginWrite(p, r, kind)
           \/ BeginTx(p) \/ Get(p)
           \/ \E g \in Gear, e \in Exts : Upload(p, g, e)
           \/ PhotoFails(p)
<1>0. req \in [Requests -> Request]
  BY DEF TypeOK
<1>1. ASSUME NEW q \in Requests, NEW x, req' = [req EXCEPT ![q] = x], p # q
      PROVE  req'[p] = req[p]
  BY <1>0, <1>1
<1>2. ASSUME NEW q \in Requests, Finish(q)
      PROVE  req'[p] = req[p] \/ req'[p] = Idle
  BY <1>0, <1>2 DEF Finish
<1>3. ASSUME NEW q \in Requests,
             \/ \E v \in Vals : CommitUpdate(q, v)
             \/ CommitDelete(q) \/ Rollback(q) \/ SetPhotoKey(q) \/ CleanupPhoto(q)
      PROVE  Finish(q)
  BY <1>3 DEF CommitUpdate, CommitDelete, Rollback, SetPhotoKey, CleanupPhoto
<1>4. ASSUME NEW q \in Requests,
             \/ \E r \in Records, kind \in {"update", "delete"} : BeginWrite(q, r, kind)
             \/ BeginTx(q) \/ Get(q)
             \/ \E g \in Gear, e \in Exts : Upload(q, g, e)
             \/ PhotoFails(q),
             p # q
      PROVE  req'[p] = req[p]
  BY <1>0, <1>4 DEF BeginWrite, BeginTx, Get, Upload, PhotoFails
<1>5. CASE Crash
  BY <1>5 DEF Crash
<1>6. CASE \E r \in Records : \E v \in Values(r) : Create(r, v)
  BY <1>6 DEF Create
<1>7. CASE UNCHANGED vars
  BY <1>7 DEF vars
<1> QED
  BY <1>2, <1>3, <1>4, <1>5, <1>6, <1>7 DEF Next

\* What a request becomes when it goes on, field by field.
LEMMA RequestFields ==
    ASSUME TypeOK, NEW p \in Requests
    PROVE  /\ \A r \in Records, kind \in {"update", "delete"} : BeginWrite(p, r, kind) =>
                 /\ RequestOK(req'[p])
                 /\ req'[p].rec = r /\ req'[p].since = Len(log)
                 /\ req'[p].began \in {0, Len(log)}
                 /\ \/ req'[p].step = "read"
                    \/ req'[p].step = "begin" /\ Live(r) /\ req'[p].old = row[r]
           /\ BeginTx(p) =>
                 /\ RequestOK(req'[p])
                 /\ req'[p].rec = req[p].rec /\ req'[p].old = req[p].old
                 /\ req'[p].since \in {req[p].since, Len(log)} /\ req'[p].began = Len(log)
                 /\ \/ req'[p].step = "read"
                    \/ req[p].kind = "delete" /\ req[p].step = "begin"
                       /\ req'[p].since = req[p].since
           /\ Get(p) =>
                 /\ RequestOK(req'[p])
                 /\ Live(req[p].rec) /\ req[p].rec \in Records
                 /\ req'[p].rec = req[p].rec /\ req'[p].old = row[req[p].rec]
                 /\ req'[p].since = req[p].since /\ req'[p].began = req[p].began
           /\ \A g \in Gear, e \in Exts : Upload(p, g, e) =>
                 /\ RequestOK(req'[p])
                 /\ req'[p].kind = "setkey" /\ req'[p].step = "begin"
                 /\ req'[p].since = 0 /\ req'[p].began = 0
           /\ PhotoFails(p) =>
                 /\ RequestOK(req'[p])
                 /\ req'[p].kind = "cleanup" /\ req'[p].step = "begin"
                 /\ req'[p].since = 0 /\ req'[p].began = 0
<1>0. /\ req \in [Requests -> Request] /\ Len(log) \in Nat
      /\ RequestOK(req[p]) /\ \A r \in Records : row[r] \in GearRow
  BY DEF TypeOK, RequestOK
<1>1. ASSUME NEW r \in Records, NEW kind \in {"update", "delete"}, BeginWrite(p, r, kind)
      PROVE  /\ RequestOK(req'[p])
             /\ req'[p].rec = r /\ req'[p].since = Len(log)
             /\ req'[p].began \in {0, Len(log)}
             /\ \/ req'[p].step = "read"
                \/ req'[p].step = "begin" /\ Live(r) /\ req'[p].old = row[r]
  <2> DEFINE start == [Idle EXCEPT !.kind = kind, !.rec = r, !.since = Len(log)]
             a == [start EXCEPT !.step = "read", !.began = Len(log)]
             b == [start EXCEPT !.old = row[r]]
  <2>1. /\ RequestOK(a) /\ a.rec = r /\ a.since = Len(log) /\ a.began = Len(log)
        /\ a.step = "read"
    BY <1>0, RowTypes DEF RequestOK, Request, Idle
  <2>2. /\ RequestOK(b) /\ b.rec = r /\ b.since = Len(log) /\ b.began = 0
        /\ b.step = "begin" /\ b.old = row[r]
    BY <1>0, RowTypes DEF RequestOK, Request, Idle
  <2>3. req' = [req EXCEPT ![p] = a] \/ (req' = [req EXCEPT ![p] = b] /\ Live(r))
    BY <1>1 DEF BeginWrite
  <2> HIDE DEF a, b
  <2>4. req'[p] = a \/ (req'[p] = b /\ Live(r))
    BY <1>0, <2>3
  <2> QED
    BY <2>1, <2>2, <2>4
<1>2. ASSUME BeginTx(p)
      PROVE  /\ RequestOK(req'[p])
             /\ req'[p].rec = req[p].rec /\ req'[p].old = req[p].old
             /\ req'[p].since \in {req[p].since, Len(log)} /\ req'[p].began = Len(log)
             /\ \/ req'[p].step = "read"
                \/ req[p].kind = "delete" /\ req[p].step = "begin"
                   /\ req'[p].since = req[p].since
  <2> DEFINE y == req[p]
             x == [y EXCEPT !.began = Len(log),
                            !.since = IF y.kind = "setkey" THEN Len(log) ELSE @,
                            !.step = IF y.kind = "setkey" THEN "read" ELSE "write"]
  <2>1. req'[p] = x /\ y.kind \in {"delete", "setkey"} /\ y.step = "begin"
    BY <1>0, <1>2 DEF BeginTx
  <2>2. y \in Request
    BY <1>0 DEF RequestOK
  <2>3. /\ x \in Request /\ x.kind = y.kind /\ x.rec = y.rec /\ x.old = y.old /\ x.ext = y.ext
        /\ x.began = Len(log)
        /\ x.since = IF y.kind = "setkey" THEN Len(log) ELSE y.since
        /\ x.step = IF y.kind = "setkey" THEN "read" ELSE "write"
    BY <2>2, <1>0 DEF Request
  <2> HIDE DEF x
  <2>4. RequestOK(y)
    BY <1>0
  <2> QED
    BY <2>1, <2>3, <2>4 DEF RequestOK
<1>3. ASSUME Get(p)
      PROVE  /\ RequestOK(req'[p])
             /\ Live(req[p].rec) /\ req[p].rec \in Records
             /\ req'[p].rec = req[p].rec /\ req'[p].old = row[req[p].rec]
             /\ req'[p].since = req[p].since /\ req'[p].began = req[p].began
  <2> DEFINE y == req[p]
             x == [y EXCEPT !.step = "write", !.old = row[y.rec]]
  <2>1. req'[p] = x /\ y.step = "read" /\ Live(y.rec)
    BY <1>0, <1>3 DEF Get
  <2>2. y \in Request /\ RequestOK(y)
    BY <1>0 DEF RequestOK
  <2>3. y.kind \in {"update", "delete", "setkey"}
    BY <2>1, <2>2 DEF RequestOK, Request
  <2>4. y.rec \in Records /\ row[y.rec] \in GearRow
    BY <1>0, <2>2, <2>3 DEF RequestOK, Records
  <2>5. /\ x \in Request /\ x.kind = y.kind /\ x.rec = y.rec /\ x.old = row[y.rec]
        /\ x.ext = y.ext /\ x.since = y.since /\ x.began = y.began /\ x.step = "write"
    BY <2>2, <2>4 DEF Request
  <2> HIDE DEF x
  <2> QED
    BY <2>1, <2>2, <2>4, <2>5 DEF RequestOK
<1>4. ASSUME NEW g \in Gear, NEW e \in Exts, Upload(p, g, e)
      PROVE  /\ RequestOK(req'[p])
             /\ req'[p].kind = "setkey" /\ req'[p].step = "begin"
             /\ req'[p].since = 0 /\ req'[p].began = 0
  <2> DEFINE x == [Idle EXCEPT !.kind = "setkey", !.rec = g, !.ext = e]
  <2>1. /\ RequestOK(x) /\ x.kind = "setkey" /\ x.step = "begin"
        /\ x.since = 0 /\ x.began = 0
    BY RowTypes DEF RequestOK, Request, Idle, Records
  <2>2. req' = [req EXCEPT ![p] = x]
    BY <1>4 DEF Upload
  <2> HIDE DEF x
  <2> QED
    BY <1>0, <2>1, <2>2
<1>5. ASSUME PhotoFails(p)
      PROVE  /\ RequestOK(req'[p])
             /\ req'[p].kind = "cleanup" /\ req'[p].step = "begin"
             /\ req'[p].since = 0 /\ req'[p].began = 0
  <2> DEFINE x == [Idle EXCEPT !.kind = "cleanup", !.rec = req[p].rec, !.ext = req[p].ext]
  <2>1. req[p].rec \in Gear /\ req[p].ext \in Exts
    BY <1>0, <1>5 DEF PhotoFails, RequestOK
  <2>2. /\ RequestOK(x) /\ x.kind = "cleanup" /\ x.step = "begin"
        /\ x.since = 0 /\ x.began = 0
    BY <2>1, RowTypes DEF RequestOK, Request, Idle, Records
  <2>3. req' = [req EXCEPT ![p] = x]
    BY <1>5 DEF PhotoFails
  <2> HIDE DEF x
  <2> QED
    BY <1>0, <2>2, <2>3
<1> QED
  BY <1>1, <1>2, <1>3, <1>4, <1>5

\* The request table keeps its type, and a request about to write its record.
LEMMA RequestTypes ==
    ASSUME TypeOK, [Next]_vars
    PROVE  req' \in [Requests -> Request] /\ \A p \in Requests : RequestOK(req'[p])
<1>0. /\ req \in [Requests -> Request] /\ \A p \in Requests : RequestOK(req[p])
  BY DEF TypeOK, RequestOK
<1>1. RequestOK(Idle)
  BY RowTypes DEF Idle, RequestOK
<1>2. ASSUME NEW p \in Requests PROVE RequestOK(req'[p])
  BY <1>0, <1>1, RequestSteps, RequestFields
<1>3. \A p \in Requests : req'[p] \in Request
  BY <1>2 DEF RequestOK
<1>4. CASE UNCHANGED req
  BY <1>0, <1>2, <1>4
<1>5. ASSUME NEW q \in Requests, NEW x, req' = [req EXCEPT ![q] = x]
      PROVE  req' \in [Requests -> Request]
  BY <1>0, <1>3, <1>5
<1>6. CASE Crash
  BY <1>1, <1>6 DEF Crash, RequestOK
<1>7. ASSUME NEW q \in Requests, BeginTx(q)
      PROVE  req' \in [Requests -> Request]
  <2>1. req' = [p \in Requests |-> req'[p]]
    BY <1>0, <1>7 DEF BeginTx
  <2> QED
    BY <1>3, <2>1
<1>8. ASSUME NEW q \in Requests, NEW r \in Records, NEW kind \in {"update", "delete"},
             BeginWrite(q, r, kind)
      PROVE  req' \in [Requests -> Request]
  BY <1>5, <1>8 DEF BeginWrite
<1>9. ASSUME NEW q \in Requests,
             \/ Get(q) \/ PhotoFails(q)
             \/ \E g \in Gear, e \in Exts : Upload(q, g, e)
      PROVE  req' \in [Requests -> Request]
  <2>1. CASE Get(q)
    <3>1. req' = [p \in Requests |-> req'[p]]
      BY <1>0, <2>1 DEF Get
    <3> QED
      BY <1>3, <3>1
  <2>2. CASE PhotoFails(q) \/ \E g \in Gear, e \in Exts : Upload(q, g, e)
    BY <1>5, <2>2 DEF PhotoFails, Upload
  <2> QED
    BY <1>9, <2>1, <2>2
<1>10. ASSUME NEW q \in Requests,
              \/ \E v \in Vals : CommitUpdate(q, v)
              \/ CommitDelete(q) \/ Rollback(q) \/ SetPhotoKey(q) \/ CleanupPhoto(q)
       PROVE  req' \in [Requests -> Request]
  <2>1. Finish(q)
    BY <1>10 DEF CommitUpdate, CommitDelete, Rollback, SetPhotoKey, CleanupPhoto
  <2> QED
    BY <2>1, <1>5 DEF Finish
<1>11. CASE \E r \in Records : \E v \in Values(r) : Create(r, v)
  BY <1>11, <1>4 DEF Create
<1>12. CASE UNCHANGED vars
  BY <1>12, <1>4 DEF vars
<1> QED
  BY <1>2, <1>6, <1>7, <1>8, <1>9, <1>10, <1>11, <1>12 DEF Next

\* Rows, log, bucket and the requests in flight keep their types.
THEOREM TypeCorrect == Spec => []TypeOK
<1>1. Init => TypeOK
  BY RowTypes DEF Init, TypeOK, Idle
<1>2. TypeOK /\ [Next]_vars => TypeOK'
  <2> SUFFICES ASSUME TypeOK, [Next]_vars PROVE TypeOK'
    OBVIOUS
  <2>1. row' \in [Records -> GearRow] /\ log' \in Seq(Entry)
    <3>1. CASE UNCHANGED <<row, log>>
      BY <3>1 DEF TypeOK
    <3>2. ASSUME NEW r \in Records, NEW op \in Ops, NEW old \in GearRow, NEW new \in GearRow,
                 NEW now \in GearRow, NEW since \in Nat, NEW began \in Nat,
                 Writes(r, op, old, new, now, since, began)
          PROVE  row' \in [Records -> GearRow] /\ log' \in Seq(Entry)
      <4>1. log' \in Seq(Entry)
        BY <3>2, WriteAuditAppends DEF Writes
      <4> QED
        BY <4>1, <3>2 DEF Writes, TypeOK
    <3> QED
      BY <3>1, <3>2, StepShapes DEF SomeWrite
  <2>2. bucket' \subseteq Gear \X Exts
    <3>1. bucket \subseteq Gear \X Exts
      BY DEF TypeOK
    <3>2. CASE \E p \in Requests, g \in Gear, e \in Exts : Upload(p, g, e)
      BY <3>1, <3>2 DEF Upload
    <3>3. CASE \E p \in Requests : CleanupPhoto(p)
      BY <3>1, <3>3 DEF CleanupPhoto
    <3>4. CASE UNCHANGED bucket
      BY <3>1, <3>4
    <3> QED
      BY <3>2, <3>3, <3>4 DEF Next, vars, Create, BeginWrite, BeginTx, Get, CommitUpdate,
         CommitDelete, Rollback, SetPhotoKey, PhotoFails, Crash
  <2> QED
    BY <2>1, <2>2, RequestTypes DEF TypeOK, RequestOK
<1> QED
  BY <1>1, <1>2, PTL DEF Spec

-----------------------------------------------------------------------------
(***************************************************************************)
(* Safety.  A write of the shape above touches one row that is not         *)
(* deleted, its entry is the last to be committed, and nothing it carries  *)
(* is younger than that: the invariant speaks of the order of commits, in  *)
(* which the log has a last entry, and the theorems of the entries that    *)
(* the times of the transactions leave the first of History's list.        *)
(***************************************************************************)

\* What a write leaves of the log and of the rows, in the terms of the invariants.
LEMMA WriteEffect ==
    ASSUME TypeOK, NEW r \in Records, NEW op \in Ops, NEW old \in GearRow,
           NEW new \in GearRow, NEW now \in GearRow, NEW since \in Nat, NEW began \in Nat,
           Writes(r, op, old, new, now, since, began)
    PROVE  /\ row'[r] = now /\ \A q \in Records \ {r} : row'[q] = row[q]
           /\ Len(log) \in Nat /\ Len(log') = Len(log) + 1 /\ Ids' = 1 .. (Len(log) + 1)
           /\ \A i \in Ids : log'[i] = log[i]
           /\ log'[Len(log) + 1] = [rec |-> r, op |-> op, old |-> old, new |-> new,
                                    since |-> since, began |-> began]
<1>1. /\ Len(log) \in Nat /\ Len(log') = Len(log) + 1
      /\ \A i \in Ids : log'[i] = log[i]
      /\ log'[Len(log) + 1] = [rec |-> r, op |-> op, old |-> old, new |-> new,
                               since |-> since, began |-> began]
  BY WriteAuditAppends DEF Writes
<1>2. row'[r] = now /\ \A q \in Records \ {r} : row'[q] = row[q]
  BY DEF Writes, TypeOK
<1> QED
  BY <1>1, <1>2 DEF Ids

\* Deletion of one record, in the order of commits.
DeletedOf(r) ==
    /\ row[r].state = "deleted" <=> \E i \in Ids : log[i].rec = r /\ log[i].op = "DELETE"
    /\ \A i, j \in Ids : (log[i].rec = r /\ log[i].op = "DELETE" /\ log[j].rec = r)
                            => j <= i

\* The entry of a live row that was committed last shows the row.
EndsAt(r) ==
    row[r].state = "live" =>
        \E i \in Ids : /\ log[i].rec = r /\ log[i].new = row[r]
                        /\ \A j \in Ids : log[j].rec = r => j <= i

\* Entries and requests are of times that were.
Timed ==
    /\ \A i \in Ids : log[i].since < i /\ log[i].began < i
    /\ \A p \in Requests : req[p].since <= Len(log) /\ req[p].began <= Len(log)

\* Since a request began, every entry of its row came after what it has read.
HasRead(x) == x.step = "write" \/ (x.kind = "delete" /\ x.step = "begin")
Shown(r, old, since) ==
    \E j \in Ids : /\ log[j].rec = r /\ log[j].new = old
                   /\ \A k \in Ids : log[k].rec = r /\ j < k => since < k
Explained(p) == HasRead(req[p]) => Shown(req[p].rec, req[p].old, req[p].since)

\* OldExplained, of one entry.
EntryExplained(i) ==
    log[i].op # "CREATE" =>
        \E j \in Ids : /\ log[j].rec = log[i].rec /\ j < i /\ log[j].new = log[i].old
                       /\ \A k \in Ids : log[k].rec = log[i].rec /\ j < k /\ k < i
                                            => log[i].since < k

HistoryOK ==
    /\ Timed
    /\ \A r \in Records : DeletedOf(r) /\ EndsAt(r)
    /\ \A p \in Requests : Explained(p)
    /\ \A i \in Ids : EntryExplained(i)

\* What a request that has read was shown stays shown when an entry is added.
LEMMA ShownStays ==
    ASSUME TypeOK, NEW r \in Records, NEW op \in Ops, NEW old \in GearRow,
           NEW new \in GearRow, NEW now \in GearRow, NEW since \in Nat, NEW began \in Nat,
           Writes(r, op, old, new, now, since, began),
           NEW s \in Nat, s <= Len(log), NEW q, NEW x, Shown(q, x, s)
    PROVE  Shown(q, x, s)'
<1>1. /\ Len(log) \in Nat /\ Ids' = 1 .. (Len(log) + 1) /\ Ids = 1 .. Len(log)
      /\ \A i \in Ids : log'[i] = log[i]
  BY WriteEffect DEF Ids
<1>2. PICK j \in Ids : /\ log[j].rec = q /\ log[j].new = x
                       /\ \A k \in Ids : log[k].rec = q /\ j < k => s < k
  BY DEF Shown
<1>3. j \in Ids' /\ log'[j] = log[j]
  BY <1>1, <1>2
<1>4. \A k \in Ids' : log'[k].rec = q /\ j < k => s < k
  <2> TAKE k \in Ids'
  <2>1. CASE k \in Ids
    BY <1>1, <1>2, <2>1
  <2>2. CASE k = Len(log) + 1
    BY <1>1, <2>2
  <2> QED
    BY <1>1, <2>1, <2>2
<1> QED
  BY <1>2, <1>3, <1>4 DEF Shown

\* A live row is shown, at whatever time, by the entry committed last.
LEMMA RowShown ==
    ASSUME TypeOK, NEW r \in Records, EndsAt(r), Live(r), NEW s \in Nat
    PROVE  Shown(r, row[r], s)
<1>1. PICK i \in Ids : /\ log[i].rec = r /\ log[i].new = row[r]
                       /\ \A j \in Ids : log[j].rec = r => j <= i
  BY DEF EndsAt, Live
<1>2. \A k \in Ids : log[k].rec = r => ~(i < k)
  BY <1>1 DEF Ids
<1> QED
  BY <1>1, <1>2 DEF Shown

\* The invariant over a step that writes.
LEMMA WriteKeepsHistory ==
    ASSUME TypeOK, HistoryOK, [Next]_vars, NEW r \in Records, NEW op \in Ops,
           NEW old \in GearRow, NEW new \in GearRow, NEW now \in GearRow,
           NEW since \in Nat, NEW began \in Nat,
           Writes(r, op, old, new, now, since, began)
    PROVE  HistoryOK'
<1> DEFINE n == Len(log) + 1
<1>1. /\ row'[r] = now /\ \A s \in Records \ {r} : row'[s] = row[s]
      /\ Len(log) \in Nat /\ Len(log') = n /\ Ids' = 1 .. n /\ Ids = 1 .. Len(log)
      /\ \A i \in Ids : log'[i] = log[i]
      /\ log'[n] = [rec |-> r, op |-> op, old |-> old, new |-> new,
                    since |-> since, began |-> began]
  BY WriteEffect DEF Ids
<1>2. /\ n \in Ids' /\ n \notin Ids /\ Ids \subseteq Ids' /\ Ids' \subseteq Nat
      /\ \A i \in Ids' : i = n \/ (i \in Ids /\ i < n)
      /\ \A i \in Ids' : i <= n
  BY <1>1
<1>3. /\ row[r].state # "deleted" /\ (now.state = "deleted" <=> op = "DELETE")
      /\ now.state = "live" => new = now
  BY DEF Writes
<1>4. /\ since <= Len(log) /\ began <= Len(log)
      /\ op # "CREATE" => Shown(r, old, since)
  BY <1>1 DEF Writes, Source, HistoryOK, Timed, Explained, HasRead
<1>5. \A p \in Requests : req'[p] = req[p] \/ req'[p] = Idle
  <2> TAKE p \in Requests
  <2>1. log' # log
    BY <1>1
  <2> QED
    BY <2>1, RequestSteps DEF BeginWrite, BeginTx, Get, Upload, PhotoFails
<1>6. ASSUME NEW q \in Records PROVE DeletedOf(q)'
  <2>0. DeletedOf(q)
    BY DEF HistoryOK
  <2> HIDE DEF n
  <2>1. CASE q # r
    <3>1. \A i \in Ids' : log'[i].rec = q => i \in Ids /\ log'[i] = log[i]
      BY <1>1, <1>2, <2>1
    <3> QED
      BY <3>1, <1>1, <1>2, <2>0, <2>1 DEF DeletedOf
  <2>2. CASE q = r
    <3>1. \A i \in Ids : ~(log[i].rec = q /\ log[i].op = "DELETE")
      BY <1>3, <2>2, <2>0 DEF DeletedOf
    <3>2. \A i \in Ids' : (log'[i].rec = q /\ log'[i].op = "DELETE") => i = n
      BY <3>1, <1>1, <1>2
    <3>3. (\E i \in Ids' : log'[i].rec = q /\ log'[i].op = "DELETE") <=> op = "DELETE"
      BY <3>2, <1>1, <1>2, <2>2
    <3> QED
      BY <3>2, <3>3, <1>1, <1>2, <1>3, <2>2 DEF DeletedOf
  <2> QED
    BY <2>1, <2>2
<1>7. ASSUME NEW q \in Records PROVE EndsAt(q)'
  <2>0. EndsAt(q)
    BY DEF HistoryOK
  <2> HIDE DEF n
  <2>1. CASE q # r
    <3>1. \A i \in Ids' : log'[i].rec = q => i \in Ids /\ log'[i] = log[i]
      BY <1>1, <1>2, <2>1
    <3> QED
      BY <3>1, <1>1, <1>2, <2>0, <2>1 DEF EndsAt
  <2>2. CASE q = r
    BY <1>1, <1>2, <1>3, <2>2 DEF EndsAt
  <2> QED
    BY <2>1, <2>2
<1>8. Timed'
  <2>1. /\ \A i \in Ids : log[i].since < i /\ log[i].began < i
        /\ \A p \in Requests : req[p].since <= Len(log) /\ req[p].began <= Len(log)
        /\ \A p \in Requests : req[p].since \in Nat /\ req[p].began \in Nat
    BY DEF HistoryOK, Timed, TypeOK, Request
  <2>2. ASSUME NEW i \in Ids' PROVE log'[i].since < i /\ log'[i].began < i
    <3>1. CASE i = n
      BY <1>1, <1>4, <3>1
    <3>2. CASE i \in Ids
      BY <1>1, <2>1, <3>2
    <3> QED
      BY <1>2, <3>1, <3>2
  <2>3. ASSUME NEW p \in Requests PROVE req'[p].since <= n /\ req'[p].began <= n
    BY <1>1, <1>5, <2>1 DEF Idle
  <2> QED
    BY <1>1, <2>2, <2>3 DEF Timed
<1>9. ASSUME NEW p \in Requests PROVE Explained(p)'
  <2>1. CASE req'[p] = Idle
    BY <2>1 DEF Explained, HasRead, Idle
  <2>2. CASE req'[p] = req[p] /\ HasRead(req[p])
    <3>1. Shown(req[p].rec, req[p].old, req[p].since)
      BY <2>2 DEF HistoryOK, Explained
    <3>2. req[p].since \in Nat /\ req[p].since <= Len(log)
      BY DEF HistoryOK, Timed, TypeOK, Request
    <3>3. ASSUME NEW a, NEW b, NEW s \in Nat, s <= Len(log), Shown(a, b, s)
          PROVE  \E j \in Ids' : /\ log'[j].rec = a /\ log'[j].new = b
                                 /\ \A k \in Ids' : log'[k].rec = a /\ j < k => s < k
      BY <3>3, ShownStays DEF Shown
    <3>4. \E j \in Ids' : /\ log'[j].rec = req[p].rec /\ log'[j].new = req[p].old
                          /\ \A k \in Ids' : log'[k].rec = req[p].rec /\ j < k
                                                  => req[p].since < k
      BY <3>1, <3>2, <3>3
    <3> QED
      BY <3>4, <2>2 DEF Explained, Shown
  <2>3. CASE req'[p] = req[p] /\ ~HasRead(req[p])
    BY <2>3 DEF Explained, HasRead
  <2> QED
    BY <1>5, <2>1, <2>2, <2>3
<1>10. ASSUME NEW i \in Ids' PROVE EntryExplained(i)'
  <2>1. CASE i \in Ids
    <3>1. EntryExplained(i)
      BY <2>1 DEF HistoryOK
    <3>2. \A k \in Ids' : k < i => k \in Ids /\ log'[k] = log[k]
      BY <1>1, <2>1
    <3>3. log'[i] = log[i] /\ Ids \subseteq Ids'
      BY <1>1, <1>2, <2>1
    <3> QED
      BY <1>1, <3>1, <3>2, <3>3 DEF EntryExplained
  <2>2. CASE i = n /\ op # "CREATE"
    <3>1. PICK j \in Ids : /\ log[j].rec = r /\ log[j].new = old
                           /\ \A k \in Ids : log[k].rec = r /\ j < k => since < k
      BY <1>4, <2>2 DEF Shown
    <3>2. /\ log'[i].rec = r /\ log'[i].old = old /\ log'[i].since = since
          /\ j \in Ids' /\ log'[j] = log[j] /\ j < i
      BY <1>1, <1>2, <2>2, <3>1
    <3>3. \A k \in Ids' : k < i => k \in Ids /\ log'[k] = log[k]
      BY <1>1, <2>2
    <3> QED
      BY <3>1, <3>2, <3>3 DEF EntryExplained
  <2>3. CASE i = n /\ op = "CREATE"
    BY <1>1, <2>3 DEF EntryExplained
  <2> QED
    BY <1>2, <2>1, <2>2, <2>3
<1> QED
  BY <1>6, <1>7, <1>8, <1>9, <1>10 DEF HistoryOK

\* The invariant over a step that only moves requests.
LEMMA RequestKeepsHistory ==
    ASSUME TypeOK, HistoryOK, [Next]_vars, UNCHANGED <<row, log>>
    PROVE  HistoryOK'
<1>0. /\ Ids' = Ids /\ Len(log) \in Nat
      /\ \A p \in Requests : req[p].since \in Nat /\ req[p].began \in Nat
  BY DEF Ids, TypeOK, Request
<1>1. \A r \in Records : DeletedOf(r)' /\ EndsAt(r)'
  BY <1>0 DEF HistoryOK, DeletedOf, EndsAt
<1>2. \A i \in Ids' : EntryExplained(i)'
  BY <1>0 DEF HistoryOK, EntryExplained
<1>3. ASSUME NEW p \in Requests
      PROVE  /\ req'[p].since <= Len(log) /\ req'[p].began <= Len(log)
             /\ Explained(p)'
  <2>0. /\ req[p].since <= Len(log) /\ req[p].began <= Len(log) /\ Explained(p)
    BY DEF HistoryOK, Timed
  <2>1. ASSUME NEW a, NEW b, NEW s PROVE Shown(a, b, s)' <=> Shown(a, b, s)
    BY <1>0 DEF Shown
  <2>2. CASE req'[p] = req[p]
    BY <2>0, <2>2, <1>0 DEF Explained, Shown
  <2>3. CASE req'[p] = Idle
    BY <2>3, <1>0 DEF Idle, Explained, HasRead
  <2>4. ASSUME NEW r \in Records, NEW kind \in {"update", "delete"}, BeginWrite(p, r, kind)
        PROVE  /\ req'[p].since <= Len(log) /\ req'[p].began <= Len(log)
               /\ Explained(p)'
    <3>1. /\ req'[p].rec = r /\ req'[p].since = Len(log)
          /\ req'[p].began \in {0, Len(log)}
          /\ \/ req'[p].step = "read"
             \/ req'[p].step = "begin" /\ Live(r) /\ req'[p].old = row[r]
      BY <2>4, RequestFields
    <3>2. Live(r) => Shown(r, row[r], Len(log))
      BY <1>0, RowShown DEF HistoryOK
    <3> QED
      BY <1>0, <3>1, <3>2 DEF Explained, HasRead, Shown
  <2>5. CASE BeginTx(p)
    <3>1. /\ req'[p].rec = req[p].rec /\ req'[p].old = req[p].old
          /\ req'[p].since \in {req[p].since, Len(log)} /\ req'[p].began = Len(log)
          /\ \/ req'[p].step = "read"
             \/ req[p].kind = "delete" /\ req[p].step = "begin"
                /\ req'[p].since = req[p].since
      BY <2>5, RequestFields
    <3> QED
      BY <1>0, <2>0, <3>1 DEF Explained, HasRead, Shown
  <2>6. CASE Get(p)
    <3>1. /\ Live(req[p].rec) /\ req[p].rec \in Records
          /\ req'[p].rec = req[p].rec /\ req'[p].old = row[req[p].rec]
          /\ req'[p].since = req[p].since /\ req'[p].began = req[p].began
      BY <2>6, RequestFields
    <3>2. Shown(req[p].rec, row[req[p].rec], req[p].since)
      BY <1>0, <3>1, RowShown DEF HistoryOK
    <3> QED
      BY <1>0, <2>0, <3>1, <3>2 DEF Explained, Shown
  <2>7. CASE (\E g \in Gear, e \in Exts : Upload(p, g, e)) \/ PhotoFails(p)
    <3>1. /\ req'[p].kind # "delete" /\ req'[p].step = "begin"
          /\ req'[p].since = 0 /\ req'[p].began = 0
      BY <2>7, RequestFields
    <3> QED
      BY <1>0, <3>1 DEF Explained, HasRead
  <2> QED
    BY <2>2, <2>3, <2>4, <2>5, <2>6, <2>7, RequestSteps
<1>4. Timed'
  BY <1>0, <1>3 DEF Timed, HistoryOK
<1> QED
  BY <1>1, <1>2, <1>3, <1>4 DEF HistoryOK

\* The invariant of the histories.
LEMMA HistoryHolds == Spec => []HistoryOK
<1>1. Init => HistoryOK
  BY DEF Init, HistoryOK, Timed, DeletedOf, EndsAt, Explained, HasRead, Ids, NoRow, Idle
<1>2. TypeOK /\ HistoryOK /\ [Next]_vars => HistoryOK'
  BY StepShapes, WriteKeepsHistory, RequestKeepsHistory DEF SomeWrite
<1> QED
  BY <1>1, <1>2, TypeCorrect, PTL DEF Spec

\* The entry committed last cannot be listed after any other of its row.
LEMMA LastIsNewest ==
    ASSUME TypeOK, Timed, NEW r, NEW i \in EntriesOf(r), \A j \in EntriesOf(r) : j <= i
    PROVE  i \in Newest(r)
<1>0. \A j \in Ids : j \in Nat /\ log[j] \in Entry
  BY DEF TypeOK, Ids
<1>1. \A j \in EntriesOf(r) : j \in Nat /\ j <= i /\ log[j].began < j /\ log[j].began \in Nat
  BY <1>0 DEF Timed, EntriesOf, Entry
<1>2. i \in Nat
  BY <1>1
<1> QED
  BY <1>1, <1>2 DEF Newest, After

\* Racing soft deletes and updates: a deleted row has one DELETE entry, and none of
\* its other entries is listed after it for having begun later.
THEOREM DeletedOnce == Spec => []OneDeletion
<1>1. TypeOK /\ HistoryOK => OneDeletion
  <2> SUFFICES ASSUME TypeOK, HistoryOK, NEW r \in Records
               PROVE  /\ row[r].state = "deleted" <=> \E i \in EntriesOf(r) : log[i].op = "DELETE"
                      /\ \A i \in EntriesOf(r) : log[i].op = "DELETE" =>
                            /\ \A j \in EntriesOf(r) : log[j].op = "DELETE" => j = i
                            /\ i \in Newest(r)
    BY DEF OneDeletion
  <2>1. DeletedOf(r) /\ Timed
    BY DEF HistoryOK
  <2>2. Ids \subseteq Nat
    BY DEF Ids
  <2>3. row[r].state = "deleted" <=> \E i \in EntriesOf(r) : log[i].op = "DELETE"
    BY <2>1 DEF DeletedOf, EntriesOf
  <2>4. ASSUME NEW i \in EntriesOf(r), log[i].op = "DELETE"
        PROVE  /\ \A j \in EntriesOf(r) : log[j].op = "DELETE" => j = i
               /\ i \in Newest(r)
    <3>1. \A j \in EntriesOf(r) : j <= i /\ (log[j].op = "DELETE" => i <= j)
      BY <2>1, <2>4 DEF DeletedOf, EntriesOf
    <3>2. \A j \in EntriesOf(r) : j \in Nat /\ i \in Nat
      BY <2>2 DEF EntriesOf
    <3>3. i \in Newest(r)
      BY <2>1, <3>1, LastIsNewest
    <3> QED
      BY <3>1, <3>2, <3>3
  <2> QED
    BY <2>3, <2>4
<1> QED
  BY <1>1, TypeCorrect, HistoryHolds, PTL

\* The entries of a live row that History may list first have the row among them.
THEOREM LogShowsRow == Spec => []NewestShowsRow
<1>1. TypeOK /\ HistoryOK => NewestShowsRow
  <2> SUFFICES ASSUME TypeOK, HistoryOK, NEW r \in Records, Live(r)
               PROVE  \E i \in Newest(r) : log[i].new = row[r]
    BY DEF NewestShowsRow
  <2>1. EndsAt(r) /\ Timed
    BY DEF HistoryOK
  <2>2. PICK i \in Ids : /\ log[i].rec = r /\ log[i].new = row[r]
                         /\ \A j \in Ids : log[j].rec = r => j <= i
    BY <2>1 DEF EndsAt, Live
  <2>3. i \in EntriesOf(r) /\ \A j \in EntriesOf(r) : j <= i
    BY <2>2 DEF EntriesOf
  <2>4. i \in Newest(r)
    BY <2>1, <2>3, LastIsNewest
  <2> QED
    BY <2>2, <2>4
<1> QED
  BY <1>1, TypeCorrect, HistoryHolds, PTL

\* Every gap in the history of a row is a write committed while another was under way.
THEOREM OldIsExplained == Spec => []OldExplained
<1>1. HistoryOK => OldExplained
  BY DEF HistoryOK, EntryExplained, OldExplained, EntriesOf
<1> QED
  BY <1>1, HistoryHolds, PTL

-----------------------------------------------------------------------------
(***************************************************************************)
(* TableView: the tables that are filtered, sorted and scrolled.           *)
(***************************************************************************)
Sorts == UNION {[1 .. n -> Level] : n \in 0 .. MaxLevels}
Seen == [filter |-> entry, sort |-> sorting, vis |-> vis]
Cached == [pages : Pages, total : Nat, calm : BOOLEAN]
Load == [want : Nat, got : Pages, calm : BOOLEAN]

\* The controls are of their types, the filter in the query is the one typed unless
\* the timer runs, and what is stored for the user is what is seen.
ControlsOK ==
    /\ column \in Columns /\ live \subseteq Row /\ user \in User
    /\ entry \in FilterEntry \cup {None} /\ active \in FilterEntry \cup {None}
    /\ timer \in BOOLEAN /\ failed \in BOOLEAN
    /\ sorting \in Sorts /\ vis \in {"unset", "shown", "hidden"}
    /\ store \in [User -> Session \cup {None}]
    /\ ~timer => active = Active(entry)
    /\ Stored(user) = Seen

PagesTyped ==
    /\ DOMAIN cache \cup DOMAIN flight \subseteq View
    /\ \A v \in DOMAIN cache : cache[v] \in Cached /\ cache[v].pages.count > 0
    /\ \A v \in DOMAIN flight : /\ flight[v] \in Load
                                /\ flight[v].got.count < flight[v].want
                                /\ flight[v].got.count = 0 => flight[v].got.rows = <<>>

\* Pages that no other user disturbed are the beginning of the answer.
Begins(pages, answer) ==
    LET n == Len(pages.rows) IN n <= Len(answer) /\ pages.rows = SubSeq(answer, 1, n)
PagesOK ==
    /\ \A v \in DOMAIN cache : cache[v].calm =>
          Begins(cache[v].pages, Answer(v)) /\ cache[v].total = Len(Answer(v))
    /\ \A v \in DOMAIN flight : flight[v].calm => Begins(flight[v].got, Answer(v))

TableInv == ControlsOK /\ PagesTyped /\ PagesOK

\* Sets that grow along an order and differ for different members have each size
\* from one to the number of members.
LEMMA Ranks ==
    ASSUME NEW rows, IsFiniteSet(rows), NEW up \in [rows -> SUBSET rows],
           \A r \in rows : r \in up[r],
           \A r, t \in rows : r # t => (r \notin up[t] /\ up[t] \subseteq up[r])
                                       \/ (t \notin up[r] /\ up[r] \subseteq up[t])
    PROVE  \A i \in 1 .. Cardinality(rows) : \E r \in rows : Cardinality(up[r]) = i
<1>1. Cardinality(rows) \in Nat
    BY FS_CardinalityType
<1>2. \A r \in rows : IsFiniteSet(up[r]) /\ Cardinality(up[r]) \in 1 .. Cardinality(rows)
    <2> SUFFICES ASSUME NEW r \in rows
                 PROVE  IsFiniteSet(up[r]) /\ Cardinality(up[r]) \in 1 .. Cardinality(rows)
        OBVIOUS
    <2>1. up[r] \in SUBSET rows /\ r \in up[r]
        OBVIOUS
    <2>2. IsFiniteSet(up[r]) /\ Cardinality(up[r]) <= Cardinality(rows)
        BY <2>1, FS_Subset
    <2>3. Cardinality(up[r]) \in Nat /\ Cardinality(up[r]) # 0
        BY <2>1, <2>2, FS_CardinalityType, FS_EmptySet
    <2>4. QED
        BY <1>1, <2>2, <2>3
<1>3. ASSUME NEW r \in rows, NEW t \in rows, r \notin up[t], up[t] \subseteq up[r]
      PROVE  Cardinality(up[t]) # Cardinality(up[r])
    <2>1. up[t] \in SUBSET up[r] /\ up[t] # up[r]
        BY <1>3
    <2>2. IsFiniteSet(up[r])
        BY <1>2
    <2>3. QED
        BY <2>1, <2>2, FS_Subset
<1>4. \A r, t \in rows : r # t => Cardinality(up[r]) # Cardinality(up[t])
    BY <1>3
<1>5. ASSUME NEW i \in 1 .. Cardinality(rows), \A r \in rows : Cardinality(up[r]) # i
      PROVE  FALSE
    <2> DEFINE f == [r \in rows |-> Cardinality(up[r])]
               T == (1 .. Cardinality(rows)) \ {i}
    <2>1. f \in [rows -> T]
        BY <1>2, <1>5
    <2>2. IsFiniteSet(1 .. Cardinality(rows)) /\ Cardinality(1 .. Cardinality(rows)) = Cardinality(rows)
        <3>1. IsFiniteSet(1 .. Cardinality(rows))
              /\ Cardinality(1 .. Cardinality(rows)) =
                    IF 1 > Cardinality(rows) THEN 0 ELSE Cardinality(rows) - 1 + 1
            BY <1>1, FS_Interval
        <3>2. QED
            BY <1>1, <3>1
    <2>3. IsFiniteSet(T) /\ Cardinality(T) = Cardinality(rows) - 1
        <3>1. IsFiniteSet(T)
              /\ Cardinality(T) = IF i \in 1 .. Cardinality(rows)
                                  THEN Cardinality(1 .. Cardinality(rows)) - 1
                                  ELSE Cardinality(1 .. Cardinality(rows))
            BY <2>2, FS_RemoveElement
        <3>2. QED
            BY <2>2, <3>1
    <2>4. Cardinality(T) < Cardinality(rows)
        BY <1>1, <2>3
    <2>5. \A x, y \in rows : x # y => f[x] # f[y]
        BY <1>4
    <2> HIDE DEF f, T
    <2>6. \E x, y \in rows : x # y /\ f[x] = f[y]
        BY <2>1, <2>3, <2>4, FS_PigeonHole
    <2>7. QED
        BY <2>5, <2>6
<1>6. QED
    BY <1>5

\* What is above the later of two numbers is above the earlier.
LEMMA Nested ==
    ASSUME NEW rows, \A x \in rows : x \in Nat, NEW r \in rows, NEW t \in rows, r < t
    PROVE  /\ {x \in rows : x >= t} \subseteq {x \in rows : x >= r} /\ r \notin {x \in rows : x >= t}
           /\ {x \in rows : x <= r} \subseteq {x \in rows : x <= t} /\ t \notin {x \in rows : x <= r}
<1>1. {x \in rows : x >= t} \subseteq {x \in rows : x >= r}
    OBVIOUS
<1>2. {x \in rows : x <= r} \subseteq {x \in rows : x <= t}
    OBVIOUS
<1>3. r \notin {x \in rows : x >= t} /\ t \notin {x \in rows : x <= r}
    OBVIOUS
<1>4. QED
    BY <1>1, <1>2, <1>3

\* One row for each place: rows sorted by their numbers are a sequence of them.
LEMMA SortedTyped ==
    ASSUME NEW s, NEW rows \in SUBSET Row
    PROVE  Sorted(s, rows) \in Seq(Row)
<1> DEFINE n == Cardinality(rows)
           upTo(r) == {x \in rows : IF Descending(s) THEN x >= r ELSE x <= r}
           up == [r \in rows |-> upTo(r)]
<1>1. rows \subseteq Nat /\ IsFiniteSet(rows) /\ n \in Nat
    <2>1. Row \subseteq Nat /\ IsFiniteSet(Row)
        BY ViewAssumption
    <2>2. QED
        BY <2>1, FS_Subset, FS_CardinalityType
<1>2. Sorted(s, rows) = [i \in 1 .. n |-> CHOOSE r \in rows : Cardinality(upTo(r)) = i]
    BY DEF Sorted
<1>3. \A i \in 1 .. n : \E r \in rows : Cardinality(upTo(r)) = i
    <2>1. up \in [rows -> SUBSET rows] /\ \A r \in rows : r \in up[r]
        BY <1>1
    <2>2. ASSUME NEW r \in rows, NEW t \in rows, r < t
          PROVE  (r \notin up[t] /\ up[t] \subseteq up[r]) \/ (t \notin up[r] /\ up[r] \subseteq up[t])
        <3>1. \A x \in rows : x \in Nat
            BY <1>1
        <3>2. CASE Descending(s)
            <4>1. up[r] = {x \in rows : x >= r} /\ up[t] = {x \in rows : x >= t}
                BY <3>2
            <4> HIDE DEF up, upTo, n
            <4>2. /\ {x \in rows : x >= t} \subseteq {x \in rows : x >= r}
                  /\ r \notin {x \in rows : x >= t}
                BY <3>1, <2>2, Nested
            <4>3. QED
                BY <4>1, <4>2
        <3>3. CASE ~Descending(s)
            <4>1. up[r] = {x \in rows : x <= r} /\ up[t] = {x \in rows : x <= t}
                BY <3>3
            <4> HIDE DEF up, upTo, n
            <4>2. /\ {x \in rows : x <= r} \subseteq {x \in rows : x <= t}
                  /\ t \notin {x \in rows : x <= r}
                BY <3>1, <2>2, Nested
            <4>3. QED
                BY <4>1, <4>2
        <3>4. QED
            BY <3>2, <3>3
    <2> HIDE DEF up
    <2>3. \A r, t \in rows : r # t => (r \notin up[t] /\ up[t] \subseteq up[r])
                                      \/ (t \notin up[r] /\ up[r] \subseteq up[t])
        <3> SUFFICES ASSUME NEW r \in rows, NEW t \in rows, r # t
                     PROVE  (r \notin up[t] /\ up[t] \subseteq up[r])
                            \/ (t \notin up[r] /\ up[r] \subseteq up[t])
            OBVIOUS
        <3>1. r < t \/ t < r
            BY <1>1
        <3>2. QED
            BY <2>2, <3>1
    <2>4. \A i \in 1 .. Cardinality(rows) : \E r \in rows : Cardinality(up[r]) = i
        <3>1. IsFiniteSet(rows)
            BY <1>1
        <3>2. QED
            BY ONLY <2>1, <2>3, <3>1, Ranks
    <2>5. \A r \in rows : up[r] = upTo(r)
        BY DEF up
    <2>6. QED
        BY <2>4, <2>5
<1> HIDE DEF upTo
<1>4. \A i \in 1 .. n : (CHOOSE r \in rows : Cardinality(upTo(r)) = i) \in Row
    BY <1>3
<1>5. Sorted(s, rows) \in [1 .. n -> Row]
    BY <1>2, <1>4
<1>6. QED
    BY <1>1, <1>5

-----------------------------------------------------------------------------
\* A beginning of a sequence and the stretch that follows it.
LEMMA Paged ==
    ASSUME NEW A \in Seq(Row), NEW k \in Nat, NEW m \in Nat, k <= m, m <= Len(A)
    PROVE  /\ SubSeq(A, 1, k) \o SubSeq(A, k + 1, m) = SubSeq(A, 1, m)
           /\ Len(SubSeq(A, 1, m)) = m
<1>1. /\ SubSeq(A, 1, k) \in Seq(Row) /\ Len(SubSeq(A, 1, k)) = k
      /\ \A i \in 1 .. k : SubSeq(A, 1, k)[i] = A[i]
    OBVIOUS
<1>2. /\ SubSeq(A, 1, m) \in Seq(Row) /\ Len(SubSeq(A, 1, m)) = m
      /\ \A i \in 1 .. m : SubSeq(A, 1, m)[i] = A[i]
    OBVIOUS
<1>3. /\ SubSeq(A, k + 1, m) \in Seq(Row) /\ Len(SubSeq(A, k + 1, m)) = m - k
      /\ \A i \in 1 .. m - k : SubSeq(A, k + 1, m)[i] = A[k + i]
    OBVIOUS
<1> DEFINE B == SubSeq(A, 1, k)  C == SubSeq(A, k + 1, m)  D == SubSeq(A, 1, m)
<1> HIDE DEF B, C, D
<1>4. B \o C \in Seq(Row) /\ Len(B \o C) = m
    BY <1>1, <1>3 DEF B, C
<1>5. \A i \in 1 .. m : (B \o C)[i] = D[i]
    <2> SUFFICES ASSUME NEW i \in 1 .. m PROVE (B \o C)[i] = D[i]
        OBVIOUS
    <2>1. CASE i <= k
        BY <2>1, <1>1, <1>2, <1>3 DEF B, C, D
    <2>2. CASE i > k
        BY <2>2, <1>1, <1>2, <1>3 DEF B, C, D
    <2>3. i <= k \/ i > k
        OBVIOUS
    <2>4. QED
        BY <2>1, <2>2, <2>3
<1>6. B \o C = D
    BY <1>2, <1>4, <1>5, SeqEqual DEF D
<1>7. QED
    BY <1>2, <1>6 DEF B, C, D

\* The number of the last row of the next page.
LEMMA NextEnd ==
    ASSUME NEW k \in Nat, NEW n \in Nat, k <= n, NEW size \in Nat
    PROVE  LET m == IF k + size < n THEN k + size ELSE n IN m \in Nat /\ k <= m /\ m <= n
OBVIOUS

\* A page more keeps the pages typed, and a beginning of the answer one.
LEMMA WithPageOK ==
    ASSUME NEW pages \in Pages, NEW A \in Seq(Row)
    PROVE  /\ WithPage(pages, A) \in Pages
           /\ WithPage(pages, A).count = pages.count + 1
           /\ Begins(pages, A) => Begins(WithPage(pages, A), A)
<1> DEFINE k == Len(pages.rows)
           m == IF k + PageSize < Len(A) THEN k + PageSize ELSE Len(A)
           next == SubSeq(A, k + 1, m)
<1>1. A \in Seq(Row) /\ pages.count \in Nat /\ pages.rows \in Seq(Row) /\ k \in Nat
      /\ PageSize \in Nat /\ Len(A) \in Nat
    BY ViewAssumption DEF Pages
<1>2. m \in Nat /\ m <= Len(A)
    BY <1>1
<1>3. WithPage(pages, A) = [count |-> pages.count + 1, rows |-> pages.rows \o next]
    BY DEF WithPage, PageAt
<1>4. ASSUME Begins(pages, A)
      PROVE  pages.rows \o next = SubSeq(A, 1, m) /\ Len(SubSeq(A, 1, m)) = m
    <2>1. k <= Len(A) /\ pages.rows = SubSeq(A, 1, k)
        BY <1>4 DEF Begins
    <2>2. k <= m
        BY <1>1, <2>1
    <2> HIDE DEF k, m
    <2>3. SubSeq(A, 1, k) \o SubSeq(A, k + 1, m) = SubSeq(A, 1, m) /\ Len(SubSeq(A, 1, m)) = m
        BY <1>1, <1>2, <2>1, <2>2, Paged
    <2>4. QED
        BY <2>1, <2>3
<1> HIDE DEF k, m
<1>5. next \in Seq(Row)
    <2>1. \A i \in k + 1 .. m : A[i] \in Row
        BY <1>1, <1>2
    <2>2. k + 1 \in Int /\ m \in Int
        BY <1>1, <1>2
    <2>3. QED
        BY <2>1, <2>2, SubSeqProperties
<1> HIDE DEF next
<1>6. pages.rows \o next \in Seq(Row)
    BY <1>1, <1>5
<1>7. Begins(pages, A) => Begins([count |-> pages.count + 1, rows |-> pages.rows \o next], A)
    BY <1>2, <1>4 DEF Begins, k
<1>8. QED
    BY <1>1, <1>3, <1>6, <1>7 DEF Pages

-----------------------------------------------------------------------------
\* Sort levels are a sequence of at most three.
LEMMA SortsAre == Sorts = {s \in Seq(Level) : Len(s) <= 3}
<1>1. MaxLevels = 3
    BY DEF MaxLevels
<1>2. ASSUME NEW s \in Sorts PROVE s \in Seq(Level) /\ Len(s) <= 3
    <2>1. PICK n \in 0 .. 3 : s \in [1 .. n -> Level]
        BY <1>1 DEF Sorts
    <2>2. QED
        BY <2>1
<1>3. ASSUME NEW s \in Seq(Level), Len(s) <= 3 PROVE s \in Sorts
    <2>1. Len(s) \in Nat /\ s \in [1 .. Len(s) -> Level]
        BY LenProperties
    <2>2. Len(s) \in 0 .. 3
        BY <1>3, <2>1
    <2>3. QED
        BY <1>1, <2>1, <2>2 DEF Sorts
<1>4. QED
    BY <1>2, <1>3

\* What the sort pills do keeps the levels levels.
LEMMA SortsKept ==
    ASSUME NEW s \in Sorts
    PROVE  /\ \A x \in Level : Len(s) < MaxLevels => Append(s, x) \in Sorts
           /\ \A i \in DOMAIN s : /\ RemoveAt(s, i) \in Sorts
                                  /\ [s EXCEPT ![i].desc = ~@] \in Sorts
<1>1. s \in Seq(Level) /\ Len(s) <= 3 /\ Len(s) \in Nat
    BY SortsAre
<1>2. ASSUME NEW x \in Level, Len(s) < MaxLevels PROVE Append(s, x) \in Sorts
    <2>1. Append(s, x) \in Seq(Level) /\ Len(Append(s, x)) <= 3
        BY <1>1, <1>2, AppendProperties DEF MaxLevels
    <2>2. QED
        BY <2>1, SortsAre
<1>3. ASSUME NEW i \in DOMAIN s PROVE RemoveAt(s, i) \in Sorts
    <2> DEFINE B == SubSeq(s, 1, i - 1)
               C == SubSeq(s, i + 1, Len(s))
    <2>1. i \in 1 .. Len(s)
        BY <1>1
    <2>2. B \in Seq(Level) /\ Len(B) = i - 1
        BY <1>1, <2>1
    <2>3. C \in Seq(Level) /\ Len(C) = Len(s) - i
        BY <1>1, <2>1
    <2> HIDE DEF B, C
    <2>4. B \o C \in Seq(Level) /\ Len(B \o C) <= 3
        BY <1>1, <2>1, <2>2, <2>3
    <2>5. QED
        BY <2>4, SortsAre DEF RemoveAt, B, C
<1>4. ASSUME NEW i \in DOMAIN s PROVE [s EXCEPT ![i].desc = ~@] \in Sorts
    <2>1. i \in 1 .. Len(s) /\ s[i] \in Level
        BY <1>1
    <2>2. [s[i] EXCEPT !.desc = ~@] \in Level
        BY <2>1 DEF Level
    <2>3. /\ [s EXCEPT ![i] = [s[i] EXCEPT !.desc = ~@]] \in Seq(Level)
          /\ Len([s EXCEPT ![i] = [s[i] EXCEPT !.desc = ~@]]) = Len(s)
        BY <1>1, <2>1, <2>2, ExceptSeq
    <2>4. [s EXCEPT ![i].desc = ~@] = [s EXCEPT ![i] = [s[i] EXCEPT !.desc = ~@]]
        OBVIOUS
    <2>5. QED
        BY <1>1, <2>3, <2>4, SortsAre
<1>5. QED
    BY <1>2, <1>3, <1>4

\* The types of what the controls are made of.
LEMMA ControlTypes ==
    /\ View = [sort : Sorts, filter : FilterEntry \cup {None}]
    /\ Session = [filter : FilterEntry \cup {None}, sort : Sorts,
                        vis : {"unset", "shown", "hidden"}]
    /\ \A e \in FilterEntry \cup {None} : Active(e) \in FilterEntry \cup {None}
    /\ \A f \in FilterEntry \cup {None}, s \in Sorts : Key(f, s) \in View
    /\ DefaultSort \in Sorts
    /\ DefaultSession \in Session
<1>1. View = [sort : Sorts, filter : FilterEntry \cup {None}]
    BY DEF View, Sorts
<1>2. Session = [filter : FilterEntry \cup {None}, sort : Sorts,
                       vis : {"unset", "shown", "hidden"}]
    BY DEF Session, Sorts
<1>3. \A e \in FilterEntry \cup {None} : Active(e) \in FilterEntry \cup {None}
    BY DEF Active
<1>4. \A f \in FilterEntry \cup {None}, s \in Sorts : Key(f, s) \in View
    BY <1>1 DEF Key
<1>5. DefaultSort \in Sorts
    <2>1. [id |-> "key", desc |-> FALSE] \in Level
        BY DEF Level, Fields
    <2>2. DefaultSort \in Seq(Level) /\ Len(DefaultSort) <= 3
        BY <2>1 DEF DefaultSort
    <2>3. QED
        BY <2>2, SortsAre
<1>6. DefaultSession \in Session
    BY <1>2, <1>5 DEF DefaultSession
<1>7. QED
    BY <1>1, <1>2, <1>3, <1>4, <1>5, <1>6

\* The answers are sequences of rows.
LEMMA AnswerTyped ==
    ASSUME live \subseteq Row
    PROVE  \A v : Answer(v) \in Seq(Row)
<1>1. \A f : Selects(f, live) \in SUBSET Row
    BY DEF Selects
<1>2. \A s, f : Sorted(s, Selects(f, live)) \in Seq(Row)
    BY <1>1, SortedTyped
<1>3. QED
    BY <1>2 DEF Answer

-----------------------------------------------------------------------------
\* An answer depends on the rows and the column alone.
LEMMA SameAnswers ==
    ASSUME live' = live, column' = column
    PROVE  \A v : Answer(v)' = Answer(v)
BY DEF Answer, Selects, Sorted

\* A request that begins: no page is in, and what is in is a beginning of any answer.
LEMMA Asking ==
    ASSUME NEW n \in Nat, n > 0
    PROVE  LET q == Loading(n) IN
           /\ q \in Load /\ q.got.count < q.want /\ q.got.rows = <<>>
           /\ \A A \in Seq(Row) : Begins(q.got, A)
<1> DEFINE p == [count |-> 0, rows |-> <<>>]
<1>1. Loading(n) = [want |-> n, got |-> p, calm |-> TRUE]
    BY DEF Loading, NoPages
<1>2. p \in Pages
    BY DEF Pages
<1>3. ASSUME NEW A \in Seq(Row) PROVE Begins(p, A)
    <2>1. SubSeq(A, 1, 0) = <<>>
        BY SubSeqEmpty
    <2>2. QED
        BY <2>1 DEF Begins
<1> HIDE DEF p
<1>4. p.count = 0 /\ p.rows = <<>>
    BY DEF p
<1>5. QED
    BY <1>1, <1>2, <1>3, <1>4 DEF Load

\* A query asked when it is neither cached nor under way.
LEMMA Begun ==
    ASSUME live \subseteq Row, PagesTyped, PagesOK, NEW k \in View,
           live' = live, column' = column, cache' = cache, flight' = Begin(flight, k)
    PROVE  PagesTyped' /\ PagesOK'
<1>1. CASE k \in DOMAIN cache \cup DOMAIN flight
    <2>1. flight' = flight
        BY <1>1 DEF Begin
    <2>2. QED
        BY <2>1, SameAnswers DEF PagesTyped, PagesOK, Cached, Load
<1>2. CASE k \notin DOMAIN cache \cup DOMAIN flight
    <2>1. /\ DOMAIN flight' = DOMAIN flight \cup {k}
          /\ flight'[k] = Loading(1)
          /\ \A v \in DOMAIN flight : flight'[v] = flight[v]
        BY <1>2 DEF Begin, Put
    <2>2. /\ flight'[k] \in Load /\ flight'[k].got.count < flight'[k].want
          /\ flight'[k].got.rows = <<>> /\ Begins(flight'[k].got, Answer(k))
        BY <2>1, Asking, AnswerTyped
    <2>3. PagesTyped'
        BY <2>1, <2>2 DEF PagesTyped, Cached, Load
    <2>4. PagesOK'
        BY <2>1, <2>2, SameAnswers DEF PagesOK
    <2>5. QED
        BY <2>3, <2>4
<1>3. QED
    BY <1>1, <1>2

\* A change of the controls writes what is seen, and asks what is not cached.
LEMMA ChangeStep ==
    ASSUME TableInv,
           NEW e \in FilterEntry \cup {None}, NEW a \in FilterEntry \cup {None}, NEW t \in BOOLEAN,
           NEW s \in Sorts, NEW w \in {"unset", "shown", "hidden"},
           ~t => a = Active(e), Change(e, a, t, s, w)
    PROVE  TableInv'
<1> DEFINE session == [filter |-> e, sort |-> s, vis |-> w]
<1>1. session \in Session
    BY ControlTypes
<1>2. /\ entry' = e /\ active' = a /\ timer' = t /\ sorting' = s /\ vis' = w
      /\ store' = [store EXCEPT ![user] = IF session = DefaultSession THEN None ELSE session]
      /\ flight' = Begin(flight, Key(a, s))
      /\ failed' = (failed /\ Key(a, s) = Current)
      /\ column' = column /\ live' = live /\ user' = user /\ cache' = cache
    BY DEF Change, Persist
<1>3. ControlsOK'
    <2> USE DEF TableInv, ControlsOK
    <2>1. store' \in [User -> Session \cup {None}]
        BY <1>1, <1>2
    <2>2. store'[user'] = IF session = DefaultSession THEN None ELSE session
        BY <1>2
    <2>3. session # None
        BY <1>1, NoneAssumption
    <2>4. Stored(user)' = session
        BY <2>2, <2>3 DEF Stored
    <2>5. Seen' = session
        BY <1>2 DEF Seen
    <2>6. failed' \in BOOLEAN
        BY <1>2
    <2>7. timer' \in BOOLEAN /\ (~timer' => active' = Active(entry)')
        BY <1>2 DEF Active
    <2> HIDE DEF session
    <2>8. QED
        BY <1>2, <2>1, <2>4, <2>5, <2>6, <2>7
<1>4. Key(a, s) \in View
    BY ControlTypes
<1>5. PagesTyped' /\ PagesOK'
    BY <1>2, <1>4, Begun DEF TableInv, ControlsOK
<1>6. QED
    BY <1>3, <1>5 DEF TableInv

LEMMA FilterSteps ==
    ASSUME TableInv,
           \/ \E v \in Value : TypeValue(v)
           \/ \E op \in Operator : SelectOperator(op)
           \/ ClearFilters
    PROVE  TableInv'
<1>1. /\ entry \in FilterEntry \cup {None} /\ active \in FilterEntry \cup {None}
      /\ sorting \in Sorts /\ vis \in {"unset", "shown", "hidden"}
    BY DEF TableInv, ControlsOK
<1>2. ASSUME NEW e \in FilterEntry \cup {None}, SetEntry(e) PROVE TableInv'
    <2>1. PICK t \in BOOLEAN : t = TRUE
        OBVIOUS
    <2>2. Change(e, active, t, sorting, vis) /\ (~t => active = Active(e))
        BY <1>2, <2>1 DEF SetEntry
    <2>3. QED
        BY <1>1, <2>2, ChangeStep
<1>3. ASSUME NEW v \in Value, TypeValue(v) PROVE TableInv'
    <2> DEFINE cell == IF entry = None THEN [op |-> Default, value |-> "none"] ELSE entry
    <2>1. cell \in FilterEntry
        BY <1>1 DEF FilterEntry, Operator, Value
    <2>2. [cell EXCEPT !.value = v] \in FilterEntry
        BY <2>1, <1>3 DEF FilterEntry
    <2>3. SetEntry(IF v = "none" THEN None ELSE [cell EXCEPT !.value = v])
        BY <1>3 DEF TypeValue
    <2> HIDE DEF cell
    <2>4. QED
        BY <1>2, <2>2, <2>3
<1>4. ASSUME NEW op \in Operator, SelectOperator(op) PROVE TableInv'
    <2> DEFINE e == [op |-> op,
                     value |-> IF op \in ValueFree \/ entry = None THEN "none" ELSE entry.value]
    <2>1. e \in FilterEntry
        BY <1>1 DEF FilterEntry, Value
    <2>2. SetEntry(e)
        BY <1>4 DEF SelectOperator
    <2>3. QED
        BY <1>2, <2>1, <2>2
<1>5. ASSUME ClearFilters PROVE TableInv'
    <2>1. PICK t \in BOOLEAN : t = TRUE
        OBVIOUS
    <2>2. Change(None, None, t, sorting, vis) /\ (~t => None = Active(None))
        BY <1>5, <2>1 DEF ClearFilters
    <2>3. None \in FilterEntry \cup {None}
        OBVIOUS
    <2>4. QED
        BY <1>1, <2>2, <2>3, ChangeStep
<1>6. QED
    BY <1>3, <1>4, <1>5

LEMMA SortSteps ==
    ASSUME TableInv,
           \/ \E id \in Fields : SortAdd(id)
           \/ \E i \in DOMAIN sorting : SortRemove(i) \/ SortToggle(i)
    PROVE  TableInv'
<1>1. /\ entry \in FilterEntry \cup {None} /\ active \in FilterEntry \cup {None}
      /\ sorting \in Sorts /\ vis \in {"unset", "shown", "hidden"} /\ timer \in BOOLEAN
      /\ ~timer => active = Active(entry)
    BY DEF TableInv, ControlsOK
<1>2. ASSUME NEW s \in Sorts, Sort(s) PROVE TableInv'
    BY <1>1, <1>2, ChangeStep DEF Sort
<1>3. ASSUME NEW id \in Fields, SortAdd(id) PROVE TableInv'
    <2>1. [id |-> id, desc |-> FALSE] \in Level
        BY DEF Level
    <2>2. Append(sorting, [id |-> id, desc |-> FALSE]) \in Sorts
        BY <1>1, <1>3, <2>1, SortsKept DEF SortAdd
    <2>3. QED
        BY <1>2, <1>3, <2>2 DEF SortAdd
<1>4. ASSUME NEW i \in DOMAIN sorting, SortRemove(i) \/ SortToggle(i) PROVE TableInv'
    BY <1>1, <1>2, <1>4, SortsKept DEF SortRemove, SortToggle
<1>5. QED
    BY <1>3, <1>4

LEMMA ViewSteps ==
    ASSUME TableInv,
           ToggleColumn \/ ResetView
    PROVE  TableInv'
<1>1. /\ entry \in FilterEntry \cup {None} /\ active \in FilterEntry \cup {None}
      /\ sorting \in Sorts /\ vis \in {"unset", "shown", "hidden"} /\ timer \in BOOLEAN
      /\ ~timer => active = Active(entry)
    BY DEF TableInv, ControlsOK
<1>2. ASSUME ToggleColumn PROVE TableInv'
    BY <1>1, <1>2, ChangeStep DEF ToggleColumn
<1>3. ASSUME ResetView PROVE TableInv'
    BY <1>3, ControlTypes, ChangeStep DEF ResetView
<1>4. QED
    BY <1>2, <1>3

\* The debounced filter becomes the one typed.
LEMMA DebounceStep ==
    ASSUME TableInv, Debounce
    PROVE  TableInv'
<1>1. /\ timer' = FALSE /\ active' = Active(entry)
      /\ flight' = Begin(flight, Key(Active(entry), sorting))
      /\ failed' = (failed /\ Key(Active(entry), sorting) = Current)
      /\ column' = column /\ live' = live /\ user' = user /\ entry' = entry /\ sorting' = sorting
      /\ vis' = vis /\ store' = store /\ cache' = cache
    BY DEF Debounce
<1>2. entry \in FilterEntry \cup {None} /\ sorting \in Sorts
    BY DEF TableInv, ControlsOK
<1>3. Active(entry) \in FilterEntry \cup {None}
      /\ Key(Active(entry), sorting) \in View
    BY <1>2, ControlTypes
<1>4. ControlsOK'
    <2>1. Active(entry)' = Active(entry) /\ Stored(user)' = Stored(user)
          /\ Seen' = Seen
        BY <1>1 DEF Active, Stored, Seen
    <2>2. QED
        BY <1>1, <1>3, <2>1 DEF TableInv, ControlsOK
<1>5. PagesTyped' /\ PagesOK'
    BY <1>1, <1>3, Begun DEF TableInv, ControlsOK
<1>6. QED
    BY <1>4, <1>5 DEF TableInv

\* The view taken from localStorage is the one that stays stored.
LEMMA Taken ==
    ASSUME ControlsOK, NEW u \in User, user' = u,
           Take(Stored(u)), store' = store, column' = column, live' = live,
           failed' = FALSE
    PROVE  /\ ControlsOK'
           /\ Key(Active(Stored(u).filter), Stored(u).sort) \in View
<1> DEFINE session == Stored(u)
<1>1. session \in Session
    BY ControlTypes DEF Stored, ControlsOK
<1> HIDE DEF session
<1>2. /\ session.filter \in FilterEntry \cup {None} /\ session.sort \in Sorts
      /\ session.vis \in {"unset", "shown", "hidden"}
      /\ session = [filter |-> session.filter, sort |-> session.sort, vis |-> session.vis]
    BY <1>1, ControlTypes
<1>3. /\ entry' = session.filter /\ active' = Active(session.filter) /\ timer' = TRUE
      /\ sorting' = session.sort /\ vis' = session.vis
    BY DEF Take, session
<1>4. Active(session.filter) \in FilterEntry \cup {None}
      /\ Key(Active(session.filter), session.sort) \in View
    BY <1>2, ControlTypes
<1>5. Stored(user)' = session
    BY DEF Stored, session
<1>6. Seen' = session
    BY <1>2, <1>3 DEF Seen
<1>7. ControlsOK'
    BY <1>2, <1>3, <1>4, <1>5, <1>6 DEF ControlsOK
<1>8. QED
    BY <1>4, <1>7 DEF session

LEMMA SwitchStep ==
    ASSUME TableInv, NEW u \in User, SwitchUser(u)
    PROVE  TableInv'
<1>1. /\ user' = u /\ Take(Stored(u)) /\ store' = store /\ column' = column
      /\ live' = live /\ failed' = FALSE /\ cache' = cache
      /\ flight' = Begin(flight, Key(Active(Stored(u).filter),
                                                 Stored(u).sort))
    BY DEF SwitchUser
<1>2. /\ ControlsOK'
      /\ Key(Active(Stored(u).filter), Stored(u).sort) \in View
    BY <1>1, Taken DEF TableInv
<1>3. PagesTyped' /\ PagesOK'
    BY <1>1, <1>2, Begun DEF TableInv, ControlsOK
<1>4. QED
    BY <1>2, <1>3 DEF TableInv

LEMMA ReloadStep ==
    ASSUME TableInv, Reload
    PROVE  TableInv'
<1> DEFINE k == Key(Active(Stored(user).filter), Stored(user).sort)
<1>1. /\ user' = user /\ Take(Stored(user)) /\ store' = store /\ column' = column
      /\ live' = live /\ failed' = FALSE /\ cache' = <<>>
      /\ flight' = Put(<<>>, k, Loading(1))
    BY DEF Reload
<1>2. ControlsOK' /\ k \in View
    <2>1. user \in User
        BY DEF TableInv, ControlsOK
    <2>2. QED
        BY <1>1, <2>1, Taken DEF TableInv
<1>3. DOMAIN cache' = {} /\ DOMAIN flight' = {k} /\ flight'[k] = Loading(1)
    BY <1>1 DEF Put
<1> HIDE DEF k
<1>4. /\ flight'[k] \in Load /\ flight'[k].got.count < flight'[k].want
      /\ flight'[k].got.rows = <<>> /\ Begins(flight'[k].got, Answer(k))
    BY <1>3, Asking, AnswerTyped DEF TableInv, ControlsOK
<1>5. PagesTyped'
    BY <1>2, <1>3, <1>4 DEF PagesTyped, Load
<1>6. PagesOK'
    BY <1>1, <1>3, <1>4, SameAnswers DEF PagesOK
<1>7. QED
    BY <1>2, <1>5, <1>6 DEF TableInv

\* What is left alone when pages come and go.
LEMMA ControlsRest ==
    ASSUME ControlsOK, UNCHANGED <<column, live, user, controls, store>>, failed' \in BOOLEAN
    PROVE  ControlsOK'
<1>1. /\ column' = column /\ live' = live /\ user' = user /\ entry' = entry /\ active' = active
      /\ timer' = timer /\ sorting' = sorting /\ vis' = vis /\ store' = store
    BY DEF controls
<1>2. Active(entry)' = Active(entry) /\ Stored(user)' = Stored(user)
      /\ Seen' = Seen
    BY <1>1 DEF Active, Stored, Seen
<1>3. QED
    BY <1>1, <1>2 DEF ControlsOK

\* The query shown is one of those asked.
LEMMA CurrentTyped == ASSUME ControlsOK PROVE Current \in View
BY ControlTypes DEF ControlsOK, Current

\* A request replaces the one under way for a query.
LEMMA QueryAsked ==
    ASSUME PagesTyped, PagesOK, NEW k \in View, NEW q \in Load,
           q.got.count < q.want, q.got.count = 0 => q.got.rows = <<>>,
           q.calm => Begins(q.got, Answer(k)),
           live' = live, column' = column, cache' = cache, flight' = Put(flight, k, q)
    PROVE  PagesTyped' /\ PagesOK'
<1>1. /\ DOMAIN flight' = DOMAIN flight \cup {k} /\ flight'[k] = q
      /\ \A v \in DOMAIN flight : v # k => flight'[v] = flight[v]
    BY DEF Put
<1>2. PagesTyped'
    BY <1>1 DEF PagesTyped, Cached, Load
<1>3. PagesOK'
    BY <1>1, SameAnswers DEF PagesOK
<1>4. QED
    BY <1>2, <1>3

LEMMA FetchSteps ==
    ASSUME TableInv, FetchNextPage \/ Refetch
    PROVE  TableInv'
<1> DEFINE k == Current
<1>1. /\ k \in DOMAIN cache /\ UNCHANGED <<column, live, user, controls, store, cache, failed>>
    BY DEF FetchNextPage, Refetch
<1>2. ControlsOK'
    <2>1. failed \in BOOLEAN
        BY DEF TableInv, ControlsOK
    <2>2. QED
        BY <1>1, <2>1, ControlsRest DEF TableInv
<1>3. k \in View
    BY CurrentTyped DEF TableInv
<1>4. /\ cache[k] \in Cached /\ cache[k].pages.count \in Nat /\ cache[k].pages.count > 0
      /\ cache[k].calm => Begins(cache[k].pages, Answer(k))
    BY <1>1 DEF TableInv, PagesTyped, PagesOK, Cached, Pages
<1>5. CASE FetchNextPage
    <2> DEFINE q == [want |-> cache[k].pages.count + 1, got |-> cache[k].pages, calm |-> cache[k].calm]
    <2>1. flight' = Put(flight, k, q)
        BY <1>5 DEF FetchNextPage
    <2> HIDE DEF k
    <2>2. /\ q \in Load /\ q.got.count < q.want /\ (q.got.count = 0 => q.got.rows = <<>>)
          /\ (q.calm => Begins(q.got, Answer(k)))
        BY <1>4 DEF Load, Cached
    <2> HIDE DEF q
    <2>3. QED
        BY <1>1, <1>2, <1>3, <2>1, <2>2, QueryAsked DEF TableInv
<1>6. CASE Refetch
    <2> DEFINE q == Loading(cache[k].pages.count)
    <2>1. flight' = Put(flight, k, q)
        BY <1>6 DEF Refetch
    <2> HIDE DEF k
    <2>2. /\ q \in Load /\ q.got.count < q.want /\ q.got.rows = <<>>
          /\ Begins(q.got, Answer(k))
        BY <1>4, Asking, AnswerTyped DEF TableInv, ControlsOK
    <2> HIDE DEF q
    <2>3. QED
        BY <1>1, <1>2, <1>3, <2>1, <2>2, QueryAsked DEF TableInv
<1>7. QED
    BY <1>5, <1>6

\* The fields of a request some of which change.
LEMMA LoadFields ==
    ASSUME NEW x \in Load, NEW p \in Pages, NEW b \in BOOLEAN
    PROVE  /\ [x EXCEPT !.got = p, !.calm = b] = [want |-> x.want, got |-> p, calm |-> b]
           /\ [x EXCEPT !.calm = b] = [want |-> x.want, got |-> x.got, calm |-> b]
<1>1. x = [want |-> x.want, got |-> x.got, calm |-> x.calm]
    BY DEF Load
<1> DEFINE y == [x EXCEPT !.got = p]
<1>2. y = [want |-> x.want, got |-> p, calm |-> x.calm]
    BY <1>1
<1>3. [x EXCEPT !.got = p, !.calm = b] = [y EXCEPT !.calm = b]
    OBVIOUS
<1> HIDE DEF y
<1>4. [y EXCEPT !.calm = b] = [want |-> x.want, got |-> p, calm |-> b]
    BY <1>2
<1>5. [x EXCEPT !.calm = b] = [want |-> x.want, got |-> x.got, calm |-> b]
    BY <1>1
<1>6. QED
    BY <1>3, <1>4, <1>5

LEMMA PageStep ==
    ASSUME TableInv, NEW v \in DOMAIN flight, PageArrives(v)
    PROVE  TableInv'
<1> DEFINE A == Answer(v)
           got == flight[v].got
           want == flight[v].want
           pages == WithPage(got, A)
           fresh == got.count = 0 \/ flight[v].calm
           complete == got.count + 1 = want
           last == complete \/ NextOffset(pages, Len(A)) = None
<1>1. /\ IF last THEN /\ cache' = Put(cache, v, [pages |-> pages, total |-> Len(A),
                                                         calm |-> fresh])
                      /\ flight' = Without(flight, v)
                      /\ failed' = (failed /\ v # Current)
                 ELSE /\ flight' = [flight EXCEPT ![v].got = pages, ![v].calm = fresh]
                      /\ cache' = cache /\ failed' = failed
      /\ UNCHANGED <<column, live, user, controls, store>>
    BY DEF PageArrives, Arrive
<1>2. A \in Seq(Row) /\ v \in View
    BY AnswerTyped DEF TableInv, ControlsOK, PagesTyped
<1>3. /\ flight[v] \in Load /\ got \in Pages /\ got.count \in Nat /\ want \in Nat
      /\ got.count < want /\ flight[v].calm \in BOOLEAN
    BY DEF TableInv, PagesTyped, Load, Pages
<1> HIDE DEF A
<1>4. /\ pages \in Pages /\ pages.count = got.count + 1
      /\ Begins(got, A) => Begins(pages, A)
    BY <1>2, <1>3, WithPageOK
<1>5. fresh => Begins(got, A)
    <2>1. CASE flight[v].calm
        BY <2>1 DEF TableInv, PagesOK, A
    <2>2. CASE got.count = 0
        <3>1. got.rows = <<>>
            BY <2>2 DEF TableInv, PagesTyped
        <3>2. SubSeq(A, 1, 0) = <<>> /\ Len(A) \in Nat
            BY <1>2, SubSeqEmpty
        <3>3. QED
            BY <3>1, <3>2 DEF Begins
    <2>3. QED
        BY <2>1, <2>2
<1>6. live' = live /\ column' = column
    BY <1>1
<1>7. fresh \in BOOLEAN
    OBVIOUS
<1> HIDE DEF pages, fresh
<1>8. CASE last
    <2> DEFINE c == [pages |-> pages, total |-> Len(A), calm |-> fresh]
    <2>1. /\ cache' = Put(cache, v, c) /\ flight' = Without(flight, v)
          /\ failed' = (failed /\ v # Current)
        BY <1>1, <1>8
    <2>2. c \in Cached /\ c.pages.count > 0 /\ (c.calm => Begins(c.pages, A) /\ c.total = Len(A))
        BY <1>2, <1>3, <1>4, <1>5, <1>7 DEF Cached
    <2> HIDE DEF c, last
    <2>3. /\ DOMAIN cache' = DOMAIN cache \cup {v} /\ cache'[v] = c
          /\ \A x \in DOMAIN cache : x # v => cache'[x] = cache[x]
          /\ DOMAIN flight' = DOMAIN flight \ {v}
          /\ \A x \in DOMAIN flight' : flight'[x] = flight[x]
        BY <2>1 DEF Put, Without
    <2>4. ControlsOK'
        BY <1>1, <2>1, ControlsRest DEF TableInv
    <2>5. PagesTyped'
        BY <1>2, <2>2, <2>3 DEF TableInv, PagesTyped, Load
    <2>6. PagesOK'
        BY <1>6, <2>2, <2>3, SameAnswers DEF TableInv, PagesOK, A
    <2>7. QED
        BY <2>4, <2>5, <2>6 DEF TableInv
<1>9. CASE ~last
    <2> DEFINE q == [flight[v] EXCEPT !.got = pages, !.calm = fresh]
    <2>1. /\ flight' = [flight EXCEPT ![v].got = pages, ![v].calm = fresh]
          /\ cache' = cache /\ failed' = failed
        BY <1>1, <1>9
    <2>2. /\ DOMAIN flight' = DOMAIN flight /\ flight'[v] = q
          /\ \A x \in DOMAIN flight : x # v => flight'[x] = flight[x]
        BY <2>1
    <2>3. got.count + 1 < want
        BY <1>3, <1>9
    <2>4. /\ q \in Load /\ q.got.count < q.want /\ q.got.count # 0
          /\ q.calm => Begins(q.got, A)
        <3>1. q = [want |-> want, got |-> pages, calm |-> fresh]
            BY <1>3, <1>4, <1>7, LoadFields
        <3>2. QED
            BY <1>3, <1>4, <1>5, <1>7, <2>3, <3>1 DEF Load
    <2> HIDE DEF q, last
    <2>5. ControlsOK'
        <3>1. failed' \in BOOLEAN
            BY <2>1 DEF TableInv, ControlsOK
        <3>2. QED
            BY <1>1, <3>1, ControlsRest DEF TableInv
    <2>6. PagesTyped'
        BY <1>2, <2>1, <2>2, <2>4 DEF TableInv, PagesTyped, Cached
    <2>7. PagesOK'
        <3>1. \A x : Answer(x)' = Answer(x)
            BY <1>6, SameAnswers
        <3>2. \A x \in DOMAIN flight' : flight'[x].calm => Begins(flight'[x].got, Answer(x))
            BY <2>2, <2>4 DEF TableInv, PagesOK, A
        <3>3. QED
            BY <2>1, <3>1, <3>2 DEF TableInv, PagesOK
    <2>8. QED
        BY <2>5, <2>6, <2>7 DEF TableInv
<1>10. QED
    BY <1>8, <1>9

LEMMA FailStep ==
    ASSUME TableInv, NEW v \in DOMAIN flight, PageFails(v)
    PROVE  TableInv'
<1>1. /\ flight' = Without(flight, v) /\ failed' = (failed \/ v = Current)
      /\ cache' = cache /\ UNCHANGED <<column, live, user, controls, store>>
    BY DEF PageFails
<1>2. /\ DOMAIN flight' = DOMAIN flight \ {v}
      /\ \A x \in DOMAIN flight' : flight'[x] = flight[x]
    BY <1>1 DEF Without
<1>3. ControlsOK'
    BY <1>1, ControlsRest DEF TableInv
<1>4. PagesTyped'
    BY <1>1, <1>2 DEF TableInv, PagesTyped, Cached, Load
<1>5. live' = live /\ column' = column
    BY <1>1
<1>6. PagesOK'
    BY <1>1, <1>2, <1>5, SameAnswers DEF TableInv, PagesOK
<1>7. QED
    BY <1>3, <1>4, <1>6 DEF TableInv

\* Another user's write disturbs every page.
LEMMA WriteStep ==
    ASSUME TableInv, NEW r \in Row, OtherWrites(r)
    PROVE  TableInv'
<1>1. /\ live' = (IF r \in live THEN live \ {r} ELSE live \cup {r})
      /\ cache' = [v \in DOMAIN cache |-> [cache[v] EXCEPT !.calm = FALSE]]
      /\ flight' = [v \in DOMAIN flight |-> [flight[v] EXCEPT !.calm = FALSE]]
      /\ column' = column /\ user' = user /\ store' = store /\ failed' = failed
      /\ entry' = entry /\ active' = active /\ timer' = timer /\ sorting' = sorting /\ vis' = vis
    BY DEF OtherWrites, controls
<1>2. ControlsOK'
    <2>1. Active(entry)' = Active(entry) /\ Stored(user)' = Stored(user)
          /\ Seen' = Seen
        BY <1>1 DEF Active, Stored, Seen
    <2>2. live' \subseteq Row
        BY <1>1 DEF TableInv, ControlsOK
    <2>3. QED
        BY <1>1, <2>1, <2>2 DEF TableInv, ControlsOK
<1>3. /\ DOMAIN cache' = DOMAIN cache /\ DOMAIN flight' = DOMAIN flight
      /\ \A v \in DOMAIN cache : cache'[v] = [cache[v] EXCEPT !.calm = FALSE]
      /\ \A v \in DOMAIN flight : flight'[v] = [flight[v] EXCEPT !.calm = FALSE]
    BY <1>1
<1>4. \A v \in DOMAIN cache : /\ cache'[v] \in Cached /\ cache'[v].pages = cache[v].pages
                              /\ ~cache'[v].calm
    BY <1>3 DEF TableInv, PagesTyped, Cached
<1>5. \A v \in DOMAIN flight : /\ flight'[v] \in Load /\ flight'[v].got = flight[v].got
                               /\ flight'[v].want = flight[v].want /\ ~flight'[v].calm
    <2> SUFFICES ASSUME NEW v \in DOMAIN flight
                 PROVE  /\ flight'[v] \in Load /\ flight'[v].got = flight[v].got
                        /\ flight'[v].want = flight[v].want /\ ~flight'[v].calm
        OBVIOUS
    <2>1. flight[v] \in Load /\ flight[v].got \in Pages /\ flight[v].want \in Nat
        BY DEF TableInv, PagesTyped, Load
    <2>2. flight'[v] = [want |-> flight[v].want, got |-> flight[v].got, calm |-> FALSE]
        BY <1>3, <2>1, LoadFields
    <2>3. QED
        BY <2>1, <2>2 DEF Load
<1>6. PagesTyped'
    BY <1>3, <1>4, <1>5 DEF TableInv, PagesTyped
<1>7. PagesOK'
    BY <1>3, <1>4, <1>5 DEF PagesOK
<1>8. QED
    BY <1>2, <1>6, <1>7 DEF TableInv

-----------------------------------------------------------------------------
\* A table starts with its view stored by default and its first query asked.
LEMMA TableStarts ==
    ASSUME TableInit
    PROVE  TableInv
<1> DEFINE k == Key(None, DefaultSort)
<1>1. /\ column \in Columns /\ live = Row \ Absent /\ user = First
      /\ entry = None /\ active = None /\ timer = TRUE
      /\ sorting = DefaultSort /\ vis = "unset" /\ store = [u \in User |-> None]
      /\ cache = <<>> /\ flight = Put(<<>>, k, Loading(1)) /\ failed = FALSE
    BY DEF TableInit
<1>2. ControlsOK
    <2>1. First \in User
        BY ViewAssumption
    <2>2. Stored(user) = DefaultSession
        BY <1>1, <2>1 DEF Stored
    <2>3. Seen = DefaultSession
        BY <1>1 DEF Seen, DefaultSession
    <2>4. QED
        BY <1>1, <2>1, <2>2, <2>3, ControlTypes DEF ControlsOK
<1>3. k \in View
    BY ControlTypes
<1>4. DOMAIN cache = {} /\ DOMAIN flight = {k} /\ flight[k] = Loading(1)
    BY <1>1 DEF Put
<1> HIDE DEF k
<1>5. /\ flight[k] \in Load /\ flight[k].got.count < flight[k].want
      /\ flight[k].got.rows = <<>> /\ Begins(flight[k].got, Answer(k))
    BY <1>2, <1>4, Asking, AnswerTyped DEF ControlsOK
<1>6. PagesTyped /\ PagesOK
    BY <1>3, <1>4, <1>5 DEF PagesTyped, PagesOK, Load
<1>7. QED
    BY <1>2, <1>6 DEF TableInv

\* Every step keeps the invariant.
LEMMA TableKeeps ==
    ASSUME TableInv, [TableNext]_tableVars
    PROVE  TableInv'
<1>1. CASE TableNext
    BY <1>1, FilterSteps, SortSteps, ViewSteps, DebounceStep, SwitchStep, ReloadStep, FetchSteps,
       PageStep, FailStep, WriteStep DEF TableNext
<1>2. CASE UNCHANGED tableVars
    <2>1. /\ UNCHANGED <<column, live, user, controls, store>>
          /\ cache' = cache /\ flight' = flight /\ failed' = failed
        BY <1>2 DEF tableVars, controls
    <2>2. failed' \in BOOLEAN /\ live' = live /\ column' = column
        BY <2>1 DEF TableInv, ControlsOK
    <2>3. ControlsOK'
        BY <2>1, <2>2, ControlsRest DEF TableInv
    <2>4. PagesTyped' /\ PagesOK'
        BY <2>1, <2>2, SameAnswers DEF TableInv, PagesTyped, PagesOK, Cached, Load
    <2>5. QED
        BY <2>3, <2>4 DEF TableInv
<1>3. QED
    BY <1>1, <1>2

\* The invariant of the tables: the view that is seen is the view that is stored,
\* and pages that no other user disturbed are the beginning of the answer.
THEOREM TableSound == TableSpec => []TableInv
BY TableStarts, TableKeeps, PTL DEF TableSpec

\* Every variable of a table keeps its type.
THEOREM TableTypeCorrect == TableSpec => []TableTypeOK
<1>1. ASSUME TableInv PROVE TableTypeOK
    <2>1. Current \in View
        BY <1>1, CurrentTyped DEF TableInv
    <2>2. QED
        BY <1>1, <2>1 DEF TableInv, ControlsOK, PagesTyped, Cached, Load, TableTypeOK
<1>2. QED
    BY <1>1, TableSound, PTL

\* The rows of a table at rest are what its controls ask for, in their order, with
\* none twice and none left out, and all of them once no page is left.
THEOREM TableShowsControls == TableSpec => []ControlsShown
<1>1. ASSUME TableInv PROVE ControlsShown
    <2> SUFFICES ASSUME ~timer, Current \in DOMAIN cache, cache[Current].calm,
                        column.sorted, entry # None => entry.op \in column.heeded
                 PROVE  LET shown == cache[Current].pages.rows
                            wanted == Wanted([sort |-> sorting, filter |-> Active(entry)])
                        IN /\ IsPrefix(shown, wanted)
                           /\ NextOffset(cache[Current].pages, cache[Current].total)
                                 = None => shown = wanted
        BY DEF ControlsShown, Settled
    <2> DEFINE k == Current
               A == Answer(k)
               rows == cache[k].pages.rows
    <2>1. active = Active(entry)
        BY <1>1 DEF TableInv, ControlsOK
    <2>2. k.sort = sorting /\ k.filter = active
          /\ k = [sort |-> sorting, filter |-> Active(entry)]
        BY <2>1 DEF Current, Key
    <2>3. Wanted([sort |-> sorting, filter |-> Active(entry)]) = A
        <3>1. active # None => active = entry /\ active.op \in column.heeded
            BY <2>1 DEF Active
        <3>2. Selects(None, live) = live
            BY DEF Selects
        <3>3. QED
            BY <2>2, <3>1, <3>2 DEF Wanted, Answer
    <2>4. A \in Seq(Row) /\ Len(A) \in Nat
        BY <1>1, AnswerTyped DEF TableInv, ControlsOK
    <2>5. /\ rows \in Seq(Row) /\ Len(rows) \in Nat /\ cache[k].total = Len(A)
          /\ Len(rows) <= Len(A) /\ rows = SubSeq(A, 1, Len(rows))
        BY <1>1 DEF TableInv, PagesTyped, PagesOK, Cached, Pages, Begins
    <2> HIDE DEF A, rows
    <2>6. SubSeq(rows, 1, Len(rows)) = rows
        BY <2>5
    <2>7. IsPrefix(rows, A)
        BY <2>5, <2>6 DEF IsPrefix
    <2>8. ASSUME NextOffset(cache[k].pages, cache[k].total) = None PROVE rows = A
        <3>1. None \notin Nat
            BY NoneAssumption
        <3>2. ~(Len(rows) < Len(A))
            BY <2>5, <2>8, <3>1 DEF NextOffset, rows
        <3>3. Len(rows) = Len(A)
            BY <2>4, <2>5, <3>2
        <3>4. SubSeq(A, 1, Len(A)) = A
            BY <2>4
        <3>5. QED
            BY <2>5, <3>3, <3>4
    <2>9. QED
        BY <2>3, <2>7, <2>8 DEF rows
<1>2. QED
    BY <1>1, TableSound, PTL

\* Each step leaves stored what a reload would show, and writes the view of no
\* other user.
THEOREM TableKeepsViews == TableSpec => ViewsKept
<1> DEFINE Kept == /\ (Stored(user) = Seen)'
                   /\ \A u \in User : store'[u] # store[u] => u = user /\ user' = user
<1>1. ASSUME TableInv, TableInv', [TableNext]_tableVars PROVE [Kept]_tableVars
    <2>1. (Stored(user) = Seen)'
        BY <1>1 DEF TableInv, ControlsOK
    <2>2. ASSUME TableNext PROVE \A u \in User : store'[u] # store[u] => u = user /\ user' = user
        <3>1. ASSUME NEW e, NEW a, NEW t, NEW s, NEW w, Change(e, a, t, s, w)
              PROVE  \A u \in User : store'[u] # store[u] => u = user /\ user' = user
            BY <1>1, <3>1 DEF Change, Persist, TableInv, ControlsOK
        <3>2. ASSUME store' = store
              PROVE  \A u \in User : store'[u] # store[u] => u = user /\ user' = user
            BY <3>2
        <3>3. QED
            BY <2>2, <3>1, <3>2
               DEF TableNext, TypeValue, SelectOperator, ClearFilters,
                   ToggleColumn, ResetView, Debounce, Reload, SortAdd,
                   SortRemove, SortToggle, SetEntry, Sort, SwitchUser,
                   FetchNextPage, Refetch, PageArrives, Arrive,
                   PageFails, OtherWrites
    <2>3. QED
        BY <1>1, <2>1, <2>2
<1>2. QED
    BY <1>1, TableSound, PTL DEF TableSpec, ViewsKept, Seen

=============================================================================

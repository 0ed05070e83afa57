------------------------- MODULE ChangeReviewProofs -------------------------
(***************************************************************************)
(* Theorems about ChangeReview, for all sets of rows and requests.         *)
(***************************************************************************)
EXTENDS ChangeReview, SequenceTheorems, TLAPS

(***************************************************************************)
(* How a step changes the log: it appends one entry, or marks entries.     *)
(***************************************************************************)

\* An appended entry leaves the others in place and has the type of an entry.
LEMMA LogAuditAppends ==
    ASSUME TypeOK, NEW r \in Records, NEW op \in {"CREATE", "UPDATE", "DELETE"},
           NEW old \in Row, LogAudit(r, op, old)
    PROVE  /\ log' \in Seq(Entry)
           /\ Len(log') = Len(log) + 1
           /\ \A i \in Ids : log'[i] = log[i]
           /\ log'[Len(log) + 1] = [rec |-> r, op |-> op, old |-> old,
                                    acked |-> FALSE, undone |-> FALSE]
<1> DEFINE e == [rec |-> r, op |-> op, old |-> old,
                 acked |-> FALSE, undone |-> FALSE]
<1>1. log \in Seq(Entry)
  BY DEF TypeOK
<1>2. e \in Entry
  BY DEF Entry
<1>3. log' = Append(log, e)
  BY DEF LogAudit
<1> HIDE DEF e
<1>4. /\ log' \in Seq(Entry)
      /\ Len(log') = Len(log) + 1
      /\ \A i \in 1 .. Len(log) : log'[i] = log[i]
      /\ log'[Len(log) + 1] = e
  BY <1>1, <1>2, <1>3
<1> QED
  BY <1>4 DEF e, Ids

\* Marking one entry changes nothing but its marks.
LEMMA MarkChangesOne ==
    ASSUME TypeOK, NEW i \in Ids, MarkAcked(i) \/ MarkUndone(i)
    PROVE  /\ log' \in Seq(Entry)
           /\ Len(log') = Len(log)
           /\ \A j \in Ids : /\ log'[j].rec = log[j].rec
                             /\ log'[j].op = log[j].op
                             /\ log'[j].old = log[j].old
                             /\ j # i => log'[j] = log[j]
<1>1. log \in Seq(Entry) /\ log[i] \in Entry
  BY DEF TypeOK, Ids
<1>2. Acked(log[i]) \in Entry /\ Undone(log[i]) \in Entry
  BY <1>1 DEF Acked, Undone, Entry
<1>3. PICK e \in Entry : /\ log' = [log EXCEPT ![i] = e]
                         /\ e.rec = log[i].rec /\ e.op = log[i].op
                         /\ e.old = log[i].old
  BY <1>1, <1>2 DEF MarkAcked, MarkUndone, Acked, Undone, Entry
<1>4. /\ log' \in Seq(Entry)
      /\ Len(log') = Len(log)
      /\ \A j \in 1 .. Len(log) : log'[j] = IF j = i THEN e ELSE log[j]
  BY <1>1, <1>3 DEF Ids
<1> QED
  BY <1>3, <1>4 DEF Ids

\* So does marking a set of entries.
LEMMA BulkChangesMarks ==
    ASSUME TypeOK, NEW S \in SUBSET Ids, NEW action \in {"acknowledge", "undo"},
           BulkAction(action, S)
    PROVE  /\ log' \in Seq(Entry)
           /\ Len(log') = Len(log)
           /\ \A j \in Ids : /\ log'[j].rec = log[j].rec
                             /\ log'[j].op = log[j].op
                             /\ log'[j].old = log[j].old
                             /\ ~Pending(j) => log'[j] = log[j]
<1> DEFINE F(j) == IF j \notin S THEN log[j]
                   ELSE IF action = "undo" THEN Undone(log[j])
                   ELSE Acked(log[j])
<1>1. log \in Seq(Entry) /\ \A j \in Ids : log[j] \in Entry
  BY DEF TypeOK, Ids
<1>2. \A j \in Ids : Acked(log[j]) \in Entry /\ Undone(log[j]) \in Entry
  BY <1>1 DEF Acked, Undone, Entry
<1>3. log' = [j \in Ids |-> F(j)] /\ \A j \in S : Pending(j)
  BY DEF BulkAction
<1>4. \A j \in Ids : /\ F(j) \in Entry
                     /\ F(j).rec = log[j].rec /\ F(j).op = log[j].op
                     /\ F(j).old = log[j].old
  BY <1>1, <1>2 DEF Acked, Undone, Entry
<1>5. \A j \in Ids : ~Pending(j) => F(j) = log[j]
  BY <1>3
<1> HIDE DEF F
<1>6. \A j \in Ids : log'[j] = F(j)
  BY <1>3
<1>7. Len(log) \in Nat /\ DOMAIN log' = 1 .. Len(log)
  BY <1>1, <1>3 DEF Ids
<1>8. log' \in Seq(Entry) /\ Len(log') = Len(log)
  BY <1>3, <1>4, <1>7 DEF Ids
<1> QED
  BY <1>4, <1>5, <1>6, <1>8

-----------------------------------------------------------------------------
(***************************************************************************)
(* Type correctness.                                                       *)
(***************************************************************************)

\* The rows and entries the handlers write are rows and entries.
LEMMA RowTypes ==
    /\ NoRow \in Row /\ GoneRow \in Row /\ Idle \in Request
    /\ \A r \in Records : Values(r) \subseteq Vals
    /\ \A x \in Row : /\ [x EXCEPT !.state = "live"] \in Row
                      /\ [x EXCEPT !.state = "deleted"] \in Row
    /\ \A x \in Row, v \in Vals : [x EXCEPT !.val = v] \in Row
    /\ \A v \in Vals : [state |-> "live", val |-> v] \in Row
BY DEF NoRow, GoneRow, Row, Vals, Idle, Request, Values

\* Every variable of the specification keeps its type.
THEOREM TypeCorrect == Spec => []TypeOK
<1>1. Init => TypeOK
  <2> SUFFICES ASSUME Init PROVE TypeOK
    OBVIOUS
  <2>1. row \in [Records -> Row] /\ req \in [Requests -> Request]
    BY RowTypes DEF Init
  <2>2. log \in Seq(Entry)
    BY DEF Init
  <2>3. \A p \in Requests : req[p].kind = "idle"
    BY DEF Init, Idle
  <2> QED
    BY <2>1, <2>2, <2>3 DEF TypeOK
<1>2. TypeOK /\ [Next]_vars => TypeOK'
  <2> SUFFICES ASSUME TypeOK, [Next]_vars PROVE TypeOK'
    OBVIOUS
  <2> USE DEF Ids
  <2>0. /\ row \in [Records -> Row] /\ log \in Seq(Entry)
        /\ req \in [Requests -> Request] /\ Len(log) \in Nat
        /\ \A r \in Records : row[r] \in Row
        /\ \A i \in Ids : log[i] \in Entry /\ log[i].rec \in Records
    <3>1. log \in Seq(Entry) /\ \A i \in Ids : log[i] \in Entry
      BY DEF TypeOK
    <3>2. \A e \in Entry : e.rec \in Records
      BY DEF Entry
    <3> QED
      BY <3>1, <3>2 DEF TypeOK
  <2>a. ASSUME NEW p \in Requests, Finish(p), row' \in [Records -> Row],
               log' \in Seq(Entry), Len(log') >= Len(log)
        PROVE  TypeOK'
    <3>1. req' \in [Requests -> Request]
      BY <2>a, <2>0, RowTypes DEF Finish
    <3>2. \A q \in Requests : req'[q] = req[q] \/ req'[q].kind = "idle"
      BY <2>a, <2>0 DEF Finish, Idle
    <3> QED
      BY <3>1, <3>2, <2>a, <2>0 DEF TypeOK
  <2>b. ASSUME NEW p \in Requests, NEW x \in Request, UNCHANGED <<row, log>>,
               req' = [req EXCEPT ![p] = x],
               x.kind \in {"update", "refcheck", "delete"} => x.rec \in Records,
               x.kind \in {"acknowledge", "undo", "purge"} => x.entry \in Ids
        PROVE  TypeOK'
    <3>1. req' \in [Requests -> Request]
      BY <2>b, <2>0
    <3>2. \A q \in Requests : req'[q] = req[q] \/ req'[q] = x
      BY <2>b, <2>0
    <3> QED
      BY <3>1, <3>2, <2>b DEF TypeOK
  <2>1. CASE UNCHANGED vars
    BY <2>1 DEF vars, TypeOK
  <2>2. ASSUME NEW r \in Records, NEW v \in Values(r), Create(r, v) PROVE TypeOK'
    <3>1. row' \in [Records -> Row]
      BY <2>2, <2>0, RowTypes DEF Create
    <3>2. log' \in Seq(Entry) /\ Len(log') = Len(log) + 1
      BY <2>2, LogAuditAppends, RowTypes DEF Create
    <3> QED
      BY <3>1, <3>2, <2>2, <2>0 DEF Create, TypeOK
  <2>3. ASSUME NEW p \in Requests, NEW r \in Records, BeginUpdate(p, r)
        PROVE  TypeOK'
    <3> DEFINE x == [kind |-> "update", rec |-> r, snap |-> row[r], entry |-> 0]
    <3>1. x \in Request
      BY <2>0 DEF Request
    <3> QED
      BY <3>1, <2>3, <2>b DEF BeginUpdate
  <2>4. ASSUME NEW p \in Requests, NEW v \in Vals, CommitUpdate(p, v)
        PROVE  TypeOK'
    <3>1. req[p].rec \in Records /\ req[p].snap \in Row
      BY <2>4, <2>0 DEF TypeOK, CommitUpdate, Request
    <3>a. \/ /\ row' = [row EXCEPT ![req[p].rec] = [row[req[p].rec] EXCEPT !.val = v]]
             /\ LogAudit(req[p].rec, "UPDATE", req[p].snap)
          \/ UNCHANGED <<row, log>>
      BY <2>4 DEF CommitUpdate
    <3>2. row' \in [Records -> Row]
      <4>1. [row[req[p].rec] EXCEPT !.val = v] \in Row
        BY <2>0, <3>1, RowTypes
      <4> QED
        BY <4>1, <3>a, <2>0, <3>1
    <3>3. log' \in Seq(Entry) /\ Len(log') >= Len(log)
      <4>1. LogAudit(req[p].rec, "UPDATE", req[p].snap) => log' \in Seq(Entry) /\ Len(log') = Len(log) + 1
        BY <3>1, LogAuditAppends
      <4> QED
        BY <4>1, <3>a, <2>0
    <3> QED
      BY <3>2, <3>3, <2>4, <2>a DEF CommitUpdate
  <2>5. ASSUME NEW p \in Requests, NEW r \in Records, BeginDelete(p, r)
        PROVE  TypeOK'
    <3> DEFINE x == [kind |-> IF r \in Workstations THEN "delete" ELSE "refcheck",
                     rec |-> r, snap |-> row[r], entry |-> 0]
    <3>1. x \in Request
      BY <2>0 DEF Request
    <3>2. x.kind \in {"delete", "refcheck"} /\ x.rec \in Records
      OBVIOUS
    <3>3. req' = [req EXCEPT ![p] = x] /\ UNCHANGED <<row, log>>
      BY <2>5 DEF BeginDelete
    <3> HIDE DEF x
    <3> QED
      BY <3>1, <3>2, <3>3, <2>b
  <2>6. ASSUME NEW p \in Requests, CheckRefs(p) PROVE TypeOK'
    <3>1. CASE Finish(p)
      BY <3>1, <2>6, <2>0, <2>a DEF CheckRefs
    <3>2. CASE req' = [req EXCEPT ![p].kind = "delete"]
      <4> DEFINE x == [req[p] EXCEPT !.kind = "delete"]
      <4>1. x \in Request /\ x.kind = "delete" /\ x.rec = req[p].rec
        BY <2>0 DEF Request
      <4>2. req[p].rec \in Records
        BY <2>6 DEF CheckRefs, TypeOK
      <4>3. req' = [req EXCEPT ![p] = x] /\ UNCHANGED <<row, log>>
        BY <3>2, <2>6 DEF CheckRefs
      <4> HIDE DEF x
      <4> QED
        BY <4>1, <4>2, <4>3, <2>b
    <3> QED
      BY <3>1, <3>2, <2>6 DEF CheckRefs
  <2>7. ASSUME NEW p \in Requests, CommitDelete(p) PROVE TypeOK'
    <3>1. req[p].rec \in Records /\ req[p].snap \in Row
      BY <2>7, <2>0 DEF TypeOK, CommitDelete, Request
    <3>a. /\ \/ row' = [row EXCEPT ![req[p].rec] = [row[req[p].rec] EXCEPT !.state = "deleted"]]
             \/ UNCHANGED row
          /\ LogAudit(req[p].rec, "DELETE", req[p].snap)
      BY <2>7 DEF CommitDelete
    <3>2. row' \in [Records -> Row]
      <4>1. [row[req[p].rec] EXCEPT !.state = "deleted"] \in Row
        BY <2>0, <3>1, RowTypes
      <4> QED
        BY <4>1, <3>a, <2>0, <3>1
    <3>3. log' \in Seq(Entry) /\ Len(log') >= Len(log)
      <4>1. LogAudit(req[p].rec, "DELETE", req[p].snap) => log' \in Seq(Entry) /\ Len(log') = Len(log) + 1
        BY <3>1, LogAuditAppends
      <4> QED
        BY <4>1, <3>a, <2>0
    <3> QED
      BY <3>2, <3>3, <2>7, <2>a DEF CommitDelete
  <2>8. CASE Crash
    <3>1. req' \in [Requests -> Request]
      BY <2>8, RowTypes DEF Crash
    <3> QED
      BY <3>1, <2>8, <2>0 DEF Crash, TypeOK, Idle
  <2>9. ASSUME NEW p \in Requests, NEW i \in Ids,
               NEW kind \in {"acknowledge", "undo", "purge"},
               BeginReview(p, i, kind)
        PROVE  TypeOK'
    <3> DEFINE x == [kind |-> kind, rec |-> log[i].rec, snap |-> NoRow, entry |-> i]
    <3>1. log[i].rec \in Records
      BY <2>0
    <3>2. x \in Request /\ x.kind = kind /\ x.entry = i
      BY <3>1, RowTypes DEF Request
    <3>3. req' = [req EXCEPT ![p] = x] /\ UNCHANGED <<row, log>>
      BY <2>9 DEF BeginReview
    <3> HIDE DEF x
    <3> QED
      BY <3>2, <3>3, <2>b
  <2>10. ASSUME NEW p \in Requests, CommitAcknowledge(p) PROVE TypeOK'
    <3>1. req[p].entry \in Ids
      BY <2>10 DEF CommitAcknowledge, TypeOK
    <3>2. log' \in Seq(Entry) /\ Len(log') >= Len(log)
      BY <2>10, <2>0, <3>1, MarkChangesOne DEF CommitAcknowledge
    <3> QED
      BY <3>2, <2>10, <2>0, <2>a DEF CommitAcknowledge
  <2>11. ASSUME NEW p \in Requests, CommitUndo(p) PROVE TypeOK'
    <3>1. req[p].entry \in Ids /\ log[req[p].entry] \in Entry
      BY <2>11, <2>0 DEF CommitUndo, TypeOK
    <3>2. log' \in Seq(Entry) /\ Len(log') >= Len(log)
      BY <2>11, <2>0, <3>1, MarkChangesOne DEF CommitUndo
    <3>3. \A e \in Entry : Reversed(e) \in Row
      <4> SUFFICES ASSUME NEW e \in Entry PROVE Reversed(e) \in Row
        OBVIOUS
      <4>1. e.op \in {"CREATE", "UPDATE", "DELETE"} /\ e.old \in Row /\ row[e.rec] \in Row
        BY <2>0 DEF Entry
      <4>2. /\ [row[e.rec] EXCEPT !.state = "deleted"] \in Row
            /\ [row[e.rec] EXCEPT !.state = "live"] \in Row
        BY <4>1, RowTypes
      <4> QED
        BY <4>1, <4>2 DEF Reversed
    <3>4. row' \in [Records -> Row]
      <4>1. \/ UNCHANGED row
            \/ row' = [row EXCEPT ![log[req[p].entry].rec] = Reversed(log[req[p].entry])]
        BY <2>11 DEF CommitUndo, ApplyUndo
      <4> QED
        BY <4>1, <2>0, <3>1, <3>3
    <3> QED
      BY <3>2, <3>4, <2>11, <2>a DEF CommitUndo
  <2>12. ASSUME NEW p \in Requests, CommitPermanentDelete(p) PROVE TypeOK'
    <3>1. req[p].entry \in Ids
      BY <2>12 DEF CommitPermanentDelete, TypeOK
    <3>2. log' \in Seq(Entry) /\ Len(log') >= Len(log)
      BY <2>12, <2>0, <3>1, MarkChangesOne DEF CommitPermanentDelete
    <3>3. row' \in [Records -> Row]
      BY <2>12, <2>0, RowTypes DEF CommitPermanentDelete
    <3> QED
      BY <3>2, <3>3, <2>12, <2>a DEF CommitPermanentDelete
  <2>13. ASSUME NEW action \in {"acknowledge", "undo"}, NEW S \in SUBSET Ids,
                BulkAction(action, S)
         PROVE  TypeOK'
    <3>1. log' \in Seq(Entry) /\ Len(log') = Len(log)
      BY <2>13, BulkChangesMarks
    <3> QED
      BY <3>1, <2>13 DEF BulkAction, TypeOK
  <2> QED
    BY <2>1, <2>2, <2>3, <2>4, <2>5, <2>6, <2>7, <2>8, <2>9, <2>10, <2>11, <2>12,
       <2>13 DEF Next, CatalogStep, ReviewStep
<1> QED
  BY <1>1, <1>2, PTL DEF Spec

-----------------------------------------------------------------------------
(***************************************************************************)
(* The inductive invariant.  RequestsSound says what a request's stale     *)
(* reads still guarantee when it commits; EntriesSound what the log says   *)
(* of rows whatever happened since.                                        *)
(***************************************************************************)

RequestsSound ==
    \A p \in Requests :
        /\ req[p].kind \in {"update", "refcheck", "delete"} =>
              req[p].snap.state = "live" /\ row[req[p].rec].state # "unused"
        /\ req[p].kind = "purge" => log[req[p].entry].op = "DELETE"

EntriesSound ==
    \A i \in Ids :
        /\ ~(log[i].acked /\ log[i].undone)
        /\ row[log[i].rec].state # "unused"
        /\ log[i].op = "UPDATE" => log[i].old.state = "live"

Sound == TypeOK /\ RequestsSound /\ EntriesSound

\* The rows and the log change in one of seven ways, or not at all.
CreateShape(r, v) ==
    /\ row[r].state = "unused" /\ BrandIdOK(r, v)
    /\ row' = [row EXCEPT ![r] = [state |-> "live", val |-> v]]
    /\ LogAudit(r, "CREATE", NoRow)
UpdateShape(r, v, old) ==
    /\ Exists(r) /\ BrandIdOK(r, v) /\ old.state = "live"
    /\ row' = [row EXCEPT ![r] = [row[r] EXCEPT !.val = v]]
    /\ LogAudit(r, "UPDATE", old)
DeleteShape(r, old) ==
    /\ row[r].state # "unused"
    /\ IF Exists(r) THEN row' = [row EXCEPT ![r] = [row[r] EXCEPT !.state = "deleted"]]
                    ELSE row' = row
    /\ LogAudit(r, "DELETE", old)
UndoShape(i) == MarkUndone(i) /\ ApplyUndo(log[i])
PurgeShape(i) ==
    /\ MarkUndone(i) /\ log[i].op = "DELETE" /\ ~Referenced(log[i].rec)
    /\ IF Exists(log[i].rec) THEN row' = [row EXCEPT ![log[i].rec] = GoneRow]
                             ELSE row' = row

\* Every step of the specification has one of these shapes.
LEMMA StepShapes ==
    ASSUME Sound, [Next]_vars
    PROVE  \/ UNCHANGED <<row, log>>
           \/ \E r \in Records, v \in Vals : CreateShape(r, v)
           \/ \E r \in Records, v \in Vals, old \in Row : UpdateShape(r, v, old)
           \/ \E r \in Records, old \in Row : DeleteShape(r, old)
           \/ \E i \in Ids : MarkAcked(i) /\ row' = row
           \/ \E i \in Ids : UndoShape(i)
           \/ \E i \in Ids : PurgeShape(i)
           \/ \E S \in SUBSET Ids, action \in {"acknowledge", "undo"} :
                 BulkAction(action, S)
<1> DEFINE Goal == \/ UNCHANGED <<row, log>>
                   \/ \E r \in Records, v \in Vals : CreateShape(r, v)
                   \/ \E r \in Records, v \in Vals, old \in Row : UpdateShape(r, v, old)
                   \/ \E r \in Records, old \in Row : DeleteShape(r, old)
                   \/ \E i \in Ids : MarkAcked(i) /\ row' = row
                   \/ \E i \in Ids : UndoShape(i)
                   \/ \E i \in Ids : PurgeShape(i)
                   \/ \E S \in SUBSET Ids, action \in {"acknowledge", "undo"} :
                         BulkAction(action, S)
<1>0. ASSUME NEW p \in Requests
      PROVE  /\ req[p] \in Request /\ req[p].snap \in Row
             /\ req[p].kind \in {"update", "refcheck", "delete"} =>
                   /\ req[p].rec \in Records /\ req[p].snap.state = "live"
                   /\ row[req[p].rec].state # "unused"
             /\ req[p].kind \in {"acknowledge", "undo", "purge"} =>
                   req[p].entry \in Ids
             /\ req[p].kind = "purge" => log[req[p].entry].op = "DELETE"
  <2>1. req[p] \in Request
    BY DEF Sound, TypeOK
  <2> QED
    BY <2>1 DEF Sound, TypeOK, RequestsSound, Request
<1>1. CASE UNCHANGED vars
  BY <1>1 DEF vars
<1>2. ASSUME NEW r \in Records, NEW v \in Values(r), Create(r, v) PROVE Goal
  <2>1. v \in Vals
    BY RowTypes
  <2>2. CreateShape(r, v)
    BY <1>2 DEF Create, CreateShape
  <2> QED
    BY <2>1, <2>2
<1>3. ASSUME NEW p \in Requests, NEW v \in Vals, CommitUpdate(p, v) PROVE Goal
  <2>1. UpdateShape(req[p].rec, v, req[p].snap) \/ UNCHANGED <<row, log>>
    BY <1>3, <1>0 DEF CommitUpdate, UpdateShape
  <2> QED
    BY <2>1, <1>3, <1>0 DEF CommitUpdate
<1>4. ASSUME NEW p \in Requests, CommitDelete(p) PROVE Goal
  <2>1. DeleteShape(req[p].rec, req[p].snap)
    BY <1>4, <1>0 DEF CommitDelete, DeleteShape
  <2> QED
    BY <2>1, <1>4, <1>0 DEF CommitDelete
<1>5. ASSUME NEW p \in Requests, CommitAcknowledge(p) PROVE Goal
  BY <1>5, <1>0 DEF CommitAcknowledge
<1>6. ASSUME NEW p \in Requests, CommitUndo(p) PROVE Goal
  BY <1>6, <1>0 DEF CommitUndo, UndoShape
<1>7. ASSUME NEW p \in Requests, CommitPermanentDelete(p) PROVE Goal
  <2>1. PurgeShape(req[p].entry) \/ UNCHANGED <<row, log>>
    BY <1>7, <1>0 DEF CommitPermanentDelete, PurgeShape
  <2> QED
    BY <2>1, <1>7, <1>0 DEF CommitPermanentDelete
<1>8. ASSUME NEW action \in {"acknowledge", "undo"}, NEW S \in SUBSET Ids,
             BulkAction(action, S)
      PROVE  Goal
  BY <1>8
<1>9. ASSUME NEW p \in Requests, NEW r \in Records,
             BeginUpdate(p, r) \/ BeginDelete(p, r)
      PROVE  Goal
  BY <1>9 DEF BeginUpdate, BeginDelete
<1>10. ASSUME NEW p \in Requests, CheckRefs(p) PROVE Goal
  BY <1>10 DEF CheckRefs
<1>11. CASE Crash
  BY <1>11 DEF Crash
<1>12. ASSUME NEW p \in Requests, NEW i \in Ids,
              NEW kind \in {"acknowledge", "undo", "purge"}, BeginReview(p, i, kind)
       PROVE  Goal
  BY <1>12 DEF BeginReview
<1> QED
  BY <1>1, <1>2, <1>3, <1>4, <1>5, <1>6, <1>7, <1>8, <1>9, <1>10, <1>11, <1>12
     DEF Next, CatalogStep, ReviewStep

\* What the log says is never unsaid: an entry keeps its record, operation and
\* snapshot, and once it is undone its marks are final.
LogKept ==
    /\ Len(log) <= Len(log')
    /\ \A i \in Ids : /\ log'[i].rec = log[i].rec /\ log'[i].op = log[i].op
                      /\ log'[i].old = log[i].old
                      /\ log[i].undone => log'[i].undone /\ ~log'[i].acked

\* A step keeps what the log says of a change, and an entry that is undone stays so.
LEMMA LogMonotone ==
    ASSUME Sound, [Next]_vars
    PROVE  LogKept
<1>0. /\ TypeOK /\ Len(log) \in Nat
      /\ \A i \in Ids : ~(log[i].acked /\ log[i].undone)
  BY DEF Sound, TypeOK, EntriesSound
<1>1. CASE UNCHANGED <<row, log>>
  BY <1>0, <1>1 DEF LogKept
<1>2. ASSUME NEW r \in Records, NEW op \in {"CREATE", "UPDATE", "DELETE"},
             NEW old \in Row, LogAudit(r, op, old)
      PROVE  LogKept
  <2>1. Len(log') = Len(log) + 1 /\ \A i \in Ids : log'[i] = log[i]
    BY <1>0, <1>2, LogAuditAppends
  <2>2. Len(log) <= Len(log')
    BY <1>0, <2>1
  <2> QED
    BY <1>0, <2>1, <2>2 DEF LogKept
<1>3. ASSUME NEW i \in Ids, MarkAcked(i) \/ MarkUndone(i) PROVE LogKept
  <2>1. /\ Len(log') = Len(log)
        /\ \A j \in Ids : /\ log'[j].rec = log[j].rec /\ log'[j].op = log[j].op
                          /\ log'[j].old = log[j].old
                          /\ j # i => log'[j] = log[j]
    BY <1>0, <1>3, MarkChangesOne
  <2>2. log[i].undone => log'[i].undone /\ ~log'[i].acked
    <3>1. log \in Seq(Entry) /\ log[i] \in Entry /\ i \in DOMAIN log
      BY <1>0 DEF TypeOK, Ids
    <3>2. CASE MarkAcked(i)
      BY <3>2 DEF MarkAcked
    <3>3. CASE MarkUndone(i)
      <4>1. log'[i] = [log[i] EXCEPT !.undone = TRUE] /\ ~log[i].acked
        BY <3>1, <3>3 DEF MarkUndone, Undone
      <4> QED
        BY <4>1, <3>1 DEF Entry
    <3> QED
      BY <1>3, <3>2, <3>3
  <2>3. Len(log) <= Len(log')
    BY <1>0, <2>1
  <2>4. ASSUME NEW j \in Ids, log[j].undone PROVE log'[j].undone /\ ~log'[j].acked
    <3>1. CASE j = i
      BY <3>1, <2>2, <2>4
    <3>2. CASE j # i
      <4>1. log'[j] = log[j]
        BY <2>1, <3>2
      <4> QED
        BY <4>1, <1>0, <2>4
    <3> QED
      BY <3>1, <3>2
  <2> QED
    BY <2>1, <2>3, <2>4 DEF LogKept
<1>4. ASSUME NEW S \in SUBSET Ids, NEW action \in {"acknowledge", "undo"},
             BulkAction(action, S)
      PROVE  LogKept
  BY <1>0, <1>4, BulkChangesMarks DEF LogKept, Pending
<1> QED
  BY StepShapes, <1>1, <1>2, <1>3, <1>4, RowTypes
     DEF CreateShape, UpdateShape, DeleteShape, UndoShape, PurgeShape

\* A key that was drawn is never undrawn, and a removed row never comes back.
RowKept ==
    \A r \in Records : /\ row[r].state # "unused" => row'[r].state # "unused"
                       /\ row[r].state = "gone" => row'[r].state = "gone"

\* A step keeps drawn keys drawn and removed rows removed.
LEMMA RowMonotone ==
    ASSUME Sound, [Next]_vars
    PROVE  RowKept
<1>0. /\ row \in [Records -> Row]
      /\ \A i \in Ids : /\ log[i].rec \in Records
                        /\ log[i].op \in {"CREATE", "UPDATE", "DELETE"}
                        /\ log[i].op = "UPDATE" => log[i].old.state = "live"
                        /\ log[i].old \in Row
  <2>1. \A i \in Ids : log[i] \in Entry
    BY DEF Sound, TypeOK, Ids
  <2> QED
    BY <2>1 DEF Sound, TypeOK, EntriesSound, Entry
<1>a. ASSUME NEW q \in Records, NEW x \in Row, row' = [row EXCEPT ![q] = x],
             row[q].state # "unused" => x.state # "unused",
             row[q].state # "gone"
      PROVE  RowKept
  BY <1>a, <1>0 DEF RowKept
<1>1. CASE row' = row
  BY <1>1 DEF RowKept
<1>2. ASSUME NEW r \in Records, NEW v \in Vals, CreateShape(r, v) PROVE RowKept
  BY <1>2, <1>a, RowTypes DEF CreateShape
<1>3. ASSUME NEW r \in Records, NEW v \in Vals, NEW old \in Row,
             UpdateShape(r, v, old)
      PROVE  RowKept
  <2>1. [row[r] EXCEPT !.val = v] \in Row /\ [row[r] EXCEPT !.val = v].state = row[r].state
    BY <1>0, RowTypes DEF Row
  <2> QED
    BY <1>3, <1>a, <2>1 DEF UpdateShape, Exists
<1>4. ASSUME NEW r \in Records, NEW old \in Row, DeleteShape(r, old) PROVE RowKept
  <2>1. /\ [row[r] EXCEPT !.state = "deleted"] \in Row
        /\ [row[r] EXCEPT !.state = "deleted"].state = "deleted"
    BY <1>0, RowTypes DEF Row
  <2> QED
    BY <1>4, <1>1, <1>a, <2>1 DEF DeleteShape, Exists
<1>5. ASSUME NEW i \in Ids, UndoShape(i) PROVE RowKept
  <2> DEFINE r == log[i].rec
  <2>1. row' = row \/ (row' = [row EXCEPT ![r] = Reversed(log[i])] /\ Exists(r))
    BY <1>5 DEF UndoShape, ApplyUndo
  <2>2. /\ [row[r] EXCEPT !.state = "deleted"] \in Row
        /\ [row[r] EXCEPT !.state = "deleted"].state = "deleted"
        /\ [row[r] EXCEPT !.state = "live"] \in Row
        /\ [row[r] EXCEPT !.state = "live"].state = "live"
    BY <1>0, RowTypes DEF Row
  <2>3. Reversed(log[i]) \in Row /\ Reversed(log[i]).state \in {"live", "deleted"}
    BY <1>0, <2>2 DEF Reversed
  <2> QED
    BY <1>0, <1>1, <1>a, <2>1, <2>3 DEF Exists
<1>6. ASSUME NEW i \in Ids, PurgeShape(i) PROVE RowKept
  <2>1. GoneRow \in Row /\ GoneRow.state = "gone"
    BY RowTypes DEF GoneRow
  <2> QED
    BY <1>0, <1>1, <1>6, <1>a, <2>1 DEF PurgeShape, Exists
<1>7. ASSUME NEW S \in SUBSET Ids, NEW action \in {"acknowledge", "undo"},
             BulkAction(action, S)
      PROVE  RowKept
  BY <1>1, <1>7 DEF BulkAction
<1> QED
  BY StepShapes, <1>1, <1>2, <1>3, <1>4, <1>5, <1>6, <1>7

\* What a request knows after a step: what it knew, nothing, or what it just read.
LEMMA RequestStep ==
    ASSUME Sound, [Next]_vars, NEW p \in Requests
    PROVE  \/ req'[p] = req[p]
           \/ req'[p] = Idle
           \/ /\ UNCHANGED <<row, log>>
              /\ req'[p].kind \in {"update", "refcheck", "delete"}
              /\ req'[p].snap.state = "live" /\ row[req'[p].rec].state # "unused"
           \/ /\ UNCHANGED <<row, log>>
              /\ req'[p].kind \in {"acknowledge", "undo", "purge"}
              /\ req'[p].kind = "purge" => log[req'[p].entry].op = "DELETE"
<1> DEFINE Goal == \/ req'[p] = req[p]
                   \/ req'[p] = Idle
                   \/ /\ UNCHANGED <<row, log>>
                      /\ req'[p].kind \in {"update", "refcheck", "delete"}
                      /\ req'[p].snap.state = "live" /\ row[req'[p].rec].state # "unused"
                   \/ /\ UNCHANGED <<row, log>>
                      /\ req'[p].kind \in {"acknowledge", "undo", "purge"}
                      /\ req'[p].kind = "purge" => log[req'[p].entry].op = "DELETE"
<1>0. req \in [Requests -> Request]
  BY DEF Sound, TypeOK
<1>1. CASE UNCHANGED req
  BY <1>1
<1>2. ASSUME NEW q \in Requests, Finish(q) PROVE Goal
  BY <1>0, <1>2 DEF Finish
<1>3. ASSUME NEW q \in Requests, NEW r \in Records, BeginUpdate(q, r) PROVE Goal
  BY <1>0, <1>3 DEF BeginUpdate
<1>4. ASSUME NEW q \in Requests, NEW r \in Records, BeginDelete(q, r) PROVE Goal
  BY <1>0, <1>4 DEF BeginDelete
<1>5. ASSUME NEW q \in Requests, CheckRefs(q) PROVE Goal
  <2>1. CASE Finish(q)
    BY <1>2, <2>1
  <2>2. CASE req' = [req EXCEPT ![q].kind = "delete"]
    <3>1. req[q] \in Request /\ req[q].kind = "refcheck"
      BY <1>0, <1>5 DEF CheckRefs
    <3>2. req[q].snap.state = "live" /\ row[req[q].rec].state # "unused"
      BY <3>1 DEF Sound, RequestsSound
    <3>3. /\ [req[q] EXCEPT !.kind = "delete"].kind = "delete"
          /\ [req[q] EXCEPT !.kind = "delete"].snap = req[q].snap
          /\ [req[q] EXCEPT !.kind = "delete"].rec = req[q].rec
      BY <3>1 DEF Request
    <3>4. req' = [req EXCEPT ![q] = [req[q] EXCEPT !.kind = "delete"]]
      BY <2>2
    <3>5. req'[p] = IF p = q THEN [req[q] EXCEPT !.kind = "delete"] ELSE req[p]
      BY <1>0, <3>4
    <3> QED
      BY <3>2, <3>3, <3>5, <1>5 DEF CheckRefs
  <2> QED
    BY <1>5, <2>1, <2>2 DEF CheckRefs
<1>6. CASE Crash
  BY <1>6 DEF Crash
<1>7. ASSUME NEW q \in Requests, NEW i \in Ids,
             NEW kind \in {"acknowledge", "undo", "purge"}, BeginReview(q, i, kind)
      PROVE  Goal
  BY <1>0, <1>7 DEF BeginReview
<1> QED
  BY <1>1, <1>2, <1>3, <1>4, <1>5, <1>6, <1>7
     DEF Next, CatalogStep, ReviewStep, vars, Create, CommitUpdate, CommitDelete,
         CommitAcknowledge, CommitUndo, CommitPermanentDelete, BulkAction

\* A step from a sound state, well typed, leads to a sound state.
LEMMA SoundInductive ==
    ASSUME Sound, TypeOK', [Next]_vars
    PROVE  Sound'
<1> USE DEF Sound
<1>0. LogKept /\ RowKept
  BY LogMonotone, RowMonotone
<1>1. Ids \subseteq Ids' /\ Len(log) \in Nat
  BY <1>0 DEF TypeOK, LogKept, Ids
<1>2. /\ \A i \in Ids : log[i] \in Entry /\ log[i].rec \in Records
      /\ \A p \in Requests : req[p] \in Request
  <2>1. \A e \in Entry : e.rec \in Records
    BY DEF Entry
  <2> QED
    BY <2>1 DEF TypeOK, Ids
<1>3. RequestsSound'
  <2> SUFFICES ASSUME NEW p \in Requests
               PROVE  /\ req'[p].kind \in {"update", "refcheck", "delete"} =>
                           /\ req'[p].snap.state = "live"
                           /\ row'[req'[p].rec].state # "unused"
                      /\ req'[p].kind = "purge" => log'[req'[p].entry].op = "DELETE"
    BY DEF RequestsSound
  <2>1. CASE req'[p] = req[p]
    <3>1. req[p].kind \in {"update", "refcheck", "delete"} =>
             /\ req[p].snap.state = "live"
             /\ row'[req[p].rec].state # "unused"
      BY <1>0 DEF RequestsSound, TypeOK, RowKept
    <3>2. req[p].kind = "purge" => log'[req[p].entry].op = "DELETE"
      BY <1>0 DEF RequestsSound, TypeOK, LogKept
    <3> QED
      BY <2>1, <3>1, <3>2
  <2>2. CASE req'[p] = Idle
    BY <2>2 DEF Idle
  <2> QED
    BY <2>1, <2>2, RequestStep
<1>4. EntriesSound'
  <2> DEFINE Fine(i) == /\ ~(log'[i].acked /\ log'[i].undone)
                        /\ row'[log'[i].rec].state # "unused"
                        /\ log'[i].op = "UPDATE" => log'[i].old.state = "live"
  <2>1. SUFFICES \A i \in Ids' : Fine(i)
    BY DEF EntriesSound
  <2>2. ASSUME NEW i \in Ids, ~(log'[i].acked /\ log'[i].undone) PROVE Fine(i)
    BY <1>0, <1>2, <2>2 DEF EntriesSound, LogKept, RowKept
  <2>3. CASE log' = log
    BY <2>2, <2>3 DEF EntriesSound, Ids
  <2>4. ASSUME NEW r \in Records, NEW op \in {"CREATE", "UPDATE", "DELETE"},
               NEW old \in Row, LogAudit(r, op, old),
               row'[r].state # "unused", op = "UPDATE" => old.state = "live"
        PROVE  \A i \in Ids' : Fine(i)
    <3>1. /\ Len(log') = Len(log) + 1 /\ \A i \in Ids : log'[i] = log[i]
          /\ log'[Len(log) + 1] = [rec |-> r, op |-> op, old |-> old,
                                   acked |-> FALSE, undone |-> FALSE]
      BY <2>4, LogAuditAppends
    <3>2. \A i \in Ids' : i \in Ids \/ i = Len(log) + 1
      BY <3>1, <1>1 DEF Ids
    <3>3. \A i \in Ids : Fine(i)
      BY <3>1, <2>2 DEF EntriesSound
    <3>4. Fine(Len(log) + 1)
      BY <3>1, <2>4
    <3> QED
      BY <3>2, <3>3, <3>4
  <2>5. ASSUME NEW j \in Ids, MarkAcked(j) \/ MarkUndone(j)
        PROVE  \A i \in Ids' : Fine(i)
    <3>1. /\ Len(log') = Len(log)
          /\ \A i \in Ids : i # j => log'[i] = log[i]
      BY <2>5, MarkChangesOne
    <3>2. log \in Seq(Entry) /\ log[j] \in Entry /\ j \in DOMAIN log
      BY <1>2 DEF TypeOK, Ids
    <3>3. ~(log'[j].acked /\ log'[j].undone)
      <4>1. CASE MarkAcked(j)
        <5>1. log'[j] = [log[j] EXCEPT !.acked = TRUE] /\ ~log[j].undone
          BY <3>2, <4>1 DEF MarkAcked, Acked
        <5> QED
          BY <5>1, <3>2 DEF Entry
      <4>2. CASE MarkUndone(j)
        <5>1. log'[j] = [log[j] EXCEPT !.undone = TRUE] /\ ~log[j].acked
          BY <3>2, <4>2 DEF MarkUndone, Undone
        <5> QED
          BY <5>1, <3>2 DEF Entry
      <4> QED
        BY <2>5, <4>1, <4>2
    <3>4. \A i \in Ids : ~(log'[i].acked /\ log'[i].undone)
      BY <3>1, <3>3 DEF EntriesSound
    <3>5. Ids' = Ids
      BY <3>1 DEF Ids
    <3> QED
      BY <2>2, <3>4, <3>5
  <2>6. ASSUME NEW S \in SUBSET Ids, NEW action \in {"acknowledge", "undo"},
               BulkAction(action, S)
        PROVE  \A i \in Ids' : Fine(i)
    <3>1. Len(log') = Len(log)
      BY <2>6, BulkChangesMarks
    <3>2. ASSUME NEW i \in Ids PROVE ~(log'[i].acked /\ log'[i].undone)
      <4>1. \/ log'[i] = log[i]
            \/ Pending(i) /\ log'[i] \in {[log[i] EXCEPT !.undone = TRUE],
                                         [log[i] EXCEPT !.acked = TRUE]}
        BY <2>6 DEF BulkAction, Acked, Undone
      <4>2. CASE log'[i] = log[i]
        BY <4>2 DEF EntriesSound
      <4>3. CASE Pending(i) /\ log'[i] = [log[i] EXCEPT !.undone = TRUE]
        BY <4>3, <1>2 DEF Pending, Entry
      <4>4. CASE Pending(i) /\ log'[i] = [log[i] EXCEPT !.acked = TRUE]
        BY <4>4, <1>2 DEF Pending, Entry
      <4> QED
        BY <4>1, <4>2, <4>3, <4>4
    <3>3. Ids' = Ids
      BY <3>1 DEF Ids
    <3> QED
      BY <2>2, <3>2, <3>3
  <2>7. ASSUME NEW r \in Records, NEW v \in Vals, CreateShape(r, v)
        PROVE  \A i \in Ids' : Fine(i)
    <3>1. row'[r].state # "unused"
      BY <2>7 DEF CreateShape, TypeOK
    <3> QED
      BY <2>4, <2>7, <3>1, RowTypes DEF CreateShape
  <2>8. ASSUME NEW r \in Records, NEW v \in Vals, NEW old \in Row,
               UpdateShape(r, v, old)
        PROVE  \A i \in Ids' : Fine(i)
    <3>1. row'[r].state # "unused"
      BY <2>8, <1>0 DEF UpdateShape, RowKept, Exists
    <3> QED
      BY <2>4, <2>8, <3>1 DEF UpdateShape
  <2>9. ASSUME NEW r \in Records, NEW old \in Row, DeleteShape(r, old)
        PROVE  \A i \in Ids' : Fine(i)
    <3>1. row'[r].state # "unused"
      BY <2>9, <1>0 DEF DeleteShape, RowKept
    <3> QED
      BY <2>4, <2>9, <3>1 DEF DeleteShape
  <2> QED
    BY <2>3, <2>5, <2>6, <2>7, <2>8, <2>9, StepShapes DEF UndoShape, PurgeShape
<1> QED
  BY <1>3, <1>4

\* The inductive invariant: no entry is both acknowledged and undone, and what
\* requests and entries say of rows is possible.
THEOREM Soundness == Spec => []Sound
<1>1. Init => Sound
  <2>1. Init => RequestsSound /\ EntriesSound
    BY DEF Init, RequestsSound, EntriesSound, Idle, Ids
  <2>2. Init => TypeOK
    BY RowTypes DEF Init, TypeOK, Idle
  <2> QED
    BY <2>1, <2>2 DEF Sound
<1>2. Sound /\ TypeOK' /\ [Next]_vars => Sound'
  BY SoundInductive
<1> QED
  BY <1>1, <1>2, TypeCorrect, PTL DEF Spec

-----------------------------------------------------------------------------
(***************************************************************************)
(* Why a row changes: the safety theorems rest on this one lemma.          *)
(***************************************************************************)

\* Either the step appends the entry of the write, or it settles as undone a
\* standing entry whose effect it reverses.
Appended(r, op) ==
    /\ Len(log') = Len(log) + 1
    /\ log'[Len(log) + 1].rec = r /\ log'[Len(log) + 1].op = op
Settled(i, r, op) ==
    /\ log[i].rec = r /\ log[i].op = op
    /\ log'[i].undone /\ ~log'[i].acked

RowCause(r) ==
    \/ row'[r] = row[r]
    \/ row[r].state = "unused" /\ row'[r].state = "live" /\ Appended(r, "CREATE")
    \/ row'[r].state = row[r].state /\ Appended(r, "UPDATE")
    \/ /\ row[r].state # "unused"
       /\ row'[r].state = "deleted" /\ Appended(r, "DELETE")
    \/ \E i \in Ids :
          \/ row'[r].state = "deleted" /\ Settled(i, r, "CREATE")
          \/ row'[r].state = "live" /\ Settled(i, r, "UPDATE")
          \/ row'[r].state \in {"live", "gone"} /\ Settled(i, r, "DELETE")

\* Why a step left a row in the state it is in.
LEMMA RowCauses ==
    ASSUME Sound, [Next]_vars, NEW r \in Records
    PROVE  RowCause(r)
<1>0. /\ TypeOK /\ row \in [Records -> Row] /\ log \in Seq(Entry)
      /\ \A i \in Ids : /\ log[i] \in Entry /\ log[i].rec \in Records
                        /\ log[i].op \in {"CREATE", "UPDATE", "DELETE"}
                        /\ log[i].op = "UPDATE" => log[i].old.state = "live"
                        /\ log[i].old \in Row
  <2>1. \A i \in Ids : log[i] \in Entry
    BY DEF Sound, TypeOK, Ids
  <2> QED
    BY <2>1 DEF Sound, TypeOK, EntriesSound, Entry
<1>1. ASSUME NEW q \in Records, NEW op \in {"CREATE", "UPDATE", "DELETE"},
             NEW old \in Row, LogAudit(q, op, old)
      PROVE  Appended(q, op)
  <2>1. /\ Len(log') = Len(log) + 1
        /\ log'[Len(log) + 1] = [rec |-> q, op |-> op, old |-> old,
                                 acked |-> FALSE, undone |-> FALSE]
    BY <1>0, <1>1, LogAuditAppends
  <2> QED
    BY <2>1 DEF Appended
<1>2. ASSUME NEW i \in Ids, MarkUndone(i) PROVE Settled(i, log[i].rec, log[i].op)
  <2>0. i \in DOMAIN log
    BY <1>0 DEF Ids
  <2>1. log'[i] = [log[i] EXCEPT !.undone = TRUE] /\ ~log[i].acked
    BY <2>0, <1>2 DEF MarkUndone, Undone
  <2> QED
    BY <2>1, <1>0 DEF Settled, Entry
<1>3. CASE row' = row
  BY <1>3 DEF RowCause
<1>5. ASSUME NEW v \in Vals, CreateShape(r, v) PROVE RowCause(r)
  <2>1. Appended(r, "CREATE")
    BY <1>5, <1>1, RowTypes DEF CreateShape
  <2> QED
    BY <2>1, <1>5, <1>0 DEF CreateShape, RowCause
<1>6. ASSUME NEW v \in Vals, NEW old \in Row, UpdateShape(r, v, old)
      PROVE  RowCause(r)
  <2>1. Appended(r, "UPDATE")
    BY <1>6, <1>1 DEF UpdateShape
  <2>2. row'[r].state = row[r].state
    BY <1>6, <1>0 DEF UpdateShape, Row
  <2> QED
    BY <2>1, <2>2 DEF RowCause
<1>7. ASSUME NEW old \in Row, DeleteShape(r, old) PROVE RowCause(r)
  <2>1. Appended(r, "DELETE")
    BY <1>7, <1>1 DEF DeleteShape
  <2>2. row[r].state # "unused" /\ (row' = row \/ row'[r].state = "deleted")
    BY <1>7, <1>0 DEF DeleteShape, Row
  <2> QED
    BY <2>1, <2>2 DEF RowCause
<1>8. ASSUME NEW i \in Ids, log[i].rec = r, UndoShape(i) PROVE RowCause(r)
  <2>1. Settled(i, r, log[i].op)
    BY <1>8, <1>2 DEF UndoShape
  <2>2. row' = row \/ row'[r] = Reversed(log[i])
    BY <1>8, <1>0 DEF UndoShape, ApplyUndo
  <2>3. /\ [row[r] EXCEPT !.state = "deleted"].state = "deleted"
        /\ [row[r] EXCEPT !.state = "live"].state = "live"
    BY <1>0 DEF Row
  <2>4. Reversed(log[i]).state = IF log[i].op = "CREATE" THEN "deleted" ELSE "live"
    BY <1>8, <1>0, <2>3 DEF Reversed
  <2> QED
    BY <2>1, <2>2, <2>4, <1>0 DEF RowCause
<1>9. ASSUME NEW i \in Ids, log[i].rec = r, PurgeShape(i) PROVE RowCause(r)
  <2>1. Settled(i, r, "DELETE")
    BY <1>9, <1>2 DEF PurgeShape
  <2>2. row' = row \/ row'[r] = GoneRow
    BY <1>9, <1>0 DEF PurgeShape
  <2> QED
    BY <2>1, <2>2 DEF RowCause, GoneRow
<1>10. ASSUME NEW q \in Records, q # r,
              row' = row \/ \E x : row' = [row EXCEPT ![q] = x]
       PROVE  RowCause(r)
  BY <1>0, <1>10 DEF RowCause
<1>11. ASSUME NEW S \in SUBSET Ids, NEW action \in {"acknowledge", "undo"},
              BulkAction(action, S)
       PROVE  RowCause(r)
  BY <1>3, <1>11 DEF BulkAction
<1>12. ASSUME NEW q \in Records, NEW v \in Vals, CreateShape(q, v) PROVE RowCause(r)
  BY <1>5, <1>10, <1>12 DEF CreateShape
<1>13. ASSUME NEW q \in Records, NEW v \in Vals, NEW old \in Row,
              UpdateShape(q, v, old)
       PROVE  RowCause(r)
  BY <1>6, <1>10, <1>13 DEF UpdateShape
<1>14. ASSUME NEW q \in Records, NEW old \in Row, DeleteShape(q, old)
       PROVE  RowCause(r)
  BY <1>7, <1>10, <1>14 DEF DeleteShape
<1>15. ASSUME NEW i \in Ids, UndoShape(i) PROVE RowCause(r)
  BY <1>0, <1>8, <1>10, <1>15 DEF UndoShape, ApplyUndo
<1>16. ASSUME NEW i \in Ids, PurgeShape(i) PROVE RowCause(r)
  BY <1>0, <1>9, <1>10, <1>16 DEF PurgeShape
<1> QED
  BY <1>3, <1>11, <1>12, <1>13, <1>14, <1>15, <1>16, StepShapes

-----------------------------------------------------------------------------
(***************************************************************************)
(* The safety theorems.                                                    *)
(***************************************************************************)

\* Entries that witness an invariant keep doing so.
LEMMA EntriesKept ==
    ASSUME Sound, [Next]_vars
    PROVE  /\ Ids \subseteq Ids'
           /\ Len(log) \in Nat
           /\ Len(log') = Len(log) + 1 => Ids' = Ids \cup {Len(log) + 1}
           /\ \A i \in Ids : /\ log'[i].rec = log[i].rec /\ log'[i].op = log[i].op
                             /\ log'[i].old = log[i].old
                             /\ log[i].undone /\ ~log[i].acked =>
                                   log'[i].undone /\ ~log'[i].acked
                             /\ log[i].undone => log'[i].undone
<1>1. LogKept /\ Len(log) \in Nat
  BY LogMonotone DEF Sound, TypeOK
<1> QED
  BY <1>1 DEF LogKept, Ids

\* PurgeReviewed: whatever races the removal of a row, change_review.py removes
\* it only while it settles a DELETE entry of that row as undone, for good.
THEOREM PurgeIsReviewed == Spec => []PurgeReviewed
<1>1. Init => PurgeReviewed
  BY DEF Init, PurgeReviewed, NoRow
<1>2. Sound /\ PurgeReviewed /\ [Next]_vars => PurgeReviewed'
  <2> SUFFICES ASSUME Sound, PurgeReviewed, [Next]_vars,
                      NEW r \in Records, row'[r].state = "gone"
               PROVE  \E i \in Ids' : /\ log'[i].rec = r /\ log'[i].op = "DELETE"
                                      /\ log'[i].undone /\ ~log'[i].acked
    BY DEF PurgeReviewed
  <2>1. CASE row[r].state = "gone"
    BY <2>1, EntriesKept DEF PurgeReviewed
  <2>2. CASE row[r].state # "gone"
    <3>1. PICK i \in Ids : Settled(i, r, "DELETE")
      BY <2>2, RowCauses DEF RowCause
    <3> QED
      BY <3>1, EntriesKept DEF Settled
  <2> QED
    BY <2>1, <2>2
<1> QED
  BY <1>1, <1>2, Soundness, PTL DEF Spec

\* DeletionAccounted: a soft-deleted row is always one that a DELETE entry, or an
\* undone CREATE entry, of the log explains.
THEOREM DeletionIsAccounted == Spec => []DeletionAccounted
<1>1. Init => DeletionAccounted
  BY DEF Init, DeletionAccounted, NoRow
<1>2. Sound /\ DeletionAccounted /\ [Next]_vars => DeletionAccounted'
  <2> SUFFICES ASSUME Sound, DeletionAccounted, [Next]_vars,
                      NEW r \in Records, row'[r].state = "deleted"
               PROVE  \E i \in Ids' : /\ log'[i].rec = r
                                      /\ \/ log'[i].op = "DELETE"
                                         \/ log'[i].op = "CREATE" /\ log'[i].undone
    BY DEF DeletionAccounted
  <2>1. CASE row[r].state = "deleted"
    <3>1. PICK i \in Ids : /\ log[i].rec = r
                           /\ \/ log[i].op = "DELETE"
                              \/ log[i].op = "CREATE" /\ log[i].undone
      BY <2>1 DEF DeletionAccounted
    <3>2. /\ i \in Ids' /\ log'[i].rec = r /\ log'[i].op = log[i].op
          /\ log[i].undone => log'[i].undone
      BY <3>1, EntriesKept
    <3> QED
      BY <3>1, <3>2
  <2>2. CASE row[r].state # "deleted"
    <3>1. Appended(r, "DELETE") \/ \E i \in Ids : Settled(i, r, "CREATE")
      BY <2>2, RowCauses DEF RowCause
    <3>2. CASE Appended(r, "DELETE")
      BY <3>2, EntriesKept DEF Appended
    <3>3. ASSUME NEW i \in Ids, Settled(i, r, "CREATE")
          PROVE  /\ i \in Ids' /\ log'[i].rec = r
                 /\ log'[i].op = "CREATE" /\ log'[i].undone
      BY <3>3, EntriesKept DEF Settled
    <3> QED
      BY <3>1, <3>2, <3>3
  <2> QED
    BY <2>1, <2>2
<1> QED
  BY <1>1, <1>2, Soundness, PTL DEF Spec

\* HistoryKept: no step brings a removed row back, and none edits or drops what
\* an audit entry says of a change.
THEOREM HistoryIsKept == Spec => HistoryKept
<1>1. Sound /\ [Next]_vars =>
        [/\ \A r \in Records : row[r].state = "gone" => row'[r].state = "gone"
         /\ \A i \in Ids : /\ i <= Len(log')
                           /\ log'[i].rec = log[i].rec /\ log'[i].op = log[i].op
                           /\ log'[i].old = log[i].old]_vars
  <2> SUFFICES ASSUME Sound, [Next]_vars
               PROVE  /\ \A r \in Records : row[r].state = "gone" => row'[r].state = "gone"
                      /\ \A i \in Ids : /\ i <= Len(log')
                                        /\ log'[i].rec = log[i].rec
                                        /\ log'[i].op = log[i].op
                                        /\ log'[i].old = log[i].old
    OBVIOUS
  <2>1. \A r \in Records : row[r].state = "gone" => row'[r].state = "gone"
    BY RowMonotone DEF RowKept
  <2>2. \A i \in Ids : i <= Len(log')
    BY EntriesKept DEF Ids
  <2> QED
    BY <2>1, <2>2, EntriesKept
<1> QED
  BY <1>1, Soundness, PTL DEF Spec, HistoryKept

\* How the log changes: not in length, or by one pending entry; the entry of a
\* creation is that of a key nobody had drawn.
LEMMA LogGrowth ==
    ASSUME Sound, [Next]_vars
    PROVE  \/ Len(log') = Len(log)
           \/ /\ Len(log') = Len(log) + 1
              /\ \A i \in Ids : log'[i] = log[i]
              /\ ~log'[Len(log) + 1].acked /\ ~log'[Len(log) + 1].undone
              /\ log'[Len(log) + 1].op = "CREATE" =>
                    row[log'[Len(log) + 1].rec].state = "unused"
<1> DEFINE Grown == /\ Len(log') = Len(log) + 1
                    /\ \A i \in Ids : log'[i] = log[i]
                    /\ ~log'[Len(log) + 1].acked /\ ~log'[Len(log) + 1].undone
                    /\ log'[Len(log) + 1].op = "CREATE" =>
                          row[log'[Len(log) + 1].rec].state = "unused"
<1>0. TypeOK
  BY DEF Sound
<1>1. ASSUME NEW r \in Records, NEW op \in {"CREATE", "UPDATE", "DELETE"},
             NEW old \in Row, LogAudit(r, op, old),
             op = "CREATE" => row[r].state = "unused"
      PROVE  Grown
  <2>1. /\ Len(log') = Len(log) + 1
        /\ \A i \in Ids : log'[i] = log[i]
        /\ log'[Len(log) + 1] = [rec |-> r, op |-> op, old |-> old,
                                 acked |-> FALSE, undone |-> FALSE]
    BY <1>0, <1>1, LogAuditAppends
  <2> QED
    BY <2>1, <1>1
<1>2. ASSUME NEW r \in Records, NEW v \in Vals, CreateShape(r, v) PROVE Grown
  BY <1>1, <1>2, RowTypes DEF CreateShape
<1>3. ASSUME NEW r \in Records, NEW v \in Vals, NEW old \in Row,
             UpdateShape(r, v, old)
      PROVE  Grown
  BY <1>1, <1>3 DEF UpdateShape
<1>4. ASSUME NEW r \in Records, NEW old \in Row, DeleteShape(r, old) PROVE Grown
  BY <1>1, <1>4 DEF DeleteShape
<1>5. ASSUME NEW i \in Ids, MarkAcked(i) \/ MarkUndone(i) PROVE Len(log') = Len(log)
  BY <1>0, <1>5, MarkChangesOne
<1>6. ASSUME NEW S \in SUBSET Ids, NEW action \in {"acknowledge", "undo"},
             BulkAction(action, S)
      PROVE  Len(log') = Len(log)
  BY <1>0, <1>6, BulkChangesMarks
<1> QED
  BY StepShapes, <1>2, <1>3, <1>4, <1>5, <1>6 DEF UndoShape, PurgeShape

\* CreationLogged: every key that was drawn has one CREATE entry and only one,
\* and the log says nothing of the others.
THEOREM CreationIsLogged == Spec => []CreationLogged
<1>1. Init => CreationLogged
  BY DEF Init, CreationLogged, NoRow, Ids
<1>2. Sound /\ Sound' /\ CreationLogged /\ [Next]_vars => CreationLogged'
  <2> SUFFICES ASSUME Sound, Sound', CreationLogged, [Next]_vars, NEW r \in Records
               PROVE  IF row'[r].state = "unused"
                      THEN \A i \in Ids' : log'[i].rec # r
                      ELSE \E i \in Ids' :
                              /\ log'[i].rec = r /\ log'[i].op = "CREATE"
                              /\ \A j \in Ids' : log'[j].rec = r /\ log'[j].op = "CREATE"
                                                 => j = i
    BY DEF CreationLogged
  <2>1. CASE row'[r].state = "unused"
    BY <2>1 DEF Sound, EntriesSound
  <2>2. CASE row'[r].state # "unused" /\ row[r].state = "unused"
    <3>1. \A i \in Ids : log[i].rec # r
      BY <2>2 DEF CreationLogged
    <3>2. Appended(r, "CREATE")
      BY <2>2, <3>1, RowCauses DEF RowCause, Settled
    <3>3. Ids' = Ids \cup {Len(log) + 1} /\ \A i \in Ids : log'[i].rec = log[i].rec
      BY <3>2, EntriesKept DEF Appended
    <3> QED
      BY <2>2, <3>1, <3>2, <3>3 DEF Appended
  <2>3. CASE row'[r].state # "unused" /\ row[r].state # "unused"
    <3>1. PICK i \in Ids : /\ log[i].rec = r /\ log[i].op = "CREATE"
                           /\ \A j \in Ids : log[j].rec = r /\ log[j].op = "CREATE"
                                              => j = i
      BY <2>3 DEF CreationLogged
    <3>2. /\ i \in Ids'
          /\ \A j \in Ids : log'[j].rec = log[j].rec /\ log'[j].op = log[j].op
      BY EntriesKept
    <3>3. \A j \in Ids' : j \in Ids \/ ~(log'[j].rec = r /\ log'[j].op = "CREATE")
      <4>1. CASE Len(log') = Len(log)
        BY <4>1 DEF Ids
      <4>2. CASE Len(log') = Len(log) + 1
        BY <4>2, <2>3, LogGrowth, EntriesKept
      <4> QED
        BY <4>1, <4>2, LogGrowth
    <3> QED
      BY <2>3, <3>1, <3>2, <3>3
  <2> QED
    BY <2>1, <2>2, <2>3
<1> QED
  BY <1>1, <1>2, Soundness, PTL DEF Spec

\* Writing one row keeps the references whole when no referenced row goes away
\* and the row written refers to a brand that exists.
LEMMA OneRowKeepsBrands ==
    ASSUME Sound, NoDanglingBrand, NEW r \in Records, NEW x \in Row,
           row' = [row EXCEPT ![r] = x],
           Exists(r) => x.state \in {"live", "deleted"} \/ ~Referenced(r),
           x.state \in {"live", "deleted"} => BrandIdOK(r, x.val)
    PROVE  NoDanglingBrand'
<1>0. /\ row \in [Records -> Row] /\ Brands \subseteq Records /\ Items \subseteq Records
      /\ Brands \cap Items = {}
  BY CatalogAssumption DEF Sound, TypeOK, Records
<1>1. \A q \in Records : row'[q] = IF q = r THEN x ELSE row[q]
  BY <1>0
<1>2. SUFFICES ASSUME NEW i \in Items, Exists(i)', row'[i].val # Null
               PROVE  /\ row'[i].val \in Brands
                      /\ row'[row'[i].val].state \in {"live", "deleted"}
  BY DEF NoDanglingBrand, Exists
<1>3. row'[i].val \in Brands /\ Exists(row'[i].val)
  <2>1. CASE i = r
    BY <1>0, <1>1, <1>2, <2>1 DEF BrandIdOK, Exists
  <2>2. CASE i # r
    BY <1>0, <1>1, <1>2, <2>2 DEF NoDanglingBrand, Exists
  <2> QED
    BY <2>1, <2>2
<1>4. CASE row'[i].val # r
  BY <1>0, <1>1, <1>3, <1>4 DEF Exists
<1>5. CASE row'[i].val = r
  <2>1. i # r /\ row[i] = row'[i]
    BY <1>0, <1>1, <1>3, <1>5
  <2>2. Referenced(r)
    BY <1>2, <1>5, <2>1 DEF Referenced, Exists
  <2>3. Exists(r) /\ r \in Brands
    BY <1>3, <1>5
  <2> QED
    BY <1>1, <1>5, <2>2, <2>3
<1> QED
  BY <1>4, <1>5

\* NoDanglingBrand: neither a late update, nor an undo that restores an old
\* snapshot, nor a permanent delete leaves a brand_id without its brand.
THEOREM BrandsAreWhole == Spec => []NoDanglingBrand
<1>1. Init => NoDanglingBrand
  BY DEF Init, NoDanglingBrand, NoRow, Exists, Records
<1>2. Sound /\ NoDanglingBrand /\ [Next]_vars => NoDanglingBrand'
  <2> SUFFICES ASSUME Sound, NoDanglingBrand, [Next]_vars PROVE NoDanglingBrand'
    OBVIOUS
  <2>0. /\ TypeOK /\ row \in [Records -> Row]
        /\ \A i \in Ids : /\ log[i].rec \in Records
                          /\ log[i].op \in {"CREATE", "UPDATE", "DELETE"}
                          /\ log[i].old \in Row
    <3>1. \A i \in Ids : log[i] \in Entry
      BY DEF Sound, TypeOK, Ids
    <3> QED
      BY <3>1 DEF Sound, TypeOK, Entry
  <2>1. CASE row' = row
    BY <2>1 DEF NoDanglingBrand, Exists
  <2>2. \A r \in Records : Exists(r) => BrandIdOK(r, row[r].val)
    BY DEF NoDanglingBrand, BrandIdOK
  <2>3. ASSUME NEW r \in Records, NEW v \in Vals, CreateShape(r, v)
        PROVE  NoDanglingBrand'
    <3> DEFINE x == [state |-> "live", val |-> v]
    <3>1. x \in Row /\ ~Exists(r)
      BY <2>3, RowTypes DEF CreateShape, Exists
    <3> QED
      BY <2>3, <3>1, OneRowKeepsBrands DEF CreateShape
  <2>4. ASSUME NEW r \in Records, NEW v \in Vals, NEW old \in Row,
               UpdateShape(r, v, old)
        PROVE  NoDanglingBrand'
    <3> DEFINE x == [row[r] EXCEPT !.val = v]
    <3>1. x \in Row /\ x.state = row[r].state /\ x.val = v
      BY <2>0, RowTypes DEF Row
    <3>2. row' = [row EXCEPT ![r] = x] /\ BrandIdOK(r, v) /\ Exists(r)
      BY <2>4 DEF UpdateShape
    <3> HIDE DEF x
    <3> QED
      BY <3>1, <3>2, OneRowKeepsBrands DEF Exists
  <2>a. ASSUME NEW r \in Records, NEW st \in {"live", "deleted"}, Exists(r),
               row' = [row EXCEPT ![r] = [row[r] EXCEPT !.state = st]]
        PROVE  NoDanglingBrand'
    <3> DEFINE x == [row[r] EXCEPT !.state = st]
    <3>1. x \in Row /\ x.state = st /\ x.val = row[r].val
      BY <2>0 DEF Row
    <3>2. row' = [row EXCEPT ![r] = x] /\ BrandIdOK(r, x.val)
      BY <2>a, <2>2, <3>1
    <3> HIDE DEF x
    <3> QED
      BY <3>1, <3>2, OneRowKeepsBrands
  <2>5. ASSUME NEW r \in Records, NEW old \in Row, DeleteShape(r, old)
        PROVE  NoDanglingBrand'
    BY <2>1, <2>a, <2>5 DEF DeleteShape
  <2>6. ASSUME NEW i \in Ids, UndoShape(i) PROVE NoDanglingBrand'
    <3> DEFINE r == log[i].rec
    <3>1. CASE ~Exists(r)
      BY <2>1, <2>6, <3>1 DEF UndoShape, ApplyUndo
    <3>2. CASE Exists(r) /\ log[i].op = "UPDATE"
      <4> DEFINE x == log[i].old
      <4>1. /\ x \in Row /\ x.state = "live" /\ BrandIdOK(r, x.val)
            /\ row' = [row EXCEPT ![r] = x]
        BY <2>0, <2>6, <3>2 DEF UndoShape, ApplyUndo, Reversed, Sound, EntriesSound
      <4> QED
        BY <2>0, <4>1, OneRowKeepsBrands
    <3>3. CASE Exists(r) /\ log[i].op \in {"CREATE", "DELETE"}
      <4>1. PICK st \in {"live", "deleted"} :
              row' = [row EXCEPT ![r] = [row[r] EXCEPT !.state = st]]
        BY <2>6, <3>3 DEF UndoShape, ApplyUndo, Reversed
      <4> QED
        BY <2>0, <2>a, <3>3, <4>1
    <3> QED
      BY <2>0, <3>1, <3>2, <3>3
  <2>7. ASSUME NEW i \in Ids, PurgeShape(i) PROVE NoDanglingBrand'
    <3>1. GoneRow \in Row /\ GoneRow.state = "gone"
      BY RowTypes DEF GoneRow
    <3> QED
      BY <2>0, <2>1, <2>7, <3>1, OneRowKeepsBrands DEF PurgeShape
  <2> QED
    BY <2>1, <2>3, <2>4, <2>5, <2>6, <2>7, StepShapes DEF BulkAction
<1> QED
  BY <1>1, <1>2, Soundness, PTL DEF Spec

\* ChangesAudited: no row changes but with the audit entry that says so, appended
\* by the write or settled by the review that reverses it, and one at a time.
THEOREM ChangesAreAudited == Spec => ChangesAudited
<1> DEFINE Told(r) ==
      /\ \A q \in Records \ {r} : row'[q] = row[q]
      /\ \/ /\ Len(log') = Len(log) + 1
            /\ log'[Len(log')].rec = r
         \/ \E p \in Requests, i \in Ids : log[i].rec = r /\ Reverses(p, i)
<1>1. ASSUME Sound, [Next]_vars, NEW r \in Records, row'[r] # row[r]
      PROVE  Told(r)
  <2>0. /\ row \in [Records -> Row] /\ req \in [Requests -> Request]
        /\ log \in Seq(Entry) /\ TypeOK
        /\ \A i \in Ids : log[i] \in Entry /\ log[i].rec \in Records
        /\ \A p \in Requests : /\ req[p].rec \in Records \cup {Null}
                               /\ req[p].snap \in Row
    <3>0. TypeOK
      BY <1>1 DEF Sound
    <3>1. TypeOK /\ log \in Seq(Entry)
      BY <3>0 DEF TypeOK
    <3>2. \A i \in Ids : log[i] \in Entry /\ log[i].rec \in Records
      <4>1. \A e \in Entry : e.rec \in Records
        BY DEF Entry
      <4> QED
        BY <3>1, <4>1 DEF Ids
    <3>3. \A p \in Requests : req[p].rec \in Records \cup {Null} /\ req[p].snap \in Row
      <4>1. \A x \in Request : x.rec \in Records \cup {Null} /\ x.snap \in Row
        BY DEF Request
      <4> QED
        BY <3>1, <4>1 DEF TypeOK
    <3> QED
      BY <3>1, <3>2, <3>3 DEF TypeOK
  <2>1. ASSUME NEW q \in Records, NEW op \in {"CREATE", "UPDATE", "DELETE"},
               NEW old \in Row, LogAudit(q, op, old),
               row' = row \/ \E x : row' = [row EXCEPT ![q] = x]
        PROVE  Told(r)
    <3>1. q = r /\ \A k \in Records \ {r} : row'[k] = row[k]
      BY <1>1, <2>0, <2>1
    <3>2. /\ Len(log') = Len(log) + 1
          /\ log'[Len(log) + 1] = [rec |-> q, op |-> op, old |-> old,
                                   acked |-> FALSE, undone |-> FALSE]
      BY <2>0, <2>1, LogAuditAppends
    <3>3. log'[Len(log')].rec = q
      BY <3>2
    <3> QED
      BY <3>1, <3>2, <3>3
  <2>2. ASSUME NEW p \in Requests, NEW i \in Ids, req[p].entry = i,
               req[p].kind \in {"undo", "purge"}, Finish(p), MarkUndone(i),
               row' = row \/ \E x : row' = [row EXCEPT ![log[i].rec] = x]
        PROVE  Told(r)
    <3>1. log[i].rec = r /\ \A k \in Records \ {r} : row'[k] = row[k]
      BY <1>1, <2>0, <2>2
    <3>2. i \in DOMAIN log
      BY <2>0 DEF Ids
    <3>3. log'[i] = [log[i] EXCEPT !.undone = TRUE] /\ ~log[i].acked
      BY <2>2, <3>2 DEF MarkUndone, Undone
    <3>4. log'[i].undone
      BY <2>0, <3>3 DEF Entry
    <3>5. Reverses(p, i)
      BY <2>0, <2>2, <3>3, <3>4 DEF Reverses, Finish
    <3> QED
      BY <3>1, <3>5
  <2>3. row' # row
    BY <1>1
  <2>4. ASSUME NEW q \in Records, NEW v \in Values(q), Create(q, v) PROVE Told(r)
    BY <2>1, <2>4, RowTypes DEF Create
  <2>5. ASSUME NEW p \in Requests, NEW v \in Vals, CommitUpdate(p, v) PROVE Told(r)
    <3>1. /\ req[p].rec \in Records /\ LogAudit(req[p].rec, "UPDATE", req[p].snap)
          /\ \E x : row' = [row EXCEPT ![req[p].rec] = x]
      BY <2>0, <2>3, <2>5 DEF CommitUpdate, TypeOK
    <3> QED
      BY <2>0, <2>1, <3>1
  <2>6. ASSUME NEW p \in Requests, CommitDelete(p) PROVE Told(r)
    <3>1. /\ req[p].rec \in Records /\ LogAudit(req[p].rec, "DELETE", req[p].snap)
          /\ row' = row \/ \E x : row' = [row EXCEPT ![req[p].rec] = x]
      BY <2>0, <2>6 DEF CommitDelete, TypeOK
    <3> QED
      BY <2>0, <2>1, <3>1
  <2>7. ASSUME NEW p \in Requests, CommitUndo(p) PROVE Told(r)
    <3>1. /\ req[p].entry \in Ids /\ MarkUndone(req[p].entry) /\ Finish(p)
          /\ row' = row \/ \E x : row' = [row EXCEPT ![log[req[p].entry].rec] = x]
      BY <2>0, <2>3, <2>7 DEF CommitUndo, ApplyUndo, TypeOK
    <3> QED
      BY <2>2, <2>7, <3>1 DEF CommitUndo
  <2>8. ASSUME NEW p \in Requests, CommitPermanentDelete(p) PROVE Told(r)
    <3>1. /\ req[p].entry \in Ids /\ MarkUndone(req[p].entry) /\ Finish(p)
          /\ row' = row \/ \E x : row' = [row EXCEPT ![log[req[p].entry].rec] = x]
      BY <2>0, <2>3, <2>8 DEF CommitPermanentDelete, TypeOK
    <3> QED
      BY <2>2, <2>8, <3>1 DEF CommitPermanentDelete
  <2> QED
    BY <1>1, <2>3, <2>4, <2>5, <2>6, <2>7, <2>8
       DEF Next, CatalogStep, ReviewStep, vars, BeginUpdate, BeginDelete, CheckRefs,
           Crash, BeginReview, CommitAcknowledge, BulkAction
<1>2. Sound /\ [Next]_vars => [\A r \in Records : row'[r] # row[r] => Told(r)]_vars
  BY <1>1
<1> QED
  BY <1>2, Soundness, PTL DEF Spec, ChangesAudited

-----------------------------------------------------------------------------
(***************************************************************************)
(* Refinement.                                                             *)
(***************************************************************************)

\* OutcomeFinal: the marks of the entries, changed by racing handlers that check
\* and then write, behave as AuditLifecycle says: settled once and for all.
THEOREM OutcomesAreFinal == Spec => OutcomeFinal
<1>1. Init => Lifecycle!Init
  BY DEF Init, Lifecycle!Init, outcomes, Ids
<1>2. ASSUME Sound, [Next]_vars PROVE [Lifecycle!Next]_outcomes
  <2>0. /\ TypeOK /\ log \in Seq(Entry) /\ Len(log) \in Nat
        /\ \A i \in Ids : log[i] \in Entry /\ ~(log[i].acked /\ log[i].undone)
        /\ DOMAIN outcomes = Ids
    <3>0. TypeOK
      BY <1>2 DEF Sound
    <3>1. log \in Seq(Entry) /\ Len(log) \in Nat
      BY <3>0 DEF TypeOK
    <3>2. \A i \in Ids : log[i] \in Entry
      BY <3>1 DEF Ids
    <3>3. \A i \in Ids : ~(log[i].acked /\ log[i].undone)
      BY <1>2 DEF Sound, EntriesSound
    <3> QED
      BY <3>0, <3>1, <3>2, <3>3 DEF outcomes
  <2>1. CASE log' = log
    BY <2>1 DEF outcomes, Ids
  <2>2. ASSUME Len(log') = Len(log) + 1, \A i \in Ids : log'[i] = log[i],
               ~log'[Len(log) + 1].acked, ~log'[Len(log) + 1].undone
        PROVE  Lifecycle!AppendEntry
    <3> DEFINE n == Len(log) + 1
    <3>1. Outcome(log'[n]) = "pending"
      BY <2>2 DEF Outcome
    <3>2. outcomes' = [i \in 1 .. n |-> Outcome(log'[i])]
      BY <2>2 DEF outcomes, Ids
    <3>3. \A i \in Ids : Outcome(log'[i]) = outcomes[i]
      BY <2>2 DEF outcomes
    <3>4. DOMAIN outcomes' = Ids \cup {n} /\ n \notin Ids
      BY <2>0, <3>2 DEF Ids
    <3>5. outcomes' = [i \in Ids \cup {n} |-> IF i = n THEN "pending" ELSE outcomes[i]]
      BY <2>0, <3>1, <3>2, <3>3, <3>4
    <3> QED
      BY <2>0, <3>4, <3>5 DEF Lifecycle!AppendEntry
  <2>3. ASSUME NEW S \in SUBSET Ids, NEW out \in {"acknowledged", "undone"}, S # {},
               Len(log') = Len(log), \A i \in S : Pending(i),
               \A i \in Ids \ S : log'[i] = log[i],
               \A i \in S : log'[i] = IF out = "undone" THEN Undone(log[i])
                                                       ELSE Acked(log[i])
        PROVE  Lifecycle!Next
    <3>1. \A i \in S : outcomes[i] = "pending" /\ Outcome(log'[i]) = out
      <4> SUFFICES ASSUME NEW i \in S
                   PROVE  outcomes[i] = "pending" /\ Outcome(log'[i]) = out
        OBVIOUS
      <4>1. log[i] \in Entry /\ ~log[i].acked /\ ~log[i].undone
        BY <2>0, <2>3 DEF Pending
      <4>2. Undone(log[i]).undone /\ ~Undone(log[i]).acked
        BY <4>1 DEF Undone, Entry
      <4>3. Acked(log[i]).acked /\ ~Acked(log[i]).undone
        BY <4>1 DEF Acked, Entry
      <4>4. Outcome(log'[i]) = out
        BY <2>3, <4>2, <4>3 DEF Outcome
      <4> QED
        BY <4>1, <4>4 DEF outcomes, Outcome
    <3>2. \A i \in Ids \ S : Outcome(log'[i]) = outcomes[i]
      BY <2>3 DEF outcomes, Outcome
    <3>3. outcomes' = [i \in DOMAIN outcomes |-> IF i \in S THEN out ELSE outcomes[i]]
      BY <2>0, <2>3, <3>1, <3>2 DEF outcomes, Ids
    <3>4. Lifecycle!Settle(S, out)
      BY <2>3, <3>1, <3>3 DEF Lifecycle!Settle
    <3> QED
      BY <2>0, <3>4 DEF Lifecycle!Next
  <2>4. ASSUME NEW i \in Ids, MarkUndone(i) PROVE [Lifecycle!Next]_outcomes
    <3>1. /\ Len(log') = Len(log) /\ \A j \in Ids \ {i} : log'[j] = log[j]
          /\ log'[i] = Undone(log[i]) /\ ~log[i].acked
      BY <2>0, <2>4, MarkChangesOne DEF MarkUndone, Ids
    <3>2. CASE Pending(i)
      <4>1. {i} \in SUBSET Ids /\ {i} # {}
        OBVIOUS
      <4>2. Lifecycle!Next
        BY <2>3, <3>1, <3>2, <4>1
      <4> QED
        BY <4>2
    <3>3. CASE ~Pending(i)
      <4>1. log[i] \in Entry /\ log[i].undone = TRUE
        BY <2>0, <3>1, <3>3 DEF Pending, Entry
      <4>2. Undone(log[i]) = log[i]
        BY <4>1 DEF Undone, Entry
      <4> QED
        BY <3>1, <4>2 DEF outcomes, Ids
    <3> QED
      BY <3>2, <3>3
  <2>5. ASSUME NEW i \in Ids, MarkAcked(i) PROVE [Lifecycle!Next]_outcomes
    <3>1. /\ Len(log') = Len(log) /\ \A j \in Ids \ {i} : log'[j] = log[j]
          /\ log'[i] = Acked(log[i]) /\ ~log[i].undone
      BY <2>0, <2>5, MarkChangesOne DEF MarkAcked, Ids
    <3>2. CASE Pending(i)
      <4>1. {i} \in SUBSET Ids /\ {i} # {}
        OBVIOUS
      <4>2. Lifecycle!Next
        BY <2>3, <3>1, <3>2, <4>1
      <4> QED
        BY <4>2
    <3>3. CASE ~Pending(i)
      <4>1. log[i] \in Entry /\ log[i].acked = TRUE
        BY <2>0, <3>1, <3>3 DEF Pending, Entry
      <4>2. Acked(log[i]) = log[i]
        BY <4>1 DEF Acked, Entry
      <4> QED
        BY <3>1, <4>2 DEF outcomes, Ids
    <3> QED
      BY <3>2, <3>3
  <2>6. ASSUME NEW S \in SUBSET Ids, NEW action \in {"acknowledge", "undo"},
               BulkAction(action, S)
        PROVE  [Lifecycle!Next]_outcomes
    <3>1. Len(log') = Len(log)
      BY <2>0, <2>6, BulkChangesMarks
    <3>2. /\ S # {} /\ \A i \in S : Pending(i)
          /\ \A i \in Ids \ S : log'[i] = log[i]
          /\ \A i \in S : log'[i] = IF action = "undo" THEN Undone(log[i])
                                                      ELSE Acked(log[i])
      BY <2>6 DEF BulkAction
    <3> QED
      BY <2>3, <3>1, <3>2
  <2>7. CASE Len(log') = Len(log)
    <3>1. ASSUME NEW r \in Records, NEW op \in {"CREATE", "UPDATE", "DELETE"},
                 NEW old \in Row, LogAudit(r, op, old)
          PROVE  FALSE
      <4>1. Len(log') = Len(log) + 1
        BY <2>0, <3>1, LogAuditAppends
      <4> QED
        BY <2>0, <2>7, <4>1
    <3>2. \/ log' = log
          \/ \E i \in Ids : MarkAcked(i) \/ MarkUndone(i)
          \/ \E S \in SUBSET Ids, action \in {"acknowledge", "undo"} :
                BulkAction(action, S)
      BY <1>2, StepShapes, <3>1, RowTypes
         DEF CreateShape, UpdateShape, DeleteShape, UndoShape, PurgeShape
    <3> QED
      BY <2>1, <2>4, <2>5, <2>6, <3>2
  <2> QED
    BY <1>2, <2>2, <2>7, LogGrowth DEF Lifecycle!Next
<1> QED
  BY <1>1, <1>2, Soundness, PTL DEF Spec, OutcomeFinal, Lifecycle!Spec

=============================================================================

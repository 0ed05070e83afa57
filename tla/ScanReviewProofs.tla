-------------------------- MODULE ScanReviewProofs --------------------------
(***************************************************************************)
(* Theorems about ScanReview, for all rows, records, requests and bounds.  *)
(***************************************************************************)
EXTENDS ScanReview, TLAPS

-----------------------------------------------------------------------------
(***************************************************************************)
(* Types.                                                                  *)
(***************************************************************************)
\* A request that is not there is well typed.
LEMMA NoRequestTyped == NoRequest \in Request
  BY ReviewAssumption DEF NoRequest, Request, Match

\* What reads and locks leave in req.
LEMMA ArriveTyped ==
    ASSUME TypeOK, NEW p \in Requests, Arrive(p)
    PROVE  TypeOK'
<1> USE NoRequestTyped
<1>1. ASSUME NEW k \in (RowKinds \ {"clean"}) \cup {"acknowledge", "confirm"},
             NEW R \in SUBSET Results, NEW t \in Match, ReadResults(p, k, R, t)
      PROVE  TypeOK'
  <2>1. [NoRequest EXCEPT !.kind = k, !.stage = "read", !.rows = R, !.target = t,
            !.seen = [r \in Results |-> IF r \in R /\ k \in MatchKinds
                                        THEN result[r].rec ELSE Null]] \in Request
    BY <1>1 DEF TypeOK, Request, RowKinds, RecordFirst, RowsFirst, Result, Match
  <2>2. k # "straggler"
    BY DEF RowKinds
  <2>3. req'[p].kind = k /\ req' \in [Requests -> Request]
           /\ \A q \in Requests \ {p} : req'[q] = req[q]
    BY <1>1, <2>1 DEF ReadResults, Begin, TypeOK, NoRequest
  <2> QED
    BY <1>1, <2>2, <2>3, ReviewAssumption DEF ReadResults, Begin, tables, TypeOK
<1>2. ASSUME NEW R \in SUBSET Results, ReadClean(p, R)
      PROVE  TypeOK'
  <2>1. [NoRequest EXCEPT !.kind = "clean", !.stage = "read", !.rows = R] \in Request
    BY DEF Request, RowKinds
  <2> QED
    BY <1>2, <2>1, ReviewAssumption DEF ReadClean, Begin, tables, TypeOK
<1>3. ASSUME NEW R \in SUBSET Results, NEW f \in [Results -> Match], ReadPattern(p, R, f)
      PROVE  TypeOK'
  <2>1. [NoRequest EXCEPT !.kind = "pattern", !.stage = "read", !.rows = R, !.seen = f] \in Request
    BY DEF Request, RecordFirst
  <2> QED
    BY <1>3, <2>1, ReviewAssumption DEF ReadPattern, Begin, tables, TypeOK
<1>4. ASSUME NEW R \in SUBSET Results, NEW k \in Results, LockCopies(p, R, k)
      PROVE  TypeOK'
  <2>1. [NoRequest EXCEPT !.kind = "straggler", !.stage = "held", !.rows = R, !.keeper = k,
            !.seen = [r \in Results |-> IF r \in R THEN result[r].rec ELSE Null]] \in Request
    BY DEF TypeOK, Request, RowsFirst, Result, Match
  <2> QED
    BY <1>4, <2>1, ReviewAssumption DEF LockCopies, Begin, tables, TypeOK
<1> QED
  BY <1>1, <1>2, <1>3, <1>4 DEF Arrive

\* Each way in which a handler ends or goes on leaves well-typed tables.
LEMMA HandleTyped ==
    ASSUME TypeOK, NEW p \in Requests, Handle(p) \/ Fail(p)
    PROVE  TypeOK'
<1> USE NoRequestTyped, ReviewAssumption
<1>0. req[p] \in Request /\ req[p].rows \subseteq Results /\ req[p].seen \in [Results -> Match]
        /\ req[p].target \in Match
  BY DEF TypeOK, Request
<1>1. ASSUME End(p)
      PROVE  /\ req' \in [Requests -> Request] /\ ops' \in 0 .. MaxOps
             /\ \A q \in Requests : req'[q].kind = "straggler" => req'[q].keeper \in req'[q].rows
  BY <1>1 DEF End, TypeOK, NoRequest
<1>2. ASSUME NEW R \in SUBSET Results, NEW c \in Match
      PROVE  Mark(R, "listed", c) \in [Results -> Result]
  BY DEF Mark, TypeOK, Result
<1>3. ASSUME NEW R \in SUBSET Results PROVE Confirmed(R) \in [Results -> Result]
  BY DEF Confirmed, TypeOK, Result
<1>4. ASSUME NEW T, NEW R, NEW f PROVE Upserts(T, R, f) \subseteq [Plugins -> Match]
  BY DEF Upserts
<1>5. Unlinked(p) \in [Plugins -> Match]
  BY DEF Unlinked, TypeOK, Match
<1>6. ASSUME NEW base \in [Records -> SUBSET Results], NEW R \in SUBSET Results, NEW f
      PROVE  Recorded(base, R, f) \in [Records -> SUBSET Results]
  BY DEF Recorded, TypeOK
<1>7. ASSUME NEW c \in Records, LockRecord(p, c) PROVE TypeOK'
  <2> DEFINE y == req[p]
             x == [y EXCEPT !.locked = @ \cup {c}, !.paths[c] = paths[c],
                     !.stage = IF Touched(p) \subseteq y.locked \cup {c} THEN "held" ELSE "read"]
  <2>0. req \in [Requests -> Request]
    BY DEF TypeOK
  <2>1. /\ req'[p] = x /\ UNCHANGED <<tables, ops>>
        /\ \A q \in Requests \ {p} : req'[q] = req[q]
    BY <1>7, <2>0 DEF LockRecord, Reading
  <2>2. x \in Request /\ x.kind = y.kind /\ x.keeper = y.keeper /\ x.rows = y.rows
    BY <1>0 DEF Request, TypeOK
  <2> HIDE DEF x
  <2>3. req' \in [Requests -> Request]
    <3>1. req' = [q \in Requests |-> req'[q]]
      BY <1>7, <2>0 DEF LockRecord, Reading
    <3> QED
      BY <2>0, <2>1, <2>2, <3>1
  <2> QED
    BY <2>1, <2>2, <2>3 DEF tables, TypeOK
<1>8. CASE LockRow(p)
  BY <1>8, <1>0 DEF LockRow, tables, TypeOK, Request
<1>9. CASE Confirm(p)
  <2>1. result' \in [Results -> Result]
    BY <1>9 DEF Confirm, TypeOK, Result
  <2> QED
    BY <1>9, <1>1, <1>4, <2>1 DEF Confirm, TypeOK
<1>10. CASE Reject(p)
  <2>1. result' \in [Results -> Result]
    BY <1>10, <1>2, <1>0 DEF Reject, Match
  <2> QED
    BY <1>10, <1>1, <1>5, <2>1 DEF Reject, TypeOK
<1>11. CASE Ignore(p)
  <2>1. result' \in [Results -> Result]
    BY <1>11 DEF Ignore, TypeOK, Result
  <2>2. excluded' \subseteq Plugins
    <3>1. \A r \in req[p].rows : PluginOf[r] \in Plugins
      BY <1>0
    <3> QED
      <4>1. excluded' = excluded \cup {PluginOf[r] : r \in req[p].rows}
        BY <1>11 DEF Ignore
      <4>2. excluded \subseteq Plugins
        BY DEF TypeOK
      <4> QED
        BY <3>1, <4>1, <4>2
  <2> QED
    BY <1>11, <1>1, <1>5, <2>1, <2>2 DEF Ignore, TypeOK
<1>12. CASE Create(p)
  <2>1. result' \in [Results -> Result]
    BY <1>12, <1>2, <1>0 DEF Create
  <2>2. link' \in [Plugins -> Match]
    BY <1>12, <1>4 DEF Create
  <2> QED
    BY <1>12, <1>1, <2>1, <2>2 DEF Create, TypeOK
<1>13. CASE ForceMatch(p)
  <2>1. result' \in [Results -> Result]
    BY <1>13, <1>2, <1>0 DEF ForceMatch
  <2>2. link' \in [Plugins -> Match]
    BY <1>13, <1>4 DEF ForceMatch
  <2> QED
    BY <1>13, <1>1, <2>1, <2>2 DEF ForceMatch, TypeOK
<1>14. CASE Acknowledge(p)
  <2>1. result' \in [Results -> Result] /\ link' \in [Plugins -> Match]
    BY <1>14, <1>3, <1>4, <1>0 DEF Acknowledge
  <2>2. paths' \in [Records -> SUBSET Results]
    BY <1>14, <1>6, <1>0 DEF Acknowledge, Request
  <2> QED
    BY <1>14, <1>1, <2>1, <2>2 DEF Acknowledge, TypeOK
<1>15. CASE RemoveStraggler(p)
  <2>1. result' \in [Results -> Result]
    <3> DEFINE k == req[p].keeper
    <3>1. \A r \in Results : /\ [result[r] EXCEPT !.confirmed = TRUE] \in Result
                            /\ [result[r] EXCEPT !.dismissed = TRUE] \in Result
                            /\ result[r] \in Result
      BY DEF TypeOK, Result
    <3>2. result' = [r \in Results |-> IF r = k THEN [result[r] EXCEPT !.confirmed = TRUE]
                                     ELSE IF r \in req[p].rows \ {k}
                                     THEN [result[r] EXCEPT !.dismissed = TRUE]
                                     ELSE result[r]]
      BY <1>15 DEF RemoveStraggler
    <3> HIDE DEF k
    <3> QED
      BY <3>1, <3>2
  <2>2. link' \in [Plugins -> Match]
    BY <1>15, <1>4 DEF RemoveStraggler
  <2>3. paths' \in [Records -> SUBSET Results]
    <3>1. /\ paths' = Recorded(paths, {req[p].keeper}, req[p].seen)
          /\ paths \in [Records -> SUBSET Results]
      BY <1>15 DEF RemoveStraggler, TypeOK
    <3>2. {req[p].keeper} \in SUBSET Results
      BY <1>15 DEF RemoveStraggler, At, TypeOK, Request
    <3> QED
      BY <3>1, <3>2, <1>6
  <2> QED
    BY <1>15, <1>1, <2>1, <2>2, <2>3 DEF RemoveStraggler, TypeOK
<1>16. CASE PersistResolutions(p)
  <2>1. Agreeing(p, alias') \in SUBSET Results
    BY <1>0 DEF Agreeing
  <2>2. result' \in [Results -> Result]
    BY <1>16, <1>3, <2>1 DEF PersistResolutions
  <2>3. alias' \in [Plugins -> Match]
    BY <1>16, <1>4 DEF PersistResolutions
  <2>4. paths' \in [Records -> SUBSET Results]
    BY <1>16, <1>6, <1>0, <2>1 DEF PersistResolutions, Request
  <2> QED
    BY <1>16, <1>1, <2>2, <2>3, <2>4 DEF PersistResolutions, TypeOK
<1>17. CASE AcknowledgeClean(p)
  BY <1>17, <1>1, <1>3, <1>0 DEF AcknowledgeClean, TypeOK
<1>18. CASE RejectMatch(p)
  <2>1. result' \in [Results -> Result]
    BY <1>18 DEF RejectMatch, TypeOK, Result, Match
  <2>2. rejected' \subseteq Plugins \X Records
    <3>1. \A r \in req[p].rows : PluginOf[r] \in Plugins /\ req[p].seen[r] \in Match
      BY <1>0
    <3>2. \A r \in {x \in req[p].rows : req[p].seen[x] # Null} :
             <<PluginOf[r], req[p].seen[r]>> \in Plugins \X Records
      BY <3>1 DEF Match
    <3> QED
      <4>1. rejected' = rejected \cup {<<PluginOf[r], req[p].seen[r]>> :
                           r \in {x \in req[p].rows : req[p].seen[x] # Null}}
        BY <1>18 DEF RejectMatch
      <4>2. rejected \subseteq Plugins \X Records
        BY DEF TypeOK
      <4> QED
        BY <3>2, <4>1, <4>2
  <2> QED
    BY <1>18, <1>1, <2>1, <2>2 DEF RejectMatch, TypeOK
<1>19. CASE WriteLink(p)
  <2>1. link' \in [Plugins -> Match]
    BY <1>19, <1>4 DEF WriteLink
  <2> QED
    BY <1>19, <1>0, <2>1 DEF WriteLink, TypeOK, Request
<1>20. CASE OptimisticPurge(p)
  BY <1>20, <1>1 DEF OptimisticPurge, Purged, TypeOK
<1>21. CASE BulkLink(p)
  <2>1. link' \in [Plugins -> Match]
    BY <1>21, <1>4 DEF BulkLink
  <2> QED
    BY <1>21, <1>1, <2>1 DEF BulkLink, Purged, TypeOK
<1>23. CASE Fail(p)
  BY <1>23, <1>1 DEF Fail, tables, TypeOK
<1> QED
  BY <1>7, <1>8, <1>9, <1>10, <1>11, <1>12, <1>13, <1>14, <1>15, <1>16, <1>17, <1>18,
     <1>19, <1>20, <1>21, <1>23 DEF Handle

\* The operations without earlier reads.
LEMMA SingleTyped ==
    ASSUME TypeOK, Single
    PROVE  TypeOK'
<1> USE ReviewAssumption
<1>1. ASSUME NEW r \in Results, DismissResult(r) PROVE TypeOK'
  <2>1. [result[r] EXCEPT !.dismissed = TRUE] \in Result
    BY DEF TypeOK, Result
  <2> QED
    BY <1>1, <2>1 DEF DismissResult, Op, TypeOK
<1>2. ASSUME NEW d \in Plugins, NEW c \in Records, CreateAlias(d, c) PROVE TypeOK'
  BY <1>2 DEF CreateAlias, Op, TypeOK, Match
<1>3. ASSUME NEW x \in Plugins \X Records, DeleteRejection(x) PROVE TypeOK'
  BY <1>3 DEF DeleteRejection, Op, TypeOK
<1>4. ASSUME NEW d \in Plugins, RemoveExclusion(d) PROVE TypeOK'
  BY <1>4 DEF RemoveExclusion, Op, TypeOK
<1>5. ASSUME NEW c \in Records, SoftDelete(c) PROVE TypeOK'
  BY <1>5 DEF SoftDelete, Op, TypeOK
<1>7. ASSUME NEW c \in Records, NEW S \in SUBSET Results, EditPaths(c, S) PROVE TypeOK'
  BY <1>7 DEF EditPaths, Op, TypeOK
<1>6. CASE ResetHard
  BY <1>6 DEF ResetHard, Op, TypeOK, NoResult, Result, Match
<1> QED
  BY <1>1, <1>2, <1>3, <1>4, <1>5, <1>6, <1>7 DEF Single

\* Init is well typed.
LEMMA InitTyped == Init => TypeOK
<1>1. NoRequest.kind = "none"
  BY DEF NoRequest
<1> QED
  BY <1>1, NoRequestTyped, ReviewAssumption DEF Init, TypeOK, Ingested, Match

\* The tables and what requests keep have their types in every behaviour.
THEOREM TypeCorrect == Spec => []TypeOK
<1>1. ASSUME TypeOK, [Next]_vars PROVE TypeOK'
  <2>1. CASE UNCHANGED vars
    BY <1>1, <2>1 DEF vars, tables, TypeOK
  <2> QED
    BY <1>1, <2>1, ArriveTyped, HandleTyped, SingleTyped DEF Next
<1> QED
  BY InitTyped, <1>1, PTL DEF Spec

-----------------------------------------------------------------------------
(***************************************************************************)
(* Locks: what a transaction has locked is as it was when it took the lock.*)
(***************************************************************************)
\* No row and no record is locked by two.
Exclusive ==
    \A p, q \in Requests : p # q => /\ HeldRows(p) \cap HeldRows(q) = {}
                                    /\ HeldRecords(p) \cap HeldRecords(q) = {}

\* The disk_paths read FOR UPDATE are those of the record, and those of every
\* record that the request writes.
FreshOf(p) ==
    /\ \A c \in HeldRecords(p) : req[p].paths[c] = paths[c]
    /\ req[p].stage = "held" /\ req[p].kind \in RecordFirst => Touched(p) \subseteq HeldRecords(p)

\* The copies of a collision are shown and have one record.
CopiesOf(p) ==
    At(p, "straggler", "held") =>
        \A r \in req[p].rows : /\ ~result[r].dismissed /\ result[r].rec = req[p].seen[r]
                               /\ req[p].seen[r] = req[p].seen[req[p].keeper]
                               /\ req[p].seen[r] # Null

LocksSound == Exclusive /\ \A p \in Requests : FreshOf(p) /\ CopiesOf(p)

\* A step leaves alone the request of another and what that has locked.
Untouched(q) ==
    /\ req'[q] = req[q]
    /\ \A r \in HeldRows(q) : result'[r] = result[r]
    /\ \A c \in HeldRecords(q) \cap Records : paths'[c] = paths[c]

\* Locked rows are rows, and locked records records.
LEMMA HeldTyped ==
    ASSUME TypeOK, NEW p \in Requests
    PROVE  /\ HeldRows(p) \subseteq Results /\ req[p].rows \subseteq Results
           /\ HeldRecords(p) \subseteq Records
  BY DEF TypeOK, Request, HeldRows, HeldRecords

\* The other requests, when p takes a step.
LEMMA OthersUntouched ==
    ASSUME TypeOK, Exclusive, NEW p \in Requests, FreshOf(p), NEW q \in Requests, q # p,
           Arrive(p) \/ Handle(p) \/ Fail(p)
    PROVE  Untouched(q)
<1> USE HeldTyped
<1>0. req \in [Requests -> Request]
  BY DEF TypeOK
<1>1. ASSUME End(p) PROVE req'[q] = req[q]
  BY <1>0, <1>1 DEF End
<1>2. ASSUME UNCHANGED <<result, paths>>, req'[q] = req[q] PROVE Untouched(q)
  BY <1>2 DEF Untouched
<1>3. ASSUME RowsFree(p, req[p].rows), NEW f,
             result' = [r \in Results |-> IF r \in req[p].rows /\ Present(r) THEN f[r] ELSE result[r]]
      PROVE  \A r \in HeldRows(q) : result'[r] = result[r]
  BY <1>3 DEF RowsFree
<1>4. CASE Arrive(p)
  <2>1. ASSUME NEW r0, Begin(p, r0) PROVE Untouched(q)
    BY <2>1, <1>0, <1>2 DEF Begin, tables
  <2> QED
    BY <1>4, <2>1 DEF Arrive, ReadResults, ReadClean, ReadPattern, LockCopies
<1>5. ASSUME (\E c \in Records : LockRecord(p, c)) \/ LockRow(p) PROVE Untouched(q)
  <2>1. req'[q] = req[q]
    BY <1>5, <1>0 DEF LockRecord, Reading, LockRow
  <2> QED
    BY <1>5, <1>2, <2>1 DEF LockRecord, LockRow, tables
<1>6. CASE Confirm(p)
  <2>1. HeldRows(q) \cap req[p].rows = {}
    BY <1>6 DEF Confirm, Exclusive, HeldRows, At, RowsFirst
  <2> QED
    BY <1>6, <1>1, <2>1 DEF Confirm, Untouched
<1>7. CASE Reject(p)
  <2>1. \A r \in HeldRows(q) : result'[r] = result[r]
    BY <1>7 DEF Reject, Mark, RowsFree, HeldRows
  <2> QED
    BY <1>7, <1>1, <2>1 DEF Reject, Untouched
<1>8. CASE Ignore(p)
  <2>1. \A r \in HeldRows(q) : result'[r] = result[r]
    BY <1>8 DEF Ignore, RowsFree, HeldRows
  <2> QED
    BY <1>8, <1>1, <2>1 DEF Ignore, Untouched
<1>9. CASE Create(p)
  <2>1. \A r \in HeldRows(q) : result'[r] = result[r]
    BY <1>9 DEF Create, Mark, RowsFree, HeldRows
  <2> QED
    BY <1>9, <1>1, <2>1 DEF Create, Untouched
<1>10. CASE ForceMatch(p)
  <2>1. \A r \in HeldRows(q) : result'[r] = result[r]
    BY <1>10 DEF ForceMatch, Mark, RowsFree, HeldRows
  <2> QED
    BY <1>10, <1>1, <2>1 DEF ForceMatch, Untouched
<1>11. CASE Acknowledge(p)
  <2>1. \A r \in HeldRows(q) : result'[r] = result[r]
    BY <1>11 DEF Acknowledge, Confirmed, RowsFree, HeldRows
  <2>2. HeldRecords(q) \cap Touched(p) = {}
    BY <1>11 DEF Acknowledge, Exclusive, FreshOf, At, RecordFirst
  <2>3. \A c \in HeldRecords(q) \cap Records : paths'[c] = paths[c]
    BY <1>11, <2>2 DEF Acknowledge, Recorded, Touched
  <2> QED
    BY <1>11, <1>1, <2>1, <2>3 DEF Acknowledge, Untouched
<1>12. CASE RemoveStraggler(p)
  <2>0. req[p].keeper \in req[p].rows
    BY <1>12 DEF RemoveStraggler, At, TypeOK
  <2>1. HeldRows(q) \cap req[p].rows = {}
    BY <1>12 DEF RemoveStraggler, Exclusive, HeldRows, At, RowsFirst
  <2>2. \A r \in HeldRows(q) : result'[r] = result[r]
    BY <1>12, <2>0, <2>1 DEF RemoveStraggler
  <2>3. HeldRecords(q) \cap Touched(p) = {}
    BY <1>12 DEF RemoveStraggler, RecordsFree
  <2>4. \A c \in HeldRecords(q) \cap Records : paths'[c] = paths[c]
    BY <1>12, <2>0, <2>3 DEF RemoveStraggler, Recorded, Touched
  <2> QED
    BY <1>12, <1>1, <2>2, <2>4 DEF RemoveStraggler, Untouched
<1>13. CASE PersistResolutions(p)
  <2>1. \A r \in HeldRows(q) : result'[r] = result[r]
    BY <1>13 DEF PersistResolutions, Confirmed, Agreeing, RowsFree, HeldRows
  <2>2. HeldRecords(q) \cap Touched(p) = {}
    BY <1>13 DEF PersistResolutions, Exclusive, FreshOf, At, RecordFirst
  <2>3. \A c \in HeldRecords(q) \cap Records : paths'[c] = paths[c]
    BY <1>13, <2>2 DEF PersistResolutions, Recorded, Agreeing, Touched
  <2> QED
    BY <1>13, <1>1, <2>1, <2>3 DEF PersistResolutions, Untouched
<1>14. CASE AcknowledgeClean(p)
  <2>1. \A r \in HeldRows(q) : result'[r] = result[r]
    BY <1>14 DEF AcknowledgeClean, Confirmed, RowsFree, HeldRows
  <2> QED
    BY <1>14, <1>1, <2>1 DEF AcknowledgeClean, Untouched
<1>15. CASE RejectMatch(p)
  <2>1. \A r \in HeldRows(q) : result'[r] = result[r]
    BY <1>15 DEF RejectMatch, RowsFree, HeldRows
  <2> QED
    BY <1>15, <1>1, <2>1 DEF RejectMatch, Untouched
<1>16. CASE WriteLink(p)
  BY <1>16, <1>0, <1>2 DEF WriteLink
<1>17. CASE OptimisticPurge(p) \/ BulkLink(p) \/ Fail(p)
  BY <1>17, <1>1, <1>2 DEF OptimisticPurge, BulkLink, Fail, tables
<1> QED
  BY <1>4, <1>5, <1>6, <1>7, <1>8, <1>9, <1>10, <1>11, <1>12, <1>13, <1>14, <1>15, <1>16, <1>17
     DEF Handle

\* Every request, when an operation of one statement runs.
LEMMA SingleUntouched ==
    ASSUME TypeOK, Single, NEW q \in Requests
    PROVE  Untouched(q)
<1> USE HeldTyped
<1>1. ASSUME NEW r \in Results, DismissResult(r) PROVE Untouched(q)
  BY <1>1 DEF DismissResult, Op, Untouched, TypeOK
<1>2. ASSUME NEW d \in Plugins, NEW c \in Records, CreateAlias(d, c) PROVE Untouched(q)
  BY <1>2 DEF CreateAlias, Op, Untouched
<1>3. ASSUME NEW x \in Plugins \X Records, DeleteRejection(x) PROVE Untouched(q)
  BY <1>3 DEF DeleteRejection, Op, Untouched
<1>4. ASSUME NEW d \in Plugins, RemoveExclusion(d) PROVE Untouched(q)
  BY <1>4 DEF RemoveExclusion, Op, Untouched
<1>5. ASSUME NEW c \in Records, SoftDelete(c) PROVE Untouched(q)
  BY <1>5 DEF SoftDelete, Op, Untouched
<1>7. ASSUME NEW c \in Records, NEW S \in SUBSET Results, EditPaths(c, S) PROVE Untouched(q)
  BY <1>7 DEF EditPaths, Op, Untouched, TypeOK
<1>6. CASE ResetHard
  BY <1>6 DEF ResetHard, Op, Untouched
<1> QED
  BY <1>1, <1>2, <1>3, <1>4, <1>5, <1>6, <1>7 DEF Single

\* What p holds after a step of its own was free, and is as p read it.
LEMMA OwnLocks ==
    ASSUME TypeOK, LocksSound, NEW p \in Requests, Arrive(p) \/ Handle(p) \/ Fail(p)
    PROVE  /\ FreshOf(p)' /\ CopiesOf(p)'
           /\ \A q \in Requests \ {p} : /\ HeldRows(p)' \cap HeldRows(q) = {}
                                        /\ HeldRecords(p)' \cap HeldRecords(q) = {}
<1> DEFINE Goal == /\ FreshOf(p)' /\ CopiesOf(p)'
                   /\ \A q \in Requests \ {p} : /\ HeldRows(p)' \cap HeldRows(q) = {}
                                                /\ HeldRecords(p)' \cap HeldRecords(q) = {}
<1>0. req \in [Requests -> Request]
  BY DEF TypeOK
<1>1. ASSUME req'[p].stage # "held", req'[p].locked = {} PROVE Goal
  BY <1>1 DEF FreshOf, CopiesOf, At, HeldRows, HeldRecords
<1>2. ASSUME End(p) PROVE Goal
  BY <1>0, <1>1, <1>2 DEF End, NoRequest
<1>3. CASE Arrive(p)
  <2>1. ASSUME NEW r0, Begin(p, r0), r0.stage # "held", r0.locked = {} PROVE Goal
    BY <2>1, <1>0, <1>1 DEF Begin
  <2>2. ASSUME NEW R \in SUBSET Results, NEW k \in Results, LockCopies(p, R, k) PROVE Goal
    <3> DEFINE r0 == [NoRequest EXCEPT !.kind = "straggler", !.stage = "held", !.rows = R,
                         !.keeper = k,
                         !.seen = [r \in Results |-> IF r \in R THEN result[r].rec ELSE Null]]
    <3>1. /\ r0.kind = "straggler" /\ r0.stage = "held" /\ r0.rows = R /\ r0.keeper = k
          /\ r0.locked = {}
          /\ \A r \in R : r0.seen[r] = result[r].rec
      BY DEF NoRequest
    <3> HIDE DEF r0
    <3>2. req'[p] = r0 /\ UNCHANGED tables
      BY <2>2, <1>0 DEF LockCopies, Begin, r0
    <3>3. FreshOf(p)' /\ HeldRecords(p)' = {}
      BY <3>1, <3>2 DEF FreshOf, HeldRecords, RecordFirst
    <3>4. HeldRows(p)' = R
      BY <3>1, <3>2 DEF HeldRows, RowsFirst
    <3>5. \A q \in Requests \ {p} : HeldRows(q) \cap R = {}
      BY <2>2 DEF LockCopies, RowsFree
    <3>6. CopiesOf(p)'
      BY <2>2, <3>1, <3>2 DEF LockCopies, CopiesOf, At, tables
    <3> QED
      BY <3>3, <3>4, <3>5, <3>6
  <2>3. ASSUME NEW k \in (RowKinds \ {"clean"}) \cup {"acknowledge", "confirm"},
               NEW R \in SUBSET Results, NEW t \in Match, ReadResults(p, k, R, t)
        PROVE  Goal
    <3> DEFINE r0 == [NoRequest EXCEPT !.kind = k, !.stage = "read", !.rows = R, !.target = t,
                        !.seen = [r \in Results |-> IF r \in R /\ k \in MatchKinds
                                                    THEN result[r].rec ELSE Null]]
    <3>1. r0.stage # "held" /\ r0.locked = {}
      BY DEF NoRequest
    <3> QED
      BY <2>1, <2>3, <3>1 DEF ReadResults
  <2>4. ASSUME NEW R \in SUBSET Results, ReadClean(p, R) PROVE Goal
    <3> DEFINE r0 == [NoRequest EXCEPT !.kind = "clean", !.stage = "read", !.rows = R]
    <3>1. r0.stage # "held" /\ r0.locked = {}
      BY DEF NoRequest
    <3> QED
      BY <2>1, <2>4, <3>1 DEF ReadClean
  <2>5. ASSUME NEW R \in SUBSET Results, NEW f \in [Results -> Match], ReadPattern(p, R, f)
        PROVE  Goal
    <3> DEFINE r0 == [NoRequest EXCEPT !.kind = "pattern", !.stage = "read", !.rows = R,
                        !.seen = f]
    <3>1. r0.stage # "held" /\ r0.locked = {}
      BY DEF NoRequest
    <3> QED
      BY <2>1, <2>5, <3>1 DEF ReadPattern
  <2> QED
    BY <1>3, <2>2, <2>3, <2>4, <2>5 DEF Arrive
<1>4. ASSUME NEW c \in Records, LockRecord(p, c) PROVE Goal
  <2> DEFINE y == req[p]
             x == [y EXCEPT !.locked = @ \cup {c}, !.paths[c] = paths[c],
                     !.stage = IF Touched(p) \subseteq y.locked \cup {c} THEN "held" ELSE "read"]
  <2>1. req'[p] = x /\ y.kind \in RecordFirst /\ UNCHANGED tables
    BY <1>4, <1>0 DEF LockRecord, Reading
  <2>2. y \in Request
    BY <1>0
  <2>3. /\ x.kind = y.kind /\ x.rows = y.rows /\ x.seen = y.seen /\ x.locked = y.locked \cup {c}
        /\ x.stage = "held" => Touched(p) \subseteq y.locked \cup {c}
        /\ x.paths[c] = paths[c] /\ \A d \in Records \ {c} : x.paths[d] = y.paths[d]
    BY <2>2 DEF Request
  <2> HIDE DEF x
  <2>4. Touched(p)' = Touched(p) /\ HeldRecords(p)' = HeldRecords(p) \cup {c}
    BY <2>1, <2>3 DEF Touched, HeldRecords
  <2>5. \A d \in HeldRecords(p)' : req'[p].paths[d] = paths'[d]
    BY <2>1, <2>3, <2>4, HeldTyped DEF LocksSound, FreshOf, tables
  <2>6. FreshOf(p)'
    BY <2>1, <2>3, <2>4, <2>5 DEF FreshOf, HeldRecords
  <2>7. CopiesOf(p)' /\ HeldRows(p)' = {}
    BY <2>1, <2>3 DEF CopiesOf, At, HeldRows, RecordFirst, RowsFirst
  <2>8. \A q \in Requests \ {p} : HeldRecords(p)' \cap HeldRecords(q) = {}
    BY <1>4, <2>4 DEF LockRecord, RecordsFree, LocksSound, Exclusive
  <2> QED
    BY <2>6, <2>7, <2>8
<1>5. CASE LockRow(p)
  <2>1. /\ req'[p].stage = "held" /\ req'[p].kind = "confirm" /\ req'[p].rows = req[p].rows
        /\ req'[p].locked = req[p].locked /\ req'[p].paths = req[p].paths /\ UNCHANGED tables
    BY <1>5, <1>0 DEF LockRow, Request
  <2>2. FreshOf(p)' /\ CopiesOf(p)' /\ HeldRecords(p)' = HeldRecords(p)
    BY <2>1 DEF LocksSound, FreshOf, CopiesOf, At, HeldRecords, RecordFirst, tables
  <2>3. \A q \in Requests \ {p} : HeldRows(p)' \cap HeldRows(q) = {}
    BY <1>5, <2>1 DEF LockRow, RowsFree, HeldRows
  <2> QED
    BY <2>2, <2>3 DEF LocksSound, Exclusive
<1>6. CASE WriteLink(p)
  <2>1. /\ req'[p].stage = "linked" /\ req'[p].locked = req[p].locked
        /\ req'[p].paths = req[p].paths /\ UNCHANGED paths
    BY <1>6, <1>0 DEF WriteLink, Request
  <2>2. FreshOf(p)' /\ CopiesOf(p)' /\ HeldRecords(p)' = HeldRecords(p) /\ HeldRows(p)' = {}
    BY <2>1 DEF LocksSound, FreshOf, CopiesOf, At, HeldRecords, HeldRows
  <2> QED
    BY <2>2 DEF LocksSound, Exclusive
<1>7. CASE Confirm(p) \/ Reject(p) \/ Ignore(p) \/ Create(p) \/ ForceMatch(p) \/ Acknowledge(p)
             \/ RemoveStraggler(p) \/ PersistResolutions(p) \/ AcknowledgeClean(p)
             \/ RejectMatch(p) \/ OptimisticPurge(p) \/ BulkLink(p) \/ Fail(p)
  BY <1>2, <1>7 DEF Confirm, Reject, Ignore, Create, ForceMatch, Acknowledge, RemoveStraggler,
     PersistResolutions, AcknowledgeClean, RejectMatch, OptimisticPurge, BulkLink, Fail
<1> QED
  BY <1>3, <1>4, <1>5, <1>6, <1>7 DEF Handle

\* What an untouched request holds stays sound.
LEMMA UntouchedSound ==
    ASSUME TypeOK, NEW q \in Requests, Untouched(q), FreshOf(q), CopiesOf(q)
    PROVE  /\ FreshOf(q)' /\ CopiesOf(q)'
           /\ HeldRows(q)' = HeldRows(q) /\ HeldRecords(q)' = HeldRecords(q)
<1>1. Touched(q)' = Touched(q) /\ HeldRows(q)' = HeldRows(q) /\ HeldRecords(q)' = HeldRecords(q)
  BY DEF Untouched, Touched, HeldRows, HeldRecords
<1>2. FreshOf(q)'
  BY <1>1, HeldTyped DEF Untouched, FreshOf
<1>3. CopiesOf(q)'
  BY DEF Untouched, CopiesOf, At, HeldRows, RowsFirst
<1> QED
  BY <1>1, <1>2, <1>3

\* The inductive invariant.
THEOREM LocksAreSound == Spec => []LocksSound
<1>1. Init => LocksSound
  BY DEF Init, LocksSound, Exclusive, FreshOf, CopiesOf, At, HeldRows, HeldRecords, NoRequest
<1>2. ASSUME TypeOK, LocksSound, [Next]_vars PROVE LocksSound'
  <2>1. CASE UNCHANGED vars
    <3>1. \A q \in Requests : Untouched(q)
      BY <2>1 DEF vars, tables, Untouched
    <3> QED
      BY <1>2, <3>1, UntouchedSound DEF LocksSound, Exclusive
  <2>2. CASE Single
    <3>1. \A q \in Requests : Untouched(q)
      BY <1>2, <2>2, SingleUntouched
    <3> QED
      BY <1>2, <3>1, UntouchedSound DEF LocksSound, Exclusive
  <2>3. ASSUME NEW p \in Requests, Arrive(p) \/ Handle(p) \/ Fail(p) PROVE LocksSound'
    <3>1. \A q \in Requests \ {p} : Untouched(q)
      BY <1>2, <2>3, OthersUntouched DEF LocksSound
    <3>2. \A q \in Requests \ {p} : /\ FreshOf(q)' /\ CopiesOf(q)'
                                    /\ HeldRows(q)' = HeldRows(q)
                                    /\ HeldRecords(q)' = HeldRecords(q)
      BY <1>2, <3>1, UntouchedSound DEF LocksSound
    <3>3. FreshOf(p)' /\ CopiesOf(p)'
      BY <1>2, <2>3, OwnLocks
    <3>4. \A q \in Requests \ {p} : /\ HeldRows(p)' \cap HeldRows(q)' = {}
                                    /\ HeldRecords(p)' \cap HeldRecords(q)' = {}
      BY <1>2, <2>3, <3>2, OwnLocks
    <3>5. Exclusive'
      BY <1>2, <3>2, <3>4 DEF LocksSound, Exclusive
    <3> QED
      BY <3>2, <3>3, <3>5 DEF LocksSound
  <2> QED
    BY <1>2, <2>1, <2>2, <2>3 DEF Next
<1> QED
  BY <1>1, <1>2, TypeCorrect, PTL DEF Spec

-----------------------------------------------------------------------------
(***************************************************************************)
(* The properties.                                                         *)
(***************************************************************************)
\* But for an editor's form, disk_paths change by appending to what they are at that moment.
LEMMA PathsGrow ==
    ASSUME TypeOK, LocksSound, [Next]_vars
    PROVE  \A c \in Records : paths[c] \subseteq paths'[c] \/ EditPaths(c, paths'[c])
<1>1. CASE UNCHANGED paths
  BY <1>1
<1>2. ASSUME NEW p \in Requests, Acknowledge(p) \/ PersistResolutions(p)
      PROVE  \A c \in Records : paths[c] \subseteq paths'[c]
  <2>1. \A c \in Touched(p) \cap Records : req[p].paths[c] = paths[c]
    BY <1>2 DEF LocksSound, FreshOf, Acknowledge, PersistResolutions, At, RecordFirst
  <2>2. \E R : R \subseteq req[p].rows /\ paths' = Recorded(req[p].paths, R, req[p].seen)
    BY <1>2 DEF Acknowledge, PersistResolutions, Agreeing
  <2>3. PICK R : R \subseteq req[p].rows /\ paths' = Recorded(req[p].paths, R, req[p].seen)
    BY <2>2
  <2> QED
    BY <2>1, <2>3 DEF Recorded, Touched
<1>3. ASSUME NEW p \in Requests, RemoveStraggler(p)
      PROVE  \A c \in Records : paths[c] \subseteq paths'[c]
  BY <1>3 DEF RemoveStraggler, Recorded
<1>4. ASSUME NEW p \in Requests, Arrive(p) PROVE UNCHANGED paths
  BY <1>4 DEF Arrive, ReadResults, ReadClean, ReadPattern, LockCopies, Begin, tables
<1>5. ASSUME NEW p \in Requests, Handle(p) \/ Fail(p),
             ~(Acknowledge(p) \/ PersistResolutions(p) \/ RemoveStraggler(p))
      PROVE  UNCHANGED paths
  BY <1>5 DEF Handle, Fail, LockRecord, LockRow, Confirm, Reject, Ignore, Create, ForceMatch,
     AcknowledgeClean, RejectMatch, WriteLink, OptimisticPurge, BulkLink, tables
<1>6. ASSUME NEW c \in Records, NEW S \in SUBSET Results, EditPaths(c, S)
      PROVE  \A x \in Records : paths[x] \subseteq paths'[x] \/ EditPaths(x, paths'[x])
  <2>1. paths'[c] = S /\ \A x \in Records \ {c} : paths'[x] = paths[x]
    BY <1>6 DEF EditPaths, TypeOK
  <2> QED
    BY <1>6, <2>1
<1>7. ASSUME Single, \A c \in Records, S \in SUBSET Results : ~EditPaths(c, S)
      PROVE  UNCHANGED paths
  BY <1>7 DEF Single, DismissResult, CreateAlias, DeleteRejection, RemoveExclusion, SoftDelete,
     ResetHard
<1> QED
  BY <1>1, <1>2, <1>3, <1>4, <1>5, <1>6, <1>7 DEF Next, vars, tables

\* No entry of disk_paths is lost to a concurrent append, for any number of requests.
THEOREM PathsAreKept == Spec => PathsKept
<1>1. ASSUME TypeOK, LocksSound, [Next]_vars
      PROVE  [\A c \in Records : paths[c] \subseteq paths'[c] \/ EditPaths(c, paths'[c])]_vars
  BY <1>1, PathsGrow
<1> QED
  BY <1>1, TypeCorrect, LocksAreSound, PTL DEF Spec, PathsKept

\* A step that changes what p keeps is a step of p.
LEMMA OwnStep ==
    ASSUME TypeOK, LocksSound, Next, NEW p \in Requests, req'[p] # req[p]
    PROVE  Arrive(p) \/ Handle(p) \/ Fail(p)
<1>1. ASSUME NEW q \in Requests, q # p, Arrive(q) \/ Handle(q) \/ Fail(q) PROVE FALSE
  BY <1>1, OthersUntouched DEF LocksSound, Untouched
<1>2. ASSUME Single PROVE FALSE
  BY <1>2, SingleUntouched DEF Untouched
<1> QED
  BY <1>1, <1>2 DEF Next

\* The copy a resolution keeps is shown, confirmed and on the record of each copy it dismisses.
THEOREM CopyIsKept == Spec => CopyKept
<1> DEFINE Kept(p) == LET k == req[p].keeper IN
                      /\ ~result'[k].dismissed /\ result'[k].confirmed
                      /\ \A r \in req[p].rows :
                           result'[r].dismissed => result[r].rec # Null /\ k \in paths'[result[r].rec]
<1>1. ASSUME TypeOK, LocksSound, Next, NEW p \in Requests, Resolves(p) PROVE Kept(p)
  <2>1. At(p, "straggler", "held") /\ req'[p] # req[p] /\ result' # result
    BY <1>1 DEF Resolves
  <2>2. Arrive(p) \/ Handle(p) \/ Fail(p)
    BY <1>1, <2>1, OwnStep
  <2>3. RemoveStraggler(p)
    <3>1. ~Arrive(p)
      BY <2>1 DEF Arrive, ReadResults, ReadClean, ReadPattern, LockCopies, Begin, At
    <3>2. ~Fail(p)
      BY <2>1 DEF Fail, tables
    <3> QED
      BY <2>1, <2>2, <3>1, <3>2 DEF Handle, LockRecord, LockRow, Confirm, Reject, Ignore, Create,
         ForceMatch, Acknowledge, PersistResolutions, AcknowledgeClean, RejectMatch, WriteLink,
         OptimisticPurge, BulkLink, At
  <2> DEFINE k == req[p].keeper
  <2>4. k \in req[p].rows /\ k \in Results /\ req[p].rows \subseteq Results
           /\ req[p].seen \in [Results -> Match]
    <3>1. req[p] \in Request
      BY <1>1 DEF TypeOK
    <3>2. req[p].rows \subseteq Results /\ req[p].seen \in [Results -> Match]
      BY <3>1 DEF Request
    <3>3. k \in req[p].rows
      BY <1>1, <2>1 DEF TypeOK, At
    <3> QED
      BY <3>2, <3>3
  <2>5. \A r \in req[p].rows : /\ ~result[r].dismissed /\ result[r].rec = req[p].seen[r]
                               /\ req[p].seen[r] = req[p].seen[k] /\ req[p].seen[r] # Null
    BY <1>1, <2>1, <2>4 DEF LocksSound, CopiesOf
  <2>6. result[k] \in Result
    BY <1>1, <2>4 DEF TypeOK
  <2>7. result'[k] = [result[k] EXCEPT !.confirmed = TRUE]
    BY <1>1, <2>3, <2>4 DEF RemoveStraggler, TypeOK
  <2>8. ~result'[k].dismissed /\ result'[k].confirmed
    BY <2>4, <2>5, <2>6, <2>7 DEF Result
  <2>9. req[p].seen[k] \in Records
    BY <2>4, <2>5 DEF Match
  <2>10. k \in paths'[req[p].seen[k]]
    BY <2>3, <2>9 DEF RemoveStraggler, Recorded
  <2> QED
    BY <2>5, <2>8, <2>10
<1>2. ASSUME TypeOK, LocksSound, [Next]_vars
      PROVE  [\A p \in Requests : Resolves(p) => Kept(p)]_vars
  BY <1>1, <1>2
<1> QED
  BY <1>2, TypeCorrect, LocksAreSound, PTL DEF Spec, CopyKept

\* An alias is taken away by a hard reset only.
THEOREM AliasIsKept == Spec => AliasKept
<1> DEFINE Kept == \A d \in Plugins : alias[d] # Null /\ alias'[d] # alias[d] =>
                       \A e \in Plugins : alias'[e] = Null
<1>1. ASSUME UNCHANGED alias PROVE Kept
  BY <1>1
<1>2. ASSUME NEW p \in Requests, PersistResolutions(p) PROVE Kept
  BY <1>2 DEF PersistResolutions, Upserts
<1>3. ASSUME TypeOK, NEW d \in Plugins, NEW c \in Records, CreateAlias(d, c) PROVE Kept
  BY <1>3 DEF CreateAlias, TypeOK
<1>4. ASSUME ResetHard PROVE Kept
  BY <1>4 DEF ResetHard
<1>5. ASSUME NEW p \in Requests, Arrive(p) \/ Fail(p) \/ (Handle(p) /\ ~PersistResolutions(p))
      PROVE  UNCHANGED alias
  BY <1>5 DEF Arrive, ReadResults, ReadClean, ReadPattern, LockCopies, Begin, Handle, Fail,
     LockRecord, LockRow, Confirm, Reject, Ignore, Create, ForceMatch, Acknowledge,
     RemoveStraggler, AcknowledgeClean, RejectMatch, WriteLink, OptimisticPurge, BulkLink,
     tables
<1>6. ASSUME TypeOK, [Next]_vars PROVE [Kept]_vars
  BY <1>1, <1>2, <1>3, <1>4, <1>5, <1>6
     DEF Next, Single, DismissResult, DeleteRejection, RemoveExclusion, SoftDelete,
         EditPaths, vars, tables
<1> QED
  BY <1>6, TypeCorrect, PTL DEF Spec, AliasKept

\* The rows of a pattern's acknowledge-clean have been resolved.
PatternsResolved ==
    \A p \in Requests : req[p].kind = "pattern" => \A r \in req[p].rows : req[p].seen[r] # Null

LEMMA PatternsAreResolved == Spec => []PatternsResolved
<1>1. Init => PatternsResolved
  BY DEF Init, PatternsResolved, NoRequest
<1>2. ASSUME TypeOK, LocksSound, PatternsResolved, [Next]_vars PROVE PatternsResolved'
  <2> SUFFICES ASSUME NEW p \in Requests, req'[p].kind = "pattern", req'[p] # req[p]
               PROVE  \A r \in req'[p].rows : req'[p].seen[r] # Null
    BY <1>2 DEF PatternsResolved
  <2>0. req \in [Requests -> Request] /\ req[p] \in Request
    BY <1>2 DEF TypeOK
  <2>1. Arrive(p) \/ Handle(p) \/ Fail(p)
    BY <1>2, OwnStep DEF vars
  <2>2. ~End(p)
    BY <2>0 DEF End, NoRequest
  <2>3. CASE (\E c \in Records : LockRecord(p, c)) \/ LockRow(p) \/ WriteLink(p)
    <3>1. /\ req'[p].kind = req[p].kind /\ req'[p].rows = req[p].rows
          /\ req'[p].seen = req[p].seen
      <4>1. CASE \E c \in Records : LockRecord(p, c)
        BY <2>0, <4>1 DEF LockRecord, Reading, Request
      <4>2. CASE LockRow(p) \/ WriteLink(p)
        BY <2>0, <4>2 DEF LockRow, WriteLink, Request
      <4> QED
        BY <2>3, <4>1, <4>2
    <3> QED BY <1>2, <3>1 DEF PatternsResolved
  <2>4. CASE Arrive(p)
    <3>1. ASSUME NEW r0, Begin(p, r0) PROVE req'[p] = r0
      BY <2>0, <3>1 DEF Begin
    <3>2. ASSUME NEW k \in (RowKinds \ {"clean"}) \cup {"acknowledge", "confirm"},
                 NEW R \in SUBSET Results, NEW t \in Match, ReadResults(p, k, R, t)
          PROVE  FALSE
      <4> DEFINE r0 == [NoRequest EXCEPT !.kind = k, !.stage = "read", !.rows = R, !.target = t,
                          !.seen = [r \in Results |-> IF r \in R /\ k \in MatchKinds
                                                      THEN result[r].rec ELSE Null]]
      <4>1. r0.kind = k /\ k # "pattern"
        BY DEF NoRequest, RowKinds
      <4>2. Begin(p, r0)
        BY <3>2 DEF ReadResults
      <4> HIDE DEF r0
      <4> QED BY <3>1, <4>1, <4>2
    <3>3. ASSUME NEW R \in SUBSET Results, ReadClean(p, R) PROVE FALSE
      <4> DEFINE r0 == [NoRequest EXCEPT !.kind = "clean", !.stage = "read", !.rows = R]
      <4>1. r0.kind = "clean"
        BY DEF NoRequest
      <4>2. Begin(p, r0)
        BY <3>3 DEF ReadClean
      <4> HIDE DEF r0
      <4> QED BY <3>1, <4>1, <4>2
    <3>4. ASSUME NEW R \in SUBSET Results, NEW k \in Results, LockCopies(p, R, k) PROVE FALSE
      <4> DEFINE r0 == [NoRequest EXCEPT !.kind = "straggler", !.stage = "held", !.rows = R,
                          !.keeper = k,
                          !.seen = [r \in Results |-> IF r \in R THEN result[r].rec ELSE Null]]
      <4>1. r0.kind = "straggler"
        BY DEF NoRequest
      <4>2. Begin(p, r0)
        BY <3>4 DEF LockCopies
      <4> HIDE DEF r0
      <4> QED BY <3>1, <4>1, <4>2
    <3>5. ASSUME NEW R \in SUBSET Results, NEW f \in [Results -> Match], ReadPattern(p, R, f)
          PROVE  \A r \in req'[p].rows : req'[p].seen[r] # Null
      <4> DEFINE r0 == [NoRequest EXCEPT !.kind = "pattern", !.stage = "read", !.rows = R,
                          !.seen = f]
      <4>1. r0.rows = R /\ r0.seen = f
        BY DEF NoRequest
      <4>2. Begin(p, r0) /\ \A r \in R : f[r] # Null
        BY <3>5 DEF ReadPattern
      <4> HIDE DEF r0
      <4> QED BY <3>1, <4>1, <4>2
    <3> QED BY <2>4, <3>2, <3>3, <3>4, <3>5 DEF Arrive
  <2> QED
    BY <2>1, <2>2, <2>3, <2>4 DEF Handle, Fail, Confirm, Reject, Ignore, Create, ForceMatch,
       Acknowledge, RemoveStraggler, PersistResolutions, AcknowledgeClean, RejectMatch,
       OptimisticPurge, BulkLink
<1> QED
  BY <1>1, <1>2, TypeCorrect, LocksAreSound, PTL DEF Spec

\* A row that a pattern's acknowledge-clean confirms has the alias it was resolved
\* to and is on that record's disk_paths; a row whose alias another request wrote
\* first is left as it was.
THEOREM PatternsAgree == Spec => PatternAgrees
<1> DEFINE Agrees(p) == \A r \in req[p].rows :
                           LET c == req[p].seen[r] IN
                           \/ alias'[PluginOf[r]] = c /\ r \in paths'[c]
                           \/ result'[r] = result[r] /\ (r \in paths'[c] => r \in paths[c])
<1>1. ASSUME TypeOK, LocksSound, PatternsResolved, Next, NEW p \in Requests, Persists(p)
      PROVE  Agrees(p)
  <2>1. At(p, "pattern", "held") /\ req'[p] # req[p] /\ tables' # tables
    BY <1>1 DEF Persists
  <2>2. Arrive(p) \/ Handle(p) \/ Fail(p)
    BY <1>1, <2>1, OwnStep
  <2>3. PersistResolutions(p)
    <3>1. ~Arrive(p)
      BY <2>1 DEF Arrive, ReadResults, ReadClean, ReadPattern, LockCopies, Begin, At
    <3>2. ~Fail(p)
      BY <2>1 DEF Fail
    <3> QED
      BY <2>1, <2>2, <3>1, <3>2 DEF Handle, LockRecord, LockRow, Confirm, Reject, Ignore, Create,
         ForceMatch, Acknowledge, RemoveStraggler, AcknowledgeClean, RejectMatch, WriteLink,
         OptimisticPurge, BulkLink, At
  <2> SUFFICES ASSUME NEW r \in req[p].rows
               PROVE  LET c == req[p].seen[r] IN
                      \/ alias'[PluginOf[r]] = c /\ r \in paths'[c]
                      \/ result'[r] = result[r] /\ (r \in paths'[c] => r \in paths[c])
    OBVIOUS
  <2> DEFINE c == req[p].seen[r]
             A == Agreeing(p, alias')
  <2>4. r \in Results /\ c \in Records /\ c \in Touched(p)
    <3>1. req[p] \in Request /\ req[p].kind = "pattern"
      BY <1>1, <2>1 DEF TypeOK, At
    <3>2. req[p].rows \subseteq Results /\ req[p].seen \in [Results -> Match] /\ c # Null
      BY <1>1, <3>1 DEF Request, PatternsResolved
    <3> QED BY <3>2 DEF Match, Touched
  <2>5. req[p].paths[c] = paths[c]
    BY <1>1, <2>1, <2>4 DEF LocksSound, FreshOf, At, RecordFirst
  <2>6. paths' = Recorded(req[p].paths, A, req[p].seen) /\ result' = Confirmed(A)
    BY <2>3 DEF PersistResolutions
  <2>7. r \in A <=> alias'[PluginOf[r]] = c
    BY DEF Agreeing
  <2> HIDE DEF A
  <2>8. CASE r \in A
    <3>1. r \in paths'[c]
      BY <2>4, <2>6, <2>8 DEF Recorded
    <3> QED BY <2>7, <2>8, <3>1
  <2>9. CASE r \notin A
    <3>1. result'[r] = result[r]
      BY <2>4, <2>6, <2>9 DEF Confirmed
    <3>2. r \in paths'[c] => r \in paths[c]
      BY <2>4, <2>5, <2>6, <2>9 DEF Recorded
    <3> QED BY <3>1, <3>2
  <2> QED BY <2>8, <2>9
<1>2. ASSUME TypeOK, LocksSound, PatternsResolved, [Next]_vars
      PROVE  [\A p \in Requests : Persists(p) => Agrees(p)]_vars
  BY <1>1, <1>2
<1> QED
  BY <1>2, TypeCorrect, LocksAreSound, PatternsAreResolved, PTL DEF Spec, PatternAgrees

=============================================================================

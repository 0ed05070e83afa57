-------------------------- MODULE RecordDeskProofs --------------------------
(***************************************************************************)
(* Proofs about RecordDesk, for any table, number of requests and bounds:  *)
(* its types, that a user's own writes are shown, and that a save and a    *)
(* bulk edit leave alone what they do not mean to change.                  *)
(*                                                                         *)
(* A browser's copy of a row is as old as its version: while the row has   *)
(* that version on the server, the copy is the row.                        *)
(***************************************************************************)
EXTENDS RecordDesk, TLAPS

Past(row, cur) == row.version =< cur.version /\ (row.version = cur.version => row = cur)

\* What a form holds and has not been touched is what the row has, unless the
\* row was written since.
Draft(d) ==
    /\ d.seen =< rows[d.rec].version
    /\ d.seen = rows[d.rec].version =>
          /\ "text" \notin d.touched => d.form.text = rows[d.rec].text
          /\ "tags" \notin d.touched => d.form.tags = rows[d.rec].tags

\* The cached list and the answer on its way are past tables, no older than the
\* writes announced, unless the list is marked stale or is the first one and was
\* on its way at an announcement.
CacheOK ==
    /\ list # None => \A r \in Record : Past(list[r], rows[r])
    /\ fetch \notin {None, Asked} => \A r \in Record : Past(fetch[r], rows[r])
    /\ fetch \notin {None, Asked} /\ ~(early /\ list = None) =>
          \A r \in Record : mine[r] =< fetch[r].version
    /\ list # None /\ ~stale /\ ~early => \A r \in Record : mine[r] =< list[r].version
    /\ \A r \in Record : mine[r] =< rows[r].version

ModalOK == modal # None /\ modal.rec # New => Draft(modal)

\* A request that a modal still waits for has its modal; what it wrote is there.
CallOK(c) ==
    /\ c.own => modal \in Modal
    /\ c.kind = "save" /\ c.state = "sent" /\ c.rec # New => Draft(c)
    /\ c.kind = "delete" => c.rec # New
    /\ c.state = "done" => c.rec \in Record /\ c.version =< rows[c.rec].version
CallsOK == \A i \in Slots : call[i] # None => CallOK(call[i])

Lot(o) == \A r \in Record : Past(o.base[r], rows[r]) /\ o.version[r] =< rows[r].version
BulkOK == \A b \in BulkSlots : bulk[b] # None => Lot(bulk[b])

Typed == /\ TypeOK
         /\ call \in [Slots -> Call \cup {None}]
         /\ bulk \in [BulkSlots -> Bulk \cup {None}]

IInv == Typed /\ CacheOK /\ ModalOK /\ CallsOK /\ BulkOK

-----------------------------------------------------------------------------
(***************************************************************************)
(* Types.                                                                  *)
(***************************************************************************)
LEMMA Bounds == /\ MaxEdits \in Nat /\ MaxVersion \in Nat /\ MaxFaults \in Nat /\ MaxUses \in Nat
                /\ New \notin Record /\ None # New /\ None # Asked
BY DeskAssumption

LEMMA BlankTyped ==
    /\ Blank \in Row /\ Blank.version = 0
    /\ [Blank EXCEPT !.live = TRUE, !.tags = {0}] \in Row
<1>1. 0 \in Stamp /\ {0} \in SUBSET Stamp /\ 0 \in 0 .. MaxVersion
  BY Bounds DEF Stamp
<1>2. Blank \in Row /\ Blank.version = 0
  BY <1>1 DEF Blank, Row
<1> QED BY <1>1, <1>2 DEF Row

LEMMA MountTyped ==
    ASSUME NEW r \in Record \cup {New}, NEW row \in Row, NEW mode \in {"view", "edit", "history"}
    PROVE  /\ Mount(r, row, mode) \in Modal
           /\ Mount(r, row, mode).rec = r
           /\ Mount(r, row, mode).seen = row.version
           /\ Mount(r, row, mode).form.text = row.text
           /\ Mount(r, row, mode).form.tags = row.tags
BY DEF Mount, ToForm, Modal, Form, Row, Fields

\* A write makes the next version of a row.
LEMMA WriteTyped ==
    ASSUME rows \in Snapshot, NEW r \in Record, CanWrite(r), NEW row \in Row
    PROVE  /\ Write(r, row) \in Row
           /\ Write(r, row).version = rows[r].version + 1
           /\ Write(r, row).text = row.text
           /\ Write(r, row).tags = row.tags
           /\ Write(r, row).live = row.live
<1>1. rows[r] \in Row /\ rows[r].version < MaxVersion
  BY DEF CanWrite, Snapshot
<1>2. rows[r].version + 1 \in 0 .. MaxVersion
  BY <1>1, Bounds DEF Row
<1> QED BY <1>2 DEF Write, Row

LEMMA ApplyTyped ==
    ASSUME rows \in Snapshot, NEW r \in Record, CanWrite(r), NEW form \in Form
    PROVE  /\ Apply(r, form) \in Row
           /\ Apply(r, form).version = rows[r].version + 1
           /\ Apply(r, form).text = form.text
           /\ Apply(r, form).tags = form.tags
           /\ Apply(r, form).live = rows[r].live
<1> DEFINE row == [rows[r] EXCEPT !.text = form.text, !.tags = form.tags]
<1>1. rows[r] \in Row
  BY DEF Snapshot
<1>2. /\ row \in Row /\ row.text = form.text /\ row.tags = form.tags
      /\ row.live = rows[r].live
  BY <1>1 DEF Row, Form
<1>3. Apply(r, form) = Write(r, row)
  BY DEF Apply
<1> HIDE DEF row
<1> QED BY <1>2, <1>3, WriteTyped

LEMMA OrphansTyped ==
    ASSUME Typed
    PROVE  /\ Orphans \in [Slots -> Call \cup {None}]
           /\ \A i \in Slots : Orphans[i] # None =>
                 call[i] # None /\ Orphans[i] = [call[i] EXCEPT !.own = FALSE]
<1>1. \A i \in Slots : call[i] # None => [call[i] EXCEPT !.own = FALSE] \in Call
  BY DEF Typed, Call
<1> QED BY <1>1 DEF Orphans, Typed

-----------------------------------------------------------------------------
(***************************************************************************)
(* What a step leaves alone stays sound: rows change by getting a newer    *)
(* version.                                                                *)
(***************************************************************************)
Grown ==
    /\ rows' \in Snapshot
    /\ \A r \in Record : rows'[r] = rows[r] \/ rows'[r].version > rows[r].version

LEMMA Rows ==
    ASSUME Typed, Grown, NEW r \in Record
    PROVE  /\ rows[r] \in Row /\ rows'[r] \in Row
           /\ rows[r].version \in Nat /\ rows'[r].version \in Nat
           /\ rows'[r].version >= rows[r].version
           /\ rows'[r].version = rows[r].version => rows'[r] = rows[r]
<1>1. rows[r] \in Row /\ rows'[r] \in Row
  BY DEF Typed, TypeOK, Grown, Snapshot
<1>2. rows[r].version \in Nat /\ rows'[r].version \in Nat
  BY <1>1, Bounds DEF Row
<1> QED BY <1>1, <1>2 DEF Grown

LEMMA Same == ASSUME Typed, UNCHANGED rows PROVE Grown
BY DEF Typed, TypeOK, Grown

LEMMA PastKept ==
    ASSUME Typed, Grown, NEW r \in Record, NEW row \in Row, Past(row, rows[r])
    PROVE  Past(row, rows'[r])
<1>1. row.version \in Nat
  BY Bounds DEF Row
<1> QED BY <1>1, Rows DEF Past

LEMMA CacheKept ==
    ASSUME IInv, Grown, UNCHANGED cache
    PROVE  CacheOK'
<1>1. UNCHANGED <<list, fetch, stale, mine, early>>
  BY DEF cache
<1>2. list # None => \A r \in Record : list[r] \in Row
  BY DEF IInv, Typed, TypeOK, Snapshot
<1>3. fetch \notin {None, Asked} => \A r \in Record : fetch[r] \in Row
  BY DEF IInv, Typed, TypeOK, Snapshot
<1>4. \A r \in Record : mine[r] \in Nat
  BY Bounds DEF IInv, Typed, TypeOK
<1>5. list # None => \A r \in Record : Past(list[r], rows'[r])
  BY <1>2, PastKept DEF IInv, CacheOK
<1>6. fetch \notin {None, Asked} => \A r \in Record : Past(fetch[r], rows'[r])
  BY <1>3, PastKept DEF IInv, CacheOK
<1>7. \A r \in Record : mine[r] =< rows'[r].version
  BY <1>4, Rows DEF IInv, CacheOK
<1> QED BY <1>1, <1>5, <1>6, <1>7 DEF IInv, CacheOK

LEMMA DraftKept ==
    ASSUME Typed, Grown, NEW d, d.rec \in Record, d.seen \in Nat, Draft(d)
    PROVE  /\ d.seen =< rows'[d.rec].version
           /\ d.seen = rows'[d.rec].version =>
                 /\ "text" \notin d.touched => d.form.text = rows'[d.rec].text
                 /\ "tags" \notin d.touched => d.form.tags = rows'[d.rec].tags
BY Rows DEF Draft

LEMMA ModalKept ==
    ASSUME IInv, Grown, UNCHANGED modal
    PROVE  ModalOK'
<1> SUFFICES ASSUME modal # None, modal.rec # New PROVE Draft(modal)'
  BY DEF ModalOK
<1>1. modal \in Modal
  BY DEF IInv, Typed, TypeOK
<1>2. modal.rec \in Record /\ modal.seen \in Nat
  BY <1>1, Bounds DEF Modal
<1> QED BY <1>2, DraftKept DEF IInv, Typed, ModalOK, Draft

\* A request in flight is as it was, or no modal waits for it any more.
LEMMA CallKept ==
    ASSUME IInv, Grown, NEW i \in Slots, call[i] # None,
           call'[i] = call[i] \/ call'[i] = [call[i] EXCEPT !.own = FALSE],
           call'[i].own => modal' \in Modal
    PROVE  CallOK(call[i])'
<1>1. call[i] \in Call /\ CallOK(call[i])
  BY DEF IInv, Typed, TypeOK, CallsOK
<1>2. /\ call'[i].kind = call[i].kind /\ call'[i].state = call[i].state
      /\ call'[i].rec = call[i].rec /\ call'[i].seen = call[i].seen
      /\ call'[i].form = call[i].form /\ call'[i].touched = call[i].touched
      /\ call'[i].version = call[i].version
  BY <1>1 DEF Call
<1>3. call[i].rec \in Record \cup {New} /\ call[i].seen \in Nat /\ call[i].version \in Nat
  BY <1>1, Bounds DEF Call
<1>4. call[i].kind = "save" /\ call[i].state = "sent" /\ call[i].rec # New => Draft(call[i])'
  BY <1>1, <1>2, <1>3, DraftKept DEF CallOK, Draft, IInv
<1>5. call[i].state = "done" =>
         call[i].rec \in Record /\ call[i].version =< rows'[call[i].rec].version
  BY <1>1, <1>3, Rows DEF CallOK, IInv
<1> QED BY <1>1, <1>2, <1>4, <1>5 DEF CallOK, Draft

LEMMA CallsKept ==
    ASSUME IInv, Grown, UNCHANGED call, modal \in Modal => modal' \in Modal
    PROVE  CallsOK'
<1> SUFFICES ASSUME NEW i \in Slots, call[i] # None PROVE CallOK(call[i])'
  BY DEF CallsOK
<1>1. call[i].own => modal' \in Modal
  BY DEF IInv, CallsOK, CallOK
<1> QED BY <1>1, CallKept

LEMMA OrphansOK ==
    ASSUME IInv, Grown, call' = Orphans
    PROVE  CallsOK' /\ call' \in [Slots -> Call \cup {None}]
<1>1. call' \in [Slots -> Call \cup {None}]
  BY OrphansTyped DEF IInv
<1>2. ASSUME NEW i \in Slots, call'[i] # None PROVE CallOK(call[i])'
  <2>1. call[i] # None /\ call'[i] = [call[i] EXCEPT !.own = FALSE]
    BY <1>2, OrphansTyped DEF IInv
  <2>2. call[i] \in Call
    BY <2>1 DEF IInv, Typed, TypeOK
  <2>3. ~call'[i].own
    BY <2>1, <2>2 DEF Call
  <2> QED BY <2>1, <2>3, CallKept
<1> QED BY <1>1, <1>2 DEF CallsOK

\* The rows a bulk operation was made from, and its writes, are past ones.
LEMMA LotKept ==
    ASSUME IInv, Grown, NEW o \in Bulk, Lot(o)
    PROVE  Lot(o)'
<1> SUFFICES ASSUME NEW r \in Record
             PROVE  Past(o.base[r], rows'[r]) /\ o.version[r] =< rows'[r].version
  BY DEF Lot
<1>1. o.base[r] \in Row /\ o.version[r] \in Nat
  BY Bounds DEF Bulk
<1>2. Past(o.base[r], rows[r]) /\ o.version[r] =< rows[r].version
  BY DEF Lot
<1> QED BY <1>1, <1>2, PastKept, Rows DEF IInv

LEMMA BulkTyped ==
    ASSUME IInv, NEW b \in BulkSlots, bulk[b] # None
    PROVE  bulk[b] \in Bulk /\ Lot(bulk[b])
BY DEF IInv, Typed, TypeOK, BulkOK

LEMMA BulkKept ==
    ASSUME IInv, Grown, UNCHANGED bulk
    PROVE  BulkOK'
<1> SUFFICES ASSUME NEW b \in BulkSlots, bulk[b] # None PROVE Lot(bulk[b])'
  BY DEF BulkOK
<1>1. PICK o \in Bulk : bulk[b] = o /\ Lot(o)
  BY BulkTyped
<1>2. Lot(o)'
  BY <1>1, LotKept
<1> QED BY <1>1, <1>2 DEF Lot

\* One bulk operation changes; the others are as they were.
LEMMA BulkStep ==
    ASSUME IInv, Grown, NEW b \in BulkSlots, NEW o \in Bulk \cup {None},
           bulk' = [bulk EXCEPT ![b] = o], o # None => Lot(o)'
    PROVE  BulkOK' /\ bulk' \in [BulkSlots -> Bulk \cup {None}]
<1>1. bulk \in [BulkSlots -> Bulk \cup {None}]
  BY DEF IInv, Typed
<1>2. ASSUME NEW c \in BulkSlots, bulk'[c] # None PROVE Lot(bulk[c])'
  <2>1. CASE c = b
    BY <1>1, <1>2, <2>1 DEF Lot
  <2>2. CASE c # b
    <3>1. bulk'[c] = bulk[c]
      BY <1>1, <2>2
    <3>2. PICK u \in Bulk : bulk[c] = u /\ Lot(u)
      BY <1>2, <3>1, BulkTyped
    <3>3. Lot(u)'
      BY <3>2, LotKept
    <3> QED BY <3>1, <3>2, <3>3 DEF Lot
  <2> QED BY <2>1, <2>2
<1> QED BY <1>1, <1>2 DEF BulkOK

-----------------------------------------------------------------------------
(***************************************************************************)
(* The list.                                                               *)
(***************************************************************************)
\* A step that changes the cached list and the request for it.
LEMMA ListStep ==
    ASSUME IInv, UNCHANGED <<rows, modal, call, bulk, edits, uses>>, faults' \in 0 .. MaxFaults,
           list' = None \/ list' \in Snapshot, fetch' \in {None, Asked} \/ fetch' \in Snapshot,
           stale' \in BOOLEAN, early' \in BOOLEAN, mine' \in [Record -> 0 .. MaxVersion], CacheOK'
    PROVE  IInv'
<1>1. Grown
  BY Same DEF IInv
<1>2. ModalOK' /\ CallsOK' /\ BulkOK'
  BY <1>1, ModalKept, CallsKept, BulkKept
<1>3. Typed'
  BY DEF IInv, Typed, TypeOK
<1> QED BY <1>2, <1>3 DEF IInv

LEMMA RefetchSound == ASSUME IInv, Refetch PROVE IInv'
<1>1. CacheOK'
  BY DEF Refetch, server, IInv, CacheOK
<1> QED BY <1>1, ListStep DEF Refetch, server, desk, IInv, Typed, TypeOK

LEMMA ServeListSound == ASSUME IInv, ServeList PROVE IInv'
<1>1. CacheOK'
  <2>1. \A r \in Record : Past(rows[r], rows[r])
    BY Same, Rows DEF Past, IInv, Typed, TypeOK, Snapshot, Row
  <2> QED BY <2>1 DEF ServeList, server, IInv, CacheOK
<1> QED BY <1>1, ListStep DEF ServeList, server, desk, IInv, Typed, TypeOK

LEMMA ListArrivesSound == ASSUME IInv, ListArrives PROVE IInv'
<1>1. CacheOK'
  BY DEF ListArrives, server, IInv, CacheOK
<1> QED BY <1>1, ListStep DEF ListArrives, server, desk, IInv, Typed, TypeOK

LEMMA ListFailsSound == ASSUME IInv, ListFails PROVE IInv'
<1>1. CacheOK'
  BY DEF ListFails, IInv, CacheOK
<1>2. faults' \in 0 .. MaxFaults
  BY Bounds DEF ListFails, IInv, Typed, TypeOK
<1> QED BY <1>1, <1>2, ListStep DEF ListFails, desk, IInv, Typed, TypeOK

-----------------------------------------------------------------------------
(***************************************************************************)
(* Pages and the modal.                                                    *)
(***************************************************************************)
\* A step of the modal and of its requests, and what the server refuses of them.
LEMMA DeskStep ==
    ASSUME IInv, UNCHANGED <<rows, bulk>>, UNCHANGED cache,
           modal' = None \/ modal' \in Modal, ModalOK',
           call' \in [Slots -> Call \cup {None}], CallsOK',
           edits' \in Stamp, uses' \in 0 .. MaxUses, faults' \in 0 .. MaxFaults
    PROVE  IInv'
<1>1. Grown
  BY Same DEF IInv
<1>2. CacheOK' /\ BulkOK'
  BY <1>1, CacheKept, BulkKept
<1>3. Typed'
  BY DEF IInv, Typed, TypeOK, cache
<1> QED BY <1>2, <1>3 DEF IInv

\* A modal mounted with a row that is or was the record's has it as its draft.
LEMMA MountSound ==
    ASSUME IInv, UNCHANGED rows, NEW r \in Record, NEW row \in Row, Past(row, rows[r]),
           NEW mode \in {"view", "edit", "history"}, modal' = Mount(r, row, mode)
    PROVE  modal' \in Modal /\ ModalOK'
<1>1. modal' \in Modal /\ Draft(modal)'
  BY MountTyped DEF Draft, Past
<1> QED BY <1>1 DEF ModalOK

LEMMA ShownPast ==
    ASSUME IInv, NEW r \in Shown
    PROVE  r \in Record /\ list[r] \in Row /\ Past(list[r], rows[r])
BY DEF Shown, IInv, Typed, TypeOK, Snapshot, CacheOK

LEMMA UseTyped == ASSUME IInv, Use PROVE uses' \in 0 .. MaxUses
BY Bounds DEF IInv, Typed, TypeOK, Use

LEMMA OpenRowSound == ASSUME IInv, NEW r \in Record, OpenRow(r) PROVE IInv'
<1>1. modal' \in Modal /\ ModalOK'
  BY ShownPast, MountSound DEF OpenRow, server
<1>2. CallsOK'
  BY <1>1, Same, CallsKept DEF OpenRow, server, IInv
<1> QED BY <1>1, <1>2, DeskStep, UseTyped DEF OpenRow, server, IInv, Typed, TypeOK

LEMMA OpenByIdSound == ASSUME IInv, NEW r \in Record, OpenById(r) PROVE IInv'
<1>1. rows[r] \in Row /\ Past(rows[r], rows[r])
  BY Same, Rows DEF IInv, Typed, TypeOK, Snapshot, Past, Row
<1>2. modal' \in Modal /\ ModalOK'
  BY <1>1, MountSound DEF OpenById, server
<1>3. CallsOK' /\ call' \in [Slots -> Call \cup {None}]
  BY Same, OrphansOK DEF OpenById, server, IInv
<1> QED BY <1>2, <1>3, DeskStep, UseTyped DEF OpenById, server, IInv, Typed, TypeOK

LEMMA AddSound == ASSUME IInv, Add PROVE IInv'
<1>1. modal' \in Modal /\ modal'.rec = New
  BY BlankTyped, MountTyped DEF Add
<1>2. ModalOK' /\ CallsOK'
  BY <1>1, Same, CallsKept DEF Add, server, IInv, ModalOK
<1> QED BY <1>1, <1>2, DeskStep, UseTyped DEF Add, server, IInv, Typed, TypeOK

LEMMA NavigateSound == ASSUME IInv, NEW r \in Record, Navigate(r) PROVE IInv'
<1>1. modal' \in Modal /\ ModalOK'
  BY ShownPast, MountSound DEF Navigate, server
<1>2. CallsOK' /\ call' \in [Slots -> Call \cup {None}]
  BY Same, OrphansOK DEF Navigate, server, IInv
<1> QED BY <1>1, <1>2, DeskStep DEF Navigate, server, IInv, Typed, TypeOK

LEMMA CloseSound == ASSUME IInv, Close PROVE IInv'
<1>1. CallsOK' /\ call' \in [Slots -> Call \cup {None}]
  BY Same, OrphansOK DEF Close, server, IInv
<1>2. ModalOK'
  BY DEF Close, ModalOK
<1> QED BY <1>1, <1>2, DeskStep DEF Close, server, IInv, Typed, TypeOK

\* A change of the modal that keeps its draft.
LEMMA ModalStep ==
    ASSUME IInv, UNCHANGED rows, modal # None, modal' \in Modal,
           modal'.rec = modal.rec, modal'.seen = modal.seen,
           modal.touched \subseteq modal'.touched,
           "text" \in modal'.touched \/ modal'.form.text = modal.form.text,
           "tags" \in modal'.touched \/ modal'.form.tags = modal.form.tags
    PROVE  ModalOK'
<1> SUFFICES ASSUME modal'.rec # New PROVE Draft(modal)'
  BY DEF ModalOK
<1> QED BY DEF IInv, ModalOK, Draft

\* A step of the modal with no request of its own.
LEMMA DialogStep ==
    ASSUME IInv, UNCHANGED <<rows, bulk, call, uses, faults>>, UNCHANGED cache, edits' \in Stamp,
           modal # None, modal' \in Modal,
           modal'.rec = modal.rec, modal'.seen = modal.seen,
           modal.touched \subseteq modal'.touched,
           "text" \in modal'.touched \/ modal'.form.text = modal.form.text,
           "tags" \in modal'.touched \/ modal'.form.tags = modal.form.tags
    PROVE  IInv'
<1>1. ModalOK'
  BY ModalStep
<1>2. CallsOK'
  BY Same, CallsKept DEF IInv
<1> QED BY <1>1, <1>2, DeskStep DEF IInv, Typed, TypeOK

LEMMA ModalTyped == ASSUME IInv, modal # None PROVE modal \in Modal
BY DEF IInv, Typed, TypeOK

LEMMA SetModeSound == ASSUME IInv, NEW m \in {"edit", "history"}, SetMode(m) PROVE IInv'
<1>1. modal \in Modal /\ modal # None
  BY ModalTyped DEF SetMode
<1>2. /\ modal' \in Modal /\ modal'.rec = modal.rec /\ modal'.seen = modal.seen
      /\ modal'.touched = modal.touched /\ modal'.form = modal.form
  BY <1>1 DEF SetMode, Modal
<1> QED BY <1>1, <1>2, DialogStep DEF SetMode, server, IInv, Typed, TypeOK

LEMMA EditSound == ASSUME IInv, NEW f \in Fields, Edit(f) PROVE IInv'
<1>1. modal \in Modal /\ modal # None
  BY ModalTyped DEF Edit
<1>2. edits + 1 \in Stamp /\ edits' = edits + 1
  BY Bounds DEF Edit, IInv, Typed, TypeOK, Stamp
<1>3. CASE f = "text"
  <2> DEFINE form == [modal.form EXCEPT !.text = edits + 1]
  <2>1. modal' = [modal EXCEPT !.form = form, !.touched = modal.touched \cup {f}]
    BY <1>1, <1>3 DEF Edit, Modal
  <2>2. modal.form \in Form /\ form \in Form /\ form.tags = modal.form.tags
    BY <1>1, <1>2 DEF Modal, Form
  <2> HIDE DEF form
  <2>3. /\ modal' \in Modal /\ modal'.rec = modal.rec /\ modal'.seen = modal.seen
        /\ modal'.touched = modal.touched \cup {f} /\ modal'.form = form
    BY <1>1, <2>1, <2>2 DEF Modal
  <2> QED BY <1>1, <1>2, <1>3, <2>2, <2>3, DialogStep DEF Edit, server
<1>4. CASE f = "tags"
  <2> DEFINE form == [modal.form EXCEPT !.tags = modal.form.tags \cup {edits + 1}]
  <2>1. modal' = [modal EXCEPT !.form = form, !.touched = modal.touched \cup {f}]
    BY <1>1, <1>4 DEF Edit, Modal
  <2>2. modal.form \in Form /\ form \in Form /\ form.text = modal.form.text
    BY <1>1, <1>2 DEF Modal, Form
  <2> HIDE DEF form
  <2>3. /\ modal' \in Modal /\ modal'.rec = modal.rec /\ modal'.seen = modal.seen
        /\ modal'.touched = modal.touched \cup {f} /\ modal'.form = form
    BY <1>1, <2>1, <2>2 DEF Modal
  <2> QED BY <1>1, <1>2, <1>4, <2>2, <2>3, DialogStep DEF Edit, server
<1> QED BY <1>3, <1>4 DEF Fields

LEMMA UntagSound == ASSUME IInv, NEW t \in Stamp, Untag(t) PROVE IInv'
<1>1. modal \in Modal /\ modal # None
  BY ModalTyped DEF Untag
<1> DEFINE form == [modal.form EXCEPT !.tags = modal.form.tags \ {t}]
<1>2. modal' = [modal EXCEPT !.form = form, !.touched = modal.touched \cup {"tags"}]
  BY <1>1 DEF Untag, Modal
<1>3. modal.form \in Form /\ form \in Form /\ form.text = modal.form.text
  BY <1>1 DEF Modal, Form
<1> HIDE DEF form
<1>4. /\ modal' \in Modal /\ modal'.rec = modal.rec /\ modal'.seen = modal.seen
      /\ modal'.touched = modal.touched \cup {"tags"} /\ modal'.form = form
  BY <1>1, <1>2, <1>3 DEF Modal, Fields
<1> QED BY <1>1, <1>3, <1>4, DialogStep DEF Untag, server, IInv, Typed, TypeOK

LEMMA AskDeleteSound == ASSUME IInv, AskDelete \/ CancelDelete \/ HistoryUndo PROVE IInv'
<1>1. modal \in Modal /\ modal # None
  BY ModalTyped DEF AskDelete, CancelDelete, HistoryUndo
<1>2. /\ modal' \in Modal /\ modal'.rec = modal.rec /\ modal'.seen = modal.seen
      /\ modal'.touched = modal.touched /\ modal'.form = modal.form
  BY <1>1 DEF AskDelete, CancelDelete, HistoryUndo, Modal
<1> QED BY <1>1, <1>2, DialogStep DEF AskDelete, CancelDelete, HistoryUndo, server,
           IInv, Typed, TypeOK

\* A request is made of the modal's draft.
LEMMA SendSound ==
    ASSUME IInv, UNCHANGED rows, modal # None, modal' \in Modal,
           NEW kind \in {"save", "delete"}, kind = "delete" => modal.rec # New, Send(kind)
    PROVE  CallsOK' /\ call' \in [Slots -> Call \cup {None}]
<1>1. PICK i \in Slots :
         call' = [call EXCEPT ![i] =
            [kind |-> kind, rec |-> modal.rec, seen |-> modal.seen, form |-> modal.form,
             touched |-> modal.touched, own |-> TRUE, state |-> "sent", version |-> 0]]
  BY DEF Send
<1> DEFINE c == [kind |-> kind, rec |-> modal.rec, seen |-> modal.seen, form |-> modal.form,
                 touched |-> modal.touched, own |-> TRUE, state |-> "sent", version |-> 0]
<1>2. c \in Call
  BY ModalTyped, Bounds DEF Modal, Call
<1>3. /\ c.kind = kind /\ c.state = "sent" /\ c.rec = modal.rec /\ c.seen = modal.seen
      /\ c.form = modal.form /\ c.touched = modal.touched
  OBVIOUS
<1>4. call' = [call EXCEPT ![i] = c] /\ call \in [Slots -> Call \cup {None}]
  BY <1>1 DEF IInv, Typed
<1> HIDE DEF c
<1>5. modal.rec # New => Draft(modal)
  BY DEF IInv, ModalOK
<1>6. CallOK(call[i])'
  BY <1>3, <1>4, <1>5 DEF CallOK, Draft
<1>7. ASSUME NEW j \in Slots, j # i, call[j] # None PROVE CallOK(call[j])'
  BY <1>4, <1>7, Same, CallKept DEF IInv
<1> QED BY <1>2, <1>4, <1>6, <1>7 DEF CallsOK

LEMMA SaveSound == ASSUME IInv, Save PROVE IInv'
<1>1. modal \in Modal /\ modal # None
  BY ModalTyped DEF Save
<1>2. /\ modal' \in Modal /\ modal'.rec = modal.rec /\ modal'.seen = modal.seen
      /\ modal'.touched = modal.touched /\ modal'.form = modal.form
  BY <1>1 DEF Save, Modal
<1>3. ModalOK'
  BY <1>1, <1>2, ModalStep DEF Save, server
<1>4. CallsOK' /\ call' \in [Slots -> Call \cup {None}]
  BY <1>1, <1>2, SendSound DEF Save, server
<1> QED BY <1>2, <1>3, <1>4, DeskStep DEF Save, server, IInv, Typed, TypeOK

LEMMA ConfirmDeleteSound == ASSUME IInv, ConfirmDelete PROVE IInv'
<1>1. modal \in Modal /\ modal # None
  BY ModalTyped DEF ConfirmDelete
<1>2. /\ modal' \in Modal /\ modal'.rec = modal.rec /\ modal'.seen = modal.seen
      /\ modal'.touched = modal.touched /\ modal'.form = modal.form
  BY <1>1 DEF ConfirmDelete, Modal
<1>3. CASE modal.rec = New
  BY <1>1, <1>2, <1>3, DialogStep DEF ConfirmDelete, server, IInv, Typed, TypeOK
<1>4. CASE modal.rec # New
  <2>1. ModalOK'
    BY <1>1, <1>2, ModalStep DEF ConfirmDelete, server
  <2>2. CallsOK' /\ call' \in [Slots -> Call \cup {None}]
    BY <1>1, <1>2, <1>4, SendSound DEF ConfirmDelete, server
  <2> QED BY <1>2, <2>1, <2>2, DeskStep DEF ConfirmDelete, server, IInv, Typed, TypeOK
<1> QED BY <1>3, <1>4

-----------------------------------------------------------------------------
(***************************************************************************)
(* Answers.                                                                *)
(***************************************************************************)
\* A request that fails is known to have failed; the others are as they were.
LEMMA FailedCall ==
    ASSUME IInv, NEW i \in Slots, UNCHANGED <<rows, modal>>, call[i] # None,
           call' = [call EXCEPT ![i].state = "failed"]
    PROVE  CallsOK' /\ call' \in [Slots -> Call \cup {None}]
<1>1. call[i] \in Call /\ call \in [Slots -> Call \cup {None}] /\ CallOK(call[i])
  BY DEF IInv, Typed, TypeOK, CallsOK
<1> DEFINE c == [call[i] EXCEPT !.state = "failed"]
<1>2. /\ c \in Call /\ c.state = "failed" /\ c.kind = call[i].kind /\ c.own = call[i].own
      /\ c.rec = call[i].rec
  BY <1>1 DEF Call
<1>3. call' = [call EXCEPT ![i] = c]
  BY <1>1
<1> HIDE DEF c
<1>4. CallOK(call[i])'
  BY <1>1, <1>2, <1>3 DEF CallOK
<1>5. ASSUME NEW j \in Slots, j # i, call[j] # None PROVE CallOK(call[j])'
  <2>1. CallOK(call[j])
    BY <1>5 DEF IInv, CallsOK
  <2>2. call'[j] = call[j]
    BY <1>1, <1>3, <1>5
  <2> QED BY <2>1, <2>2 DEF CallOK, Draft
<1> QED BY <1>1, <1>2, <1>3, <1>4, <1>5 DEF CallsOK

LEMMA RefuseSound == ASSUME IInv, NEW i \in Slots, Refuse(i) \/ LoseAnswer(i) PROVE IInv'
<1>1. CallsOK' /\ call' \in [Slots -> Call \cup {None}]
  BY FailedCall DEF Refuse, LoseAnswer
<1>2. ModalOK'
  BY Same, ModalKept DEF Refuse, LoseAnswer, IInv
<1>3. faults' \in 0 .. MaxFaults
  BY Bounds DEF Refuse, LoseAnswer, IInv, Typed, TypeOK
<1> QED BY <1>1, <1>2, <1>3, DeskStep DEF Refuse, LoseAnswer, IInv, Typed, TypeOK

LEMMA FailSound == ASSUME IInv, NEW i \in Slots, Fail(i) PROVE IInv'
<1> DEFINE c == call[i]
<1>1. /\ c \in Call /\ CallOK(c) /\ call' = [call EXCEPT ![i] = None]
      /\ call \in [Slots -> Call \cup {None}] /\ UNCHANGED <<server, bulk, edits, uses>>
      /\ UNCHANGED cache
  BY DEF Fail, IInv, Typed, TypeOK, CallsOK
<1>2. ModalOK' /\ (modal' = None \/ modal' \in Modal) /\ (modal \in Modal => modal' \in Modal)
  <2>1. CASE ~c.own
    <3>1. UNCHANGED modal
      BY <2>1 DEF Fail
    <3> QED BY <1>1, <3>1, Same, ModalKept DEF server, IInv, Typed, TypeOK
  <2>2. CASE c.own
    <3>1. modal \in Modal /\ modal # None
      BY <1>1, <2>2, ModalAssumption DEF CallOK
    <3>2. modal' = [modal EXCEPT !.error = TRUE,
                                 !.saving = @ /\ c.kind # "save",
                                 !.deleting = @ /\ c.kind # "delete"]
      BY <2>2 DEF Fail
    <3>3. /\ modal' \in Modal /\ modal'.rec = modal.rec /\ modal'.seen = modal.seen
          /\ modal'.touched = modal.touched /\ modal'.form = modal.form
      BY <3>1, <3>2 DEF Modal
    <3>4. modal' # None /\ modal'.rec # New => Draft(modal)'
      BY <1>1, <3>1, <3>3 DEF server, IInv, ModalOK, Draft
    <3> QED BY <3>3, <3>4 DEF ModalOK
  <2> QED BY <2>1, <2>2
<1>3. CallsOK' /\ call' \in [Slots -> Call \cup {None}]
  <2>1. ASSUME NEW j \in Slots, j # i, call[j] # None PROVE CallOK(call[j])'
    <3>1. CallOK(call[j])
      BY <2>1 DEF IInv, CallsOK
    <3> QED BY <1>1, <1>2, <2>1, <3>1 DEF CallOK, Draft, server
  <2> QED BY <1>1, <2>1 DEF CallsOK
<1> QED BY <1>1, <1>2, <1>3, DeskStep DEF server, IInv, Typed, TypeOK

\* handleMutate's invalidation: a list that is there is asked again.
LEMMA AnnounceSound ==
    ASSUME IInv, UNCHANGED <<rows, list>>, NEW news \in [Record -> 0 .. MaxVersion],
           \A r \in Record : news[r] =< rows[r].version, Announce(news)
    PROVE  /\ CacheOK'
           /\ fetch' \in {None, Asked} \/ fetch' \in Snapshot
           /\ stale' \in BOOLEAN /\ early' \in BOOLEAN
           /\ mine' \in [Record -> 0 .. MaxVersion]
<1>0. /\ mine \in [Record -> 0 .. MaxVersion] /\ CacheOK /\ early \in BOOLEAN
      /\ fetch \in {None, Asked} \/ fetch \in Snapshot
  BY DEF IInv, Typed, TypeOK
<1>1. /\ mine' = [r \in Record |-> IF news[r] > mine[r] THEN news[r] ELSE mine[r]]
      /\ stale' = TRUE /\ fetch' = Ask(fetch)
      /\ early' = (early \/ (list = None /\ fetch \notin {None, Asked}))
  BY DEF Announce
<1>2. mine' \in [Record -> 0 .. MaxVersion]
  BY <1>0, <1>1
<1>3. \A r \in Record : mine'[r] =< rows[r].version
  BY <1>0, <1>1 DEF CacheOK
<1>4. CASE list = None /\ fetch \notin {None, Asked}
  <2>1. fetch' = fetch /\ early'
    BY <1>1, <1>4 DEF Ask
  <2> QED BY <1>0, <1>1, <1>2, <1>3, <1>4, <2>1 DEF CacheOK
<1>5. CASE ~(list = None /\ fetch \notin {None, Asked})
  <2>1. fetch' = Asked
    BY <1>1, <1>5 DEF Ask
  <2> QED BY <1>0, <1>1, <1>2, <1>3, <1>5, <2>1 DEF CacheOK
<1> QED BY <1>4, <1>5

LEMMA SucceedSound == ASSUME IInv, NEW i \in Slots, Succeed(i) PROVE IInv'
<1> DEFINE c == call[i]
           news == [r \in Record |-> IF r = c.rec THEN c.version ELSE 0]
<1>1. c \in Call /\ CallOK(c) /\ c.state = "done" /\ Grown
  BY Same DEF Succeed, IInv, Typed, TypeOK, CallsOK, server
<1>2. news \in [Record -> 0 .. MaxVersion] /\ \A r \in Record : news[r] =< rows[r].version
  <2>1. c.version \in 0 .. MaxVersion /\ c.version =< rows[c.rec].version
    BY <1>1 DEF Call, CallOK
  <2>2. \A r \in Record : rows[r].version \in Nat
    BY <1>1, Rows DEF IInv
  <2> QED BY <2>1, <2>2, Bounds
<1>3. Announce(news) /\ UNCHANGED <<rows, faults, bulk, list, edits, uses>> /\ modal' = None
  BY DEF Succeed, server
<1> HIDE DEF news
<1>4. /\ CacheOK' /\ stale' \in BOOLEAN /\ early' \in BOOLEAN /\ mine' \in [Record -> 0 .. MaxVersion]
      /\ fetch' \in {None, Asked} \/ fetch' \in Snapshot
  BY <1>2, <1>3, AnnounceSound
<1>5. call' \in [Slots -> Call \cup {None}] /\ CallsOK'
  <2>1. call' = [Orphans EXCEPT ![i] = None] /\ Orphans \in [Slots -> Call \cup {None}]
    BY OrphansTyped DEF Succeed, IInv
  <2>2. ASSUME NEW j \in Slots, call'[j] # None PROVE CallOK(call[j])'
    <3>1. j # i /\ call'[j] = Orphans[j]
      BY <2>1, <2>2
    <3>2. call[j] # None /\ call'[j] = [call[j] EXCEPT !.own = FALSE]
      BY <2>2, <3>1, OrphansTyped DEF IInv
    <3>3. call[j] \in Call
      BY <3>2 DEF IInv, Typed, TypeOK
    <3>4. ~call'[j].own
      BY <3>2, <3>3 DEF Call
    <3> QED BY <1>1, <3>2, <3>4, CallKept
  <2> QED BY <2>1, <2>2 DEF CallsOK
<1>6. ModalOK' /\ BulkOK'
  BY <1>1, <1>3, BulkKept DEF ModalOK
<1>7. Typed'
  BY <1>3, <1>4, <1>5 DEF IInv, Typed, TypeOK
<1> QED BY <1>4, <1>5, <1>6, <1>7 DEF IInv

LEMMA EndBulkSound == ASSUME IInv, NEW b \in BulkSlots, EndBulk(b) PROVE IInv'
<1>1. /\ Grown /\ bulk[b] \in Bulk /\ Lot(bulk[b]) /\ bulk' = [bulk EXCEPT ![b] = None]
      /\ UNCHANGED <<rows, faults, modal, call, uses, list, edits>>
  BY Same, BulkTyped DEF EndBulk, server, desk, IInv
<1>2. ModalOK' /\ CallsOK' /\ BulkOK' /\ bulk' \in [BulkSlots -> Bulk \cup {None}]
  BY <1>1, ModalKept, CallsKept, BulkStep
<1>3. CASE UNCHANGED <<fetch, stale, mine, early>>
  <2>1. CacheOK'
    BY <1>1, <1>3, CacheKept DEF cache
  <2>2. Typed'
    BY <1>1, <1>2, <1>3 DEF IInv, Typed, TypeOK
  <2> QED BY <1>2, <2>1, <2>2 DEF IInv
<1>4. CASE Announce(bulk[b].version)
  <2>1. bulk[b].version \in [Record -> 0 .. MaxVersion]
    BY <1>1 DEF Bulk
  <2>2. \A r \in Record : bulk[b].version[r] =< rows[r].version
    BY <1>1 DEF Lot
  <2>3. /\ CacheOK' /\ stale' \in BOOLEAN /\ early' \in BOOLEAN
        /\ mine' \in [Record -> 0 .. MaxVersion]
        /\ fetch' \in {None, Asked} \/ fetch' \in Snapshot
    BY <1>1, <1>4, <2>1, <2>2, AnnounceSound
  <2>4. Typed'
    BY <1>1, <1>2, <2>3 DEF IInv, Typed, TypeOK
  <2> QED BY <1>2, <2>3, <2>4 DEF IInv
<1> QED BY <1>3, <1>4 DEF EndBulk

-----------------------------------------------------------------------------
(***************************************************************************)
(* The server's writes.                                                    *)
(***************************************************************************)
LEMMA WriteGrows ==
    ASSUME Typed, NEW r \in Record, NEW row \in Row, row.version = rows[r].version + 1,
           rows' = [rows EXCEPT ![r] = row]
    PROVE  Grown /\ rows'[r] = row
<1>1. rows \in [Record -> Row] /\ rows[r].version \in Nat
  BY Bounds DEF Typed, TypeOK, Snapshot, Row
<1> QED BY <1>1 DEF Grown, Snapshot

\* One request of a modal is served; the others are as they were.
LEMMA ServedCall ==
    ASSUME IInv, Grown, NEW i \in Slots, call[i] # None, UNCHANGED modal, NEW c \in Call,
           call' = [call EXCEPT ![i] = c],
           c.own = call[i].own, c.kind = call[i].kind, c.state \in {"done", "failed"},
           c.rec # New \/ (c.kind = "save" /\ c.state = "failed"),
           c.state = "done" => c.rec \in Record /\ c.version =< rows'[c.rec].version
    PROVE  CallsOK' /\ call' \in [Slots -> Call \cup {None}]
<1>1. call \in [Slots -> Call \cup {None}] /\ CallOK(call[i])
  BY DEF IInv, Typed, CallsOK
<1>2. CallOK(call[i])'
  BY <1>1 DEF CallOK
<1>3. ASSUME NEW j \in Slots, j # i, call[j] # None PROVE CallOK(call[j])'
  <2>1. call'[j] = call[j]
    BY <1>1, <1>3
  <2>2. call[j].own => modal' \in Modal
    BY <1>3 DEF IInv, CallsOK, CallOK
  <2> QED BY <1>3, <2>1, <2>2, CallKept
<1> QED BY <1>1, <1>2, <1>3 DEF CallsOK

\* A step of the server leaves the browser alone.
LEMMA ServerStep ==
    ASSUME IInv, Grown, UNCHANGED <<modal, uses>>, UNCHANGED cache, edits' \in Stamp,
           faults' \in 0 .. MaxFaults,
           call' \in [Slots -> Call \cup {None}], CallsOK',
           bulk' \in [BulkSlots -> Bulk \cup {None}], BulkOK'
    PROVE  IInv'
<1>1. CacheOK' /\ ModalOK'
  BY CacheKept, ModalKept
<1>2. Typed'
  BY DEF IInv, Typed, TypeOK, cache, Grown
<1> QED BY <1>1, <1>2 DEF IInv

\* What ServeSave does: the save fails, or writes one row and its request is done.
LEMMA ServeSaveStep ==
    ASSUME IInv, NEW i \in Slots, ServeSave(i)
    PROVE  \/ /\ call' = [call EXCEPT ![i].state = "failed"]
              /\ UNCHANGED rows
           \/ \E r \in Record :
                 LET row == [Apply(r, call[i].form) EXCEPT !.live = TRUE] IN
                 /\ CanWrite(r)
                 /\ call[i].rec # New => r = call[i].rec
                 /\ rows' = [rows EXCEPT ![r] = row]
                 /\ call' = [call EXCEPT ![i] =
                       [call[i] EXCEPT !.state = "done", !.rec = r,
                                       !.version = Apply(r, call[i].form).version]]
<1>1. call[i] \in Call
  BY DEF ServeSave, IInv, Typed, TypeOK
<1>2. call[i].rec # New => call[i].rec \in Record
  BY <1>1 DEF Call
<1>3. PICK r \in IF call[i].rec = New THEN {s \in Record : rows[s] = Blank} ELSE {call[i].rec} :
        /\ CanWrite(r)
        /\ IF call[i].rec # New /\ ~rows[r].live
           THEN call' = [call EXCEPT ![i].state = "failed"] /\ UNCHANGED rows
           ELSE LET row == Apply(r, call[i].form) IN
                  /\ rows' = [rows EXCEPT ![r] = [row EXCEPT !.live = TRUE]]
                  /\ call' = [call EXCEPT ![i].state = "done", ![i].rec = r,
                                          ![i].version = row.version]
  BY DEF ServeSave
<1>4. r \in Record /\ (call[i].rec # New => r = call[i].rec)
  BY <1>2, <1>3
<1>5. CASE call[i].rec # New /\ ~rows[r].live
  BY <1>3, <1>5
<1>6. CASE ~(call[i].rec # New /\ ~rows[r].live)
  BY <1>3, <1>4, <1>6
<1> QED BY <1>5, <1>6

LEMMA ServeSaveSound == ASSUME IInv, NEW i \in Slots, ServeSave(i) PROVE IInv'
<1>1. /\ call[i] # None /\ call[i] \in Call /\ CallOK(call[i])
      /\ call[i].kind = "save" /\ call[i].state = "sent"
      /\ UNCHANGED <<bulk, faults, modal, edits, uses>> /\ UNCHANGED cache
  BY DEF ServeSave, IInv, Typed, TypeOK, CallsOK
<1>2. CASE call' = [call EXCEPT ![i].state = "failed"] /\ UNCHANGED rows
  <2>1. Grown
    BY <1>2, Same DEF IInv
  <2>2. CallsOK' /\ call' \in [Slots -> Call \cup {None}]
    BY <1>1, <1>2, FailedCall
  <2>3. BulkOK'
    BY <1>1, <2>1, BulkKept
  <2> QED BY <1>1, <2>1, <2>2, <2>3, ServerStep DEF IInv, Typed, TypeOK
<1>3. ASSUME NEW r \in Record, CanWrite(r),
             rows' = [rows EXCEPT ![r] = [Apply(r, call[i].form) EXCEPT !.live = TRUE]],
             call' = [call EXCEPT ![i] =
                [call[i] EXCEPT !.state = "done", !.rec = r,
                                !.version = Apply(r, call[i].form).version]]
      PROVE  IInv'
  <2> DEFINE applied == Apply(r, call[i].form)
             row == [applied EXCEPT !.live = TRUE]
             c == [call[i] EXCEPT !.state = "done", !.rec = r, !.version = applied.version]
  <2>1. applied \in Row /\ applied.version = rows[r].version + 1
    BY <1>1, <1>3, ApplyTyped DEF IInv, Typed, TypeOK, Call
  <2> HIDE DEF applied
  <2>2. row \in Row /\ row.version = rows[r].version + 1
    BY <2>1 DEF Row
  <2>3. /\ c \in Call /\ c.own = call[i].own /\ c.kind = "save" /\ c.state = "done"
        /\ c.rec = r /\ c.version = rows[r].version + 1
    BY <1>1, <2>1 DEF Call, Row
  <2>4. call' = [call EXCEPT ![i] = c] /\ rows' = [rows EXCEPT ![r] = row]
    BY <1>3 DEF applied
  <2> HIDE DEF c, row
  <2>5. Grown /\ rows'[r] = row
    BY <2>2, <2>4, WriteGrows DEF IInv
  <2>6. c.version =< rows'[c.rec].version
    BY <2>1, <2>2, <2>3, <2>5 DEF Row
  <2>7. c.rec # New
    BY <2>3, Bounds
  <2>8. CallsOK' /\ call' \in [Slots -> Call \cup {None}]
    BY <1>1, <2>3, <2>4, <2>5, <2>6, <2>7, ServedCall
  <2>9. BulkOK'
    BY <1>1, <2>5, BulkKept
  <2> QED BY <1>1, <2>5, <2>8, <2>9, ServerStep DEF IInv, Typed, TypeOK
<1> QED BY <1>2, <1>3, ServeSaveStep

LEMMA ServeDeleteSound == ASSUME IInv, NEW i \in Slots, ServeDelete(i) PROVE IInv'
<1>1. /\ call[i] # None /\ call[i] \in Call /\ CallOK(call[i])
      /\ call[i].kind = "delete" /\ CanWrite(call[i].rec)
      /\ UNCHANGED <<bulk, faults, modal, edits, uses>> /\ UNCHANGED cache
  BY DEF ServeDelete, IInv, Typed, TypeOK, CallsOK
<1> DEFINE r == call[i].rec
<1>2. r \in Record /\ r # New
  BY <1>1 DEF CallOK, Call
<1>3. CASE ~rows[r].live
  <2>1. call' = [call EXCEPT ![i].state = "failed"] /\ UNCHANGED rows
    BY <1>3 DEF ServeDelete
  <2>2. Grown
    BY <2>1, Same DEF IInv
  <2>3. CallsOK' /\ call' \in [Slots -> Call \cup {None}]
    BY <1>1, <2>1, FailedCall
  <2>4. BulkOK'
    BY <1>1, <2>2, BulkKept
  <2> QED BY <1>1, <2>2, <2>3, <2>4, ServerStep DEF IInv, Typed, TypeOK
<1>4. CASE rows[r].live
  <2> DEFINE gone == [rows[r] EXCEPT !.live = FALSE]
             row == Write(r, gone)
             c == [call[i] EXCEPT !.state = "done", !.version = row.version]
  <2>1. gone \in Row
    BY <1>2 DEF IInv, Typed, TypeOK, Snapshot, Row
  <2> HIDE DEF gone
  <2>2. row \in Row /\ row.version = rows[r].version + 1
    BY <1>1, <1>2, <2>1, WriteTyped DEF IInv, Typed, TypeOK
  <2>3. rows' = [rows EXCEPT ![r] = row] /\ call' = [call EXCEPT ![i] = c]
    BY <1>4 DEF ServeDelete, gone
  <2> HIDE DEF row
  <2>4. /\ c \in Call /\ c.own = call[i].own /\ c.kind = "delete" /\ c.state = "done"
        /\ c.rec = r /\ c.version = row.version
    BY <1>1, <2>2 DEF Call, Row
  <2> HIDE DEF c
  <2>5. Grown /\ rows'[r] = row
    BY <1>2, <2>2, <2>3, WriteGrows DEF IInv
  <2>6. c.version =< rows'[c.rec].version
    BY <2>2, <2>4, <2>5 DEF Row
  <2>7. CallsOK' /\ call' \in [Slots -> Call \cup {None}]
    BY <1>1, <1>2, <2>3, <2>4, <2>5, <2>6, ServedCall
  <2>8. BulkOK'
    BY <1>1, <2>5, BulkKept
  <2> QED BY <1>1, <2>5, <2>7, <2>8, ServerStep DEF IInv, Typed, TypeOK
<1> QED BY <1>3, <1>4

LEMMA OtherWritesSound == ASSUME IInv, NEW r \in Record, OtherWrites(r) PROVE IInv'
<1>1. /\ CanWrite(r) /\ rows \in Snapshot /\ rows[r] \in Row /\ edits \in Stamp
      /\ UNCHANGED <<bulk, faults, modal, call, uses>> /\ UNCHANGED cache
  BY DEF OtherWrites, desk, IInv, Typed, TypeOK, Snapshot
<1>2. edits' \in Stamp
  BY <1>1, Bounds DEF OtherWrites, Stamp
<1>3. \E row \in Row : rows' = [rows EXCEPT ![r] = Write(r, row)]
  <2>1. CASE edits < MaxEdits /\ \E row \in {[rows[r] EXCEPT !.text = edits + 1],
                                             [rows[r] EXCEPT !.tags = @ \cup {edits + 1}]} :
                rows' = [rows EXCEPT ![r] = Write(r, row)]
    <3>1. edits + 1 \in Stamp
      BY <1>1, <2>1, Bounds DEF Stamp
    <3>2. /\ [rows[r] EXCEPT !.text = edits + 1] \in Row
          /\ [rows[r] EXCEPT !.tags = @ \cup {edits + 1}] \in Row
      BY <1>1, <3>1 DEF Row
    <3> QED BY <2>1, <3>2
  <2>2. CASE rows' = [rows EXCEPT ![r] = Write(r, [@ EXCEPT !.live = FALSE])]
    <3>1. [rows[r] EXCEPT !.live = FALSE] \in Row
      BY <1>1 DEF Row
    <3>2. rows' = [rows EXCEPT ![r] = Write(r, [rows[r] EXCEPT !.live = FALSE])]
      BY <2>2
    <3> QED BY <3>1, <3>2
  <2> QED BY <2>1, <2>2 DEF OtherWrites
<1>4. PICK row \in Row : rows' = [rows EXCEPT ![r] = Write(r, row)]
  BY <1>3
<1>5. Grown
  BY <1>1, <1>4, WriteTyped, WriteGrows DEF IInv
<1>6. CallsOK' /\ BulkOK'
  BY <1>1, <1>5, CallsKept, BulkKept
<1> QED BY <1>1, <1>2, <1>5, <1>6, ServerStep DEF IInv, Typed, TypeOK

-----------------------------------------------------------------------------
(***************************************************************************)
(* The bulk edit bar.                                                      *)
(***************************************************************************)
\* A bulk operation sends what the list shows.
LEMMA StartBulkSound ==
    ASSUME IInv, NEW b \in BulkSlots, NEW kind \in {"text", "add", "drop", "delete"},
           NEW rs \in SUBSET Shown, NEW e \in Stamp, StartBulk(b, kind, rs, e)
    PROVE  IInv'
<1> DEFINE o == [kind |-> kind, edit |-> e, base |-> list,
                 state |-> [r \in Record |-> IF r \in rs THEN "sent" ELSE "none"],
                 version |-> [r \in Record |-> 0]]
<1>1. bulk' = [bulk EXCEPT ![b] = o] /\ UNCHANGED <<rows, faults, modal, call>> /\ UNCHANGED cache
  BY DEF StartBulk, server
<1>2. list # None /\ list \in [Record -> Row]
  BY DEF StartBulk, Shown, IInv, Typed, TypeOK, Snapshot
<1>3. o \in Bulk
  BY <1>2, Bounds DEF Bulk
<1>4. Grown
  BY <1>1, Same DEF IInv
<1>5. o.base = list /\ \A r \in Record : o.version[r] = 0
  OBVIOUS
<1> HIDE DEF o
<1>6. \A r \in Record : Past(list[r], rows[r]) /\ rows[r].version >= 0
  BY <1>2, <1>4, Rows DEF IInv, CacheOK
<1>7. PICK u \in Bulk : bulk' = [bulk EXCEPT ![b] = u] /\ u.base = list
                        /\ \A r \in Record : u.version[r] = 0
  BY <1>1, <1>3, <1>5
<1>8. Lot(u)'
  BY <1>1, <1>6, <1>7 DEF Lot
<1>9. BulkOK' /\ bulk' \in [BulkSlots -> Bulk \cup {None}]
  BY <1>4, <1>7, <1>8, BulkStep
<1>10. CacheOK' /\ ModalOK' /\ CallsOK'
  BY <1>1, <1>4, CacheKept, ModalKept, CallsKept
<1>11. edits' \in Stamp /\ uses' \in 0 .. MaxUses
  BY UseTyped DEF StartBulk, IInv, Typed, TypeOK
<1>12. Typed'
  BY <1>1, <1>9, <1>11 DEF IInv, Typed, TypeOK, cache
<1> QED BY <1>9, <1>10, <1>12 DEF IInv

LEMMA BulkFormTyped ==
    ASSUME IInv, NEW o \in Bulk, NEW r \in Record
    PROVE  BulkForm(o, r) \in Form
<1>1. o.base[r] \in Row /\ rows[r] \in Row
  BY DEF Bulk, IInv, Typed, TypeOK, Snapshot
<1>2. /\ o.edit \in Stamp /\ rows[r].text \in Stamp /\ rows[r].tags \in SUBSET Stamp
      /\ o.base[r].tags \in SUBSET Stamp
      /\ o.kind \in {"text", "add", "drop", "delete"}
  BY <1>1 DEF Bulk, Row
<1>3. CASE o.kind = "text"
  BY <1>2, <1>3 DEF BulkForm, Form
<1>4. CASE o.kind = "add"
  BY <1>2, <1>4 DEF BulkForm, Form
<1>5. CASE o.kind = "drop"
  BY <1>2, <1>5 DEF BulkForm, Form
<1>6. CASE o.kind = "delete"
  BY <1>2, <1>6 DEF BulkForm, ToForm, Form
<1> QED BY <1>2, <1>3, <1>4, <1>5, <1>6

\* A bulk operation after an answer, or a failure, of one of its requests.
Failed(o, r) == [o EXCEPT !.state[r] = "failed"]
Done(o, r, v) == [o EXCEPT !.state[r] = "done", !.version[r] = v]

LEMMA FailedTyped ==
    ASSUME NEW r \in Record, NEW o \in Bulk
    PROVE  /\ Failed(o, r) \in Bulk /\ Failed(o, r).base = o.base
           /\ Failed(o, r).version = o.version
           /\ Failed(o, r).state = [o.state EXCEPT ![r] = "failed"]
BY DEF Failed, Bulk

LEMMA DoneTyped ==
    ASSUME NEW r \in Record, NEW v \in 0 .. MaxVersion, NEW o \in Bulk
    PROVE  /\ Done(o, r, v) \in Bulk /\ Done(o, r, v).base = o.base
           /\ Done(o, r, v).version = [o.version EXCEPT ![r] = v]
           /\ Done(o, r, v).state = [o.state EXCEPT ![r] = "done"]
BY DEF Done, Bulk

\* What ServeBulk writes.
BulkRow(o, r) == IF o.kind = "delete" THEN Write(r, [rows[r] EXCEPT !.live = FALSE])
                 ELSE Apply(r, BulkForm(o, r))

LEMMA BulkRowTyped ==
    ASSUME IInv, NEW o \in Bulk, NEW r \in Record, CanWrite(r)
    PROVE  BulkRow(o, r) \in Row /\ BulkRow(o, r).version = rows[r].version + 1
<1>1. rows \in Snapshot /\ rows[r] \in Row
  BY DEF IInv, Typed, TypeOK, Snapshot
<1>2. CASE o.kind = "delete"
  <2>1. [rows[r] EXCEPT !.live = FALSE] \in Row
    BY <1>1 DEF Row
  <2> QED BY <1>1, <1>2, <2>1, WriteTyped DEF BulkRow
<1>3. CASE o.kind # "delete"
  BY <1>1, <1>3, BulkFormTyped, ApplyTyped DEF BulkRow
<1> QED BY <1>2, <1>3

\* What ServeBulk does: the request fails, or writes its row and is done.
LEMMA ServeBulkStep ==
    ASSUME IInv, NEW b \in BulkSlots, NEW r \in Record, ServeBulk(b, r)
    PROVE  /\ bulk[b] # None /\ bulk[b] \in Bulk /\ CanWrite(r)
           /\ \/ /\ bulk' = [bulk EXCEPT ![b] = Failed(bulk[b], r)]
                 /\ UNCHANGED rows
              \/ /\ rows[r].live /\ rows' = [rows EXCEPT ![r] = BulkRow(bulk[b], r)]
                 /\ bulk' = [bulk EXCEPT ![b] = Done(bulk[b], r, BulkRow(bulk[b], r).version)]
<1>1. bulk[b] # None /\ bulk[b] \in Bulk /\ CanWrite(r)
  BY BulkTyped DEF ServeBulk
<1>2. CASE ~rows[r].live
  BY <1>1, <1>2 DEF ServeBulk, Failed
<1>3. CASE rows[r].live
  BY <1>1, <1>3 DEF ServeBulk, Done, BulkRow
<1> QED BY <1>1, <1>2, <1>3

LEMMA BulkFailedSound ==
    ASSUME IInv, NEW b \in BulkSlots, NEW r \in Record, bulk[b] # None,
           bulk' = [bulk EXCEPT ![b] = Failed(bulk[b], r)],
           UNCHANGED <<rows, modal, call, uses, edits>>, UNCHANGED cache,
           faults' \in 0 .. MaxFaults
    PROVE  IInv'
<1>1. Grown /\ bulk[b] \in Bulk /\ Lot(bulk[b])
  BY Same, BulkTyped DEF IInv
<1>2. PICK u \in Bulk : /\ bulk' = [bulk EXCEPT ![b] = u]
                        /\ u.base = bulk[b].base /\ u.version = bulk[b].version
  <2>1. /\ Failed(bulk[b], r) \in Bulk /\ Failed(bulk[b], r).base = bulk[b].base
        /\ Failed(bulk[b], r).version = bulk[b].version
    BY <1>1, FailedTyped
  <2> QED BY <2>1
<1>3. Lot(u)'
  BY <1>1, <1>2 DEF Lot
<1>4. BulkOK' /\ bulk' \in [BulkSlots -> Bulk \cup {None}]
  BY <1>1, <1>2, <1>3, BulkStep
<1>5. CallsOK'
  BY <1>1, CallsKept
<1> QED BY <1>1, <1>4, <1>5, ServerStep DEF IInv, Typed, TypeOK

LEMMA RefuseBulkSound ==
    ASSUME IInv, NEW b \in BulkSlots, NEW r \in Record, RefuseBulk(b, r) PROVE IInv'
<1>1. faults' \in 0 .. MaxFaults
  BY Bounds DEF RefuseBulk, IInv, Typed, TypeOK
<1> QED BY <1>1, BulkFailedSound DEF RefuseBulk, desk, Failed

LEMMA ServeBulkSound ==
    ASSUME IInv, NEW b \in BulkSlots, NEW r \in Record, ServeBulk(b, r) PROVE IInv'
<1>1. /\ bulk[b] # None /\ CanWrite(r) /\ bulk[b] \in Bulk /\ Lot(bulk[b])
      /\ UNCHANGED <<modal, call, uses, faults, edits>> /\ UNCHANGED cache
  BY BulkTyped, ServeBulkStep DEF ServeBulk, desk
<1>2. CASE bulk' = [bulk EXCEPT ![b] = Failed(bulk[b], r)] /\ UNCHANGED rows
  BY <1>1, <1>2, BulkFailedSound DEF IInv, Typed, TypeOK
<1>3. ASSUME NEW row \in Row, row.version = rows[r].version + 1,
             rows' = [rows EXCEPT ![r] = row],
             bulk' = [bulk EXCEPT ![b] = Done(bulk[b], r, row.version)]
      PROVE  IInv'
  <2>1. Grown /\ rows'[r] = row
    BY <1>3, WriteGrows DEF IInv
  <2>2. row.version \in 0 .. MaxVersion
    BY DEF Row
  <2>3. PICK u \in Bulk : /\ bulk' = [bulk EXCEPT ![b] = u]
                          /\ u.base = bulk[b].base
                          /\ u.version = [bulk[b].version EXCEPT ![r] = row.version]
    <3>1. /\ Done(bulk[b], r, row.version) \in Bulk
          /\ Done(bulk[b], r, row.version).base = bulk[b].base
          /\ Done(bulk[b], r, row.version).version = [bulk[b].version EXCEPT ![r] = row.version]
      BY <1>1, <2>2 DEF Done, Bulk
    <3> QED BY <1>3, <3>1
  <2>4. Lot(u)'
    <3> SUFFICES ASSUME NEW x \in Record
                 PROVE  Past(u.base[x], rows'[x]) /\ u.version[x] =< rows'[x].version
      BY DEF Lot
    <3>1. PICK o \in Bulk : o = bulk[b] /\ Lot(o)
      BY <1>1
    <3>2. Past(o.base[x], rows'[x]) /\ o.version[x] =< rows'[x].version
      BY <2>1, <3>1, LotKept DEF Lot
    <3>3. o.version \in [Record -> 0 .. MaxVersion]
      BY DEF Bulk
    <3>4. CASE x = r
      BY <2>1, <2>2, <2>3, <3>1, <3>2, <3>3, <3>4
    <3>5. CASE x # r
      BY <2>3, <3>1, <3>2, <3>3, <3>5
    <3> QED BY <3>4, <3>5
  <2>5. BulkOK' /\ bulk' \in [BulkSlots -> Bulk \cup {None}]
    BY <2>1, <2>3, <2>4, BulkStep
  <2>6. CallsOK'
    BY <1>1, <2>1, CallsKept
  <2> QED BY <1>1, <2>1, <2>5, <2>6, ServerStep DEF IInv, Typed, TypeOK
<1>4. CASE /\ rows[r].live /\ rows' = [rows EXCEPT ![r] = BulkRow(bulk[b], r)]
           /\ bulk' = [bulk EXCEPT ![b] = Done(bulk[b], r, BulkRow(bulk[b], r).version)]
  BY <1>1, <1>3, <1>4, BulkRowTyped
<1> QED BY <1>2, <1>4, ServeBulkStep

-----------------------------------------------------------------------------
LEMMA InitSound == Init => IInv
<1> SUFFICES ASSUME Init PROVE IInv
  OBVIOUS
<1>1. rows \in Snapshot /\ \A r \in Record : rows[r].version = 0
  <2>1. [Blank EXCEPT !.live = TRUE, !.tags = {0}].version = 0
    BY DEF Blank
  <2> QED BY <2>1, BlankTyped DEF Init, Snapshot
<1>2. Typed
  <2>1. 0 \in Stamp /\ 0 \in 0 .. MaxFaults /\ 0 \in 0 .. MaxUses /\ 0 \in 0 .. MaxVersion
    BY Bounds DEF Stamp
  <2>2. /\ call \in [Slots -> Call \cup {None}] /\ mine \in [Record -> 0 .. MaxVersion]
        /\ bulk \in [BulkSlots -> Bulk \cup {None}]
    BY <2>1 DEF Init
  <2> QED BY <1>1, <2>1, <2>2 DEF Init, Typed, TypeOK
<1>3. CacheOK
  BY <1>1 DEF Init, CacheOK
<1> QED BY <1>2, <1>3 DEF Init, IInv, ModalOK, CallsOK, BulkOK

LEMMA StutterSound == ASSUME IInv, UNCHANGED vars PROVE IInv'
BY DeskStep, Same, ModalKept, CallsKept DEF vars, cache, IInv, Typed, TypeOK

LEMMA StepSound == IInv /\ [Next]_vars => IInv'
<1> SUFFICES ASSUME IInv, [Next]_vars PROVE IInv'
  OBVIOUS
<1>1. CASE Refetch \/ ServeList \/ ListArrives \/ ListFails
  BY <1>1, RefetchSound, ServeListSound, ListArrivesSound, ListFailsSound
<1>2. ASSUME NEW r \in Record,
             \/ OpenRow(r) \/ OpenById(r) \/ Navigate(r) \/ OtherWrites(r)
             \/ \E b \in BulkSlots : ServeBulk(b, r) \/ RefuseBulk(b, r)
      PROVE  IInv'
  BY <1>2, OpenRowSound, OpenByIdSound, NavigateSound, OtherWritesSound, ServeBulkSound,
     RefuseBulkSound
<1>3. CASE Add \/ Close \/ AskDelete \/ CancelDelete \/ Save \/ ConfirmDelete \/ HistoryUndo
  BY <1>3, AddSound, CloseSound, AskDeleteSound, SaveSound, ConfirmDeleteSound
<1>4. ASSUME NEW i \in Slots, \/ ServeSave(i) \/ ServeDelete(i) \/ Refuse(i)
                              \/ LoseAnswer(i) \/ Succeed(i) \/ Fail(i)
      PROVE  IInv'
  BY <1>4, ServeSaveSound, ServeDeleteSound, RefuseSound, SucceedSound, FailSound
<1> QED BY <1>1, <1>2, <1>3, <1>4, SetModeSound, EditSound, UntagSound, StartBulkSound,
           EndBulkSound, StutterSound DEF Next

\* The inductive invariant holds of every behaviour.
THEOREM SoundAlways == Spec => []IInv
BY InitSound, StepSound, PTL DEF Spec

\* Every variable keeps its type.
THEOREM TypeCorrect == Spec => []TypeOK
<1>1. IInv => TypeOK
  BY DEF IInv, Typed
<1> QED BY <1>1, SoundAlways, PTL

\* A list that is not marked stale is no older than the last write the table page
\* announced (useTableData's invalidation, react-query's cancelling of the older request),
\* but for a first list whose answer was on its way at the announcement.
THEOREM WritesAreShown == Spec => []OwnWritesShown
<1>1. IInv => OwnWritesShown
  <2> SUFFICES ASSUME IInv, list # None, ~stale, ~early, NEW r \in Record
               PROVE  list[r].version >= mine[r]
    BY DEF OwnWritesShown
  <2>1. mine[r] \in Nat /\ list[r] \in Row
    BY Bounds DEF IInv, Typed, TypeOK, Snapshot
  <2>2. list[r].version \in Nat
    BY <2>1, Bounds DEF Row
  <2> QED BY <2>1, <2>2 DEF IInv, CacheOK
<1> QED BY <1>1, SoundAlways, PTL

-----------------------------------------------------------------------------
(***************************************************************************)
(* What a save and a bulk edit write.                                      *)
(***************************************************************************)
\* Only the server's own step makes a save that was sent a save that is done.
LEMMA SavedByServer ==
    ASSUME IInv, [Next]_vars, NEW i \in Slots, call[i] # None,
           call[i].kind = "save", call[i].state = "sent", call'[i].state = "done"
    PROVE  ServeSave(i)
<1>0. call \in [Slots -> Call \cup {None}] /\ call[i] \in Call
  BY DEF IInv, Typed, TypeOK
<1>1. call' # call
  OBVIOUS
<1>2. ASSUME call' = Orphans PROVE FALSE
  <2>1. call'[i] = [call[i] EXCEPT !.own = FALSE]
    BY <1>2 DEF Orphans
  <2> QED BY <1>0, <2>1 DEF Call
<1>3. ASSUME NEW kind, Send(kind) PROVE FALSE
  BY <1>0, <1>3 DEF Send
<1>4. ASSUME NEW j \in Slots, Succeed(j) PROVE FALSE
  <2>1. j # i /\ call' = [Orphans EXCEPT ![j] = None]
    BY <1>4 DEF Succeed
  <2>2. call'[i] = [call[i] EXCEPT !.own = FALSE]
    BY <2>1 DEF Orphans
  <2> QED BY <1>0, <2>2 DEF Call
<1>5. ASSUME NEW j \in Slots, j # i, call'[i] # call[i]
      PROVE  ~(ServeSave(j) \/ ServeDelete(j) \/ Refuse(j) \/ LoseAnswer(j) \/ Fail(j))
  <2>1. ASSUME NEW c, call' = [call EXCEPT ![j] = c] PROVE FALSE
    BY <1>0, <1>5, <2>1
  <2>2. ASSUME ServeSave(j) PROVE FALSE
    BY <2>1, <2>2, ServeSaveStep
  <2> QED BY <2>1, <2>2 DEF ServeDelete, Refuse, LoseAnswer, Fail
<1>6. ~(ServeDelete(i) \/ Refuse(i) \/ LoseAnswer(i) \/ Fail(i))
  BY <1>0 DEF ServeDelete, Refuse, LoseAnswer, Fail, Call
<1>7. ASSUME NEW r \in Record PROVE ~(OpenById(r) \/ Navigate(r))
  BY <1>2, <1>7 DEF OpenById, Navigate
<1>8. ~(Close \/ Save \/ ConfirmDelete)
  BY <1>1, <1>2, <1>3 DEF Close, Save, ConfirmDelete
<1> QED
  BY <1>1, <1>4, <1>5, <1>6, <1>7, <1>8
     DEF Next, vars, desk, Refetch, ServeList, ListArrives, ListFails, OpenRow, OtherWrites,
         ServeBulk, RefuseBulk, Add, AskDelete, CancelDelete, HistoryUndo, SetMode, Edit, Untag,
         StartBulk, EndBulk

LEMMA SavesOwn ==
    ASSUME IInv, [Next]_vars, NEW i \in Slots,
           call[i] # None, call[i].kind = "save", call[i].state = "sent",
           call'[i].state = "done", call[i].rec # New,
           rows[call[i].rec].version = call[i].seen
    PROVE  /\ rows'[call[i].rec].text # rows[call[i].rec].text => "text" \in call[i].touched
           /\ rows'[call[i].rec].tags # rows[call[i].rec].tags => "tags" \in call[i].touched
<1> DEFINE c == call[i]
           r == c.rec
           applied == Apply(r, c.form)
<1>1. c \in Call /\ CallOK(c) /\ rows \in [Record -> Row] /\ call \in [Slots -> Call \cup {None}]
  BY DEF IInv, Typed, TypeOK, CallsOK, Snapshot
<1>2. Draft(c) /\ r \in Record
  BY <1>1 DEF CallOK, Call
<1>3. CanWrite(r) /\ rows' = [rows EXCEPT ![r] = [applied EXCEPT !.live = TRUE]]
  <2>1. ~(call' = [call EXCEPT ![i].state = "failed"])
    BY <1>1 DEF Call
  <2> QED BY <2>1, SavedByServer, ServeSaveStep
<1>4. applied \in Row /\ applied.text = c.form.text /\ applied.tags = c.form.tags
  BY <1>1, <1>2, <1>3, ApplyTyped DEF Call, IInv, Typed, TypeOK
<1> HIDE DEF applied
<1>5. rows'[r].text = c.form.text /\ rows'[r].tags = c.form.tags
  BY <1>1, <1>2, <1>3, <1>4 DEF Row
<1> QED BY <1>2, <1>5 DEF Draft

\* A save changes what its user changed, and no other field, unless the row was
\* written after the form's copy of it was read (buildPayload sends all fields).
THEOREM SavesOnlyOwnChanges == Spec => SavesOwnChanges
<1>1. ASSUME IInv, [Next]_vars
      PROVE  [\A i \in Slots :
                LET c == call[i] IN
                (/\ c # None /\ c.kind = "save" /\ c.state = "sent" /\ call'[i].state = "done"
                 /\ c.rec # New /\ rows[c.rec].version = c.seen)
                   => /\ rows'[c.rec].text # rows[c.rec].text => "text" \in c.touched
                      /\ rows'[c.rec].tags # rows[c.rec].tags => "tags" \in c.touched]_vars
  BY <1>1, SavesOwn
<1> QED BY <1>1, SoundAlways, PTL DEF Spec, SavesOwnChanges

\* Only the server's own step makes a request of a bulk operation done.
LEMMA BulkByServer ==
    ASSUME IInv, [Next]_vars, NEW b \in BulkSlots, NEW r \in Record, bulk[b] # None,
           bulk'[b] # None, bulk[b].state[r] = "sent", bulk'[b].state[r] = "done"
    PROVE  ServeBulk(b, r)
<1>0. /\ bulk[b] \in Bulk /\ bulk[b].state \in [Record -> {"none", "sent", "done", "failed"}]
      /\ bulk' # bulk /\ bulk'[b] # bulk[b] /\ bulk \in [BulkSlots -> Bulk \cup {None}]
  BY DEF IInv, Typed, TypeOK, Bulk
<1>1. ASSUME NEW c \in BulkSlots, c # b, NEW o, bulk' = [bulk EXCEPT ![c] = o] PROVE FALSE
  BY <1>0, <1>1
<1>2. ASSUME NEW c \in BulkSlots, NEW x \in Record, RefuseBulk(c, x) PROVE FALSE
  <2>1. bulk' = [bulk EXCEPT ![c] = Failed(bulk[c], x)]
    BY <1>2 DEF RefuseBulk, Failed
  <2>2. c = b /\ bulk'[b].state = [bulk[b].state EXCEPT ![x] = "failed"]
    BY <1>0, <1>1, <2>1, FailedTyped
  <2> QED BY <1>0, <2>2
<1>3. ASSUME NEW c \in BulkSlots, NEW x \in Record, ServeBulk(c, x), c # b \/ x # r PROVE FALSE
  <2>1. CanWrite(x) /\ bulk[c] \in Bulk
    BY <1>3, ServeBulkStep
  <2>2. BulkRow(bulk[c], x).version \in 0 .. MaxVersion
    BY <2>1, BulkRowTyped DEF Row
  <2>3. \E o \in Bulk : /\ bulk' = [bulk EXCEPT ![c] = o]
                        /\ \E w : o.state = [bulk[c].state EXCEPT ![x] = w]
    <3>1. /\ Failed(bulk[c], x) \in Bulk
          /\ Failed(bulk[c], x).state = [bulk[c].state EXCEPT ![x] = "failed"]
      BY <2>1, FailedTyped
    <3>2. /\ Done(bulk[c], x, BulkRow(bulk[c], x).version) \in Bulk
          /\ Done(bulk[c], x, BulkRow(bulk[c], x).version).state =
                [bulk[c].state EXCEPT ![x] = "done"]
      BY <2>1, <2>2, DoneTyped
    <3>3. \/ bulk' = [bulk EXCEPT ![c] = Failed(bulk[c], x)]
          \/ bulk' = [bulk EXCEPT ![c] = Done(bulk[c], x, BulkRow(bulk[c], x).version)]
      BY <1>3, ServeBulkStep
    <3> QED BY <3>1, <3>2, <3>3
  <2>4. c = b
    BY <1>1, <2>3
  <2> QED BY <1>0, <1>3, <2>3, <2>4
<1>4. ASSUME NEW c \in BulkSlots PROVE ~EndBulk(c)
  BY <1>0, <1>1 DEF EndBulk
<1>5. ASSUME NEW c \in BulkSlots, NEW kind, NEW rs, NEW e PROVE ~StartBulk(c, kind, rs, e)
  BY <1>0, <1>1 DEF StartBulk
<1> QED
  BY <1>0, <1>2, <1>3, <1>4, <1>5
     DEF Next, vars, desk, Refetch, ServeList, ListArrives, ListFails, OpenRow, OpenById, Navigate,
         OtherWrites, Add, Close, AskDelete, CancelDelete, Save, ConfirmDelete, HistoryUndo,
         SetMode, Edit, Untag, ServeSave, ServeDelete, Refuse, LoseAnswer, Succeed, Fail

LEMMA BulkKeeps ==
    ASSUME IInv, [Next]_vars, NEW b \in BulkSlots, NEW r \in Record, bulk[b] # None,
           bulk'[b] # None, bulk[b].state[r] = "sent", bulk'[b].state[r] = "done",
           rows[r].version = bulk[b].base[r].version
    PROVE  /\ bulk[b].kind # "delete" => rows'[r].live
           /\ rows[r].tags \subseteq rows'[r].tags \cup
                 (IF bulk[b].kind = "drop" THEN {bulk[b].edit} ELSE {})
           /\ rows'[r].text # rows[r].text => bulk[b].kind = "text"
<1>1. PICK o \in Bulk : o = bulk[b] /\ rows[r] = o.base[r]
  BY BulkTyped DEF Past, Lot
<1>2. rows[r] \in Row /\ rows \in [Record -> Row] /\ rows \in Snapshot
  BY DEF IInv, Typed, TypeOK, Snapshot
<1>3. ServeBulk(b, r)
  BY BulkByServer
<1>4. rows[r].live /\ rows' = [rows EXCEPT ![r] = BulkRow(o, r)] /\ CanWrite(r)
  <2>1. ASSUME bulk' = [bulk EXCEPT ![b] = Failed(bulk[b], r)] PROVE FALSE
    <3>1. bulk'[b].state = [o.state EXCEPT ![r] = "failed"]
      BY <1>1, <2>1, FailedTyped DEF IInv, Typed
    <3> QED BY <3>1 DEF Bulk
  <2> QED BY <1>1, <1>3, <2>1, ServeBulkStep
<1>5. rows'[r] = BulkRow(o, r)
  BY <1>2, <1>4
<1>6. CASE o.kind = "delete"
  <2> DEFINE gone == [rows[r] EXCEPT !.live = FALSE]
  <2>1. gone \in Row /\ gone.tags = rows[r].tags /\ gone.text = rows[r].text
    BY <1>2 DEF Row
  <2>3. rows'[r] = Write(r, gone)
    BY <1>5, <1>6 DEF BulkRow
  <2> HIDE DEF gone
  <2>2. rows'[r].tags = rows[r].tags /\ rows'[r].text = rows[r].text
    BY <1>2, <1>4, <2>1, <2>3, WriteTyped
  <2> QED BY <1>1, <1>6, <2>2
<1>7. CASE o.kind # "delete"
  <2>1. /\ rows'[r].live /\ rows'[r].text = BulkForm(o, r).text
        /\ rows'[r].tags = BulkForm(o, r).tags
    BY <1>2, <1>4, <1>5, <1>7, BulkFormTyped, ApplyTyped DEF BulkRow
  <2>2. o.kind \in {"text", "add", "drop"}
    BY <1>7 DEF Bulk
  <2>3. CASE o.kind = "text"
    BY <1>1, <2>1, <2>3 DEF BulkForm
  <2>4. CASE o.kind = "add"
    BY <1>1, <2>1, <2>4 DEF BulkForm
  <2>5. CASE o.kind = "drop"
    BY <1>1, <2>1, <2>5 DEF BulkForm
  <2> QED BY <2>2, <2>3, <2>4, <2>5
<1> QED BY <1>6, <1>7

\* A bulk edit that adds a value keeps the row's, one that removes a value takes no
\* other, unless the row was written since the list was read (BulkEditBar's newValue).
THEOREM BulkKeepsTheOthers == Spec => BulkKeepsOthers
<1>1. ASSUME IInv, [Next]_vars
      PROVE  [\A b \in BulkSlots, r \in Record :
                LET o == bulk[b] IN
                (/\ o # None /\ bulk'[b] # None
                 /\ o.state[r] = "sent" /\ bulk'[b].state[r] = "done"
                 /\ rows[r].version = o.base[r].version)
                   => /\ o.kind # "delete" => rows'[r].live
                      /\ rows[r].tags \subseteq rows'[r].tags \cup
                            (IF o.kind = "drop" THEN {o.edit} ELSE {})
                      /\ rows'[r].text # rows[r].text => o.kind = "text"]_vars
  BY <1>1, BulkKeeps
<1> QED BY <1>1, SoundAlways, PTL DEF Spec, BulkKeepsOthers
=============================================================================

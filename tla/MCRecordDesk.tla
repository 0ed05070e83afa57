--------------------------- MODULE MCRecordDesk ---------------------------
(* RecordDesk on small instances: one modal's request and two bulk         *)
(* operations, which take each other's place.                              *)
EXTENDS RecordDesk, TLC

Symmetry == Permutations(BulkSlots)

\* Bound: a deletion is to be confirmed in a form that was not edited, where
\* what was typed does not matter.
PlainDeletes == modal # None /\ modal.confirm => modal.touched = {}

=============================================================================

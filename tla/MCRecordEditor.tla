--------------------------- MODULE MCRecordEditor ---------------------------
(* RecordEditor for TLC: every field of the nine forms, two catalog entries. *)
EXTENDS RecordEditor

=============================================================================

----------------------------- MODULE MCScanDesk -----------------------------
(* ScanDesk on three rows: two installs of one record, one of them shown under *)
(* the name a rule gives it, and an orphaned record.                           *)
EXTENDS ScanDesk

RecordOfRow == <<1, 1, 2>>

=============================================================================

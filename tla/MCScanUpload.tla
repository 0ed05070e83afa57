---------------------------- MODULE MCScanUpload ----------------------------
(* ScanUpload on small instances. *)
EXTENDS ScanUpload

=============================================================================

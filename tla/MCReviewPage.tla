---------------------------- MODULE MCReviewPage ----------------------------
(* ReviewPage on four entries in pages of one, the last of them appended by   *)
(* others: three pages, so that the page before an emptied one may be skipped. *)
EXTENDS ReviewPage

=============================================================================

---------------------------- MODULE MCScanReview ----------------------------
(* ScanReview on small instances: all rows are installs of one plugin. *)
EXTENDS ScanReview, TLC

CONSTANTS d1
OnePlugin == [r \in Results |-> d1]

Symmetric == Permutations(Requests) \cup Permutations(Results) \cup Permutations(Records)
=============================================================================

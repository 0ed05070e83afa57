--------------------------- MODULE MCChangeReview ---------------------------
(* ChangeReview on small instances; the requests are interchangeable. *)
EXTENDS ChangeReview, TLC

Symmetric == Permutations(Requests)

=============================================================================

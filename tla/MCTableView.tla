---------------------------- MODULE MCTableView ----------------------------
(* TableView on two rows, in pages of one. *)
EXTENDS TableView

=============================================================================

----------------------------- MODULE MCAccounts -----------------------------
(***************************************************************************)
(* Model checking of Accounts: two admins, one of them the account that a  *)
(* start of the server restores, and a name still free.                    *)
(***************************************************************************)
EXTENDS Accounts, TLC

CONSTANTS n1, n2, n3

Made(id, role) == [id |-> id, role |-> role, google |-> None, password |-> TRUE]

MCInstalled == {[n \in Name |-> CASE n = n1 -> Made(1, "admin") [] n = n2 -> Made(2, "admin")
                                   [] OTHER -> None]}

\* Slots are places.
Sym == Permutations(Slot)
=============================================================================

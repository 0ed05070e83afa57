----------------------------- MODULE TypeAhead -----------------------------
(***************************************************************************)
(* A search box that asks the server as its user types: BrandSelect,       *)
(* ModelSelect, ModelSelectSingle and ParentSelect (EntitySearchInput when *)
(* Guarded).  Its state is a record: the query typed (None when empty),    *)
(* whether the list is open, whether the 300 ms timer runs, the queries    *)
(* asked and not yet answered, the query whose results are shown, the run  *)
(* of the effect still active, and the spinner.  Nothing is cancelled: an  *)
(* answer arrives in any order, also after the list was closed.            *)
(***************************************************************************)
CONSTANTS Query, None, Guarded

Box == [query : Query \cup {None}, open : BOOLEAN, timer : BOOLEAN,
        flight : SUBSET Query, results : Query \cup {None},
        active : Query \cup {None}, searching : BOOLEAN]

Idle == [query |-> None, open |-> FALSE, timer |-> FALSE, flight |-> {},
         results |-> None, active |-> None, searching |-> FALSE]

\* Each keystroke and each focus opens the list and starts the timer anew; too
\* short a query empties a guarded box at once.
Typed(box, q) ==
    [box EXCEPT !.query = q, !.open = TRUE, !.active = None,
                !.timer = ~Guarded \/ q # None,
                !.results = IF Guarded /\ q = None THEN None ELSE @]

\* A mouse press elsewhere; the answers asked for still arrive.
Left(box) == IF Guarded THEN [box EXCEPT !.open = FALSE]
             ELSE [box EXCEPT !.open = FALSE, !.timer = FALSE]

\* The timer: an empty query only empties the results.  spinner: the box shows
\* that it is searching.
Fired(box, spinner) ==
    IF box.query = None
    THEN [box EXCEPT !.timer = FALSE, !.results = None, !.searching = FALSE]
    ELSE [box EXCEPT !.timer = FALSE, !.flight = @ \cup {box.query},
                     !.active = IF Guarded THEN box.query ELSE None, !.searching = spinner]

\* Mutant: the clean-up of an earlier run does not deactivate it.
AppliesAll(box, q) == TRUE

\* A guarded box takes the answer of the active run only.
Applies(box, q) == Guarded => box.active = q

Answered(box, q) ==
    [box EXCEPT !.flight = @ \ {q}, !.searching = FALSE,
                !.results = IF Applies(box, q) THEN q ELSE @]

\* Mutant: an error leaves the spinner on.
FailedSpinning(box, q) ==
    [box EXCEPT !.flight = @ \ {q},
                !.results = IF Applies(box, q) THEN None ELSE @]

Failed(box, q) ==
    [box EXCEPT !.flight = @ \ {q}, !.searching = FALSE,
                !.results = IF Applies(box, q) THEN None ELSE @]

\* Results are offered while the list is open.
Offered(box) == IF box.open /\ box.results # None THEN {box.results} ELSE {}

=============================================================================

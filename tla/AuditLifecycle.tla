--------------------------- MODULE AuditLifecycle ---------------------------
(***************************************************************************)
(* What audit_log promises of its entries, whoever reviews them: an entry  *)
(* is appended pending, a review settles some pending entries, all with    *)
(* the same outcome, and an outcome is final.  The function status has the *)
(* entries written so far for its domain.                                  *)
(***************************************************************************)
VARIABLE status

Init == \A e \in DOMAIN status : status[e] = "pending"

AppendEntry ==
    \E e \in DOMAIN status' \ DOMAIN status :
        status' = [x \in DOMAIN status \cup {e} |-> IF x = e THEN "pending" ELSE status[x]]

Settle(S, outcome) ==
    /\ S # {}
    /\ \A e \in S : status[e] = "pending"
    /\ status' = [e \in DOMAIN status |-> IF e \in S THEN outcome ELSE status[e]]

Next ==
    \/ AppendEntry
    \/ \E S \in SUBSET DOMAIN status, outcome \in {"acknowledged", "undone"} :
          Settle(S, outcome)

Spec == Init /\ [][Next]_status

=============================================================================

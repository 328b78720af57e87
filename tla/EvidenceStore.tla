--------------------------- MODULE EvidenceStore ---------------------------
(***************************************************************************)
(* What the tables of derived evidence promise, whatever the sessions that *)
(* fill them do: observations, reconciliation runs, policy evaluations and *)
(* scenario runs are found again by what they were made from, one for      *)
(* each, never changed and never withdrawn, and a reconciliation rests on  *)
(* observations that are there (docs/domain/snapshot-reconciliation.md 39, *)
(* ADR 0013, ADR 0014).                                                    *)
(***************************************************************************)

VARIABLE stored     \* rows: [table, key, content]

Decided(rows) == \A a, b \in rows : a.table = b.table /\ a.key = b.key => a = b

Rests(rows) ==
    \A a \in rows : a.table = "reconciliation" =>
        \A e \in a.key.evidence : \E b \in rows : b.table = "observation" /\ b.key = e.id

Init == stored = {}

Record == stored \subseteq stored' /\ Decided(stored') /\ Rests(stored')

Spec == Init /\ [][Record]_stored
=============================================================================

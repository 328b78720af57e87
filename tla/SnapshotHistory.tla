-------------------------- MODULE SnapshotHistory --------------------------
(***************************************************************************)
(* What docs/domain/snapshot-reconciliation.md promises of the snapshots   *)
(* of one scope and cutoff: a growing chain of revisions, each linked to   *)
(* the one before it, none ever changed, and each made of facts that are   *)
(* in the ledger.                                                          *)
(***************************************************************************)
EXTENDS Naturals

CONSTANT Fact

VARIABLES
    facts,      \* the facts in the ledger
    revisions   \* the content of each revision: [revision, supersedes, input]

hvars == <<facts, revisions>>

\* No two revisions share a number, and each follows another or is the first.
Chained(R) ==
    /\ \A p, q \in R : p.revision = q.revision => p = q
    /\ \A p \in R :
         /\ p.revision = p.supersedes + 1
         /\ p.supersedes = 0 \/ \E q \in R : q.revision = p.supersedes

\* A revision can be replayed: every fact it was made of is there.
Replayable(R, F) == \A p \in R : DOMAIN p.input \subseteq F

Init == facts = {} /\ revisions = {}

Record ==
    /\ facts \subseteq facts' /\ facts' \in SUBSET Fact
    /\ revisions \subseteq revisions'
    /\ Chained(revisions')
    /\ Replayable(revisions', facts')

Spec == Init /\ [][Record]_hvars
=============================================================================

--------------------------- MODULE ImportArchive ---------------------------
(***************************************************************************)
(* What docs/domain/import-provenance.md promises of imported facts: a     *)
(* file is completed once, with one final outcome for each of its rows,    *)
(* none of which ever changes, and every fact came from one row of one     *)
(* file, found by its POSTED outcome.                                      *)
(***************************************************************************)
EXTENDS Naturals, Sequences

CONSTANTS
    Fact,   \* what a row may say
    File,   \* contents of files
    Rows    \* Rows[f]: the rows of file f

VARIABLES
    facts,      \* the imported facts
    outcomes,   \* final outcomes of rows: [file, row, status]
    completed   \* the completed batches: [file, status, counts]

avars == <<facts, outcomes, completed>>

RowOf(o) == Rows[o.file][o.row]

\* A row has at most one outcome.
Unambiguous(O) == \A o, p \in O : o.file = p.file /\ o.row = p.row => o = p

\* Every fact has one row that posted it, every posted row its fact.
Traceable(F, O) ==
    /\ \A c \in F : \E o \in O : o.status = "POSTED" /\ RowOf(o) = c
    /\ \A o, p \in O : o.status = "POSTED" /\ p.status = "POSTED" /\ RowOf(o) = RowOf(p) => o = p
    /\ \A o \in O : o.status \in {"POSTED", "DUPLICATE"} => RowOf(o) \in F

\* A file is completed once, and every row of it has its outcome.
Complete(B, O) ==
    /\ \A b, d \in B : b.file = d.file => b = d
    /\ \A b \in B : \A i \in 1..Len(Rows[b.file]) : \E o \in O : o.file = b.file /\ o.row = i

Init == facts = {} /\ outcomes = {} /\ completed = {}

Record ==
    /\ facts \subseteq facts' /\ facts' \in SUBSET Fact
    /\ outcomes \subseteq outcomes' /\ Unambiguous(outcomes')
    /\ completed \subseteq completed' /\ Complete(completed', outcomes')
    /\ Traceable(facts', outcomes')

Spec == Init /\ [][Record]_avars
=============================================================================

------------------------------ MODULE Imports ------------------------------
(***************************************************************************)
(* CsvTransactionImporter.import_text of app/imports/csv_pipeline.py, one  *)
(* import in each database session, on top of Ledger: every row that can   *)
(* be normalized is a call of TransactionService.create in the session of  *)
(* its import.                                                             *)
(*                                                                         *)
(* A session s imports file BatchOf[s], and may do so again after it lost  *)
(* its transaction or committed it; several sessions may import the same   *)
(* file.  A batch is identified by its file.  The caller commits or rolls  *)
(* back when import_text has returned or raised.                           *)
(*                                                                         *)
(* A row is the command it normalizes to, or Malformed where _normalize    *)
(* raises RowNormalizationError, or NotANumber where it succeeds and a     *)
(* comparison in validate_transaction raises InvalidOperation, which is    *)
(* neither a LedgerError nor a RowNormalizationError.                      *)
(***************************************************************************)
EXTENDS Ledger, Sequences, FiniteSets

CONSTANTS
    File,       \* contents of files
    Rows,       \* Rows[f]: the rows of file f
    Malformed,  \* a row that cannot be normalized
    NotANumber  \* a row with an amount that is not a number

ASSUME RowsAssumption == Rows \in [File -> Seq(Command \cup {Malformed, NotANumber})]
ASSUME BadRowsAssumption == Malformed \notin Command /\ NotANumber \notin Command \cup {Malformed}
ASSUME ImporterAssumption == BatchOf \in [Session -> File] /\ None \notin File

VARIABLES
    batches,    \* committed rows of import_batches: [file, status, counts]
    records,    \* committed rows of import_records: [file, row, status]
    importing   \* importing[s]: the import of session s, not yet committed

importVars == <<ledger, conflicts, work, call, batches, records, importing>>

-----------------------------------------------------------------------------
(* What a session sees and holds.                                          *)

Outcomes == {"POSTED", "DUPLICATE", "CONFLICT", "REJECTED"}

NoCounts == [o \in Outcomes |-> 0]

NoImport == [step |-> "NONE", row |-> 0, counts |-> NoCounts, batch |-> {}, records |-> {}]

VisibleBatches(s) == batches \cup importing[s].batch

VisibleRecords(s) == records \cup importing[s].records

\* The session is at a row of its file, and that row.
AtRow(s) == importing[s].step = "ROWS" /\ importing[s].row <= Len(Rows[BatchOf[s]])

Row(s) == Rows[BatchOf[s]][importing[s].row]

ImportInit ==
    /\ Init
    /\ batches = {}
    /\ records = {}
    /\ importing = [s \in Session |-> NoImport]

-----------------------------------------------------------------------------
(* The batch.                                                              *)

\* Nothing of the session's import is under way.
Returned(s) == importing[s].step \in {"NONE", "ENDED"}

Stored(s) == {b \in VisibleBatches(s) : b.file = BatchOf[s]}

\* The file's batch is found and reported, whatever its status.
Reuse(s) ==
    /\ Returned(s)
    /\ Stored(s) # {}
    /\ UNCHANGED importVars

\* It is not found, and the import goes on to flush a batch of its own.
Start(s) ==
    /\ Returned(s)
    /\ Stored(s) = {}
    /\ importing' = [importing EXCEPT ![s].step = "OPENING"]
    /\ UNCHANGED <<vars, batches, records>>

\* Another session has a batch of this file that is not committed.
WaitsForBatch(s) == \E u \in Session : u # s /\ BatchOf[u] = BatchOf[s] /\ importing[u].batch # {}

\* uq_import_batches_content
BatchTaken(s) == \E b \in batches : b.file = BatchOf[s]

\* The flush of the batch.  Its counts are written when it is finished; until
\* then its conflict_count is the number of its rows in conflicts.
OpenBatch(s) ==
    /\ importing[s].step = "OPENING"
    /\ ~ WaitsForBatch(s)
    /\ ~ BatchTaken(s)
    /\ importing' = [importing EXCEPT
         ![s] = [step |-> "ROWS", row |-> 1, counts |-> NoCounts, records |-> {},
                 batch |-> {[file |-> BatchOf[s], status |-> "PROCESSING", counts |-> NoCounts]}]]
    /\ UNCHANGED <<vars, batches, records>>

-----------------------------------------------------------------------------
(* The rows.                                                               *)

\* Mutant of Recorded: the status of the record is not set.
RecordedUnset(i, file, status) ==
    [i EXCEPT !.records = @ \cup {[file |-> file, row |-> i.row, status |-> "RECEIVED"]},
              !.counts[status] = @ + 1,
              !.row = @ + 1]

\* The record of the row with its outcome, and the next row.
Recorded(i, file, status) ==
    [i EXCEPT !.records = @ \cup {[file |-> file, row |-> i.row, status |-> status]},
              !.counts[status] = @ + 1,
              !.row = @ + 1]

RowEnds(s, status) ==
    /\ importing' = [importing EXCEPT ![s] = Recorded(@, BatchOf[s], status)]
    /\ UNCHANGED <<batches, records>>

RowGoesOn == UNCHANGED <<batches, records, importing>>

\* RowNormalizationError, or a TransactionValidationError of the shape.
RowRefused(s) ==
    /\ AtRow(s) /\ Idle(s)
    /\ Row(s) = Malformed \/ (Row(s) \in Command /\ ~ Valid(Row(s)))
    /\ RowEnds(s, "REJECTED")
    /\ UNCHANGED vars

\* An exception that is not caught ends import_text; the record it left is
\* NORMALIZED, and the session's transaction goes on.
RowRaises(s) ==
    /\ AtRow(s) /\ Idle(s)
    /\ Row(s) = NotANumber
    /\ importing' = [importing EXCEPT
         ![s].step = "ENDED",
         ![s].records = @ \cup
             {[file |-> BatchOf[s], row |-> importing[s].row, status |-> "NORMALIZED"]}]
    /\ UNCHANGED <<vars, batches, records>>

\* Mutant of RowDuplicate: every answer but a conflict counts as posted.
DuplicatePosted(s) == AtRow(s) /\ Row(s) \in Command /\ Duplicate(s, Row(s)) /\ RowEnds(s, "POSTED")

\* The answers of create, and a LedgerError from its validation.
RowDuplicate(s) == AtRow(s) /\ Row(s) \in Command /\ Duplicate(s, Row(s)) /\ RowEnds(s, "DUPLICATE")

RowConflict(s) == AtRow(s) /\ Row(s) \in Command /\ RecordConflict(s, Row(s)) /\ RowEnds(s, "CONFLICT")

RowLookup(s) == AtRow(s) /\ Row(s) \in Command /\ Lookup(s, Row(s)) /\ RowGoesOn

RowAccepted(s) == Validate(s) /\ Acceptable(s, call[s].cmd) /\ RowGoesOn

RowRejected(s) == Validate(s) /\ ~ Acceptable(s, call[s].cmd) /\ RowEnds(s, "REJECTED")

RowPosted(s) == Post(s) /\ RowEnds(s, "POSTED")

-----------------------------------------------------------------------------
(* The end of an import.                                                   *)

\* Mutant of FinalStatus: conflicts are not errors.
StatusOfRejected(counts) ==
    IF counts["REJECTED"] > 0 THEN "COMPLETED_WITH_ERRORS" ELSE "COMPLETED"

FinalStatus(counts) ==
    IF counts["REJECTED"] > 0 \/ counts["CONFLICT"] > 0 THEN "COMPLETED_WITH_ERRORS" ELSE "COMPLETED"

\* The counts and the status, with the audit event, in the last flush.
Finish(s) ==
    /\ importing[s].step = "ROWS"
    /\ Idle(s)
    /\ importing[s].row > Len(Rows[BatchOf[s]])
    /\ importing' = [importing EXCEPT
         ![s].step = "ENDED",
         ![s].batch = {[file |-> BatchOf[s], status |-> FinalStatus(importing[s].counts),
                        counts |-> importing[s].counts]}]
    /\ UNCHANGED <<vars, batches, records>>

\* The caller commits what import_text left, finished or not.
CommitImport(s) ==
    /\ importing[s].step = "ENDED"
    /\ IF work[s].calls > 0 THEN Commit(s) ELSE UNCHANGED vars
    /\ batches' = batches \cup importing[s].batch
    /\ records' = records \cup importing[s].records
    /\ importing' = [importing EXCEPT ![s] = NoImport]

\* The session's transaction and the import in it are undone.
Lost(s) ==
    /\ Undo(s)
    /\ importing' = [importing EXCEPT ![s] = NoImport]
    /\ UNCHANGED <<batches, records>>

\* IntegrityError from the flush of the batch or of a row.
FlushFails(s) ==
    /\ \/ importing[s].step = "OPENING" /\ ~ WaitsForBatch(s) /\ BatchTaken(s)
       \/ InsertFails(s)
    /\ Lost(s)

\* PostgreSQL breaks a circle of waiting sessions.
DeadlockBroken(s) == Deadlocked(s) /\ Lost(s)

\* The caller rolls back, or its process dies.
Abandon(s) == importing[s] # NoImport /\ Lost(s)

ImportRow(s) ==
    \/ RowRefused(s)
    \/ RowRaises(s)
    \/ RowDuplicate(s)
    \/ RowConflict(s)
    \/ RowLookup(s)
    \/ RowAccepted(s)
    \/ RowRejected(s)
    \/ RowPosted(s)

ImportNext ==
    \E s \in Session :
        \/ Reuse(s)
        \/ Start(s)
        \/ OpenBatch(s)
        \/ ImportRow(s)
        \/ Finish(s)
        \/ CommitImport(s)
        \/ FlushFails(s)
        \/ DeadlockBroken(s)
        \/ Abandon(s)

ImportSpec == ImportInit /\ [][ImportNext]_importVars

\* An import runs on; PostgreSQL wakes a waiting flush when the transaction it
\* waits for ends (strong fairness, as in Ledger); a circle of waiting
\* sessions is detected; and a caller commits what import_text left.
ImportFairness ==
    \A s \in Session :
        /\ WF_importVars(\/ RowRefused(s) \/ RowRaises(s) \/ RowDuplicate(s) \/ RowConflict(s)
                         \/ RowLookup(s) \/ RowAccepted(s) \/ RowRejected(s) \/ Finish(s))
        /\ SF_importVars(OpenBatch(s) \/ RowPosted(s) \/ FlushFails(s))
        /\ WF_importVars(DeadlockBroken(s))
        /\ WF_importVars(CommitImport(s))

FairImportSpec == ImportSpec /\ ImportFairness

-----------------------------------------------------------------------------
(* Properties.                                                             *)

Batch ==
    [file : File, status : {"PROCESSING", "COMPLETED", "COMPLETED_WITH_ERRORS"},
     counts : [Outcomes -> Nat]]

Record == [file : File, row : Nat \ {0}, status : Outcomes \cup {"NORMALIZED"}]

\* The ledger and its sessions, batches, records and open imports have the
\* shapes the code gives them.
ImportTypeOK ==
    /\ TypeOK
    /\ batches \subseteq Batch
    /\ records \subseteq Record
    /\ importing \in [Session ->
         [step : {"NONE", "OPENING", "ROWS", "ENDED"}, row : Nat, counts : [Outcomes -> Nat],
          batch : SUBSET Batch, records : SUBSET Record]]

\* What a session's records say is true of what the session sees: a POSTED or
\* DUPLICATE row is in the ledger as it stands, and a CONFLICT row is not, has
\* another fact under its identity, and left the evidence of the conflict.
OutcomesTrue ==
    \A s \in Session : \A o \in VisibleRecords(s) :
        LET row == Rows[o.file][o.row] IN
        /\ o.status \in {"POSTED", "DUPLICATE"} => row \in Facts(s)
        /\ o.status = "CONFLICT" =>
             /\ row \notin Facts(s) /\ Existing(s, row) # {}
             /\ [batch |-> o.file, cmd |-> row] \in conflicts \cup work[s].conflicts

\* A batch that is reported completed accounts for every row of its file once,
\* its counts are those of its records, and it is free of errors exactly
\* when every row was posted or a duplicate.
ReportsAddUp ==
    \A s \in Session : \A b \in VisibleBatches(s) :
        LET own == {o \in VisibleRecords(s) : o.file = b.file} IN
        b.status # "PROCESSING" =>
            /\ {o.row : o \in own} = 1..Len(Rows[b.file])
            /\ \A x \in Outcomes : b.counts[x] = Cardinality({o \in own : o.status = x})
            /\ b.status = "COMPLETED" <=> \A o \in own : o.status \in {"POSTED", "DUPLICATE"}

\* An import that began returns, raises or is lost, even when the files of
\* several sessions have the same identities in opposite orders and two
\* sessions import one file.
ImportReturns == \A s \in Session : ~ Returned(s) ~> Returned(s)

Archive == INSTANCE ImportArchive
             WITH Fact <- Command,
                  facts <- {r.cmd : r \in ledger},
                  outcomes <- {o \in records : o.status \in Outcomes},
                  completed <- {b \in batches : b.status # "PROCESSING"}

\* The imports of all sessions together keep the archive ADR 0008 decides on:
\* a file completed once, final evidence never changed, every fact traced to
\* the one row that posted it.
ImplementsArchive == Archive!Spec

\* "Invalid rows do not block valid rows in the same batch" (import-provenance.md
\* 29): an import whose batch is open ends with the batch completed.
InvalidRowsPass ==
    \A s \in Session :
        importing[s].step = "ENDED" => \A b \in importing[s].batch : b.status # "PROCESSING"
=============================================================================

\* Two imports of one file and two of files that overlap it.
SPECIFICATION FairImportSpec
CONSTANTS
    k1 = k1
    k2 = k2
    k3 = k3
    k4 = k4
    a1 = a1
    i1 = i1
    s1 = s1
    s2 = s2
    s3 = s3
    s4 = s4
    f1 = f1
    f2 = f2
    f3 = f3
    None = None
    Malformed = Malformed
    NotANumber = NotANumber
    Key = {k1, k2, k3, k4}
    Account = {a1}
    Instrument = {i1}
    File = {f1, f2, f3}
    Rows <- MCRows
    BatchOf <- MCBatchOf
    Command <- MCCommand
    MaxCalls = 4
    Session = {s1, s2, s3, s4}
INVARIANTS ImportTypeOK OutcomesTrue ReportsAddUp
PROPERTIES ImplementsArchive ImportReturns

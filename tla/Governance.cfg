\* Two users with overlapping roles. Two sessions race on one proposal; one
\* session at a time meets evidence that clears, blocks or misses the cutoff,
\* recorded at equal and increasing timestamps (OneAtATime).
SPECIFICATION Spec
CONSTANTS
    ana = ana
    mia = mia
    s1 = s1
    s2 = s2
    q1 = q1
    q2 = q2
    good = good
    late = late
    bad = bad
    None = None
    User = {ana, mia}
    Session = {s1, s2}
    Cutoff = {q1, q2}
    Evidence = {good, bad, late}
    RolesOf <- MCRolesOf
    EvidenceCutoff <- MCEvidenceCutoff
    Clear = {good, late}
    MaxRow = 7
    MaxTime = 2
    MaxAnalysis = 2
SYMMETRY SessionSymmetry
CONSTRAINT OneAtATime
INVARIANTS TypeOK HistoryChain ApprovalSupported SeparationOfDuties EvidenceUnderReview
PROPERTIES DecisionFinal NoLostUpdate ImplementsWorkflow

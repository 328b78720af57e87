\* One session asks while snapshots, evaluations and valuations are
\* published and roles change.
SPECIFICATION FairSpec
CONSTANTS
    a1 = a1
    s1 = s1
    s2 = s2
    c1 = c1
    c2 = c2
    c3 = c3
    Actor = {a1}
    Cutoff = {1, 2}
    CallId = {c1, c2, c3}
    Session = {s1, s2}
    MaxRounds = 2
    MaxCalls = 3
    MaxAsks = 2
    MaxRecords = 2
    Turn <- MCTurn
CONSTRAINT Explored
INVARIANTS TypeOK AnswersGrounded TrailComplete ReadingsAdvance
PROPERTIES ImplementsArchive AskReturns

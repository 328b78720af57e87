\* Two sessions, one of them an import, race on two openings and their reversal.
SPECIFICATION FairSpec
CONSTANTS
    k1 = k1
    k2 = k2
    k3 = k3
    k4 = k4
    k5 = k5
    a1 = a1
    i1 = i1
    s1 = s1
    s2 = s2
    b1 = b1
    None = None
    Key = {k1, k2, k3, k4, k5}
    Account = {a1}
    Instrument = {i1}
    Session = {s1, s2}
    BatchOf <- MCBatchOf
    Command <- MCRaceCommand
    MaxCalls = 2
INVARIANTS StatusProjection AnswersStand
PROPERTIES ImplementsBook CallReturns

\* Two sessions report, reconcile, evaluate and execute scenarios.
SPECIFICATION Spec
CONSTANTS
    i1 = i1
    i2 = i2
    o1 = o1
    o2 = o2
    acc = acc
    other = other
    x1 = x1
    x2 = x2
    s1 = s1
    s2 = s2
    None = None
    Instrument = {i1, i2}
    Label = {"TECH", "BANKS"}
    Factor = {"OIL"}
    Unit = 10
    Tolerance = {0, 4}
    Grain = 10
    Cent = 4
    Places = 3
    MaxRows = 2
    PolicyFrom = 0
    PolicyTo = 3
    Session = {s1, s2}
    Classification <- MCClassification
    Sensitivity <- MCSensitivity
    Observation <- MCObservation
    Snapshot <- MCSnapshot
    Analysis <- MCAnalysis
    Scenario <- MCScenario
    Execution <- MCExecution
    Rule <- MCRule
INVARIANTS TypeOK AnswersStand StoredSound
PROPERTIES ImplementsStore
SYMMETRY Symmetry
CHECK_DEADLOCK FALSE

\* Two sessions post two facts and snapshot one cutoff.
SPECIFICATION Spec
CONSTANTS
    f1 = f1
    f2 = f2
    s1 = s1
    s2 = s2
    Fact = {f1, f2}
    Session = {s1, s2}
    MaxRevision = 4
SYMMETRY Symmetry
INVARIANTS TypeOK OneCurrent
PROPERTIES ImplementsHistory

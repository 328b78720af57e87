\* A snapshot is verified by a session that did not make it.
SPECIFICATION Spec
CONSTANTS
    f1 = f1
    f2 = f2
    s1 = s1
    s2 = s2
    Fact = {f1}
    Session = {s1, s2}
    MaxRevision = 2
SYMMETRY Symmetry
INVARIANTS Reproducible

SPECIFICATION Spec
CONSTANTS
    Docs = {d1, d2}
    Keys = {k1, k2}
    NoKey = NoKey
    Workers = {w1, w2}
    Nobody = Nobody
    MaxVer = 2
    MaxReleases = 3
SYMMETRY Interchangeable
INVARIANTS
    PublishTouchesOnlySubject
CHECK_DEADLOCK FALSE

\* One request at a time, authors editing meanwhile: what the comments promise
\* of publishing, of a full cut and of deletion.
SPECIFICATION Spec
CONSTANTS
    Docs = {d1, d2}
    Keys = {k1, k2}
    NoKey = NoKey
    Workers = {w1}
    Nobody = Nobody
    MaxVer = 2
    MaxReleases = 4
SYMMETRY Interchangeable
INVARIANTS
    PublishTouchesOnlySubject
    CutNeverRegresses
PROPERTIES
    DeleteRefusesLive
CHECK_DEADLOCK FALSE

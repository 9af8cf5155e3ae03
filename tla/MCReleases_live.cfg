\* Three requests queue on the app row; no symmetry, the property is a liveness one.
SPECIFICATION FairSpec
CONSTANTS
    Docs = {d1}
    Keys = {k1}
    NoKey = NoKey
    Workers = {w1, w2, w3}
    Nobody = Nobody
    MaxVer = 1
    MaxReleases = 3
PROPERTIES
    RequestsEnd
CHECK_DEADLOCK FALSE

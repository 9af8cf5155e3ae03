\* Two overlapping requests over two documents, two paths and two versions,
\* up to three releases: any cut may be overtaken twice.
SPECIFICATION Spec
CONSTANTS
    Docs = {d1, d2}
    Keys = {k1, k2}
    NoKey = NoKey
    Workers = {w1, w2}
    Nobody = Nobody
    MaxVer = 2
    MaxReleases = 3
SYMMETRY Interchangeable
INVARIANTS
    IInv
    ChangesMatchHistory
    OutboxFollowsLine
    EntriesResolve
PROPERTIES
    ImplementsLine
CHECK_DEADLOCK FALSE

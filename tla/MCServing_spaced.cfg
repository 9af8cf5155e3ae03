\* Clients that let the outbox drain before the next cut, tag change or reindex;
\* two runners, nothing fails.
SPECIFICATION FairSpec
CONSTANTS
    d1 = d1
    d2 = d2
    k1 = k1
    k2 = k2
    Docs = {d1, d2}
    Keys = {k1, k2}
    NoKey = NoKey
    Manifests <- TwoDocs
    Runners = {r1, r2}
    Taggers = {t1}
    Batch = 2
    MaxAttempts = 1
    Failures = FALSE
    Spaced = TRUE
    MaxCuts = 3
    MaxTags = 1
    MaxStops = 0
    MaxReindexes = 1
INVARIANTS
    SettledIsLive
PROPERTIES
    IndexCatchesUp
CHECK_DEADLOCK FALSE

\* Everything at once: two runners, a tag request, a reindex, failing writes and
\* status updates, a binary stopped, two cuts of one document.
SPECIFICATION Spec
CONSTANTS
    d1 = d1
    d2 = d2
    k1 = k1
    k2 = k2
    Docs = {d1}
    Keys = {k1, k2}
    NoKey = NoKey
    Manifests <- OneDocMoving
    Runners = {r1, r2}
    Taggers = {t1, t2}
    Batch = 2
    MaxAttempts = 2
    Failures = TRUE
    Spaced = FALSE
    MaxCuts = 2
    MaxTags = 1
    MaxStops = 1
    MaxReindexes = 1
INVARIANTS
    IInv
    ServedWasLive
    LastWriteDecides
CHECK_DEADLOCK FALSE

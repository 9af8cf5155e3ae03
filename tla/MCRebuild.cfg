SPECIFICATION Spec
CONSTANTS
    Apps = {1, 2, 3}
    Batch = 2
    Runs = {r1, r2}
    Stale = Stale
    MaxReleases = 2
INVARIANTS IInv DoneIsRepaired
PROPERTIES TrueStays RunsEnd
CHECK_DEADLOCK FALSE

SPECIFICATION FairSpec
CONSTANTS
    Docs = {d1}
    Clients = {e1, e2}
    Readers = {r1}
    Nobody = Nobody
    MaxVer = 3
INVARIANTS IInv StatusWasTrue HidesOnlyAfterOwnSave
PROPERTIES ImplementsLog SavesEnd
CHECK_DEADLOCK FALSE

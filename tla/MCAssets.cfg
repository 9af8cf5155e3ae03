SPECIFICATION Spec
CONSTANTS
    Keys <- TwoKeys
    NewFolders <- OneFolder
    Kinds <- TwoKinds
    All = "all"
    Contents <- TwoContents
    None = None
    Requests = {r1, r2, r3}
    MaxDay = 1
    Window = 0
INVARIANTS IInv FoldersAreTrue TotalsAreTrue LevelsShowAll
PROPERTIES ExplicitStays
SYMMETRY Symmetry
CHECK_DEADLOCK FALSE

SPECIFICATION Spec
CONSTANTS
    Cols = {c1, c2}
    Docs = {d1, d2}
    Names <- OneNames
    Root = Root
    Requests = {w1, w2}
    Ops <- AllOps
    MaxDepth = 8
INVARIANTS IInv SiblingsDiffer KeysArePaths NamesDifferAcrossTables
SYMMETRY Symmetry
CHECK_DEADLOCK FALSE

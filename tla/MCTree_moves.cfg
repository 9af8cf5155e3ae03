SPECIFICATION MovesSpec
CONSTANTS
    Cols = {c1, c2, c3}
    Docs = {d1}
    Names <- OneNames
    Root = Root
    Requests = {w1, w2, w3}
    Ops <- MoveOps
    MaxDepth = 4
INVARIANTS Acyclic
PROPERTIES RequestsEnd
CHECK_DEADLOCK FALSE

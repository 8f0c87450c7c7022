SPECIFICATION Spec
CONSTANTS
    Ids = {a, b, c}
    Vals = {p, q}
    Depth = 2
    MaxOps = 3
    MaxLoose = 2
    Shapes <- Gestures
SYMMETRY IdSymmetry
INVARIANTS IndexTrue MirrorFollows
PROPERTIES LinearSpec HistoryWaitsForGesture NoUndoThrough

\* a commit while the link is down
SPECIFICATION Spec
CONSTANTS
    Node = {a, b}
    MaxEdits = 3
    MaxLinks = 2
    MaxReloads = 0
    MaxGestures = 0
    MaxTicks = 0
    EditInHandshake = FALSE
    Overlap = FALSE
INVARIANT NothingLost
\* the budget of edits, links, reloads and strokes runs out
CHECK_DEADLOCK FALSE

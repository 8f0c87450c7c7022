\* two links, commits, strokes and hello ticks during the handshake
SPECIFICATION FairSpec
CONSTANTS
    Node = {a, b}
    MaxEdits = 2
    MaxLinks = 2
    MaxReloads = 0
    MaxGestures = 1
    MaxTicks = 1
    EditInHandshake = TRUE
    Overlap = FALSE
PROPERTIES LoadWaitsForPen TabletSettles
\* the budget of edits, links, reloads and strokes runs out
CHECK_DEADLOCK FALSE

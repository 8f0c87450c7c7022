\* one link, no commit during the handshake
SPECIFICATION FairSpec
CONSTANTS
    Node = {a, b}
    MaxEdits = 3
    MaxLinks = 1
    MaxReloads = 0
    MaxGestures = 0
    MaxTicks = 0
    EditInHandshake = FALSE
    Overlap = FALSE
INVARIANT MirrorTracksDevice
PROPERTIES ImplementsReplica MirrorConverges
\* the budget of edits, links, reloads and strokes runs out
CHECK_DEADLOCK FALSE

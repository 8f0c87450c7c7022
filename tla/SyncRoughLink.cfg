\* everything the environment can do
SPECIFICATION Spec
CONSTANTS
    Node = {a, b}
    MaxEdits = 2
    MaxLinks = 2
    MaxReloads = 1
    MaxGestures = 1
    MaxTicks = 0
    EditInHandshake = TRUE
    Overlap = TRUE
SYMMETRY NodeSymmetry
INVARIANT QueueShape
\* the budget of edits, links, reloads and strokes runs out
CHECK_DEADLOCK FALSE

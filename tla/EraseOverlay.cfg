\* two strokes, three paths each, every interleaving of the two threads
SPECIFICATION FairSpec
CONSTANTS
    MaxStrokes = 2
    MaxPoints = 5
    MaxGen = 4
INVARIANTS JobsInOrder OverlayOfThisStroke BusyIsAnswered
PROPERTIES NewestPathShown DestroyEnds
\* the pen has drawn its strokes and the operation is gone
CHECK_DEADLOCK FALSE

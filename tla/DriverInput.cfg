\* one tablet with a watcher, two sessions one after the other, pen frames, and
\* a user who picks, disconnects and changes modes
SPECIFICATION FairSpec
CONSTANTS
    t1 = t1
    Conns <- OneTablet
    AutoConnect <- OneTablet
    MaxChunk = 1
    MaxSessions = 2
    MaxEvents = 2
    MaxUser = 1
    MaxPolls = 1
INVARIANTS HandsOff PickerHoldsInput SessionIsAsSaved
PROPERTY DeadStreamEnds
\* the sessions, the polls and the user's doings run out
CHECK_DEADLOCK FALSE

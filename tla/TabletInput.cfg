SPECIFICATION FairSpec
CONSTANTS
    Cells = {"left", "right"}
    Cams <- MCCams
    Home = "home"
    Overlaps <- MCOverlaps
    BoxCell = "left"
    Racing = FALSE
    Starts = 2
    Moves = 2
    Posted = 1
INVARIANTS InFlightIsLocked NothingLeftBehind LiveInkKept PenOutranksTouch
PROPERTIES NoOldPicture ChangesAreShown
CHECK_DEADLOCK FALSE

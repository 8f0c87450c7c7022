SPECIFICATION Spec
VIEW View
CONSTANTS
    EndRadius = 1
    SnapDist = 1
    MinWithContent = 2
    MinEmpty = 4
    MinConnector = 4
    RemnantFloor = 2
    MaxOps = 2
    CopyOps = 0
    Pages <- AllPages
    Strokes <- SomeStrokes
    Regions <- SomeRegions
    Marquees <- SomeMarquees
    Points <- SomePoints
    Shifts <- SomeShifts
PROPERTY AreaTakesWhole
CHECK_DEADLOCK FALSE

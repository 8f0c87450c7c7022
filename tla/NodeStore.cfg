\* three slots in chunks of one, two generations each
SPECIFICATION Spec
CONSTANTS
    a = a
    b = b
    NodeIds = {a, b}
    NodeTypes = {"Frame", "Ink"}
    Bare = {"Frame"}
    TypeOf <- Types
    MaxSlots = 3
    MaxLinks = 2
    ChunkSize = 1
    Capacity = 1
    MaxGen = 1
    Keys = {1, 2}
    Invalid = 99
INVARIANTS IdsTrue RetireTakesSubtree
PROPERTIES GoneForGood
\* every slot is worn out
CHECK_DEADLOCK FALSE

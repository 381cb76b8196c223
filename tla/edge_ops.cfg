CONSTANTS
    MAX_ENTRY_NUM = 2
    BRANCH_BITS = 1
    Key = {0, 1, 2, 4}
    HASH_SIZE = 2
    DEGREE_SIZE = 256
    Capacity = 3
    MaxDegree = 4
    CrashPoints = {"find", "choose", "initChildren", "storeChild", "storeValid", "descend", "storeId", "storeFgpt", "setBit", "search", "clearBit", "subDegree", "return"}
SPECIFICATION Spec
INVARIANTS
    NumNodesExact
    AdjacencyExact
    DegreeCovers
    OutDegreeExact
PROPERTIES
    ImplementsEdgeStore

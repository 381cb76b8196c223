CONSTANTS
    MAX_ENTRY_NUM = 1
    BRANCH_BITS = 1
    Key = {0, 1, 2, 4}
    HASH_SIZE = 1
    DEGREE_SIZE = 1
    Capacity = 5
    MaxDegree = 1
    CrashPoints = {"idle", "find", "choose", "initChildren", "storeChild", "storeValid", "addNumNodes", "descend", "storeId", "storeFgpt", "setBit", "addDegree", "search", "clearBit", "subDegree", "return"}
SPECIFICATION Spec
INVARIANTS
    AdjacencyExact
PROPERTIES
    ImplementsEdgeStore

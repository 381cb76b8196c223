CONSTANTS
    MAX_ENTRY_NUM = 2
    BRANCH_BITS = 1
    Key = {0, 1, 2, 4}
    HASH_SIZE = 1
    DEGREE_SIZE = 256
    Capacity = 5
    MaxDegree = 5
    CrashPoints = {"addNumNodes"}
SPECIFICATION Spec
INVARIANT
    NumNodesExact

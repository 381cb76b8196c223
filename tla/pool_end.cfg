CONSTANTS
    Threads = {t1, t2}
    MAX_ENTRY_NUM = 1
    BRANCH_BITS = 1
    Key = {0, 1, 2, 3, 4}
    HASH_SIZE = 2
    Calls <- Once
    Capacity = 5
SPECIFICATION Spec
SYMMETRY Symmetric
INVARIANT WithinPool

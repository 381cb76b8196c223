CONSTANTS
    Threads = {t1, t2}
    MAX_ENTRY_NUM = 2
    BRANCH_BITS = 1
    Key = {0, 1}
    HASH_SIZE = 2
    Calls <- TwiceFirst
    Capacity = 20
SPECIFICATION Spec
SYMMETRY Symmetric
INVARIANT IngestedFound

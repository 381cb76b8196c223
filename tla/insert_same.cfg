CONSTANTS
    Threads = {t1, t2, t3}
    MAX_ENTRY_NUM = 2
    BRANCH_BITS = 1
    Key = {0, 1, 2}
    HASH_SIZE = 2
    Calls <- TwiceFirst
    Capacity = 4
SPECIFICATION Spec
SYMMETRY Symmetric
CONSTRAINT UntilFallThrough
INVARIANTS
    OneWriterPerNode
    ClaimedOnce
    BranchOutExclusive
PROPERTIES
    PublishedStays

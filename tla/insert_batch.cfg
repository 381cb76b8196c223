CONSTANTS
    Threads = {t1, t2, t3}
    MAX_ENTRY_NUM = 1
    BRANCH_BITS = 1
    Key = {0, 1, 2}
    HASH_SIZE = 2
    Calls <- Once
    Capacity = 20
SPECIFICATION FairSpec
INVARIANTS
    TypeOK
    PublishedFindable
    ChildrenApart
    CountersExact
PROPERTIES
    ImplementsEdgeSet
    BatchEnds

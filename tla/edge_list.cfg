CONSTANTS
    Key = {0, 1, 2, 4, 6}
    MAX_ENTRY_NUM = 1
    BRANCH_BITS = 1
    StartLevels = {1, 2, 3}
    INI_EL_SIZE = 1
    MAX_EL_SIZE = 2
    MaxStale = 1
SPECIFICATION Spec
INVARIANTS
    ReadersExact
    ChainPacked

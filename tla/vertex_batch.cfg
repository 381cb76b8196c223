CONSTANTS
    Threads = {t1, t2, t3}
    Inputs <- Batches
    num_vertices = 2
    MAX_ENTRY_NUM = 1
    NUM_BRANCH = 4
SPECIFICATION FairSpec
INVARIANTS
    TypeOK
    OneEntryPerVertex
    EndpointsRight
    BatchChecked
PROPERTIES
    BatchEnds

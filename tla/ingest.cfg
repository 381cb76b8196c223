CONSTANTS
    MIN_KEYS = 2
    num_vertices = 5
    Lines <- MCLines
    MaxLines = 4
    BATCH_SIZE = 3
    THREAD_NUM = 2
SPECIFICATION BSpec
INVARIANTS
    IngestedExact
    BatchFound
    BaselineSound
PROPERTIES
    LoadEnds
CHECK_DEADLOCK FALSE

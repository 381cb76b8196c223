CONSTANTS
    Threads = {t1, t2, t3}
    Inputs <- Star
    num_vertices = 3
    MAX_ENTRY_NUM = 1
    NUM_BRANCH = 4
SPECIFICATION Spec
SYMMETRY Symmetric
INVARIANT NumNodesExact

CONSTANTS
    num_vertices = 3
    CrashPoints = {"setAlignment"}
SPECIFICATION Spec
INVARIANT
    RootsAllocated

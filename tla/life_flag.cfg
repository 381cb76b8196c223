CONSTANTS
    num_vertices = 3
    CrashPoints = {"run"}
SPECIFICATION Spec
INVARIANT
    CrashNoticed

CONSTANTS
    num_vertices = 3
    CrashPoints = {"allocVertices", "run", "setCount", "lastCount"}
SPECIFICATION Spec
INVARIANTS
    IndexMatchesArray
    GraphExact
PROPERTIES
    OneForgotten

CONSTANTS
    num_vertices = 6
    Graphs <- MCGraphs
    INF = 1000
    UNIT = 1200000
    iteration_count = 2
    THRESHOLD = 3
    GAP = 2
SPECIFICATION Spec
INVARIANTS
    DistancesExact
    ComponentsExact
    RanksExact
    CountsExact
    FrontierSound
    RoundsBounded

CONSTANTS
    MIN_KEYS = 2
    Key = {1, 2, 3, 4, 5, 6, 7, 8, 9, 10}
SPECIFICATION Spec
INVARIANTS
    WellFormed
    ReadersAgree
PROPERTIES
    ImplementsKeySet

SPECIFICATION Spec
CONSTANTS
    k1 = k1
    k2 = k2
    k3 = k3
    k4 = k4
    e1 = e1
    e2 = e2
    None = None
    Keys = {k1, k2, k3, k4}
    Sizes = {1, 2, 3, 5}
    Codes = {e1, e2}
    MaxBytes = 4
    ValueCap = 3
    ErrorCap = 2
SYMMETRY Symmetry
INVARIANTS
    BytesExact
    OrderIsEntries
PROPERTIES
    OldestGoesFirst
    ImplementsEntryMap

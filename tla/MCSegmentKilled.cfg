SPECIFICATION Spec
CONSTANTS
    Cores = {c1}
    Requests = {r1, r2}
    Nobody = Nobody
    MaxObjects = 2
SYMMETRY Symmetry
INVARIANT CallsReturn

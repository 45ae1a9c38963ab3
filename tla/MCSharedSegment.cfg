SPECIFICATION Spec
CONSTANTS
    Cores = {c1, c2}
    Requests = {r1, r2}
    Nobody = Nobody
    MaxObjects = 2
SYMMETRY Symmetry
INVARIANT CrashesSeparateNobody
PROPERTIES OnlyCommandsDisarm CrashRestartsKillNobody

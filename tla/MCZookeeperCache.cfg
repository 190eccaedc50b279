SPECIFICATION Spec
CONSTANTS
    k1 = k1
    k2 = k2
    d1 = d1
    d2 = d2
    Keys = {k1, k2}
    Deps = {d1}
    DepsOf <- OneDep
    Adders = {a1, a2}
    Notifiers = {n1}
    Capacity = 1
    MaxLoads = 3
    MaxChanges = 2
    MaxWatchers = 2
    MaxFailures = 1
SYMMETRY AdderSymmetry
INVARIANT TypeOK
INVARIANT ServedStaleIsTold
INVARIANT ObjectsReachable
CHECK_DEADLOCK FALSE

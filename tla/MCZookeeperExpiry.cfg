SPECIFICATION Spec
CONSTANTS
    k1 = k1
    k2 = k2
    d1 = d1
    d2 = d2
    Keys = {k1}
    Deps = {d1, d2}
    DepsOf <- TwoDeps
    Adders = {a1}
    Notifiers = {n1}
    Capacity = 4
    MaxLoads = 1
    MaxChanges = 2
    MaxWatchers = 2
    MaxFailures = 1
PROPERTY ExpiresAreSent
PROPERTY StaleLeaves
CHECK_DEADLOCK FALSE

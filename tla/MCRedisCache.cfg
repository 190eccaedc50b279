SPECIFICATION Spec
CONSTANTS
    Keys = {k1}
    Servers = {s1, s2}
    Capacity = 1
    MaxChanges = 2
    MaxFills = 1
    MaxFailures = 3
INVARIANT TypeOK
INVARIANT Settled
PROPERTY CallsEnd
CHECK_DEADLOCK FALSE

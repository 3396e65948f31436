\* Two families compete for one map slot; everything expires; one restart.
SPECIFICATION Spec
CONSTANTS
    Family = {a, b}
    Call = {c, d, e}
    Root = Root
    None = None
    MaxFamilies = 1
    MaxRevoked = 2
    Ttl = 2
    Grace = 1
    MaxLeg = 1
    MaxTime = 3
    MaxRestarts = 1
SYMMETRY Symmetry
PROPERTY
    RevocationIsFinal
CHECK_DEADLOCK FALSE

\* One subscription at a time; lost replies, process ends, trimming.
SPECIFICATION Spec
CONSTANTS
    None = None
    Names = {n1}
    Subs = {s1}
    Instances = {i1, i2}
    MaxId = 3
    MaxFaults = 1
    MaxRestarts = 2
    StreamMaxLen = 2
    SeqBase = 8
    MaxDigits = 2
    BoundChoices <- ReplayOrNot
SYMMETRY InstanceSymmetry
INVARIANTS TypeOK NoEventLost EndBoundRespected
PROPERTIES KeepsContract NoDuplicateInSession
CHECK_DEADLOCK FALSE

\* Liveness without end bounds and without lost replies.
SPECIFICATION FairSpec
CONSTANTS
    None = None
    Names = {n1}
    Subs = {s1}
    Instances = {i1}
    MaxId = 2
    MaxFaults = 0
    MaxRestarts = 2
    StreamMaxLen = 0
    SeqBase = 10
    MaxDigits = 2
    BoundChoices <- FromFirst
PROPERTIES LoopStops ShutdownCompletes EventuallyProcessed
CHECK_DEADLOCK FALSE

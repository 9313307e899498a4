\* Two triggers, or one removed and added again, and the shutdown of Start.
SPECIFICATION Spec
CONSTANTS
    None = None
    Names = {n1, n2}
    Subs = {s1, s2}
    Instances = {i1}
    MaxId = 2
    MaxFaults = 0
    MaxRestarts = 0
    StreamMaxLen = 0
    SeqBase = 9
    MaxDigits = 2
    BoundChoices <- ReplayEnds
SYMMETRY NameSymmetry
INVARIANTS LoopsTracked CompleteCoversWindow ClosesClean WaitGroupCounts
CHECK_DEADLOCK FALSE

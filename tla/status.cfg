\* Two triggers, another instance, failed calls and a restart.
SPECIFICATION FairSpec
CONSTANTS
    None = None
    Names = {n1, n2}
    MaxChanges = 2
    MaxFaults = 1
    MaxOthers = 1
    MaxRestarts = 1
INVARIANTS ChangesFlagged
PROPERTIES OthersKept StatusReported
CHECK_DEADLOCK FALSE

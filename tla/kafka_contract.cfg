\* A record is committed before its dispatch has returned.
SPECIFICATION Spec
CONSTANTS
    None = None
    Names = {n1}
    Subs = {s1}
    MaxRecords = 1
    MaxDate = 0
    MaxFaults = 0
    MaxRestarts = 0
    BoundChoices <- FromFirstOnly
PROPERTIES MarkedWhenDispatched
CHECK_DEADLOCK FALSE

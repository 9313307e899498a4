\* Two triggers, two configurations and one that cannot be applied.
SPECIFICATION FairSpec
CONSTANTS
    None = None
    Names = {n1, n2}
    Triggers = {t1, t2, bad}
    Unparsable = {bad}
    Dispatches = {d1}
    MaxUpdates = 3
    MaxEvents = 2
    MaxFaults = 1
INVARIANTS TypeOK DispatchSeesOneTrigger ConfigApplied StatusFollowsSubscribers
PROPERTIES LastProcessedKept UpdateEnds
CHECK_DEADLOCK FALSE

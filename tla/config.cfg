\* Each method alone, four changes of its source.
SPECIFICATION FairSpec
CONSTANTS
    Methods = {"watcher", "poller", "secret", "configmap"}
    MaxChanges = 4
    MaxFaults = 1
INVARIANTS QuietIsCurrent StaysWatched
PROPERTIES NeverGoesBack Converges
CHECK_DEADLOCK FALSE

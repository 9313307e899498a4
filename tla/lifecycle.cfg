\* All arguments, a backend whose Subscribe needs Start and one that does not.
SPECIFICATION FairSpec
CONSTANTS
    Backends = {"memory", "redis"}
    MaxObservability = 1
INVARIANTS FollowsItsSource ReadyBeforeServing AllPartsReturn
PROPERTIES ClosedIsFinal ShutdownCompletes
CHECK_DEADLOCK FALSE

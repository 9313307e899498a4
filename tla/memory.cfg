\* Two producers, responses, two triggers, their removal and the shutdown,
\* with a buffer of one event.
SPECIFICATION FairSpec
CONSTANTS
    None = None
    Names = {n1, n2}
    Producers = {p1, p2}
    BufferSize = 1
    MaxEvents = 3
    MaxUpdates = 2
INVARIANTS TypeOK QueueKept NothingLeft DispatchNeverPanics CalledAreSubscribed
PROPERTIES AcceptedIsTaken ShutdownCompletes
CHECK_DEADLOCK FALSE

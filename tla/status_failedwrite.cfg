\* An update of the ConfigMap that fails.
SPECIFICATION Spec
CONSTANTS
    None = None
    Names = {n1}
    MaxChanges = 1
    MaxFaults = 1
    MaxOthers = 0
    MaxRestarts = 0
INVARIANTS FailedWriteRetried
CHECK_DEADLOCK FALSE

SPECIFICATION BootSpec
CONSTANTS
    MaxFailures = 2
    VideoBases = {3584, 3968, 3585}
CHECK_DEADLOCK FALSE
INVARIANT FailedReadsAreRetried

SPECIFICATION BootSpec
CONSTANTS
    MaxFailures = 2
    VideoBases = {3584, 3968, 3585, 3072, 3069, 3089, 1}
\* The kernel takes over, or the machine runs what is not stage 2.
CHECK_DEADLOCK FALSE
INVARIANTS
    BootTypeOK
    Stage2StaysIntact
    ImageInPlace
    MappedOnEntry

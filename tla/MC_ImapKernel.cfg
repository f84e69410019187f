SPECIFICATION FairKernelSpec
CONSTANTS
    WordBits = 2
    Size = 6
    Ratio = 2
    NoBit = 5
    VideoSlots <- MCVideoSlots
    Claimable <- MCClaimable
INVARIANTS
    TypeOK
    PassedIndicesAreFull
    FailOnlyWhenScanned
    RepeatsOnlyPastAFullWord
PROPERTIES
    EventuallyOneAnswer

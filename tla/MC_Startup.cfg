SPECIFICATION StartupSpec
CONSTANTS
    Names <- MCNames
    Contents <- MCContents
    MaxFiles = 2
    NameSize = 3
    Loaded = 16
    ByteSize = 4
    MaxRead = 5
    SlotsScanned = 5
    SlotsPerBus = 2
    CardPlaces <- MCCardPlaces
    StackDescriptors = 2
INVARIANTS
    RamdiskTypeOK
    FindAnswersByName
    FilesReadBack
    CardsAreConfiguredOnce
\* The machine stops at a page fault.
CHECK_DEADLOCK FALSE

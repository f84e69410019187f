SPECIFICATION PagingSpec
CONSTANTS
    WordBits = 2
    Size = 10
    Ratio = 2
    NoBit = 7
    VideoSlots <- MCVideoSlots
    Claimable = {}
    TableSize = 4
    TableIndices <- MCTableIndices
    KernelSpace <- MCKernelSpace
    Dirs = {A}
    MaxTables = 7
    Cleared = 3
    RamContents <- MCRamContents
    DirContents <- MCDirContents
    Video <- MCVideo
    KernelImage <- MCKernelImage
    KernelData <- MCKernelData
    Ramdisk <- MCRamdisk
    KernelStack <- MCKernelStack
    Ranges <- MCRanges
INVARIANTS
    PagingTypeOK
    NoFrameLost
    FramesAreExclusive
    KernelSpaceIsComplete
    MappedPagesArePresent
    ReservedFramesAreMarked

\* The repository's own numbers; the boot sector ends with its jump or in its error loop.
CONSTANTS
    Tries = 3
    Sectors = 30
    ImageSectors = 73
    SectorSize = 512
    LoadAddress = 65536
SPECIFICATION FairBootSpec
INVARIANTS
    LeftAfterWholeRead
    ErrorAfterAllTries
PROPERTY
    BootEnds
CHECK_DEADLOCK FALSE

\* A directory of two clusters, all of whose slots are used.
SPECIFICATION HSpec
CONSTANTS
    SectorSize = 4
    SlotsPerSector = 2
    EntriesPerSector = 4
    BodyLength = 2
    ExtLength = 1
    MENU_SIZE = 2
    BlockSize = 5
    BasicFirst = 3
    BasicMark = 211
    BasicBase = 4
    BasicRom = 40
    BasicRomSize = 3
    OsRom = 50
    OsRomSize = 5
    RomsBasic <- MCRomsBasic
    RomsOs <- MCRomsOs
    Upper = 40
    Pokes = {}
    MaxFailures = 0
    TapHeader <- MCTapHeader
    Layouts <- MCFull
    Volumes <- MCVolumes
INVARIANT EndReported

\* Sectors of four bytes or two slots, pages of two lines, blocks of five
\* bytes; clusters of one and two sectors, root directories of both kinds.
SPECIFICATION HSpec
CONSTANTS
    SectorSize = 4
    SlotsPerSector = 2
    EntriesPerSector = 4
    BodyLength = 2
    ExtLength = 1
    MENU_SIZE = 2
    BlockSize = 5
    BasicFirst = 3
    BasicMark = 211
    BasicBase = 4
    BasicRom = 40
    BasicRomSize = 3
    OsRom = 50
    OsRomSize = 5
    RomsBasic <- MCRomsBasic
    RomsOs <- MCRomsOs
    Upper = 40
    Pokes = {12, 50}
    MaxFailures = 1
    TapHeader <- MCTapHeader
    Layouts <- MCLayouts
    Volumes <- MCVolumes
INVARIANTS MenuShowsPage OsComplete
PROPERTY LoadsProgram

SPECIFICATION FairSpec
CONSTANTS
    Null = Null
    SectorSize = 2
    SectorCount = 2
    Base = 1
    Blocks = {b1}
    b1 = b1
    MaxBuf = 4
    Lengths = {3, 4}
    Offsets = {0, 1}
    MaxCmd = 2
INVARIANTS IoIsSafe PowerFollowsCard
PROPERTIES DiskRefined TransferEnds

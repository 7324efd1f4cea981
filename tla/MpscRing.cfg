SPECIFICATION FairSpec
CONSTANTS
    Producers = {p1, p2}
    Consumer = c
    Values = {a, b}
    Junk = Junk
    ObjNum = 2
    MaxPos = 4
    SizeMod = 16
INVARIANTS
    TypeOK
    IInv
    CellsExclusive
    PopsArePublished
PROPERTIES
    FullOrOvertaken
    ContentionMeansProgress
    WritingDataIsHonest
    ImplementsFifo
    AllDelivered

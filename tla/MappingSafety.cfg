SPECIFICATION HistSpec
CONSTANTS
    p1 = p1
    p2 = p2
    Processes = {p1, p2}
    Geometries <- Given
    BadGeometries <- Wrong
    Blocking <- Blocks
    Total <- Totals
    HeaderSize = 192
    MayAsk <- Asked
    Fds = {0, 3}
    File = File
    MaxHead = 1
    CacheLine = 64
    SizeofRingBuf = 192
    SizeofSlot = 64
    SizeofBRingBuf = 384
    SizeMod = 1048576
INVARIANTS
    TypeOK
    HeaderBacked
    
    OwnRingWhole
PROPERTIES
    NotExistsIsHonest

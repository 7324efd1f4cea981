SPECIFICATION FairSpec
CONSTANTS
    Producers = {p1, p2}
    Consumers = {c1, c2}
    Values = {a, b}
    Junk = Junk
    Nobody = Nobody
    ObjNum = 2
    SizeMod = 4
INVARIANTS
    TypeOK
    NoLostWakeup
PROPERTIES
    ImplementsFifo
    KeepsMoving

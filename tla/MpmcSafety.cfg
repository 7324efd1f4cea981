SPECIFICATION Spec
CONSTANTS
    Producers = {p1, p2}
    Consumers = {c1, c2}
    Values = {a, b}
    Junk = Junk
    ObjNum = 2
    MaxPos = 3
SYMMETRY Symmetry
INVARIANTS
    TypeOK
    IInv
    CellsExclusive
PROPERTIES
    FullIsHonest
    EmptyIsHonest
    ContentionMeansProgress
    ImplementsFifo

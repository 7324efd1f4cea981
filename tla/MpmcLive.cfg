SPECIFICATION FairSpec
CONSTANTS
    Producers = {p1, p2}
    Consumers = {c1, c2}
    Values = {a}
    Junk = Junk
    ObjNum = 2
    MaxPos = 3
PROPERTIES
    AllDelivered

SPECIFICATION ClientFairSpec
CONSTANTS
    r1 = r1
    r2 = r2
    t1 = t1
    t2 = t2
    t3 = t3
    Rings = {r1}
    Threads = {t1, t2}
    ProducerOf <- OneRingProducer
    ConsumerOf <- OneRingConsumer
    Restartable = {t1}
    Values = {a, b}
    Junk = Junk
    ObjNum = 2
    MaxPos = 5
    SizeMod = 16
    Unasked = FALSE
INVARIANTS
    TypeOK
    PushNeedsRoom
    PopNeedsAnObject
    CellsExclusive
    IInv
PROPERTIES
    AnswersHold
    ImplementsFifo
    AllDelivered
    SizeOffByMoves

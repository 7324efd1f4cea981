SPECIFICATION Spec
CONSTANTS
    r1 = r1
    r2 = r2
    t1 = t1
    t2 = t2
    t3 = t3
    Rings = {r1}
    Threads = {t1, t2}
    ProducerOf <- OneRingProducer
    ConsumerOf <- OneRingConsumer
    Restartable = {t2}
    Values = {a}
    Junk = Junk
    ObjNum = 2
    MaxPos = 2
    SizeMod = 16
INVARIANTS
    PopNeedsAnObject

SPECIFICATION Spec
CONSTANTS
    r1 = r1
    r2 = r2
    t1 = t1
    t2 = t2
    t3 = t3
    Rings = {r1, r2}
    Threads = {t1, t2, t3}
    ProducerOf <- FanOutProducer
    ConsumerOf <- FanOutConsumer
    Restartable = {}
    Values = {a}
    Junk = Junk
    ObjNum = 2
    MaxPos = 3
    SizeMod = 16
INVARIANTS
    PushNeedsRoom

------------------------------- MODULE MCSpsc -------------------------------
(* TLC instances of SpscCorrect: which thread is which side of which ring.  *)
EXTENDS SpscCorrect

CONSTANTS r1, r2, t1, t2, t3

\* One ring between two threads.
OneRingProducer == [r \in {r1} |-> t1]
OneRingConsumer == [r \in {r1} |-> t2]

\* One thread pushes into two rings, each with a consumer of its own.
FanOutProducer == [r \in {r1, r2} |-> t1]
FanOutConsumer == [r \in {r1, r2} |-> IF r = r1 THEN t2 ELSE t3]
=============================================================================

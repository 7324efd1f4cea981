------------------------------ MODULE RingIndex ------------------------------
(***************************************************************************)
(* Arithmetic of the cell index.  Every ring keeps position k in cell      *)
(* k & mask_ with mask_ = objNum_ - 1 and objNum_ a power of two, which is *)
(* the remainder k % objNum_.  The facts the rings rest on hold for every  *)
(* number n of cells: the index is in range, it comes back one lap later,  *)
(* positions less than a lap apart never share a cell, and every lap has   *)
(* every cell.  Indices are subtracted modulo the range of size_t.  The    *)
(* last lemmas are about the queue that the cells of a ring stand for.     *)
(***************************************************************************)
EXTENDS Integers, SequenceTheorems, TLAPS

\* Quotient and remainder, as the solver knows them.
LEMMA DivisionWithRemainder ==
    ASSUME NEW n \in Nat, n >= 1, NEW k \in Int
    PROVE  /\ k \div n \in Int
           /\ k % n \in 0 .. n - 1
           /\ k = n * (k \div n) + (k % n)
OBVIOUS

\* Multiples of n are at least n apart.
LEMMA MultiplesApart ==
    ASSUME NEW n \in Nat, n >= 1, NEW a \in Int, NEW b \in Int, a < b
    PROVE  n * a + n <= n * b
<1> DEFINE d == b - (a + 1)
<1>1. d \in Nat
    OBVIOUS
<1>2. n * d >= 0
    BY <1>1
<1>3. n * b - n * (a + 1) = n * d
    OBVIOUS
<1>4. n * (a + 1) = n * a + n
    OBVIOUS
<1>5. n * a \in Int /\ n * b \in Int /\ n * (a + 1) \in Int
    OBVIOUS
<1> HIDE DEF d
<1> QED
    BY <1>2, <1>3, <1>4, <1>5

\* Two numbers with the same remainder that are less than n apart are equal.
LEMMA SameCellSamePosition ==
    ASSUME NEW n \in Nat, n >= 1, NEW j \in Int, NEW k \in Int,
           j % n = k % n, j - k < n, k - j < n
    PROVE  j = k
<1> DEFINE a == j \div n
           b == k \div n
<1>1. a \in Int /\ b \in Int
    BY DivisionWithRemainder
<1>2. n * a \in Int /\ n * b \in Int /\ j % n \in Int
    BY <1>1, DivisionWithRemainder
<1>3. j = n * a + (j % n) /\ k = n * b + (j % n)
    BY DivisionWithRemainder
<1> HIDE DEF a, b
<1>4. ~ (a < b)
    BY <1>1, <1>2, <1>3, MultiplesApart
<1>5. ~ (b < a)
    BY <1>1, <1>2, <1>3, MultiplesApart
<1> QED
    BY <1>1, <1>3, <1>4, <1>5

\* A position and its successor one lap later share a cell.
LEMMA SameCellNextLap ==
    ASSUME NEW n \in Nat, n >= 1, NEW k \in Int
    PROVE  (k + n) % n = k % n
<1> DEFINE a == (k + n) \div n
           b == k \div n + 1
           r == (k + n) % n
           s == k % n
<1>1. a \in Int /\ b \in Int /\ r \in 0 .. n - 1 /\ s \in 0 .. n - 1
    BY DivisionWithRemainder
<1>2. k + n = n * a + r
    BY DivisionWithRemainder
<1>3. k + n = n * b + s
    <2>1. k = n * (k \div n) + s /\ k \div n \in Int
        BY DivisionWithRemainder
    <2>2. n * b = n * (k \div n) + n
        BY <2>1
    <2>3. n * (k \div n) \in Int
        BY <2>1
    <2> QED
        BY <1>1, <2>1, <2>2, <2>3
<1>4. n * a \in Int /\ n * b \in Int
    BY <1>1
<1> HIDE DEF a, b, r, s
<1>5. ~ (a < b)
    BY <1>1, <1>2, <1>3, <1>4, MultiplesApart
<1>6. ~ (b < a)
    BY <1>1, <1>2, <1>3, <1>4, MultiplesApart
<1>7. a = b
    BY <1>1, <1>5, <1>6
<1>8. r = s
    BY <1>1, <1>2, <1>3, <1>4, <1>7
<1> QED
    BY <1>8 DEF r, s

\* Among any n consecutive positions there is one for each cell.
LEMMA EveryLapHasTheCell ==
    ASSUME NEW n \in Nat, n >= 1, NEW e \in Int, NEW base \in Int
    PROVE  \E k \in base .. base + n - 1 : k % n = e % n
<1> DEFINE q == (e - base) \div n
           r == (e - base) % n
           k == base + r
           a == k \div n
           b == e \div n
<1>1. q \in Int /\ r \in 0 .. n - 1 /\ e - base = n * q + r
    BY DivisionWithRemainder
<1>2. k \in base .. base + n - 1
    BY <1>1
<1>3. /\ a \in Int /\ b \in Int
      /\ k % n \in 0 .. n - 1 /\ e % n \in 0 .. n - 1
      /\ k = n * a + (k % n) /\ e = n * b + (e % n)
    BY <1>2, DivisionWithRemainder
<1>4. n * q \in Int /\ n * a \in Int /\ n * b \in Int /\ n * (a + q) \in Int
    BY <1>1, <1>3
<1>5. e = k + n * q
    BY <1>1, <1>4
<1>6. n * (a + q) = n * a + n * q
    BY <1>1, <1>3
<1>7. e = n * (a + q) + (k % n)
    BY <1>3, <1>4, <1>5, <1>6
<1> HIDE DEF q, r, a, b, k
<1>8. a + q \in Int
    BY <1>1, <1>3
<1>9. ~ (a + q < b)
    BY <1>3, <1>4, <1>7, <1>8, MultiplesApart
<1>10. ~ (b < a + q)
    BY <1>3, <1>4, <1>7, <1>8, MultiplesApart
<1>11. k % n = e % n
    <2>1. a + q = b
        BY <1>3, <1>8, <1>9, <1>10
    <2> QED
        BY <2>1, <1>3, <1>4, <1>7
<1> QED
    BY <1>2, <1>11
\* Subtraction modulo m, as that of size_t is, is that of the integers while the
\* operands are in order; the wrong way round it is at least m - w, if they are at
\* most w apart.
LEMMA ModularSubtraction ==
    ASSUME NEW m \in Nat, NEW w \in Nat, w < m,
           NEW a \in 0 .. w, NEW b \in 0 .. w
    PROVE  /\ b <= a => (a - b) % m = a - b
           /\ a < b => (a - b) % m >= m - w
<1>1. CASE b <= a
    <2>1. a - b \in 0 .. m - 1
        BY <1>1
    <2> QED
        BY <1>1, <2>1
<1>2. CASE a < b
    <2> DEFINE d == a - b
               q == d \div m
               r == d % m
    <2>1. d \in -w .. -1 /\ m >= 1
        BY <1>2
    <2>2. q \in Int /\ r \in 0 .. m - 1 /\ d = m * q + r
        BY <2>1, DivisionWithRemainder
    <2>3. m * q \in Int
        BY <2>2
    <2> HIDE DEF d, q, r
    <2>4. ~ (-1 < q)
        <3>1. SUFFICES ASSUME q >= 0 PROVE FALSE
            BY <2>2
        <3>2. m * q >= 0
            BY <2>2, <3>1
        <3> QED
            BY <2>1, <2>2, <2>3, <3>2
    <2>5. m * q <= -m
        <3>1. q < 0
            BY <2>2, <2>4
        <3>2. m * q + m <= m * 0
            BY <2>1, <2>2, <3>1, MultiplesApart
        <3> QED
            BY <2>3, <3>2
    <2>6. r >= m - w
        BY <2>1, <2>2, <2>3, <2>5
    <2> QED
        BY <1>2, <2>6 DEF r, d
<1> QED
    BY <1>1, <1>2

\* Moved by whole laps, a position keeps its cell: so it does when an index of a
\* range that is a multiple of n goes round.
LEMMA WholeLaps ==
    ASSUME NEW n \in Nat, n >= 1, NEW k \in Int, NEW m \in Int, m % n = 0
    PROVE  (k + m) % n = k % n
<1> DEFINE a == (k + m) \div n
           b == k \div n + m \div n
           r == (k + m) % n
           s == k % n
<1>1. /\ a \in Int /\ k \div n \in Int /\ m \div n \in Int
      /\ r \in 0 .. n - 1 /\ s \in 0 .. n - 1
      /\ k + m = n * a + r
      /\ k = n * (k \div n) + s
      /\ m = n * (m \div n) + (m % n)
    BY DivisionWithRemainder
<1>2. n * (k \div n + m \div n) = n * (k \div n) + n * (m \div n)
    BY <1>1
<1>3. n * (k \div n) \in Int /\ n * (m \div n) \in Int /\ b \in Int /\ n * a \in Int /\ n * b \in Int
    BY <1>1
<1>4. n * a + r = n * b + s
    BY <1>1, <1>2, <1>3
<1> HIDE DEF a, b, r, s
<1>5. ~ (a < b)
    BY <1>1, <1>3, <1>4, MultiplesApart
<1>6. ~ (b < a)
    BY <1>1, <1>3, <1>4, MultiplesApart
<1>7. a = b
    BY <1>1, <1>3, <1>5, <1>6
<1>8. r = s
    BY <1>1, <1>3, <1>4, <1>7
<1> QED
    BY <1>8 DEF r, s

-----------------------------------------------------------------------------
(* The queue a ring stands for is a function of the index in the queue. *)

\* A function on 1 .. n is a sequence of length n.
LEMMA FunctionIsSequence ==
    ASSUME NEW S, NEW n \in Nat, NEW f \in [1 .. n -> S]
    PROVE  f \in Seq(S) /\ Len(f) = n
<1>1. f \in Seq(S)
    BY SeqDef
<1> QED
    BY <1>1, LenProperties

\* One element more at the end; the first one gone; one element more in front.
LEMMA AppendedSequence ==
    ASSUME NEW S, NEW n \in Nat, NEW v \in S, NEW f \in [1 .. n -> S], NEW g \in [1 .. n + 1 -> S],
           \A i \in 1 .. n : g[i] = f[i], g[n + 1] = v
    PROVE  g = Append(f, v)
<1>1. f \in Seq(S) /\ Len(f) = n /\ g \in Seq(S) /\ Len(g) = n + 1
    BY FunctionIsSequence
<1>2. /\ Append(f, v) \in Seq(S)
      /\ Len(Append(f, v)) = Len(f) + 1
      /\ \A i \in 1 .. Len(f) : Append(f, v)[i] = f[i]
      /\ Append(f, v)[Len(f) + 1] = v
    BY <1>1, AppendProperties
<1>3. ASSUME NEW i \in 1 .. n + 1 PROVE g[i] = Append(f, v)[i]
    BY <1>1, <1>2
<1> QED
    BY <1>1, <1>2, <1>3, SeqEqual

LEMMA RestOfSequence ==
    ASSUME NEW S, NEW n \in Nat, n > 0, NEW f \in [1 .. n -> S], NEW g \in [1 .. n - 1 -> S],
           \A i \in 1 .. n - 1 : g[i] = f[i + 1]
    PROVE  f # << >> /\ Head(f) = f[1] /\ g = Tail(f)
<1>1. f \in Seq(S) /\ Len(f) = n /\ g \in Seq(S) /\ Len(g) = n - 1
    <2>1. n - 1 \in Nat
        OBVIOUS
    <2> QED
        BY <2>1, FunctionIsSequence
<1>2. f # << >>
    BY <1>1, EmptySeq
<1>3. /\ Tail(f) \in Seq(S)
      /\ Len(Tail(f)) = Len(f) - 1
      /\ \A i \in 1 .. Len(Tail(f)) : Tail(f)[i] = f[i + 1]
    BY <1>1, <1>2, HeadTailProperties
<1>4. g = Tail(f)
    BY <1>1, <1>3, SeqEqual
<1>5. Head(f) = f[1]
    OBVIOUS
<1> QED
    BY <1>2, <1>4, <1>5

LEMMA PrependedSequence ==
    ASSUME NEW S, NEW n \in Nat, NEW v \in S, NEW f \in [1 .. n -> S], NEW g \in [1 .. n + 1 -> S],
           \A i \in 1 .. n : g[i + 1] = f[i], g[1] = v
    PROVE  g = <<v>> \o f
<1>1. f \in Seq(S) /\ Len(f) = n /\ g \in Seq(S) /\ Len(g) = n + 1
    BY FunctionIsSequence
<1>2. <<v>> \in Seq(S) /\ Len(<<v>>) = 1 /\ <<v>>[1] = v
    OBVIOUS
<1>3. /\ <<v>> \o f \in Seq(S)
      /\ Len(<<v>> \o f) = 1 + n
      /\ \A i \in 1 .. 1 + n : (<<v>> \o f)[i] = IF i <= 1 THEN <<v>>[i] ELSE f[i - 1]
    BY <1>1, <1>2, ConcatProperties
<1>4. ASSUME NEW i \in 1 .. n + 1 PROVE g[i] = (<<v>> \o f)[i]
    <2>1. CASE i = 1
        BY <1>2, <1>3, <2>1
    <2>2. CASE i # 1
        <3>1. i - 1 \in 1 .. n /\ g[(i - 1) + 1] = f[i - 1] /\ (i - 1) + 1 = i
            BY <2>2
        <3> QED
            BY <1>3, <2>2, <3>1
    <2> QED
        BY <2>1, <2>2
<1> QED
    BY <1>1, <1>3, <1>4, SeqEqual
\* The objects o has at n positions, from the oldest on.
QueueOf(o, from, n) == [i \in 1 .. n |-> o[from + i - 1]]

\* What the steps of a ring do to it, if the positions it already has keep their
\* objects: nothing, one more behind, one more in front, the first one gone.
QueueKept(S, o, u, from, n) ==
    /\ o \in [Int -> S] /\ u \in [Int -> S] /\ from \in Int /\ n \in Nat
    /\ \A k \in from .. from + n - 1 : u[k] = o[k]

QueueResult(o, u, from, n) ==
    /\ Len(QueueOf(o, from, n)) = n
    /\ QueueOf(u, from, n) = QueueOf(o, from, n)
    /\ QueueOf(u, from, n + 1) = Append(QueueOf(o, from, n), u[from + n])
    /\ QueueOf(u, from - 1, n + 1) = <<u[from - 1]>> \o QueueOf(o, from, n)
    /\ n > 0 => /\ QueueOf(o, from, n) # << >>
                /\ Head(QueueOf(o, from, n)) = o[from]
                /\ Tail(QueueOf(o, from, n)) = QueueOf(u, from + 1, n - 1)

LEMMA QueueSteps ==
    ASSUME NEW S, NEW o, NEW u, NEW from, NEW n, QueueKept(S, o, u, from, n)
    PROVE  QueueResult(o, u, from, n)
<1> USE DEF QueueKept, QueueResult
<1> DEFINE q == QueueOf(o, from, n)
<1>1. q \in [1 .. n -> S] /\ \A i \in 1 .. n : q[i] = o[from + i - 1] /\ u[from + i - 1] = q[i]
    BY DEF QueueOf
<1>2. Len(q) = n
    BY <1>1, FunctionIsSequence
<1>3. QueueOf(u, from, n) = q
    BY <1>1 DEF QueueOf
<1>4. QueueOf(u, from, n + 1) = Append(q, u[from + n])
    <2> DEFINE g == QueueOf(u, from, n + 1)
    <2>1. g \in [1 .. n + 1 -> S] /\ \A i \in 1 .. n + 1 : g[i] = u[from + i - 1]
        BY DEF QueueOf
    <2>2. g[n + 1] = u[from + n] /\ u[from + n] \in S
        <3>1. n + 1 \in 1 .. n + 1 /\ from + (n + 1) - 1 = from + n /\ from + n \in Int
            OBVIOUS
        <3> QED
            BY <2>1, <3>1
    <2>3. \A i \in 1 .. n : g[i] = q[i]
        BY <1>1, <2>1
    <2> HIDE DEF g, q
    <2>4. g = Append(q, u[from + n])
        BY <1>1, <2>1, <2>2, <2>3, AppendedSequence
    <2> QED
        BY <2>4 DEF g
<1>5. QueueOf(u, from - 1, n + 1) = <<u[from - 1]>> \o q
    <2> DEFINE g == QueueOf(u, from - 1, n + 1)
    <2>1. g \in [1 .. n + 1 -> S] /\ \A i \in 1 .. n + 1 : g[i] = u[(from - 1) + i - 1]
        BY DEF QueueOf
    <2>2. g[1] = u[from - 1] /\ u[from - 1] \in S
        <3>1. 1 \in 1 .. n + 1 /\ (from - 1) + 1 - 1 = from - 1 /\ from - 1 \in Int
            OBVIOUS
        <3> QED
            BY <2>1, <3>1
    <2>3. ASSUME NEW i \in 1 .. n PROVE g[i + 1] = q[i]
        <3>1. i + 1 \in 1 .. n + 1 /\ (from - 1) + (i + 1) - 1 = from + i - 1
            OBVIOUS
        <3> QED
            BY <1>1, <2>1, <3>1
    <2> HIDE DEF g, q
    <2>4. g = <<u[from - 1]>> \o q
        BY <1>1, <2>1, <2>2, <2>3, PrependedSequence
    <2> QED
        BY <2>4 DEF g
<1>6. ASSUME n > 0
      PROVE  q # << >> /\ Head(q) = o[from] /\ Tail(q) = QueueOf(u, from + 1, n - 1)
    <2> DEFINE g == QueueOf(u, from + 1, n - 1)
    <2>1. g \in [1 .. n - 1 -> S] /\ \A i \in 1 .. n - 1 : g[i] = u[(from + 1) + i - 1]
        BY DEF QueueOf
    <2>2. ASSUME NEW i \in 1 .. n - 1 PROVE g[i] = q[i + 1]
        <3>1. i + 1 \in 1 .. n /\ (from + 1) + i - 1 = from + (i + 1) - 1
            OBVIOUS
        <3> QED
            BY <1>1, <2>1, <3>1
    <2>3. q[1] = o[from]
        <3>1. 1 \in 1 .. n /\ from + 1 - 1 = from
            BY <1>6
        <3> QED
            BY <1>1, <3>1
    <2> HIDE DEF g, q
    <2>4. q # << >> /\ Head(q) = q[1] /\ g = Tail(q)
        BY <1>1, <1>6, <2>1, <2>2, RestOfSequence
    <2> QED
        BY <2>3, <2>4 DEF g
<1> QED
    BY <1>2, <1>3, <1>4, <1>5, <1>6

\* The object of each position, if threads P copy theirs to the cells b after they
\* have claimed a position: until then it is in their arguments v.
HeldOf(P, n, f, e, v, b) ==
    [k \in Int |->
        IF \E p \in P : f[p] = "copy" /\ e[p] = k
        THEN v[CHOOSE p \in P : f[p] = "copy" /\ e[p] = k]
        ELSE b[k % n]]

\* Each of them has a position to itself.
HeldInputs(S, P, n, f, e, v, b) ==
    /\ n \in Nat /\ n >= 1
    /\ b \in [0 .. n - 1 -> S] /\ \A p \in P : v[p] \in S
    /\ \A p, q \in P : f[p] = "copy" /\ f[q] = "copy" /\ e[p] = e[q] => p = q

HeldResult(S, P, n, f, e, v, b, h) ==
    /\ h \in [Int -> S]
    /\ \A p \in P : f[p] = "copy" /\ e[p] \in Int => h[e[p]] = v[p]
    /\ \A k \in Int : (\A p \in P : f[p] = "copy" => e[p] # k) => h[k] = b[k % n]

LEMMA HeldFacts ==
    ASSUME NEW S, NEW P, NEW n, NEW f, NEW e, NEW v, NEW b, HeldInputs(S, P, n, f, e, v, b)
    PROVE  HeldResult(S, P, n, f, e, v, b, HeldOf(P, n, f, e, v, b))
<1> USE DEF HeldInputs, HeldResult
<1> DEFINE h == HeldOf(P, n, f, e, v, b)
<1>1. ASSUME NEW k \in Int, NEW p \in P, f[p] = "copy", e[p] = k
      PROVE  h[k] = v[p] /\ v[p] \in S
    <2>1. (CHOOSE q \in P : f[q] = "copy" /\ e[q] = k) = p
        BY <1>1
    <2> QED
        BY <1>1, <2>1 DEF HeldOf
<1>2. ASSUME NEW k \in Int, \A p \in P : f[p] = "copy" => e[p] # k
      PROVE  h[k] = b[k % n] /\ b[k % n] \in S
    BY <1>2, DivisionWithRemainder DEF HeldOf
<1>3. h = [k \in Int |-> h[k]]
    BY DEF HeldOf
<1> HIDE DEF h
<1>4. h \in [Int -> S]
    BY <1>1, <1>2, <1>3
<1> QED
    BY <1>1, <1>2, <1>4 DEF h
=============================================================================

---------------------- MODULE StreamingDocumenter_proofs ----------------------
(***************************************************************************)
(* What the streaming documenter has read and found, however its document  *)
(* was cut into chunks, invocations and crashes: for every document, every *)
(* query and every limit.                                                  *)
(***************************************************************************)
EXTENDS StreamingDocumenter, SequenceTheorems, FiniteSetTheorems,
        WellFoundedInduction, TLAPS

-----------------------------------------------------------------------------
(* Induction over a stretch of the integers, and recursive functions on it. *)

\* A set of natural numbers has a least element.
LEMMA Smallest ==
    ASSUME NEW T, T \subseteq Nat, T # {}
    PROVE  \E x \in T : \A y \in T : x <= y
<1> DEFINE less == OpToRel(<, Nat)
<1>1. IsWellFoundedOn(less, Nat)
    BY NatLessThanWellFounded, Zenon
<1>2. \A x, y \in Nat : y < x => <<y, x>> \in less
    <2>1. \A x, y \in Nat : <<y, x>> \in Nat \X Nat /\ <<y, x>>[1] = y /\ <<y, x>>[2] = x
        OBVIOUS
    <2> QED BY <2>1, Zenon DEF OpToRel
<1> HIDE DEF less
<1>3. PICK x \in T : \A y \in T : ~ (<<y, x>> \in less)
    BY <1>1, WFMin, Zenon
<1>4. \A y \in T : ~ (y < x)
    BY <1>2, <1>3
<1> QED BY <1>4, SMT

\* So has one of integers that has a lower bound.
LEMMA Lowest ==
    ASSUME NEW T, NEW low \in Int, T \subseteq Int, \A x \in T : low <= x, T # {}
    PROVE  \E x \in T : \A y \in T : x <= y
<1> DEFINE U == {k \in Nat : low + k \in T}
<1>1. PICK z \in T : TRUE
    OBVIOUS
<1>2. z - low \in U
    <2>1. z \in Int /\ low <= z
        BY <1>1
    <2>2. z - low \in Nat /\ low + (z - low) = z
        BY <2>1
    <2> QED BY <1>1, <2>2
<1>3. PICK k \in U : \A j \in U : k <= j
    BY <1>2, Smallest
<1>4. ASSUME NEW y \in T PROVE low + k <= y
    <2>1. y \in Int /\ low <= y /\ y - low \in Nat /\ low + (y - low) = y
        BY <1>4
    <2>2. k <= y - low
        BY <1>3, <1>4, <2>1
    <2> QED BY <1>3, <2>1, <2>2
<1> QED BY <1>3, <1>4

LEMMA Highest ==
    ASSUME NEW T, NEW high \in Int, T \subseteq Int, \A x \in T : x <= high, T # {}
    PROVE  \E x \in T : \A y \in T : y <= x
<1> DEFINE U == {k \in Int : -k \in T}
<1>1. \A x \in T : -x \in U
    <2> SUFFICES ASSUME NEW x \in T PROVE -x \in U
        OBVIOUS
    <2>1. x \in Int /\ -x \in Int /\ -(-x) = x
        OBVIOUS
    <2> QED BY <2>1
<1>2. U \subseteq Int /\ U # {} /\ -high \in Int /\ \A k \in U : -high <= k
    <2>1. ASSUME NEW k \in U PROVE k \in Int /\ -high <= k
        <3>1. k \in Int /\ -k <= high
            OBVIOUS
        <3> QED BY <3>1
    <2>2. U # {}
        BY <1>1
    <2> QED BY <2>1, <2>2
<1> HIDE DEF U
<1>3. PICK k \in U : \A j \in U : k <= j
    BY <1>2, Lowest
<1>4. k \in Int /\ -k \in T
    BY <1>3 DEF U
<1>5. \A y \in T : y <= -k
    <2> SUFFICES ASSUME NEW y \in T PROVE y <= -k
        OBVIOUS
    <2>1. k <= -y /\ y \in Int
        BY <1>1, <1>3
    <2> QED BY <1>4, <2>1
<1> QED BY <1>4, <1>5

\* Induction from low to high.
LEMMA Induction ==
    ASSUME NEW low \in Int, NEW high \in Int, NEW T, low \in T,
           \A n \in low + 1 .. high : n - 1 \in T => n \in T
    PROVE  low .. high \subseteq T
<1> SUFFICES ASSUME ~ (low .. high \subseteq T) PROVE FALSE
    OBVIOUS
<1> DEFINE U == {n \in low .. high : n \notin T}
<1>1. PICK n \in U : \A m \in U : n <= m
    <2>1. U # {} /\ U \subseteq Int /\ \A x \in U : low <= x
        OBVIOUS
    <2> QED BY <2>1, Lowest
<1>2. n \in low .. high /\ n \notin T /\ n # low
    BY <1>1
<1>3. n \in low + 1 .. high /\ n - 1 \in low .. high /\ ~ (n <= n - 1)
    BY <1>2
<1>4. n - 1 \in T
    BY <1>1, <1>3
<1> QED BY <1>2, <1>3, <1>4

\* There is a function from low to high: step[n, v] is the value at n, v the one before.
Recurses(V, low, high, base, step) ==
    \E c \in [low .. high -> V] :
        c = [n \in low .. high |-> IF n = low THEN base ELSE step[<<n, c[n - 1]>>]]

LEMMA Recursion ==
    ASSUME NEW V, NEW low \in Int, NEW high \in Int, low <= high, NEW base \in V,
           NEW step \in [Int \X V -> V]
    PROVE  Recurses(V, low, high, base, step)
<1> DEFINE Good(c, k) ==
              /\ c \in [low .. k -> V] /\ c[low] = base
              /\ \A n \in low + 1 .. k : c[n] = step[<<n, c[n - 1]>>]
           T == {k \in low .. high : \E c : Good(c, k)}
<1>1. low \in T
    <2> DEFINE c == [n \in low .. low |-> base]
    <2>1. c \in [low .. low -> V] /\ c[low] = base /\ low + 1 .. low = {}
        OBVIOUS
    <2> HIDE DEF c
    <2>2. Good(c, low)
        BY <2>1
    <2>3. low \in low .. high
        OBVIOUS
    <2> QED BY <2>2, <2>3
<1>2. ASSUME NEW k \in low + 1 .. high, k - 1 \in T
      PROVE  k \in T
    <2>1. PICK c : Good(c, k - 1)
        BY <1>2
    <2>2. /\ k \in Int /\ low <= k - 1 /\ k \in low .. high /\ k - 1 \in low .. k - 1
          /\ \A n \in low .. k : n = k \/ n \in low .. k - 1
          /\ \A n \in low .. k - 1 : n \in low .. k /\ n # k
          /\ k \in low .. k
        OBVIOUS
    <2> DEFINE last == step[<<k, c[k - 1]>>]
               d == [n \in low .. k |-> IF n = k THEN last ELSE c[n]]
    <2>3. c \in [low .. k - 1 -> V] /\ c[low] = base
          /\ \A n \in low + 1 .. k - 1 : c[n] = step[<<n, c[n - 1]>>]
        BY <2>1
    <2>4. last \in V
        <3>1. c[k - 1] \in V
            BY <2>2, <2>3
        <3>2. <<k, c[k - 1]>> \in Int \X V
            BY <2>2, <3>1
        <3> QED BY <3>2
    <2>5. d \in [low .. k -> V] /\ d[k] = last /\ \A n \in low .. k - 1 : d[n] = c[n]
        <3> HIDE DEF last
        <3> QED BY <2>2, <2>3, <2>4
    <2> HIDE DEF d
    <2>6. \A n \in low + 1 .. k : d[n] = step[<<n, d[n - 1]>>]
        <3> SUFFICES ASSUME NEW n \in low + 1 .. k PROVE d[n] = step[<<n, d[n - 1]>>]
            OBVIOUS
        <3>1. CASE n = k
            BY <2>2, <2>5, <3>1
        <3>2. CASE n # k
            <4>1. n \in low + 1 .. k - 1 /\ n \in low .. k - 1 /\ n - 1 \in low .. k - 1
                BY <3>2
            <4> QED BY <2>3, <2>5, <4>1
        <3> QED BY <3>1, <3>2
    <2>7. d[low] = base
        <3>1. low \in low .. k - 1
            BY <2>2
        <3> QED BY <2>3, <2>5, <3>1
    <2>8. Good(d, k)
        BY <2>5, <2>6, <2>7
    <2> HIDE DEF Good
    <2> QED BY <2>2, <2>8
<1>3. high \in T
    <2> HIDE DEF T
    <2>1. low .. high \subseteq T
        BY <1>1, <1>2, Induction
    <2> QED BY <2>1
<1>4. PICK c : Good(c, high)
    BY <1>3
<1>5. c = [n \in low .. high |-> IF n = low THEN base ELSE step[<<n, c[n - 1]>>]]
    <2>1. \A n \in low .. high :
              c[n] = IF n = low THEN base ELSE step[<<n, c[n - 1]>>]
        <3>1. \A n \in low .. high : n = low \/ n \in low + 1 .. high
            OBVIOUS
        <3> QED BY <1>4, <3>1
    <2>2. c \in [low .. high -> V]
        BY <1>4
    <2> QED BY <2>1, <2>2
<1>6. c \in [low .. high -> V]
    BY <1>4
<1> QED BY <1>5, <1>6, Zenon DEF Recurses

-----------------------------------------------------------------------------
(* Offsets in order.                                                       *)

\* The offsets of S before each offset, in order: what InOrder goes through.
Before(S) ==
    LET before[p \in 0 .. NoLimit] ==
            IF p = 0 THEN <<>>
            ELSE IF p - 1 \in S THEN Append(before[p - 1], p - 1) ELSE before[p - 1]
    IN  before

LEMMA BeforeDefined ==
    ASSUME NEW S
    PROVE  /\ Before(S)[0] = <<>>
           /\ \A p \in 1 .. NoLimit :
                 /\ p - 1 \in S => Before(S)[p] = Append(Before(S)[p - 1], p - 1)
                 /\ p - 1 \notin S => Before(S)[p] = Before(S)[p - 1]
<1> DEFINE V == Seq(Int)
           base == <<>>
           step == [x \in Int \X V |-> IF x[1] - 1 \in S THEN Append(x[2], x[1] - 1) ELSE x[2]]
           body(c) == [p \in 0 .. NoLimit |->
                          IF p = 0 THEN <<>>
                          ELSE IF p - 1 \in S THEN Append(c[p - 1], p - 1) ELSE c[p - 1]]
<1>1. step \in [Int \X V -> V]
    <2>1. \A x \in Int \X V : x[1] - 1 \in Int /\ x[2] \in V
        OBVIOUS
    <2>2. \A q \in V : \A i \in Int : Append(q, i) \in V
        OBVIOUS
    <2> HIDE DEF V
    <2> QED BY <2>1, <2>2
<1>2. base \in V /\ 0 \in Int /\ NoLimit \in Int /\ 0 <= NoLimit
    BY StreamingAssumption
<1>3. \A n \in Int : \A v \in V : step[<<n, v>>] = IF n - 1 \in S THEN Append(v, n - 1) ELSE v
    <2>1. \A n \in Int : \A v \in V : <<n, v>> \in Int \X V /\ <<n, v>>[1] = n /\ <<n, v>>[2] = v
        OBVIOUS
    <2> HIDE DEF V
    <2> QED BY <2>1
<1> HIDE DEF V, base, step
<1>a. \E c \in [0 .. NoLimit -> V] :
          c = [n \in 0 .. NoLimit |-> IF n = 0 THEN base ELSE step[<<n, c[n - 1]>>]]
    <2>1. Recurses(V, 0, NoLimit, base, step)
        BY <1>1, <1>2, Recursion
    <2> QED BY <2>1, Zenon DEF Recurses
<1>4. PICK c \in [0 .. NoLimit -> V] :
          c = [n \in 0 .. NoLimit |-> IF n = 0 THEN <<>> ELSE step[<<n, c[n - 1]>>]]
    BY <1>a, Zenon DEF base
<1>5. c = body(c)
    <2>1. \A n \in 0 .. NoLimit : n # 0 => n \in Int /\ c[n - 1] \in V
        BY <1>2, <1>4
    <2>2. \A n \in 0 .. NoLimit :
              (IF n = 0 THEN <<>> ELSE step[<<n, c[n - 1]>>])
              = (IF n = 0 THEN <<>>
                 ELSE IF n - 1 \in S THEN Append(c[n - 1], n - 1) ELSE c[n - 1])
        BY <1>3, <2>1
    <2> QED BY <1>4, <2>2
<1>6. Before(S) = body(Before(S))
    BY <1>5, Zenon DEF Before
<1> DEFINE b == Before(S)
<1> HIDE DEF b
<1>7. b = [p \in 0 .. NoLimit |->
              IF p = 0 THEN <<>>
              ELSE IF p - 1 \in S THEN Append(b[p - 1], p - 1) ELSE b[p - 1]]
    BY <1>6, Zenon DEF b
<1>8. \A p \in 0 .. NoLimit :
          b[p] = IF p = 0 THEN <<>>
                 ELSE IF p - 1 \in S THEN Append(b[p - 1], p - 1) ELSE b[p - 1]
    BY <1>7, Zenon
<1>9. 0 \in 0 .. NoLimit /\ \A p \in 1 .. NoLimit : p \in 0 .. NoLimit /\ p # 0
    BY <1>2
<1>10. b[0] = <<>> /\ \A p \in 1 .. NoLimit :
          /\ p - 1 \in S => b[p] = Append(b[p - 1], p - 1)
          /\ p - 1 \notin S => b[p] = b[p - 1]
    BY <1>8, <1>9, Zenon
<1> QED BY <1>10 DEF b

\* q lists the offsets of S that lie before p, in increasing order.
Lists(q, S, p) ==
    /\ q \in Seq(Nat)
    /\ \A i \in 1 .. Len(q) : q[i] \in S /\ q[i] < p
    /\ \A i, j \in 1 .. Len(q) : i < j => q[i] < q[j]
    /\ \A x \in S : x < p => \E i \in 1 .. Len(q) : q[i] = x

LEMMA BeforeLists ==
    ASSUME NEW S, S \subseteq Nat
    PROVE  \A p \in 0 .. NoLimit : Lists(Before(S)[p], S, p)
<1> DEFINE T == {p \in 0 .. NoLimit : Lists(Before(S)[p], S, p)}
<1>1. 0 \in Int /\ NoLimit \in Int /\ 0 <= NoLimit
    BY StreamingAssumption
<1>2. 0 \in T
    <2>1. Before(S)[0] = <<>>
        BY BeforeDefined
    <2>2. Lists(<<>>, S, 0)
        <3>1. <<>> \in Seq(Nat) /\ Len(<<>>) = 0 /\ 1 .. 0 = {}
            OBVIOUS
        <3>2. \A x \in S : ~ (x < 0)
            OBVIOUS
        <3> QED BY <3>1, <3>2 DEF Lists
    <2> QED BY <1>1, <2>1, <2>2
<1>3. ASSUME NEW p \in 0 + 1 .. NoLimit, p - 1 \in T
      PROVE  p \in T
    <2> DEFINE q == Before(S)[p - 1]
    <2>1. /\ q \in Seq(Nat)
          /\ \A i \in 1 .. Len(q) : q[i] \in S /\ q[i] < p - 1
          /\ \A i, j \in 1 .. Len(q) : i < j => q[i] < q[j]
          /\ \A x \in S : x < p - 1 => \E i \in 1 .. Len(q) : q[i] = x
        BY <1>3 DEF Lists
    <2>2. p \in 1 .. NoLimit /\ p \in 0 .. NoLimit /\ p - 1 \in Nat /\ p - 1 < p
        BY <1>1
    <2>3. CASE p - 1 \in S
        <3> DEFINE r == Append(q, p - 1)
        <3>1. Before(S)[p] = r
            BY <2>2, <2>3, BeforeDefined
        <3> HIDE DEF q
        <3>2. /\ r \in Seq(Nat) /\ Len(r) = Len(q) + 1 /\ r[Len(q) + 1] = p - 1
              /\ \A i \in 1 .. Len(q) : r[i] = q[i]
              /\ Len(q) \in Nat
            BY <2>1, <2>2
        <3> HIDE DEF r
        <3>3. \A i \in 1 .. Len(r) : i \in 1 .. Len(q) \/ i = Len(q) + 1
            BY <3>2
        <3>4. \A i \in 1 .. Len(r) : r[i] \in S /\ r[i] < p
            <4>1. \A i \in 1 .. Len(q) : r[i] \in S /\ r[i] < p
                <5>1. \A i \in 1 .. Len(q) : q[i] \in Nat /\ q[i] \in S /\ q[i] < p - 1
                    BY <2>1
                <5> QED BY <2>2, <3>2, <5>1
            <4> QED BY <2>2, <2>3, <3>2, <3>3, <4>1
        <3>5. \A i, j \in 1 .. Len(r) : i < j => r[i] < r[j]
            <4> SUFFICES ASSUME NEW i \in 1 .. Len(r), NEW j \in 1 .. Len(r), i < j
                         PROVE  r[i] < r[j]
                OBVIOUS
            <4>1. i \in 1 .. Len(q)
                BY <3>2
            <4>2. CASE j \in 1 .. Len(q)
                BY <2>1, <3>2, <4>1, <4>2
            <4>3. CASE j = Len(q) + 1
                BY <2>1, <3>2, <4>1, <4>3
            <4> QED BY <3>3, <4>2, <4>3
        <3>6. \A x \in S : x < p => \E i \in 1 .. Len(r) : r[i] = x
            <4> SUFFICES ASSUME NEW x \in S, x < p PROVE \E i \in 1 .. Len(r) : r[i] = x
                OBVIOUS
            <4>1. CASE x = p - 1
                <5>1. Len(q) + 1 \in 1 .. Len(r)
                    BY <3>2
                <5> QED BY <3>2, <4>1, <5>1
            <4>2. CASE x < p - 1
                <5>1. PICK i \in 1 .. Len(q) : q[i] = x
                    BY <2>1, <4>2
                <5>2. i \in 1 .. Len(r)
                    BY <3>2
                <5> QED BY <3>2, <5>1, <5>2
            <4>3. x = p - 1 \/ x < p - 1
                BY <2>2
            <4> QED BY <4>1, <4>2, <4>3
        <3> QED BY <2>2, <3>1, <3>2, <3>4, <3>5, <3>6 DEF Lists
    <2>4. CASE p - 1 \notin S
        <3>1. Before(S)[p] = q
            BY <2>2, <2>4, BeforeDefined
        <3> HIDE DEF q
        <3>2. \A i \in 1 .. Len(q) : q[i] \in S /\ q[i] < p
            <4>1. \A i \in 1 .. Len(q) : q[i] \in Nat /\ q[i] \in S /\ q[i] < p - 1
                BY <2>1
            <4> QED BY <2>2, <4>1
        <3>3. \A x \in S : x < p => x < p - 1
            BY <2>2, <2>4
        <3> QED BY <2>1, <2>2, <3>1, <3>2, <3>3 DEF Lists
    <2> QED BY <2>3, <2>4
<1> HIDE DEF T
<1>4. 0 .. NoLimit \subseteq T
    BY <1>1, <1>2, <1>3, Induction
<1> QED BY <1>4 DEF T

\* InOrder lists the whole set, increasing.
LEMMA InOrderLists ==
    ASSUME NEW S, S \subseteq 0 .. NoLimit - 1
    PROVE  Lists(InOrder(S), S, NoLimit)
<1>1. InOrder(S) = Before(S)[NoLimit]
    BY Zenon DEF InOrder, Before
<1>2. S \subseteq Nat /\ NoLimit \in 0 .. NoLimit
    BY StreamingAssumption
<1> QED BY <1>1, <1>2, BeforeLists

\* Append goes to the end of the second of two joined sequences.
JoinsAtEnd(a, b, x) == Append(a \o b, x) = a \o Append(b, x)

LEMMA AppendJoined ==
    ASSUME NEW S, NEW a \in Seq(S), NEW b \in Seq(S), NEW x \in S
    PROVE  JoinsAtEnd(a, b, x)
<1>1. a \o b \in Seq(S) /\ <<x>> \in Seq(S)
    BY ConcatProperties
<1>2. Append(a \o b, x) = (a \o b) \o <<x>> /\ Append(b, x) = b \o <<x>>
    BY <1>1, AppendIsConcat
<1> QED BY <1>1, <1>2, ConcatAssociative DEF JoinsAtEnd

\* Offsets that all lie behind the others come after them.
LEMMA InOrderJoined ==
    ASSUME NEW A, NEW B, A \subseteq 0 .. NoLimit - 1, B \subseteq 0 .. NoLimit - 1,
           \A a \in A : \A b \in B : a < b
    PROVE  InOrder(A \cup B) = InOrder(A) \o InOrder(B)
<1> DEFINE C == A \cup B
           T == {p \in 0 .. NoLimit : Before(C)[p] = Before(A)[p] \o Before(B)[p]}
<1>1. 0 \in Int /\ NoLimit \in Int /\ 0 <= NoLimit /\ A \subseteq Nat /\ B \subseteq Nat
    BY StreamingAssumption
<1>2. 0 \in T
    <2>1. <<>> \o <<>> = <<>> /\ 0 \in 0 .. NoLimit
        BY <1>1
    <2>2. \A S : Before(S)[0] = <<>>
        BY BeforeDefined, Zenon
    <2> QED BY <2>1, <2>2, Zenon
<1>3. ASSUME NEW p \in 0 + 1 .. NoLimit, p - 1 \in T
      PROVE  p \in T
    <2> DEFINE a == Before(A)[p - 1]
               b == Before(B)[p - 1]
    <2>1. /\ p \in 1 .. NoLimit /\ p \in 0 .. NoLimit /\ p - 1 \in 0 .. NoLimit
          /\ p - 1 \in Nat
        BY <1>1
    <2>2. Before(C)[p - 1] = a \o b
        BY <1>3
    <2>3. /\ a \in Seq(Nat) /\ b \in Seq(Nat)
          /\ \A i \in 1 .. Len(b) : b[i] \in B /\ b[i] < p - 1
        BY <1>1, <2>1, BeforeLists DEF Lists
    <2>4. CASE p - 1 \in A
        <3>1. b = <<>>
            <4>1. \A i \in 1 .. Len(b) : p - 1 < b[i] /\ b[i] < p - 1 /\ b[i] \in Nat
                BY <2>3, <2>4
            <4>2. 1 .. Len(b) = {}
                BY <2>1, <4>1
            <4>3. Len(b) = 0
                BY <2>3, <4>2
            <4> QED BY <2>3, <4>3
        <3>2. p - 1 \notin B /\ p - 1 \in C
            BY <2>1, <2>4
        <3>3. Before(A)[p] = Append(a, p - 1) /\ Before(B)[p] = b
              /\ Before(C)[p] = Append(a \o b, p - 1)
            BY <2>1, <2>2, <2>4, <3>2, BeforeDefined
        <3>4. Append(a \o <<>>, p - 1) = Append(a, p - 1) \o <<>>
            BY <2>1, <2>3
        <3> QED BY <2>1, <3>1, <3>3, <3>4
    <2>5. CASE p - 1 \in B
        <3>1. p - 1 \notin A /\ p - 1 \in C
            BY <2>1, <2>5
        <3>2. Before(A)[p] = a /\ Before(B)[p] = Append(b, p - 1)
              /\ Before(C)[p] = Append(a \o b, p - 1)
            BY <2>1, <2>2, <2>5, <3>1, BeforeDefined
        <3>3. Append(a \o b, p - 1) = a \o Append(b, p - 1)
            <4> HIDE DEF a, b
            <4>1. a \in Seq(Nat) /\ b \in Seq(Nat) /\ p - 1 \in Nat
                BY <2>1, <2>3
            <4>2. JoinsAtEnd(a, b, p - 1)
                BY <4>1, AppendJoined
            <4> QED BY <4>2, Zenon DEF JoinsAtEnd
        <3> QED BY <2>1, <3>2, <3>3
    <2>6. CASE p - 1 \notin C
        <3>1. Before(A)[p] = a /\ Before(B)[p] = b /\ Before(C)[p] = a \o b
            BY <2>1, <2>2, <2>6, BeforeDefined
        <3> QED BY <2>1, <3>1
    <2> QED BY <2>4, <2>5, <2>6
<1> HIDE DEF T
<1>4. 0 .. NoLimit \subseteq T
    BY <1>1, <1>2, <1>3, Induction
<1>5. Before(C)[NoLimit] = Before(A)[NoLimit] \o Before(B)[NoLimit]
    <2>1. NoLimit \in 0 .. NoLimit
        BY <1>1
    <2> QED BY <1>4, <2>1 DEF T
<1>6. \A S : InOrder(S) = Before(S)[NoLimit]
    BY Zenon DEF InOrder, Before
<1> QED BY <1>5, <1>6

-----------------------------------------------------------------------------
(* The document and its chunks.                                            *)

LEMMA DocumentSize ==
    ASSUME subject \in Subjects
    PROVE  /\ Size \in Nat /\ 0 < Size /\ Size < NoLimit /\ NoLimit \in Nat
           /\ Len(query) \in Nat /\ 0 < Len(query) /\ Len(query) < NoLimit
<1>1. NoLimit \in Nat /\ Len(subject.doc) \in 1 .. NoLimit - 1
      /\ Len(subject.query) \in 1 .. NoLimit - 1
    BY StreamingAssumption
<1> QED BY <1>1 DEF Size, doc, query

\* The places where lines end behind first, up to behind.
Ends(first, behind) == {p \in first + 1 .. behind : doc[p] = "n"}

LEMMA EndsFinite ==
    ASSUME NEW first \in Int, NEW behind \in Int
    PROVE  IsFiniteSet(Ends(first, behind))
<1>1. IsFiniteSet(first + 1 .. behind)
    BY FS_Interval
<1> QED BY <1>1, FS_Subset DEF Ends

LEMMA LinesEndedType ==
    ASSUME NEW first \in Int, NEW behind \in Int
    PROVE  LinesEnded(first, behind) \in Nat
<1>1. LinesEnded(first, behind) = Cardinality(Ends(first, behind))
    BY Zenon DEF LinesEnded, Ends
<1> QED BY <1>1, EndsFinite, FS_CardinalityType

LEMMA LinesEndedNone ==
    ASSUME NEW first \in Int
    PROVE  LinesEnded(first, first) = 0
<1>1. Ends(first, first) = {}
    BY DEF Ends
<1>2. LinesEnded(first, first) = Cardinality(Ends(first, first))
    BY Zenon DEF LinesEnded, Ends
<1> QED BY <1>1, <1>2, FS_EmptySet

\* The lines that end in two stretches, one behind the other.
LEMMA LinesEndedJoined ==
    ASSUME NEW first \in Int, NEW mid \in Int, NEW behind \in Int,
           first <= mid, mid <= behind
    PROVE  LinesEnded(first, behind) = LinesEnded(first, mid) + LinesEnded(mid, behind)
<1>1. Ends(first, behind) = Ends(first, mid) \cup Ends(mid, behind)
      /\ Ends(first, mid) \cap Ends(mid, behind) = {}
    BY DEF Ends
<1>2. IsFiniteSet(Ends(first, mid)) /\ IsFiniteSet(Ends(mid, behind))
    BY EndsFinite
<1>3. Cardinality(Ends(first, behind))
          = Cardinality(Ends(first, mid)) + Cardinality(Ends(mid, behind))
    <2> DEFINE a == Ends(first, mid)
               b == Ends(mid, behind)
    <2> HIDE DEF a, b
    <2>1. Cardinality(a \cup b) = Cardinality(a) + Cardinality(b) - Cardinality(a \cap b)
        BY <1>2, FS_Union DEF a, b
    <2>2. Cardinality(a \cap b) = 0
        BY <1>1, FS_EmptySet DEF a, b
    <2>3. Cardinality(a) \in Nat /\ Cardinality(b) \in Nat
        BY <1>2, FS_CardinalityType DEF a, b
    <2> QED BY <1>1, <2>1, <2>2, <2>3 DEF a, b
<1>4. \A f, b : LinesEnded(f, b) = Cardinality(Ends(f, b))
    BY Zenon DEF LinesEnded, Ends
<1> QED BY <1>3, <1>4, Zenon

LEMMA LineOfType ==
    ASSUME NEW p \in Nat
    PROVE  LineOf(p) \in Nat \ {0}
<1>1. LinesEnded(0, p) \in Nat
    BY LinesEndedType
<1> QED BY <1>1 DEF LineOf

LEMMA LineOfLater ==
    ASSUME NEW p \in Nat, NEW q \in Nat, p <= q
    PROVE  LineOf(q) = LineOf(p) + LinesEnded(p, q)
<1>1. LinesEnded(0, q) = LinesEnded(0, p) + LinesEnded(p, q)
    BY LinesEndedJoined
<1>2. LinesEnded(0, p) \in Nat /\ LinesEnded(p, q) \in Nat
    BY LinesEndedType
<1> QED BY <1>1, <1>2 DEF LineOf

LEMMA ChunkRight ==
    ASSUME subject \in Subjects, args \in Arguments, state.next \in 0 .. Size, MoreToRead
    PROVE  /\ ChunkEnd \in Nat /\ state.next < ChunkEnd /\ ChunkEnd <= Size
           /\ Chunk \in Stretch /\ Chunk[1] = state.next /\ Chunk[2] = ChunkEnd
<1>1. Size \in Nat /\ Size < NoLimit /\ NoLimit \in Nat
    BY DocumentSize
<1>2. args.chunkBytes \in Nat /\ args.maxBytes \in Nat
    BY StreamingAssumption
<1>3. ByteLimit(args, state.next) \in Nat /\ ByteLimit(args, state.next) <= Size
    BY <1>1, <1>2 DEF ByteLimit, Least, Most
<1>4. ChunkEnd \in Nat /\ ChunkEnd <= Size
    BY <1>1, <1>2, <1>3 DEF ChunkEnd, Least
<1>5. state.next < ChunkEnd
    BY <1>1, <1>4 DEF MoreToRead
<1> QED BY <1>1, <1>4, <1>5 DEF Chunk, Stretch

-----------------------------------------------------------------------------
(* Sequences: those that fit a limit, and those that are joined.           *)

LEMMA FittingRight ==
    ASSUME NEW S, NEW entries \in Seq(S), NEW have \in Nat, NEW limit \in Nat
    PROVE  /\ Fitting(entries, have, limit) \in Seq(S)
           /\ Len(Fitting(entries, have, limit)) = Least(Len(entries), limit - Least(limit, have))
           /\ Len(Fitting(entries, have, limit)) \in 0 .. Len(entries)
           /\ \A i \in 1 .. Len(Fitting(entries, have, limit)) :
                 Fitting(entries, have, limit)[i] = entries[i]
<1> DEFINE n == Least(Len(entries), limit - Least(limit, have))
           kept == SubSeq(entries, 1, n)
<1>1. Len(entries) \in Nat /\ n \in 0 .. Len(entries)
    <2>1. Len(entries) \in Nat
        BY LenProperties
    <2> QED BY <2>1 DEF Least
<1> HIDE DEF n
<1>2. \A i \in 1 .. n : entries[i] \in S
    BY <1>1, ElementOfSeq
<1>3. kept \in Seq(S) /\ Len(kept) = n /\ \A i \in 1 .. n : kept[i] = entries[i]
    <2>1. n \in Int /\ 1 \in Int
        BY <1>1
    <2>2. kept \in Seq(S) /\ Len(kept) = (IF 1 <= n THEN n - 1 + 1 ELSE 0)
          /\ \A i \in 1 .. n - 1 + 1 : kept[i] = entries[1 + i - 1]
        BY <1>2, <2>1, SubSeqProperties
    <2> HIDE DEF kept
    <2>3. n - 1 + 1 = n /\ (1 <= n \/ n = 0)
        BY <1>1
    <2>4. \A i \in 1 .. n : 1 + i - 1 = i
        BY <1>1
    <2> QED BY <2>2, <2>3, <2>4
<1>4. Fitting(entries, have, limit) = kept
    BY DEF Fitting, n
<1> QED BY <1>1, <1>3, <1>4 DEF n

\* The joins of the first of these sequences, as FlattenSeq makes them.
Joins(seqs) ==
    LET flatten[i \in 1 .. Len(seqs)] ==
            IF i = 1 THEN seqs[i] ELSE flatten[i - 1] \o seqs[i]
    IN  flatten

LEMMA JoinsDefined ==
    ASSUME NEW S, NEW seqs \in Seq(Seq(S)), seqs # <<>>
    PROVE  /\ Joins(seqs) \in [1 .. Len(seqs) -> Seq(S)]
           /\ Joins(seqs)[1] = seqs[1]
           /\ \A i \in 2 .. Len(seqs) : Joins(seqs)[i] = Joins(seqs)[i - 1] \o seqs[i]
<1> DEFINE V == Seq(S)
           n == Len(seqs)
           base == seqs[1]
           step == [x \in Int \X V |-> IF x[1] \in 1 .. n THEN x[2] \o seqs[x[1]] ELSE x[2]]
<1>1. n \in Nat /\ 1 <= n /\ \A i \in 1 .. n : seqs[i] \in V
    <2>1. n \in Nat /\ (seqs # <<>> => n # 0)
        BY EmptySeq
    <2> QED BY <2>1, ElementOfSeq
<1> HIDE DEF n
<1>2. \A a, b \in V : a \o b \in V
    BY ConcatProperties
<1> HIDE DEF V
<1>3. step \in [Int \X V -> V]
    <2>1. \A x \in Int \X V : (IF x[1] \in 1 .. n THEN x[2] \o seqs[x[1]] ELSE x[2]) \in V
        BY <1>1, <1>2
    <2> QED BY <2>1
<1>4. \A i \in Int : \A v \in V : step[<<i, v>>] = IF i \in 1 .. n THEN v \o seqs[i] ELSE v
    <2>1. \A i \in Int : \A v \in V : <<i, v>> \in Int \X V /\ <<i, v>>[1] = i /\ <<i, v>>[2] = v
        OBVIOUS
    <2> QED BY <2>1
<1> HIDE DEF step, base
<1>5. base \in V
    BY <1>1 DEF base
<1>6. PICK c \in [1 .. n -> V] :
          c = [i \in 1 .. n |-> IF i = 1 THEN base ELSE step[<<i, c[i - 1]>>]]
    <2>1. 1 \in Int /\ n \in Int
        BY <1>1
    <2>2. Recurses(V, 1, n, base, step)
        BY <1>1, <1>3, <1>5, <2>1, Recursion
    <2> QED BY <2>2, Zenon DEF Recurses
<1>7. c = [i \in 1 .. n |-> IF i = 1 THEN seqs[i] ELSE c[i - 1] \o seqs[i]]
    <2>1. \A i \in 1 .. n : i # 1 => i \in Int /\ c[i - 1] \in V
        BY <1>1, <1>6
    <2>2. \A i \in 1 .. n : (IF i = 1 THEN base ELSE step[<<i, c[i - 1]>>])
                            = (IF i = 1 THEN seqs[i] ELSE c[i - 1] \o seqs[i])
        BY <1>4, <2>1 DEF base
    <2> QED BY <1>6, <2>2
<1> DEFINE body(d) == [i \in 1 .. n |-> IF i = 1 THEN seqs[i] ELSE d[i - 1] \o seqs[i]]
           j == Joins(seqs)
<1>8. \E d : d = body(d)
    BY <1>7
<1>9. j = body(j)
    BY <1>8, Zenon DEF Joins, n
<1> HIDE DEF j
<1>10. \A i \in 1 .. n : j[i] = IF i = 1 THEN seqs[i] ELSE j[i - 1] \o seqs[i]
    BY <1>9
<1>11. 1 \in 1 .. n /\ \A i \in 2 .. n : i \in 1 .. n /\ i # 1
    BY <1>1
<1>12. j[1] = seqs[1] /\ \A i \in 2 .. n : j[i] = j[i - 1] \o seqs[i]
    BY <1>10, <1>11, Zenon
<1>13. j \in [1 .. n -> V]
    <2> DEFINE T == {i \in 1 .. n : j[i] \in V}
    <2>1. 1 \in T
        BY <1>1, <1>11, <1>12
    <2>2. ASSUME NEW i \in 1 + 1 .. n, i - 1 \in T PROVE i \in T
        <3>1. i \in 2 .. n /\ i \in 1 .. n
            BY <1>1
        <3>2. j[i] = j[i - 1] \o seqs[i]
            BY <1>12, <3>1
        <3> QED BY <1>1, <1>2, <2>2, <3>1, <3>2
    <2> HIDE DEF T
    <2>3. 1 .. n \subseteq T
        <3>1. 1 \in Int /\ n \in Int
            BY <1>1
        <3> QED BY <2>1, <2>2, <3>1, Induction
    <2>4. \A i \in 1 .. n : j[i] \in V
        BY <2>3 DEF T
    <2>5. j = [i \in 1 .. n |-> j[i]]
        BY <1>9
    <2> QED BY <2>4, <2>5
<1> QED BY <1>12, <1>13 DEF j, n, V

LEMMA FlattenSeqJoins ==
    ASSUME NEW S, NEW seqs \in Seq(Seq(S))
    PROVE  /\ seqs = <<>> => FlattenSeq(seqs) = <<>>
           /\ seqs # <<>> => FlattenSeq(seqs) = Joins(seqs)[Len(seqs)]
           /\ FlattenSeq(seqs) \in Seq(S)
<1>1. Len(seqs) \in Nat /\ (Len(seqs) = 0 <=> seqs = <<>>)
    BY EmptySeq, LenProperties
<1>2. CASE seqs = <<>>
    <2>1. FlattenSeq(seqs) = seqs
        BY <1>1, <1>2, Zenon DEF FlattenSeq
    <2> QED BY <1>2, <2>1, EmptySeq
<1>3. CASE seqs # <<>>
    <2>1. FlattenSeq(seqs) = Joins(seqs)[Len(seqs)]
        BY <1>1, <1>3, Zenon DEF FlattenSeq, Joins
    <2>2. Joins(seqs) \in [1 .. Len(seqs) -> Seq(S)]
        BY <1>3, JoinsDefined, Zenon
    <2>4. Len(seqs) \in 1 .. Len(seqs)
        BY <1>1, <1>3
    <2>3. Joins(seqs)[Len(seqs)] \in Seq(S)
        BY <2>2, <2>4
    <2> QED BY <1>3, <2>1, <2>3
<1> QED BY <1>2, <1>3

\* The joins of the first sequences are the same whatever follows them.
LEMMA JoinsPrefix ==
    ASSUME NEW S, NEW seqs \in Seq(Seq(S)), NEW x \in Seq(S), seqs # <<>>
    PROVE  \A i \in 1 .. Len(seqs) : Joins(Append(seqs, x))[i] = Joins(seqs)[i]
<1> DEFINE more == Append(seqs, x)
           n == Len(seqs)
           T == {i \in 1 .. n : Joins(more)[i] = Joins(seqs)[i]}
<1>1. /\ more \in Seq(Seq(S)) /\ more # <<>> /\ Len(more) = n + 1
      /\ \A i \in 1 .. n : more[i] = seqs[i]
    BY AppendProperties
<1>2. n \in Nat /\ 1 <= n
    BY EmptySeq
<1> HIDE DEF more, n
<1>3. Joins(seqs)[1] = seqs[1]
      /\ \A i \in 2 .. n : Joins(seqs)[i] = Joins(seqs)[i - 1] \o seqs[i]
    BY JoinsDefined, Zenon DEF n
<1>4. Joins(more)[1] = more[1]
      /\ \A i \in 2 .. Len(more) : Joins(more)[i] = Joins(more)[i - 1] \o more[i]
    BY <1>1, JoinsDefined, Zenon
<1>5. 1 \in T
    BY <1>1, <1>2, <1>3, <1>4
<1>6. ASSUME NEW i \in 1 + 1 .. n, i - 1 \in T PROVE i \in T
    <2>1. i \in 2 .. n /\ i \in 1 .. n /\ i \in 2 .. Len(more)
        BY <1>1, <1>2
    <2> QED BY <1>1, <1>3, <1>4, <1>6, <2>1
<1> HIDE DEF T
<1>7. 1 .. n \subseteq T
    <2>1. 1 \in Int /\ n \in Int
        BY <1>2
    <2> QED BY <1>5, <1>6, <2>1, Induction
<1> QED BY <1>7 DEF T, n, more

LEMMA FlattenAppended ==
    ASSUME NEW S, NEW seqs \in Seq(Seq(S)), NEW x \in Seq(S)
    PROVE  FlattenSeq(Append(seqs, x)) = FlattenSeq(seqs) \o x
<1> DEFINE more == Append(seqs, x)
           n == Len(seqs)
<1>1. /\ more \in Seq(Seq(S)) /\ more # <<>> /\ Len(more) = n + 1
      /\ more[n + 1] = x
    BY AppendProperties
<1>2. n \in Nat /\ (n = 0 <=> seqs = <<>>)
    BY EmptySeq, LenProperties
<1>3. seqs # <<>> => \A i \in 1 .. n : Joins(more)[i] = Joins(seqs)[i]
    BY JoinsPrefix, Zenon
<1> HIDE DEF more, n
<1>4. FlattenSeq(more) = Joins(more)[n + 1]
    BY <1>1, FlattenSeqJoins
<1>5. Joins(more)[1] = more[1]
      /\ \A i \in 2 .. Len(more) : Joins(more)[i] = Joins(more)[i - 1] \o more[i]
    BY <1>1, JoinsDefined, Zenon
<1>6. CASE seqs = <<>>
    <2>1. FlattenSeq(seqs) = <<>>
        BY <1>6, FlattenSeqJoins, Zenon
    <2>2. n + 1 = 1
        BY <1>2, <1>6
    <2>3. <<>> \o x = x
        BY ConcatEmptySeq
    <2> QED BY <1>1, <1>4, <1>5, <2>1, <2>2, <2>3 DEF more
<1>7. CASE seqs # <<>>
    <2>1. FlattenSeq(seqs) = Joins(seqs)[n]
        BY <1>7, FlattenSeqJoins, Zenon DEF n
    <2>2. n + 1 \in 2 .. Len(more) /\ n + 1 - 1 = n /\ n \in 1 .. n
        BY <1>1, <1>2, <1>7
    <2>3. Joins(more)[n + 1] = Joins(more)[n] \o more[n + 1]
        <3>1. PICK m \in 2 .. Len(more) : m = n + 1
            BY <2>2
        <3>2. Joins(more)[m] = Joins(more)[m - 1] \o more[m]
            BY <1>5
        <3>3. m - 1 = n
            BY <1>2, <3>1
        <3> QED BY <3>1, <3>2, <3>3, Zenon
    <2>4. Joins(more)[n] = Joins(seqs)[n]
        BY <1>3, <1>7, <2>2
    <2> QED BY <1>1, <1>4, <2>1, <2>3, <2>4 DEF more
<1> QED BY <1>6, <1>7

\* A sequence grows by its next element.
LEMMA SubSeqGrows ==
    ASSUME NEW S, NEW seq \in Seq(S), NEW k \in 1 .. Len(seq)
    PROVE  /\ SubSeq(seq, 1, k) = Append(SubSeq(seq, 1, k - 1), seq[k])
           /\ SubSeq(seq, 1, k - 1) \in Seq(S) /\ SubSeq(seq, 1, k) \in Seq(S)
           /\ seq[k] \in S
<1>1. /\ Len(seq) \in Nat /\ k \in Int /\ k - 1 \in Int /\ 1 \in 1 .. Len(seq) /\ 1 \in Int
      /\ \A i \in 1 .. k : i \in 1 .. Len(seq)
      /\ \A i \in 1 .. k - 1 : i \in 1 .. Len(seq)
    BY LenProperties
<1>2. \A i \in 1 .. Len(seq) : seq[i] \in S
    BY ElementOfSeq
<1>3. SubSeq(seq, 1, k - 1) \in Seq(S)
    <2>1. \A i \in 1 .. k - 1 : seq[i] \in S
        BY <1>1, <1>2
    <2> QED BY <1>1, <2>1, SubSeqProperties
<1>4. SubSeq(seq, 1, k) \in Seq(S)
    <2>1. \A i \in 1 .. k : seq[i] \in S
        BY <1>1, <1>2
    <2> QED BY <1>1, <2>1, SubSeqProperties
<1>5. SubSeq(seq, 1, k) = SubSeq(seq, 1, k - 1) \o <<seq[k]>>
    <2>1. k \in 1 .. Len(seq)
        OBVIOUS
    <2> QED BY <1>1, <2>1, SubSeqRecursiveSecond
<1>6. Append(SubSeq(seq, 1, k - 1), seq[k]) = SubSeq(seq, 1, k - 1) \o <<seq[k]>>
    <2> DEFINE t == SubSeq(seq, 1, k - 1)
               x == seq[k]
    <2>1. x \in S /\ t \in Seq(S)
        BY <1>2, <1>3
    <2> HIDE DEF t, x
    <2>2. Append(t, x) = t \o <<x>>
        BY <2>1, AppendIsConcat
    <2> QED BY <2>2 DEF t, x
<1>7. SubSeq(seq, 1, k) = Append(SubSeq(seq, 1, k - 1), seq[k])
    BY <1>5, <1>6, Zenon
<1> QED BY <1>2, <1>3, <1>4, <1>7

Associates(a, b, c) == (a \o b) \o c = a \o (b \o c)

LEMMA JoiningAssociates ==
    ASSUME NEW S, NEW a \in Seq(S), NEW b \in Seq(S), NEW c \in Seq(S)
    PROVE  Associates(a, b, c)
BY ConcatAssociative DEF Associates

FlattensApart(a, b) == FlattenSeq(a \o b) = FlattenSeq(a) \o FlattenSeq(b)

LEMMA FlattenJoined ==
    ASSUME NEW S, NEW a \in Seq(Seq(S)), NEW b \in Seq(Seq(S))
    PROVE  FlattensApart(a, b)
<1> DEFINE p(k) == SubSeq(b, 1, k)
           T == {k \in 0 .. Len(b) : FlattensApart(a, p(k))}
<1>1. Len(b) \in Nat /\ 0 \in Int /\ Len(b) \in Int
    BY LenProperties
<1>2. 0 \in T
    <2>1. p(0) = <<>>
        BY SubSeqEmpty
    <2>2. a \o <<>> = a /\ FlattenSeq(<<>>) = <<>> /\ <<>> \in Seq(Seq(S))
        <3>1. a \o <<>> = a
            BY ConcatEmptySeq
        <3>2. <<>> \in Seq(Seq(S))
            BY EmptySeq
        <3> QED BY <3>1, <3>2, FlattenSeqJoins, Zenon
    <2>3. FlattenSeq(a) \in Seq(S)
        BY FlattenSeqJoins
    <2>4. FlattenSeq(a) \o <<>> = FlattenSeq(a)
        BY <2>3, ConcatEmptySeq
    <2>5. 0 \in 0 .. Len(b)
        BY <1>1
    <2> HIDE DEF p
    <2> QED BY <2>1, <2>2, <2>4, <2>5 DEF FlattensApart
<1>3. ASSUME NEW k \in 0 + 1 .. Len(b), k - 1 \in T PROVE k \in T
    <2>1. k \in 1 .. Len(b) /\ k \in 0 .. Len(b)
        BY <1>1
    <2>2. p(k) = Append(p(k - 1), b[k]) /\ p(k - 1) \in Seq(Seq(S)) /\ b[k] \in Seq(S)
        BY <2>1, SubSeqGrows
    <2> DEFINE q == p(k - 1)
               x == b[k]
    <2>3. q \in Seq(Seq(S)) /\ x \in Seq(S) /\ p(k) = Append(q, x)
          /\ FlattenSeq(a \o q) = FlattenSeq(a) \o FlattenSeq(q)
        BY <1>3, <2>2 DEF FlattensApart
    <2> HIDE DEF p, q, x
    <2>4. JoinsAtEnd(a, q, x)
        BY <2>3, AppendJoined
    <2>5. a \o q \in Seq(Seq(S)) /\ FlattenSeq(a) \in Seq(S) /\ FlattenSeq(q) \in Seq(S)
        <3>1. a \o q \in Seq(Seq(S))
            BY <2>3, ConcatProperties
        <3>2. FlattenSeq(a) \in Seq(S)
            BY FlattenSeqJoins
        <3>3. FlattenSeq(q) \in Seq(S)
            BY <2>3, FlattenSeqJoins
        <3> QED BY <3>1, <3>2, <3>3
    <2>6. FlattenSeq(Append(a \o q, x)) = FlattenSeq(a \o q) \o x
        BY <2>3, <2>5, FlattenAppended
    <2>7. FlattenSeq(Append(q, x)) = FlattenSeq(q) \o x
        BY <2>3, FlattenAppended
    <2>8. (FlattenSeq(a) \o FlattenSeq(q)) \o x = FlattenSeq(a) \o (FlattenSeq(q) \o x)
        <3> DEFINE c == FlattenSeq(a)
                   d == FlattenSeq(q)
        <3>1. c \in Seq(S) /\ d \in Seq(S) /\ x \in Seq(S)
            BY <2>3, <2>5
        <3> HIDE DEF c, d
        <3>2. Associates(c, d, x)
            BY <3>1, JoiningAssociates
        <3> QED BY <3>2, Zenon DEF Associates, c, d
    <2>9. FlattenSeq(a \o Append(q, x)) = FlattenSeq(a) \o FlattenSeq(Append(q, x))
        BY <2>3, <2>4, <2>6, <2>7, <2>8, Zenon DEF JoinsAtEnd
    <2> QED BY <2>1, <2>3, <2>9 DEF FlattensApart
<1> HIDE DEF T
<1>4. 0 .. Len(b) \subseteq T
    BY <1>1, <1>2, <1>3, Induction
<1>5. Len(b) \in T
    BY <1>1, <1>4
<1>6. p(Len(b)) = b
    BY SubSeqFull
<1> QED BY <1>5, <1>6 DEF T

LEMMA ProductType ==
    ASSUME NEW a \in Nat, NEW b \in Nat
    PROVE  a * b \in Nat
OBVIOUS

\* Batches of m fill n places: all but the last full, and none is empty.
LEMMA BatchesFill ==
    ASSUME NEW length \in Nat, NEW m \in Nat \ {0}
    PROVE  /\ (length + m - 1) \div m \in Nat
           /\ length <= ((length + m - 1) \div m) * m
           /\ \A i \in 1 .. (length + m - 1) \div m : (i - 1) * m \in 0 .. length - 1
<1> DEFINE n == (length + m - 1) \div m
<1>1. n \in Nat /\ n * m <= length + m - 1 /\ length + m - 1 < n * m + m
    OBVIOUS
<1> HIDE DEF n
<1>2. length <= n * m
    <2>1. n * m \in Nat
        BY <1>1, ProductType
    <2> QED BY <1>1, <2>1
<1>3. ASSUME NEW i \in 1 .. n PROVE (i - 1) * m \in 0 .. length - 1
    <2>1. (n - i) * m \in Nat /\ (i - 1) * m \in Nat
        <3>1. n - i \in Nat /\ i - 1 \in Nat
            BY <1>1
        <3> QED BY <3>1, ProductType
    <2>2. n * m = (n - i) * m + (i - 1) * m + m
        BY <1>1
    <2> QED BY <1>1, <2>1, <2>2
<1> QED BY <1>1, <1>2, <1>3 DEF n

LEMMA MergeBatchesRight ==
    ASSUME NEW S, NEW frontier \in Seq(Seq(S))
    PROVE  /\ MergeBatches(frontier) \in Seq(Seq(S))
           /\ FlattenSeq(MergeBatches(frontier)) = FlattenSeq(frontier)
<1> DEFINE f == frontier
           n == (Len(f) + MaxSummaries - 1) \div MaxSummaries
           bound(i) == Least(i * MaxSummaries, Len(f))
           batch(i) == SubSeq(f, (i - 1) * MaxSummaries + 1, bound(i))
           merged == [i \in 1 .. n |-> FlattenSeq(batch(i))]
           first(i) == SubSeq(f, 1, bound(i))
           T == {i \in 0 .. n : FlattenSeq(SubSeq(merged, 1, i)) = FlattenSeq(first(i))}
<1>1. MergeBatches(f) = merged
    BY DEF MergeBatches
<1>2. Len(f) \in Nat /\ MaxSummaries \in Nat \ {0}
    BY LenProperties, StreamingAssumption
<1>3. /\ n \in Nat /\ Len(f) <= n * MaxSummaries
      /\ \A i \in 1 .. n : (i - 1) * MaxSummaries \in 0 .. Len(f) - 1
    BY <1>2, BatchesFill
<1> HIDE DEF n
<1>4. \A i \in 0 .. n : bound(i) \in 0 .. Len(f)
    <2> SUFFICES ASSUME NEW i \in 0 .. n PROVE bound(i) \in 0 .. Len(f)
        OBVIOUS
    <2>1. i * MaxSummaries \in Nat
        BY <1>2, <1>3, ProductType
    <2> QED BY <1>2, <2>1 DEF Least
<1>5. ASSUME NEW i \in 1 .. n
      PROVE  bound(i - 1) = (i - 1) * MaxSummaries /\ bound(i - 1) <= bound(i)
    <2>1. i * MaxSummaries = (i - 1) * MaxSummaries + MaxSummaries
        BY <1>2, <1>3
    <2>2. (i - 1) * MaxSummaries \in 0 .. Len(f) - 1
        BY <1>3
    <2> DEFINE x == (i - 1) * MaxSummaries
               y == i * MaxSummaries
    <2>3. x \in 0 .. Len(f) - 1 /\ y = x + MaxSummaries
        BY <2>1, <2>2
    <2> HIDE DEF x, y
    <2>4. Least(x, Len(f)) = x /\ x <= Least(y, Len(f))
        BY <1>2, <2>3 DEF Least
    <2> QED BY <2>4 DEF x, y
<1>6. bound(0) = 0 /\ bound(n) = Len(f)
    <2>1. 0 * MaxSummaries = 0
        BY <1>2
    <2>2. n * MaxSummaries \in Nat
        BY <1>2, <1>3, ProductType
    <2> QED BY <1>2, <1>3, <2>1, <2>2 DEF Least
<1> HIDE DEF bound
<1>7. ASSUME NEW i \in 1 .. n
      PROVE  batch(i) \in Seq(Seq(S)) /\ FlattenSeq(batch(i)) \in Seq(S)
             /\ first(i) = first(i - 1) \o batch(i) /\ first(i - 1) \in Seq(Seq(S))
    <2>1. /\ bound(i - 1) \in 0 .. Len(f) /\ bound(i) \in bound(i - 1) .. Len(f)
          /\ bound(i - 1) = (i - 1) * MaxSummaries /\ bound(i) \in Int
          /\ 1 \in 1 .. Len(f) + 1 /\ 1 - 1 = 0
        <3>1. i \in 0 .. n /\ i - 1 \in 0 .. n
            BY <1>3
        <3> QED BY <1>2, <1>4, <1>5, <3>1
    <2>2. batch(i) = SubSeq(f, bound(i - 1) + 1, bound(i))
        BY <2>1
    <2>3. first(i) = first(i - 1) \o SubSeq(f, bound(i - 1) + 1, bound(i))
        <3> DEFINE k == bound(i - 1)
                   b == bound(i)
        <3>1. k \in 1 - 1 .. Len(f) /\ b \in k .. Len(f) /\ 1 \in 1 .. Len(f) + 1
            BY <2>1
        <3> HIDE DEF k, b
        <3>2. SubSeq(f, 1, k) \o SubSeq(f, k + 1, b) = SubSeq(f, 1, b)
            BY <3>1, ConcatAdjacentSubSeq
        <3> QED BY <3>2 DEF k, b
    <2>4. \A j \in 1 .. Len(f) : f[j] \in Seq(S)
        BY ElementOfSeq
    <2>5. first(i - 1) \in Seq(Seq(S))
        <3>1. bound(i - 1) \in Int /\ 1 \in Int /\ \A j \in 1 .. bound(i - 1) : f[j] \in Seq(S)
            BY <1>2, <2>1, <2>4
        <3> QED BY <3>1, SubSeqProperties
    <2>6. batch(i) \in Seq(Seq(S))
        <3>1. bound(i - 1) + 1 \in Int /\ bound(i) \in Int
              /\ \A j \in bound(i - 1) + 1 .. bound(i) : f[j] \in Seq(S)
            BY <1>2, <2>1, <2>4
        <3>2. SubSeq(f, bound(i - 1) + 1, bound(i)) \in Seq(Seq(S))
            BY <3>1, SubSeqProperties
        <3> QED BY <2>2, <3>2
    <2> HIDE DEF batch, first
    <2>7. FlattenSeq(batch(i)) \in Seq(S)
        BY <2>6, FlattenSeqJoins
    <2> QED BY <2>2, <2>3, <2>5, <2>6, <2>7
<1>8. merged \in Seq(Seq(S)) /\ Len(merged) = n
    <2> HIDE DEF batch
    <2>1. \A i \in 1 .. n : FlattenSeq(batch(i)) \in Seq(S)
        BY <1>7
    <2> QED BY <1>3, <2>1
<1>9. \A i \in 1 .. n : merged[i] = FlattenSeq(batch(i))
    OBVIOUS
<1> HIDE DEF merged, batch
<1>10. 0 \in T
    <2>1. SubSeq(merged, 1, 0) = <<>> /\ first(0) = <<>>
        BY <1>6, SubSeqEmpty
    <2>2. 0 \in 0 .. n
        BY <1>3
    <2> HIDE DEF first
    <2> QED BY <2>1, <2>2, Zenon
<1> HIDE DEF first
<1>11. ASSUME NEW i \in 0 + 1 .. n, i - 1 \in T PROVE i \in T
    <2>1. i \in 1 .. n /\ i \in 0 .. n /\ i \in 1 .. Len(merged)
        BY <1>3, <1>8
    <2> DEFINE q == SubSeq(merged, 1, i - 1)
               p == first(i - 1)
               b == batch(i)
    <2>2. SubSeq(merged, 1, i) = Append(q, merged[i]) /\ q \in Seq(Seq(S))
        BY <1>8, <2>1, SubSeqGrows
    <2>3. merged[i] = FlattenSeq(b) /\ FlattenSeq(q) = FlattenSeq(p)
        BY <1>9, <1>11, <2>1
    <2>4. b \in Seq(Seq(S)) /\ p \in Seq(Seq(S)) /\ first(i) = p \o b /\ FlattenSeq(b) \in Seq(S)
        BY <1>7, <2>1
    <2> HIDE DEF q, p, b
    <2>5. FlattensApart(p, b)
        BY <2>4, FlattenJoined
    <2>6. FlattenSeq(Append(q, FlattenSeq(b))) = FlattenSeq(q) \o FlattenSeq(b)
        BY <2>2, <2>4, FlattenAppended
    <2>7. FlattenSeq(SubSeq(merged, 1, i)) = FlattenSeq(first(i))
        BY <2>2, <2>3, <2>4, <2>5, <2>6, Zenon DEF FlattensApart
    <2> QED BY <2>1, <2>7
<1> HIDE DEF T
<1>12. 0 .. n \subseteq T
    <2>1. 0 \in Int /\ n \in Int
        BY <1>3
    <2> QED BY <1>10, <1>11, <2>1, Induction
<1>13. FlattenSeq(SubSeq(merged, 1, n)) = FlattenSeq(first(n))
    BY <1>3, <1>12 DEF T
<1>14. SubSeq(merged, 1, n) = merged
    BY <1>8, SubSeqFull
<1>15. first(n) = f
    <2>1. SubSeq(f, 1, Len(f)) = f
        BY SubSeqFull
    <2> QED BY <1>6, <2>1 DEF first
<1> QED BY <1>1, <1>8, <1>13, <1>14, <1>15, Zenon

-----------------------------------------------------------------------------
(* What a chunk adds to the state: which fields each operation leaves alone. *)

\* What the reading of the document is at.
SameReading(s, t) ==
    /\ t.status = s.status /\ t.key = s.key /\ t.next = s.next /\ t.line = s.line
    /\ t.reviewed = s.reviewed /\ t.ranges = s.ranges /\ t.failed = s.failed

SameMatches(s, t) == t.matches = s.matches /\ t.matchesOmitted = s.matchesOmitted
SameHeadings(s, t) == t.headings = s.headings /\ t.headingsOmitted = s.headingsOmitted
SameClaims(s, t) == t.claims = s.claims /\ t.claimsOmitted = s.claimsOmitted
SameSummaries(s, t) ==
    /\ t.chunkSummaries = s.chunkSummaries /\ t.frontier = s.frontier
    /\ t.depth = s.depth /\ t.aggregate = s.aggregate

\* t has, besides the entries of s, as many of those found as fit, and counts the rest.
MatchesAdded(s, t, found) ==
    /\ t.matches = s.matches \o Fitting(found, Len(s.matches), MaxQueryMatches)
    /\ t.matchesOmitted = s.matchesOmitted + Len(found)
                          - Len(Fitting(found, Len(s.matches), MaxQueryMatches))

HeadingsAdded(s, t, found) ==
    /\ t.headings = s.headings \o Fitting(found, Len(s.headings), MaxOutlineEntries)
    /\ t.headingsOmitted = s.headingsOmitted + Len(found)
                           - Len(Fitting(found, Len(s.headings), MaxOutlineEntries))

SameFindings(s, t) ==
    SameMatches(s, t) /\ SameHeadings(s, t) /\ SameClaims(s, t) /\ SameSummaries(s, t)

LEMMA LimitTypes ==
    /\ MaxOutlineEntries \in Nat /\ MaxQueryMatches \in Nat /\ MaxModelRecords \in Nat
    /\ MaxSummaryDepth \in Nat /\ MaxFailures \in Nat /\ NoLimit \in Nat
    /\ MaxSummaries \in Nat \ {0, 1}
BY StreamingAssumption

\* What is left out is counted.
LEMMA OmittedType ==
    ASSUME NEW S, NEW entries \in Seq(S), NEW have \in Nat, NEW limit \in Nat, NEW omitted \in Nat
    PROVE  omitted + Len(entries) - Len(Fitting(entries, have, limit)) \in Nat
<1>1. Len(Fitting(entries, have, limit)) \in 0 .. Len(entries) /\ Len(entries) \in Nat
    BY FittingRight, LenProperties
<1> QED BY <1>1

LEMMA AddMatchesRight ==
    ASSUME NEW s \in StreamingState, NEW found \in Seq(Entry)
    PROVE  LET t == AddMatches(s, found)
           IN  /\ t \in StreamingState
               /\ MatchesAdded(s, t, found)
               /\ SameReading(s, t) /\ SameHeadings(s, t) /\ SameClaims(s, t)
               /\ SameSummaries(s, t)
<1> DEFINE kept == Fitting(found, Len(s.matches), MaxQueryMatches)
           all == s.matches \o kept
           omitted == s.matchesOmitted + Len(found) - Len(kept)
<1>1. s.matches \in Seq(Entry) /\ s.matchesOmitted \in Nat
    BY DEF StreamingState
<1>2. Len(s.matches) \in Nat
    BY <1>1, LenProperties
<1>3. kept \in Seq(Entry) /\ omitted \in Nat
    BY <1>1, <1>2, LimitTypes, FittingRight, OmittedType
<1>4. all \in Seq(Entry)
    BY <1>1, <1>3, ConcatProperties
<1> HIDE DEF kept, all, omitted
<1> DEFINE t == [s EXCEPT !.matches = all, !.matchesOmitted = omitted]
<1>5. /\ t \in StreamingState /\ t.matches = all /\ t.matchesOmitted = omitted
      /\ SameReading(s, t) /\ SameHeadings(s, t) /\ SameClaims(s, t) /\ SameSummaries(s, t)
    BY <1>3, <1>4
       DEF StreamingState, SameReading, SameHeadings, SameClaims, SameSummaries
<1>6. AddMatches(s, found) = t
    BY DEF AddMatches, all, omitted, kept
<1> HIDE DEF t
<1> QED BY <1>5, <1>6 DEF all, omitted, kept, MatchesAdded

LEMMA AddHeadingsRight ==
    ASSUME NEW s \in StreamingState, NEW found \in Seq(Entry)
    PROVE  LET t == AddHeadings(s, found)
           IN  /\ t \in StreamingState
               /\ HeadingsAdded(s, t, found)
               /\ SameReading(s, t) /\ SameMatches(s, t) /\ SameClaims(s, t)
               /\ SameSummaries(s, t)
<1> DEFINE kept == Fitting(found, Len(s.headings), MaxOutlineEntries)
           all == s.headings \o kept
           omitted == s.headingsOmitted + Len(found) - Len(kept)
<1>1. s.headings \in Seq(Entry) /\ s.headingsOmitted \in Nat
    BY DEF StreamingState
<1>2. Len(s.headings) \in Nat
    BY <1>1, LenProperties
<1>3. kept \in Seq(Entry) /\ omitted \in Nat
    BY <1>1, <1>2, LimitTypes, FittingRight, OmittedType
<1>4. all \in Seq(Entry)
    BY <1>1, <1>3, ConcatProperties
<1> HIDE DEF kept, all, omitted
<1> DEFINE t == [s EXCEPT !.headings = all, !.headingsOmitted = omitted]
<1>5. /\ t \in StreamingState /\ t.headings = all /\ t.headingsOmitted = omitted
      /\ SameReading(s, t) /\ SameMatches(s, t) /\ SameClaims(s, t) /\ SameSummaries(s, t)
    BY <1>3, <1>4
       DEF StreamingState, SameReading, SameMatches, SameClaims, SameSummaries
<1>6. AddHeadings(s, found) = t
    BY DEF AddHeadings, all, omitted, kept
<1> HIDE DEF t
<1> QED BY <1>5, <1>6 DEF all, omitted, kept, HeadingsAdded

LEMMA MatchesAtRight ==
    ASSUME NEW starts, NEW first \in Nat, NEW line \in Nat,
           subject \in Subjects, starts \subseteq 0 .. NoLimit - 1
    PROVE  LET m == MatchesAt(starts, first, line)
               ordered == InOrder(starts)
           IN  /\ m \in Seq(Entry) /\ Len(m) = Len(ordered)
               /\ \A i \in 1 .. Len(ordered) :
                     /\ m[i].start = ordered[i] /\ m[i].end = ordered[i] + Len(query)
                     /\ m[i].line = line + LinesEnded(first, ordered[i])
<1> DEFINE ordered == InOrder(starts)
           e(i) == [start |-> ordered[i], end |-> ordered[i] + Len(query),
                    line |-> line + LinesEnded(first, ordered[i])]
           m == [i \in DOMAIN ordered |-> e(i)]
<1>1. ordered \in Seq(Nat)
    BY InOrderLists DEF Lists
<1>2. Len(ordered) \in Nat /\ DOMAIN ordered = 1 .. Len(ordered)
      /\ \A i \in 1 .. Len(ordered) : ordered[i] \in Nat
    BY <1>1, LenProperties, ElementOfSeq
<1>3. MatchesAt(starts, first, line) = m
    BY DEF MatchesAt
<1>4. Len(query) \in Nat
    BY DocumentSize
<1> HIDE DEF ordered
<1>5. \A i \in 1 .. Len(ordered) : LinesEnded(first, ordered[i]) \in Nat
    <2> SUFFICES ASSUME NEW i \in 1 .. Len(ordered) PROVE LinesEnded(first, ordered[i]) \in Nat
        OBVIOUS
    <2>1. first \in Int /\ ordered[i] \in Int
        BY <1>2
    <2> QED BY <2>1, LinesEndedType
<1>6. \A i \in 1 .. Len(ordered) : e(i) \in Entry
    BY <1>2, <1>4, <1>5 DEF Entry
<1>7. \A i \in 1 .. Len(ordered) :
         /\ e(i).start = ordered[i] /\ e(i).end = ordered[i] + Len(query)
         /\ e(i).line = line + LinesEnded(first, ordered[i])
    OBVIOUS
<1> HIDE DEF e
<1>8. m \in Seq(Entry) /\ Len(m) = Len(ordered)
    BY <1>2, <1>6
<1>9. \A i \in 1 .. Len(ordered) : m[i] = e(i)
    BY <1>2
<1> HIDE DEF m
<1> QED BY <1>3, <1>7, <1>8, <1>9 DEF ordered

LEMMA LineEndRight ==
    ASSUME NEW p \in Nat, NEW behind \in Nat, p < behind
    PROVE  /\ LineEnd(p, behind) \in p + 1 .. behind
           /\ LineEnd(p, behind) = behind \/ doc[LineEnd(p, behind)] = "n"
           /\ \A i \in p + 1 .. LineEnd(p, behind) - 1 : doc[i] # "n"
<1> DEFINE T == {e \in p + 1 .. behind : e = behind \/ doc[e] = "n"}
           ok(e) == /\ e = behind \/ doc[e] = "n"
                    /\ \A i \in p + 1 .. e - 1 : doc[i] # "n"
<1>1. PICK e \in T : \A x \in T : e <= x
    <2>1. T \subseteq Int /\ behind \in T /\ (\A x \in T : p <= x) /\ p \in Int /\ T # {}
        OBVIOUS
    <2> HIDE DEF T
    <2> QED BY <2>1, Lowest
<1>2. e \in p + 1 .. behind /\ ok(e)
    <2>1. \A i \in p + 1 .. e - 1 : i \in p + 1 .. behind /\ ~ (e <= i)
        BY <1>1
    <2> QED BY <1>1, <2>1
<1> HIDE DEF ok
<1>3. LineEnd(p, behind) = CHOOSE x \in p + 1 .. behind : ok(x)
    BY Zenon DEF LineEnd, ok
<1>4. LineEnd(p, behind) \in p + 1 .. behind /\ ok(LineEnd(p, behind))
    BY <1>2, <1>3
<1> QED BY <1>4 DEF ok

LEMMA HeadingsAtRight ==
    ASSUME NEW starts, NEW behind \in Nat, subject \in Subjects,
           starts \subseteq 0 .. behind - 1, behind <= Size,
           lineTail.start \in Nat, lineTail.line \in Nat
    PROVE  LET h == HeadingsAt(starts, behind)
               ordered == InOrder(starts)
           IN  /\ h \in Seq(Entry) /\ Len(h) = Len(ordered)
               /\ \A i \in 1 .. Len(ordered) :
                     /\ h[i].start = ordered[i]
                     /\ h[i].line = lineTail.line + LinesEnded(lineTail.start, ordered[i])
<1> DEFINE ordered == InOrder(starts)
           e(i) == [start |-> ordered[i], end |-> LineEnd(ordered[i], behind),
                    line |-> lineTail.line + LinesEnded(lineTail.start, ordered[i])]
           h == [i \in DOMAIN ordered |-> e(i)]
<1>1. starts \subseteq 0 .. NoLimit - 1
    BY DocumentSize
<1>2. ordered \in Seq(Nat) /\ \A i \in 1 .. Len(ordered) : ordered[i] \in starts
    BY <1>1, InOrderLists DEF Lists
<1>3. Len(ordered) \in Nat /\ DOMAIN ordered = 1 .. Len(ordered)
      /\ \A i \in 1 .. Len(ordered) : ordered[i] \in Nat /\ ordered[i] < behind
    <2>1. \A i \in 1 .. Len(ordered) : ordered[i] \in 0 .. behind - 1
        BY <1>2
    <2> QED BY <1>2, <2>1, LenProperties
<1>4. HeadingsAt(starts, behind) = h
    BY DEF HeadingsAt
<1> HIDE DEF ordered
<1>5. \A i \in 1 .. Len(ordered) : LinesEnded(lineTail.start, ordered[i]) \in Nat
    <2> SUFFICES ASSUME NEW i \in 1 .. Len(ordered) PROVE LinesEnded(lineTail.start, ordered[i]) \in Nat
        OBVIOUS
    <2>1. lineTail.start \in Int /\ ordered[i] \in Int
        BY <1>3
    <2> QED BY <2>1, LinesEndedType
<1>6. \A i \in 1 .. Len(ordered) : LineEnd(ordered[i], behind) \in Nat
    <2> SUFFICES ASSUME NEW i \in 1 .. Len(ordered) PROVE LineEnd(ordered[i], behind) \in Nat
        OBVIOUS
    <2>1. LineEnd(ordered[i], behind) \in ordered[i] + 1 .. behind
        BY <1>3, LineEndRight
    <2> QED BY <1>3, <2>1
<1>7. \A i \in 1 .. Len(ordered) : e(i) \in Entry
    BY <1>3, <1>5, <1>6 DEF Entry
<1>8. \A i \in 1 .. Len(ordered) :
         /\ e(i).start = ordered[i]
         /\ e(i).line = lineTail.line + LinesEnded(lineTail.start, ordered[i])
    OBVIOUS
<1> HIDE DEF e
<1>9. h \in Seq(Entry) /\ Len(h) = Len(ordered)
    BY <1>3, <1>7
<1>10. \A i \in 1 .. Len(ordered) : h[i] = e(i)
    BY <1>3
<1> HIDE DEF h
<1> QED BY <1>4, <1>8, <1>9, <1>10 DEF ordered

\* Where the tails can be.
Tails ==
    /\ tail \in [start : 0 .. Size, line : Nat]
    /\ lineTail \in [start : 0 .. Size, line : Nat]

\* The starts of the matches and of the headings that a chunk adds.
StartsForChunk(c) == {p \in MatchStarts(tail.start, c[2]) : p + Len(query) > c[1]}

HeadingStartsForChunk(c) ==
    {p \in HeadingStarts(lineTail.start, c[2]) :
        /\ LineEnd(p, c[2]) > c[1]
        /\ LineEnd(p, c[2]) < c[2] \/ c[2] >= Size \/ doc[c[2]] = "n"}

LEMMA ForChunkRight ==
    ASSUME subject \in Subjects, Tails, NEW c, c[2] \in Nat, c[2] <= Size
    PROVE  /\ MatchesForChunk(c) = MatchesAt(StartsForChunk(c), tail.start, tail.line)
           /\ StartsForChunk(c) \subseteq 0 .. NoLimit - 1
           /\ MatchesForChunk(c) \in Seq(Entry)
           /\ HeadingsForChunk(c) = HeadingsAt(HeadingStartsForChunk(c), c[2])
           /\ HeadingStartsForChunk(c) \subseteq 0 .. c[2] - 1
           /\ HeadingsForChunk(c) \in Seq(Entry)
<1>1. /\ Size \in Nat /\ Size < NoLimit /\ NoLimit \in Nat
      /\ tail.start \in Nat /\ tail.line \in Nat
      /\ lineTail.start \in Nat /\ lineTail.line \in Nat
    BY DocumentSize DEF Tails
<1>2. MatchesForChunk(c) = MatchesAt(StartsForChunk(c), tail.start, tail.line)
    BY Zenon DEF MatchesForChunk, StartsForChunk
<1>3. HeadingsForChunk(c) = HeadingsAt(HeadingStartsForChunk(c), c[2])
    BY Zenon DEF HeadingsForChunk, HeadingStartsForChunk
<1>4. StartsForChunk(c) \subseteq 0 .. NoLimit - 1
    <2>1. StartsForChunk(c) \subseteq tail.start .. c[2]
        BY Zenon DEF StartsForChunk, MatchStarts
    <2> QED BY <1>1, <2>1
<1>5. HeadingStartsForChunk(c) \subseteq 0 .. c[2] - 1
    <2>1. HeadingStartsForChunk(c) \subseteq lineTail.start .. c[2] - 1
        BY Zenon DEF HeadingStartsForChunk, HeadingStarts
    <2> QED BY <1>1, <2>1
<1>6. MatchesForChunk(c) \in Seq(Entry)
    <2>1. MatchesAt(StartsForChunk(c), tail.start, tail.line) \in Seq(Entry)
        BY <1>1, <1>4, MatchesAtRight
    <2> QED BY <1>2, <2>1, Zenon
<1>7. HeadingsForChunk(c) \in Seq(Entry)
    BY <1>1, <1>3, <1>5, HeadingsAtRight
<1> QED BY <1>2, <1>3, <1>4, <1>5, <1>6, <1>7

\* s is a state, t what AddFound makes of it for chunk c.
FoundAdded(s, t, c) ==
    /\ SameReading(s, t) /\ SameClaims(s, t) /\ SameSummaries(s, t)
    /\ IF mode \in {"context_presence", "token_count"}
       THEN MatchesAdded(s, t, MatchesForChunk(c)) ELSE SameMatches(s, t)
    /\ IF mode \in {"outline", "token_count"}
       THEN HeadingsAdded(s, t, HeadingsForChunk(c)) ELSE SameHeadings(s, t)

LEMMA AddFoundRight ==
    ASSUME subject \in Subjects, Tails, NEW s \in StreamingState,
           NEW c, c[2] \in Nat, c[2] <= Size
    PROVE  AddFound(s, c) \in StreamingState /\ FoundAdded(s, AddFound(s, c), c)
<1> DEFINE m == MatchesForChunk(c)
           h == HeadingsForChunk(c)
           u == IF mode \in {"context_presence", "token_count"} THEN AddMatches(s, m) ELSE s
           t == IF mode \in {"outline", "token_count"} THEN AddHeadings(u, h) ELSE u
<1>1. m \in Seq(Entry) /\ h \in Seq(Entry)
    BY ForChunkRight
<1> HIDE DEF m, h
<1>2. /\ u \in StreamingState
      /\ SameReading(s, u) /\ SameHeadings(s, u) /\ SameClaims(s, u) /\ SameSummaries(s, u)
      /\ IF mode \in {"context_presence", "token_count"} THEN MatchesAdded(s, u, m)
         ELSE SameMatches(s, u)
    <2>1. CASE mode \in {"context_presence", "token_count"}
        BY <1>1, <2>1, AddMatchesRight
    <2>2. CASE mode \notin {"context_presence", "token_count"}
        BY <2>2 DEF SameReading, SameHeadings, SameClaims, SameSummaries, SameMatches
    <2> QED BY <2>1, <2>2
<1> HIDE DEF u
<1>3. /\ t \in StreamingState
      /\ SameReading(u, t) /\ SameMatches(u, t) /\ SameClaims(u, t) /\ SameSummaries(u, t)
      /\ IF mode \in {"outline", "token_count"} THEN HeadingsAdded(u, t, h)
         ELSE SameHeadings(u, t)
    <2>1. CASE mode \in {"outline", "token_count"}
        BY <1>1, <1>2, <2>1, AddHeadingsRight
    <2>2. CASE mode \notin {"outline", "token_count"}
        BY <1>2, <2>2 DEF SameReading, SameHeadings, SameClaims, SameSummaries, SameMatches
    <2> QED BY <2>1, <2>2
<1>4. AddFound(s, c) = t
    BY Zenon DEF AddFound, m, h, u
<1> HIDE DEF t
<1>5. SameReading(s, t) /\ SameClaims(s, t) /\ SameSummaries(s, t)
    BY <1>2, <1>3 DEF SameReading, SameClaims, SameSummaries
<1>6. IF mode \in {"context_presence", "token_count"} THEN MatchesAdded(s, t, m)
      ELSE SameMatches(s, t)
    BY <1>2, <1>3 DEF MatchesAdded, SameMatches
<1>7. IF mode \in {"outline", "token_count"} THEN HeadingsAdded(s, t, h)
      ELSE SameHeadings(s, t)
    BY <1>2, <1>3 DEF HeadingsAdded, SameHeadings
<1> QED BY <1>3, <1>4, <1>5, <1>6, <1>7 DEF FoundAdded, m, h

\* A claim on chunk c, right about its source if it is said to be verified.
Sourced(k, c) ==
    k.chunk = c /\ (k.verified => ValidEvidence(c, k.cites))

\* s is a state, t what AddAnswer makes of it for chunk c.
AnswerAdded(s, t, c) ==
    /\ SameReading(s, t) /\ SameMatches(s, t) /\ SameHeadings(s, t)
    /\ \A i \in 1 .. Len(t.claims) :
          (\E j \in 1 .. Len(s.claims) : t.claims[i] = s.claims[j]) \/ Sourced(t.claims[i], c)
    /\ IF mode = "summarize"
       THEN /\ t.chunkSummaries = Append(s.chunkSummaries, c)
            /\ t.frontier = Append(s.frontier, <<c>>)
            /\ t.depth = s.depth /\ t.aggregate = s.aggregate
       ELSE SameSummaries(s, t)

LEMMA AddAnswerRight ==
    ASSUME NEW s \in StreamingState, NEW c \in Stretch,
           NEW cited \in {<<>>} \cup {<<x>> : x \in Citations}
    PROVE  AddAnswer(s, c, cited) \in StreamingState /\ AnswerAdded(s, AddAnswer(s, c, cited), c)
<1> DEFINE claim(i) == [chunk |-> c, cites |-> cited[i], verified |-> ValidEvidence(c, cited[i])]
           claims == [i \in DOMAIN cited |-> claim(i)]
           kept == Fitting(claims, Len(s.claims), MaxModelRecords)
           all == s.claims \o kept
           omitted == s.claimsOmitted + Len(claims) - Len(kept)
           u == [s EXCEPT !.claims = all, !.claimsOmitted = omitted]
           t == IF mode # "summarize" THEN u
                ELSE [u EXCEPT !.chunkSummaries = Append(@, c), !.frontier = Append(@, <<c>>)]
<1>1. AddAnswer(s, c, cited) = t
    BY DEF AddAnswer
<1>2. claims \in Seq(Claim) /\ \A i \in 1 .. Len(claims) : Sourced(claims[i], c)
    <2>1. PICK n \in {0, 1} : DOMAIN cited = 1 .. n /\ \A i \in 1 .. n : cited[i] \in Citations
        <3>1. CASE cited = <<>>
            BY <3>1
        <3>2. CASE \E x \in Citations : cited = <<x>>
            BY <3>2
        <3> QED BY <3>1, <3>2
    <2>2. \A x \in Citations : x \in Stretch
        BY StreamingAssumption DEF Stretch
    <2>3. \A i \in 1 .. n : claim(i) \in Claim /\ Sourced(claim(i), c)
        <3> SUFFICES ASSUME NEW i \in 1 .. n PROVE claim(i) \in Claim /\ Sourced(claim(i), c)
            OBVIOUS
        <3>1. cited[i] \in Stretch /\ ValidEvidence(c, cited[i]) \in BOOLEAN
            BY <2>1, <2>2 DEF ValidEvidence
        <3> QED BY <3>1 DEF Claim, Sourced
    <2> HIDE DEF claim
    <2> QED BY <2>1, <2>3
<1> HIDE DEF claims
<1>3. s.claims \in Seq(Claim) /\ s.claimsOmitted \in Nat /\ Len(s.claims) \in Nat
    <2>1. s.claims \in Seq(Claim) /\ s.claimsOmitted \in Nat
        BY DEF StreamingState
    <2> QED BY <2>1, LenProperties
<1>4. /\ kept \in Seq(Claim) /\ omitted \in Nat /\ Len(kept) \in 0 .. Len(claims)
      /\ \A i \in 1 .. Len(kept) : kept[i] = claims[i]
    BY <1>2, <1>3, LimitTypes, FittingRight, OmittedType
<1> HIDE DEF kept, omitted
<1>5. /\ all \in Seq(Claim) /\ Len(all) = Len(s.claims) + Len(kept)
      /\ \A i \in 1 .. Len(all) :
            all[i] = IF i <= Len(s.claims) THEN s.claims[i] ELSE kept[i - Len(s.claims)]
    BY <1>3, <1>4, ConcatProperties
<1> HIDE DEF all
<1>6. \A i \in 1 .. Len(all) : (\E j \in 1 .. Len(s.claims) : all[i] = s.claims[j])
                               \/ Sourced(all[i], c)
    <2> SUFFICES ASSUME NEW i \in 1 .. Len(all)
                 PROVE  (\E j \in 1 .. Len(s.claims) : all[i] = s.claims[j])
                        \/ Sourced(all[i], c)
        OBVIOUS
    <2>1. CASE i <= Len(s.claims)
        <3>1. i \in 1 .. Len(s.claims) /\ all[i] = s.claims[i]
            BY <1>3, <1>5, <2>1
        <3> QED BY <3>1
    <2>2. CASE ~ (i <= Len(s.claims))
        <3> DEFINE j == i - Len(s.claims)
        <3>1. j \in 1 .. Len(kept) /\ all[i] = kept[j]
            BY <1>3, <1>4, <1>5, <2>2
        <3>2. j \in 1 .. Len(claims)
            <4>1. Len(claims) \in Nat
                BY <1>2, LenProperties
            <4> QED BY <1>4, <3>1, <4>1
        <3> HIDE DEF j
        <3> QED BY <1>2, <1>4, <3>1, <3>2
    <2> QED BY <2>1, <2>2
<1>7. /\ u \in StreamingState /\ u.claims = all
      /\ SameReading(s, u) /\ SameMatches(s, u) /\ SameHeadings(s, u) /\ SameSummaries(s, u)
    BY <1>4, <1>5
       DEF StreamingState, SameReading, SameMatches, SameHeadings, SameSummaries
<1> HIDE DEF u
<1>8. CASE mode # "summarize"
    BY <1>1, <1>6, <1>7, <1>8 DEF AnswerAdded
<1>9. CASE mode = "summarize"
    <2> DEFINE q == Append(u.chunkSummaries, c)
               f == Append(u.frontier, <<c>>)
               w == [u EXCEPT !.chunkSummaries = q, !.frontier = f]
    <2>1. u.chunkSummaries \in Seq(Stretch) /\ u.frontier \in Seq(Seq(Stretch))
        BY <1>7 DEF StreamingState, Summary
    <2>2. q \in Seq(Stretch) /\ f \in Seq(Summary)
        <3>1. <<c>> \in Seq(Stretch)
            OBVIOUS
        <3> QED BY <2>1, <3>1, AppendProperties DEF Summary
    <2>3. w = t
        BY <1>9
    <2> HIDE DEF q, f
    <2>4. /\ w \in StreamingState /\ w.chunkSummaries = q /\ w.frontier = f
          /\ w.depth = u.depth /\ w.aggregate = u.aggregate /\ w.claims = u.claims
          /\ SameReading(u, w) /\ SameMatches(u, w) /\ SameHeadings(u, w)
        BY <1>7, <2>2 DEF StreamingState, SameReading, SameMatches, SameHeadings
    <2> HIDE DEF w
    <2>5. SameReading(s, w) /\ SameMatches(s, w) /\ SameHeadings(s, w)
        BY <1>7, <2>4 DEF SameReading, SameMatches, SameHeadings
    <2>6. /\ w.chunkSummaries = Append(s.chunkSummaries, c)
          /\ w.frontier = Append(s.frontier, <<c>>)
          /\ w.depth = s.depth /\ w.aggregate = s.aggregate
        BY <1>7, <2>4 DEF SameSummaries, q, f
    <2>7. AnswerAdded(s, w, c)
        BY <1>6, <1>7, <1>9, <2>4, <2>5, <2>6 DEF AnswerAdded
    <2> QED BY <1>1, <2>3, <2>4, <2>7
<1> QED BY <1>8, <1>9

\* s is a state, t what rounds of merging can make of it.
Reduces(s, t) ==
    /\ SameReading(s, t) /\ SameMatches(s, t) /\ SameHeadings(s, t) /\ SameClaims(s, t)
    /\ t.chunkSummaries = s.chunkSummaries /\ t.aggregate = s.aggregate
    /\ FlattenSeq(t.frontier) = FlattenSeq(s.frontier)
    /\ s.depth <= MaxSummaryDepth => t.depth <= MaxSummaryDepth

MergeRound(s) == [s EXCEPT !.frontier = MergeBatches(@), !.depth = @ + 1]

LEMMA ReducesItself ==
    ASSUME NEW s
    PROVE  Reduces(s, s)
BY DEF Reduces, SameReading, SameMatches, SameHeadings, SameClaims

LEMMA ReducesFurther ==
    ASSUME NEW s, NEW t, NEW u, Reduces(s, t), Reduces(t, u)
    PROVE  Reduces(s, u)
<1>1. SameReading(s, u) /\ SameMatches(s, u) /\ SameHeadings(s, u) /\ SameClaims(s, u)
    BY DEF Reduces, SameReading, SameMatches, SameHeadings, SameClaims
<1>2. u.chunkSummaries = s.chunkSummaries /\ u.aggregate = s.aggregate
      /\ FlattenSeq(u.frontier) = FlattenSeq(s.frontier)
    BY DEF Reduces
<1>3. s.depth <= MaxSummaryDepth => u.depth <= MaxSummaryDepth
    BY DEF Reduces
<1> QED BY <1>1, <1>2, <1>3 DEF Reduces

LEMMA MergeRoundRight ==
    ASSUME NEW s \in StreamingState, RoundDue(s)
    PROVE  MergeRound(s) \in StreamingState /\ Reduces(s, MergeRound(s))
<1> DEFINE f == MergeBatches(s.frontier)
           d == s.depth + 1
           t == [s EXCEPT !.frontier = f, !.depth = d]
<1>1. s.frontier \in Seq(Seq(Stretch)) /\ s.depth \in Nat
    BY DEF StreamingState, Summary
<1>2. f \in Seq(Summary) /\ FlattenSeq(f) = FlattenSeq(s.frontier)
    BY <1>1, MergeBatchesRight DEF Summary
<1>3. d \in Nat /\ d <= MaxSummaryDepth
    BY <1>1, LimitTypes DEF RoundDue
<1>4. MergeRound(s) = t
    BY DEF MergeRound
<1> HIDE DEF f, d
<1>5. /\ t \in StreamingState /\ t.frontier = f /\ t.depth = d
      /\ SameReading(s, t) /\ SameMatches(s, t) /\ SameHeadings(s, t) /\ SameClaims(s, t)
      /\ t.chunkSummaries = s.chunkSummaries /\ t.aggregate = s.aggregate
    BY <1>2, <1>3 DEF StreamingState, SameReading, SameMatches, SameHeadings, SameClaims
<1> HIDE DEF t
<1> QED BY <1>2, <1>3, <1>4, <1>5 DEF Reduces

LEMMA AfterRoundsRight ==
    ASSUME NEW s \in StreamingState
    PROVE  /\ DOMAIN AfterRounds(s) = 0 .. MaxSummaryDepth
           /\ \A k \in 0 .. MaxSummaryDepth :
                 AfterRounds(s)[k] \in StreamingState /\ Reduces(s, AfterRounds(s)[k])
<1> DEFINE V == {t \in StreamingState : Reduces(s, t)}
           n == MaxSummaryDepth
           round(v) == IF RoundDue(v) THEN MergeRound(v) ELSE v
           step == [x \in Int \X V |-> round(x[2])]
<1>1. n \in Nat /\ n \in Int /\ 0 \in Int /\ 0 <= n
    BY LimitTypes
<1>2. s \in V
    BY ReducesItself
<1>3. \A v \in V : round(v) \in V
    <2> SUFFICES ASSUME NEW v \in V PROVE round(v) \in V
        OBVIOUS
    <2>1. CASE RoundDue(v)
        <3>1. MergeRound(v) \in StreamingState /\ Reduces(v, MergeRound(v))
            BY <2>1, MergeRoundRight
        <3>2. Reduces(s, MergeRound(v))
            BY <3>1, ReducesFurther
        <3> QED BY <2>1, <3>1, <3>2
    <2>2. CASE ~ RoundDue(v)
        BY <2>2
    <2> QED BY <2>1, <2>2
<1> HIDE DEF V, n, round
<1>4. step \in [Int \X V -> V]
    BY <1>3
<1>5. \A k \in Int : \A v \in V : step[<<k, v>>] = round(v)
    <2>1. \A k \in Int : \A v \in V : <<k, v>> \in Int \X V /\ <<k, v>>[2] = v
        OBVIOUS
    <2> QED BY <2>1
<1> HIDE DEF step
<1>6. PICK c \in [0 .. n -> V] :
          c = [k \in 0 .. n |-> IF k = 0 THEN s ELSE step[<<k, c[k - 1]>>]]
    <2>1. Recurses(V, 0, n, s, step)
        BY <1>1, <1>2, <1>4, Recursion
    <2> QED BY <2>1, Zenon DEF Recurses
<1> DEFINE body(d) == [k \in 0 .. n |->
                          IF k = 0 THEN s
                          ELSE IF RoundDue(d[k - 1])
                          THEN [d[k - 1] EXCEPT !.frontier = MergeBatches(@), !.depth = @ + 1]
                          ELSE d[k - 1]]
           a == AfterRounds(s)
<1>7. c = body(c)
    <2>1. \A k \in 0 .. n : k # 0 => k \in Int /\ c[k - 1] \in V
        BY <1>1, <1>6
    <2>2. \A k \in 0 .. n : (IF k = 0 THEN s ELSE step[<<k, c[k - 1]>>])
                            = (IF k = 0 THEN s ELSE round(c[k - 1]))
        BY <1>5, <2>1
    <2>3. c = [k \in 0 .. n |-> IF k = 0 THEN s ELSE round(c[k - 1])]
        BY <1>6, <2>2
    <2> QED BY <2>3, Zenon DEF round, MergeRound
<1>8. a = body(a)
    <2>1. \E d : d = body(d)
        BY <1>7
    <2> QED BY <2>1, Zenon DEF AfterRounds, n
<1> HIDE DEF a
<1>9. \A k \in 0 .. n : a[k] = IF k = 0 THEN s ELSE round(a[k - 1])
    BY <1>8, Zenon DEF round, MergeRound
<1> DEFINE T == {k \in 0 .. n : a[k] \in V}
<1>10. 0 \in T
    <2>1. 0 \in 0 .. n
        BY <1>1
    <2> QED BY <1>2, <1>9, <2>1
<1>11. ASSUME NEW k \in 0 + 1 .. n, k - 1 \in T PROVE k \in T
    <2>1. k \in 0 .. n /\ k # 0
        BY <1>1
    <2>2. a[k] = round(a[k - 1])
        BY <1>9, <2>1
    <2> QED BY <1>3, <1>11, <2>1, <2>2
<1> HIDE DEF T
<1>12. 0 .. n \subseteq T
    BY <1>1, <1>10, <1>11, Induction
<1>13. DOMAIN a = 0 .. n
    BY <1>8
<1> QED BY <1>12, <1>13 DEF T, V, n, a

LEMMA ReduceRight ==
    ASSUME NEW s \in StreamingState
    PROVE  /\ \A t \in ReduceFailures(s) : t \in StreamingState /\ Reduces(s, t)
           /\ Reduce(s) \in StreamingState /\ Reduces(s, Reduce(s))
<1>1. MaxSummaryDepth \in 0 .. MaxSummaryDepth
    BY LimitTypes
<1>2. Reduce(s) \in StreamingState /\ Reduces(s, Reduce(s))
    BY <1>1, AfterRoundsRight DEF Reduce
<1>3. \A t \in Range(AfterRounds(s)) : t \in StreamingState /\ Reduces(s, t)
    BY AfterRoundsRight DEF Range
<1> QED BY <1>2, <1>3 DEF ReduceFailures

LEMMA FlattenSingle ==
    ASSUME NEW S, NEW seqs \in Seq(Seq(S)), Len(seqs) = 1
    PROVE  FlattenSeq(seqs) = seqs[1] /\ Head(seqs) = seqs[1] /\ seqs[1] \in Seq(S)
<1>1. seqs # <<>>
    <2>1. Len(<<>>) = 0
        OBVIOUS
    <2> QED BY <2>1
<1>2. FlattenSeq(seqs) = Joins(seqs)[Len(seqs)]
    BY <1>1, FlattenSeqJoins, Zenon
<1>3. Joins(seqs)[1] = seqs[1]
    BY <1>1, JoinsDefined, Zenon
<1>4. Head(seqs) = seqs[1]
    OBVIOUS
<1>5. seqs[1] \in Seq(S)
    <2>1. 1 \in 1 .. Len(seqs)
        OBVIOUS
    <2> QED BY <2>1, ElementOfSeq
<1> QED BY <1>2, <1>3, <1>4, <1>5

\* s is a state, t what the last merging makes of it.
ReducesFinally(s, t) ==
    /\ SameReading(s, t) /\ SameMatches(s, t) /\ SameHeadings(s, t) /\ SameClaims(s, t)
    /\ t.chunkSummaries = s.chunkSummaries
    /\ FlattenSeq(t.frontier) = FlattenSeq(s.frontier)
    /\ s.depth <= MaxSummaryDepth =>
          /\ t.depth <= MaxSummaryDepth
          /\ t.aggregate = Nothing /\ FlattenSeq(s.frontier) # <<>> => t.depth = MaxSummaryDepth
    /\ t.aggregate # Nothing => t.aggregate = FlattenSeq(s.frontier)

LEMMA FinalReduceRight ==
    ASSUME NEW s \in StreamingState
    PROVE  /\ \A t \in FinalReduceFailures(s) : t \in StreamingState /\ Reduces(s, t)
           /\ FinalReduce(s) \in StreamingState /\ ReducesFinally(s, FinalReduce(s))
<1> DEFINE r == Reduce(s)
           flat == FlattenSeq(r.frontier)
<1>1. /\ r \in StreamingState /\ Reduces(s, r)
      /\ \A t \in ReduceFailures(s) : t \in StreamingState /\ Reduces(s, t)
    BY ReduceRight
<1>2. \A t \in FinalReduceFailures(s) : t \in StreamingState /\ Reduces(s, t)
    BY <1>1 DEF FinalReduceFailures
<1> HIDE DEF r
<1>3. r.frontier \in Seq(Seq(Stretch)) /\ r.depth \in Nat
    BY <1>1 DEF StreamingState, Summary
<1>4. flat \in Seq(Stretch) /\ Len(r.frontier) \in Nat
      /\ (r.frontier = <<>> => flat = <<>>)
      /\ (Len(r.frontier) = 0 => r.frontier = <<>>)
    <2>1. flat \in Seq(Stretch) /\ (r.frontier = <<>> => flat = <<>>)
        BY <1>3, FlattenSeqJoins
    <2>2. Len(r.frontier) \in Nat /\ (Len(r.frontier) = 0 => r.frontier = <<>>)
        BY <1>3, EmptySeq, LenProperties
    <2> QED BY <2>1, <2>2
<1>5. CASE Len(r.frontier) = 1
    <2> DEFINE t == [r EXCEPT !.aggregate = flat]
    <2>1. Head(r.frontier) = flat
        BY <1>3, <1>5, FlattenSingle
    <2>2. FinalReduce(s) = t
        BY <1>5, <2>1, Zenon DEF FinalReduce, r
    <2> HIDE DEF flat
    <2>3. /\ t \in StreamingState /\ t.aggregate = flat /\ t.frontier = r.frontier
          /\ t.depth = r.depth /\ t.chunkSummaries = r.chunkSummaries
          /\ SameReading(r, t) /\ SameMatches(r, t) /\ SameHeadings(r, t) /\ SameClaims(r, t)
        BY <1>1, <1>4
           DEF StreamingState, Summary, SameReading, SameMatches, SameHeadings, SameClaims
    <2>4. flat # Nothing
        BY <1>4, StateAssumption DEF Summary
    <2> HIDE DEF t
    <2>5. ReducesFinally(s, t)
        BY <1>1, <2>3, <2>4
           DEF Reduces, ReducesFinally, SameReading, SameMatches, SameHeadings, SameClaims, flat
    <2> QED BY <1>2, <2>2, <2>3, <2>5
<1>6. CASE Len(r.frontier) # 1 /\ LastMergeDue(r)
    <2> DEFINE f == <<flat>>
               d == r.depth + 1
               t == [r EXCEPT !.frontier = f, !.depth = d, !.aggregate = flat]
    <2>1. FinalReduce(s) = t
        BY <1>6, Zenon DEF FinalReduce, r
    <2>2. f \in Seq(Seq(Stretch)) /\ FlattenSeq(f) = flat
        <3>1. f \in Seq(Seq(Stretch)) /\ Len(f) = 1 /\ f[1] = flat
            BY <1>4
        <3> QED BY <3>1, FlattenSingle
    <2>3. d \in Nat /\ d <= MaxSummaryDepth
        BY <1>3, <1>6, LimitTypes DEF LastMergeDue
    <2> HIDE DEF flat, f, d
    <2>4. /\ t \in StreamingState /\ t.aggregate = flat /\ t.frontier = f
          /\ t.depth = d /\ t.chunkSummaries = r.chunkSummaries
          /\ SameReading(r, t) /\ SameMatches(r, t) /\ SameHeadings(r, t) /\ SameClaims(r, t)
        BY <1>1, <1>4, <2>2, <2>3
           DEF StreamingState, Summary, SameReading, SameMatches, SameHeadings, SameClaims
    <2>5. flat # Nothing
        BY <1>4, StateAssumption DEF Summary
    <2> HIDE DEF t
    <2>6. ReducesFinally(s, t)
        BY <1>1, <2>2, <2>3, <2>4, <2>5
           DEF Reduces, ReducesFinally, SameReading, SameMatches, SameHeadings, SameClaims, flat
    <2> QED BY <1>2, <2>1, <2>4, <2>6
<1>7. CASE Len(r.frontier) # 1 /\ ~ LastMergeDue(r)
    <2> DEFINE t == [r EXCEPT !.aggregate = Nothing]
    <2>1. FinalReduce(s) = t
        BY <1>7, Zenon DEF FinalReduce, r
    <2>2. /\ t \in StreamingState /\ t.aggregate = Nothing /\ t.frontier = r.frontier
          /\ t.depth = r.depth /\ t.chunkSummaries = r.chunkSummaries
          /\ SameReading(r, t) /\ SameMatches(r, t) /\ SameHeadings(r, t) /\ SameClaims(r, t)
        BY <1>1 DEF StreamingState, SameReading, SameMatches, SameHeadings, SameClaims
    <2>3. flat = <<>> \/ MaxSummaryDepth <= r.depth
        <3> HIDE DEF flat
        <3>1. CASE Len(r.frontier) = 0
            BY <1>4, <3>1
        <3>2. CASE Len(r.frontier) # 0
            <4>1. Len(r.frontier) > 1
                <5> DEFINE n == Len(r.frontier)
                <5>1. n \in Nat /\ n # 0 /\ n # 1
                    BY <1>4, <1>7, <3>2
                <5> HIDE DEF n
                <5>2. n > 1
                    BY <5>1
                <5> QED BY <5>2 DEF n
            <4>2. ~ (r.depth < MaxSummaryDepth)
                BY <1>7, <4>1 DEF LastMergeDue
            <4> QED BY <1>3, <4>2, LimitTypes
        <3> QED BY <3>1, <3>2
    <2> HIDE DEF t
    <2>4. ReducesFinally(s, t)
        <3>1. /\ SameReading(s, t) /\ SameMatches(s, t) /\ SameHeadings(s, t) /\ SameClaims(s, t)
              /\ t.chunkSummaries = s.chunkSummaries
              /\ FlattenSeq(t.frontier) = FlattenSeq(s.frontier)
            BY <1>1, <2>2
               DEF Reduces, SameReading, SameMatches, SameHeadings, SameClaims
        <3>2. s.depth <= MaxSummaryDepth =>
                 /\ t.depth <= MaxSummaryDepth
                 /\ flat # <<>> => t.depth = MaxSummaryDepth
            BY <1>1, <1>3, <2>2, <2>3, LimitTypes DEF Reduces
        <3>3. flat = FlattenSeq(s.frontier)
            BY <1>1 DEF Reduces
        <3> QED BY <2>2, <3>1, <3>2, <3>3 DEF ReducesFinally
    <2> QED BY <1>2, <2>1, <2>2, <2>4
<1> QED BY <1>5, <1>6, <1>7

-----------------------------------------------------------------------------
(* How a state is begun, counted, failed and given a status.               *)

SameProgress(s, t) ==
    /\ t.key = s.key /\ t.next = s.next /\ t.line = s.line
    /\ t.reviewed = s.reviewed /\ t.ranges = s.ranges

LEMMA InitialStateRight ==
    ASSUME NEW a \in Arguments
    PROVE  InitialState(a) \in StreamingState
<1>1. <<>> \in Seq(Stretch) /\ <<>> \in Seq(Entry) /\ <<>> \in Seq(Claim) /\ <<>> \in Seq(Summary)
    BY EmptySeq
<1>2. ResumeKey(a) \in {ResumeKey(b) : b \in Arguments}
    OBVIOUS
<1>3. "running" \in Statuses
    BY DEF Statuses
<1> DEFINE k == ResumeKey(a)
<1> HIDE DEF k
<1>4. k \in {ResumeKey(b) : b \in Arguments} /\
      InitialState(a) = [status |-> "running", key |-> k, next |-> 0, line |-> 1,
         reviewed |-> 0, ranges |-> <<>>, failed |-> <<>>,
         matches |-> <<>>, matchesOmitted |-> 0,
         headings |-> <<>>, headingsOmitted |-> 0,
         claims |-> <<>>, claimsOmitted |-> 0,
         chunkSummaries |-> <<>>, frontier |-> <<>>, depth |-> 0, aggregate |-> Nothing]
    BY <1>2, Zenon DEF InitialState, k
<1> QED BY <1>1, <1>3, <1>4 DEF StreamingState

LEMMA StatusGiven ==
    ASSUME NEW s \in StreamingState, NEW v \in Statuses
    PROVE  LET t == [s EXCEPT !.status = v]
           IN  /\ t \in StreamingState /\ t.status = v /\ t.failed = s.failed
               /\ SameProgress(s, t) /\ SameFindings(s, t)
BY DEF StreamingState, SameProgress, SameFindings, SameMatches, SameHeadings, SameClaims,
       SameSummaries

LEMMA FailedRight ==
    ASSUME NEW s \in StreamingState, NEW c \in Stretch
    PROVE  LET t == [s EXCEPT !.status = "failed", !.failed = Append(@, c)]
           IN  /\ t \in StreamingState /\ t.status = "failed" /\ t.failed = Append(s.failed, c)
               /\ SameProgress(s, t) /\ SameFindings(s, t)
<1> DEFINE f == Append(s.failed, c)
           t == [s EXCEPT !.status = "failed", !.failed = f]
<1>1. f \in Seq(Stretch) /\ "failed" \in Statuses
    BY AppendProperties DEF StreamingState, Statuses
<1> HIDE DEF f
<1>2. /\ t \in StreamingState /\ t.status = "failed" /\ t.failed = f
      /\ SameProgress(s, t) /\ SameFindings(s, t)
    BY <1>1 DEF StreamingState, SameProgress, SameFindings, SameMatches, SameHeadings,
                SameClaims, SameSummaries
<1> QED BY <1>2 DEF f

LEMMA CountedRight ==
    ASSUME NEW s \in StreamingState, NEW c \in Stretch, c[1] <= c[2]
    PROVE  LET t == Counted(s, c)
           IN  /\ t \in StreamingState /\ t.status = "running" /\ t.key = s.key
               /\ t.ranges = Append(s.ranges, c) /\ t.failed = s.failed
               /\ t.next = c[2] /\ t.reviewed = s.reviewed + (c[2] - c[1])
               /\ t.line = s.line + LinesEnded(c[1], c[2])
               /\ SameFindings(s, t)
<1> DEFINE q == Append(s.ranges, c)
           n == s.reviewed + (c[2] - c[1])
           l == s.line + LinesEnded(c[1], c[2])
           b == c[2]
           t == [s EXCEPT !.status = "running", !.ranges = q, !.reviewed = n, !.line = l,
                          !.next = b]
<1>1. c[1] \in Nat /\ b \in Nat
    BY LimitTypes DEF Stretch
<1>2. q \in Seq(Stretch) /\ "running" \in Statuses
    BY AppendProperties DEF StreamingState, Statuses
<1>3. n \in Nat /\ l \in Nat \ {0}
    <2>1. LinesEnded(c[1], b) \in Nat
        <3> HIDE DEF b
        <3>1. c[1] \in Int /\ b \in Int
            BY <1>1
        <3> QED BY <3>1, LinesEndedType
    <2>2. s.reviewed \in Nat /\ s.line \in Nat \ {0}
        BY DEF StreamingState
    <2> QED BY <1>1, <2>1, <2>2
<1>4. Counted(s, c) = t
    BY DEF Counted
<1> HIDE DEF q, n, l, b
<1>5. /\ t \in StreamingState /\ t.status = "running" /\ t.key = s.key
      /\ t.ranges = q /\ t.failed = s.failed /\ t.next = b /\ t.reviewed = n /\ t.line = l
      /\ SameFindings(s, t)
    BY <1>1, <1>2, <1>3
       DEF StreamingState, SameFindings, SameMatches, SameHeadings, SameClaims, SameSummaries
<1> HIDE DEF t
<1> QED BY <1>4, <1>5 DEF q, n, l, b

-----------------------------------------------------------------------------
(* The progress of the reading.                                            *)

\* Where the stretches read so far end.
Reached(s) == IF s.ranges = <<>> THEN 0 ELSE s.ranges[Len(s.ranges)][2]

\* s is the state of a reading of the document.
RightlyRead(s) ==
    /\ s \in StreamingState
    /\ s.next <= Size
    /\ s.reviewed = s.next
    /\ s.line = LineOf(s.next)
    /\ s.next = Reached(s)
    /\ \A i \in 1 .. Len(s.ranges) :
          s.ranges[i][1] < s.ranges[i][2] /\ s.ranges[i][2] <= s.next
    /\ s.status = "completed" => s.next = Size

Reasons == {"complete", "max_bytes", "max_chunks", "max_elapsed_seconds", "paused"}

\* What holds of a reading in every reachable state: the invariant that the
\* others rest on.
ReadingInv ==
    /\ subject \in Subjects
    /\ at \in {"down", "loop", "pause", "end", "report"}
    /\ at = "down" => args = Nothing /\ state = Nothing
    /\ at # "down" => args \in Arguments /\ state = file /\ file \notin {NoState, Torn}
    /\ at \in {"loop", "pause", "end"} => file.status # "completed"
    /\ done \in Nat /\ stopped \in Reasons
    /\ Tails
    /\ cuts \subseteq 1 .. Size
    /\ file = NoState => cuts = {}
    /\ file \notin {NoState, Torn} => RightlyRead(file) /\ cuts \subseteq 1 .. file.next
    /\ report \in {Nothing, Torn} \cup [status : Statuses, next : 0 .. Size]

LEMMA SameDocument ==
    ASSUME subject' = subject
    PROVE  /\ doc' = doc /\ query' = query /\ mode' = mode /\ Size' = Size
           /\ \A a, b : LinesEnded(a, b)' = LinesEnded(a, b)
           /\ \A p : LineOf(p)' = LineOf(p)
           /\ \A s : RightlyRead(s)' = RightlyRead(s)
<1>1. doc' = doc /\ query' = query /\ mode' = mode
    BY DEF doc, query, mode
<1>2. Size' = Size
    BY <1>1 DEF Size
<1>3. \A a, b : LinesEnded(a, b)' = LinesEnded(a, b)
    BY <1>1, Zenon DEF LinesEnded
<1>4. \A p : LineOf(p)' = LineOf(p)
    BY <1>3, Zenon DEF LineOf
<1>5. \A s : RightlyRead(s)' = RightlyRead(s)
    <2> SUFFICES ASSUME NEW s PROVE RightlyRead(s)' = RightlyRead(s)
        OBVIOUS
    <2> QED BY <1>2, <1>4, Zenon DEF RightlyRead
<1> QED BY <1>1, <1>2, <1>3, <1>4, <1>5

\* In every reachable state a file that holds a state holds one of a reading.
LEMMA FileRead ==
    ASSUME ReadingInv, at # "down"
    PROVE  /\ subject \in Subjects /\ args \in Arguments /\ state = file
           /\ state \in StreamingState /\ RightlyRead(state) /\ cuts \subseteq 1 .. state.next
           /\ state.next \in 0 .. Size /\ file \notin {NoState, Torn}
<1>1. RightlyRead(file)
    BY DEF ReadingInv
<1>2. file.next \in 0 .. Size
    <2>1. Size \in Nat
        BY DocumentSize DEF ReadingInv
    <2>2. file.next \in Nat /\ file.next <= Size
        BY <1>1 DEF RightlyRead, StreamingState
    <2> QED BY <2>1, <2>2
<1>3. file \in StreamingState
    BY <1>1 DEF RightlyRead
<1> QED BY <1>1, <1>2, <1>3 DEF ReadingInv

LEMMA StillRead ==
    ASSUME NEW s, NEW t \in StreamingState, RightlyRead(s), SameProgress(s, t),
           t.status = "completed" => s.next = Size
    PROVE  RightlyRead(t)
BY DEF RightlyRead, SameProgress, Reached

LEMMA SameReadingProgress ==
    ASSUME NEW s, NEW t, SameReading(s, t)
    PROVE  SameProgress(s, t)
BY DEF SameReading, SameProgress

LEMMA InitialRead ==
    ASSUME subject \in Subjects, NEW a \in Arguments
    PROVE  RightlyRead(InitialState(a)) /\ InitialState(a).next = 0
           /\ InitialState(a).status = "running"
<1> DEFINE s == InitialState(a)
<1>1. s \in StreamingState
    BY InitialStateRight
<1>2. s.next = 0 /\ s.line = 1 /\ s.reviewed = 0 /\ s.ranges = <<>> /\ s.status = "running"
    BY DEF InitialState
<1> HIDE DEF s
<1>3. LineOf(0) = 1
    <2>1. LinesEnded(0, 0) = 0
        BY LinesEndedNone
    <2> QED BY <2>1 DEF LineOf
<1>4. 0 <= Size
    BY DocumentSize
<1>5. Reached(s) = 0 /\ Len(s.ranges) = 0
    BY <1>2 DEF Reached
<1> QED BY <1>1, <1>2, <1>3, <1>4, <1>5 DEF RightlyRead, s

LEMMA CountedRead ==
    ASSUME subject \in Subjects, NEW s, NEW t \in StreamingState, RightlyRead(s),
           SameReading(s, t), NEW c \in Stretch, c[1] = s.next, c[1] < c[2], c[2] <= Size
    PROVE  RightlyRead(Counted(t, c))
<1> DEFINE u == Counted(t, c)
<1>1. c[1] \in Nat /\ c[2] \in Nat
    BY LimitTypes DEF Stretch
<1>2. /\ s.reviewed = s.next /\ s.line = LineOf(s.next) /\ s.next = Reached(s)
      /\ \A i \in 1 .. Len(s.ranges) :
            s.ranges[i][1] < s.ranges[i][2] /\ s.ranges[i][2] <= s.next
    BY DEF RightlyRead
<1>3. /\ t.next = s.next /\ t.line = s.line /\ t.reviewed = s.reviewed /\ t.ranges = s.ranges
    BY DEF SameReading
<1>4. /\ u \in StreamingState /\ u.status = "running"
      /\ u.ranges = Append(s.ranges, c) /\ u.next = c[2]
      /\ u.reviewed = s.reviewed + (c[2] - c[1])
      /\ u.line = s.line + LinesEnded(c[1], c[2])
    BY <1>1, <1>3, CountedRight
<1> HIDE DEF u
<1>5. u.reviewed = c[2]
    BY <1>1, <1>2, <1>4
<1>6. u.line = LineOf(c[2])
    BY <1>1, <1>2, <1>4, LineOfLater
<1>7. /\ s.ranges \in Seq(Stretch) /\ Len(s.ranges) \in Nat
      /\ u.ranges # <<>> /\ Len(u.ranges) = Len(s.ranges) + 1
      /\ u.ranges[Len(s.ranges) + 1] = c
      /\ \A i \in 1 .. Len(s.ranges) : u.ranges[i] = s.ranges[i]
    <2>1. s.ranges \in Seq(Stretch)
        BY DEF RightlyRead, StreamingState
    <2> QED BY <1>4, <2>1, AppendProperties, LenProperties
<1>8. Reached(u) = c[2]
    BY <1>7 DEF Reached
<1>9. ASSUME NEW i \in 1 .. Len(u.ranges)
      PROVE  u.ranges[i][1] < u.ranges[i][2] /\ u.ranges[i][2] <= c[2]
    <2>1. CASE i \in 1 .. Len(s.ranges)
        <3>1. u.ranges[i] = s.ranges[i] /\ s.ranges[i] \in Stretch
            BY <1>7, <2>1, ElementOfSeq
        <3>2. u.ranges[i][2] \in Nat
            BY <3>1, LimitTypes DEF Stretch
        <3>3. u.ranges[i][1] < u.ranges[i][2] /\ u.ranges[i][2] <= c[1]
            BY <1>2, <2>1, <3>1
        <3> QED BY <1>1, <3>2, <3>3
    <2>2. CASE i = Len(s.ranges) + 1
        BY <1>1, <1>7, <2>2
    <2> QED BY <1>7, <2>1, <2>2
<1> QED BY <1>4, <1>5, <1>6, <1>8, <1>9 DEF RightlyRead, u

\* Where a tail for the query begins that is kept when the reading is at n.
TailStart(n) == Most(n, Len(query) - 1) - (Len(query) - 1)

LEMMA TailStartType ==
    ASSUME subject \in Subjects, NEW n \in Nat
    PROVE  TailStart(n) \in 0 .. n
BY DocumentSize DEF TailStart, Most

LEMMA NewTailType ==
    ASSUME NEW start \in Nat, NEW behind \in Nat, NEW line \in Nat
    PROVE  Most(1, line - LinesEnded(start, behind)) \in Nat
<1>1. LinesEnded(start, behind) \in Nat
    BY LinesEndedType
<1> QED BY <1>1 DEF Most

LEMMA LeaveRight ==
    ASSUME ReadingInv, Leave, subject' = subject
    PROVE  /\ at' = "down" /\ args' = Nothing /\ state' = Nothing
           /\ done' \in Nat /\ stopped' \in Reasons /\ Tails'
<1>1. Size' \in Nat
    BY SameDocument, DocumentSize DEF ReadingInv
<1> QED BY <1>1 DEF Leave, Tails, Reasons

LEMMA BeginRight ==
    ASSUME subject \in Subjects, subject' = subject, NEW a \in Arguments, NEW s, RightlyRead(s),
           Begin(a, s)
    PROVE  /\ at' \in {"loop", "end"} /\ args' = a /\ state' = s
           /\ done' \in Nat /\ stopped' \in Reasons /\ Tails'
           /\ tail' = [start |-> TailStart(s.next),
                       line |-> Most(1, s.line - LinesEnded(TailStart(s.next), s.next))]
           /\ lineTail' = [start |-> s.next, line |-> s.line]
<1>1. /\ at' \in {"loop", "end"} /\ args' = a /\ state' = s /\ done' = 0
      /\ lineTail' = [start |-> s.next, line |-> s.line]
    BY DEF Begin
<1>2. stopped' \in Reasons
    BY DEF Begin, StopReason, Reasons
<1>3. tail' = [start |-> TailStart(s.next),
               line |-> Most(1, s.line - LinesEnded(TailStart(s.next), s.next))]
    BY Zenon DEF Begin, TailStart
<1>4. s.next \in Nat /\ s.next <= Size /\ s.line \in Nat /\ Size \in Nat
    BY DocumentSize DEF RightlyRead, StreamingState
<1>5. TailStart(s.next) \in 0 .. s.next
    BY <1>4, TailStartType
<1>6. TailStart(s.next) \in Nat
    BY <1>4, <1>5
<1>7. Most(1, s.line - LinesEnded(TailStart(s.next), s.next)) \in Nat
    BY <1>4, <1>6, NewTailType
<1>8. Tails'
    <2> DEFINE n == TailStart(s.next)
               l == Most(1, s.line - LinesEnded(TailStart(s.next), s.next))
    <2>1. n \in 0 .. s.next /\ l \in Nat /\ tail' = [start |-> n, line |-> l]
        BY <1>3, <1>5, <1>7
    <2> HIDE DEF n, l
    <2>2. n \in 0 .. Size
        BY <1>4, <2>1
    <2>3. tail' \in [start : 0 .. Size, line : Nat]
        BY <2>1, <2>2
    <2>4. lineTail' \in [start : 0 .. Size, line : Nat]
        BY <1>1, <1>4
    <2> QED BY <2>3, <2>4, SameDocument DEF Tails
<1> QED BY <1>1, <1>2, <1>3, <1>8

LEMMA TailAfterRight ==
    ASSUME subject \in Subjects, Tails, NEW c \in Stretch, c[2] <= Size, NEW line \in Nat
    PROVE  /\ TailAfter(c, line) \in [start : 0 .. Size, line : Nat]
           /\ TailAfter(c, line).start = Most(tail.start, TailStart(c[2]))
           /\ TailAfter(c, line).line
                  = Most(1, line - LinesEnded(TailAfter(c, line).start, c[2]))
<1> DEFINE n == Most(tail.start, TailStart(c[2]))
           l == Most(1, line - LinesEnded(n, c[2]))
<1>1. TailAfter(c, line) = [start |-> n, line |-> l]
    BY Zenon DEF TailAfter, TailStart
<1>2. c[2] \in Nat /\ Size \in Nat /\ tail.start \in 0 .. Size
    BY DocumentSize DEF Stretch, Tails
<1>3. TailStart(c[2]) \in 0 .. c[2]
    BY <1>2, TailStartType
<1>4. n \in 0 .. Size
    BY <1>2, <1>3 DEF Most
<1>5. n \in Nat
    BY <1>2, <1>4
<1> HIDE DEF n
<1>6. l \in Nat
    BY <1>2, <1>5, NewTailType
<1> HIDE DEF l
<1>7. /\ TailAfter(c, line) \in [start : 0 .. Size, line : Nat]
      /\ TailAfter(c, line).start = n /\ TailAfter(c, line).line = l
    BY <1>1, <1>4, <1>6
<1> QED BY <1>7 DEF n, l

LEMMA LineTailAfterRight ==
    ASSUME subject \in Subjects, Tails, NEW c \in Stretch, c[2] <= Size, NEW line \in Nat
    PROVE  LET ends == Ends(lineTail.start, c[2])
               t == LineTailAfter(c, line)
           IN  /\ t \in [start : 0 .. Size, line : Nat]
               /\ ends = {} => t.start = lineTail.start
               /\ ends # {} => t.start \in ends /\ \A q \in ends : q <= t.start
               /\ t.line = IF t.start = c[2] THEN line
                           ELSE lineTail.line + LinesEnded(lineTail.start, t.start)
<1> DEFINE ends == Ends(lineTail.start, c[2])
           last(p) == p \in ends /\ \A q \in ends : q <= p
           n == IF ends = {} THEN lineTail.start
                ELSE CHOOSE p \in ends : \A q \in ends : q <= p
           l == IF n = c[2] THEN line ELSE lineTail.line + LinesEnded(lineTail.start, n)
<1>1. LineTailAfter(c, line) = [start |-> n, line |-> l]
    BY Zenon DEF LineTailAfter, Ends
<1>2. c[2] \in Nat /\ Size \in Nat /\ lineTail.start \in 0 .. Size /\ lineTail.line \in Nat
    BY DocumentSize DEF Stretch, Tails
<1>3. ends \subseteq lineTail.start + 1 .. c[2]
    BY DEF Ends
<1>4. ends # {} => n \in ends /\ \A q \in ends : q <= n
    <2> SUFFICES ASSUME ends # {} PROVE n \in ends /\ \A q \in ends : q <= n
        OBVIOUS
    <2>1. ends \subseteq Int /\ c[2] \in Int /\ \A x \in ends : x <= c[2]
        BY <1>2, <1>3
    <2> HIDE DEF ends
    <2>2. \E p \in ends : \A q \in ends : q <= p
        BY <2>1, Highest
    <2> QED BY <2>2
<1>5. n \in 0 .. Size
    <2>1. CASE ends = {}
        BY <1>2, <2>1
    <2>2. CASE ends # {}
        BY <1>2, <1>3, <1>4, <2>2
    <2> QED BY <2>1, <2>2
<1>6. ends = {} => n = lineTail.start
    OBVIOUS
<1> HIDE DEF n
<1>7. l \in Nat
    <2>1. LinesEnded(lineTail.start, n) \in Nat
        <3>1. lineTail.start \in Int /\ n \in Int
            BY <1>2, <1>5
        <3> QED BY <3>1, LinesEndedType
    <2> QED BY <1>2, <2>1
<1> HIDE DEF l
<1>8. /\ LineTailAfter(c, line) \in [start : 0 .. Size, line : Nat]
      /\ LineTailAfter(c, line).start = n /\ LineTailAfter(c, line).line = l
    BY <1>1, <1>5, <1>7
<1> QED BY <1>4, <1>6, <1>8 DEF l

\* The invariant after a step, from what the step leaves in the file and in memory.
LEMMA StepReads ==
    ASSUME ReadingInv, subject' = subject, done' \in Nat, stopped' \in Reasons, Tails',
           at' \in {"down", "loop", "pause", "end", "report"},
           at' = "down" => args' = Nothing /\ state' = Nothing,
           at' # "down" => args' \in Arguments /\ state' = file' /\ file' \notin {NoState, Torn},
           at' \in {"loop", "pause", "end"} => file'.status # "completed",
           file' = NoState => cuts' = {},
           cuts' \subseteq 1 .. Size,
           file' \notin {NoState, Torn} => RightlyRead(file') /\ cuts' \subseteq 1 .. file'.next,
           report' \in {Nothing, Torn} \cup [status : Statuses, next : 0 .. Size]
    PROVE  ReadingInv'
<1>1. Size' = Size /\ \A s : RightlyRead(s)' = RightlyRead(s)
    BY SameDocument
<1>2. subject' \in Subjects
    BY DEF ReadingInv
<1> QED BY <1>1, <1>2 DEF ReadingInv

LEMMA StateIsNoMark ==
    ASSUME NEW s \in StreamingState
    PROVE  s # NoState /\ s # Torn /\ s # Nothing
BY StateAssumption

\* Chunks that are read on and chunks that fail.
LEMMA FinishReads ==
    ASSUME ReadingInv, MoreToRead, NEW t \in StreamingState, SameReading(state, t), FinishChunk(t)
    PROVE  ReadingInv' /\ file' = Counted(t, Chunk) /\ RightlyRead(file')
           /\ file'.next = ChunkEnd /\ file'.ranges = Append(state.ranges, Chunk)
           /\ file'.status = "running"
<1> DEFINE u == Counted(t, Chunk)
<1>1. at = "loop" /\ subject' = subject /\ cuts' = cuts /\ report' = report /\ args' = args
      /\ stopped' = stopped /\ file' = u /\ state' = u /\ done' = done + 1
      /\ at' \in {"pause", "loop"}
      /\ tail' = TailAfter(Chunk, u.line)
      /\ (lineTail' = LineTailAfter(Chunk, u.line) \/ lineTail' = lineTail)
    BY DEF FinishChunk, Persist, MoreToRead
<1>2. /\ subject \in Subjects /\ args \in Arguments /\ state = file
      /\ RightlyRead(state) /\ cuts \subseteq 1 .. state.next /\ state.next \in 0 .. Size
    BY <1>1, FileRead
<1>3. /\ ChunkEnd \in Nat /\ state.next < ChunkEnd /\ ChunkEnd <= Size
      /\ Chunk \in Stretch /\ Chunk[1] = state.next /\ Chunk[2] = ChunkEnd
    BY <1>2, ChunkRight
<1>4. RightlyRead(u)
    BY <1>2, <1>3, CountedRead
<1>5. u \in StreamingState /\ u.status = "running" /\ u.next = ChunkEnd
      /\ u.ranges = Append(t.ranges, Chunk)
    <2>1. Chunk[1] <= Chunk[2]
        BY <1>2, <1>3, DocumentSize
    <2> QED BY <1>3, <2>1, CountedRight
<1> HIDE DEF u
<1>6. u.line \in Nat /\ u.next \in Nat
    BY <1>5 DEF StreamingState
<1>7. Tails /\ done \in Nat /\ stopped \in Reasons /\ cuts \subseteq 1 .. Size
      /\ report \in {Nothing, Torn} \cup [status : Statuses, next : 0 .. Size]
    BY DEF ReadingInv
<1>8. Tails'
    <2>1. TailAfter(Chunk, u.line) \in [start : 0 .. Size, line : Nat]
        BY <1>2, <1>3, <1>6, <1>7, TailAfterRight
    <2>2. LineTailAfter(Chunk, u.line) \in [start : 0 .. Size, line : Nat]
        BY <1>2, <1>3, <1>6, <1>7, LineTailAfterRight
    <2> QED BY <1>1, <1>7, <2>1, <2>2, SameDocument DEF Tails
<1>9. cuts \subseteq 1 .. u.next
    BY <1>2, <1>3, <1>5
<1>10. t.ranges = state.ranges
    BY DEF SameReading
<1>11. u # NoState /\ u # Torn
    BY <1>5, StateIsNoMark
<1>12. ReadingInv'
    BY <1>1, <1>2, <1>4, <1>5, <1>7, <1>8, <1>9, <1>11, StepReads
<1> QED BY <1>1, <1>4, <1>5, <1>10, <1>12 DEF u

LEMMA FailReads ==
    ASSUME ReadingInv, MoreToRead, NEW t \in StreamingState, SameReading(state, t), FailChunk(t)
    PROVE  ReadingInv' /\ RightlyRead(file') /\ file'.status = "failed"
           /\ file'.ranges = state.ranges /\ file'.next = state.next
<1> DEFINE u == [t EXCEPT !.status = "failed", !.failed = Append(@, Chunk)]
<1>1. at = "loop" /\ subject' = subject /\ cuts' = cuts /\ report' = report /\ file' = u /\ Leave
    BY DEF FailChunk, MoreToRead
<1>2. /\ subject \in Subjects /\ args \in Arguments /\ state = file
      /\ RightlyRead(state) /\ cuts \subseteq 1 .. state.next /\ state.next \in 0 .. Size
    BY <1>1, FileRead
<1>3. Chunk \in Stretch
    BY <1>2, ChunkRight
<1>4. u \in StreamingState /\ u.status = "failed" /\ SameProgress(t, u)
    BY <1>3, FailedRight
<1> HIDE DEF u
<1>5. SameProgress(state, u)
    BY <1>4 DEF SameReading, SameProgress
<1>6. RightlyRead(u)
    BY <1>2, <1>4, <1>5, StillRead
<1>7. u.next = state.next /\ u.ranges = state.ranges
    BY <1>5 DEF SameProgress
<1>8. done' \in Nat /\ stopped' \in Reasons /\ Tails'
      /\ at' = "down" /\ args' = Nothing /\ state' = Nothing
    BY <1>1, LeaveRight
<1>9. u # NoState /\ u # Torn
    BY <1>4, StateIsNoMark
<1>10. cuts \subseteq 1 .. Size
      /\ report \in {Nothing, Torn} \cup [status : Statuses, next : 0 .. Size]
    BY DEF ReadingInv
<1>11. ReadingInv'
    BY <1>1, <1>2, <1>6, <1>7, <1>8, <1>9, <1>10, StepReads
<1> QED BY <1>1, <1>4, <1>6, <1>7, <1>11

\* What the chunk adds, when it is reviewed and when a role answers.
LEMMA ReviewAdds ==
    ASSUME ReadingInv, ReviewChunk
    PROVE  \E t \in StreamingState : /\ FoundAdded(state, t, Chunk) /\ SameReading(state, t)
                                     /\ FinishChunk(t)
<1>1. at = "loop" /\ MoreToRead
    BY DEF ReviewChunk, MoreToRead
<1>2. subject \in Subjects /\ args \in Arguments /\ state \in StreamingState
      /\ state.next \in 0 .. Size /\ Tails
    BY <1>1, FileRead DEF ReadingInv
<1>3. Chunk[2] \in Nat /\ Chunk[2] <= Size
    BY <1>1, <1>2, ChunkRight
<1>4. AddFound(state, Chunk) \in StreamingState
      /\ FoundAdded(state, AddFound(state, Chunk), Chunk)
    BY <1>2, <1>3, AddFoundRight
<1>5. FinishChunk(AddFound(state, Chunk))
    BY DEF ReviewChunk
<1>6. SameReading(state, AddFound(state, Chunk))
    BY <1>4 DEF FoundAdded
<1> QED BY <1>4, <1>5, <1>6

Answers == {<<>>} \cup {<<c>> : c \in Citations}

LEMMA AnswerAdds ==
    ASSUME ReadingInv, MoreToRead, NEW cited \in Answers
    PROVE  LET t == AddAnswer(state, Chunk, cited)
           IN  t \in StreamingState /\ AnswerAdded(state, t, Chunk)
<1>1. at = "loop"
    BY DEF MoreToRead
<1>2. subject \in Subjects /\ args \in Arguments /\ state \in StreamingState
      /\ state.next \in 0 .. Size
    BY <1>1, FileRead
<1>3. Chunk \in Stretch
    BY <1>2, ChunkRight
<1> QED BY <1>2, <1>3, AddAnswerRight DEF Answers

LEMMA AssistedAdds ==
    ASSUME ReadingInv, AssistedChunk
    PROVE  \E t \in StreamingState, u \in StreamingState :
              /\ AnswerAdded(state, t, Chunk) /\ Reduces(t, u) /\ (mode # "summarize" => u = t)
              /\ SameReading(state, u) /\ FinishChunk(u)
<1>1. MoreToRead
    BY DEF AssistedChunk
<1>2. PICK cited \in Answers :
          LET answered == AddAnswer(state, Chunk, cited)
          IN  FinishChunk(IF mode = "summarize" THEN Reduce(answered) ELSE answered)
    BY DEF AssistedChunk, Answers
<1> DEFINE t == AddAnswer(state, Chunk, cited)
           u == IF mode = "summarize" THEN Reduce(t) ELSE t
<1>3. t \in StreamingState /\ AnswerAdded(state, t, Chunk)
    BY <1>1, AnswerAdds
<1>4. FinishChunk(u)
    BY <1>2
<1> HIDE DEF t
<1>5. u \in StreamingState /\ Reduces(t, u) /\ (mode # "summarize" => u = t)
    BY <1>3, ReduceRight, ReducesItself
<1> HIDE DEF u
<1>6. SameReading(state, u)
    BY <1>3, <1>5 DEF AnswerAdded, Reduces, SameReading
<1> QED BY <1>3, <1>4, <1>5, <1>6

LEMMA MergeFailAdds ==
    ASSUME ReadingInv, MergeFails
    PROVE  \E t \in StreamingState, u \in StreamingState :
              /\ AnswerAdded(state, t, Chunk) /\ Reduces(t, u) /\ mode = "summarize"
              /\ SameReading(state, u) /\ FailChunk(u)
<1>1. MoreToRead /\ mode = "summarize"
    BY DEF MergeFails
<1>2. PICK cited \in Answers :
          \E s \in ReduceFailures(AddAnswer(state, Chunk, cited)) : FailChunk(s)
    BY DEF MergeFails, Answers
<1> DEFINE t == AddAnswer(state, Chunk, cited)
<1>3. t \in StreamingState /\ AnswerAdded(state, t, Chunk)
    BY <1>1, AnswerAdds
<1>4. PICK u \in ReduceFailures(t) : FailChunk(u)
    BY <1>2
<1> HIDE DEF t
<1>5. u \in StreamingState /\ Reduces(t, u)
    BY <1>3, <1>4, ReduceRight
<1>6. SameReading(state, u)
    BY <1>3, <1>5 DEF AnswerAdded, Reduces, SameReading
<1> QED BY <1>1, <1>3, <1>4, <1>5, <1>6

LEMMA PauseReads ==
    ASSUME ReadingInv, PauseRun
    PROVE  /\ ReadingInv' /\ file' \in StreamingState /\ file'.status = "paused"
           /\ SameProgress(state, file') /\ SameFindings(state, file')
           /\ file'.failed = state.failed
<1> DEFINE u == [state EXCEPT !.status = "paused"]
<1>1. at = "pause" /\ subject' = subject /\ cuts' = cuts /\ report' = report /\ args' = args
      /\ stopped' = "paused" /\ file' = u /\ state' = u /\ done' = done /\ at' = "end"
      /\ tail' = tail /\ lineTail' = lineTail
    BY DEF PauseRun, Persist, tails
<1>2. /\ args \in Arguments /\ RightlyRead(state) /\ state \in StreamingState
      /\ cuts \subseteq 1 .. state.next
    BY <1>1, FileRead
<1>3. u \in StreamingState /\ u.status = "paused" /\ SameProgress(state, u)
      /\ SameFindings(state, u) /\ u.failed = state.failed
    <2>1. "paused" \in Statuses
        BY DEF Statuses
    <2> QED BY <1>2, <2>1, StatusGiven
<1> HIDE DEF u
<1>4. RightlyRead(u)
    BY <1>2, <1>3, StillRead
<1>5. u.next = state.next
    BY <1>3 DEF SameProgress
<1>6. u # NoState /\ u # Torn
    BY <1>3, StateIsNoMark
<1>7. done \in Nat /\ Tails /\ cuts \subseteq 1 .. Size /\ "paused" \in Reasons
      /\ report \in {Nothing, Torn} \cup [status : Statuses, next : 0 .. Size]
    BY DEF ReadingInv, Reasons
<1>8. Tails'
    BY <1>1, <1>7, SameDocument DEF Tails
<1>9. ReadingInv'
    BY <1>1, <1>2, <1>3, <1>4, <1>5, <1>6, <1>7, <1>8, StepReads
<1> QED BY <1>1, <1>3, <1>9

\* The state behind the loop, with its status.
LEMMA EndedRight ==
    ASSUME ReadingInv, at = "end"
    PROVE  /\ EndedState \in StreamingState /\ EndedState.status = EndStatus
           /\ SameProgress(state, EndedState) /\ SameFindings(state, EndedState)
           /\ EndedState.failed = state.failed /\ RightlyRead(EndedState)
           /\ EndStatus = "completed" <=> state.next = Size
           /\ EndedState # NoState /\ EndedState # Torn /\ EndedState.next = state.next
<1>1. /\ RightlyRead(state) /\ state \in StreamingState /\ state.next \in 0 .. Size
      /\ subject \in Subjects
    BY FileRead
<1>2. EndStatus \in Statuses
    BY DEF EndStatus, Statuses
<1>3. EndStatus = "completed" <=> state.next = Size
    <2>1. Size \in Nat /\ state.next \in Nat /\ state.next <= Size
        BY <1>1, DocumentSize
    <2> QED BY <2>1 DEF EndStatus
<1> DEFINE e == EndStatus
           u == [state EXCEPT !.status = e]
<1> HIDE DEF e
<1>4. u \in StreamingState /\ u.status = e /\ SameProgress(state, u)
      /\ SameFindings(state, u) /\ u.failed = state.failed
    BY <1>1, <1>2, StatusGiven DEF e
<1>5. EndedState = u
    BY DEF EndedState, e
<1> HIDE DEF u
<1>6. RightlyRead(u)
    BY <1>1, <1>3, <1>4, StillRead DEF e
<1>7. u # NoState /\ u # Torn
    BY <1>4, StateIsNoMark
<1>8. u.next = state.next
    BY <1>4 DEF SameProgress
<1> QED BY <1>3, <1>4, <1>5, <1>6, <1>7, <1>8 DEF e

LEMMA EndReads ==
    ASSUME ReadingInv, EndRun
    PROVE  /\ ReadingInv' /\ file' \in StreamingState /\ RightlyRead(file')
           /\ file'.ranges = state.ranges /\ file'.next = state.next
           /\ file'.status = "completed" <=> state.next = Size
           /\ file'.status = EndStatus
           /\ file' = EndedState \/ (LastReduction /\ ReducesFinally(EndedState, file'))
<1> DEFINE u == IF LastReduction THEN FinalReduce(EndedState) ELSE EndedState
<1>1. at = "end" /\ subject' = subject /\ cuts' = cuts /\ report' = report /\ args' = args
      /\ stopped' = stopped /\ file' = u /\ state' = u /\ done' = done /\ at' = "report"
      /\ tail' = tail /\ lineTail' = lineTail
    BY DEF EndRun, Persist, tails
<1>2. /\ args \in Arguments /\ RightlyRead(state) /\ state \in StreamingState
      /\ cuts \subseteq 1 .. state.next
    BY <1>1, FileRead
<1>3. /\ EndedState \in StreamingState /\ EndedState.status = EndStatus
      /\ SameProgress(state, EndedState) /\ RightlyRead(EndedState)
      /\ EndStatus = "completed" <=> state.next = Size
    BY <1>1, EndedRight
<1>4. /\ u \in StreamingState
      /\ u = EndedState \/ (LastReduction /\ ReducesFinally(EndedState, u))
    <2>1. CASE LastReduction
        BY <1>3, <2>1, FinalReduceRight
    <2>2. CASE ~ LastReduction
        BY <1>3, <2>2
    <2> QED BY <2>1, <2>2
<1> HIDE DEF u
<1>5. SameProgress(EndedState, u) /\ u.status = EndStatus
    <2>1. CASE u = EndedState
        BY <1>3, <2>1 DEF SameProgress
    <2>2. CASE ReducesFinally(EndedState, u)
        BY <1>3, <2>2 DEF SameProgress, SameReading, ReducesFinally
    <2> QED BY <1>4, <2>1, <2>2
<1>6. EndedState.next = state.next /\ EndedState.ranges = state.ranges
    BY <1>3 DEF SameProgress
<1>7. u.next = state.next /\ u.ranges = state.ranges
    BY <1>5, <1>6 DEF SameProgress
<1>8. RightlyRead(u)
    BY <1>3, <1>4, <1>5, <1>6, StillRead
<1>9. u # NoState /\ u # Torn
    BY <1>4, StateIsNoMark
<1>10. done \in Nat /\ Tails /\ cuts \subseteq 1 .. Size /\ stopped \in Reasons
      /\ report \in {Nothing, Torn} \cup [status : Statuses, next : 0 .. Size]
    BY DEF ReadingInv
<1>11. Tails'
    BY <1>1, <1>10, SameDocument DEF Tails
<1>12. ReadingInv'
    BY <1>1, <1>2, <1>7, <1>8, <1>9, <1>10, <1>11, StepReads
<1> QED BY <1>1, <1>3, <1>4, <1>5, <1>7, <1>8, <1>12

LEMMA LastReductionFailAdds ==
    ASSUME ReadingInv, LastReductionFails
    PROVE  /\ ReadingInv' /\ file' \in StreamingState /\ RightlyRead(file')
           /\ file'.status = "failed" /\ mode = "summarize"
           /\ file'.ranges = state.ranges /\ file'.next = state.next
           /\ \E s \in StreamingState : /\ Reduces(EndedState, s)
                                        /\ file'.failed = s.failed /\ SameFindings(s, file')
<1>1. at = "end" /\ subject' = subject /\ cuts' = cuts /\ report' = report /\ Leave
      /\ mode = "summarize"
    BY DEF LastReductionFails, LastReduction
<1>2. PICK s \in FinalReduceFailures(EndedState) : file' = [s EXCEPT !.status = "failed"]
    BY DEF LastReductionFails
<1>3. /\ RightlyRead(state) /\ state \in StreamingState /\ cuts \subseteq 1 .. state.next
      /\ EndedState \in StreamingState /\ RightlyRead(EndedState)
      /\ SameProgress(state, EndedState)
    BY <1>1, FileRead, EndedRight
<1>4. s \in StreamingState /\ Reduces(EndedState, s)
    BY <1>3, FinalReduceRight
<1>5. file' \in StreamingState /\ file'.status = "failed" /\ SameProgress(s, file')
      /\ SameFindings(s, file') /\ file'.failed = s.failed
    <2>1. "failed" \in Statuses
        BY DEF Statuses
    <2> QED BY <1>2, <1>4, <2>1, StatusGiven
<1>6. SameProgress(state, file')
    BY <1>3, <1>4, <1>5 DEF Reduces, SameReading, SameProgress
<1>7. RightlyRead(file')
    BY <1>3, <1>5, <1>6, StillRead
<1>8. file'.next = state.next /\ file'.ranges = state.ranges
    BY <1>6 DEF SameProgress
<1>9. file' # NoState /\ file' # Torn
    BY <1>5, StateIsNoMark
<1>10. done' \in Nat /\ stopped' \in Reasons /\ Tails'
       /\ at' = "down" /\ args' = Nothing /\ state' = Nothing
    BY <1>1, LeaveRight
<1>11. cuts \subseteq 1 .. Size
      /\ report \in {Nothing, Torn} \cup [status : Statuses, next : 0 .. Size]
    BY DEF ReadingInv
<1>12. ReadingInv'
    BY <1>1, <1>3, <1>7, <1>8, <1>9, <1>10, <1>11, StepReads
<1> QED BY <1>1, <1>4, <1>5, <1>7, <1>8, <1>12

LEMMA StartReads ==
    ASSUME ReadingInv, NEW a \in Arguments, Start(a)
    PROVE  ReadingInv' /\ file' = InitialState(a) /\ file = NoState /\ cuts = {} /\ cuts' = {}
<1> DEFINE s == InitialState(a)
<1>1. at = "down" /\ file = NoState /\ Begin(a, s) /\ file' = s /\ subject' = subject
      /\ report' = report /\ cuts' = cuts
    BY DEF Start
<1>2. subject \in Subjects /\ cuts = {} /\ cuts \subseteq 1 .. Size
      /\ report \in {Nothing, Torn} \cup [status : Statuses, next : 0 .. Size]
    BY <1>1 DEF ReadingInv
<1>3. s \in StreamingState /\ RightlyRead(s) /\ s.next = 0 /\ s.status = "running"
    BY <1>2, InitialStateRight, InitialRead
<1> HIDE DEF s
<1>4. s # NoState /\ s # Torn
    BY <1>3, StateIsNoMark
<1>5. at' \in {"loop", "end"} /\ args' = a /\ state' = s /\ done' \in Nat
      /\ stopped' \in Reasons /\ Tails'
    BY <1>1, <1>2, <1>3, BeginRight
<1>6. ReadingInv'
    BY <1>1, <1>2, <1>3, <1>4, <1>5, StepReads
<1> QED BY <1>1, <1>2, <1>6 DEF s

LEMMA ResumeReads ==
    ASSUME ReadingInv, NEW a \in Arguments, Resume(a)
    PROVE  ReadingInv' /\ file' = file /\ RightlyRead(file) /\ cuts \subseteq 1 .. file.next
           /\ file \notin {NoState, Torn}
<1>1. at = "down" /\ file \notin {NoState, Torn} /\ Begin(a, file) /\ file' = file
      /\ subject' = subject /\ report' = report /\ Resumable(file, a)
      /\ cuts' = IF WithinLine(file) THEN cuts \cup {file.next} ELSE cuts
    BY DEF Resume
<1>2. subject \in Subjects /\ RightlyRead(file) /\ cuts \subseteq 1 .. file.next
      /\ report \in {Nothing, Torn} \cup [status : Statuses, next : 0 .. Size]
    BY <1>1 DEF ReadingInv
<1>3. at' \in {"loop", "end"} /\ args' = a /\ state' = file /\ done' \in Nat
      /\ stopped' \in Reasons /\ Tails'
    BY <1>1, <1>2, BeginRight
<1>4. file.status # "completed"
    BY <1>1 DEF Resumable
<1>5. file.next \in Nat /\ file.next <= Size /\ Size \in Nat
    BY <1>2, DocumentSize DEF RightlyRead, StreamingState
<1>6. cuts' \subseteq 1 .. file.next
    <2>1. CASE WithinLine(file)
        <3>1. file.next \in 1 .. file.next
            BY <1>5, <2>1 DEF WithinLine
        <3>2. cuts' = cuts \cup {file.next}
            BY <1>1, <2>1
        <3> QED BY <1>2, <3>1, <3>2
    <2>2. CASE ~ WithinLine(file)
        BY <1>1, <1>2, <2>2
    <2> QED BY <2>1, <2>2
<1>7. cuts' \subseteq 1 .. Size
    BY <1>5, <1>6
<1>8. ReadingInv'
    BY <1>1, <1>2, <1>3, <1>4, <1>6, <1>7, StepReads
<1> QED BY <1>1, <1>2, <1>8

\* A step that leaves the file and the invocation's state as they are.
LEMMA LoopEndReads ==
    ASSUME ReadingInv, StopAtLimit \/ NothingToRead
    PROVE  ReadingInv' /\ file' = file /\ at' = "end"
<1>1. at = "loop" /\ subject' = subject /\ cuts' = cuts /\ report' = report /\ args' = args
      /\ file' = file /\ state' = state /\ done' = done /\ at' = "end"
      /\ tail' = tail /\ lineTail' = lineTail
      /\ (stopped' = stopped \/ stopped' \in LimitsReached)
    BY DEF StopAtLimit, NothingToRead, MoreToRead, tails
<1>2. args \in Arguments /\ state = file /\ file \notin {NoState, Torn}
      /\ RightlyRead(file) /\ cuts \subseteq 1 .. file.next
    BY <1>1, FileRead
<1>3. done \in Nat /\ Tails /\ cuts \subseteq 1 .. Size /\ file.status # "completed"
      /\ report \in {Nothing, Torn} \cup [status : Statuses, next : 0 .. Size]
    BY <1>1 DEF ReadingInv
<1>4. stopped' \in Reasons
    BY <1>1 DEF ReadingInv, Reasons, LimitsReached
<1>5. Tails'
    BY <1>1, <1>3, SameDocument DEF Tails
<1>6. ReadingInv'
    BY <1>1, <1>2, <1>3, <1>4, <1>5, StepReads
<1> QED BY <1>1, <1>6

\* A step that ends the invocation and does not write a state.
LEMMA LeaveReads ==
    ASSUME ReadingInv, at # "down", Leave, subject' = subject, cuts' = cuts,
           file' = file \/ file' = Torn,
           report' \in {Nothing, Torn} \cup [status : Statuses, next : 0 .. Size]
    PROVE  ReadingInv'
<1>1. file \notin {NoState, Torn} /\ RightlyRead(file) /\ cuts \subseteq 1 .. file.next
    BY FileRead
<1>2. done' \in Nat /\ stopped' \in Reasons /\ Tails'
      /\ at' = "down" /\ args' = Nothing /\ state' = Nothing
    BY LeaveRight
<1>3. cuts \subseteq 1 .. Size /\ NoState # Torn
    BY StateAssumption DEF ReadingInv
<1> QED BY <1>1, <1>2, <1>3, StepReads

LEMMA ReportReads ==
    ASSUME ReadingInv, WriteReport
    PROVE  ReadingInv' /\ file' = file
<1>1. at = "report" /\ subject' = subject /\ cuts' = cuts /\ file' = file /\ Leave
      /\ report' = [status |-> state.status, next |-> state.next]
    BY DEF WriteReport
<1>2. state.status \in Statuses /\ state.next \in 0 .. Size
    BY <1>1, FileRead DEF StreamingState
<1>3. report' \in [status : Statuses, next : 0 .. Size]
    BY <1>1, <1>2
<1>4. ReadingInv'
    BY <1>1, <1>3, LeaveReads
<1> QED BY <1>1, <1>4

LEMMA CrashReads ==
    ASSUME ReadingInv, Crash \/ CrashInWrite
    PROVE  ReadingInv' /\ (file' = file \/ file' = Torn) /\ at' = "down"
<1>1. at # "down" /\ subject' = subject /\ cuts' = cuts /\ Leave
      /\ (file' = file \/ file' = Torn)
      /\ (report' = report \/ report' = Torn)
    BY DEF Crash, CrashInWrite
<1>2. report \in {Nothing, Torn} \cup [status : Statuses, next : 0 .. Size]
    BY DEF ReadingInv
<1>3. ReadingInv'
    BY <1>1, <1>2, LeaveReads
<1>4. at' = "down"
    BY <1>1 DEF Leave
<1> QED BY <1>1, <1>3, <1>4

LEMMA StutterReads ==
    ASSUME ReadingInv, UNCHANGED vars
    PROVE  ReadingInv'
<1>1. subject' = subject /\ cuts' = cuts /\ report' = report /\ args' = args
      /\ file' = file /\ state' = state /\ done' = done /\ at' = at
      /\ tail' = tail /\ lineTail' = lineTail /\ stopped' = stopped
    BY DEF vars, tails
<1>2. Tails'
    BY <1>1, SameDocument DEF Tails, ReadingInv
<1> QED BY <1>1, <1>2, StepReads DEF ReadingInv

LEMMA ReadingInitially ==
    ASSUME Init
    PROVE  ReadingInv
<1>1. Size \in Nat
    BY DocumentSize DEF Init
<1>2. Tails
    BY <1>1 DEF Init, Tails
<1> QED BY <1>2, StateAssumption DEF Init, ReadingInv, Reasons

LEMMA AnswerFailReads ==
    ASSUME ReadingInv, AnswerFails
    PROVE  state \in StreamingState /\ SameReading(state, state) /\ MoreToRead /\ FailChunk(state)
<1>1. MoreToRead /\ FailChunk(state) /\ at = "loop"
    BY DEF AnswerFails, MoreToRead
<1> QED BY <1>1, FileRead DEF SameReading

LEMMA ReadingStep ==
    ASSUME ReadingInv, [Next]_vars
    PROVE  ReadingInv'
<1>1. ASSUME NEW a \in Arguments, Start(a) PROVE ReadingInv'
    BY <1>1, StartReads
<1>2. ASSUME NEW a \in Arguments, Resume(a) PROVE ReadingInv'
    BY <1>2, ResumeReads
<1>3. CASE StopAtLimit \/ NothingToRead
    BY <1>3, LoopEndReads
<1>4. CASE ReviewChunk
    <2>1. MoreToRead
        BY <1>4 DEF ReviewChunk
    <2> QED BY <1>4, <2>1, ReviewAdds, FinishReads
<1>5. CASE AssistedChunk
    <2>1. MoreToRead
        BY <1>5 DEF AssistedChunk
    <2> QED BY <1>5, <2>1, AssistedAdds, FinishReads
<1>6. CASE AnswerFails
    BY <1>6, AnswerFailReads, FailReads
<1>7. CASE MergeFails
    <2>1. MoreToRead
        BY <1>7 DEF MergeFails
    <2> QED BY <1>7, <2>1, MergeFailAdds, FailReads
<1>8. CASE PauseRun
    BY <1>8, PauseReads
<1>9. CASE EndRun
    BY <1>9, EndReads
<1>10. CASE LastReductionFails
    BY <1>10, LastReductionFailAdds
<1>11. CASE WriteReport
    BY <1>11, ReportReads
<1>12. CASE Crash \/ CrashInWrite
    BY <1>12, CrashReads
<1>13. CASE UNCHANGED vars
    BY <1>13, StutterReads
<1> QED BY <1>1, <1>2, <1>3, <1>4, <1>5, <1>6, <1>7, <1>8, <1>9, <1>10, <1>11, <1>12, <1>13
        DEF Next, Step

\* The inductive invariant of the reading: the state in the file is that of a
\* reading of the document from its first byte on, and the one in memory is the
\* same.
THEOREM ReadingInvariant == Spec => []ReadingInv
<1>1. Init => ReadingInv
    BY ReadingInitially
<1>2. ReadingInv /\ [Next]_vars => ReadingInv'
    BY ReadingStep
<1> QED BY <1>1, <1>2, PTL DEF Spec

LEMMA ReadingTypes ==
    ASSUME ReadingInv
    PROVE  TypeOK
<1>1. Size \in Nat
    BY DocumentSize DEF ReadingInv
<1>2. ASSUME file \notin {NoState, Torn, Nothing}
      PROVE  file \in StreamingState /\ {file.next, file.reviewed} \subseteq 0 .. Size
    BY <1>1, <1>2 DEF ReadingInv, RightlyRead, StreamingState
<1>3. state = Nothing \/ state = file
    BY DEF ReadingInv
<1>4. \A s \in {state, file} \ {NoState, Torn, Nothing} :
          s \in StreamingState /\ {s.next, s.reviewed} \subseteq 0 .. Size
    BY <1>2, <1>3
<1> QED BY <1>4 DEF ReadingInv, TypeOK, Tails, Reasons

\* Every variable of the documenter keeps its type, the files included.
THEOREM TypeCorrect == Spec => []TypeOK
BY ReadingInvariant, ReadingTypes, PTL

-----------------------------------------------------------------------------
(***************************************************************************)
(* The state file implements the scan.                                     *)
(***************************************************************************)
CoveredOf(f) == IF f \in {NoState, Torn} THEN <<>> ELSE f.ranges
PhaseOf(f) == IF f = NoState THEN "none"
              ELSE IF f = Torn THEN "lost"
              ELSE IF f.status = "completed" THEN "complete"
              ELSE "open"

LEMMA StateScans ==
    ASSUME NEW s \in StreamingState
    PROVE  /\ CoveredOf(s) = s.ranges
           /\ s.status # "completed" => PhaseOf(s) = "open"
           /\ s.status = "completed" => PhaseOf(s) = "complete"
BY StateIsNoMark DEF CoveredOf, PhaseOf

\* A step that neither covers more nor changes the phase.
LEMMA SameScan ==
    ASSUME subject' = subject, CoveredOf(file') = CoveredOf(file), PhaseOf(file') = PhaseOf(file)
    PROVE  UNCHANGED Scan!vars
<1>1. Size' = Size
    BY SameDocument
<1> QED BY <1>1 DEF Scan!vars, CoveredOf, PhaseOf

\* While chunks are read, the scan is open and stands at the next byte.
LEMMA OpenScan ==
    ASSUME ReadingInv, at \in {"loop", "pause", "end"}
    PROVE  /\ file = state /\ state \in StreamingState /\ subject \in Subjects
           /\ CoveredOf(file) = state.ranges /\ PhaseOf(file) = "open"
           /\ Scan!Position = state.next
           /\ state.next \in Nat
<1>1. file = state /\ state \in StreamingState /\ RightlyRead(state) /\ subject \in Subjects
    BY FileRead
<1>2. state.status # "completed"
    BY <1>1 DEF ReadingInv
<1>3. CoveredOf(file) = state.ranges /\ PhaseOf(file) = "open"
    BY <1>1, <1>2, StateScans
<1>4. state.next = Reached(state) /\ state.next \in Nat
    BY <1>1 DEF RightlyRead, StreamingState
<1>5. Scan!Position = Reached(state)
    BY <1>3 DEF Scan!Position, Reached, CoveredOf
<1> QED BY <1>1, <1>3, <1>4, <1>5

\* A step that writes a state with the same stretches, of an open scan.
LEMMA OpenStaysOpen ==
    ASSUME ReadingInv, at \in {"loop", "pause", "end"}, subject' = subject,
           file' \in StreamingState, file'.status # "completed", file'.ranges = state.ranges
    PROVE  UNCHANGED Scan!vars
<1>1. CoveredOf(file) = state.ranges /\ PhaseOf(file) = "open"
    BY OpenScan
<1>2. CoveredOf(file') = state.ranges /\ PhaseOf(file') = "open"
    BY StateScans
<1> QED BY <1>1, <1>2, SameScan

LEMMA StartOpens ==
    ASSUME ReadingInv, NEW a \in Arguments, Start(a)
    PROVE  Scan!Open
<1>1. file' = InitialState(a) /\ file = NoState /\ subject' = subject
    BY StartReads DEF Start
<1>2. InitialState(a) \in StreamingState /\ InitialState(a).ranges = <<>>
      /\ InitialState(a).status = "running"
    BY InitialStateRight DEF InitialState
<1>3. CoveredOf(file') = <<>> /\ PhaseOf(file') = "open"
    BY <1>1, <1>2, StateScans
<1>4. CoveredOf(file) = <<>> /\ PhaseOf(file) = "none"
    BY <1>1 DEF CoveredOf, PhaseOf
<1>5. Size' = Size
    BY <1>1, SameDocument
<1> QED BY <1>3, <1>4, <1>5 DEF Scan!Open, CoveredOf, PhaseOf

LEMMA FinishAdvances ==
    ASSUME ReadingInv, MoreToRead, NEW t \in StreamingState, SameReading(state, t), FinishChunk(t)
    PROVE  Scan!Advance
<1>1. at = "loop" /\ subject' = subject
    BY DEF MoreToRead, FinishChunk
<1>2. file'.ranges = Append(state.ranges, Chunk) /\ file'.status = "running"
      /\ RightlyRead(file')
    BY FinishReads
<1>3. CoveredOf(file') = Append(state.ranges, Chunk) /\ PhaseOf(file') = "open"
    BY <1>2, StateScans DEF RightlyRead
<1>4. CoveredOf(file) = state.ranges /\ PhaseOf(file) = "open" /\ Scan!Position = state.next
    BY <1>1, OpenScan
<1>5. subject \in Subjects /\ args \in Arguments /\ state.next \in 0 .. Size
    BY <1>1, FileRead
<1>6. ChunkEnd \in state.next + 1 .. Size /\ Chunk = <<state.next, ChunkEnd>>
    <2>1. ChunkEnd \in Nat /\ state.next < ChunkEnd /\ ChunkEnd <= Size
        BY <1>5, ChunkRight
    <2>2. Size \in Nat
        BY <1>5, DocumentSize
    <2> QED BY <1>5, <2>1, <2>2 DEF Chunk
<1>7. \E behind \in Scan!Position + 1 .. Size :
          CoveredOf(file') = Append(CoveredOf(file), <<Scan!Position, behind>>)
    BY <1>3, <1>4, <1>6
<1>8. Size' = Size
    BY <1>1, SameDocument
<1>9. PhaseOf(file) = "open" /\ PhaseOf(file') = "open"
    BY <1>3, <1>4
<1> QED BY <1>7, <1>8, <1>9 DEF Scan!Advance, CoveredOf, PhaseOf

LEMMA FailStutters ==
    ASSUME ReadingInv, MoreToRead, NEW t \in StreamingState, SameReading(state, t), FailChunk(t)
    PROVE  UNCHANGED Scan!vars
<1>1. at = "loop" /\ subject' = subject
    BY DEF MoreToRead, FailChunk
<1>2. file'.ranges = state.ranges /\ file'.status = "failed" /\ RightlyRead(file')
    BY FailReads
<1> QED BY <1>1, <1>2, OpenStaysOpen DEF RightlyRead

LEMMA EndCompletes ==
    ASSUME ReadingInv, EndRun
    PROVE  Scan!Complete \/ UNCHANGED Scan!vars
<1>1. at = "end" /\ subject' = subject
    BY DEF EndRun
<1>2. file' \in StreamingState /\ file'.ranges = state.ranges
      /\ (file'.status = "completed" <=> state.next = Size)
    BY EndReads
<1>3. CASE file'.status # "completed"
    BY <1>1, <1>2, <1>3, OpenStaysOpen
<1>4. CASE file'.status = "completed"
    <2>1. CoveredOf(file') = state.ranges /\ PhaseOf(file') = "complete"
        BY <1>2, <1>4, StateScans
    <2>2. CoveredOf(file) = state.ranges /\ PhaseOf(file) = "open" /\ Scan!Position = state.next
        BY <1>1, OpenScan
    <2>3. Size' = Size
        BY <1>1, SameDocument
    <2>4. Scan!Position = Size /\ CoveredOf(file') = CoveredOf(file)
        BY <1>2, <1>4, <2>1, <2>2
    <2> QED BY <2>1, <2>2, <2>3, <2>4 DEF Scan!Complete, CoveredOf, PhaseOf
<1> QED BY <1>3, <1>4

LEMMA CrashLoses ==
    ASSUME ReadingInv, Crash \/ CrashInWrite
    PROVE  Scan!Lose \/ UNCHANGED Scan!vars
<1>1. at # "down" /\ subject' = subject
    BY DEF Crash, CrashInWrite
<1>2. file' = file \/ file' = Torn
    BY CrashReads
<1>3. CASE file' = file
    BY <1>1, <1>3, SameScan
<1>4. CASE file' = Torn
    <2>1. file \notin {NoState, Torn}
        BY <1>1, FileRead
    <2>2. PhaseOf(file) # "lost" /\ CoveredOf(file') = <<>> /\ PhaseOf(file') = "lost"
        BY <1>4, <2>1, StateAssumption DEF PhaseOf, CoveredOf
    <2>3. Size' = Size
        BY <1>1, SameDocument
    <2> QED BY <2>2, <2>3 DEF Scan!Lose, CoveredOf, PhaseOf
<1> QED BY <1>2, <1>3, <1>4

LEMMA StepScans ==
    ASSUME ReadingInv, [Next]_vars
    PROVE  [Scan!Next]_(Scan!vars)
<1>1. ASSUME NEW a \in Arguments, Start(a) PROVE [Scan!Next]_(Scan!vars)
    BY <1>1, StartOpens DEF Scan!Next
<1>2. ASSUME NEW a \in Arguments, Resume(a) PROVE [Scan!Next]_(Scan!vars)
    <2>1. file' = file /\ subject' = subject
        BY <1>2, ResumeReads DEF Resume
    <2> QED BY <2>1, SameScan
<1>3. CASE StopAtLimit \/ NothingToRead \/ WriteReport \/ UNCHANGED vars
    <2>1. file' = file /\ subject' = subject
        BY <1>3 DEF StopAtLimit, NothingToRead, WriteReport, vars
    <2> QED BY <2>1, SameScan
<1>4. CASE ReviewChunk
    <2>1. MoreToRead
        BY <1>4 DEF ReviewChunk
    <2>2. Scan!Advance
        BY <1>4, <2>1, ReviewAdds, FinishAdvances
    <2> QED BY <2>2 DEF Scan!Next
<1>5. CASE AssistedChunk
    <2>1. MoreToRead
        BY <1>5 DEF AssistedChunk
    <2>2. Scan!Advance
        BY <1>5, <2>1, AssistedAdds, FinishAdvances
    <2> QED BY <2>2 DEF Scan!Next
<1>6. CASE AnswerFails
    BY <1>6, AnswerFailReads, FailStutters
<1>7. CASE MergeFails
    <2>1. MoreToRead
        BY <1>7 DEF MergeFails
    <2> QED BY <1>7, <2>1, MergeFailAdds, FailStutters
<1>8. CASE PauseRun
    <2>1. at = "pause" /\ subject' = subject
        BY <1>8 DEF PauseRun
    <2>2. file' \in StreamingState /\ file'.status = "paused" /\ file'.ranges = state.ranges
        BY <1>8, PauseReads DEF SameProgress
    <2> QED BY <2>1, <2>2, OpenStaysOpen
<1>9. CASE EndRun
    BY <1>9, EndCompletes DEF Scan!Next
<1>10. CASE LastReductionFails
    <2>1. at = "end" /\ subject' = subject
        BY <1>10 DEF LastReductionFails
    <2>2. file' \in StreamingState /\ file'.status = "failed" /\ file'.ranges = state.ranges
        BY <1>10, LastReductionFailAdds
    <2> QED BY <2>1, <2>2, OpenStaysOpen
<1>11. CASE Crash \/ CrashInWrite
    BY <1>11, CrashLoses DEF Scan!Next
<1> QED BY <1>1, <1>2, <1>3, <1>4, <1>5, <1>6, <1>7, <1>8, <1>9, <1>10, <1>11
        DEF Next, Step

LEMMA ScanInitially ==
    ASSUME Init
    PROVE  Scan!Init
BY DEF Init, Scan!Init, Size, doc

\* The stretches in the state file follow each other without gap or overlap from
\* the first byte, what is covered stays covered, and a run is completed only at
\* the end of its document.
THEOREM Refinement == Spec => ImplementsScan
<1>1. Init => Scan!Init
    BY ScanInitially
<1>2. ReadingInv /\ [Next]_vars => [Scan!Next]_(Scan!vars)
    BY StepScans
<1> QED BY <1>1, <1>2, ReadingInvariant, PTL DEF Spec, ImplementsScan, Scan!Spec

-----------------------------------------------------------------------------
(***************************************************************************)
(* The matches of the query.                                               *)
(***************************************************************************)
\* The query stands at p, within these bytes, at or behind from.
FoundAt(behind, p, from) == from <= p /\ p + Len(query) <= behind /\ Occurs(p)

\* Where the search goes on once it is past the bytes before each offset.
Search(first, behind) ==
    LET found(p, from) == from <= p /\ p + Len(query) <= behind /\ Occurs(p)
        search[p \in first .. behind] ==
            IF p = first THEN first
            ELSE IF found(p - 1, search[p - 1]) THEN p - 1 + Len(query) ELSE search[p - 1]
    IN  search

LEMMA SearchDefined ==
    ASSUME subject \in Subjects, NEW first \in Nat, NEW behind \in Nat, first <= behind
    PROVE  /\ Search(first, behind)[first] = first
           /\ \A p \in first + 1 .. behind :
                 Search(first, behind)[p]
                     = IF FoundAt(behind, p - 1, Search(first, behind)[p - 1])
                       THEN p - 1 + Len(query) ELSE Search(first, behind)[p - 1]
           /\ \A p \in first .. behind : Search(first, behind)[p] \in Nat
<1> DEFINE w == Len(query)
           next(p, v) == IF FoundAt(behind, p - 1, v) THEN p - 1 + w ELSE v
           step == [x \in Int \X Nat |->
                       IF x[1] \in first + 1 .. behind THEN next(x[1], x[2]) ELSE x[2]]
           body(d) == [p \in first .. behind |-> IF p = first THEN first ELSE next(p, d[p - 1])]
           g == Search(first, behind)
<1>1. w \in Nat /\ first \in Int /\ behind \in Int
    BY DocumentSize
<1> HIDE DEF w
<1>2. \A p \in first + 1 .. behind : \A v \in Nat : next(p, v) \in Nat
    BY <1>1
<1> HIDE DEF next
<1>3. step \in [Int \X Nat -> Nat]
    <2>1. \A x \in Int \X Nat :
              (IF x[1] \in first + 1 .. behind THEN next(x[1], x[2]) ELSE x[2]) \in Nat
        BY <1>2
    <2> QED BY <2>1
<1>4. \A p \in first + 1 .. behind : \A v \in Nat : step[<<p, v>>] = next(p, v)
    <2>1. \A p \in Int : \A v \in Nat : <<p, v>> \in Int \X Nat /\ <<p, v>>[1] = p /\ <<p, v>>[2] = v
        OBVIOUS
    <2>2. \A p \in first + 1 .. behind : p \in Int
        BY <1>1
    <2> QED BY <2>1, <2>2
<1> HIDE DEF step
<1>5. PICK c \in [first .. behind -> Nat] :
          c = [p \in first .. behind |-> IF p = first THEN first ELSE step[<<p, c[p - 1]>>]]
    <2>1. Recurses(Nat, first, behind, first, step)
        BY <1>1, <1>3, Recursion
    <2> QED BY <2>1, Zenon DEF Recurses
<1>6. \A p \in first .. behind : p # first => p \in first + 1 .. behind /\ p - 1 \in first .. behind
    BY <1>1
<1>7. c = body(c)
    <2>1. \A p \in first .. behind : p # first => c[p - 1] \in Nat
        BY <1>5, <1>6
    <2>2. \A p \in first .. behind : (IF p = first THEN first ELSE step[<<p, c[p - 1]>>])
                                     = (IF p = first THEN first ELSE next(p, c[p - 1]))
        BY <1>4, <1>6, <2>1
    <2> QED BY <1>5, <2>2
<1>8. g = body(g)
    <2>1. \E d : d = body(d)
        BY <1>7
    <2> QED BY <2>1, Zenon DEF Search, next, FoundAt, w
<1> HIDE DEF g
<1>9. \A p \in first .. behind : g[p] = IF p = first THEN first ELSE next(p, g[p - 1])
    BY <1>8, Zenon
<1>10. first \in first .. behind /\ \A p \in first + 1 .. behind : p \in first .. behind /\ p # first
    BY <1>1
<1>11. g[first] = first /\ \A p \in first + 1 .. behind : g[p] = next(p, g[p - 1])
    BY <1>9, <1>10, Zenon
<1> DEFINE T == {p \in first .. behind : g[p] \in Nat}
<1>12. first \in T
    BY <1>10, <1>11
<1>13. ASSUME NEW p \in first + 1 .. behind, p - 1 \in T PROVE p \in T
    BY <1>2, <1>10, <1>11, <1>13
<1> HIDE DEF T
<1>14. first .. behind \subseteq T
    BY <1>1, <1>12, <1>13, Induction
<1>15. \A p \in first .. behind : g[p] \in Nat
    BY <1>14 DEF T
<1> QED BY <1>11, <1>15 DEF g, next, w

\* The search finds occurrences, and passes over none that does not overlap with
\* one that it finds.
LEMMA MatchStartsRight ==
    ASSUME subject \in Subjects, NEW first \in Nat, NEW behind \in Nat, first <= behind
    PROVE  /\ \A m \in MatchStarts(first, behind) :
                 m \in first .. behind /\ Occurs(m) /\ m + Len(query) <= behind
           /\ \A p \in first .. behind : p + Len(query) <= behind /\ Occurs(p) =>
                 \E m \in MatchStarts(first, behind) : m <= p /\ p < m + Len(query)
<1> DEFINE g == Search(first, behind)
           starts == MatchStarts(first, behind)
           w == Len(query)
           from(p) == g[p] = first \/ \E m \in starts : m < p /\ g[p] = m + w
           T == {p \in first .. behind : from(p)}
<1>1. starts = {p \in first .. behind : FoundAt(behind, p, g[p])}
    BY Zenon DEF MatchStarts, Search, FoundAt
<1>2. /\ g[first] = first
      /\ \A p \in first + 1 .. behind :
            g[p] = IF FoundAt(behind, p - 1, g[p - 1]) THEN p - 1 + w ELSE g[p - 1]
      /\ \A p \in first .. behind : g[p] \in Nat
    BY SearchDefined, Zenon
<1>3. w \in Nat /\ 0 < w /\ first \in Int /\ behind \in Int
    BY DocumentSize
<1> HIDE DEF g, starts, w
<1>4. first \in T
    BY <1>2, <1>3
<1>5. ASSUME NEW p \in first + 1 .. behind, p - 1 \in T PROVE p \in T
    <2>1. p \in first .. behind /\ p - 1 \in first .. behind /\ p - 1 < p /\ p \in Int
        BY <1>3
    <2>2. CASE FoundAt(behind, p - 1, g[p - 1])
        <3>1. p - 1 \in starts
            BY <1>1, <2>1, <2>2
        <3>2. g[p] = (p - 1) + w
            BY <1>2, <2>2
        <3> QED BY <2>1, <3>1, <3>2
    <2>3. CASE ~ FoundAt(behind, p - 1, g[p - 1])
        <3>1. g[p] = g[p - 1]
            BY <1>2, <2>3
        <3>2. CASE g[p - 1] = first
            BY <2>1, <3>1, <3>2
        <3>3. CASE \E m \in starts : m < p - 1 /\ g[p - 1] = m + w
            <4>1. PICK m \in starts : m < p - 1 /\ g[p - 1] = m + w
                BY <3>3
            <4>2. m \in Int
                BY <1>1, <1>3
            <4>3. m < p
                BY <2>1, <4>1, <4>2
            <4> QED BY <2>1, <3>1, <4>1, <4>3
        <3> QED BY <1>5, <3>2, <3>3
    <2> QED BY <2>2, <2>3
<1> HIDE DEF T
<1>6. first .. behind \subseteq T
    BY <1>3, <1>4, <1>5, Induction
<1>7. \A m \in starts : m \in first .. behind /\ Occurs(m) /\ m + w <= behind
    BY <1>1 DEF FoundAt, w
<1>8. ASSUME NEW p \in first .. behind, p + w <= behind, Occurs(p)
      PROVE  \E m \in starts : m <= p /\ p < m + w
    <2>1. p \in Int /\ g[p] \in Nat
        BY <1>2, <1>3
    <2>2. CASE g[p] <= p
        <3>1. p \in starts
            BY <1>1, <1>8, <2>2 DEF FoundAt, w
        <3>2. p <= p /\ p < p + w
            BY <1>3, <2>1
        <3> QED BY <3>1, <3>2
    <2>3. CASE ~ (g[p] <= p)
        <3>1. g[p] # first
            BY <1>3, <2>1, <2>3
        <3>2. PICK m \in starts : m < p /\ g[p] = m + w
            BY <1>6, <3>1 DEF T
        <3>3. m \in Int
            BY <1>3, <1>7
        <3>4. m <= p /\ p < m + w
            BY <1>3, <2>1, <2>3, <3>2, <3>3
        <3> QED BY <3>4
    <2> QED BY <2>2, <2>3
<1> QED BY <1>7, <1>8 DEF starts, w

\* m is an occurrence of the query, on the line it names, before behind.
RightMatch(m, behind) ==
    /\ Occurs(m.start) /\ m.end = m.start + Len(query) /\ m.end <= behind
    /\ m.line = LineOf(m.start)

MatchesRight(s) ==
    /\ Len(s.matches) <= MaxQueryMatches
    /\ \A i \in 1 .. Len(s.matches) : RightMatch(s.matches[i], s.next)
    /\ \A i, j \in 1 .. Len(s.matches) : i < j => s.matches[i].start < s.matches[j].start
    /\ s.matchesOmitted > 0 => Len(s.matches) = MaxQueryMatches
    /\ s.matchesOmitted = 0 =>
          \A p \in 0 .. s.next :
              p + Len(query) <= s.next /\ Occurs(p) =>
                  \E i \in 1 .. Len(s.matches) :
                      s.matches[i].start < p + Len(query) /\ p < s.matches[i].end

\* The tail kept for a match in progress is what precedes the next byte.
TailRight == tail.start = TailStart(state.next) /\ tail.line = LineOf(tail.start)

LEMMA SameMatchesRight ==
    ASSUME NEW s, NEW t, MatchesRight(s), SameMatches(s, t), t.next = s.next
    PROVE  MatchesRight(t)
BY DEF MatchesRight, SameMatches

\* What is found in a chunk: every occurrence that ends in it, but for those that
\* overlap with one before.
LEMMA FoundInChunk ==
    ASSUME subject \in Subjects, Tails, NEW c \in Stretch, c[1] < c[2], c[2] <= Size,
           tail.start = TailStart(c[1]), tail.line = LineOf(tail.start)
    PROVE  LET found == MatchesForChunk(c)
           IN  /\ found \in Seq(Entry)
               /\ \A i \in 1 .. Len(found) : RightMatch(found[i], c[2]) /\ c[1] < found[i].end
               /\ \A i, j \in 1 .. Len(found) : i < j => found[i].start < found[j].start
               /\ \A p \in 0 .. c[2] :
                     p + Len(query) <= c[2] /\ Occurs(p) /\ c[1] < p + Len(query) =>
                         \E i \in 1 .. Len(found) :
                             found[i].start < p + Len(query) /\ p < found[i].end
<1> DEFINE found == MatchesForChunk(c)
           starts == StartsForChunk(c)
           ordered == InOrder(starts)
           w == Len(query)
           first == tail.start
           n == c[1]
           e == c[2]
<1>1. w \in Nat /\ 0 < w /\ n \in Nat /\ e \in Nat /\ n < e /\ Size \in Nat /\ e <= Size
    BY DocumentSize DEF Stretch
<1>2. first \in Nat /\ first <= n /\ n < first + w
      /\ (first = 0 \/ first = n - (w - 1))
    <2>1. first = Most(n, w - 1) - (w - 1)
        BY DEF TailStart
    <2> HIDE DEF n, w
    <2>2. Most(n, w - 1) = n \/ (Most(n, w - 1) = w - 1 /\ n <= w - 1)
        BY <1>1 DEF Most
    <2>3. CASE Most(n, w - 1) = n
        <3>1. w - 1 <= n
            BY <1>1, <2>3 DEF Most
        <3> QED BY <1>1, <2>1, <2>3, <3>1
    <2>4. CASE Most(n, w - 1) = w - 1 /\ n <= w - 1
        BY <1>1, <2>1, <2>4
    <2> QED BY <2>2, <2>3, <2>4
<1>3. /\ found = MatchesAt(starts, first, tail.line) /\ starts \subseteq 0 .. NoLimit - 1
      /\ found \in Seq(Entry)
    BY <1>1, ForChunkRight
<1>4. tail.line \in Nat
    BY DEF Tails
<1>5. /\ Len(found) = Len(ordered)
      /\ \A i \in 1 .. Len(ordered) :
            /\ found[i].start = ordered[i] /\ found[i].end = ordered[i] + w
            /\ found[i].line = tail.line + LinesEnded(first, ordered[i])
    BY <1>2, <1>3, <1>4, MatchesAtRight
<1>6. Lists(ordered, starts, NoLimit)
    BY <1>3, InOrderLists
<1>7. /\ \A m \in MatchStarts(first, e) : m \in first .. e /\ Occurs(m) /\ m + w <= e
      /\ \A p \in first .. e : p + w <= e /\ Occurs(p) =>
            \E m \in MatchStarts(first, e) : m <= p /\ p < m + w
    <2>1. first <= e
        BY <1>1, <1>2
    <2> QED BY <1>1, <1>2, <2>1, MatchStartsRight
<1>8. starts = {p \in MatchStarts(first, e) : p + w > n}
    BY DEF StartsForChunk
<1> HIDE DEF found, starts, ordered, w, n, e
<1>9. ASSUME NEW i \in 1 .. Len(found)
      PROVE  RightMatch(found[i], e) /\ n < found[i].end
    <2>1. ordered[i] \in starts
        BY <1>5, <1>6 DEF Lists
    <2> DEFINE m == ordered[i]
    <2>2. m \in first .. e /\ Occurs(m) /\ m + w <= e /\ m + w > n
        BY <1>7, <1>8, <2>1
    <2>3. found[i].start = m /\ found[i].end = m + w
          /\ found[i].line = LineOf(first) + LinesEnded(first, m)
        BY <1>5
    <2> HIDE DEF m
    <2>4. m \in Nat /\ first <= m
        BY <1>1, <1>2, <2>2
    <2>5. LineOf(m) = LineOf(first) + LinesEnded(first, m)
        BY <1>2, <2>4, LineOfLater
    <2>6. n < m + w
        BY <1>1, <2>2, <2>4
    <2> QED BY <2>2, <2>3, <2>5, <2>6 DEF RightMatch, w
<1>10. \A i, j \in 1 .. Len(found) : i < j => found[i].start < found[j].start
    BY <1>5, <1>6 DEF Lists
<1>11. ASSUME NEW p \in 0 .. e, p + w <= e, Occurs(p), n < p + w
       PROVE  \E i \in 1 .. Len(found) : found[i].start < p + w /\ p < found[i].end
    <2>1. p \in first .. e
        BY <1>1, <1>2, <1>11
    <2>2. PICK m \in MatchStarts(first, e) : m <= p /\ p < m + w
        BY <1>7, <1>11, <2>1
    <2>3. m \in first .. e
        BY <1>7
    <2>4. m + w > n
        BY <1>1, <1>2, <2>3
    <2>5. m \in starts /\ m < NoLimit
        <3>1. m \in starts
            BY <1>8, <2>4
        <3>2. m \in 0 .. NoLimit - 1
            BY <1>3, <3>1
        <3> QED BY <3>1, <3>2, LimitTypes
    <2>6. PICK i \in 1 .. Len(ordered) : ordered[i] = m
        BY <1>6, <2>5 DEF Lists
    <2>7. found[i].start = m /\ found[i].end = m + w /\ i \in 1 .. Len(found)
        BY <1>5, <2>6
    <2>8. m < p + w
        BY <1>1, <1>2, <2>1, <2>2, <2>3
    <2> QED BY <2>2, <2>7, <2>8
<1> QED BY <1>3, <1>9, <1>10, <1>11 DEF found, w, n, e

\* What is found in a chunk continues what was found before.
LEMMA MatchesGrow ==
    ASSUME subject \in Subjects, Tails, NEW s \in StreamingState, MatchesRight(s),
           NEW c \in Stretch, c[1] = s.next, c[1] < c[2], c[2] <= Size,
           tail.start = TailStart(c[1]), tail.line = LineOf(tail.start),
           NEW u, MatchesAdded(s, u, MatchesForChunk(c)), u.next = c[2]
    PROVE  MatchesRight(u)
<1> DEFINE found == MatchesForChunk(c)
           old == s.matches
           kept == Fitting(found, Len(old), MaxQueryMatches)
           w == Len(query)
           n == s.next
           e == c[2]
           max == MaxQueryMatches
           new == u.matches
<1>1. w \in Nat /\ 0 < w /\ n \in Nat /\ e \in Nat /\ n < e /\ max \in Nat
    BY DocumentSize, LimitTypes DEF Stretch
<1>2. /\ found \in Seq(Entry)
      /\ \A i \in 1 .. Len(found) : RightMatch(found[i], e) /\ n < found[i].end
      /\ \A i, j \in 1 .. Len(found) : i < j => found[i].start < found[j].start
      /\ \A p \in 0 .. e :
            p + w <= e /\ Occurs(p) /\ n < p + w =>
                \E i \in 1 .. Len(found) : found[i].start < p + w /\ p < found[i].end
    BY FoundInChunk
<1>3. /\ old \in Seq(Entry) /\ s.matchesOmitted \in Nat /\ Len(old) \in Nat
      /\ \A i \in 1 .. Len(old) : old[i].start \in Nat /\ old[i].end \in Nat
    <2>1. old \in Seq(Entry) /\ s.matchesOmitted \in Nat
        BY DEF StreamingState
    <2> HIDE DEF old
    <2>2. \A i \in 1 .. Len(old) : old[i] \in Entry
        BY <2>1, ElementOfSeq
    <2> QED BY <2>1, <2>2, LenProperties DEF Entry
<1>4. /\ Len(old) <= max
      /\ \A i \in 1 .. Len(old) : RightMatch(old[i], n)
      /\ \A i, j \in 1 .. Len(old) : i < j => old[i].start < old[j].start
      /\ s.matchesOmitted > 0 => Len(old) = max
      /\ s.matchesOmitted = 0 =>
            \A p \in 0 .. n : p + w <= n /\ Occurs(p) =>
                \E i \in 1 .. Len(old) : old[i].start < p + w /\ p < old[i].end
    BY DEF MatchesRight
<1>5. /\ new = old \o kept
      /\ u.matchesOmitted = s.matchesOmitted + Len(found) - Len(kept)
    BY DEF MatchesAdded
<1> HIDE DEF found, old, w, n, e, max, new
<1>6. /\ kept \in Seq(Entry) /\ Len(kept) = Least(Len(found), max - Least(max, Len(old)))
      /\ Len(kept) \in 0 .. Len(found) /\ \A i \in 1 .. Len(kept) : kept[i] = found[i]
    BY <1>1, <1>2, <1>3, FittingRight DEF max
<1>7. Len(found) \in Nat /\ Len(kept) \in Nat
      /\ \A i \in 1 .. Len(found) : found[i].start \in Nat /\ found[i].end \in Nat
    <2>1. \A i \in 1 .. Len(found) : found[i] \in Entry
        BY <1>2, ElementOfSeq
    <2> QED BY <1>2, <1>6, <2>1, LenProperties DEF Entry
<1> HIDE DEF kept
<1>8. Len(new) <= max /\ (Len(kept) = Len(found) \/ Len(new) = max)
      /\ Len(new) = Len(old) + Len(kept)
    <2>1. Len(new) = Len(old) + Len(kept)
        BY <1>3, <1>5, <1>6, ConcatProperties
    <2>2. Least(max, Len(old)) = Len(old)
        BY <1>1, <1>3, <1>4 DEF Least
    <2> QED BY <1>1, <1>3, <1>4, <1>6, <1>7, <2>1, <2>2 DEF Least
<1>9. /\ \A i \in 1 .. Len(old) : new[i] = old[i]
      /\ \A i \in Len(old) + 1 .. Len(new) : new[i] = found[i - Len(old)]
                                             /\ i - Len(old) \in 1 .. Len(found)
      /\ \A i \in 1 .. Len(found) : i <= Len(kept) => new[Len(old) + i] = found[i]
    <2>1. \A i \in 1 .. Len(old) + Len(kept) :
             new[i] = IF i <= Len(old) THEN old[i] ELSE kept[i - Len(old)]
        BY <1>3, <1>5, <1>6, ConcatProperties
    <2>2. \A i \in 1 .. Len(old) : i \in 1 .. Len(old) + Len(kept) /\ i <= Len(old)
        BY <1>3, <1>7
    <2>3. \A i \in Len(old) + 1 .. Len(new) :
              /\ i \in 1 .. Len(old) + Len(kept) /\ ~ (i <= Len(old))
              /\ i - Len(old) \in 1 .. Len(kept) /\ i - Len(old) \in 1 .. Len(found)
        BY <1>3, <1>6, <1>7, <1>8
    <2>4. \A i \in 1 .. Len(found) : i <= Len(kept) =>
              /\ Len(old) + i \in 1 .. Len(old) + Len(kept) /\ ~ (Len(old) + i <= Len(old))
              /\ Len(old) + i - Len(old) = i /\ i \in 1 .. Len(kept)
        BY <1>3, <1>7
    <2>5. \A i \in 1 .. Len(kept) : kept[i] = found[i]
        BY <1>6
    <2>6. \A i \in 1 .. Len(old) : new[i] = old[i]
        BY <2>1, <2>2, Zenon
    <2>7. \A i \in Len(old) + 1 .. Len(new) :
              new[i] = found[i - Len(old)] /\ i - Len(old) \in 1 .. Len(found)
        <3> SUFFICES ASSUME NEW i \in Len(old) + 1 .. Len(new)
                     PROVE  new[i] = found[i - Len(old)] /\ i - Len(old) \in 1 .. Len(found)
            OBVIOUS
        <3>1. new[i] = kept[i - Len(old)]
            BY <2>1, <2>3, Zenon
        <3> QED BY <2>3, <2>5, <3>1, Zenon
    <2>8. \A i \in 1 .. Len(found) : i <= Len(kept) => new[Len(old) + i] = found[i]
        <3> SUFFICES ASSUME NEW i \in 1 .. Len(found), i <= Len(kept)
                     PROVE  new[Len(old) + i] = found[i]
            OBVIOUS
        <3> DEFINE j == Len(old) + i
        <3>1. /\ j \in 1 .. Len(old) + Len(kept) /\ ~ (j <= Len(old))
              /\ j - Len(old) = i /\ i \in 1 .. Len(kept)
            BY <2>4
        <3> HIDE DEF j
        <3>2. new[j] = kept[j - Len(old)]
            BY <2>1, <3>1, Zenon
        <3>3. new[j] = found[i]
            BY <2>5, <3>1, <3>2, Zenon
        <3> QED BY <3>3, Zenon DEF j
    <2> QED BY <2>6, <2>7, <2>8, Zenon
<1>10. \A m : RightMatch(m, n) /\ m.start \in Nat => RightMatch(m, e)
    BY <1>1 DEF RightMatch, w
<1>11. ASSUME NEW i \in 1 .. Len(new) PROVE RightMatch(new[i], e)
    <2>1. CASE i \in 1 .. Len(old)
        BY <1>3, <1>4, <1>9, <1>10, <2>1
    <2>2. CASE i \in Len(old) + 1 .. Len(new)
        BY <1>2, <1>9, <2>2
    <2> QED BY <1>3, <1>7, <1>8, <2>1, <2>2
<1>12. ASSUME NEW i \in 1 .. Len(new), NEW j \in 1 .. Len(new), i < j
       PROVE  new[i].start < new[j].start
    <2>1. CASE j \in 1 .. Len(old)
        <3>1. i \in 1 .. Len(old)
            BY <1>12, <2>1
        <3> QED BY <1>4, <1>9, <1>12, <2>1, <3>1
    <2>2. CASE i \in 1 .. Len(old) /\ j \in Len(old) + 1 .. Len(new)
        <3>1. new[i] = old[i] /\ new[j] = found[j - Len(old)] /\ j - Len(old) \in 1 .. Len(found)
            BY <1>9, <2>2
        <3>2. RightMatch(new[i], n) /\ RightMatch(new[j], e) /\ n < new[j].end
            BY <1>2, <1>4, <2>2, <3>1
        <3>3. new[i].start \in Nat /\ new[j].start \in Nat
            BY <1>3, <1>7, <2>2, <3>1
        <3>4. new[i].start + w <= n /\ n < new[j].start + w
            BY <3>2 DEF RightMatch, w
        <3> QED BY <1>1, <3>3, <3>4
    <2>3. CASE i \in Len(old) + 1 .. Len(new) /\ j \in Len(old) + 1 .. Len(new)
        <3>1. i - Len(old) < j - Len(old)
            BY <1>3, <1>12
        <3> QED BY <1>2, <1>9, <2>3, <3>1
    <2> QED BY <1>3, <1>7, <1>8, <1>12, <2>1, <2>2, <2>3
<1>13. u.matchesOmitted > 0 => Len(new) = max
    <2>1. CASE Len(kept) = Len(found)
        <3>1. u.matchesOmitted = s.matchesOmitted
            BY <1>3, <1>5, <1>7, <2>1
        <3>2. s.matchesOmitted > 0 => Len(old) = max
            BY <1>4
        <3> QED BY <1>1, <1>3, <1>7, <1>8, <3>1, <3>2
    <2> QED BY <1>8, <2>1
<1>14. ASSUME u.matchesOmitted = 0, NEW p \in 0 .. e, p + w <= e, Occurs(p)
       PROVE  \E i \in 1 .. Len(new) : new[i].start < p + w /\ p < new[i].end
    <2>1. s.matchesOmitted = 0 /\ Len(kept) = Len(found)
        BY <1>3, <1>5, <1>6, <1>7, <1>14
    <2>2. CASE p + w <= n
        <3>1. p \in 0 .. n
            BY <1>1, <2>2
        <3>2. PICK i \in 1 .. Len(old) : old[i].start < p + w /\ p < old[i].end
            BY <1>4, <1>14, <2>1, <2>2, <3>1
        <3>3. i \in 1 .. Len(new)
            BY <1>3, <1>7, <1>8
        <3>4. new[i] = old[i]
            BY <1>9, Zenon
        <3> QED BY <3>2, <3>3, <3>4, Zenon
    <2>3. CASE ~ (p + w <= n)
        <3>1. n < p + w
            BY <1>1, <2>3
        <3>2. PICK i \in 1 .. Len(found) : found[i].start < p + w /\ p < found[i].end
            BY <1>2, <1>14, <3>1
        <3>3. Len(old) + i \in 1 .. Len(new) /\ i <= Len(kept)
            BY <1>3, <1>7, <1>8, <2>1
        <3>4. new[Len(old) + i] = found[i]
            BY <1>9, <3>3, Zenon
        <3> QED BY <3>2, <3>3, <3>4, Zenon
    <2> QED BY <2>2, <2>3
<1>15. u.next = e
    BY DEF e
<1> QED BY <1>8, <1>11, <1>12, <1>13, <1>14, <1>15 DEF MatchesRight, new, w, max

MatchModes == {"context_presence", "token_count"}

\* The invariant of the matches: what is in the state file is right, and so is the
\* tail that the loop keeps for a match that begins before the next chunk.
MatchInv ==
    /\ at = "loop" => TailRight
    /\ mode \in MatchModes /\ file \notin {NoState, Torn} => MatchesRight(file)

LEMMA TailLine ==
    ASSUME NEW n \in Nat, NEW start \in Nat, start <= n
    PROVE  Most(1, LineOf(n) - LinesEnded(start, n)) = LineOf(start)
<1>1. LineOf(n) = LineOf(start) + LinesEnded(start, n)
    BY LineOfLater
<1>2. LinesEnded(start, n) \in Nat
    BY LinesEndedType
<1>3. LineOf(start) \in Nat \ {0}
    BY LineOfType
<1> QED BY <1>1, <1>2, <1>3 DEF Most

LEMMA TailStartLater ==
    ASSUME subject \in Subjects, NEW n \in Nat, NEW m \in Nat, n <= m
    PROVE  Most(TailStart(n), TailStart(m)) = TailStart(m)
BY DocumentSize DEF TailStart, Most

\* What is right about the matches of a state stays so while the document does.
LEMMA SameMatching ==
    ASSUME subject' = subject
    PROVE  /\ \A n : TailStart(n)' = TailStart(n)
           /\ \A s : MatchesRight(s)' = MatchesRight(s)
<1>1. query' = query /\ doc' = doc /\ \A p : LineOf(p)' = LineOf(p)
    BY SameDocument
<1>2. \A n : TailStart(n)' = TailStart(n)
    BY <1>1, Zenon DEF TailStart
<1>3. \A p : Occurs(p)' = Occurs(p)
    BY <1>1, Zenon DEF Occurs
<1>4. \A m, behind : RightMatch(m, behind)' = RightMatch(m, behind)
    BY <1>1, <1>3, Zenon DEF RightMatch
<1>5. \A s : MatchesRight(s)' = MatchesRight(s)
    BY <1>1, <1>3, <1>4, Zenon DEF MatchesRight
<1> QED BY <1>2, <1>5

LEMMA StepMatches ==
    ASSUME subject' = subject,
           at' = "loop" => /\ tail'.start = TailStart(state'.next)
                           /\ tail'.line = LineOf(tail'.start),
           mode \in MatchModes /\ file' \notin {NoState, Torn} => MatchesRight(file')
    PROVE  MatchInv'
<1>1. mode' = mode /\ \A p : LineOf(p)' = LineOf(p)
    BY SameDocument
<1>2. (\A n : TailStart(n)' = TailStart(n)) /\ (\A s : MatchesRight(s)' = MatchesRight(s))
    BY SameMatching
<1> QED BY <1>1, <1>2, Zenon DEF MatchInv, TailRight, MatchModes

LEMMA BeginMatches ==
    ASSUME subject \in Subjects, subject' = subject, NEW a \in Arguments, NEW s, RightlyRead(s),
           Begin(a, s)
    PROVE  tail'.start = TailStart(state'.next) /\ tail'.line = LineOf(tail'.start)
<1>1. /\ state' = s
      /\ tail' = [start |-> TailStart(s.next),
                  line |-> Most(1, s.line - LinesEnded(TailStart(s.next), s.next))]
    BY BeginRight
<1>2. s.next \in Nat /\ s.line = LineOf(s.next)
    BY DEF RightlyRead, StreamingState
<1> DEFINE n == s.next
           f == TailStart(n)
<1>3. f \in 0 .. n /\ n \in Nat
    BY <1>2, TailStartType
<1> HIDE DEF f, n
<1>4. f \in Nat /\ f <= n
    BY <1>3
<1>5. Most(1, LineOf(n) - LinesEnded(f, n)) = LineOf(f)
    BY <1>3, <1>4, TailLine
<1>6. tail' = [start |-> f, line |-> LineOf(f)]
    BY <1>1, <1>2, <1>5 DEF f, n
<1>7. tail'.start = f /\ tail'.line = LineOf(f)
    BY <1>6
<1> QED BY <1>1, <1>7 DEF f, n

LEMMA StartMatches ==
    ASSUME ReadingInv, NEW a \in Arguments, Start(a)
    PROVE  MatchInv'
<1> DEFINE s == InitialState(a)
<1>1. Begin(a, s) /\ file' = s /\ subject' = subject /\ subject \in Subjects
    BY DEF Start, ReadingInv
<1>2. RightlyRead(s) /\ s.next = 0
    BY <1>1, InitialRead
<1>3. s.matches = <<>> /\ s.matchesOmitted = 0
    BY DEF InitialState
<1> HIDE DEF s
<1>4. MatchesRight(s)
    <2>1. Len(query) \in Nat /\ 0 < Len(query)
        BY <1>1, DocumentSize
    <2>2. MaxQueryMatches \in Nat /\ Len(<<>>) = 0
        BY LimitTypes
    <2>3. \A p \in 0 .. 0 : ~ (p + Len(query) <= 0)
        BY <2>1
    <2> QED BY <1>2, <1>3, <2>2, <2>3 DEF MatchesRight
<1> QED BY <1>1, <1>2, <1>4, BeginMatches, StepMatches

LEMMA ResumeMatches ==
    ASSUME ReadingInv, MatchInv, NEW a \in Arguments, Resume(a)
    PROVE  MatchInv'
<1>1. Begin(a, file) /\ file' = file /\ subject' = subject /\ subject \in Subjects
    BY DEF Resume, ReadingInv
<1>2. RightlyRead(file)
    BY ResumeReads
<1> QED BY <1>1, <1>2, BeginMatches, StepMatches DEF MatchInv

\* A chunk that is read on: what is kept of it for the next one.
LEMMA FinishTail ==
    ASSUME ReadingInv, MatchInv, MoreToRead, NEW t \in StreamingState, SameReading(state, t),
           FinishChunk(t)
    PROVE  /\ tail'.start = TailStart(state'.next) /\ tail'.line = LineOf(tail'.start)
<1> DEFINE u == Counted(t, Chunk)
<1>1. /\ at = "loop" /\ state' = u /\ tail' = TailAfter(Chunk, u.line)
      /\ RightlyRead(u) /\ u.next = ChunkEnd
    BY FinishReads DEF FinishChunk, Persist, MoreToRead
<1>2. /\ subject \in Subjects /\ args \in Arguments /\ state.next \in 0 .. Size
    BY <1>1, FileRead
<1>3. /\ ChunkEnd \in Nat /\ state.next < ChunkEnd /\ ChunkEnd <= Size
      /\ Chunk \in Stretch /\ Chunk[1] = state.next /\ Chunk[2] = ChunkEnd
    BY <1>2, ChunkRight
<1> HIDE DEF u
<1>4. u.line = LineOf(ChunkEnd) /\ u.line \in Nat
    BY <1>1 DEF RightlyRead, StreamingState
<1>5. tail.start = TailStart(state.next) /\ Tails
    BY <1>1 DEF MatchInv, TailRight, ReadingInv
<1>6. state.next \in Nat /\ state.next <= ChunkEnd
    BY <1>2, <1>3, DocumentSize
<1>7. Most(tail.start, TailStart(ChunkEnd)) = TailStart(ChunkEnd)
    BY <1>2, <1>3, <1>5, <1>6, TailStartLater
<1>8. /\ tail'.start = TailStart(ChunkEnd)
      /\ tail'.line = Most(1, LineOf(ChunkEnd) - LinesEnded(tail'.start, ChunkEnd))
    BY <1>1, <1>2, <1>3, <1>4, <1>5, <1>7, TailAfterRight
<1>9. tail'.start \in Nat /\ tail'.start <= ChunkEnd
    <2>1. TailStart(ChunkEnd) \in 0 .. ChunkEnd
        BY <1>2, <1>3, TailStartType
    <2> QED BY <1>3, <1>8, <2>1
<1>10. tail'.line = LineOf(tail'.start)
    <2> DEFINE f == tail'.start
    <2>1. f \in Nat /\ f <= ChunkEnd
        BY <1>9
    <2> HIDE DEF f
    <2>2. Most(1, LineOf(ChunkEnd) - LinesEnded(f, ChunkEnd)) = LineOf(f)
        BY <1>3, <2>1, TailLine
    <2> QED BY <1>8, <2>2 DEF f
<1> QED BY <1>1, <1>8, <1>10

LEMMA ReviewMatches ==
    ASSUME ReadingInv, MatchInv, ReviewChunk
    PROVE  MatchInv'
<1>1. MoreToRead /\ at = "loop"
    BY DEF ReviewChunk, MoreToRead
<1>2. PICK t \in StreamingState : /\ FoundAdded(state, t, Chunk) /\ SameReading(state, t)
                                  /\ FinishChunk(t)
    BY ReviewAdds
<1>3. file' = Counted(t, Chunk) /\ file'.next = ChunkEnd /\ subject' = subject
    BY <1>1, <1>2, FinishReads DEF FinishChunk
<1>4. tail'.start = TailStart(state'.next) /\ tail'.line = LineOf(tail'.start)
    BY <1>1, <1>2, FinishTail
<1>5. /\ subject \in Subjects /\ args \in Arguments /\ state.next \in 0 .. Size
      /\ state = file /\ file \notin {NoState, Torn} /\ state \in StreamingState
    BY <1>1, FileRead
<1>6. /\ ChunkEnd \in Nat /\ state.next < ChunkEnd /\ ChunkEnd <= Size
      /\ Chunk \in Stretch /\ Chunk[1] = state.next /\ Chunk[2] = ChunkEnd
    BY <1>1, <1>5, ChunkRight
<1>7. SameFindings(t, file')
    <2>1. Chunk[1] <= Chunk[2]
        BY <1>5, <1>6, DocumentSize
    <2> QED BY <1>2, <1>3, <1>6, <2>1, CountedRight
<1>8. ASSUME mode \in MatchModes PROVE MatchesRight(file')
    <2>1. MatchesRight(state)
        BY <1>5, <1>8 DEF MatchInv
    <2>2. MatchesAdded(state, t, MatchesForChunk(Chunk))
        BY <1>2, <1>8 DEF FoundAdded, MatchModes
    <2>3. MatchesAdded(state, file', MatchesForChunk(Chunk))
        BY <1>7, <2>2 DEF MatchesAdded, SameFindings, SameMatches
    <2>4. tail.start = TailStart(state.next) /\ tail.line = LineOf(tail.start) /\ Tails
        BY <1>1 DEF MatchInv, TailRight, ReadingInv
    <2> QED BY <1>3, <1>5, <1>6, <2>1, <2>3, <2>4, MatchesGrow
<1> QED BY <1>3, <1>4, <1>8, StepMatches

LEMMA AssistedMatches ==
    ASSUME ReadingInv, MatchInv, AssistedChunk
    PROVE  MatchInv'
<1>1. MoreToRead /\ mode \in MODEL_ASSISTED_MODES
    BY DEF AssistedChunk
<1>2. PICK u \in StreamingState : SameReading(state, u) /\ FinishChunk(u)
    BY AssistedAdds
<1>3. subject' = subject
    BY <1>2 DEF FinishChunk
<1>4. tail'.start = TailStart(state'.next) /\ tail'.line = LineOf(tail'.start)
    BY <1>1, <1>2, FinishTail
<1>5. mode \notin MatchModes
    BY <1>1 DEF MODEL_ASSISTED_MODES, MatchModes
<1> QED BY <1>3, <1>4, <1>5, StepMatches

\* The steps that end an invocation, or its loop, and find nothing.
LEMMA OtherMatches ==
    ASSUME ReadingInv, MatchInv,
           \/ StopAtLimit \/ NothingToRead \/ AnswerFails \/ MergeFails \/ PauseRun
           \/ EndRun \/ LastReductionFails \/ WriteReport \/ Crash \/ CrashInWrite
    PROVE  MatchInv'
<1>1. subject' = subject /\ at' # "loop" /\ at # "down"
    BY DEF StopAtLimit, NothingToRead, AnswerFails, MergeFails, PauseRun, EndRun,
           LastReductionFails, WriteReport, Crash, CrashInWrite, FailChunk, Leave, MoreToRead
<1>2. state = file /\ file \notin {NoState, Torn}
    BY <1>1, FileRead
<1>3. ASSUME mode \in MatchModes, file' \notin {NoState, Torn} PROVE MatchesRight(file')
    <2>1. mode # "summarize" /\ mode \notin MODEL_ASSISTED_MODES /\ MatchesRight(file)
        BY <1>2, <1>3 DEF MatchModes, MODEL_ASSISTED_MODES, MatchInv
    <2>2. ~ (AnswerFails \/ MergeFails \/ LastReductionFails)
        BY <2>1 DEF AnswerFails, MergeFails, LastReductionFails, LastReduction
    <2>3. CASE StopAtLimit \/ NothingToRead
        BY <2>1, <2>3, LoopEndReads
    <2>4. CASE WriteReport
        BY <2>1, <2>4, ReportReads
    <2>5. CASE Crash \/ CrashInWrite
        BY <1>3, <2>1, <2>5, CrashReads
    <2>6. CASE PauseRun
        <3>1. SameMatches(file, file') /\ file'.next = file.next
            BY <1>2, <2>6, PauseReads DEF SameProgress, SameFindings
        <3> QED BY <2>1, <3>1, SameMatchesRight
    <2>7. CASE EndRun
        <3>1. at = "end" /\ file' = EndedState
            BY <2>1, <2>7, EndReads DEF LastReduction, EndRun
        <3>2. SameMatches(file, file') /\ file'.next = file.next
            BY <1>2, <3>1, EndedRight DEF SameFindings
        <3> QED BY <2>1, <3>2, SameMatchesRight
    <2> QED BY <2>2, <2>3, <2>4, <2>5, <2>6, <2>7
<1> QED BY <1>1, <1>3, StepMatches

LEMMA MatchStep ==
    ASSUME ReadingInv, MatchInv, [Next]_vars
    PROVE  MatchInv'
<1>1. ASSUME NEW a \in Arguments, Start(a) PROVE MatchInv'
    BY <1>1, StartMatches
<1>2. ASSUME NEW a \in Arguments, Resume(a) PROVE MatchInv'
    BY <1>2, ResumeMatches
<1>3. CASE ReviewChunk
    BY <1>3, ReviewMatches
<1>4. CASE AssistedChunk
    BY <1>4, AssistedMatches
<1>5. CASE \/ StopAtLimit \/ NothingToRead \/ AnswerFails \/ MergeFails \/ PauseRun
           \/ EndRun \/ LastReductionFails \/ WriteReport \/ Crash \/ CrashInWrite
    BY <1>5, OtherMatches
<1>6. CASE UNCHANGED vars
    <2>1. subject' = subject /\ file' = file /\ state' = state /\ at' = at /\ tail' = tail
        BY <1>6 DEF vars, tails
    <2>2. MatchInv' <=> MatchInv
        BY <2>1, SameDocument, SameMatching, Zenon DEF MatchInv, TailRight, MatchModes
    <2> QED BY <2>2
<1> QED BY <1>1, <1>2, <1>3, <1>4, <1>5, <1>6 DEF Next, Step

LEMMA MatchesFollow ==
    ASSUME ReadingInv, MatchInv
    PROVE  MatchesFollowDocument
<1> SUFFICES ASSUME mode \in MatchModes, NEW s \in KnownStates
             PROVE  /\ \A i \in DOMAIN s.matches :
                          LET m == s.matches[i]
                          IN  /\ Occurs(m.start) /\ m.end = m.start + Len(query)
                              /\ m.end <= s.next /\ m.line = LineOf(m.start)
                              /\ i > 1 => s.matches[i - 1].start < m.start
                    /\ s.matchesOmitted > 0 => Len(s.matches) = MaxQueryMatches
                    /\ s.matchesOmitted = 0 =>
                          \A p \in 0 .. s.next :
                              p + Len(query) <= s.next /\ Occurs(p) =>
                                  \E m \in Range(s.matches) :
                                      m.start < p + Len(query) /\ p < m.end
    BY Zenon DEF MatchesFollowDocument, MatchModes
<1>1. s = file /\ file \notin {NoState, Torn}
    BY DEF KnownStates, ReadingInv
<1>2. MatchesRight(s) /\ s \in StreamingState
    BY <1>1 DEF MatchInv, ReadingInv, RightlyRead
<1>3. s.matches \in Seq(Entry) /\ DOMAIN s.matches = 1 .. Len(s.matches) /\ Len(s.matches) \in Nat
    <2>1. s.matches \in Seq(Entry)
        BY <1>2 DEF StreamingState
    <2> QED BY <2>1, LenProperties
<1>4. ASSUME NEW i \in 1 .. Len(s.matches)
      PROVE  /\ RightMatch(s.matches[i], s.next)
             /\ i > 1 => s.matches[i - 1].start < s.matches[i].start
    <2>1. i > 1 => i - 1 \in 1 .. Len(s.matches) /\ i - 1 < i
        BY <1>3
    <2> QED BY <1>2, <2>1 DEF MatchesRight
<1>5. ASSUME s.matchesOmitted = 0, NEW p \in 0 .. s.next, p + Len(query) <= s.next, Occurs(p)
      PROVE  \E m \in Range(s.matches) : m.start < p + Len(query) /\ p < m.end
    <2>1. PICK i \in 1 .. Len(s.matches) :
              s.matches[i].start < p + Len(query) /\ p < s.matches[i].end
        BY <1>2, <1>5 DEF MatchesRight
    <2>2. s.matches[i] \in Range(s.matches)
        BY <1>3 DEF Range
    <2> QED BY <2>1, <2>2
<1>6. s.matchesOmitted > 0 => Len(s.matches) = MaxQueryMatches
    BY <1>2 DEF MatchesRight
<1> QED BY <1>3, <1>4, <1>5, <1>6 DEF RightMatch

\* However the document was cut into chunks and sessions, the matches are the
\* occurrences of the query, in order and on the lines they name, and none was
\* passed over but for those that overlap with one of them or exceed the limit.
THEOREM MatchesRightly == Spec => []MatchesFollowDocument
<1>1. Init => MatchInv
    BY DEF Init, MatchInv
<1>2. ReadingInv /\ MatchInv /\ [Next]_vars => MatchInv'
    BY MatchStep
<1>3. ReadingInv /\ MatchInv => MatchesFollowDocument
    BY MatchesFollow
<1> QED BY <1>1, <1>2, <1>3, ReadingInvariant, PTL DEF Spec

-----------------------------------------------------------------------------
(***************************************************************************)
(* What the roles answered.                                                *)
(***************************************************************************)
LEMMA RangeAppended ==
    ASSUME NEW S, NEW q \in Seq(S), NEW x \in S
    PROVE  Range(Append(q, x)) = Range(q) \cup {x}
<1>1. Len(q) \in Nat /\ DOMAIN q = 1 .. Len(q)
    BY LenProperties
<1>2. /\ DOMAIN Append(q, x) = 1 .. Len(q) + 1
      /\ \A i \in 1 .. Len(q) : Append(q, x)[i] = q[i]
      /\ Append(q, x)[Len(q) + 1] = x
    BY AppendProperties, LenProperties
<1> DEFINE all == Append(q, x)
           n == Len(q)
<1> HIDE DEF all, n
<1>3. 1 .. n + 1 = (1 .. n) \cup {n + 1}
    BY <1>1 DEF n
<1>4. {all[i] : i \in 1 .. n + 1} = {q[i] : i \in 1 .. n} \cup {x}
    BY <1>2, <1>3 DEF all, n
<1>5. Range(all) = {all[i] : i \in DOMAIN all} /\ Range(q) = {q[i] : i \in DOMAIN q}
    BY DEF Range
<1> QED BY <1>1, <1>2, <1>4, <1>5 DEF all, n

LEMMA RangeEmpty == Range(<<>>) = {}
BY DEF Range

\* Where a chunk stands in a sequence of them.
Places(c, chunks) == {i \in DOMAIN chunks : chunks[i] = c}

LEMMA OccurrencesType ==
    ASSUME NEW S, NEW q \in Seq(S), NEW c
    PROVE  Occurrences(c, q) \in Nat /\ IsFiniteSet(Places(c, q))
<1>1. DOMAIN q = 1 .. Len(q) /\ Len(q) \in Nat
    BY LenProperties
<1>2. IsFiniteSet(1 .. Len(q))
    BY <1>1, FS_Interval
<1>3. Places(c, q) \subseteq 1 .. Len(q)
    BY <1>1 DEF Places
<1>4. IsFiniteSet(Places(c, q))
    BY <1>2, <1>3, FS_Subset
<1>5. Occurrences(c, q) = Cardinality(Places(c, q))
    BY Zenon DEF Occurrences, Places
<1> QED BY <1>4, <1>5, FS_CardinalityType

LEMMA OccurrencesNone ==
    ASSUME NEW c
    PROVE  Occurrences(c, <<>>) = 0
<1>1. Places(c, <<>>) = {}
    BY DEF Places
<1>2. Occurrences(c, <<>>) = Cardinality(Places(c, <<>>))
    BY Zenon DEF Occurrences, Places
<1> QED BY <1>1, <1>2, FS_EmptySet

LEMMA OccurrencesAppended ==
    ASSUME NEW S, NEW q \in Seq(S), NEW x \in S, NEW c
    PROVE  Occurrences(c, Append(q, x)) = Occurrences(c, q) + (IF c = x THEN 1 ELSE 0)
<1> DEFINE all == Append(q, x)
           n == Len(q)
<1>1. n \in Nat /\ DOMAIN q = 1 .. n
    BY LenProperties
<1>2. DOMAIN all = 1 .. n + 1 /\ all[n + 1] = x /\ \A i \in 1 .. n : all[i] = q[i]
    BY AppendProperties, LenProperties
<1>3. Occurrences(c, q) = Cardinality(Places(c, q))
      /\ Occurrences(c, all) = Cardinality(Places(c, all))
    BY Zenon DEF Occurrences, Places
<1>4. IsFiniteSet(Places(c, q)) /\ Occurrences(c, q) \in Nat
    BY OccurrencesType
<1> HIDE DEF all, n
<1>5. CASE c = x
    <2>1. Places(c, all) = Places(c, q) \cup {n + 1}
        BY <1>1, <1>2, <1>5 DEF Places
    <2>2. n + 1 \notin Places(c, q)
        BY <1>1 DEF Places
    <2>3. Cardinality(Places(c, all)) = Cardinality(Places(c, q)) + 1
        BY <1>4, <2>1, <2>2, FS_AddElement
    <2> QED BY <1>3, <1>5, <2>3 DEF all
<1>6. CASE c # x
    <2>1. Places(c, all) = Places(c, q)
        BY <1>1, <1>2, <1>6 DEF Places
    <2> QED BY <1>3, <1>4, <1>6, <2>1 DEF all
<1> QED BY <1>5, <1>6

\* Every chunk that was reviewed has its summary, and one more at most for every
\* time that it failed; a chunk that was not reviewed has none but those.
Accounted(chunks, ranges, failed) ==
    /\ Range(chunks) \subseteq Range(ranges) \cup Range(failed)
    /\ \A i \in 1 .. Len(ranges) :
          Occurrences(ranges[i], chunks) \in 1 .. 1 + Occurrences(ranges[i], failed)
    /\ \A c : c \notin Range(ranges) => Occurrences(c, chunks) <= Occurrences(c, failed)

LEMMA AccountedNone == Accounted(<<>>, <<>>, <<>>)
<1>1. \A c : Occurrences(c, <<>>) <= Occurrences(c, <<>>)
    BY OccurrencesNone
<1> QED BY <1>1, RangeEmpty DEF Accounted

LEMMA AccountedReviewed ==
    ASSUME NEW chunks \in Seq(Stretch), NEW ranges \in Seq(Stretch), NEW failed \in Seq(Stretch),
           NEW c \in Stretch, Accounted(chunks, ranges, failed), c \notin Range(ranges)
    PROVE  Accounted(Append(chunks, c), Append(ranges, c), failed)
<1> DEFINE more == Append(chunks, c)
           read == Append(ranges, c)
           n == Len(ranges)
<1>1. /\ Range(chunks) \subseteq Range(ranges) \cup Range(failed)
      /\ \A i \in 1 .. n :
            Occurrences(ranges[i], chunks) \in 1 .. 1 + Occurrences(ranges[i], failed)
      /\ \A d : d \notin Range(ranges) => Occurrences(d, chunks) <= Occurrences(d, failed)
    BY DEF Accounted
<1>2. Range(more) = Range(chunks) \cup {c} /\ Range(read) = Range(ranges) \cup {c}
    BY RangeAppended
<1>3. \A d : Occurrences(d, more) = Occurrences(d, chunks) + (IF d = c THEN 1 ELSE 0)
    BY OccurrencesAppended
<1>4. \A d : Occurrences(d, chunks) \in Nat /\ Occurrences(d, failed) \in Nat
    BY OccurrencesType
<1>5. /\ n \in Nat /\ Len(read) = n + 1 /\ read[n + 1] = c
      /\ \A i \in 1 .. n : read[i] = ranges[i]
    BY AppendProperties, LenProperties
<1>6. \A i \in 1 .. n : ranges[i] \in Range(ranges)
    <2>1. DOMAIN ranges = 1 .. n
        BY LenProperties
    <2> QED BY <2>1 DEF Range
<1> HIDE DEF more, read, n
<1>7. Range(more) \subseteq Range(read) \cup Range(failed)
    BY <1>1, <1>2
<1>8. ASSUME NEW i \in 1 .. Len(read)
      PROVE  Occurrences(read[i], more) \in 1 .. 1 + Occurrences(read[i], failed)
    <2>1. CASE i \in 1 .. n
        <3>1. read[i] = ranges[i] /\ ranges[i] # c
            BY <1>5, <1>6, <2>1
        <3>2. Occurrences(ranges[i], chunks) \in 1 .. 1 + Occurrences(ranges[i], failed)
            BY <1>1, <2>1
        <3>3. Occurrences(ranges[i], more) = Occurrences(ranges[i], chunks)
            BY <1>3, <1>4, <3>1
        <3> QED BY <3>1, <3>2, <3>3
    <2>2. CASE i = n + 1
        <3>1. Occurrences(c, chunks) <= Occurrences(c, failed)
            BY <1>1
        <3>2. Occurrences(c, more) = Occurrences(c, chunks) + 1
            BY <1>3
        <3>3. Occurrences(c, more) \in 1 .. 1 + Occurrences(c, failed)
            BY <1>4, <3>1, <3>2
        <3> QED BY <1>5, <2>2, <3>3
    <2> QED BY <1>5, <2>1, <2>2
<1>9. ASSUME NEW d, d \notin Range(read)
      PROVE  Occurrences(d, more) <= Occurrences(d, failed)
    <2>1. d # c /\ d \notin Range(ranges)
        BY <1>2, <1>9
    <2>2. Occurrences(d, more) = Occurrences(d, chunks)
        BY <1>3, <1>4, <2>1
    <2> QED BY <1>1, <2>1, <2>2
<1> QED BY <1>7, <1>8, <1>9 DEF Accounted, more, read

LEMMA AccountedFailed ==
    ASSUME NEW chunks \in Seq(Stretch), NEW ranges \in Seq(Stretch), NEW failed \in Seq(Stretch),
           NEW c \in Stretch, Accounted(chunks, ranges, failed)
    PROVE  /\ Accounted(chunks, ranges, Append(failed, c))
           /\ c \notin Range(ranges) =>
                 Accounted(Append(chunks, c), ranges, Append(failed, c))
<1> DEFINE more == Append(chunks, c)
           lost == Append(failed, c)
           n == Len(ranges)
<1>1. /\ Range(chunks) \subseteq Range(ranges) \cup Range(failed)
      /\ \A i \in 1 .. n :
            Occurrences(ranges[i], chunks) \in 1 .. 1 + Occurrences(ranges[i], failed)
      /\ \A d : d \notin Range(ranges) => Occurrences(d, chunks) <= Occurrences(d, failed)
    BY DEF Accounted
<1>2. Range(more) = Range(chunks) \cup {c} /\ Range(lost) = Range(failed) \cup {c}
    BY RangeAppended
<1>3. /\ \A d : Occurrences(d, more) = Occurrences(d, chunks) + (IF d = c THEN 1 ELSE 0)
      /\ \A d : Occurrences(d, lost) = Occurrences(d, failed) + (IF d = c THEN 1 ELSE 0)
    BY OccurrencesAppended
<1>4. \A d : Occurrences(d, chunks) \in Nat /\ Occurrences(d, failed) \in Nat
    BY OccurrencesType
<1>5. \A i \in 1 .. n : ranges[i] \in Range(ranges)
    <2>1. DOMAIN ranges = 1 .. n
        BY LenProperties
    <2> QED BY <2>1 DEF Range
<1> HIDE DEF more, lost, n
<1>6. Accounted(chunks, ranges, lost)
    <2>1. \A d : Occurrences(d, failed) <= Occurrences(d, lost) /\ Occurrences(d, lost) \in Nat
        BY <1>3, <1>4
    <2>2. Range(chunks) \subseteq Range(ranges) \cup Range(lost)
        BY <1>1, <1>2
    <2>3. \A i \in 1 .. n :
              Occurrences(ranges[i], chunks) \in 1 .. 1 + Occurrences(ranges[i], lost)
        BY <1>1, <1>4, <2>1
    <2>4. \A d : d \notin Range(ranges) => Occurrences(d, chunks) <= Occurrences(d, lost)
        BY <1>1, <1>4, <2>1
    <2> QED BY <2>2, <2>3, <2>4 DEF Accounted, n
<1>7. ASSUME c \notin Range(ranges) PROVE Accounted(more, ranges, lost)
    <2>1. Range(more) \subseteq Range(ranges) \cup Range(lost)
        BY <1>1, <1>2
    <2>2. ASSUME NEW i \in 1 .. n
          PROVE  Occurrences(ranges[i], more) \in 1 .. 1 + Occurrences(ranges[i], lost)
        <3>1. ranges[i] # c
            BY <1>5, <1>7
        <3>2. Occurrences(ranges[i], more) = Occurrences(ranges[i], chunks)
              /\ Occurrences(ranges[i], lost) = Occurrences(ranges[i], failed)
            BY <1>3, <1>4, <3>1
        <3> QED BY <1>1, <3>2
    <2>3. ASSUME NEW d, d \notin Range(ranges)
          PROVE  Occurrences(d, more) <= Occurrences(d, lost)
        <3>1. Occurrences(d, chunks) <= Occurrences(d, failed)
            BY <1>1, <2>3
        <3> QED BY <1>3, <1>4, <3>1
    <2> QED BY <2>1, <2>2, <2>3 DEF Accounted, n
<1> QED BY <1>6, <1>7 DEF more, lost

SummariesRight(s) ==
    /\ s.depth <= MaxSummaryDepth
    /\ FlattenSeq(s.frontier) = s.chunkSummaries
    /\ Accounted(s.chunkSummaries, s.ranges, s.failed)
    /\ s.aggregate # Nothing => s.aggregate = s.chunkSummaries /\ s.status = "completed"
    /\ s.status = "completed" /\ s.aggregate = Nothing => s.depth = MaxSummaryDepth

\* The invariant of what the roles answered.
AnswerInv ==
    file \notin {NoState, Torn} =>
        ClaimsHaveSources(file) /\ (mode = "summarize" => SummariesRight(file))

\* Claims that are those of before or about the chunk, which is then accounted for.
LEMMA ClaimsStay ==
    ASSUME NEW s \in StreamingState, NEW t \in StreamingState, ClaimsHaveSources(s),
           \A k \in Range(t.claims) :
               k \in Range(s.claims)
               \/ \E c \in Range(t.ranges) \cup Range(t.failed) : Sourced(k, c),
           Range(s.ranges) \subseteq Range(t.ranges), Range(s.failed) \subseteq Range(t.failed)
    PROVE  ClaimsHaveSources(t)
<1> SUFFICES ASSUME NEW k \in Range(t.claims)
             PROVE  /\ k.chunk \in Range(t.ranges) \cup Range(t.failed)
                    /\ k.verified => /\ k.chunk[1] <= k.cites[1]
                                     /\ k.cites[1] < k.cites[2]
                                     /\ k.cites[2] <= k.chunk[2]
    BY DEF ClaimsHaveSources
<1>1. CASE k \in Range(s.claims)
    BY <1>1 DEF ClaimsHaveSources
<1>2. CASE \E c \in Range(t.ranges) \cup Range(t.failed) : Sourced(k, c)
    BY <1>2 DEF Sourced, ValidEvidence
<1> QED BY <1>1, <1>2

LEMMA SameClaimsStay ==
    ASSUME NEW s \in StreamingState, NEW t \in StreamingState, ClaimsHaveSources(s),
           t.claims = s.claims,
           Range(s.ranges) \subseteq Range(t.ranges), Range(s.failed) \subseteq Range(t.failed)
    PROVE  ClaimsHaveSources(t)
BY ClaimsStay

\* The claims of an answer that is added are those of before or about its chunk.
LEMMA AnswerClaims ==
    ASSUME NEW s \in StreamingState, NEW t \in StreamingState, NEW c, AnswerAdded(s, t, c)
    PROVE  \A k \in Range(t.claims) : k \in Range(s.claims) \/ Sourced(k, c)
<1>1. s.claims \in Seq(Claim) /\ t.claims \in Seq(Claim)
    BY DEF StreamingState
<1>2. DOMAIN s.claims = 1 .. Len(s.claims) /\ DOMAIN t.claims = 1 .. Len(t.claims)
    BY <1>1, LenProperties
<1>3. \A i \in 1 .. Len(t.claims) :
          (\E j \in 1 .. Len(s.claims) : t.claims[i] = s.claims[j]) \/ Sourced(t.claims[i], c)
    BY DEF AnswerAdded
<1> QED BY <1>2, <1>3 DEF Range

\* The summary of a chunk joins those of before, and merging keeps them.
LEMMA SummaryJoins ==
    ASSUME NEW s \in StreamingState, NEW t \in StreamingState, NEW u \in StreamingState,
           NEW c \in Stretch, mode = "summarize",
           SummariesRight(s), AnswerAdded(s, t, c), Reduces(t, u)
    PROVE  /\ u.chunkSummaries = Append(s.chunkSummaries, c)
           /\ FlattenSeq(u.frontier) = u.chunkSummaries
           /\ u.depth <= MaxSummaryDepth /\ u.aggregate = s.aggregate
<1>1. /\ t.chunkSummaries = Append(s.chunkSummaries, c)
      /\ t.frontier = Append(s.frontier, <<c>>)
      /\ t.depth = s.depth /\ t.aggregate = s.aggregate
    BY DEF AnswerAdded
<1>2. s.frontier \in Seq(Seq(Stretch)) /\ <<c>> \in Seq(Stretch)
    BY DEF StreamingState, Summary
<1>3. FlattenSeq(t.frontier) = FlattenSeq(s.frontier) \o <<c>>
    BY <1>1, <1>2, FlattenAppended
<1>4. FlattenSeq(s.frontier) = s.chunkSummaries /\ s.chunkSummaries \in Seq(Stretch)
    BY DEF SummariesRight, StreamingState
<1>5. s.chunkSummaries \o <<c>> = Append(s.chunkSummaries, c)
    BY <1>4, AppendIsConcat
<1>6. s.depth <= MaxSummaryDepth
    BY DEF SummariesRight
<1> QED BY <1>1, <1>3, <1>4, <1>5, <1>6 DEF Reduces

\* The next chunk is none of those reviewed.
LEMMA ChunkIsNew ==
    ASSUME ReadingInv, MoreToRead
    PROVE  Chunk \notin Range(state.ranges) /\ Chunk \in Stretch
<1>1. at = "loop"
    BY DEF MoreToRead
<1>2. /\ subject \in Subjects /\ args \in Arguments /\ state.next \in 0 .. Size
      /\ RightlyRead(state) /\ state \in StreamingState
    BY <1>1, FileRead
<1>3. /\ ChunkEnd \in Nat /\ state.next < ChunkEnd
      /\ Chunk \in Stretch /\ Chunk[2] = ChunkEnd
    BY <1>2, ChunkRight
<1>4. \A i \in 1 .. Len(state.ranges) : state.ranges[i][2] <= state.next
    BY <1>2 DEF RightlyRead
<1>5. \A i \in 1 .. Len(state.ranges) : state.ranges[i] # Chunk
    <2>1. state.next \in Nat /\ ~ (ChunkEnd <= state.next)
        BY <1>2, <1>3, DocumentSize
    <2> QED BY <1>3, <1>4, <2>1
<1>6. DOMAIN state.ranges = 1 .. Len(state.ranges)
    BY <1>2, LenProperties DEF StreamingState
<1> QED BY <1>3, <1>5, <1>6 DEF Range

LEMMA StepAnswers ==
    ASSUME subject' = subject,
           file' \notin {NoState, Torn} =>
               ClaimsHaveSources(file') /\ (mode = "summarize" => SummariesRight(file'))
    PROVE  AnswerInv'
<1>1. mode' = mode
    BY SameDocument
<1> QED BY <1>1 DEF AnswerInv

LEMMA StartAnswers ==
    ASSUME ReadingInv, NEW a \in Arguments, Start(a)
    PROVE  AnswerInv'
<1> DEFINE s == InitialState(a)
<1>1. file' = s /\ subject' = subject
    BY DEF Start
<1>2. /\ s.claims = <<>> /\ s.depth = 0 /\ s.frontier = <<>> /\ s.chunkSummaries = <<>>
      /\ s.ranges = <<>> /\ s.failed = <<>> /\ s.aggregate = Nothing /\ s.status = "running"
    BY DEF InitialState
<1> HIDE DEF s
<1>3. ClaimsHaveSources(s)
    BY <1>2, RangeEmpty DEF ClaimsHaveSources
<1>4. FlattenSeq(<<>>) = <<>>
    <2>1. <<>> \in Seq(Seq(Stretch))
        BY EmptySeq
    <2> QED BY <2>1, FlattenSeqJoins
<1>5. SummariesRight(s)
    <2>1. 0 <= MaxSummaryDepth
        BY LimitTypes
    <2> QED BY <1>2, <1>4, <2>1, AccountedNone DEF SummariesRight
<1> QED BY <1>1, <1>3, <1>5, StepAnswers

\* What holds of the state in memory while the invocation is in its loop or behind it.
LEMMA AnswersInMemory ==
    ASSUME ReadingInv, AnswerInv, at # "down"
    PROVE  /\ state \in StreamingState /\ state = file /\ ClaimsHaveSources(state)
           /\ mode = "summarize" => SummariesRight(state)
           /\ mode = "summarize" /\ at \in {"loop", "pause", "end"} => state.aggregate = Nothing
           /\ mode = "summarize" =>
                 /\ state.chunkSummaries \in Seq(Stretch) /\ state.ranges \in Seq(Stretch)
                 /\ state.failed \in Seq(Stretch)
<1>1. state \in StreamingState /\ state = file /\ file \notin {NoState, Torn}
    BY FileRead
<1>2. ClaimsHaveSources(state) /\ (mode = "summarize" => SummariesRight(state))
    BY <1>1 DEF AnswerInv
<1>3. at \in {"loop", "pause", "end"} => state.status # "completed"
    BY <1>1 DEF ReadingInv
<1> QED BY <1>1, <1>2, <1>3 DEF SummariesRight, StreamingState

\* A chunk that is read on is one more of the ranges.
LEMMA FinishCounts ==
    ASSUME ReadingInv, MoreToRead, NEW t \in StreamingState, SameReading(state, t), FinishChunk(t)
    PROVE  /\ file' \in StreamingState /\ SameFindings(t, file') /\ file'.failed = state.failed
           /\ file'.ranges = Append(state.ranges, Chunk) /\ file'.status = "running"
           /\ Range(file'.ranges) = Range(state.ranges) \cup {Chunk}
           /\ subject' = subject
<1>1. at = "loop"
    BY DEF MoreToRead
<1>2. /\ subject \in Subjects /\ args \in Arguments /\ state.next \in 0 .. Size
      /\ state \in StreamingState
    BY <1>1, FileRead
<1>3. /\ ChunkEnd \in Nat /\ state.next < ChunkEnd
      /\ Chunk \in Stretch /\ Chunk[1] = state.next /\ Chunk[2] = ChunkEnd
    BY <1>2, ChunkRight
<1>4. file' = Counted(t, Chunk) /\ file'.status = "running"
      /\ file'.ranges = Append(state.ranges, Chunk)
    BY FinishReads
<1>5. file' \in StreamingState /\ SameFindings(t, file') /\ file'.failed = t.failed
    <2>1. Chunk[1] <= Chunk[2]
        BY <1>2, <1>3, DocumentSize
    <2> QED BY <1>3, <1>4, <2>1, CountedRight
<1>6. t.failed = state.failed
    BY DEF SameReading
<1>7. state.ranges \in Seq(Stretch)
    BY <1>2 DEF StreamingState
<1>8. Range(Append(state.ranges, Chunk)) = Range(state.ranges) \cup {Chunk}
    BY <1>3, <1>7, RangeAppended
<1> QED BY <1>4, <1>5, <1>6, <1>8 DEF FinishChunk

LEMMA ReviewAnswers ==
    ASSUME ReadingInv, AnswerInv, ReviewChunk
    PROVE  AnswerInv'
<1>1. MoreToRead /\ at # "down" /\ mode # "summarize"
    BY DEF ReviewChunk, MoreToRead, MODEL_ASSISTED_MODES
<1>2. PICK t \in StreamingState : /\ FoundAdded(state, t, Chunk) /\ SameReading(state, t)
                                  /\ FinishChunk(t)
    BY ReviewAdds
<1>3. /\ file' \in StreamingState /\ SameFindings(t, file') /\ file'.failed = state.failed
      /\ Range(file'.ranges) = Range(state.ranges) \cup {Chunk} /\ subject' = subject
    BY <1>1, <1>2, FinishCounts
<1>4. state \in StreamingState /\ ClaimsHaveSources(state)
    BY <1>1, AnswersInMemory
<1>5. file'.claims = state.claims
    BY <1>2, <1>3 DEF FoundAdded, SameFindings, SameClaims
<1>6. ClaimsHaveSources(file')
    BY <1>3, <1>4, <1>5, SameClaimsStay
<1> QED BY <1>1, <1>3, <1>6, StepAnswers

LEMMA AssistedAnswers ==
    ASSUME ReadingInv, AnswerInv, AssistedChunk
    PROVE  AnswerInv'
<1>1. MoreToRead /\ at = "loop"
    BY DEF AssistedChunk, MoreToRead
<1>2. PICK t \in StreamingState, u \in StreamingState :
          /\ AnswerAdded(state, t, Chunk) /\ Reduces(t, u)
          /\ SameReading(state, u) /\ FinishChunk(u)
    BY AssistedAdds
<1>3. /\ file' \in StreamingState /\ SameFindings(u, file') /\ file'.failed = state.failed
      /\ file'.ranges = Append(state.ranges, Chunk) /\ file'.status = "running"
      /\ Range(file'.ranges) = Range(state.ranges) \cup {Chunk} /\ subject' = subject
    BY <1>1, <1>2, FinishCounts
<1>4. /\ state \in StreamingState /\ ClaimsHaveSources(state)
      /\ mode = "summarize" => /\ SummariesRight(state) /\ state.aggregate = Nothing
                               /\ state.chunkSummaries \in Seq(Stretch)
                               /\ state.ranges \in Seq(Stretch) /\ state.failed \in Seq(Stretch)
    BY <1>1, AnswersInMemory
<1>5. ClaimsHaveSources(file')
    <2>1. file'.claims = t.claims
        BY <1>2, <1>3 DEF Reduces, SameFindings, SameClaims
    <2>2. \A k \in Range(t.claims) : k \in Range(state.claims) \/ Sourced(k, Chunk)
        BY <1>2, <1>4, AnswerClaims
    <2> QED BY <1>3, <1>4, <2>1, <2>2, ClaimsStay
<1>6. ASSUME mode = "summarize" PROVE SummariesRight(file')
    <2>1. Chunk \notin Range(state.ranges) /\ Chunk \in Stretch
        BY <1>1, ChunkIsNew
    <2>2. /\ u.chunkSummaries = Append(state.chunkSummaries, Chunk)
          /\ FlattenSeq(u.frontier) = u.chunkSummaries
          /\ u.depth <= MaxSummaryDepth /\ u.aggregate = state.aggregate
        BY <1>2, <1>4, <1>6, <2>1, SummaryJoins
    <2>3. /\ file'.chunkSummaries = Append(state.chunkSummaries, Chunk)
          /\ FlattenSeq(file'.frontier) = file'.chunkSummaries
          /\ file'.depth <= MaxSummaryDepth /\ file'.aggregate = Nothing
        BY <1>3, <1>4, <1>6, <2>2 DEF SameFindings, SameSummaries
    <2>4. Accounted(state.chunkSummaries, state.ranges, state.failed)
        BY <1>4, <1>6 DEF SummariesRight
    <2>5. Accounted(file'.chunkSummaries, file'.ranges, file'.failed)
        BY <1>3, <1>4, <1>6, <2>1, <2>3, <2>4, AccountedReviewed
    <2> QED BY <1>3, <2>3, <2>5 DEF SummariesRight
<1> QED BY <1>3, <1>5, <1>6, StepAnswers

\* A chunk that fails is one more of those that did.
LEMMA FailCounts ==
    ASSUME ReadingInv, MoreToRead, NEW t \in StreamingState, SameReading(state, t), FailChunk(t)
    PROVE  /\ file' \in StreamingState /\ SameFindings(t, file') /\ file'.status = "failed"
           /\ file'.ranges = state.ranges /\ file'.failed = Append(state.failed, Chunk)
           /\ Range(file'.failed) = Range(state.failed) \cup {Chunk}
           /\ subject' = subject
<1>1. at = "loop"
    BY DEF MoreToRead
<1>2. Chunk \in Stretch /\ state \in StreamingState
    BY <1>1, ChunkIsNew, FileRead
<1>3. /\ file' = [t EXCEPT !.status = "failed", !.failed = Append(@, Chunk)]
      /\ subject' = subject
    BY DEF FailChunk
<1>4. /\ file' \in StreamingState /\ SameFindings(t, file') /\ file'.status = "failed"
      /\ file'.failed = Append(t.failed, Chunk) /\ SameProgress(t, file')
    BY <1>2, <1>3, FailedRight
<1>5. t.failed = state.failed /\ file'.ranges = state.ranges
    BY <1>4 DEF SameReading, SameProgress
<1>6. state.failed \in Seq(Stretch)
    BY <1>2 DEF StreamingState
<1>7. Range(Append(state.failed, Chunk)) = Range(state.failed) \cup {Chunk}
    BY <1>2, <1>6, RangeAppended
<1> QED BY <1>3, <1>4, <1>5, <1>7

LEMMA AnswerFailAnswers ==
    ASSUME ReadingInv, AnswerInv, AnswerFails
    PROVE  AnswerInv'
<1>1. MoreToRead /\ at = "loop"
    BY DEF AnswerFails, MoreToRead
<1>2. /\ state \in StreamingState /\ ClaimsHaveSources(state)
      /\ mode = "summarize" => /\ SummariesRight(state) /\ state.aggregate = Nothing
                               /\ state.chunkSummaries \in Seq(Stretch)
                               /\ state.ranges \in Seq(Stretch) /\ state.failed \in Seq(Stretch)
    BY <1>1, AnswersInMemory
<1>3. SameReading(state, state) /\ FailChunk(state)
    BY AnswerFailReads
<1>4. /\ file' \in StreamingState /\ SameFindings(state, file') /\ file'.status = "failed"
      /\ file'.ranges = state.ranges /\ file'.failed = Append(state.failed, Chunk)
      /\ Range(file'.failed) = Range(state.failed) \cup {Chunk} /\ subject' = subject
    BY <1>1, <1>2, <1>3, FailCounts
<1>5. ClaimsHaveSources(file')
    <2>1. file'.claims = state.claims
        BY <1>4 DEF SameFindings, SameClaims
    <2> QED BY <1>2, <1>4, <2>1, SameClaimsStay
<1>6. ASSUME mode = "summarize" PROVE SummariesRight(file')
    <2>1. Chunk \in Stretch
        BY <1>1, ChunkIsNew
    <2>2. Accounted(state.chunkSummaries, state.ranges, state.failed)
        BY <1>2, <1>6 DEF SummariesRight
    <2>3. Accounted(state.chunkSummaries, state.ranges, file'.failed)
        BY <1>2, <1>4, <1>6, <2>1, <2>2, AccountedFailed
    <2> QED BY <1>2, <1>4, <1>6, <2>3 DEF SummariesRight, SameFindings, SameSummaries
<1> QED BY <1>4, <1>5, <1>6, StepAnswers

LEMMA MergeFailAnswers ==
    ASSUME ReadingInv, AnswerInv, MergeFails
    PROVE  AnswerInv'
<1>1. MoreToRead /\ at = "loop"
    BY DEF MergeFails, MoreToRead
<1>2. PICK t \in StreamingState, u \in StreamingState :
          /\ AnswerAdded(state, t, Chunk) /\ Reduces(t, u) /\ mode = "summarize"
          /\ SameReading(state, u) /\ FailChunk(u)
    BY MergeFailAdds
<1>3. /\ file' \in StreamingState /\ SameFindings(u, file') /\ file'.status = "failed"
      /\ file'.ranges = state.ranges /\ file'.failed = Append(state.failed, Chunk)
      /\ Range(file'.failed) = Range(state.failed) \cup {Chunk} /\ subject' = subject
    BY <1>1, <1>2, FailCounts
<1>4. /\ state \in StreamingState /\ ClaimsHaveSources(state)
      /\ SummariesRight(state) /\ state.aggregate = Nothing
      /\ state.chunkSummaries \in Seq(Stretch) /\ state.ranges \in Seq(Stretch)
      /\ state.failed \in Seq(Stretch)
    BY <1>1, <1>2, AnswersInMemory
<1>5. ClaimsHaveSources(file')
    <2>1. file'.claims = t.claims
        BY <1>2, <1>3 DEF Reduces, SameFindings, SameClaims
    <2>2. \A k \in Range(t.claims) : k \in Range(state.claims) \/ Sourced(k, Chunk)
        BY <1>2, <1>4, AnswerClaims
    <2> QED BY <1>3, <1>4, <2>1, <2>2, ClaimsStay
<1>6. SummariesRight(file')
    <2>1. Chunk \notin Range(state.ranges) /\ Chunk \in Stretch
        BY <1>1, ChunkIsNew
    <2>2. /\ u.chunkSummaries = Append(state.chunkSummaries, Chunk)
          /\ FlattenSeq(u.frontier) = u.chunkSummaries
          /\ u.depth <= MaxSummaryDepth /\ u.aggregate = state.aggregate
        BY <1>2, <1>4, <2>1, SummaryJoins
    <2>3. /\ file'.chunkSummaries = Append(state.chunkSummaries, Chunk)
          /\ FlattenSeq(file'.frontier) = file'.chunkSummaries
          /\ file'.depth <= MaxSummaryDepth /\ file'.aggregate = Nothing
        BY <1>3, <1>4, <2>2 DEF SameFindings, SameSummaries
    <2>4. Accounted(state.chunkSummaries, state.ranges, state.failed)
        BY <1>4 DEF SummariesRight
    <2>5. Accounted(file'.chunkSummaries, file'.ranges, file'.failed)
        BY <1>3, <1>4, <2>1, <2>3, <2>4, AccountedFailed
    <2> QED BY <1>3, <2>3, <2>5 DEF SummariesRight
<1> QED BY <1>3, <1>5, <1>6, StepAnswers

LEMMA PauseAnswers ==
    ASSUME ReadingInv, AnswerInv, PauseRun
    PROVE  AnswerInv'
<1>1. at = "pause" /\ subject' = subject
    BY DEF PauseRun
<1>2. /\ state \in StreamingState /\ ClaimsHaveSources(state)
      /\ mode = "summarize" => SummariesRight(state) /\ state.aggregate = Nothing
    BY <1>1, AnswersInMemory
<1>3. /\ file' \in StreamingState /\ file'.status = "paused"
      /\ SameProgress(state, file') /\ SameFindings(state, file')
      /\ file'.failed = state.failed
    BY PauseReads
<1>4. file'.ranges = state.ranges
    BY <1>3 DEF SameProgress
<1>5. ClaimsHaveSources(file')
    BY <1>2, <1>3, <1>4, SameClaimsStay DEF SameFindings, SameClaims
<1>6. ASSUME mode = "summarize" PROVE SummariesRight(file')
    BY <1>2, <1>3, <1>4, <1>6 DEF SummariesRight, SameFindings, SameSummaries
<1> QED BY <1>1, <1>5, <1>6, StepAnswers

\* The state that ends a run, before its summaries are merged for the last time.
LEMMA EndedAnswers ==
    ASSUME ReadingInv, AnswerInv, at = "end"
    PROVE  /\ EndedState \in StreamingState /\ EndedState.status = EndStatus
           /\ ClaimsHaveSources(EndedState)
           /\ EndedState.ranges = state.ranges /\ EndedState.failed = state.failed
           /\ mode = "summarize" =>
                 /\ EndedState.depth <= MaxSummaryDepth
                 /\ FlattenSeq(EndedState.frontier) = EndedState.chunkSummaries
                 /\ Accounted(EndedState.chunkSummaries, EndedState.ranges, EndedState.failed)
                 /\ EndedState.aggregate = Nothing
                 /\ EndStatus = "completed" => FlattenSeq(EndedState.frontier) # <<>>
<1>1. /\ EndedState \in StreamingState /\ EndedState.status = EndStatus
      /\ SameProgress(state, EndedState) /\ SameFindings(state, EndedState)
      /\ EndedState.failed = state.failed
      /\ EndStatus = "completed" <=> state.next = Size
    BY EndedRight
<1>2. /\ state \in StreamingState /\ ClaimsHaveSources(state)
      /\ mode = "summarize" => SummariesRight(state) /\ state.aggregate = Nothing
    BY AnswersInMemory
<1>3. EndedState.ranges = state.ranges
    BY <1>1 DEF SameProgress
<1>4. ClaimsHaveSources(EndedState)
    BY <1>1, <1>2, <1>3, SameClaimsStay DEF SameFindings, SameClaims
<1>5. ASSUME mode = "summarize"
      PROVE  /\ EndedState.depth <= MaxSummaryDepth
             /\ FlattenSeq(EndedState.frontier) = EndedState.chunkSummaries
             /\ Accounted(EndedState.chunkSummaries, EndedState.ranges, EndedState.failed)
             /\ EndedState.aggregate = Nothing
    BY <1>1, <1>2, <1>3, <1>5 DEF SummariesRight, SameFindings, SameSummaries
<1>6. ASSUME mode = "summarize", EndStatus = "completed"
      PROVE  EndedState.chunkSummaries # <<>>
    <2>1. state.next = Size /\ 0 < Size /\ state.next = Reached(state)
        <3>1. RightlyRead(state) /\ subject \in Subjects
            BY FileRead
        <3> QED BY <1>1, <1>6, <3>1, DocumentSize DEF RightlyRead
    <2>2. state.ranges # <<>>
        BY <2>1 DEF Reached
    <2>3. state.ranges \in Seq(Stretch) /\ 1 \in 1 .. Len(state.ranges)
        <3>1. state.ranges \in Seq(Stretch)
            BY <1>2 DEF StreamingState
        <3> QED BY <2>2, <3>1, EmptySeq, LenProperties
    <2>4. /\ Occurrences(state.ranges[1], EndedState.chunkSummaries)
                 \in 1 .. 1 + Occurrences(state.ranges[1], state.failed)
        BY <1>1, <1>3, <1>5, <1>6, <2>3 DEF Accounted
    <2>5. Occurrences(state.ranges[1], state.failed) \in Nat
        BY <1>2, OccurrencesType DEF StreamingState
    <2>6. Occurrences(state.ranges[1], EndedState.chunkSummaries) # 0
        BY <2>4, <2>5
    <2> QED BY <2>6, OccurrencesNone
<1> QED BY <1>1, <1>3, <1>4, <1>5, <1>6

LEMMA EndAnswers ==
    ASSUME ReadingInv, AnswerInv, EndRun
    PROVE  AnswerInv'
<1>1. at = "end" /\ subject' = subject
    BY DEF EndRun
<1>2. /\ file' \in StreamingState /\ file'.ranges = state.ranges /\ file'.status = EndStatus
      /\ file' = EndedState \/ (LastReduction /\ ReducesFinally(EndedState, file'))
      /\ LastReduction => file' = FinalReduce(EndedState)
    BY EndReads DEF EndRun, Persist
<1>3. /\ EndedState \in StreamingState /\ EndedState.status = EndStatus
      /\ ClaimsHaveSources(EndedState)
      /\ EndedState.ranges = state.ranges
      /\ mode = "summarize" =>
            /\ EndedState.depth <= MaxSummaryDepth
            /\ FlattenSeq(EndedState.frontier) = EndedState.chunkSummaries
            /\ Accounted(EndedState.chunkSummaries, EndedState.ranges, EndedState.failed)
            /\ EndedState.aggregate = Nothing
            /\ EndStatus = "completed" => FlattenSeq(EndedState.frontier) # <<>>
    BY <1>1, EndedAnswers
<1>4. LastReduction => ReducesFinally(EndedState, file')
    BY <1>2, <1>3, FinalReduceRight
<1>5. file'.claims = EndedState.claims /\ file'.failed = EndedState.failed
    BY <1>2 DEF ReducesFinally, SameClaims, SameReading
<1>6. ClaimsHaveSources(file')
    BY <1>2, <1>3, <1>5, SameClaimsStay
<1>7. ASSUME mode = "summarize" PROVE SummariesRight(file')
    <2>1. CASE EndStatus = "completed"
        <3>1. ReducesFinally(EndedState, file')
            BY <1>4, <1>7, <2>1 DEF LastReduction
        <3>2. file'.chunkSummaries = EndedState.chunkSummaries
            BY <3>1 DEF ReducesFinally
        <3>3. FlattenSeq(file'.frontier) = file'.chunkSummaries /\ file'.depth <= MaxSummaryDepth
            BY <1>3, <1>7, <3>1, <3>2 DEF ReducesFinally
        <3>4. /\ file'.aggregate # Nothing => file'.aggregate = file'.chunkSummaries
              /\ file'.aggregate = Nothing => file'.depth = MaxSummaryDepth
            BY <1>3, <1>7, <2>1, <3>1, <3>2 DEF ReducesFinally
        <3>5. Accounted(file'.chunkSummaries, file'.ranges, file'.failed)
            BY <1>2, <1>3, <1>5, <1>7, <3>2
        <3> QED BY <1>2, <2>1, <3>3, <3>4, <3>5 DEF SummariesRight
    <2>2. CASE EndStatus # "completed"
        <3>1. file' = EndedState
            BY <1>2, <2>2 DEF LastReduction
        <3> QED BY <1>3, <1>7, <2>2, <3>1 DEF SummariesRight
    <2> QED BY <2>1, <2>2
<1> QED BY <1>1, <1>6, <1>7, StepAnswers

LEMMA LastReductionFailAnswers ==
    ASSUME ReadingInv, AnswerInv, LastReductionFails
    PROVE  AnswerInv'
<1>1. at = "end" /\ subject' = subject /\ mode = "summarize"
    BY DEF LastReductionFails, LastReduction
<1>2. /\ file' \in StreamingState /\ file'.status = "failed" /\ file'.ranges = state.ranges
    BY LastReductionFailAdds
<1>3. PICK s \in StreamingState : /\ Reduces(EndedState, s)
                                  /\ file'.failed = s.failed /\ SameFindings(s, file')
    BY LastReductionFailAdds
<1>4. /\ EndedState \in StreamingState /\ ClaimsHaveSources(EndedState)
      /\ EndedState.ranges = state.ranges
      /\ EndedState.depth <= MaxSummaryDepth
      /\ FlattenSeq(EndedState.frontier) = EndedState.chunkSummaries
      /\ Accounted(EndedState.chunkSummaries, EndedState.ranges, EndedState.failed)
      /\ EndedState.aggregate = Nothing
    BY <1>1, EndedAnswers
<1>5. /\ file'.claims = EndedState.claims /\ file'.failed = EndedState.failed
      /\ file'.chunkSummaries = EndedState.chunkSummaries
      /\ FlattenSeq(file'.frontier) = FlattenSeq(EndedState.frontier)
      /\ file'.depth <= MaxSummaryDepth /\ file'.aggregate = Nothing
    BY <1>3, <1>4 DEF Reduces, SameFindings, SameClaims, SameSummaries, SameReading
<1>6. ClaimsHaveSources(file')
    BY <1>2, <1>4, <1>5, SameClaimsStay
<1>7. SummariesRight(file')
    BY <1>2, <1>4, <1>5 DEF SummariesRight
<1> QED BY <1>1, <1>6, <1>7, StepAnswers

LEMMA AnswerStep ==
    ASSUME ReadingInv, AnswerInv, [Next]_vars
    PROVE  AnswerInv'
<1>1. ASSUME NEW a \in Arguments, Start(a) PROVE AnswerInv'
    BY <1>1, StartAnswers
<1>2. ASSUME file' = file \/ file' = Torn, subject' = subject PROVE AnswerInv'
    <2>1. file' \notin {NoState, Torn} => file' = file
        BY <1>2
    <2> QED BY <1>2, <2>1, StepAnswers DEF AnswerInv
<1>3. ASSUME NEW a \in Arguments, Resume(a) PROVE AnswerInv'
    BY <1>2, <1>3 DEF Resume
<1>4. CASE StopAtLimit \/ NothingToRead \/ WriteReport \/ Crash \/ CrashInWrite
    BY <1>2, <1>4 DEF StopAtLimit, NothingToRead, WriteReport, Crash, CrashInWrite
<1>5. CASE ReviewChunk
    BY <1>5, ReviewAnswers
<1>6. CASE AssistedChunk
    BY <1>6, AssistedAnswers
<1>7. CASE AnswerFails
    BY <1>7, AnswerFailAnswers
<1>8. CASE MergeFails
    BY <1>8, MergeFailAnswers
<1>9. CASE PauseRun
    BY <1>9, PauseAnswers
<1>10. CASE EndRun
    BY <1>10, EndAnswers
<1>11. CASE LastReductionFails
    BY <1>11, LastReductionFailAnswers
<1>12. CASE UNCHANGED vars
    BY <1>2, <1>12 DEF vars
<1> QED BY <1>1, <1>3, <1>4, <1>5, <1>6, <1>7, <1>8, <1>9, <1>10, <1>11, <1>12 DEF Next, Step

LEMMA AnswersFollow ==
    ASSUME ReadingInv, AnswerInv
    PROVE  AnswersFollowChunks
<1> SUFFICES ASSUME NEW s \in KnownStates
             PROVE  ClaimsHaveSources(s) /\ (mode = "summarize" => SummariesFollowChunks(s))
    BY DEF AnswersFollowChunks
<1>1. s = file /\ file \notin {NoState, Torn}
    BY DEF KnownStates, ReadingInv
<1>2. ClaimsHaveSources(s) /\ (mode = "summarize" => SummariesRight(s))
    BY <1>1 DEF AnswerInv
<1>3. DOMAIN s.ranges = 1 .. Len(s.ranges)
    <2>1. s.ranges \in Seq(Stretch)
        BY <1>1 DEF ReadingInv, RightlyRead, StreamingState
    <2> QED BY <2>1, LenProperties
<1> QED BY <1>2, <1>3 DEF SummariesRight, SummariesFollowChunks, Accounted

\* What is labeled verified cites the bytes of the chunk the role was shown; the
\* summaries of the chunks are kept in order through merges, failures and
\* resumptions, and the aggregate of a completed run stands for all of them.
THEOREM AnswersRightly == Spec => []AnswersFollowChunks
<1>1. Init => AnswerInv
    BY DEF Init, AnswerInv
<1>2. ReadingInv /\ AnswerInv /\ [Next]_vars => AnswerInv'
    BY AnswerStep
<1>3. ReadingInv /\ AnswerInv => AnswersFollowChunks
    BY AnswersFollow
<1> QED BY <1>1, <1>2, <1>3, ReadingInvariant, PTL DEF Spec

-----------------------------------------------------------------------------
(***************************************************************************)
(* The headings of the outline.                                            *)
(***************************************************************************)
HeadingModes == {"outline", "token_count"}

\* Where lines begin: at the first byte, behind the end of a line and where a
\* resumption began within one.
LineBegins(alsoAt) == {0} \cup alsoAt \cup {p \in 1 .. Size : doc[p] = "n"}

\* The line that begins at p ends at e, and is a heading.
HeadingEnds(p, e, alsoAt) ==
    /\ doc[e] = "n" \/ e = Size
    /\ \A q \in LineBegins(alsoAt) : ~ (p < q /\ q < e)
    /\ IsHeading(p, e)

HeadingsBefore(behind, alsoAt) ==
    {p \in LineBegins(alsoAt) : \E e \in p + 1 .. behind : HeadingEnds(p, e, alsoAt)}

\* The line in progress when the reading is at n begins here.
InLine(start, n, alsoAt) ==
    /\ start \in LineBegins(alsoAt) /\ start <= n
    /\ \A q \in LineBegins(alsoAt) : q <= n => q <= start

LEMMA HeadingsUpToRight ==
    ASSUME NEW behind, NEW alsoAt
    PROVE  HeadingsUpTo(behind, alsoAt) = InOrder(HeadingsBefore(behind, alsoAt))
BY Zenon DEF HeadingsUpTo, HeadingsBefore, HeadingEnds, LineBegins

LEMMA LineBeginsType ==
    ASSUME subject \in Subjects, NEW n \in Nat, NEW alsoAt, alsoAt \subseteq 1 .. n
    PROVE  /\ LineBegins(alsoAt) \subseteq Nat
           /\ \A p \in LineBegins(alsoAt) : n < p => doc[p] = "n" /\ p <= Size
<1>1. Size \in Nat
    BY DocumentSize
<1>2. \A p : p \in LineBegins(alsoAt) <=> p = 0 \/ p \in alsoAt \/ (p \in 1 .. Size /\ doc[p] = "n")
    BY Zenon DEF LineBegins
<1>3. \A p \in alsoAt : p \in Nat /\ ~ (n < p)
    OBVIOUS
<1>4. ASSUME NEW p, p \in LineBegins(alsoAt)
      PROVE  p \in Nat /\ (n < p => doc[p] = "n" /\ p <= Size)
    <2>1. CASE p = 0
        BY <2>1
    <2>2. CASE p \in alsoAt
        BY <1>3, <2>2
    <2>3. CASE p \in 1 .. Size /\ doc[p] = "n"
        BY <1>1, <2>3
    <2> QED BY <1>2, <1>4, <2>1, <2>2, <2>3, Zenon
<1> QED BY <1>4, Zenon

LEMMA HeadingsBeforeType ==
    ASSUME subject \in Subjects, NEW n \in Nat, n <= Size, NEW alsoAt, alsoAt \subseteq 1 .. Size
    PROVE  HeadingsBefore(n, alsoAt) \subseteq 0 .. n - 1
<1>1. LineBegins(alsoAt) \subseteq Nat
    BY DocumentSize, LineBeginsType
<1> SUFFICES ASSUME NEW p \in HeadingsBefore(n, alsoAt) PROVE p \in 0 .. n - 1
    OBVIOUS
<1>2. p \in LineBegins(alsoAt) /\ \E e \in p + 1 .. n : HeadingEnds(p, e, alsoAt)
    BY DEF HeadingsBefore
<1>3. p \in Nat /\ p + 1 <= n
    BY <1>1, <1>2
<1> QED BY <1>3

LEMMA OffsetsType ==
    ASSUME subject \in Subjects, NEW n \in Nat, n <= Size
    PROVE  0 .. n - 1 \subseteq 0 .. NoLimit - 1
BY DocumentSize

\* Nothing is read, nothing is listed.
LEMMA NoHeadings ==
    ASSUME subject \in Subjects
    PROVE  Len(HeadingsUpTo(0, {})) = 0
<1> DEFINE none == HeadingsBefore(0, {})
           listed == InOrder(none)
<1>1. none = {}
    <2>1. none \subseteq 0 .. 0 - 1
        BY DocumentSize, HeadingsBeforeType
    <2> QED BY <2>1
<1> HIDE DEF none
<1>2. Lists(listed, none, NoLimit)
    BY <1>1, InOrderLists
<1>3. HeadingsUpTo(0, {}) = listed
    BY HeadingsUpToRight DEF none
<1> HIDE DEF listed
<1>4. listed \in Seq(Nat) /\ \A i \in 1 .. Len(listed) : listed[i] \in {}
    BY <1>1, <1>2 DEF Lists
<1>5. Len(listed) \in Nat
    BY <1>4, LenProperties
<1>6. 1 \notin 1 .. Len(listed)
    BY <1>4
<1> QED BY <1>3, <1>5, <1>6

\* A line that begins at the next byte is not one that was read.
LEMMA CutLater ==
    ASSUME subject \in Subjects, NEW n \in Nat, n <= Size, NEW alsoAt, alsoAt \subseteq 1 .. n, 0 < n
    PROVE  HeadingsUpTo(n, alsoAt \cup {n}) = HeadingsUpTo(n, alsoAt)
<1> DEFINE more == alsoAt \cup {n}
<1>1. LineBegins(more) = LineBegins(alsoAt) \cup {n} /\ LineBegins(alsoAt) \subseteq Nat
      /\ Size \in Nat
    BY LineBeginsType, DocumentSize DEF LineBegins
<1> HIDE DEF more
<1>2. \A p \in Nat : \A e \in p + 1 .. n : ~ (p < n /\ n < e)
    OBVIOUS
<1>3. \A p \in Nat : \A e \in p + 1 .. n : HeadingEnds(p, e, more) <=> HeadingEnds(p, e, alsoAt)
    BY <1>1, <1>2 DEF HeadingEnds
<1>4. \A e \in n + 1 .. n : FALSE
    OBVIOUS
<1>5. HeadingsBefore(n, more) = HeadingsBefore(n, alsoAt)
    BY <1>1, <1>3, <1>4 DEF HeadingsBefore
<1>6. HeadingsUpTo(n, more) = HeadingsUpTo(n, alsoAt)
    BY <1>5, HeadingsUpToRight
<1> QED BY <1>6 DEF more

\* The line of a heading that ends behind n begins where the line in progress
\* at n does, or behind n.
LEMMA HeadingsInChunk ==
    ASSUME subject \in Subjects, Tails, NEW c \in Stretch, c[1] < c[2], c[2] <= Size,
           NEW alsoAt, alsoAt \subseteq 1 .. c[1], InLine(lineTail.start, c[1], alsoAt)
    PROVE  \A p : (p \in LineBegins(alsoAt)
                   /\ \E e \in c[1] + 1 .. c[2] : p < e /\ HeadingEnds(p, e, alsoAt))
                  <=> p \in HeadingStartsForChunk(c)
<1> DEFINE n == c[1]
           m == c[2]
           first == lineTail.start
           begins == LineBegins(alsoAt)
<1>1. n \in Nat /\ m \in Nat /\ n < m /\ Size \in Nat /\ m <= Size
    BY DocumentSize DEF Stretch
<1>2. begins \subseteq Nat /\ \A p \in begins : n < p => doc[p] = "n"
    BY <1>1, LineBeginsType
<1>3. first \in begins /\ first \in Nat /\ first <= n /\ \A q \in begins : q <= n => q <= first
    BY <1>2 DEF InLine
<1>4. \A q \in 1 .. Size : doc[q] = "n" => q \in begins
    BY DEF LineBegins
<1>5. \A p : p \in HeadingStartsForChunk(c) <=>
                /\ p \in first .. m - 1
                /\ p = first \/ doc[p] = "n"
                /\ IsHeading(p, LineEnd(p, m))
                /\ LineEnd(p, m) > n
                /\ LineEnd(p, m) < m \/ m >= Size \/ doc[m] = "n"
    BY DEF HeadingStartsForChunk, HeadingStarts
<1> HIDE DEF n, m, first, begins
<1>6. ASSUME NEW p \in begins, NEW e \in n + 1 .. m, p < e, HeadingEnds(p, e, alsoAt)
      PROVE  p \in HeadingStartsForChunk(c)
    <2>1. p \in Nat /\ e \in Nat /\ n < e /\ e <= m
        BY <1>1, <1>2
    <2>2. /\ doc[e] = "n" \/ e = Size
          /\ \A q \in begins : ~ (p < q /\ q < e)
          /\ IsHeading(p, e)
        BY <1>6 DEF HeadingEnds, begins
    <2>3. first <= p
        <3>1. first < e
            BY <1>1, <1>3, <2>1
        <3>2. ~ (p < first)
            BY <1>3, <2>2, <3>1
        <3> QED BY <1>3, <2>1, <3>2
    <2>4. p = first \/ doc[p] = "n"
        <3>1. CASE p <= n
            BY <1>3, <2>1, <2>3, <3>1
        <3>2. CASE n < p
            BY <1>2, <3>2
        <3> QED BY <1>1, <2>1, <3>1, <3>2
    <2>5. /\ LineEnd(p, m) \in p + 1 .. m
          /\ LineEnd(p, m) = m \/ doc[LineEnd(p, m)] = "n"
          /\ \A i \in p + 1 .. LineEnd(p, m) - 1 : doc[i] # "n"
        <3>1. p < m
            BY <1>1, <1>6, <2>1
        <3> QED BY <1>1, <2>1, <3>1, LineEndRight
    <2> DEFINE l == LineEnd(p, m)
    <2> HIDE DEF l
    <2>6. l \in p + 1 .. m /\ (l = m \/ doc[l] = "n") /\ \A i \in p + 1 .. l - 1 : doc[i] # "n"
        BY <2>5 DEF l
    <2>7. l \in Nat /\ p < l /\ l <= m
        BY <1>1, <2>1, <2>6
    <2>8. l <= e
        <3> SUFFICES ASSUME e < l PROVE FALSE
            BY <2>1, <2>7
        <3>1. e # Size
            BY <1>1, <2>1, <2>7
        <3>2. doc[e] = "n" /\ e \in p + 1 .. l - 1
            BY <1>6, <2>1, <2>2, <2>7, <3>1
        <3> QED BY <2>6, <3>2
    <2>9. l = e
        <3> SUFFICES ASSUME l < e PROVE FALSE
            BY <2>1, <2>7, <2>8
        <3>1. l # m
            BY <1>1, <2>1, <2>7
        <3>2. l \in begins
            BY <1>1, <1>4, <2>1, <2>6, <2>7, <3>1
        <3> QED BY <2>2, <2>7, <3>2
    <2>10. l < m \/ m >= Size \/ doc[m] = "n"
        BY <1>1, <2>1, <2>2, <2>9
    <2>11. p \in first .. m - 1 /\ l > n
        BY <1>1, <1>3, <1>6, <2>1, <2>3, <2>9
    <2> QED BY <1>5, <2>2, <2>4, <2>9, <2>10, <2>11 DEF l
<1>7. ASSUME NEW p, p \in HeadingStartsForChunk(c)
      PROVE  p \in begins /\ \E e \in n + 1 .. m : p < e /\ HeadingEnds(p, e, alsoAt)
    <2>1. /\ p \in first .. m - 1
          /\ p = first \/ doc[p] = "n"
          /\ IsHeading(p, LineEnd(p, m)) /\ LineEnd(p, m) > n
          /\ LineEnd(p, m) < m \/ m >= Size \/ doc[m] = "n"
        BY <1>5, <1>7
    <2>2. p \in Nat /\ first <= p /\ p < m
        BY <1>1, <1>3, <2>1
    <2>3. p \in begins
        <3>1. CASE p = first
            BY <1>3, <3>1
        <3>2. CASE p # first
            <4>1. p \in 1 .. Size /\ doc[p] = "n"
                BY <1>1, <1>3, <2>1, <2>2, <3>2
            <4> QED BY <1>4, <4>1
        <3> QED BY <3>1, <3>2
    <2>4. /\ LineEnd(p, m) \in p + 1 .. m
          /\ LineEnd(p, m) = m \/ doc[LineEnd(p, m)] = "n"
          /\ \A i \in p + 1 .. LineEnd(p, m) - 1 : doc[i] # "n"
        BY <1>1, <2>2, LineEndRight
    <2> DEFINE l == LineEnd(p, m)
    <2> HIDE DEF l
    <2>5. /\ l \in p + 1 .. m /\ (l = m \/ doc[l] = "n")
          /\ \A i \in p + 1 .. l - 1 : doc[i] # "n"
          /\ IsHeading(p, l) /\ l > n /\ (l < m \/ m >= Size \/ doc[m] = "n")
        BY <2>1, <2>4 DEF l
    <2>6. l \in Nat /\ p < l /\ l \in n + 1 .. m
        BY <1>1, <2>2, <2>5
    <2>7. doc[l] = "n" \/ l = Size
        BY <1>1, <2>5, <2>6
    <2>8. ASSUME NEW q \in begins, p < q, q < l PROVE FALSE
        <3>1. q \in Nat /\ q \in p + 1 .. l - 1
            BY <1>2, <2>2, <2>6, <2>8
        <3>2. ~ (n < q)
            BY <1>2, <2>5, <2>8, <3>1
        <3>3. q <= first
            BY <1>1, <1>3, <2>8, <3>1, <3>2
        <3> QED BY <1>3, <2>2, <2>8, <3>1, <3>3
    <2> QED BY <2>3, <2>5, <2>6, <2>7, <2>8 DEF HeadingEnds, begins
<1> QED BY <1>6, <1>7 DEF n, m, begins

LEMMA HeadingsJoined ==
    ASSUME subject \in Subjects, Tails, NEW c \in Stretch, c[1] < c[2], c[2] <= Size,
           NEW alsoAt, alsoAt \subseteq 1 .. c[1], InLine(lineTail.start, c[1], alsoAt)
    PROVE  HeadingsUpTo(c[2], alsoAt)
               = HeadingsUpTo(c[1], alsoAt) \o InOrder(HeadingStartsForChunk(c))
<1> DEFINE n == c[1]
           m == c[2]
           first == lineTail.start
           begins == LineBegins(alsoAt)
           ends(p, e) == HeadingEnds(p, e, alsoAt)
           A == HeadingsBefore(n, alsoAt)
           B == HeadingStartsForChunk(c)
           C == HeadingsBefore(m, alsoAt)
<1>1. n \in Nat /\ m \in Nat /\ n < m /\ Size \in Nat /\ m <= Size
    BY DocumentSize DEF Stretch
<1>2. begins \subseteq Nat
    BY <1>1, LineBeginsType
<1>3. first \in Nat /\ first <= n /\ \A q \in begins : q <= n => q <= first
    BY <1>2 DEF InLine
<1>4. \A p : (p \in begins /\ \E e \in n + 1 .. m : p < e /\ ends(p, e)) <=> p \in B
    BY HeadingsInChunk
<1>5. A = {p \in begins : \E e \in p + 1 .. n : ends(p, e)}
      /\ C = {p \in begins : \E e \in p + 1 .. m : ends(p, e)}
    BY DEF HeadingsBefore
<1>6. A \subseteq 0 .. NoLimit - 1 /\ B \subseteq 0 .. NoLimit - 1
    <2>1. A \subseteq 0 .. n - 1
        <3>1. n <= Size /\ alsoAt \subseteq 1 .. Size
            BY <1>1
        <3> QED BY <1>1, <3>1, HeadingsBeforeType
    <2>2. B \subseteq 0 .. m - 1
        BY <1>1, ForChunkRight
    <2> QED BY <1>1, <2>1, <2>2, OffsetsType
<1>7. B \subseteq first .. m - 1
    BY Zenon DEF HeadingStartsForChunk, HeadingStarts
<1>8. ASSUME NEW p \in begins, NEW e \in p + 1 .. n, ends(p, e) PROVE p < first
    <2>1. p \in Nat /\ e \in Nat /\ p < e /\ e <= n
        BY <1>1, <1>2
    <2>2. doc[e] = "n"
        <3>1. e # Size
            BY <1>1, <2>1
        <3> QED BY <1>8, <3>1 DEF HeadingEnds
    <2>3. e \in begins
        BY <1>1, <2>1, <2>2 DEF LineBegins
    <2> QED BY <1>3, <2>1, <2>3
<1> HIDE DEF n, m, first, begins, ends, A, B, C
<1>9. C = A \cup B
    <2>1. ASSUME NEW p \in begins
          PROVE  (\E e \in p + 1 .. m : ends(p, e))
                 <=> (\E e \in p + 1 .. n : ends(p, e)) \/ (\E e \in n + 1 .. m : p < e /\ ends(p, e))
        <3>1. p \in Nat
            BY <1>2
        <3>2. \A e : e \in p + 1 .. m <=> e \in p + 1 .. n \/ (e \in n + 1 .. m /\ p < e)
            BY <1>1, <3>1
        <3> QED BY <3>2
    <2> QED BY <1>4, <1>5, <2>1
<1>10. \A a \in A : \A b \in B : a < b
    <2> SUFFICES ASSUME NEW a \in A, NEW b \in B PROVE a < b
        OBVIOUS
    <2>1. a < first /\ a \in Nat
        BY <1>2, <1>5, <1>8
    <2>2. b \in first .. m - 1
        BY <1>7
    <2> QED BY <1>1, <1>3, <2>1, <2>2
<1>11. InOrder(A \cup B) = InOrder(A) \o InOrder(B)
    BY <1>6, <1>10, InOrderJoined
<1>12. HeadingsUpTo(m, alsoAt) = InOrder(C) /\ HeadingsUpTo(n, alsoAt) = InOrder(A)
    BY HeadingsUpToRight DEF A, C
<1> QED BY <1>9, <1>11, <1>12 DEF n, m, B

\* What HeadingsFollowDocument says of a state, with these places where a
\* resumption began within a line.
HeadingsRight(s, alsoAt) ==
    LET expected == HeadingsUpTo(s.next, alsoAt)
        listed   == Least(Len(expected), MaxOutlineEntries)
    IN  /\ Len(s.headings) = listed
        /\ \A i \in 1 .. listed : /\ s.headings[i].start = expected[i]
                                  /\ s.headings[i].line = LineOf(expected[i])
        /\ s.headingsOmitted = Len(expected) - listed

LEMMA SameHeadingsRight ==
    ASSUME NEW s, NEW t, NEW alsoAt, HeadingsRight(s, alsoAt), SameHeadings(s, t), t.next = s.next
    PROVE  HeadingsRight(t, alsoAt)
BY DEF HeadingsRight, SameHeadings

\* What is found in a chunk continues the outline.
LEMMA HeadingsGrow ==
    ASSUME subject \in Subjects, Tails, NEW s \in StreamingState,
           NEW c \in Stretch, c[1] = s.next, c[1] < c[2], c[2] <= Size,
           NEW alsoAt, alsoAt \subseteq 1 .. c[1], InLine(lineTail.start, c[1], alsoAt),
           lineTail.line = LineOf(lineTail.start), HeadingsRight(s, alsoAt),
           NEW u, HeadingsAdded(s, u, HeadingsForChunk(c)), u.next = c[2]
    PROVE  HeadingsRight(u, alsoAt)
<1> DEFINE old == HeadingsUpTo(s.next, alsoAt)
           more == InOrder(HeadingStartsForChunk(c))
           all == HeadingsUpTo(u.next, alsoAt)
           found == HeadingsForChunk(c)
           have == s.headings
           kept == Fitting(found, Len(have), MaxOutlineEntries)
           new == u.headings
           first == lineTail.start
           max == MaxOutlineEntries
<1>1. /\ c[1] \in Nat /\ c[2] \in Nat /\ Size \in Nat /\ c[1] <= Size /\ max \in Nat
      /\ first \in Nat
    BY DocumentSize, LimitTypes DEF Stretch, Tails
<1>2. all = old \o more
    BY HeadingsJoined
<1>3. old \in Seq(Nat)
    <2>1. HeadingsBefore(c[1], alsoAt) \subseteq 0 .. c[1] - 1
        <3>1. alsoAt \subseteq 1 .. Size
            BY <1>1
        <3> QED BY <1>1, <3>1, HeadingsBeforeType
    <2>2. HeadingsBefore(c[1], alsoAt) \subseteq 0 .. NoLimit - 1
        BY <1>1, <2>1, OffsetsType
    <2> QED BY <2>2, InOrderLists, HeadingsUpToRight DEF Lists
<1>4. HeadingStartsForChunk(c) \subseteq 0 .. c[2] - 1
      /\ HeadingStartsForChunk(c) \subseteq first .. c[2] - 1
      /\ found \in Seq(Entry)
      /\ found = HeadingsAt(HeadingStartsForChunk(c), c[2])
    <2>1. HeadingStartsForChunk(c) \subseteq first .. c[2] - 1
        BY Zenon DEF HeadingStartsForChunk, HeadingStarts
    <2> QED BY <1>1, <2>1, ForChunkRight
<1>5. /\ more \in Seq(Nat)
      /\ \A i \in 1 .. Len(more) : more[i] \in first .. c[2] - 1
    <2>1. HeadingStartsForChunk(c) \subseteq 0 .. NoLimit - 1
        BY <1>1, <1>4, OffsetsType
    <2> QED BY <1>4, <2>1, InOrderLists DEF Lists
<1>6. /\ Len(found) = Len(more)
      /\ \A i \in 1 .. Len(more) :
            /\ found[i].start = more[i]
            /\ found[i].line = lineTail.line + LinesEnded(first, more[i])
    <2>1. lineTail.start \in Nat /\ lineTail.line \in Nat
        BY <1>1 DEF Tails
    <2> QED BY <1>1, <1>4, <2>1, HeadingsAtRight
<1>7. /\ Len(have) = Least(Len(old), max)
      /\ \A i \in 1 .. Least(Len(old), max) : have[i].start = old[i] /\ have[i].line = LineOf(old[i])
      /\ s.headingsOmitted = Len(old) - Least(Len(old), max)
    BY DEF HeadingsRight
<1>8. new = have \o kept /\ u.headingsOmitted = s.headingsOmitted + Len(found) - Len(kept)
    BY DEF HeadingsAdded
<1>9. have \in Seq(Entry) /\ Len(have) \in Nat
    <2>1. have \in Seq(Entry)
        BY DEF StreamingState
    <2> QED BY <2>1, LenProperties
<1>10. \A i \in 1 .. Len(more) : found[i].start = more[i] /\ found[i].line = LineOf(more[i])
    <2> SUFFICES ASSUME NEW i \in 1 .. Len(more)
                 PROVE  found[i].start = more[i] /\ found[i].line = LineOf(more[i])
        OBVIOUS
    <2> DEFINE p == more[i]
    <2>1. p \in first .. c[2] - 1
        BY <1>5
    <2>2. found[i].start = p /\ found[i].line = LineOf(first) + LinesEnded(first, p)
        BY <1>6
    <2> HIDE DEF p
    <2>3. p \in Nat /\ first <= p
        BY <1>1, <2>1
    <2>4. LineOf(p) = LineOf(first) + LinesEnded(first, p)
        BY <1>1, <2>3, LineOfLater
    <2> QED BY <2>2, <2>4 DEF p
<1> HIDE DEF old, more, all, found, have, new, first, max
<1>11. /\ kept \in Seq(Entry) /\ Len(kept) = Least(Len(found), max - Least(max, Len(have)))
       /\ Len(kept) \in 0 .. Len(found) /\ \A i \in 1 .. Len(kept) : kept[i] = found[i]
    BY <1>1, <1>4, <1>9, FittingRight DEF max
<1> HIDE DEF kept
<1>12. /\ Len(old) \in Nat /\ Len(more) \in Nat /\ Len(kept) \in Nat
       /\ Len(all) = Len(old) + Len(more) /\ Len(new) = Len(have) + Len(kept)
       /\ \A i \in 1 .. Len(old) + Len(more) :
             all[i] = IF i <= Len(old) THEN old[i] ELSE more[i - Len(old)]
       /\ \A i \in 1 .. Len(have) + Len(kept) :
             new[i] = IF i <= Len(have) THEN have[i] ELSE kept[i - Len(have)]
    BY <1>2, <1>3, <1>5, <1>8, <1>9, <1>11, ConcatProperties, LenProperties
<1> DEFINE lo == Len(old)
           lm == Len(more)
           lh == Len(have)
           lk == Len(kept)
           listed == Least(lo + lm, max)
<1>13. /\ lh + lk = listed /\ lh <= lo /\ lk <= lm /\ lh \in Nat
       /\ lk > 0 => lh = lo
       /\ lo - lh + lm - lk = lo + lm - listed
    <2>1. lo \in Nat /\ lm \in Nat /\ lk \in Nat /\ lh = Least(lo, max)
          /\ lk = Least(lm, max - Least(max, lh))
        BY <1>6, <1>7, <1>11, <1>12
    <2> HIDE DEF lo, lm, lh, lk
    <2> QED BY <1>1, <2>1 DEF Least
<1>14. ASSUME NEW i \in 1 .. listed
       PROVE  new[i].start = all[i] /\ new[i].line = LineOf(all[i])
    <2>1. i \in 1 .. lh + lk /\ i \in Int
        BY <1>13
    <2>2. CASE i <= lh
        <3>1. new[i] = have[i] /\ all[i] = old[i] /\ i \in 1 .. Least(lo, max)
            <4>1. i \in 1 .. lo + lm /\ i <= lo
                BY <1>12, <1>13, <2>1, <2>2
            <4>2. i \in 1 .. lh
                BY <2>1, <2>2
            <4> QED BY <1>7, <1>12, <2>1, <2>2, <4>1, <4>2
        <3> QED BY <1>7, <3>1
    <2>3. CASE ~ (i <= lh)
        <3>1. lk > 0 /\ lh = lo /\ i - lh \in 1 .. lk /\ i - lh \in 1 .. lm
            BY <1>12, <1>13, <2>1, <2>3
        <3>2. i \in 1 .. lo + lm /\ ~ (i <= lo)
            BY <1>12, <1>13, <2>1, <2>3, <3>1
        <3>3. new[i] = kept[i - lh] /\ all[i] = more[i - lh]
            BY <1>12, <2>1, <2>3, <3>1, <3>2
        <3>4. kept[i - lh] = found[i - lh]
            BY <1>11, <3>1
        <3> QED BY <1>10, <3>1, <3>3, <3>4
    <2> QED BY <2>2, <2>3
<1>15. Len(new) = listed /\ u.headingsOmitted = Len(all) - listed
       /\ Least(Len(all), max) = listed
    BY <1>6, <1>7, <1>8, <1>12, <1>13
<1> QED BY <1>14, <1>15 DEF HeadingsRight, all, new, max

\* The invariant of the headings: the outline in the state file is right, and the
\* line in progress begins where the loop has kept it from.
HeadingInv ==
    mode \in HeadingModes =>
        /\ file \notin {NoState, Torn} => HeadingsRight(file, cuts)
        /\ at = "loop" /\ state.next < Size =>
              InLine(lineTail.start, state.next, cuts) /\ lineTail.line = LineOf(lineTail.start)

\* What is right about an outline stays so while the document does.
LEMMA SameOutline ==
    ASSUME subject' = subject
    PROVE  /\ \A start, n, a : InLine(start, n, a)' = InLine(start, n, a)
           /\ \A s, a : HeadingsRight(s, a)' = HeadingsRight(s, a)
<1>1. doc' = doc /\ Size' = Size /\ \A p : LineOf(p)' = LineOf(p)
    BY SameDocument
<1>2. \A a : LineBegins(a)' = LineBegins(a)
    BY <1>1, Zenon DEF LineBegins
<1>3. \A start, n, a : InLine(start, n, a)' = InLine(start, n, a)
    BY <1>2, Zenon DEF InLine
<1>4. \A p, e : IsHeading(p, e)' = IsHeading(p, e)
    BY <1>1 DEF IsHeading
<1>5. \A p, e, a : HeadingEnds(p, e, a)' = HeadingEnds(p, e, a)
    BY <1>1, <1>2, <1>4, Zenon DEF HeadingEnds
<1>6. \A n, a : HeadingsBefore(n, a)' = HeadingsBefore(n, a)
    BY <1>2, <1>5, Zenon DEF HeadingsBefore
<1>7. \A n, a : HeadingsUpTo(n, a) = InOrder(HeadingsBefore(n, a))
    BY HeadingsUpToRight
<1>8. \A n, a : HeadingsUpTo(n, a)' = InOrder(HeadingsBefore(n, a))'
    <2> SUFFICES ASSUME NEW n, NEW a
                 PROVE  HeadingsUpTo(n, a)' = InOrder(HeadingsBefore(n, a))'
        OBVIOUS
    <2> QED BY Zenon DEF HeadingsUpTo, HeadingsBefore, HeadingEnds, LineBegins
<1>9. \A n, a : HeadingsUpTo(n, a)' = HeadingsUpTo(n, a)
    BY <1>6, <1>7, <1>8
<1>10. \A s, a : HeadingsRight(s, a)' = HeadingsRight(s, a)
    BY <1>1, <1>9, Zenon DEF HeadingsRight
<1> QED BY <1>3, <1>10

LEMMA StepHeadings ==
    ASSUME subject' = subject,
           mode \in HeadingModes /\ file' \notin {NoState, Torn} => HeadingsRight(file', cuts'),
           mode \in HeadingModes /\ at' = "loop" /\ state'.next < Size =>
               /\ InLine(lineTail'.start, state'.next, cuts')
               /\ lineTail'.line = LineOf(lineTail'.start)
    PROVE  HeadingInv'
<1>1. mode' = mode /\ Size' = Size /\ \A p : LineOf(p)' = LineOf(p)
    BY SameDocument
<1>2. /\ \A start, n, a : InLine(start, n, a)' = InLine(start, n, a)
      /\ \A s, a : HeadingsRight(s, a)' = HeadingsRight(s, a)
    BY SameOutline
<1> QED BY <1>1, <1>2, Zenon DEF HeadingInv, HeadingModes

LEMMA StartHeadings ==
    ASSUME ReadingInv, NEW a \in Arguments, Start(a)
    PROVE  HeadingInv'
<1> DEFINE s == InitialState(a)
<1>1. Begin(a, s) /\ file' = s /\ subject' = subject /\ subject \in Subjects /\ cuts' = {}
    BY StartReads DEF Start, ReadingInv
<1>2. RightlyRead(s) /\ s.next = 0
    BY <1>1, InitialRead
<1>3. s.headings = <<>> /\ s.headingsOmitted = 0
    BY DEF InitialState
<1> HIDE DEF s
<1>4. state' = s /\ lineTail' = [start |-> s.next, line |-> s.line]
    BY <1>1, <1>2, BeginRight
<1>5. HeadingsRight(s, {})
    <2> DEFINE none == HeadingsUpTo(0, {})
    <2>1. Len(none) = 0
        BY <1>1, NoHeadings
    <2> HIDE DEF none
    <2>2. Least(Len(none), MaxOutlineEntries) = 0
        BY <2>1, LimitTypes DEF Least
    <2> QED BY <1>2, <1>3, <2>1, <2>2 DEF HeadingsRight, none
<1>6. /\ InLine(lineTail'.start, state'.next, cuts')
      /\ lineTail'.line = LineOf(lineTail'.start)
    <2>1. lineTail'.start = 0 /\ state'.next = 0 /\ lineTail'.line = LineOf(0)
        BY <1>2, <1>4 DEF RightlyRead
    <2>2. InLine(0, 0, {})
        BY DEF InLine, LineBegins
    <2> QED BY <1>1, <2>1, <2>2
<1> QED BY <1>1, <1>5, <1>6, StepHeadings

LEMMA ResumeHeadings ==
    ASSUME ReadingInv, HeadingInv, NEW a \in Arguments, Resume(a)
    PROVE  HeadingInv'
<1> DEFINE n == file.next
<1>1. /\ Begin(a, file) /\ file' = file /\ subject' = subject /\ subject \in Subjects
      /\ cuts' = IF WithinLine(file) THEN cuts \cup {n} ELSE cuts
    BY DEF Resume, ReadingInv
<1>2. RightlyRead(file) /\ cuts \subseteq 1 .. n /\ file \notin {NoState, Torn}
    BY ResumeReads
<1>3. state' = file /\ lineTail' = [start |-> n, line |-> file.line] /\ file.line = LineOf(n)
    BY <1>1, <1>2, BeginRight DEF RightlyRead
<1>4. n \in Nat /\ n <= Size /\ Size \in Nat
    BY <1>1, <1>2, DocumentSize DEF RightlyRead, StreamingState
<1>5. WithinLine(file) <=> 0 < n /\ n < Size /\ doc[n] # "n"
    BY <1>4 DEF WithinLine
<1> HIDE DEF n
<1>6. ASSUME mode \in HeadingModes PROVE HeadingsRight(file', cuts')
    <2>1. HeadingsRight(file, cuts)
        BY <1>2, <1>6 DEF HeadingInv
    <2>2. CASE WithinLine(file)
        <3>1. HeadingsUpTo(n, cuts \cup {n}) = HeadingsUpTo(n, cuts)
            BY <1>1, <1>2, <1>4, <1>5, <2>2, CutLater
        <3> QED BY <1>1, <2>1, <2>2, <3>1 DEF HeadingsRight, n
    <2>3. CASE ~ WithinLine(file)
        BY <1>1, <2>1, <2>3
    <2> QED BY <2>2, <2>3
<1>7. ASSUME n < Size
      PROVE  InLine(n, n, cuts')
    <2>1. CASE WithinLine(file)
        BY <1>1, <1>4, <2>1 DEF InLine, LineBegins
    <2>2. CASE ~ WithinLine(file)
        <3>1. n = 0 \/ (n \in 1 .. Size /\ doc[n] = "n")
            BY <1>4, <1>5, <1>7, <2>2
        <3> QED BY <1>4, <3>1 DEF InLine, LineBegins
    <2> QED BY <2>1, <2>2
<1>8. lineTail'.start = n /\ lineTail'.line = LineOf(n) /\ state'.next = n
    BY <1>3 DEF n
<1> QED BY <1>1, <1>6, <1>7, <1>8, StepHeadings

\* A chunk that is read on: the line in progress behind it.
LEMMA FinishInLine ==
    ASSUME ReadingInv, HeadingInv, MoreToRead, mode \in HeadingModes,
           NEW t \in StreamingState, SameReading(state, t), FinishChunk(t)
    PROVE  InLine(lineTail'.start, state'.next, cuts') /\ lineTail'.line = LineOf(lineTail'.start)
<1> DEFINE u == Counted(t, Chunk)
           n == state.next
           m == ChunkEnd
           first == lineTail.start
           start == lineTail'.start
           begins == LineBegins(cuts)
           ends == Ends(first, m)
<1>1. /\ at = "loop" /\ state' = u /\ lineTail' = LineTailAfter(Chunk, u.line)
      /\ RightlyRead(u) /\ u.next = m /\ cuts' = cuts
    BY FinishReads DEF FinishChunk, Persist, MoreToRead, HeadingModes
<1>2. /\ subject \in Subjects /\ args \in Arguments /\ n \in 0 .. Size
      /\ cuts \subseteq 1 .. n
    BY <1>1, FileRead
<1>3. /\ m \in Nat /\ n < m /\ m <= Size
      /\ Chunk \in Stretch /\ Chunk[1] = n /\ Chunk[2] = m
    BY <1>2, ChunkRight
<1> HIDE DEF u
<1>4. u.line = LineOf(m) /\ u.line \in Nat
    BY <1>1 DEF RightlyRead, StreamingState
<1>5. Tails
    BY DEF ReadingInv
<1>6. n \in Nat /\ Size \in Nat /\ first \in Nat
    BY <1>2, <1>5, DocumentSize DEF Tails
<1>7. InLine(first, n, cuts) /\ lineTail.line = LineOf(first)
    <2>1. n < Size
        BY <1>3, <1>6
    <2> QED BY <1>1, <2>1 DEF HeadingInv
<1>8. /\ ends = {} => start = first
      /\ ends # {} => start \in ends /\ \A q \in ends : q <= start
      /\ lineTail'.line = IF start = m THEN u.line
                          ELSE lineTail.line + LinesEnded(first, start)
    BY <1>1, <1>2, <1>3, <1>4, <1>5, LineTailAfterRight
<1>9. /\ begins \subseteq Nat /\ \A q \in begins : n < q => doc[q] = "n"
    BY <1>2, <1>6, LineBeginsType
<1>10. /\ first \in begins /\ first <= n /\ \A q \in begins : q <= n => q <= first
    BY <1>7 DEF InLine
<1>11. /\ ends = {p \in first + 1 .. m : doc[p] = "n"}
       /\ \A p \in ends : p \in begins
    BY <1>3, <1>6 DEF Ends, LineBegins
<1> HIDE DEF n, m, first, start, begins, ends
<1>12. ASSUME NEW q \in begins, q <= m, ~ (q <= first) PROVE q \in ends
    <2>1. q \in Nat /\ n < q
        BY <1>6, <1>9, <1>10, <1>12
    <2>2. q \in first + 1 .. m
        BY <1>3, <1>6, <1>12, <2>1
    <2> QED BY <1>9, <1>11, <2>1, <2>2
<1>13. start \in begins /\ start \in Nat /\ first <= start /\ start <= m
       /\ \A q \in begins : q <= m => q <= start
    <2>1. CASE ends = {}
        BY <1>3, <1>6, <1>8, <1>10, <1>12, <2>1
    <2>2. CASE ends # {}
        <3>1. start \in begins /\ start \in first + 1 .. m
            BY <1>8, <1>11, <2>2
        <3>2. start \in Nat /\ first <= start /\ start <= m
            BY <1>3, <1>6, <3>1
        <3>3. ASSUME NEW q \in begins, q <= m PROVE q <= start
            <4>1. q \in Nat
                BY <1>9
            <4>2. CASE q <= first
                BY <1>6, <3>2, <4>1, <4>2
            <4>3. CASE ~ (q <= first)
                BY <1>8, <1>12, <2>2, <3>3, <4>3
            <4> QED BY <4>2, <4>3
        <3> QED BY <3>1, <3>2, <3>3
    <2> QED BY <2>1, <2>2
<1>14. InLine(start, m, cuts)
    BY <1>13 DEF InLine, begins
<1>15. lineTail'.line = LineOf(start)
    <2>1. LineOf(start) = LineOf(first) + LinesEnded(first, start)
        BY <1>6, <1>13, LineOfLater
    <2> QED BY <1>4, <1>7, <1>8, <2>1 DEF first
<1> QED BY <1>1, <1>14, <1>15 DEF start, m

LEMMA ReviewHeadings ==
    ASSUME ReadingInv, HeadingInv, ReviewChunk
    PROVE  HeadingInv'
<1>1. MoreToRead /\ at = "loop"
    BY DEF ReviewChunk, MoreToRead
<1>2. PICK t \in StreamingState : /\ FoundAdded(state, t, Chunk) /\ SameReading(state, t)
                                  /\ FinishChunk(t)
    BY ReviewAdds
<1>3. /\ file' \in StreamingState /\ SameFindings(t, file') /\ subject' = subject
      /\ file'.next = ChunkEnd /\ cuts' = cuts
    BY <1>1, <1>2, FinishCounts, FinishReads DEF FinishChunk
<1>4. /\ subject \in Subjects /\ args \in Arguments /\ state.next \in 0 .. Size
      /\ state = file /\ file \notin {NoState, Torn} /\ state \in StreamingState
      /\ cuts \subseteq 1 .. state.next /\ Tails
    BY <1>1, FileRead DEF ReadingInv
<1>5. /\ ChunkEnd \in Nat /\ state.next < ChunkEnd /\ ChunkEnd <= Size
      /\ Chunk \in Stretch /\ Chunk[1] = state.next /\ Chunk[2] = ChunkEnd
    BY <1>1, <1>4, ChunkRight
<1>6. ASSUME mode \in HeadingModes PROVE HeadingsRight(file', cuts')
    <2>1. state.next < Size
        BY <1>4, <1>5, DocumentSize
    <2>2. /\ HeadingsRight(state, cuts) /\ InLine(lineTail.start, state.next, cuts)
          /\ lineTail.line = LineOf(lineTail.start)
        BY <1>1, <1>4, <1>6, <2>1 DEF HeadingInv
    <2>3. HeadingsAdded(state, t, HeadingsForChunk(Chunk))
        BY <1>2, <1>6 DEF FoundAdded, HeadingModes
    <2>4. HeadingsAdded(state, file', HeadingsForChunk(Chunk))
        BY <1>3, <2>3 DEF HeadingsAdded, SameFindings, SameHeadings
    <2>5. HeadingsRight(file', cuts)
        BY <1>3, <1>4, <1>5, <2>2, <2>4, HeadingsGrow
    <2> QED BY <1>3, <2>5
<1>7. mode \in HeadingModes =>
          /\ InLine(lineTail'.start, state'.next, cuts')
          /\ lineTail'.line = LineOf(lineTail'.start)
    BY <1>1, <1>2, FinishInLine
<1> QED BY <1>3, <1>6, <1>7, StepHeadings

LEMMA AssistedHeadings ==
    ASSUME ReadingInv, HeadingInv, AssistedChunk
    PROVE  HeadingInv'
<1>1. mode \notin HeadingModes /\ subject' = subject
    BY DEF AssistedChunk, FinishChunk, MODEL_ASSISTED_MODES, HeadingModes
<1> QED BY <1>1, StepHeadings

LEMMA OtherHeadings ==
    ASSUME ReadingInv, HeadingInv,
           \/ StopAtLimit \/ NothingToRead \/ AnswerFails \/ MergeFails \/ PauseRun
           \/ EndRun \/ LastReductionFails \/ WriteReport \/ Crash \/ CrashInWrite
    PROVE  HeadingInv'
<1>1. subject' = subject /\ at' # "loop" /\ at # "down" /\ cuts' = cuts
    BY DEF StopAtLimit, NothingToRead, AnswerFails, MergeFails, PauseRun, EndRun,
           LastReductionFails, WriteReport, Crash, CrashInWrite, FailChunk, Leave, MoreToRead
<1>2. state = file /\ file \notin {NoState, Torn}
    BY <1>1, FileRead
<1>3. ASSUME mode \in HeadingModes, file' \notin {NoState, Torn} PROVE HeadingsRight(file', cuts)
    <2>1. mode # "summarize" /\ mode \notin MODEL_ASSISTED_MODES /\ HeadingsRight(file, cuts)
        BY <1>2, <1>3 DEF HeadingModes, MODEL_ASSISTED_MODES, HeadingInv
    <2>2. ~ (AnswerFails \/ MergeFails \/ LastReductionFails)
        BY <2>1 DEF AnswerFails, MergeFails, LastReductionFails, LastReduction
    <2>3. CASE StopAtLimit \/ NothingToRead
        BY <2>1, <2>3, LoopEndReads
    <2>4. CASE WriteReport
        BY <2>1, <2>4, ReportReads
    <2>5. CASE Crash \/ CrashInWrite
        BY <1>3, <2>1, <2>5, CrashReads
    <2>6. CASE PauseRun
        <3>1. SameHeadings(file, file') /\ file'.next = file.next
            BY <1>2, <2>6, PauseReads DEF SameProgress, SameFindings
        <3> QED BY <2>1, <3>1, SameHeadingsRight
    <2>7. CASE EndRun
        <3>1. at = "end" /\ file' = EndedState
            BY <2>1, <2>7, EndReads DEF LastReduction, EndRun
        <3>2. SameHeadings(file, file') /\ file'.next = file.next
            BY <1>2, <3>1, EndedRight DEF SameFindings
        <3> QED BY <2>1, <3>2, SameHeadingsRight
    <2> QED BY <2>2, <2>3, <2>4, <2>5, <2>6, <2>7
<1> QED BY <1>1, <1>3, StepHeadings

LEMMA HeadingStep ==
    ASSUME ReadingInv, HeadingInv, [Next]_vars
    PROVE  HeadingInv'
<1>1. ASSUME NEW a \in Arguments, Start(a) PROVE HeadingInv'
    BY <1>1, StartHeadings
<1>2. ASSUME NEW a \in Arguments, Resume(a) PROVE HeadingInv'
    BY <1>2, ResumeHeadings
<1>3. CASE ReviewChunk
    BY <1>3, ReviewHeadings
<1>4. CASE AssistedChunk
    BY <1>4, AssistedHeadings
<1>5. CASE \/ StopAtLimit \/ NothingToRead \/ AnswerFails \/ MergeFails \/ PauseRun
           \/ EndRun \/ LastReductionFails \/ WriteReport \/ Crash \/ CrashInWrite
    BY <1>5, OtherHeadings
<1>6. CASE UNCHANGED vars
    <2>1. subject' = subject /\ file' = file /\ state' = state /\ at' = at
          /\ lineTail' = lineTail /\ cuts' = cuts
        BY <1>6 DEF vars, tails
    <2>2. HeadingInv' <=> HeadingInv
        BY <2>1, SameDocument, SameOutline, Zenon DEF HeadingInv, HeadingModes
    <2> QED BY <2>2
<1> QED BY <1>1, <1>2, <1>3, <1>4, <1>5, <1>6 DEF Next, Step

LEMMA HeadingsFollow ==
    ASSUME ReadingInv, HeadingInv
    PROVE  HeadingsFollowDocument
<1> SUFFICES ASSUME mode \in HeadingModes, NEW s \in KnownStates PROVE HeadingsRight(s, cuts)
    BY Zenon DEF HeadingsFollowDocument, HeadingModes, HeadingsRight
<1>1. s = file /\ file \notin {NoState, Torn}
    BY DEF KnownStates, ReadingInv
<1> QED BY <1>1 DEF HeadingInv

\* The outline lists the headings of the lines read so far, in order, on the lines
\* they name and up to the limit, whatever the chunks; where a resumption began
\* within a line, that line is read as if it began there.
THEOREM HeadingsRightly == Spec => []HeadingsFollowDocument
<1>1. Init => HeadingInv
    BY DEF Init, HeadingInv
<1>2. ReadingInv /\ HeadingInv /\ [Next]_vars => HeadingInv'
    BY HeadingStep
<1>3. ReadingInv /\ HeadingInv => HeadingsFollowDocument
    BY HeadingsFollow
<1> QED BY <1>1, <1>2, <1>3, ReadingInvariant, PTL DEF Spec

=============================================================================

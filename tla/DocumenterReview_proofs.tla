------------------------ MODULE DocumenterReview_proofs ------------------------
(***************************************************************************)
(* What a documenter review guarantees of its reports and of its run-state *)
(* file, for every set of documents, every queue, batch size and limit and *)
(* every number of pauses, failures and crashes.                           *)
(***************************************************************************)
EXTENDS DocumenterReview, WellFoundedInduction, SequenceTheorems, TLAPS

(***************************************************************************)
(* Recursive functions on an interval of numbers, and induction over it.   *)
(***************************************************************************)
\* A set of natural numbers has a least element.
LEMMA Least ==
    ASSUME NEW T, T \subseteq Nat, T # {}
    PROVE  \E x \in T : \A y \in T : x <= y
  <1> DEFINE less == OpToRel(<, Nat)
  <1>1. IsWellFoundedOn(less, Nat)
    BY NatLessThanWellFounded, Zenon
  <1>2. \A x, y \in Nat : y < x => <<y, x>> \in less
    <2>1. \A x, y \in Nat :
             <<y, x>> \in Nat \X Nat /\ <<y, x>>[1] = y /\ <<y, x>>[2] = x
      OBVIOUS
    <2> QED
      BY <2>1, Zenon DEF OpToRel
  <1> HIDE DEF less
  <1>3. PICK x \in T : \A y \in T : ~ (<<y, x>> \in less)
    BY <1>1, WFMin, Zenon
  <1>4. \A y \in T : ~ (y < x)
    BY <1>2, <1>3
  <1> QED
    BY <1>4, SMT

\* Induction over first .. last, for the set of the numbers that have the property.
LEMMA IntervalInduction ==
    ASSUME NEW first \in Nat, NEW last \in Nat, NEW T,
           first <= last => first \in T,
           \A i \in first + 1 .. last : i - 1 \in T => i \in T
    PROVE  first .. last \subseteq T
  <1> DEFINE missing == (first .. last) \ T
  <1> SUFFICES ASSUME missing # {} PROVE FALSE
    OBVIOUS
  <1>1. PICK i \in missing : \A j \in missing : i <= j
    <2>1. missing \subseteq Nat
      BY SMT
    <2> QED BY <2>1, Least
  <1>2. i # first
    BY <1>1, SMT
  <1>3. i \in first + 1 .. last /\ i - 1 \in first .. last /\ ~ (i <= i - 1)
    BY <1>1, <1>2, SMT
  <1>4. i - 1 \in T
    BY <1>1, <1>3
  <1> QED
    BY <1>3, <1>4

Iterates(S, first, last, base, step) ==
    \E f \in [first .. last -> S] :
        /\ f[first] = base
        /\ \A i \in first + 1 .. last : f[i] = step[i][f[i - 1]]

\* A recursive function on first .. last exists when each step stays within S.
LEMMA IterationExists ==
    ASSUME NEW S, NEW first \in Nat, NEW last \in Nat, first <= last, NEW base \in S,
           NEW step \in [first + 1 .. last -> [S -> S]]
    PROVE  Iterates(S, first, last, base, step)
  <1> DEFINE Upto(k, f) == /\ f \in [first .. k -> S]
                           /\ f[first] = base
                           /\ \A i \in first + 1 .. k : f[i] = step[i][f[i - 1]]
             T == {k \in first .. last : \E f \in [first .. k -> S] : Upto(k, f)}
  <1>1. first \in T
    <2> DEFINE f == [i \in first .. first |-> base]
    <2>1. first \in first .. last /\ first \in first .. first /\ first + 1 .. first = {}
      BY SMT
    <2>2. f \in [first .. first -> S] /\ Upto(first, f)
      BY <2>1
    <2> QED BY <2>1, <2>2
  <1>2. ASSUME NEW k \in first + 1 .. last, k - 1 \in T
        PROVE  k \in T
    <2>1. PICK f \in [first .. k - 1 -> S] : Upto(k - 1, f)
      BY <1>2
    <2> DEFINE g == [i \in first .. k |-> IF i = k THEN step[k][f[k - 1]] ELSE f[i]]
    <2>2. /\ k \in first .. last
          /\ k - 1 \in first .. k - 1
          /\ first # k /\ first \in first .. k
          /\ \A i \in first .. k : i = k \/ i \in first .. k - 1
          /\ \A i \in first + 1 .. k : i = k \/ i \in first + 1 .. k - 1
          /\ \A i \in first + 1 .. k : i - 1 \in first .. k - 1 /\ i - 1 # k
      BY SMT
    <2>3. step[k][f[k - 1]] \in S
      BY <2>2
    <2>4. g \in [first .. k -> S]
      BY <2>2, <2>3
    <2>5. \A i \in first .. k - 1 : g[i] = f[i]
      BY SMT
    <2>6. g[k] = step[k][f[k - 1]]
      BY SMT
    <2>7. \A i \in first + 1 .. k : i \in first .. k - 1 \/ i = k
      BY SMT
    <2> HIDE DEF g
    <2>8. g[first] = base
      BY <2>1, <2>2, <2>5, SMT
    <2>9. ASSUME NEW i \in first + 1 .. k
          PROVE  g[i] = step[i][g[i - 1]]
      <3>1. g[i - 1] = f[i - 1]
        BY <2>2, <2>5
      <3> QED
        BY <2>1, <2>2, <2>5, <2>6, <2>7, <3>1
    <2>10. Upto(k, g)
      BY <2>4, <2>8, <2>9
    <2> QED
      BY <2>2, <2>4, <2>10
  <1>3. first .. last \subseteq T
    <2> HIDE DEF T
    <2> QED BY <1>1, <1>2, IntervalInduction
  <1>4. last \in T
    BY <1>3, SMT
  <1> QED
    BY <1>4 DEF Iterates

-----------------------------------------------------------------------------
(***************************************************************************)
(* The chunks of a queue, in order.                                        *)
(***************************************************************************)
ChunksInOrder(d) == [k \in 1 .. ChunkCount[d] |-> <<d, k>>]

\* A document has chunks, and they are numbered.
LEMMA ChunksInOrderProperties ==
    ASSUME NEW d \in Docs
    PROVE  /\ ChunkCount[d] \in Nat \ {0}
           /\ ChunksInOrder(d) \in Seq(Chunk)
           /\ Len(ChunksInOrder(d)) = ChunkCount[d]
           /\ \A k \in 1 .. ChunkCount[d] : ChunksInOrder(d)[k] = <<d, k>>
           /\ Range(ChunksInOrder(d)) = ChunksOf(d)
  <1>1. ChunkCount[d] \in Nat \ {0}
    BY ReviewAssumption
  <1> DEFINE e(k) == <<d, k>>
  <1>2. \A k \in 1 .. ChunkCount[d] : e(k) \in Chunk
    <2> SUFFICES ASSUME NEW k \in 1 .. ChunkCount[d] PROVE <<d, k>> \in Chunk
      OBVIOUS
    <2>1. k \in Nat /\ <<d, k>> \in Docs \X Nat /\ <<d, k>>[1] = d /\ <<d, k>>[2] = k
      BY <1>1, SMT
    <2> QED
      BY <2>1 DEF Chunk
  <1>3. [k \in 1 .. ChunkCount[d] |-> e(k)] \in Seq(Chunk)
    <2> HIDE DEF e
    <2> QED BY <1>1, <1>2, IsASeq
  <1>4. Len(ChunksInOrder(d)) = ChunkCount[d]
    BY <1>1, SMT DEF ChunksInOrder
  <1>5. DOMAIN ChunksInOrder(d) = 1 .. ChunkCount[d]
    BY DEF ChunksInOrder
  <1>6. Range(ChunksInOrder(d)) = {<<d, k>> : k \in 1 .. ChunkCount[d]}
    BY <1>5, Zenon DEF Range, ChunksInOrder
  <1>7. {<<d, k>> : k \in 1 .. ChunkCount[d]} = ChunksOf(d)
    BY DEF ChunksOf
  <1> QED
    BY <1>1, <1>3, <1>4, <1>6, <1>7 DEF ChunksInOrder

LEMMA QueueProperties ==
    ASSUME NEW queue \in Seq(Target)
    PROVE  /\ Len(queue) \in Nat
           /\ DOMAIN queue = 1 .. Len(queue)
           /\ \A i \in 1 .. Len(queue) :
                 /\ queue[i] \in Target
                 /\ queue[i].doc \in Docs
                 /\ queue[i].depth \in Nat
  <1>1. \A i \in 1 .. Len(queue) : queue[i] \in Target
    BY ElementOfSeq
  <1>2. \A t \in Target : t.doc \in Docs /\ t.depth \in Nat
    BY DEF Target
  <1> QED
    BY <1>1, <1>2, LenProperties

LEMMA PlannedDefined ==
    ASSUME NEW queue \in Seq(Target), NEW first \in 0 .. Len(queue)
    PROVE  /\ Planned(queue, first)[first] = <<>>
           /\ \A i \in first + 1 .. Len(queue) :
                 Planned(queue, first)[i]
                    = Planned(queue, first)[i - 1] \o ChunksInOrder(queue[i].doc)
           /\ \A i \in first .. Len(queue) : Planned(queue, first)[i] \in Seq(Chunk)
  <1> DEFINE last == Len(queue)
             step == [i \in first + 1 .. last |->
                        [s \in Seq(Chunk) |-> s \o ChunksInOrder(queue[i].doc)]]
  <1>1. first \in Nat /\ last \in Nat /\ first <= last
    BY QueueProperties, SMT
  <1>2. \A i \in first + 1 .. last : i \in 1 .. Len(queue)
    BY <1>1, SMT
  <1>3. step \in [first + 1 .. last -> [Seq(Chunk) -> Seq(Chunk)]]
    <2> SUFFICES ASSUME NEW i \in first + 1 .. last, NEW s \in Seq(Chunk)
                 PROVE  s \o ChunksInOrder(queue[i].doc) \in Seq(Chunk)
      OBVIOUS
    <2>1. ChunksInOrder(queue[i].doc) \in Seq(Chunk)
      BY <1>2, QueueProperties, ChunksInOrderProperties
    <2> QED BY <2>1, ConcatProperties
  <1>4. <<>> \in Seq(Chunk)
    BY EmptySeq
  <1> HIDE DEF last, step
  <1>5. PICK f \in [first .. last -> Seq(Chunk)] :
           /\ f[first] = <<>>
           /\ \A i \in first + 1 .. last : f[i] = step[i][f[i - 1]]
    <2>1. Iterates(Seq(Chunk), first, last, <<>>, step)
      BY <1>1, <1>3, <1>4, IterationExists
    <2> QED BY <2>1 DEF Iterates
  <1>6. ASSUME NEW i \in first .. last
        PROVE  f[i] = IF i = first THEN <<>> ELSE f[i - 1] \o ChunksInOrder(queue[i].doc)
    <2>1. CASE i = first
      BY <1>5, <2>1
    <2>2. CASE i # first
      <3>1. i \in first + 1 .. last /\ i - 1 \in first .. last
        BY <1>1, <2>2, SMT
      <3>2. f[i] = step[i][f[i - 1]] /\ f[i - 1] \in Seq(Chunk)
        BY <1>5, <3>1
      <3> QED BY <2>2, <3>1, <3>2 DEF step
    <2> QED BY <2>1, <2>2
  <1>7. f = [i \in first .. last |->
                IF i = first THEN <<>> ELSE f[i - 1] \o ChunksInOrder(queue[i].doc)]
    BY <1>5, <1>6, Zenon
  <1>8. \E g : g = [i \in first .. last |->
                IF i = first THEN <<>> ELSE g[i - 1] \o ChunksInOrder(queue[i].doc)]
    BY <1>7, Zenon
  <1> DEFINE p == Planned(queue, first)
  <1>9. p = [i \in first .. last |->
                IF i = first THEN <<>> ELSE p[i - 1] \o ChunksInOrder(queue[i].doc)]
    BY <1>8, Zenon DEF Planned, last, ChunksInOrder
  <1> HIDE DEF p
  <1>10. p[first] = <<>>
    <2>1. first \in first .. last
      BY <1>1, SMT
    <2> QED BY <1>9, <2>1, Zenon
  <1>11. ASSUME NEW i \in first + 1 .. last
         PROVE  p[i] = p[i - 1] \o ChunksInOrder(queue[i].doc)
    <2>1. i \in first .. last /\ i # first
      BY <1>1, SMT
    <2> QED BY <1>9, <2>1, Zenon
  <1>12. \A i \in first .. last : p[i] \in Seq(Chunk)
    <2> DEFINE T == {i \in first .. last : p[i] \in Seq(Chunk)}
    <2>1. first \in T
      <3>1. first \in first .. last
        BY <1>1, SMT
      <3> QED BY <1>4, <1>10, <3>1, Zenon
    <2>2. ASSUME NEW i \in first + 1 .. last, i - 1 \in T
          PROVE  i \in T
      <3>1. ChunksInOrder(queue[i].doc) \in Seq(Chunk)
        BY <1>2, QueueProperties, ChunksInOrderProperties
      <3>2. p[i] \in Seq(Chunk)
        BY <1>11, <2>2, <3>1, ConcatProperties
      <3> QED BY <1>1, <3>2, SMT
    <2>3. first .. last \subseteq T
      <3> HIDE DEF T
      <3> QED BY <1>1, <2>1, <2>2, IntervalInduction
    <2> QED BY <2>3
  <1> QED
    BY <1>10, <1>11, <1>12 DEF p, last

\* The planned chunks are those of the targets' documents.
LEMMA PlannedRange ==
    ASSUME NEW queue \in Seq(Target), NEW first \in 0 .. Len(queue)
    PROVE  \A i \in first .. Len(queue) : \A c :
              c \in Range(Planned(queue, first)[i])
                 <=> \E j \in first + 1 .. i : c \in ChunksOf(queue[j].doc)
  <1> DEFINE last == Len(queue)
             p == Planned(queue, first)
             T == {i \in first .. last : \A c :
                      c \in Range(p[i]) <=> \E j \in first + 1 .. i : c \in ChunksOf(queue[j].doc)}
  <1>1. first \in Nat /\ last \in Nat
    BY QueueProperties, SMT
  <1>2. first <= last => first \in T
    <2>1. p[first] = <<>>
      BY PlannedDefined
    <2>2. Range(<<>>) = {}
      BY DEF Range
    <2>3. first + 1 .. first = {}
      BY <1>1, SMT
    <2>4. first <= last => first \in first .. last
      BY <1>1, SMT
    <2> HIDE DEF p, last
    <2> QED BY <2>1, <2>2, <2>3, <2>4
  <1>3. ASSUME NEW i \in first + 1 .. last, i - 1 \in T
        PROVE  i \in T
    <2>1. /\ i \in first .. last /\ i - 1 \in first .. last
          /\ i \in 1 .. Len(queue)
          /\ first + 1 .. i = (first + 1 .. i - 1) \cup {i}
      BY <1>1, SMT
    <2>2. /\ p[i] = p[i - 1] \o ChunksInOrder(queue[i].doc)
          /\ p[i - 1] \in Seq(Chunk)
      BY <2>1, PlannedDefined
    <2>3. /\ ChunksInOrder(queue[i].doc) \in Seq(Chunk)
          /\ Range(ChunksInOrder(queue[i].doc)) = ChunksOf(queue[i].doc)
      BY <2>1, QueueProperties, ChunksInOrderProperties
    <2>4. Range(p[i]) = Range(p[i - 1]) \cup ChunksOf(queue[i].doc)
      BY <2>2, <2>3, RangeConcatenation
    <2> HIDE DEF p, last
    <2> QED
      BY <1>3, <2>1, <2>4
  <1>4. first .. last \subseteq T
    <2> HIDE DEF T
    <2> QED BY <1>1, <1>2, <1>3, IntervalInduction
  <1> QED
    BY <1>4

LEMMA ChunksAssociative ==
    ASSUME NEW r \in Seq(Chunk), NEW s \in Seq(Chunk), NEW t \in Seq(Chunk)
    PROVE  (r \o s) \o t = r \o (s \o t)
  BY ConcatAssociative

\* The plan from a target on is the rest of the whole plan.
LEMMA PlannedSplit ==
    ASSUME NEW queue \in Seq(Target), NEW first \in 0 .. Len(queue)
    PROVE  \A i \in first .. Len(queue) :
              Planned(queue, 0)[i] = Planned(queue, 0)[first] \o Planned(queue, first)[i]
  <1> DEFINE last == Len(queue)
             p == Planned(queue, 0)
             q == Planned(queue, first)
             T == {i \in first .. last : p[i] = p[first] \o q[i]}
  <1>1. first \in Nat /\ last \in Nat /\ 0 \in 0 .. Len(queue)
    BY QueueProperties, SMT
  <1>2. \A i \in first .. last : p[i] \in Seq(Chunk) /\ q[i] \in Seq(Chunk)
    <2>1. \A i \in first .. last : i \in 0 .. last
      BY <1>1, SMT
    <2> QED BY <1>1, <2>1, PlannedDefined
  <1>3. first <= last => first \in T
    <2>1. q[first] = <<>>
      BY PlannedDefined
    <2>2. first \in first .. last
      BY <1>1, SMT
    <2>3. p[first] \o <<>> = p[first]
      BY <1>2, <2>2, ConcatEmptySeq
    <2> HIDE DEF p, q
    <2> QED BY <2>1, <2>2, <2>3
  <1>4. ASSUME NEW i \in first + 1 .. last, i - 1 \in T
        PROVE  i \in T
    <2> DEFINE t == ChunksInOrder(queue[i].doc)
    <2>1. /\ i \in first .. last /\ i - 1 \in first .. last /\ first \in first .. last
          /\ i \in 1 .. Len(queue) /\ i \in 0 + 1 .. Len(queue)
      BY <1>1, SMT
    <2>2. p[i] = p[i - 1] \o t /\ q[i] = q[i - 1] \o t
      BY <1>1, <2>1, PlannedDefined
    <2>3. t \in Seq(Chunk)
      BY <2>1, QueueProperties, ChunksInOrderProperties
    <2>4. p[first] \in Seq(Chunk) /\ q[i - 1] \in Seq(Chunk)
      BY <1>2, <2>1
    <2> HIDE DEF p, q, t
    <2>5. (p[first] \o q[i - 1]) \o t = p[first] \o (q[i - 1] \o t)
      BY <2>3, <2>4, ChunksAssociative
    <2> QED BY <1>4, <2>1, <2>2, <2>5
  <1>5. first .. last \subseteq T
    <2> HIDE DEF T
    <2> QED BY <1>1, <1>3, <1>4, IntervalInduction
  <1> QED
    BY <1>5

\* A queue that has grown at its end plans the first targets as before.
LEMMA PlannedGrows ==
    ASSUME NEW queue \in Seq(Target), NEW longer \in Seq(Target),
           Len(queue) <= Len(longer),
           \A i \in 1 .. Len(queue) : longer[i] = queue[i]
    PROVE  \A i \in 0 .. Len(queue) : Planned(longer, 0)[i] = Planned(queue, 0)[i]
  <1> DEFINE last == Len(queue)
             p == Planned(longer, 0)
             q == Planned(queue, 0)
             T == {i \in 0 .. last : p[i] = q[i]}
  <1>1. /\ last \in Nat /\ Len(longer) \in Nat
        /\ 0 \in 0 .. Len(queue) /\ 0 \in 0 .. Len(longer)
    BY QueueProperties, SMT
  <1>2. 0 <= last => 0 \in T
    BY <1>1, PlannedDefined
  <1>3. ASSUME NEW i \in 0 + 1 .. last, i - 1 \in T
        PROVE  i \in T
    <2>1. /\ i \in 0 .. last
          /\ i \in 1 .. Len(queue) /\ i \in 0 + 1 .. Len(longer) /\ i \in 0 + 1 .. Len(queue)
      BY <1>1, SMT
    <2>2. /\ p[i] = p[i - 1] \o ChunksInOrder(longer[i].doc)
          /\ q[i] = q[i - 1] \o ChunksInOrder(queue[i].doc)
      BY <1>1, <2>1, PlannedDefined
    <2> HIDE DEF p, q
    <2> QED BY <1>3, <2>1, <2>2
  <1>4. 0 .. last \subseteq T
    <2> HIDE DEF T
    <2>1. 0 \in Nat
      OBVIOUS
    <2> QED BY <1>1, <1>2, <1>3, <2>1, IntervalInduction
  <1> QED
    BY <1>4

Distinct(s) == \A i, j \in 1 .. Len(s) : s[i] = s[j] => i = j

LEMMA ConcatDistinct ==
    ASSUME NEW S, NEW s \in Seq(S), NEW t \in Seq(S), Distinct(s), Distinct(t),
           Range(s) \cap Range(t) = {}
    PROVE  Distinct(s \o t)
  <1>1. /\ Len(s) \in Nat /\ Len(t) \in Nat
        /\ Len(s \o t) = Len(s) + Len(t)
        /\ \A i \in 1 .. Len(s) + Len(t) :
              (s \o t)[i] = IF i <= Len(s) THEN s[i] ELSE t[i - Len(s)]
    BY LenProperties, ConcatProperties
  <1>2. \A i \in 1 .. Len(s), j \in 1 .. Len(t) : s[i] # t[j]
    BY LenProperties, Zenon DEF Range
  <1> SUFFICES ASSUME NEW i \in 1 .. Len(s) + Len(t), NEW j \in 1 .. Len(s) + Len(t),
                      (s \o t)[i] = (s \o t)[j]
               PROVE  i = j
    BY <1>1 DEF Distinct
  <1>3. CASE i <= Len(s) /\ j <= Len(s)
    <2>1. i \in 1 .. Len(s) /\ j \in 1 .. Len(s)
      BY <1>1, <1>3, SMT
    <2>2. s[i] = s[j]
      BY <1>1, <1>3
    <2> QED BY <2>1, <2>2 DEF Distinct
  <1>4. CASE ~ (i <= Len(s)) /\ ~ (j <= Len(s))
    <2>1. i - Len(s) \in 1 .. Len(t) /\ j - Len(s) \in 1 .. Len(t)
      BY <1>1, <1>4, SMT
    <2>2. t[i - Len(s)] = t[j - Len(s)]
      BY <1>1, <1>4
    <2>3. i - Len(s) = j - Len(s)
      BY <2>1, <2>2 DEF Distinct
    <2> QED BY <1>1, <2>3, SMT
  <1>5. CASE i <= Len(s) /\ ~ (j <= Len(s))
    <2>1. i \in 1 .. Len(s) /\ j - Len(s) \in 1 .. Len(t)
      BY <1>1, <1>5, SMT
    <2>2. s[i] = t[j - Len(s)]
      BY <1>1, <1>5
    <2> QED BY <1>2, <2>1, <2>2
  <1>6. CASE ~ (i <= Len(s)) /\ j <= Len(s)
    <2>1. j \in 1 .. Len(s) /\ i - Len(s) \in 1 .. Len(t)
      BY <1>1, <1>6, SMT
    <2>2. s[j] = t[i - Len(s)]
      BY <1>1, <1>6
    <2> QED BY <1>2, <2>1, <2>2
  <1> QED
    BY <1>3, <1>4, <1>5, <1>6

NoDocTwice(queue) == \A i, j \in DOMAIN queue : queue[i].doc = queue[j].doc => i = j

\* No chunk is planned twice when no document is queued twice.
LEMMA PlannedDistinct ==
    ASSUME NEW queue \in Seq(Target), NoDocTwice(queue)
    PROVE  \A i \in 0 .. Len(queue) : Distinct(Planned(queue, 0)[i])
  <1> DEFINE last == Len(queue)
             p == Planned(queue, 0)
             T == {i \in 0 .. last : Distinct(p[i])}
  <1>1. last \in Nat /\ 0 \in 0 .. Len(queue)
    BY QueueProperties, SMT
  <1>2. 0 <= last => 0 \in T
    <2>1. p[0] = <<>> /\ Len(<<>>) = 0
      BY <1>1, PlannedDefined
    <2>2. Distinct(<<>>)
      BY SMT DEF Distinct
    <2> HIDE DEF p
    <2> QED BY <1>1, <2>1, <2>2
  <1>3. ASSUME NEW i \in 0 + 1 .. last, i - 1 \in T
        PROVE  i \in T
    <2> DEFINE t == ChunksInOrder(queue[i].doc)
    <2>1. /\ i \in 0 .. last /\ i - 1 \in 0 .. last
          /\ i \in 1 .. Len(queue)
          /\ \A j \in 0 + 1 .. i - 1 : j \in 1 .. Len(queue) /\ j # i
      BY <1>1, SMT
    <2>2. p[i] = p[i - 1] \o t /\ p[i - 1] \in Seq(Chunk)
      BY <1>1, <2>1, PlannedDefined
    <2>3. /\ t \in Seq(Chunk)
          /\ Len(t) = ChunkCount[queue[i].doc]
          /\ \A k \in 1 .. ChunkCount[queue[i].doc] : t[k] = <<queue[i].doc, k>>
          /\ Range(t) = ChunksOf(queue[i].doc)
      BY <2>1, QueueProperties, ChunksInOrderProperties
    <2>4. Distinct(t)
      <3> SUFFICES ASSUME NEW j \in 1 .. Len(t), NEW k \in 1 .. Len(t), t[j] = t[k]
                   PROVE  j = k
        BY DEF Distinct
      <3>1. <<queue[i].doc, j>> = <<queue[i].doc, k>>
        BY <2>3
      <3> QED BY <3>1, Zenon
    <2>5. Range(p[i - 1]) \cap Range(t) = {}
      <3> SUFFICES ASSUME NEW c \in Range(p[i - 1]), c \in Range(t)
                   PROVE  FALSE
        OBVIOUS
      <3>1. PICK j \in 0 + 1 .. i - 1 : c \in ChunksOf(queue[j].doc)
        BY <1>1, <2>1, PlannedRange
      <3>2. c \in ChunksOf(queue[i].doc)
        BY <2>3
      <3>3. c[1] = queue[j].doc /\ c[1] = queue[i].doc
        BY <3>1, <3>2 DEF ChunksOf
      <3>4. DOMAIN queue = 1 .. Len(queue)
        BY QueueProperties
      <3> QED BY <2>1, <3>3, <3>4 DEF NoDocTwice
    <2>6. Distinct(p[i - 1])
      BY <1>3
    <2>7. Distinct(p[i])
      <3> HIDE DEF p, t
      <3> QED BY <2>2, <2>3, <2>4, <2>5, <2>6, ConcatDistinct
    <2> QED BY <2>1, <2>7
  <1>4. 0 .. last \subseteq T
    <2> HIDE DEF T
    <2>1. 0 \in Nat
      OBVIOUS
    <2> QED BY <1>1, <1>2, <1>3, <2>1, IntervalInduction
  <1> QED
    BY <1>4

-----------------------------------------------------------------------------
(***************************************************************************)
(* The plan of a queue, and the reports that follow it.                    *)
(***************************************************************************)
Agrees(s, t) ==
    /\ Len(s) <= Len(t)
    /\ \A k \in 1 .. Len(s) : s[k] = t[k]

LEMMA PrefixAgrees ==
    ASSUME NEW s \in Seq(Chunk), NEW t \in Seq(Chunk)
    PROVE  IsPrefix(s, t) <=> Agrees(s, t)
  <1>1. /\ Len(s) \in Nat /\ Len(t) \in Nat
        /\ \A k \in 1 .. Len(s) : s[k] \in Chunk
        /\ \A k \in 1 .. Len(t) : t[k] \in Chunk
    BY LenProperties, ElementOfSeq
  <1>2. CASE Len(s) <= Len(t)
    <2> DEFINE u == SubSeq(s, 1, Len(s))
               v == SubSeq(t, 1, Len(s))
    <2>1. \A k \in 1 .. Len(s) : k \in 1 .. Len(t)
      BY <1>1, <1>2, SMT
    <2>2. /\ u \in Seq(Chunk)
          /\ Len(u) = IF 1 <= Len(s) THEN Len(s) - 1 + 1 ELSE 0
          /\ \A k \in 1 .. Len(s) - 1 + 1 : u[k] = s[1 + k - 1]
      BY <1>1, SubSeqProperties
    <2>3. /\ v \in Seq(Chunk)
          /\ Len(v) = IF 1 <= Len(s) THEN Len(s) - 1 + 1 ELSE 0
          /\ \A k \in 1 .. Len(s) - 1 + 1 : v[k] = t[1 + k - 1]
      BY <1>1, <2>1, SubSeqProperties
    <2> HIDE DEF u, v
    <2>4. Len(u) = Len(s) /\ Len(v) = Len(s)
      BY <1>1, <2>2, <2>3, SMT
    <2>5. \A k \in 1 .. Len(s) : u[k] = s[k] /\ v[k] = t[k]
      <3> TAKE k \in 1 .. Len(s)
      <3>1. k \in 1 .. Len(s) - 1 + 1 /\ 1 + k - 1 = k
        BY <1>1, SMT
      <3> QED BY <2>2, <2>3, <3>1
    <2>6. u = v <=> \A k \in 1 .. Len(s) : u[k] = v[k]
      BY <2>2, <2>3, <2>4, SeqEqual
    <2>7. u = v <=> \A k \in 1 .. Len(s) : s[k] = t[k]
      BY <2>5, <2>6
    <2> QED
      BY <1>2, <2>7 DEF IsPrefix, Agrees, u, v
  <1> QED
    BY <1>2 DEF IsPrefix, Agrees

LEMMA ExtensionAgrees ==
    ASSUME NEW s \in Seq(Chunk), NEW t \in Seq(Chunk)
    PROVE  /\ Agrees(s, s \o t)
           /\ Len(s \o t) = Len(s) + Len(t)
           /\ \A k \in 1 .. Len(t) : (s \o t)[Len(s) + k] = t[k]
  <1>1. /\ Len(s) \in Nat /\ Len(t) \in Nat
        /\ Len(s \o t) = Len(s) + Len(t)
        /\ \A i \in 1 .. Len(s) + Len(t) :
              (s \o t)[i] = IF i <= Len(s) THEN s[i] ELSE t[i - Len(s)]
    BY LenProperties, ConcatProperties
  <1>2. \A k \in 1 .. Len(s) : k \in 1 .. Len(s) + Len(t) /\ k <= Len(s)
    BY <1>1, SMT
  <1>3. \A k \in 1 .. Len(t) : /\ Len(s) + k \in 1 .. Len(s) + Len(t)
                               /\ ~ (Len(s) + k <= Len(s))
                               /\ Len(s) + k - Len(s) = k
    BY <1>1, SMT
  <1>4. Len(s) <= Len(s) + Len(t)
    BY <1>1, SMT
  <1> QED
    BY <1>1, <1>2, <1>3, <1>4 DEF Agrees

LEMMA PlanProperties ==
    ASSUME NEW queue \in Seq(Target)
    PROVE  /\ Plan(queue) \in Seq(Chunk)
           /\ Len(Plan(queue)) \in Nat
           /\ \A c : c \in Range(Plan(queue))
                        <=> \E j \in 1 .. Len(queue) : c \in ChunksOf(queue[j].doc)
  <1>1. 0 \in 0 .. Len(queue) /\ Len(queue) \in 0 .. Len(queue) /\ 0 + 1 = 1
    BY QueueProperties, SMT
  <1>2. Plan(queue) \in Seq(Chunk)
    BY <1>1, PlannedDefined DEF Plan
  <1>3. \A c : c \in Range(Plan(queue))
                  <=> \E j \in 1 .. Len(queue) : c \in ChunksOf(queue[j].doc)
    BY <1>1, PlannedRange DEF Plan
  <1> QED
    BY <1>2, <1>3, LenProperties

\* A queue that grows at its end has a plan that grows at its end.
LEMMA PlanGrows ==
    ASSUME NEW queue \in Seq(Target), NEW longer \in Seq(Target),
           Len(queue) <= Len(longer),
           \A i \in 1 .. Len(queue) : longer[i] = queue[i]
    PROVE  Agrees(Plan(queue), Plan(longer))
  <1> DEFINE rest == Planned(longer, Len(queue))[Len(longer)]
  <1>1. /\ Len(queue) \in 0 .. Len(longer)
        /\ Len(longer) \in Len(queue) .. Len(longer)
        /\ Len(queue) \in 0 .. Len(queue)
    BY QueueProperties, SMT
  <1>2. Plan(longer) = Planned(longer, 0)[Len(queue)] \o rest
    BY <1>1, PlannedSplit DEF Plan
  <1>3. Planned(longer, 0)[Len(queue)] = Plan(queue)
    BY <1>1, PlannedGrows DEF Plan
  <1>4. rest \in Seq(Chunk) /\ Plan(queue) \in Seq(Chunk)
    BY <1>1, PlannedDefined, PlanProperties
  <1>5. Plan(longer) = Plan(queue) \o rest
    BY <1>2, <1>3
  <1> QED
    BY <1>4, <1>5, ExtensionAgrees

\* What is reported, when the reports are the first chunks of a plan.
LEMMA ReportedChunks ==
    ASSUME NEW plan \in Seq(Chunk), NEW reports \in Seq(Chunk),
           Agrees(reports, plan), Distinct(plan)
    PROVE  \A k \in 1 .. Len(plan) : plan[k] \in Range(reports) <=> k <= Len(reports)
  <1>1. /\ Len(plan) \in Nat /\ Len(reports) \in Nat
        /\ DOMAIN reports = 1 .. Len(reports)
    BY LenProperties
  <1> TAKE k \in 1 .. Len(plan)
  <1>2. ASSUME k <= Len(reports)
        PROVE  plan[k] \in Range(reports)
    <2>1. k \in 1 .. Len(reports)
      BY <1>1, <1>2, SMT
    <2>2. plan[k] = reports[k]
      BY <2>1 DEF Agrees
    <2> QED BY <1>1, <2>1, <2>2, Zenon DEF Range
  <1>3. ASSUME plan[k] \in Range(reports)
        PROVE  k <= Len(reports)
    <2>1. PICK j \in 1 .. Len(reports) : plan[k] = reports[j]
      BY <1>1, <1>3, Zenon DEF Range
    <2>2. j \in 1 .. Len(plan) /\ plan[k] = plan[j]
      BY <1>1, <2>1, SMT DEF Agrees
    <2>3. k = j
      BY <2>2 DEF Distinct
    <2> QED BY <1>1, <2>3, SMT
  <1> QED
    BY <1>2, <1>3

-----------------------------------------------------------------------------
(***************************************************************************)
(* The next batch: orchestrator.py, build_next_chunk_review_batch.         *)
(***************************************************************************)
LEMMA PendingDefined ==
    ASSUME NEW chunks \in Seq(Chunk), NEW completed
    PROVE  /\ Pending(chunks, completed)[0] = <<>>
           /\ \A i \in 0 + 1 .. Len(chunks) :
                 Pending(chunks, completed)[i]
                    = IF chunks[i] \in completed THEN Pending(chunks, completed)[i - 1]
                      ELSE Append(Pending(chunks, completed)[i - 1], chunks[i])
           /\ \A i \in 0 .. Len(chunks) : Pending(chunks, completed)[i] \in Seq(Chunk)
  <1> DEFINE last == Len(chunks)
             step == [i \in 0 + 1 .. last |-> [s \in Seq(Chunk) |->
                         IF chunks[i] \in completed THEN s ELSE Append(s, chunks[i])]]
  <1>1. last \in Nat /\ 0 \in Nat /\ 0 <= last
    BY LenProperties, SMT
  <1>2. \A i \in 0 + 1 .. last : chunks[i] \in Chunk
    <2>1. \A i \in 0 + 1 .. last : i \in 1 .. Len(chunks)
      BY <1>1, SMT
    <2> QED BY <2>1, ElementOfSeq
  <1>3. step \in [0 + 1 .. last -> [Seq(Chunk) -> Seq(Chunk)]]
    BY <1>2, AppendProperties
  <1>4. <<>> \in Seq(Chunk)
    BY EmptySeq
  <1> HIDE DEF last, step
  <1>5. PICK f \in [0 .. last -> Seq(Chunk)] :
           /\ f[0] = <<>>
           /\ \A i \in 0 + 1 .. last : f[i] = step[i][f[i - 1]]
    <2>1. Iterates(Seq(Chunk), 0, last, <<>>, step)
      BY <1>1, <1>3, <1>4, IterationExists
    <2> QED BY <2>1 DEF Iterates
  <1>6. ASSUME NEW i \in 0 .. last
        PROVE  f[i] = IF i = 0 THEN <<>>
                      ELSE IF chunks[i] \in completed THEN f[i - 1]
                      ELSE Append(f[i - 1], chunks[i])
    <2>1. CASE i = 0
      BY <1>5, <2>1
    <2>2. CASE i # 0
      <3>1. i \in 0 + 1 .. last /\ i - 1 \in 0 .. last
        BY <1>1, <2>2, SMT
      <3>2. f[i] = step[i][f[i - 1]] /\ f[i - 1] \in Seq(Chunk)
        BY <1>5, <3>1
      <3> QED BY <2>2, <3>1, <3>2 DEF step
    <2> QED BY <2>1, <2>2
  <1>7. f = [i \in 0 .. last |-> IF i = 0 THEN <<>>
                                 ELSE IF chunks[i] \in completed THEN f[i - 1]
                                 ELSE Append(f[i - 1], chunks[i])]
    BY <1>5, <1>6, Zenon
  <1>8. \E g : g = [i \in 0 .. last |-> IF i = 0 THEN <<>>
                                 ELSE IF chunks[i] \in completed THEN g[i - 1]
                                 ELSE Append(g[i - 1], chunks[i])]
    BY <1>7, Zenon
  <1> DEFINE p == Pending(chunks, completed)
  <1>9. p = [i \in 0 .. last |-> IF i = 0 THEN <<>>
                                 ELSE IF chunks[i] \in completed THEN p[i - 1]
                                 ELSE Append(p[i - 1], chunks[i])]
    BY <1>8, Zenon DEF Pending, last
  <1> HIDE DEF p
  <1>10. p[0] = <<>>
    <2>1. 0 \in 0 .. last
      BY <1>1, SMT
    <2> QED BY <1>9, <2>1, Zenon
  <1>11. ASSUME NEW i \in 0 + 1 .. last
         PROVE  p[i] = IF chunks[i] \in completed THEN p[i - 1] ELSE Append(p[i - 1], chunks[i])
    <2>1. i \in 0 .. last /\ i # 0
      BY <1>1, SMT
    <2> QED BY <1>9, <2>1, Zenon
  <1>12. \A i \in 0 .. last : p[i] \in Seq(Chunk)
    <2> DEFINE T == {i \in 0 .. last : p[i] \in Seq(Chunk)}
    <2>1. 0 \in T
      <3>1. 0 \in 0 .. last
        BY <1>1, SMT
      <3> QED BY <1>4, <1>10, <3>1, Zenon
    <2>2. ASSUME NEW i \in 0 + 1 .. last, i - 1 \in T
          PROVE  i \in T
      <3>1. p[i - 1] \in Seq(Chunk)
        BY <2>2
      <3>2. Append(p[i - 1], chunks[i]) \in Seq(Chunk)
        BY <1>2, <3>1, AppendProperties
      <3>3. p[i] \in Seq(Chunk)
        BY <1>11, <3>1, <3>2, Zenon
      <3> QED BY <1>1, <3>3, SMT
    <2>3. 0 .. last \subseteq T
      <3> HIDE DEF T
      <3> QED BY <1>1, <2>1, <2>2, IntervalInduction
    <2> QED BY <2>3
  <1> QED
    BY <1>10, <1>11, <1>12 DEF p, last

CompletedUpto(chunks, completed, done) ==
    \A k \in 1 .. Len(chunks) : chunks[k] \in completed <=> k <= done

PendingAfter(chunks, completed, done) ==
    \A i \in 0 .. Len(chunks) :
        /\ Len(Pending(chunks, completed)[i]) = IF i <= done THEN 0 ELSE i - done
        /\ \A k \in 1 .. i - done : Pending(chunks, completed)[i][k] = chunks[done + k]

\* When the first done chunks are the completed ones, the others are pending.
LEMMA PendingRest ==
    ASSUME NEW chunks \in Seq(Chunk), NEW completed, NEW done \in 0 .. Len(chunks),
           CompletedUpto(chunks, completed, done)
    PROVE  PendingAfter(chunks, completed, done)
  <1> DEFINE last == Len(chunks)
             p == Pending(chunks, completed)
             T == {i \in 0 .. last :
                     /\ Len(p[i]) = IF i <= done THEN 0 ELSE i - done
                     /\ \A k \in 1 .. i - done : p[i][k] = chunks[done + k]}
  <1>1. last \in Nat /\ done \in Nat /\ 0 \in Nat /\ 0 <= last /\ done <= last
    BY LenProperties, SMT
  <1>2. \A i \in 1 .. last : chunks[i] \in Chunk
    BY ElementOfSeq
  <1>3. /\ p[0] = <<>>
        /\ \A i \in 0 + 1 .. last :
              p[i] = IF chunks[i] \in completed THEN p[i - 1] ELSE Append(p[i - 1], chunks[i])
        /\ \A i \in 0 .. last : p[i] \in Seq(Chunk)
    BY PendingDefined
  <1>4. \A k \in 1 .. last : chunks[k] \in completed <=> k <= done
    BY DEF CompletedUpto
  <1> HIDE DEF p, last
  <1>5. 0 \in T
    BY <1>1, <1>3, SMT
  <1>6. ASSUME NEW i \in 0 + 1 .. last, i - 1 \in T
        PROVE  i \in T
    <2>1. i \in 1 .. last /\ i \in 0 .. last /\ i - 1 \in 0 .. last
      BY <1>1, SMT
    <2>2. /\ p[i - 1] \in Seq(Chunk)
          /\ p[i] = IF chunks[i] \in completed THEN p[i - 1] ELSE Append(p[i - 1], chunks[i])
      BY <1>3, <2>1
    <2>3. /\ Len(p[i - 1]) = IF i - 1 <= done THEN 0 ELSE i - 1 - done
          /\ \A k \in 1 .. i - 1 - done : p[i - 1][k] = chunks[done + k]
      BY <1>6
    <2>4. CASE i <= done
      <3>1. p[i] = p[i - 1]
        BY <1>4, <2>1, <2>2, <2>4
      <3>2. Len(p[i - 1]) = 0
        BY <1>1, <2>1, <2>3, <2>4, SMT
      <3>3. \A k \in 1 .. i - done : FALSE
        BY <1>1, <2>1, <2>4, SMT
      <3> QED BY <2>1, <2>4, <3>1, <3>2, <3>3
    <2>5. CASE ~ (i <= done)
      <3>1. p[i] = Append(p[i - 1], chunks[i])
        BY <1>4, <2>1, <2>2, <2>5
      <3>2. /\ Len(p[i]) = Len(p[i - 1]) + 1
            /\ \A k \in 1 .. Len(p[i - 1]) : p[i][k] = p[i - 1][k]
            /\ p[i][Len(p[i - 1]) + 1] = chunks[i]
        BY <1>2, <2>1, <2>2, <3>1, AppendProperties
      <3>3. Len(p[i - 1]) = i - 1 - done
        BY <1>1, <2>1, <2>3, <2>5, SMT
      <3>4. Len(p[i]) = i - done
        BY <1>1, <2>1, <3>2, <3>3, SMT
      <3>5. ASSUME NEW k \in 1 .. i - done
            PROVE  p[i][k] = chunks[done + k]
        <4>1. CASE k = i - done
          <5>1. k = Len(p[i - 1]) + 1 /\ done + k = i
            BY <1>1, <2>1, <3>3, <4>1, SMT
          <5> QED BY <3>2, <5>1
        <4>2. CASE k # i - done
          <5>1. k \in 1 .. i - 1 - done
            BY <1>1, <2>1, <4>2, SMT
          <5> QED BY <2>3, <3>2, <3>3, <5>1
        <4> QED BY <4>1, <4>2
      <3> QED BY <2>1, <2>5, <3>4, <3>5
    <2> QED BY <2>4, <2>5
  <1>7. 0 .. last \subseteq T
    <2> HIDE DEF T
    <2> QED BY <1>1, <1>5, <1>6, IntervalInduction
  <1> QED
    BY <1>7 DEF p, last, PendingAfter

LEMMA RemainingLength ==
    ASSUME NEW head \in Nat, NEW rest \in Nat, NEW n \in Nat, NEW length,
           n < head + rest, head <= n,
           length = IF rest <= n - head THEN 0 ELSE rest - (n - head)
    PROVE  length = (head + rest) - n /\ length \in Nat \ {0}
  BY SMT

LEMMA SmallerOf ==
    ASSUME NEW limit \in Nat \ {0}, NEW length \in Nat \ {0}
    PROVE  /\ (IF limit < length THEN limit ELSE length) \in Nat \ {0}
           /\ (IF limit < length THEN limit ELSE length) <= length
  BY SMT

\* While a target is unfinished the next batch is not empty, and its chunks are
\* the ones the plan has after the reports.
LEMMA NextBatchFollows ==
    ASSUME NEW m, m.queue \in Seq(Target), m.reports \in Seq(Chunk),
           m.index \in Nat, m.index < Len(m.queue),
           NoDocTwice(m.queue),
           Agrees(m.reports, Plan(m.queue)),
           m.completed = Range(m.reports),
           \A i \in 1 .. m.index : Finished(m, m.queue[i]),
           ~ Finished(m, m.queue[m.index + 1]),
           BatchLimit \in Nat \ {0}
    PROVE  /\ NextBatch(m) \in Seq(Chunk)
           /\ NextBatch(m) # <<>>
           /\ Len(m.reports) + Len(NextBatch(m)) <= Len(Plan(m.queue))
           /\ \A k \in 1 .. Len(NextBatch(m)) :
                 NextBatch(m)[k] = Plan(m.queue)[Len(m.reports) + k]
  <1> DEFINE queue == m.queue
             n == Len(m.reports)
             plan == Plan(m.queue)
             head == Planned(m.queue, 0)[m.index]
             rest == Planned(m.queue, m.index)[Len(m.queue)]
             pending == Pending(rest, m.completed)[Len(rest)]
  <1>1. /\ Len(m.queue) \in Nat /\ n \in Nat
        /\ 0 \in 0 .. Len(m.queue)
        /\ m.index \in 0 .. Len(m.queue)
        /\ Len(m.queue) \in m.index .. Len(m.queue)
        /\ Len(m.queue) \in 0 .. Len(m.queue)
        /\ m.index + 1 \in 1 .. Len(m.queue)
        /\ 0 + 1 = 1
    BY QueueProperties, LenProperties, SMT
  <1>2. plan = head \o rest
    BY <1>1, PlannedSplit DEF Plan
  <1>3. head \in Seq(Chunk) /\ rest \in Seq(Chunk) /\ plan \in Seq(Chunk)
    BY <1>1, PlannedDefined, PlanProperties
  <1>4. Distinct(plan)
    BY <1>1, PlannedDistinct DEF Plan
  <1>5. \A k \in 1 .. Len(plan) : plan[k] \in m.completed <=> k <= n
    BY <1>3, <1>4, ReportedChunks
  <1>6. \A c \in Range(head) : c \in m.completed
    <2> TAKE c \in Range(head)
    <2>1. PICK j \in 0 + 1 .. m.index : c \in ChunksOf(m.queue[j].doc)
      BY <1>1, PlannedRange
    <2>2. j \in 1 .. m.index
      BY <1>1
    <2> QED BY <2>1, <2>2 DEF Finished
  <1>7. PICK c : c \in ChunksOf(m.queue[m.index + 1].doc) /\ c \notin m.completed
    BY DEF Finished
  <1>8. c \in Range(plan)
    BY <1>1, <1>7, PlanProperties
  <1>9. n <= Len(plan)
    BY DEF Agrees
  <1> HIDE DEF plan, head, rest
  <1>10. /\ Len(head) \in Nat /\ Len(rest) \in Nat
         /\ Len(plan) = Len(head) + Len(rest)
         /\ Agrees(head, plan)
         /\ \A k \in 1 .. Len(rest) : plan[Len(head) + k] = rest[k]
    BY <1>2, <1>3, LenProperties, ExtensionAgrees
  <1>11. Len(head) <= n
    <2>1. CASE Len(head) = 0
      BY <1>1, <2>1, SMT
    <2>2. CASE Len(head) # 0
      <3>1. Len(head) \in 1 .. Len(head) /\ Len(head) \in 1 .. Len(plan)
        BY <1>10, <2>2, SMT
      <3>2. plan[Len(head)] = head[Len(head)]
        BY <1>10, <3>1 DEF Agrees
      <3>3. head[Len(head)] \in Range(head)
        <4>1. DOMAIN head = 1 .. Len(head)
          BY <1>3, LenProperties
        <4> QED BY <3>1, <4>1, Zenon DEF Range
      <3> QED BY <1>5, <1>6, <3>1, <3>2, <3>3
    <2> QED BY <2>1, <2>2
  <1>12. n < Len(plan)
    <2>1. PICK k \in 1 .. Len(plan) : c = plan[k]
      <3>1. DOMAIN plan = 1 .. Len(plan)
        BY <1>3, LenProperties
      <3> QED BY <1>8, <3>1, Zenon DEF Range
    <2>2. ~ (k <= n)
      BY <1>5, <1>7, <2>1
    <2> QED BY <1>1, <1>10, <2>1, <2>2, SMT
  <1> DEFINE done == n - Len(head)
  <1>13. done \in 0 .. Len(rest)
    BY <1>1, <1>10, <1>11, <1>12, SMT
  <1>14. \A k \in 1 .. Len(rest) : rest[k] \in m.completed <=> k <= done
    <2> TAKE k \in 1 .. Len(rest)
    <2>1. Len(head) + k \in 1 .. Len(plan)
      BY <1>10, SMT
    <2>2. Len(head) + k <= n <=> k <= done
      BY <1>1, <1>10, SMT
    <2> HIDE DEF done, n
    <2> QED BY <1>5, <1>10, <2>1, <2>2
  <1>15. Len(rest) \in 0 .. Len(rest)
    BY <1>10, SMT
  <1>16. pending \in Seq(Chunk)
    BY <1>3, <1>15, PendingDefined
  <1>17. /\ Len(pending) = IF Len(rest) <= done THEN 0 ELSE Len(rest) - done
         /\ \A k \in 1 .. Len(rest) - done : pending[k] = rest[done + k]
    <2> DEFINE completed == m.completed
    <2>1. CompletedUpto(rest, completed, done)
      BY <1>14 DEF CompletedUpto
    <2> HIDE DEF done, completed
    <2>2. PendingAfter(rest, completed, done)
      BY <1>3, <1>13, <2>1, PendingRest
    <2> QED BY <1>15, <2>2 DEF completed, PendingAfter
  <1> HIDE DEF pending
  <1>18. Len(pending) = Len(plan) - n /\ Len(pending) \in Nat \ {0}
    <2> DEFINE length == Len(pending)
    <2>1. length = IF Len(rest) <= done THEN 0 ELSE Len(rest) - done
      BY <1>17
    <2> HIDE DEF length, n
    <2>2. Len(rest) \in Nat /\ Len(head) \in Nat /\ n \in Nat
      BY <1>1, <1>10
    <2>3. n < Len(head) + Len(rest) /\ Len(head) <= n
      BY <1>10, <1>11, <1>12
    <2>4. length = (Len(head) + Len(rest)) - n /\ length \in Nat \ {0}
      BY <2>1, <2>2, <2>3, RemainingLength DEF done
    <2>5. Len(plan) = Len(head) + Len(rest)
      BY <1>10
    <2> QED BY <2>4, <2>5, Zenon DEF length
  <1>19. \A k \in 1 .. Len(pending) : pending[k] = plan[n + k]
    <2> TAKE k \in 1 .. Len(pending)
    <2>1. /\ k \in 1 .. Len(rest) - done
          /\ done + k \in 1 .. Len(rest)
          /\ Len(head) + (done + k) = n + k
      BY <1>1, <1>10, <1>11, <1>18, SMT
    <2> HIDE DEF done, n
    <2> QED BY <1>10, <1>17, <2>1
  <1> DEFINE size == IF BatchLimit < Len(pending) THEN BatchLimit ELSE Len(pending)
  <1>20. NextBatch(m) = SubSeq(pending, 1, size)
    BY DEF NextBatch, pending, rest
  <1>21. size \in Nat \ {0} /\ size <= Len(pending)
    BY <1>18, SmallerOf
  <1> HIDE DEF size
  <1>22. /\ SubSeq(pending, 1, size) \in Seq(Chunk)
         /\ Len(SubSeq(pending, 1, size)) = IF 1 <= size THEN size - 1 + 1 ELSE 0
         /\ \A k \in 1 .. size - 1 + 1 : SubSeq(pending, 1, size)[k] = pending[1 + k - 1]
    <2>1. \A k \in 1 .. size : k \in 1 .. Len(pending)
      BY <1>18, <1>21, SMT
    <2>2. \A k \in 1 .. size : pending[k] \in Chunk
      BY <1>16, <2>1, ElementOfSeq
    <2>3. 1 \in Int /\ size \in Int
      BY <1>21, SMT
    <2> QED BY <2>2, <2>3, SubSeqProperties
  <1>23. Len(NextBatch(m)) = size
    BY <1>20, <1>21, <1>22, SMT
  <1>24. \A k \in 1 .. size : NextBatch(m)[k] = plan[n + k]
    <2> TAKE k \in 1 .. size
    <2>1. k \in 1 .. size - 1 + 1 /\ 1 + k - 1 = k /\ k \in 1 .. Len(pending)
      BY <1>18, <1>21, SMT
    <2> HIDE DEF n
    <2> QED BY <1>19, <1>20, <1>22, <2>1
  <1>25. NextBatch(m) # <<>>
    BY <1>21, <1>23, EmptySeq
  <1>26. n + size <= Len(plan)
    BY <1>1, <1>10, <1>18, <1>21, SMT
  <1> QED
    BY <1>20, <1>22, <1>23, <1>24, <1>25, <1>26 DEF plan

-----------------------------------------------------------------------------
(***************************************************************************)
(* Stepping over finished targets: orchestrator.py,                        *)
(* advance_completed_targets.                                              *)
(***************************************************************************)
DocsUpto(queue, last) == [k \in 1 .. last |-> queue[k].doc]

LEMMA DocsUptoProperties ==
    ASSUME NEW queue \in Seq(Target), NEW last \in 0 .. Len(queue)
    PROVE  /\ DocsUpto(queue, last) \in Seq(Docs)
           /\ Len(DocsUpto(queue, last)) = last
           /\ \A k \in 1 .. last : DocsUpto(queue, last)[k] = queue[k].doc
           /\ Range(DocsUpto(queue, last)) = {queue[k].doc : k \in 1 .. last}
  <1>1. last \in Nat /\ \A k \in 1 .. last : k \in 1 .. Len(queue)
    BY QueueProperties, SMT
  <1> DEFINE e(k) == queue[k].doc
  <1>2. \A k \in 1 .. last : e(k) \in Docs
    BY <1>1, QueueProperties
  <1>3. [k \in 1 .. last |-> e(k)] \in Seq(Docs)
    <2> HIDE DEF e
    <2> QED BY <1>1, <1>2, IsASeq
  <1>4. Len([k \in 1 .. last |-> e(k)]) = last
    BY <1>1, SMT
  <1>5. Range([k \in 1 .. last |-> e(k)]) = {e(k) : k \in 1 .. last}
    BY Zenon DEF Range
  <1> QED
    BY <1>3, <1>4, <1>5 DEF DocsUpto

LEMMA FiledDefined ==
    ASSUME NEW m, m.queue \in Seq(Target), m.index \in 0 .. Len(m.queue),
           m.reviewed \in Seq(Docs)
    PROVE  /\ Filed(m)[m.index] = m.reviewed
           /\ \A i \in m.index + 1 .. Len(m.queue) :
                 Filed(m)[i] = IF m.queue[i].doc \in Range(Filed(m)[i - 1])
                               THEN Filed(m)[i - 1]
                               ELSE Append(Filed(m)[i - 1], m.queue[i].doc)
  <1> DEFINE first == m.index
             last == Len(m.queue)
             doc(i) == m.queue[i].doc
             base == m.reviewed
             step == [i \in first + 1 .. last |-> [s \in Seq(Docs) |->
                         IF doc(i) \in Range(s) THEN s ELSE Append(s, doc(i))]]
  <1>1. last \in Nat /\ first \in Nat /\ first <= last
    BY QueueProperties, SMT
  <1>2. \A i \in first + 1 .. last : doc(i) \in Docs
    <2>1. \A i \in first + 1 .. last : i \in 1 .. Len(m.queue)
      BY <1>1, SMT
    <2> QED BY <2>1, QueueProperties
  <1>3. step \in [first + 1 .. last -> [Seq(Docs) -> Seq(Docs)]]
    <2> HIDE DEF doc, first, last
    <2>1. \A i \in first + 1 .. last : \A s \in Seq(Docs) : Append(s, doc(i)) \in Seq(Docs)
      BY <1>2, AppendProperties
    <2> QED BY <2>1
  <1>4. base \in Seq(Docs)
    OBVIOUS
  <1> HIDE DEF first, last, doc, base, step
  <1>5. PICK f \in [first .. last -> Seq(Docs)] :
           /\ f[first] = base
           /\ \A i \in first + 1 .. last : f[i] = step[i][f[i - 1]]
    <2>1. Iterates(Seq(Docs), first, last, base, step)
      BY <1>1, <1>3, <1>4, IterationExists
    <2> QED BY <2>1 DEF Iterates
  <1>6. ASSUME NEW i \in first .. last
        PROVE  f[i] = IF i = first THEN base
                      ELSE IF doc(i) \in Range(f[i - 1]) THEN f[i - 1]
                      ELSE Append(f[i - 1], doc(i))
    <2>1. CASE i = first
      BY <1>5, <2>1
    <2>2. CASE i # first
      <3>1. i \in first + 1 .. last /\ i - 1 \in first .. last
        BY <1>1, <2>2, SMT
      <3>2. f[i] = step[i][f[i - 1]] /\ f[i - 1] \in Seq(Docs)
        BY <1>5, <3>1
      <3> QED BY <2>2, <3>1, <3>2 DEF step
    <2> QED BY <2>1, <2>2
  <1>7. f = [i \in first .. last |-> IF i = first THEN base
                                     ELSE IF doc(i) \in Range(f[i - 1]) THEN f[i - 1]
                                     ELSE Append(f[i - 1], doc(i))]
    BY <1>5, <1>6, Zenon
  <1>8. \E g : g = [i \in first .. last |-> IF i = first THEN base
                                     ELSE IF doc(i) \in Range(g[i - 1]) THEN g[i - 1]
                                     ELSE Append(g[i - 1], doc(i))]
    BY <1>7, Zenon
  <1> DEFINE p == Filed(m)
  <1>9. p = [i \in first .. last |-> IF i = first THEN base
                                     ELSE IF doc(i) \in Range(p[i - 1]) THEN p[i - 1]
                                     ELSE Append(p[i - 1], doc(i))]
    BY <1>8, Zenon DEF Filed, first, last, doc, base
  <1> HIDE DEF p
  <1>10. p[first] = base
    <2>1. first \in first .. last
      BY <1>1, SMT
    <2> QED BY <1>9, <2>1, Zenon
  <1>11. ASSUME NEW i \in first + 1 .. last
         PROVE  p[i] = IF doc(i) \in Range(p[i - 1]) THEN p[i - 1] ELSE Append(p[i - 1], doc(i))
    <2>1. i \in first .. last /\ i # first
      BY <1>1, SMT
    <2> QED BY <1>9, <2>1, Zenon
  <1> QED
    BY <1>10, <1>11 DEF p, first, last, doc, base

\* No document is queued twice, so each target that is stepped over is filed.
LEMMA FiledDocs ==
    ASSUME NEW m, m.queue \in Seq(Target), m.index \in 0 .. Len(m.queue),
           NoDocTwice(m.queue), m.reviewed = DocsUpto(m.queue, m.index)
    PROVE  \A i \in m.index .. Len(m.queue) : Filed(m)[i] = DocsUpto(m.queue, i)
  <1> DEFINE first == m.index
             last == Len(m.queue)
             queue == m.queue
             p == Filed(m)
             T == {i \in first .. last : p[i] = DocsUpto(queue, i)}
  <1>1. /\ last \in Nat /\ first \in Nat /\ first <= last
        /\ \A i \in first .. last : i \in 0 .. Len(queue)
    BY QueueProperties, SMT
  <1>2. m.reviewed \in Seq(Docs)
    BY DocsUptoProperties
  <1>3. /\ p[first] = DocsUpto(queue, first)
        /\ \A i \in first + 1 .. last :
              p[i] = IF queue[i].doc \in Range(p[i - 1]) THEN p[i - 1]
                     ELSE Append(p[i - 1], queue[i].doc)
    BY <1>2, FiledDefined
  <1>4. queue \in Seq(Target) /\ NoDocTwice(queue) /\ last = Len(queue)
    OBVIOUS
  <1> HIDE DEF first, last, queue, p
  <1>5. first \in T
    BY <1>1, <1>3, SMT
  <1>6. ASSUME NEW i \in first + 1 .. last, i - 1 \in T
        PROVE  i \in T
    <2>1. /\ i \in first .. last /\ i \in 0 .. Len(queue) /\ i - 1 \in 0 .. Len(queue)
          /\ i \in 1 .. Len(queue)
          /\ i = i - 1 + 1
          /\ \A k \in 1 .. i - 1 : k \in 1 .. Len(queue) /\ k # i
          /\ \A k \in 1 .. i : k \in 1 .. i - 1 \/ k = i
      BY <1>1, <1>4, SMT
    <2>2. p[i - 1] = DocsUpto(queue, i - 1)
      BY <1>6
    <2>3. queue[i].doc \in Docs /\ DOMAIN queue = 1 .. Len(queue)
      BY <1>4, <2>1, QueueProperties
    <2>4. queue[i].doc \notin Range(p[i - 1])
      <3>1. Range(p[i - 1]) = {queue[k].doc : k \in 1 .. i - 1}
        BY <1>4, <2>1, <2>2, DocsUptoProperties
      <3> QED BY <1>4, <2>1, <2>3, <3>1, Zenon DEF NoDocTwice
    <2>5. p[i] = Append(DocsUpto(queue, i - 1), queue[i].doc)
      BY <1>3, <2>2, <2>4
    <2> DEFINE s == DocsUpto(queue, i - 1)
               t == DocsUpto(queue, i)
    <2>6. /\ s \in Seq(Docs) /\ Len(s) = i - 1
          /\ \A k \in 1 .. i - 1 : s[k] = queue[k].doc
          /\ t \in Seq(Docs) /\ Len(t) = i
          /\ \A k \in 1 .. i : t[k] = queue[k].doc
      BY <1>4, <2>1, DocsUptoProperties
    <2> HIDE DEF s, t
    <2>7. /\ Append(s, queue[i].doc) \in Seq(Docs)
          /\ Len(Append(s, queue[i].doc)) = Len(s) + 1
          /\ \A k \in 1 .. Len(s) : Append(s, queue[i].doc)[k] = s[k]
          /\ Append(s, queue[i].doc)[Len(s) + 1] = queue[i].doc
      BY <2>3, <2>6, AppendProperties
    <2>8. Len(Append(s, queue[i].doc)) = Len(t)
      BY <2>1, <2>6, <2>7
    <2>9. \A k \in 1 .. i : Append(s, queue[i].doc)[k] = t[k]
      BY <2>1, <2>6, <2>7
    <2>10. Append(s, queue[i].doc) = t
      BY <2>6, <2>7, <2>8, <2>9, SeqEqual
    <2> QED BY <2>1, <2>5, <2>10 DEF s, t
  <1>7. first .. last \subseteq T
    <2> HIDE DEF T
    <2> QED BY <1>1, <1>5, <1>6, IntervalInduction
  <1> QED
    BY <1>7 DEF first, last, queue, p

-----------------------------------------------------------------------------
(***************************************************************************)
(* The inductive invariant.                                                *)
(***************************************************************************)
\* What a queue never is: too long, too deep, or with one document twice.
Bounded(m) ==
    /\ NoDocTwice(m.queue)
    /\ Len(InitialTargets) <= Len(m.queue)
    /\ AcceptedFollowups(m) <= MaxFollowupFiles
    /\ \A i \in DOMAIN m.queue : m.queue[i].depth <= FollowupDepth

\* What the state of a review says, however far it has come.
Progressing(m) ==
    /\ Bounded(m)
    /\ Agrees(m.reports, Plan(m.queue))
    /\ m.completed = Range(m.reports)
    /\ m.index <= Len(m.queue)
    /\ m.reviewed = DocsUpto(m.queue, m.index)
    /\ \A i \in 1 .. m.index : Finished(m, m.queue[i])

\* The run-state file and what its status says.
Durable ==
    /\ Readable => disk.state = mem
    /\ at # "down" => Readable
    /\ at \in {"advance", "next_batch", "apply", "after_packet", "report"}
          => disk.status = "running"
    /\ at \in {"summary", "complete"} => disk.status = "review_complete"

\* Where an invocation is, relative to the queue.
Placed ==
    /\ at \in {"advance", "next_batch"} => ~ LimitReached
    /\ at = "next_batch" =>
          /\ mem.index < Len(mem.queue)
          /\ ~ Finished(mem, mem.queue[mem.index + 1])
    /\ at \in {"report", "summary", "complete"} => mem.index = Len(mem.queue)

\* The batch holds the chunks that the plan has after the reports.
Batched ==
    /\ Len(mem.reports) + Len(batch) <= Len(Plan(mem.queue))
    /\ \A k \in 1 .. Len(batch) : batch[k] = Plan(mem.queue)[Len(mem.reports) + k]

ReviewInv == TypeOK /\ Progressing(mem) /\ Durable /\ Placed /\ Batched

-----------------------------------------------------------------------------
(***************************************************************************)
(* Steps of the memory.                                                    *)
(***************************************************************************)
LEMMA ProgressFields ==
    ASSUME NEW m \in Progress
    PROVE  /\ m.queue \in Seq(Target)
           /\ m.index \in Nat
           /\ m.completed \in SUBSET Chunk
           /\ m.reports \in Seq(Chunk)
           /\ m.reviewed \in Seq(Docs)
  BY DEF Progress

LEMMA ProgressEqual ==
    ASSUME NEW m \in Progress, NEW n \in Progress,
           m.queue = n.queue, m.index = n.index, m.completed = n.completed,
           m.reports = n.reports, m.reviewed = n.reviewed
    PROVE  m = n
  <1>1. \A r \in Progress : r = [queue |-> r.queue, index |-> r.index,
                                 completed |-> r.completed, reports |-> r.reports,
                                 reviewed |-> r.reviewed]
    BY DEF Progress
  <1> QED
    BY <1>1, Zenon

\* There is a first target that is not finished, or all are.
LEMMA ReachedExists ==
    ASSUME NEW m \in Progress, m.index <= Len(m.queue)
    PROVE  \E r \in m.index .. Len(m.queue) :
              /\ \A k \in m.index + 1 .. r : Finished(m, m.queue[k])
              /\ r < Len(m.queue) => ~ Finished(m, m.queue[r + 1])
  <1> DEFINE first == m.index
             last == Len(m.queue)
             done(k) == Finished(m, m.queue[k])
             T == {i \in first .. last : i = last \/ ~ done(i + 1)}
  <1>1. last \in Nat /\ first \in Nat /\ first <= last
    BY ProgressFields, QueueProperties
  <1> HIDE DEF first, last, done
  <1>2. PICK r \in T : \A i \in T : r <= i
    <2>1. T \subseteq Nat
      BY <1>1, SMT
    <2>2. last \in T
      BY <1>1, SMT
    <2> HIDE DEF T
    <2> QED BY <2>1, <2>2, Least
  <1>3. r \in first .. last /\ (r = last \/ ~ done(r + 1))
    BY <1>2
  <1>4. ASSUME NEW k \in first + 1 .. r
        PROVE  done(k)
    <2>1. k - 1 \in first .. last /\ ~ (r <= k - 1) /\ k - 1 + 1 = k /\ k - 1 # last
      BY <1>1, <1>3, SMT
    <2>2. k - 1 \notin T
      BY <1>2, <2>1
    <2> QED BY <2>1, <2>2
  <1>5. r < last => ~ done(r + 1)
    BY <1>1, <1>3, SMT
  <1> QED
    BY <1>3, <1>4, <1>5 DEF first, last, done

LEMMA AdvanceProgresses ==
    ASSUME NEW m \in Progress, Progressing(m)
    PROVE  /\ Advance(m) \in Progress
           /\ Progressing(Advance(m))
           /\ Advance(m).queue = m.queue
           /\ Advance(m).reports = m.reports
           /\ Advance(m).index < Len(m.queue)
                 => ~ Finished(Advance(m), m.queue[Advance(m).index + 1])
           /\ Advance(m).index \in m.index .. Len(m.queue)
           /\ Advance(m).index = m.index => Advance(m) = m
  <1> DEFINE Reach(i) == /\ \A k \in m.index + 1 .. i : Finished(m, m.queue[k])
                         /\ i < Len(m.queue) => ~ Finished(m, m.queue[i + 1])
             reached == CHOOSE i \in m.index .. Len(m.queue) : Reach(i)
             a == [m EXCEPT !.index = reached, !.reviewed = Filed(m)[reached]]
  <1>1. /\ m.queue \in Seq(Target)
        /\ m.reviewed \in Seq(Docs)
        /\ m.index \in Nat /\ Len(m.queue) \in Nat
        /\ m.index \in 0 .. Len(m.queue)
    BY ProgressFields, QueueProperties, SMT DEF Progressing
  <1>2. \E i \in m.index .. Len(m.queue) : Reach(i)
    BY ReachedExists DEF Progressing
  <1>3. reached \in m.index .. Len(m.queue) /\ Reach(reached)
    <2> HIDE DEF Reach
    <2> QED BY <1>2, Zenon
  <1>4. Advance(m) = a
    BY DEF Advance
  <1> HIDE DEF reached
  <1>5. reached \in Nat /\ reached \in 0 .. Len(m.queue)
    BY <1>1, <1>3, SMT
  <1>6. Filed(m)[reached] = DocsUpto(m.queue, reached)
    BY <1>1, <1>3, FiledDocs DEF Progressing, Bounded
  <1>7. DocsUpto(m.queue, reached) \in Seq(Docs)
    BY <1>1, <1>5, DocsUptoProperties
  <1>8. /\ a \in Progress
        /\ a.queue = m.queue
        /\ a.index = reached
        /\ a.completed = m.completed
        /\ a.reports = m.reports
        /\ a.reviewed = DocsUpto(m.queue, reached)
    BY <1>5, <1>6, <1>7 DEF Progress
  <1> HIDE DEF a
  <1>9. \A t : Finished(a, t) <=> Finished(m, t)
    BY <1>8 DEF Finished
  <1>10. \A i \in 1 .. a.index : Finished(a, a.queue[i])
    <2> SUFFICES ASSUME NEW i \in 1 .. reached PROVE Finished(m, m.queue[i])
      BY <1>8, <1>9
    <2>1. i \in 1 .. m.index \/ i \in m.index + 1 .. reached
      BY <1>1, <1>5, SMT
    <2> QED BY <1>3, <2>1 DEF Progressing
  <1>11. Bounded(a)
    BY <1>8 DEF Progressing, Bounded, AcceptedFollowups
  <1>12. Progressing(a)
    <2>1. a.index <= Len(a.queue)
      BY <1>1, <1>5, <1>8, SMT
    <2> QED BY <1>8, <1>10, <1>11, <2>1 DEF Progressing
  <1>13. a.index < Len(m.queue) => ~ Finished(a, m.queue[a.index + 1])
    BY <1>3, <1>8, <1>9
  <1>14. a.index = m.index => a = m
    <2> SUFFICES ASSUME a.index = m.index PROVE a = m
      OBVIOUS
    <2>1. a.reviewed = m.reviewed
      BY <1>8 DEF Progressing
    <2> QED BY <1>8, <2>1, ProgressEqual
  <1> QED
    BY <1>3, <1>4, <1>8, <1>12, <1>13, <1>14

LEMMA InitialProgressing ==
    /\ InitialProgress \in Progress
    /\ Progressing(InitialProgress)
    /\ Len(InitialProgress.queue) # 0
    /\ InitialProgress.reports = <<>>
  <1> DEFINE n == Len(InitialTargets)
             e(i) == [doc |-> InitialTargets[i], depth |-> 0]
             queue == [i \in 1 .. n |-> e(i)]
  <1>1. /\ InitialTargets \in Seq(Docs) /\ InitialTargets # <<>>
        /\ n \in Nat \ {0}
        /\ DOMAIN InitialTargets = 1 .. n
        /\ \A i \in 1 .. n : InitialTargets[i] \in Docs
    BY ReviewAssumption, LenProperties, EmptySeq, ElementOfSeq
  <1>2. \A i \in 1 .. n : e(i) \in Target /\ e(i).doc = InitialTargets[i] /\ e(i).depth = 0
    BY <1>1 DEF Target
  <1>3. /\ queue \in Seq(Target)
        /\ DOMAIN queue = 1 .. n
        /\ \A i \in 1 .. n : queue[i] = e(i)
    <2> HIDE DEF e
    <2>1. n \in Nat
      BY <1>1
    <2> QED BY <1>2, <2>1, IsASeq
  <1>4. Len(queue) = n
    BY <1>1, SMT
  <1>5. InitialProgress = [queue |-> queue, index |-> 0, completed |-> {},
                           reports |-> <<>>, reviewed |-> <<>>]
    BY <1>1 DEF InitialProgress
  <1> HIDE DEF queue, e, n
  <1>6. /\ InitialProgress.queue = queue /\ InitialProgress.index = 0
        /\ InitialProgress.completed = {} /\ InitialProgress.reports = <<>>
        /\ InitialProgress.reviewed = <<>>
    BY <1>5
  <1>7. <<>> \in Seq(Chunk) /\ <<>> \in Seq(Docs) /\ Len(<<>>) = 0
    BY EmptySeq
  <1>8. InitialProgress \in Progress
    BY <1>3, <1>5, <1>7 DEF Progress
  <1>9. Bounded(InitialProgress)
    <2>1. NoDocTwice(queue)
      BY <1>1, <1>2, <1>3, ReviewAssumption DEF NoDocTwice
    <2>2. \A i \in DOMAIN queue : queue[i].depth <= FollowupDepth
      BY <1>2, <1>3, ReviewAssumption, SMT
    <2>3. n <= n /\ n - n <= MaxFollowupFiles
      BY <1>1, ReviewAssumption, SMT
    <2> QED
      BY <1>4, <1>6, <2>1, <2>2, <2>3 DEF Bounded, AcceptedFollowups, n
  <1>10. Agrees(<<>>, Plan(queue))
    <2>1. Len(Plan(queue)) \in Nat
      BY <1>3, PlanProperties
    <2>2. 0 <= Len(Plan(queue)) /\ 1 .. 0 = {}
      BY <2>1, SMT
    <2> QED BY <1>7, <2>2 DEF Agrees
  <1>11. Range(<<>>) = {}
    BY DEF Range
  <1>12. DocsUpto(queue, 0) = <<>>
    <2>1. 0 \in 0 .. Len(queue)
      BY <1>1, <1>4, SMT
    <2>2. DocsUpto(queue, 0) \in Seq(Docs) /\ Len(DocsUpto(queue, 0)) = 0
      BY <1>3, <2>1, DocsUptoProperties
    <2> QED BY <2>2, EmptySeq
  <1>13. 0 <= n /\ 1 .. 0 = {}
    BY <1>1, SMT
  <1>14. Progressing(InitialProgress)
    BY <1>4, <1>6, <1>9, <1>10, <1>11, <1>12, <1>13 DEF Progressing
  <1> QED
    BY <1>1, <1>4, <1>6, <1>8, <1>14

\* A document of a planned chunk is queued.
LEMMA PlannedIsQueued ==
    ASSUME NEW m \in Progress, NEW k \in 1 .. Len(Plan(m.queue))
    PROVE  /\ Plan(m.queue)[k] \in Chunk
           /\ \E j \in DOMAIN m.queue : m.queue[j].doc = Plan(m.queue)[k][1]
  <1>1. /\ m.queue \in Seq(Target)
        /\ DOMAIN m.queue = 1 .. Len(m.queue)
        /\ Plan(m.queue) \in Seq(Chunk)
    BY ProgressFields, QueueProperties, PlanProperties
  <1>2. Plan(m.queue)[k] \in Range(Plan(m.queue))
    <2>1. DOMAIN Plan(m.queue) = 1 .. Len(Plan(m.queue))
      BY <1>1, LenProperties
    <2> QED BY <2>1, Zenon DEF Range
  <1>3. PICK j \in 1 .. Len(m.queue) : Plan(m.queue)[k] \in ChunksOf(m.queue[j].doc)
    BY <1>1, <1>2, PlanProperties
  <1>4. Plan(m.queue)[k][1] = m.queue[j].doc
    BY <1>3 DEF ChunksOf
  <1> QED
    BY <1>1, <1>3, <1>4, ElementOfSeq

\* Accepted follow-ups keep the queue bounded: orchestrator.py,
\* apply_chunk_review_outcome.
LEMMA EnqueuedBounded ==
    ASSUME NEW m \in Progress, Bounded(m), m.reviewed = DocsUpto(m.queue, m.index),
           NEW source, \E j \in DOMAIN m.queue : m.queue[j].doc = source,
           NEW f \in AcceptableFollowups(m, source)
    PROVE  /\ Enqueued(m, source, f) \in Seq(Target)
           /\ Len(m.queue) <= Len(Enqueued(m, source, f))
           /\ \A i \in 1 .. Len(m.queue) : Enqueued(m, source, f)[i] = m.queue[i]
           /\ NoDocTwice(Enqueued(m, source, f))
           /\ Len(InitialTargets) <= Len(Enqueued(m, source, f))
           /\ Len(Enqueued(m, source, f)) - Len(InitialTargets) <= MaxFollowupFiles
           /\ \A i \in DOMAIN Enqueued(m, source, f) :
                 Enqueued(m, source, f)[i].depth <= FollowupDepth
  <1> DEFINE room == MaxFollowupFiles - AcceptedFollowups(m)
             n == Len(f)
             e(i) == [doc |-> f[i], depth |-> DepthOf(m, source) + 1]
             more == [i \in 1 .. n |-> e(i)]
             queue == m.queue
             q == Enqueued(m, source, f)
  <1>1. /\ queue \in Seq(Target)
        /\ Len(queue) \in Nat
        /\ DOMAIN queue = 1 .. Len(queue)
        /\ Len(InitialTargets) \in Nat
        /\ MaxFollowupFiles \in Nat /\ FollowupDepth \in Nat
        /\ Len(InitialTargets) <= Len(queue)
        /\ Len(queue) - Len(InitialTargets) <= MaxFollowupFiles
    <2>1. InitialTargets \in Seq(Docs)
      BY ReviewAssumption
    <2> QED
      BY <2>1, ProgressFields, QueueProperties, LenProperties, ReviewAssumption
      DEF Bounded, AcceptedFollowups
  <1>2. room = MaxFollowupFiles - (Len(queue) - Len(InitialTargets)) /\ room \in Nat
    <2>1. room = MaxFollowupFiles - (Len(queue) - Len(InitialTargets))
      BY DEF AcceptedFollowups
    <2> HIDE DEF room
    <2> QED BY <1>1, <2>1, SMT
  <1>3. /\ n \in 0 .. room
        /\ DOMAIN f = 1 .. n
        /\ \A i \in 1 .. n : f[i] \in Docs \ QueuedFiles(m)
        /\ \A i, j \in 1 .. n : f[i] = f[j] => i = j
        /\ f # <<>> => DepthOf(m, source) < FollowupDepth
    <2> DEFINE unseen == Docs \ (QueuedFiles(m) \cup Range(m.reviewed))
    <2>1. /\ f \in {<<>>} \cup UNION {[1 .. k -> unseen] : k \in 1 .. room}
          /\ IsInjective(f)
          /\ f # <<>> => DepthOf(m, source) < FollowupDepth
      BY DEF AcceptableFollowups
    <2> HIDE DEF unseen, room
    <2>2. CASE f = <<>>
      <3>1. Len(f) = 0 /\ DOMAIN f = 1 .. 0 /\ 1 .. 0 = {} /\ 0 \in 0 .. room
        BY <1>2, <2>2, SMT
      <3> QED BY <2>2, <3>1
    <2>3. CASE f # <<>>
      <3>1. PICK k \in 1 .. room : f \in [1 .. k -> unseen]
        BY <2>1, <2>3
      <3>2. DOMAIN f = 1 .. k /\ k \in Nat /\ k \in 0 .. room
        BY <1>2, <3>1, SMT
      <3>3. f = [i \in 1 .. k |-> f[i]]
        BY <3>1
      <3>4. Len(f) = k
        BY <3>2, <3>3, SMT
      <3>5. \A i \in 1 .. k : f[i] \in Docs \ QueuedFiles(m)
        BY <3>1 DEF unseen
      <3> QED BY <2>1, <3>2, <3>4, <3>5 DEF IsInjective
    <2> QED BY <2>2, <2>3
  <1>4. PICK d \in DOMAIN queue : queue[d].doc = source /\ DepthOf(m, source) = queue[d].depth
    BY DEF DepthOf
  <1>5. DepthOf(m, source) \in Nat
    BY <1>1, <1>4, QueueProperties
  <1>6. \A i \in 1 .. n : /\ e(i) \in Target
                          /\ e(i).doc = f[i]
                          /\ e(i).depth = DepthOf(m, source) + 1
    BY <1>3, <1>5 DEF Target
  <1>7. n \in Nat
    BY <1>2, <1>3, SMT
  <1>8. q = queue \o more
    BY <1>3 DEF Enqueued
  <1> HIDE DEF n, e, room
  <1>9. /\ more \in Seq(Target)
        /\ \A i \in 1 .. n : more[i] = e(i)
    BY <1>6, <1>7, IsASeq
  <1>10. Len(more) = n
    BY <1>7, SMT
  <1> HIDE DEF more, q, queue
  <1>11. /\ q \in Seq(Target)
         /\ Len(q) = Len(queue) + n
         /\ \A i \in 1 .. Len(queue) + n :
               q[i] = IF i <= Len(queue) THEN queue[i] ELSE more[i - Len(queue)]
    BY <1>1, <1>8, <1>9, <1>10, ConcatProperties
  <1>12. /\ DOMAIN q = 1 .. Len(queue) + n
         /\ \A i \in 1 .. Len(queue) : i \in 1 .. Len(queue) + n /\ i <= Len(queue)
         /\ \A i \in 1 .. Len(queue) + n :
               \/ i \in 1 .. Len(queue)
               \/ i - Len(queue) \in 1 .. n /\ ~ (i <= Len(queue)) /\ i = i - Len(queue) + Len(queue)
    BY <1>1, <1>7, <1>11, LenProperties, SMT
  <1>13. \A i \in 1 .. Len(queue) : q[i] = queue[i]
    BY <1>11, <1>12
  <1>14. \A i \in 1 .. Len(queue) + n :
            \/ i \in 1 .. Len(queue) /\ q[i] = queue[i]
            \/ i - Len(queue) \in 1 .. n /\ q[i] = e(i - Len(queue))
    BY <1>9, <1>11, <1>12
  <1>15. NoDocTwice(q)
    <2> SUFFICES ASSUME NEW i \in 1 .. Len(queue) + n, NEW j \in 1 .. Len(queue) + n,
                        q[i].doc = q[j].doc
                 PROVE  i = j
      BY <1>12 DEF NoDocTwice
    <2>1. \A k \in 1 .. n : \A l \in 1 .. Len(queue) : e(k).doc # queue[l].doc
      BY <1>1, <1>3, <1>6 DEF QueuedFiles, queue
    <2>2. CASE i \in 1 .. Len(queue) /\ j \in 1 .. Len(queue)
      BY <1>1, <1>13, <2>2 DEF Bounded, NoDocTwice, queue
    <2>3. CASE i \in 1 .. Len(queue) /\ j \notin 1 .. Len(queue)
      BY <1>13, <1>14, <2>1, <2>3
    <2>4. CASE i \notin 1 .. Len(queue) /\ j \in 1 .. Len(queue)
      BY <1>13, <1>14, <2>1, <2>4
    <2>5. CASE i \notin 1 .. Len(queue) /\ j \notin 1 .. Len(queue)
      <3>1. i - Len(queue) \in 1 .. n /\ j - Len(queue) \in 1 .. n
        BY <1>14, <2>5
      <3>2. f[i - Len(queue)] = f[j - Len(queue)]
        BY <1>6, <1>14, <2>5, <3>1
      <3>3. i - Len(queue) = j - Len(queue)
        BY <1>3, <3>1, <3>2
      <3> QED BY <1>1, <1>12, <3>3
    <2> QED BY <2>2, <2>3, <2>4, <2>5
  <1>16. ASSUME NEW i \in 1 .. Len(queue) + n
         PROVE  q[i].depth <= FollowupDepth
    <2>1. CASE i \in 1 .. Len(queue)
      BY <1>1, <1>13, <2>1 DEF Bounded, queue
    <2>2. CASE i \notin 1 .. Len(queue)
      <3>1. i - Len(queue) \in 1 .. n /\ q[i].depth = DepthOf(m, source) + 1
        BY <1>6, <1>14, <2>2
      <3>2. f # <<>>
        <4>1. n # 0
          BY <1>7, <3>1, SMT
        <4> QED BY <4>1, EmptySeq DEF n
      <3>3. DepthOf(m, source) < FollowupDepth
        BY <1>3, <3>2
      <3> QED BY <1>1, <1>5, <3>1, <3>3, SMT
    <2> QED BY <2>1, <2>2
  <1>17. /\ Len(queue) <= Len(q)
         /\ Len(InitialTargets) <= Len(q)
         /\ Len(q) - Len(InitialTargets) <= MaxFollowupFiles
    BY <1>1, <1>2, <1>3, <1>7, <1>11, SMT
  <1> QED
    BY <1>11, <1>12, <1>13, <1>15, <1>16, <1>17 DEF q, queue

Recorded(m, chunk, f) ==
    [m EXCEPT !.queue = Enqueued(m, chunk[1], f),
              !.reports = Append(@, chunk),
              !.completed = @ \cup {chunk}]

\* The next planned chunk is reported and its follow-ups are queued.
LEMMA RecordedProgresses ==
    ASSUME NEW m \in Progress, Progressing(m),
           NEW chunk,
           Len(m.reports) < Len(Plan(m.queue)),
           chunk = Plan(m.queue)[Len(m.reports) + 1],
           NEW f \in AcceptableFollowups(m, chunk[1])
    PROVE  /\ Recorded(m, chunk, f) \in Progress
           /\ Progressing(Recorded(m, chunk, f))
           /\ Recorded(m, chunk, f).queue = Enqueued(m, chunk[1], f)
           /\ Recorded(m, chunk, f).reports = Append(m.reports, chunk)
           /\ Len(Append(m.reports, chunk)) = Len(m.reports) + 1
           /\ Agrees(Plan(m.queue), Plan(Recorded(m, chunk, f).queue))
  <1> DEFINE n == Len(m.reports)
             q == Enqueued(m, chunk[1], f)
             reports == Append(m.reports, chunk)
             r == Recorded(m, chunk, f)
  <1>1. /\ m.queue \in Seq(Target) /\ Len(m.queue) \in Nat /\ DOMAIN m.queue = 1 .. Len(m.queue)
        /\ m.reports \in Seq(Chunk) /\ n \in Nat
        /\ m.completed \in SUBSET Chunk
        /\ m.index \in Nat
        /\ Plan(m.queue) \in Seq(Chunk) /\ Len(Plan(m.queue)) \in Nat
    BY ProgressFields, QueueProperties, LenProperties, PlanProperties
  <1>2. n + 1 \in 1 .. Len(Plan(m.queue))
    BY <1>1, SMT
  <1>3. /\ chunk \in Chunk
        /\ \E j \in DOMAIN m.queue : m.queue[j].doc = chunk[1]
    BY <1>2, PlannedIsQueued
  <1>4. /\ q \in Seq(Target)
        /\ Len(m.queue) <= Len(q)
        /\ \A i \in 1 .. Len(m.queue) : q[i] = m.queue[i]
        /\ NoDocTwice(q)
        /\ Len(InitialTargets) <= Len(q)
        /\ Len(q) - Len(InitialTargets) <= MaxFollowupFiles
        /\ \A i \in DOMAIN q : q[i].depth <= FollowupDepth
    BY <1>3, EnqueuedBounded DEF Progressing
  <1>5. /\ reports \in Seq(Chunk)
        /\ Len(reports) = n + 1
        /\ \A i \in 1 .. n : reports[i] = m.reports[i]
        /\ reports[n + 1] = chunk
    BY <1>1, <1>3, AppendProperties
  <1>6. Range(reports) = Range(m.reports) \cup {chunk}
    <2>1. DOMAIN reports = 1 .. n + 1 /\ DOMAIN m.reports = 1 .. n
      BY <1>1, <1>5, LenProperties
    <2>2. /\ \A i \in 1 .. n : i \in 1 .. n + 1
          /\ \A i \in 1 .. n + 1 : i \in 1 .. n \/ i = n + 1
          /\ n + 1 \in 1 .. n + 1
      BY <1>1, SMT
    <2> HIDE DEF reports, n
    <2>3. Range(reports) = {reports[i] : i \in 1 .. n + 1}
      BY <2>1, Zenon DEF Range
    <2>4. Range(m.reports) = {m.reports[i] : i \in 1 .. n}
      BY <2>1, Zenon DEF Range
    <2> QED BY <1>5, <2>2, <2>3, <2>4
  <1>7. Agrees(Plan(m.queue), Plan(q))
    <2> HIDE DEF q
    <2> QED BY <1>1, <1>4, PlanGrows
  <1> HIDE DEF q, reports
  <1>8. Agrees(reports, Plan(q))
    <2>1. Len(Plan(q)) \in Nat
      BY <1>4, PlanProperties
    <2>2. /\ Len(Plan(m.queue)) <= Len(Plan(q))
          /\ \A k \in 1 .. Len(Plan(m.queue)) : Plan(q)[k] = Plan(m.queue)[k]
      BY <1>7 DEF Agrees
    <2>3. \A k \in 1 .. n : m.reports[k] = Plan(m.queue)[k]
      BY DEF Progressing, Agrees
    <2>4. \A k \in 1 .. n + 1 : k \in 1 .. Len(Plan(m.queue)) /\ (k \in 1 .. n \/ k = n + 1)
      BY <1>1, <1>2, SMT
    <2>5. Len(reports) <= Len(Plan(q))
      BY <1>1, <1>2, <1>5, <2>1, <2>2, SMT
    <2>6. \A k \in 1 .. n + 1 : reports[k] = Plan(q)[k]
      BY <1>5, <2>2, <2>3, <2>4
    <2> QED BY <1>5, <2>5, <2>6 DEF Agrees
  <1>9. /\ r \in Progress
        /\ r.queue = q
        /\ r.reports = reports
        /\ r.completed = m.completed \cup {chunk}
        /\ r.index = m.index
        /\ r.reviewed = m.reviewed
    BY <1>1, <1>3, <1>4, <1>5 DEF Progress, Recorded, q, reports
  <1> HIDE DEF r
  <1>10. Bounded(r)
    BY <1>4, <1>9 DEF Bounded, AcceptedFollowups
  <1>11. \A i \in 1 .. m.index : i \in 1 .. Len(m.queue)
    BY <1>1, SMT DEF Progressing
  <1>12. r.reviewed = DocsUpto(q, r.index)
    <2>1. \A i \in 1 .. m.index : q[i].doc = m.queue[i].doc
      BY <1>4, <1>11
    <2>2. DocsUpto(q, m.index) = DocsUpto(m.queue, m.index)
      BY <2>1, Zenon DEF DocsUpto
    <2> QED BY <1>9, <2>2 DEF Progressing
  <1>13. \A i \in 1 .. r.index : Finished(r, r.queue[i])
    <2> SUFFICES ASSUME NEW i \in 1 .. m.index PROVE Finished(r, q[i])
      BY <1>9
    <2>1. Finished(m, m.queue[i]) /\ q[i] = m.queue[i]
      BY <1>4, <1>11 DEF Progressing
    <2> QED BY <1>9, <2>1 DEF Finished
  <1>14. r.index <= Len(r.queue)
    <2>1. Len(q) \in Nat
      BY <1>4, QueueProperties
    <2> QED BY <1>1, <1>4, <1>9, <2>1, SMT DEF Progressing
  <1>15. r.completed = Range(r.reports)
    BY <1>6, <1>9 DEF Progressing
  <1>16. Progressing(r)
    BY <1>8, <1>9, <1>10, <1>12, <1>13, <1>14, <1>15 DEF Progressing
  <1> QED
    BY <1>5, <1>7, <1>9, <1>16 DEF r, q, reports

-----------------------------------------------------------------------------
(***************************************************************************)
(* Each step keeps the invariant.                                          *)
(***************************************************************************)
LEMMA InitReviewInv == Init => ReviewInv
  <1> SUFFICES ASSUME Init PROVE ReviewInv
    OBVIOUS
  <1>1. /\ mem = InitialProgress
        /\ mem \in Progress
        /\ Progressing(mem)
        /\ mem.reports = <<>>
    BY InitialProgressing DEF Init
  <1>2. batch = <<>> /\ batch \in Seq(Chunk) /\ Len(<<>>) = 0 /\ at = "down" /\ ~ Readable
    BY EmptySeq DEF Init, Readable
  <1>3. TypeOK
    BY <1>1, <1>2 DEF Init, TypeOK, ControlPoints
  <1>4. Durable /\ Placed
    BY <1>2 DEF Durable, Placed
  <1>5. Batched
    <2>1. Len(Plan(mem.queue)) \in Nat
      BY <1>1, ProgressFields, PlanProperties
    <2>2. 0 + 0 <= Len(Plan(mem.queue)) /\ 1 .. 0 = {}
      BY <2>1, SMT
    <2> QED BY <1>1, <1>2, <2>2 DEF Batched
  <1> QED
    BY <1>1, <1>3, <1>4, <1>5 DEF ReviewInv

\* Nothing is left to apply: the batch is empty.
LEMMA EmptyBatch ==
    ASSUME NEW m \in Progress, Progressing(m)
    PROVE  /\ <<>> \in Seq(Chunk)
           /\ Len(m.reports) + Len(<<>>) <= Len(Plan(m.queue))
           /\ \A k \in 1 .. Len(<<>>) : FALSE
  <1>1. /\ Len(m.reports) \in Nat
        /\ Len(Plan(m.queue)) \in Nat
        /\ Len(m.reports) <= Len(Plan(m.queue))
    BY ProgressFields, LenProperties, PlanProperties DEF Progressing, Agrees
  <1>2. <<>> \in Seq(Chunk) /\ Len(<<>>) = 0
    BY EmptySeq
  <1>3. Len(m.reports) + 0 <= Len(Plan(m.queue)) /\ 1 .. 0 = {}
    BY <1>1, SMT
  <1> QED
    BY <1>2, <1>3

\* What is on the disk is a state, and has the status it is written with.
LEMMA PersistedState ==
    ASSUME NEW status \in RunStatuses, NEW m \in Progress, PersistState(status, m)
    PROVE  /\ disk' \in RunState
           /\ disk'.status = status
           /\ disk'.state = m
           /\ Readable'
  <1>1. disk' = [status |-> status, state |-> m]
    BY DEF PersistState
  <1>2. disk' \in RunState /\ disk'.status = status /\ disk'.state = m
    BY <1>1 DEF RunState
  <1> QED
    BY <1>2, StateAssumption DEF Readable

LEMMA BeginKeeps ==
    ASSUME ReviewInv, NEW m \in Progress, Progressing(m), Begin(m)
    PROVE  ReviewInv'
  <1>1. /\ at' = "advance" /\ mem' = m /\ newly' = 0 /\ batch' = <<>>
        /\ parallelism' \in Parallelisms /\ stopAfter' \in StopAfters /\ stop' = FALSE
        /\ PersistState("running", m)
    BY DEF Begin
  <1>2. "running" \in RunStatuses
    BY DEF RunStatuses, RESUMABLE_RUN_STATUSES
  <1>3. disk' \in RunState /\ disk'.status = "running" /\ disk'.state = m /\ Readable'
    BY <1>1, <1>2, PersistedState
  <1>4. TypeOK'
    BY <1>1, <1>3, EmptyBatch DEF TypeOK, ControlPoints
  <1>5. Durable'
    BY <1>1, <1>3 DEF Durable
  <1>6. ~ LimitReached'
    BY <1>1, ReviewAssumption, SMT DEF LimitReached
  <1>7. Placed'
    BY <1>1, <1>6 DEF Placed
  <1>8. Batched'
    BY <1>1, EmptyBatch DEF Batched
  <1> QED
    BY <1>1, <1>4, <1>5, <1>7, <1>8 DEF ReviewInv

LEMMA StartKeeps ==
    ASSUME ReviewInv, Start
    PROVE  ReviewInv'
  BY InitialProgressing, BeginKeeps DEF Start

LEMMA ResumeKeeps ==
    ASSUME ReviewInv, Resume
    PROVE  ReviewInv'
  <1>1. disk.state = mem /\ Begin(disk.state)
    BY DEF Resume, ReviewInv, Durable, Readable
  <1>2. mem \in Progress /\ Progressing(mem)
    BY DEF ReviewInv, TypeOK
  <1> QED
    BY <1>1, <1>2, BeginKeeps

LEMMA AdvanceTargetsKeeps ==
    ASSUME ReviewInv, AdvanceTargets
    PROVE  ReviewInv'
  <1>1. /\ mem \in Progress /\ Progressing(mem)
        /\ at = "advance"
        /\ Readable /\ disk.state = mem /\ disk.status = "running" /\ disk \in RunState
        /\ ~ LimitReached
    BY DEF ReviewInv, TypeOK, AdvanceTargets, Durable, Placed, Readable
  <1>2. /\ mem' = Advance(mem)
        /\ at' = IF mem'.index = Len(mem'.queue) THEN "report" ELSE "next_batch"
        /\ IF mem'.index > mem.index THEN PersistState("running", mem') ELSE disk' = disk
        /\ newly' = newly /\ parallelism' = parallelism /\ stopAfter' = stopAfter
        /\ batch' = batch /\ stop' = stop
    BY DEF AdvanceTargets
  <1>3. /\ mem' \in Progress
        /\ Progressing(mem')
        /\ mem'.queue = mem.queue
        /\ mem'.reports = mem.reports
        /\ mem'.index < Len(mem.queue) => ~ Finished(mem', mem.queue[mem'.index + 1])
        /\ mem'.index \in mem.index .. Len(mem.queue)
        /\ mem'.index = mem.index => mem' = mem
    BY <1>1, <1>2, AdvanceProgresses
  <1>4. mem.index \in Nat /\ Len(mem.queue) \in Nat
    BY <1>1, ProgressFields, QueueProperties
  <1>5. disk' \in RunState /\ disk'.status = "running" /\ disk'.state = mem' /\ Readable'
    <2>1. CASE mem'.index > mem.index
      <3>1. "running" \in RunStatuses
        BY DEF RunStatuses, RESUMABLE_RUN_STATUSES
      <3> QED BY <1>2, <1>3, <2>1, <3>1, PersistedState
    <2>2. CASE ~ (mem'.index > mem.index)
      <3>1. mem'.index = mem.index
        BY <1>3, <1>4, <2>2, SMT
      <3> QED BY <1>1, <1>2, <1>3, <2>2, <3>1 DEF Readable
    <2> QED BY <2>1, <2>2
  <1>6. at' \in {"report", "next_batch"}
    BY <1>2
  <1>7. TypeOK'
    BY <1>2, <1>3, <1>5, <1>6 DEF ReviewInv, TypeOK, ControlPoints
  <1>8. Durable'
    BY <1>5, <1>6 DEF Durable
  <1>9. Placed'
    <2>1. ~ LimitReached'
      BY <1>1, <1>2 DEF LimitReached
    <2>2. CASE mem'.index = Len(mem.queue)
      BY <1>2, <1>3, <2>2 DEF Placed
    <2>3. CASE mem'.index # Len(mem.queue)
      <3>1. mem'.index < Len(mem.queue)
        BY <1>3, <1>4, <2>3, SMT
      <3>2. at' = "next_batch"
        BY <1>2, <1>3, <2>3
      <3> QED BY <1>3, <2>1, <3>1, <3>2 DEF Placed
    <2> QED BY <2>2, <2>3
  <1>10. Batched'
    BY <1>2, <1>3 DEF ReviewInv, Batched
  <1> QED
    BY <1>3, <1>7, <1>8, <1>9, <1>10 DEF ReviewInv

LEMMA PositiveLimit ==
    ASSUME TypeOK, ~ LimitReached
    PROVE  BatchLimit \in Nat \ {0}
  <1>1. /\ parallelism \in Nat \ {0}
        /\ stopAfter \in Nat \ {0} \/ stopAfter = NoLimit
        /\ newly \in Nat
        /\ stopAfter = NoLimit \/ ~ (newly >= stopAfter)
    BY ReviewAssumption DEF TypeOK, LimitReached
  <1>2. CASE stopAfter = NoLimit
    BY <1>1, <1>2 DEF BatchLimit
  <1>3. CASE stopAfter # NoLimit
    <2>1. stopAfter \in Nat /\ stopAfter - newly \in Nat \ {0}
      BY <1>1, <1>3, SMT
    <2> QED BY <1>1, <2>1 DEF BatchLimit
  <1> QED BY <1>2, <1>3

LEMMA ReviewBatchKeeps ==
    ASSUME ReviewInv, ReviewBatch
    PROVE  ReviewInv' /\ batch' # <<>>
  <1>1. /\ mem \in Progress /\ Progressing(mem)
        /\ at = "next_batch"
        /\ mem.index < Len(mem.queue)
        /\ ~ Finished(mem, mem.queue[mem.index + 1])
        /\ ~ LimitReached
    BY DEF ReviewInv, TypeOK, ReviewBatch, Placed
  <1>2. /\ batch' = NextBatch(mem)
        /\ at' = IF batch' = <<>> THEN "down" ELSE "apply"
        /\ mem' = mem /\ newly' = newly /\ parallelism' = parallelism
        /\ stopAfter' = stopAfter /\ stop' = stop /\ disk' = disk
    BY DEF ReviewBatch
  <1>3. BatchLimit \in Nat \ {0}
    BY <1>1, PositiveLimit DEF ReviewInv
  <1>4. /\ batch' \in Seq(Chunk)
        /\ batch' # <<>>
        /\ Len(mem.reports) + Len(batch') <= Len(Plan(mem.queue))
        /\ \A k \in 1 .. Len(batch') : batch'[k] = Plan(mem.queue)[Len(mem.reports) + k]
    <2>1. mem.queue \in Seq(Target) /\ mem.reports \in Seq(Chunk) /\ mem.index \in Nat
      BY <1>1, ProgressFields
    <2>2. /\ NoDocTwice(mem.queue)
          /\ Agrees(mem.reports, Plan(mem.queue))
          /\ mem.completed = Range(mem.reports)
          /\ \A i \in 1 .. mem.index : Finished(mem, mem.queue[i])
      BY <1>1 DEF Progressing, Bounded
    <2> QED BY <1>1, <1>2, <1>3, <2>1, <2>2, NextBatchFollows
  <1>5. at' = "apply"
    BY <1>2, <1>4
  <1>6. TypeOK'
    BY <1>2, <1>4, <1>5 DEF ReviewInv, TypeOK, ControlPoints
  <1>7. Durable'
    BY <1>1, <1>2, <1>5 DEF ReviewInv, Durable, Readable
  <1>8. Placed' /\ Batched'
    BY <1>2, <1>4, <1>5 DEF Placed, Batched
  <1> QED
    BY <1>1, <1>2, <1>4, <1>6, <1>7, <1>8 DEF ReviewInv

LEMMA ApplyOutcomeKeeps ==
    ASSUME ReviewInv, ApplyOutcome
    PROVE  ReviewInv'
  <1>1. /\ mem \in Progress /\ Progressing(mem)
        /\ at = "apply"
        /\ batch # <<>> /\ batch \in Seq(Chunk)
        /\ Batched
    BY DEF ReviewInv, TypeOK, ApplyOutcome
  <1>2. PICK f \in AcceptableFollowups(mem, Head(batch)[1]) :
           mem' = Advance(Recorded(mem, Head(batch), f))
    BY DEF ApplyOutcome, Recorded
  <1>3. /\ newly' = newly + 1
        /\ batch' = Tail(batch)
        /\ PersistState("running", mem')
        /\ at' = "after_packet"
        /\ parallelism' = parallelism /\ stopAfter' = stopAfter /\ stop' = stop
    BY DEF ApplyOutcome
  <1> DEFINE n == Len(mem.reports)
             plan == Plan(mem.queue)
             r == Recorded(mem, Head(batch), f)
  <1>4. /\ Len(batch) \in Nat \ {0}
        /\ Tail(batch) \in Seq(Chunk)
        /\ Len(Tail(batch)) = Len(batch) - 1
        /\ \A i \in 1 .. Len(Tail(batch)) : Tail(batch)[i] = batch[i + 1]
        /\ Head(batch) = batch[1]
    BY <1>1, EmptySeq, HeadTailProperties
  <1>5. /\ n \in Nat /\ Len(plan) \in Nat
        /\ n + Len(batch) <= Len(plan)
        /\ \A k \in 1 .. Len(batch) : batch[k] = plan[n + k]
    BY <1>1, ProgressFields, LenProperties, PlanProperties DEF Batched
  <1>6. n < Len(plan) /\ Head(batch) = plan[n + 1]
    <2>1. 1 \in 1 .. Len(batch) /\ n < Len(plan)
      BY <1>4, <1>5, SMT
    <2> QED BY <1>4, <1>5, <2>1
  <1>7. /\ r \in Progress
        /\ Progressing(r)
        /\ Len(r.reports) = n + 1
        /\ Agrees(plan, Plan(r.queue))
    BY <1>1, <1>6, RecordedProgresses
  <1> HIDE DEF r
  <1>8. /\ mem' \in Progress
        /\ Progressing(mem')
        /\ mem'.queue = r.queue
        /\ mem'.reports = r.reports
    BY <1>2, <1>7, AdvanceProgresses DEF r
  <1>9. disk' \in RunState /\ disk'.status = "running" /\ disk'.state = mem' /\ Readable'
    <2>1. "running" \in RunStatuses
      BY DEF RunStatuses, RESUMABLE_RUN_STATUSES
    <2> QED BY <1>3, <1>8, <2>1, PersistedState
  <1>10. TypeOK'
    <2>1. newly' \in Nat
      BY <1>3 DEF ReviewInv, TypeOK
    <2> QED BY <1>3, <1>4, <1>8, <1>9, <2>1 DEF ReviewInv, TypeOK, ControlPoints
  <1>11. Durable' /\ Placed'
    BY <1>3, <1>9 DEF Durable, Placed
  <1>12. Batched'
    <2> HIDE DEF n, plan
    <2>1. /\ Len(plan) <= Len(Plan(r.queue))
          /\ \A k \in 1 .. Len(plan) : plan[k] = Plan(r.queue)[k]
      BY <1>7 DEF Agrees
    <2>2. Len(Plan(r.queue)) \in Nat
      BY <1>7, ProgressFields, PlanProperties
    <2>3. Len(mem'.reports) + Len(batch') <= Len(Plan(mem'.queue))
      <3>1. n + 1 + (Len(batch) - 1) <= Len(Plan(r.queue))
        BY <1>4, <1>5, <2>1, <2>2, SMT
      <3> QED BY <1>3, <1>4, <1>7, <1>8, <3>1
    <2>4. ASSUME NEW k \in 1 .. Len(batch')
          PROVE  batch'[k] = Plan(mem'.queue)[Len(mem'.reports) + k]
      <3>1. /\ k \in 1 .. Len(Tail(batch))
            /\ k + 1 \in 1 .. Len(batch)
            /\ n + (k + 1) \in 1 .. Len(plan)
            /\ n + (k + 1) = n + 1 + k
        BY <1>3, <1>4, <1>5, SMT
      <3>2. batch'[k] = batch[k + 1] /\ batch[k + 1] = plan[n + (k + 1)]
        BY <1>3, <1>4, <1>5, <3>1
      <3>3. plan[n + (k + 1)] = Plan(r.queue)[n + 1 + k]
        BY <2>1, <3>1
      <3> QED BY <1>7, <1>8, <3>2, <3>3
    <2> QED BY <2>3, <2>4 DEF Batched
  <1> QED
    BY <1>8, <1>10, <1>11, <1>12 DEF ReviewInv

\* An invocation that ends leaves the file as it was, torn, or with its state.
LEMMA LeaveKeeps ==
    ASSUME ReviewInv, Leave, UNCHANGED <<mem, newly, parallelism, stopAfter, stop>>,
           \/ disk' = disk
           \/ disk' = Torn
           \/ \E status \in RunStatuses : PersistState(status, mem)
    PROVE  ReviewInv'
  <1>1. /\ at' = "down" /\ batch' = <<>>
        /\ mem' = mem /\ newly' = newly /\ parallelism' = parallelism
        /\ stopAfter' = stopAfter /\ stop' = stop
        /\ mem \in Progress /\ Progressing(mem)
    BY DEF Leave, ReviewInv, TypeOK
  <1>2. /\ disk' \in RunState \cup {NoState, Torn}
        /\ Readable' => disk'.state = mem
    <2>1. CASE disk' = disk
      BY <2>1 DEF ReviewInv, TypeOK, Durable, Readable
    <2>2. CASE disk' = Torn
      BY <2>2 DEF Readable
    <2>3. CASE \E status \in RunStatuses : PersistState(status, mem)
      BY <1>1, <2>3, PersistedState
    <2> QED BY <2>1, <2>2, <2>3
  <1>3. TypeOK'
    BY <1>1, <1>2, EmptyBatch DEF ReviewInv, TypeOK, ControlPoints
  <1>4. Durable' /\ Placed'
    BY <1>1, <1>2 DEF Durable, Placed
  <1>5. Batched'
    BY <1>1, EmptyBatch DEF Batched
  <1> QED
    BY <1>1, <1>3, <1>4, <1>5 DEF ReviewInv

LEMMA EndKeeps ==
    ASSUME ReviewInv,
           \/ CancelRequested \/ PacketFails \/ PauseAfterChunks
           \/ SummaryFails \/ MarkCompleted \/ Crash \/ CrashInWrite
    PROVE  ReviewInv'
  <1>1. {"canceled", "failed", "paused", "completed"} \subseteq RunStatuses
    BY DEF RunStatuses, RESUMABLE_RUN_STATUSES
  <1>2. at # "down" => disk.state = mem
    BY DEF ReviewInv, Durable
  <1>3. CASE CancelRequested
    BY <1>1, <1>3, LeaveKeeps DEF CancelRequested
  <1>4. CASE PacketFails
    BY <1>1, <1>4, LeaveKeeps DEF PacketFails
  <1>5. CASE PauseAfterChunks
    BY <1>1, <1>5, LeaveKeeps DEF PauseAfterChunks
  <1>6. CASE SummaryFails
    <2>1. PersistState("failed", mem)
      BY <1>2, <1>6 DEF SummaryFails
    <2> QED BY <1>1, <1>6, <2>1, LeaveKeeps DEF SummaryFails
  <1>7. CASE MarkCompleted
    <2>1. PersistState("completed", mem)
      BY <1>2, <1>7 DEF MarkCompleted
    <2> QED BY <1>1, <1>7, <2>1, LeaveKeeps DEF MarkCompleted
  <1>8. CASE Crash
    BY <1>8, LeaveKeeps DEF Crash
  <1>9. CASE CrashInWrite
    BY <1>9, LeaveKeeps DEF CrashInWrite
  <1> QED
    BY <1>3, <1>4, <1>5, <1>6, <1>7, <1>8, <1>9

LEMMA ContinueKeeps ==
    ASSUME ReviewInv, Continue
    PROVE  ReviewInv'
  <1>1. /\ at = "after_packet"
        /\ mem \in Progress /\ Progressing(mem)
        /\ Readable /\ disk.status = "running" /\ disk.state = mem
        /\ ~ LimitReached
        /\ at' = IF batch # <<>> THEN "apply"
                 ELSE IF mem.index < Len(mem.queue) THEN "advance" ELSE "report"
        /\ UNCHANGED <<mem, newly, parallelism, stopAfter, batch, stop, disk>>
    BY DEF Continue, ReviewInv, TypeOK, Durable
  <1>2. mem.index \in Nat /\ Len(mem.queue) \in Nat /\ mem.index <= Len(mem.queue)
    BY <1>1, ProgressFields, QueueProperties DEF Progressing
  <1>3. at' \in {"apply", "advance", "report"}
    BY <1>1
  <1>4. TypeOK' /\ Batched'
    BY <1>1, <1>3 DEF ReviewInv, TypeOK, ControlPoints, Batched
  <1>5. Durable'
    BY <1>1, <1>3 DEF Durable, Readable
  <1>6. Placed'
    <2>1. ~ LimitReached'
      BY <1>1 DEF LimitReached
    <2>2. at' = "report" => mem.index = Len(mem.queue)
      BY <1>1, <1>2, SMT
    <2> QED BY <1>1, <1>3, <2>1, <2>2 DEF Placed
  <1> QED
    BY <1>1, <1>4, <1>5, <1>6 DEF ReviewInv

LEMMA ReportKeeps ==
    ASSUME ReviewInv, WriteReport \/ Summarize
    PROVE  ReviewInv'
  <1>1. /\ mem \in Progress /\ Progressing(mem)
        /\ mem.index = Len(mem.queue)
        /\ Readable /\ disk.state = mem
        /\ UNCHANGED <<mem, newly, parallelism, stopAfter, batch, stop>>
        /\ at' \in {"summary", "complete"}
    BY DEF WriteReport, Summarize, ReviewInv, TypeOK, Durable, Placed
  <1>2. disk' \in RunState /\ disk'.status = "review_complete" /\ disk'.state = mem /\ Readable'
    <2>1. CASE WriteReport
      <3>1. "review_complete" \in RunStatuses
        BY DEF RunStatuses, RESUMABLE_RUN_STATUSES
      <3> QED BY <1>1, <2>1, <3>1, PersistedState DEF WriteReport
    <2>2. CASE Summarize
      BY <1>1, <2>2 DEF Summarize, ReviewInv, TypeOK, Durable, Readable
    <2> QED BY <2>1, <2>2
  <1>3. TypeOK' /\ Batched'
    BY <1>1, <1>2 DEF ReviewInv, TypeOK, ControlPoints, Batched
  <1>4. Durable' /\ Placed'
    BY <1>1, <1>2 DEF Durable, Placed
  <1> QED
    BY <1>1, <1>3, <1>4 DEF ReviewInv

LEMMA RequestStopKeeps ==
    ASSUME ReviewInv, RequestStop
    PROVE  ReviewInv'
  <1>1. UNCHANGED <<at, mem, newly, parallelism, stopAfter, batch, disk>> /\ stop' = TRUE
    BY DEF RequestStop
  <1> QED
    BY <1>1 DEF ReviewInv, TypeOK, Durable, Placed, Batched, Readable, LimitReached

LEMMA StepReviewInv ==
    ASSUME ReviewInv, [Next]_vars
    PROVE  ReviewInv'
  <1>1. CASE Start BY <1>1, StartKeeps
  <1>2. CASE Resume BY <1>2, ResumeKeeps
  <1>3. CASE AdvanceTargets BY <1>3, AdvanceTargetsKeeps
  <1>4. CASE ReviewBatch BY <1>4, ReviewBatchKeeps
  <1>5. CASE ApplyOutcome BY <1>5, ApplyOutcomeKeeps
  <1>6. CASE CancelRequested \/ PacketFails \/ PauseAfterChunks \/ SummaryFails
             \/ MarkCompleted \/ Crash \/ CrashInWrite
    BY <1>6, EndKeeps
  <1>7. CASE Continue BY <1>7, ContinueKeeps
  <1>8. CASE WriteReport \/ Summarize BY <1>8, ReportKeeps
  <1>9. CASE RequestStop BY <1>9, RequestStopKeeps
  <1>10. CASE UNCHANGED vars
    BY <1>10 DEF vars, ReviewInv, TypeOK, Durable, Placed, Batched, Readable, LimitReached
  <1> QED
    BY <1>1, <1>2, <1>3, <1>4, <1>5, <1>6, <1>7, <1>8, <1>9, <1>10 DEF Next, Step

\* However a review is paused, canceled, broken off and resumed, its memory and
\* its run-state file agree on how far the queue has been reviewed:
\* controllers/documenter/orchestrator.py, run_review.
THEOREM ReviewInvariant == Spec => []ReviewInv
  <1>1. Init => ReviewInv
    BY InitReviewInv
  <1>2. ReviewInv /\ [Next]_vars => ReviewInv'
    BY StepReviewInv
  <1> QED
    BY <1>1, <1>2, PTL DEF Spec

\* The memory, the batch and the run-state file keep their types:
\* controllers/documenter/orchestrator.py, run_review and restore_run_state.
THEOREM TypeCorrect == Spec => []TypeOK
  <1>1. ReviewInv => TypeOK
    BY DEF ReviewInv
  <1> QED
    BY <1>1, ReviewInvariant, PTL

\* Accepted follow-ups never exceed their number or depth and never queue a
\* document twice, whatever is proposed and however often the review is resumed:
\* controllers/documenter/orchestrator.py, apply_chunk_review_outcome.
THEOREM FollowupsStayBounded == Spec => []FollowupsBounded
  <1>1. ReviewInv => FollowupsBounded
    BY DEF ReviewInv, Progressing, Bounded, NoDocTwice, FollowupsBounded
  <1> QED
    BY <1>1, ReviewInvariant, PTL

LEMMA NextBatchNotEmpty ==
    ASSUME ReviewInv, at = "next_batch"
    PROVE  NextBatch(mem) # <<>>
  <1>1. /\ mem \in Progress /\ Progressing(mem)
        /\ mem.index < Len(mem.queue)
        /\ ~ Finished(mem, mem.queue[mem.index + 1])
        /\ ~ LimitReached
    BY DEF ReviewInv, TypeOK, Placed
  <1>2. BatchLimit \in Nat \ {0}
    BY <1>1, PositiveLimit DEF ReviewInv
  <1>3. mem.queue \in Seq(Target) /\ mem.reports \in Seq(Chunk) /\ mem.index \in Nat
    BY <1>1, ProgressFields
  <1>4. /\ NoDocTwice(mem.queue)
        /\ Agrees(mem.reports, Plan(mem.queue))
        /\ mem.completed = Range(mem.reports)
        /\ \A i \in 1 .. mem.index : Finished(mem, mem.queue[i])
    BY <1>1 DEF Progressing, Bounded
  <1> QED BY <1>1, <1>2, <1>3, <1>4, NextBatchFollows

\* The chunk reports are the first chunks of the queue, in order and each once,
\* the documents stepped over are fully reported, the file holds all of it, and no
\* invocation finds its batch empty: controllers/documenter/orchestrator.py,
\* run_review.
THEOREM ReportsRight == Spec => []ReportsFollowQueue
  <1>1. ReviewInv => ReportsFollowQueue
    <2> SUFFICES ASSUME ReviewInv PROVE ReportsFollowQueue
      OBVIOUS
    <2>1. mem \in Progress /\ Progressing(mem)
      BY DEF ReviewInv, TypeOK
    <2>2. mem.reports \in Seq(Chunk) /\ Plan(mem.queue) \in Seq(Chunk)
      BY <2>1, ProgressFields, PlanProperties
    <2>3. IsPrefix(mem.reports, Plan(mem.queue))
      BY <2>1, <2>2, PrefixAgrees DEF Progressing
    <2>4. /\ mem.completed = Range(mem.reports)
          /\ mem.index <= Len(mem.queue)
          /\ mem.reviewed = [i \in 1 .. mem.index |-> mem.queue[i].doc]
          /\ \A i \in 1 .. mem.index : Finished(mem, mem.queue[i])
      BY <2>1 DEF Progressing, DocsUpto
    <2>5. at # "down" => Readable /\ disk.state = mem
      BY DEF ReviewInv, Durable
    <2>6. at = "next_batch" => NextBatch(mem) # <<>>
      BY NextBatchNotEmpty
    <2> QED BY <2>3, <2>4, <2>5, <2>6 DEF ReportsFollowQueue
  <1> QED
    BY <1>1, ReviewInvariant, PTL

-----------------------------------------------------------------------------
(***************************************************************************)
(* The run-state file implements the ledger.                               *)
(***************************************************************************)
PlanOf(d) == IF d \notin {NoState, Torn} THEN Plan(d.state.queue) ELSE <<>>
ReportsOf(d) == IF d \notin {NoState, Torn} THEN d.state.reports ELSE <<>>
PhaseOf(d) ==
    IF d = NoState THEN "none"
    ELSE IF d = Torn THEN "lost"
    ELSE CASE d.status \in {"running", "failed", "paused"} -> "open"
           [] d.status = "review_complete" -> "complete"
           [] d.status = "canceled" -> "canceled"
           [] d.status = "completed" -> "closed"

LEMMA StateOf ==
    ASSUME NEW d \in RunState
    PROVE  /\ d \notin {NoState, Torn}
           /\ PlanOf(d) = Plan(d.state.queue)
           /\ ReportsOf(d) = d.state.reports
           /\ d.status \in {"running", "failed", "paused"} => PhaseOf(d) = "open"
           /\ d.status = "review_complete" => PhaseOf(d) = "complete"
           /\ d.status = "canceled" => PhaseOf(d) = "canceled"
           /\ d.status = "completed" => PhaseOf(d) = "closed"
  <1>1. d \notin {NoState, Torn}
    BY StateAssumption
  <1> QED
    BY <1>1 DEF PlanOf, ReportsOf, PhaseOf

LEMMA RunningState ==
    ASSUME ReviewInv, at # "down"
    PROVE  disk \in RunState /\ disk.state = mem
  BY DEF ReviewInv, TypeOK, Durable, Readable

\* A step that changes neither what is planned nor what is reported nor the phase.
LEMMA SameLedger ==
    ASSUME PlanOf(disk') = PlanOf(disk), ReportsOf(disk') = ReportsOf(disk),
           PhaseOf(disk') = PhaseOf(disk)
    PROVE  UNCHANGED Ledger!vars
  BY DEF Ledger!vars, PlanOf, ReportsOf, PhaseOf, Readable

\* The statuses of a running invocation.
LEMMA RunningPhase ==
    ASSUME ReviewInv, at # "down"
    PROVE  /\ disk \in RunState
           /\ disk.state = mem
           /\ PlanOf(disk) = Plan(mem.queue)
           /\ ReportsOf(disk) = mem.reports
           /\ at \in {"advance", "next_batch", "apply", "after_packet", "report"}
                 => PhaseOf(disk) = "open"
           /\ at \in {"summary", "complete"} => PhaseOf(disk) = "complete"
  <1>1. disk \in RunState /\ disk.state = mem
    BY RunningState
  <1>2. /\ at \in {"advance", "next_batch", "apply", "after_packet", "report"}
              => disk.status = "running"
        /\ at \in {"summary", "complete"} => disk.status = "review_complete"
    BY DEF ReviewInv, Durable
  <1> QED
    BY <1>1, <1>2, StateOf

LEMMA WrittenPhase ==
    ASSUME NEW status \in RunStatuses, NEW m \in Progress, PersistState(status, m)
    PROVE  /\ PlanOf(disk') = Plan(m.queue)
           /\ ReportsOf(disk') = m.reports
           /\ status \in {"running", "failed", "paused"} => PhaseOf(disk') = "open"
           /\ status = "review_complete" => PhaseOf(disk') = "complete"
           /\ status = "canceled" => PhaseOf(disk') = "canceled"
           /\ status = "completed" => PhaseOf(disk') = "closed"
  BY PersistedState, StateOf

LEMMA AllStatuses ==
    {"running", "failed", "paused", "review_complete", "canceled", "completed"}
        \subseteq RunStatuses
  BY DEF RunStatuses, RESUMABLE_RUN_STATUSES

LEMMA StartOpens ==
    ASSUME ReviewInv, Start
    PROVE  Ledger!Open
  <1>1. disk = NoState /\ PersistState("running", InitialProgress)
    BY DEF Start, Begin
  <1>2. /\ PlanOf(disk') = Plan(InitialProgress.queue)
        /\ ReportsOf(disk') = <<>>
        /\ PhaseOf(disk') = "open"
    BY <1>1, AllStatuses, InitialProgressing, WrittenPhase
  <1>3. ReportsOf(disk) = <<>> /\ PhaseOf(disk) = "none"
    BY <1>1 DEF ReportsOf, PhaseOf
  <1>4. Plan(InitialProgress.queue) # <<>>
    <2> DEFINE queue == InitialProgress.queue
               plan == Plan(queue)
    <2>1. queue \in Seq(Target) /\ Len(queue) # 0
      BY InitialProgressing, ProgressFields
    <2> HIDE DEF queue
    <2>2. Len(queue) \in Nat /\ 1 \in 1 .. Len(queue)
      BY <2>1, QueueProperties, SMT
    <2>3. <<queue[1].doc, 1>> \in ChunksOf(queue[1].doc)
      <3>1. ChunkCount[queue[1].doc] \in Nat \ {0}
        BY <2>1, <2>2, QueueProperties, ReviewAssumption
      <3>2. 1 \in 1 .. ChunkCount[queue[1].doc]
        BY <3>1, SMT
      <3> QED BY <3>2 DEF ChunksOf
    <2>4. <<queue[1].doc, 1>> \in Range(plan)
      BY <2>1, <2>2, <2>3, PlanProperties
    <2>5. Range(<<>>) = {}
      BY DEF Range
    <2> HIDE DEF plan
    <2>6. plan # <<>>
      BY <2>4, <2>5
    <2> QED BY <2>6 DEF plan, queue
  <1> QED
    BY <1>2, <1>3, <1>4 DEF Ledger!Open, PlanOf, ReportsOf, PhaseOf, Readable

LEMMA ResumeReopensOrStutters ==
    ASSUME ReviewInv, Resume
    PROVE  Ledger!Reopen \/ UNCHANGED Ledger!vars
  <1>1. /\ disk \in RunState
        /\ disk.status \in RESUMABLE_RUN_STATUSES
        /\ disk.state = mem
        /\ mem \in Progress
        /\ PersistState("running", mem)
    BY DEF Resume, Begin, ReviewInv, TypeOK, Durable, Readable
  <1>2. /\ PlanOf(disk) = Plan(mem.queue)
        /\ ReportsOf(disk) = mem.reports
        /\ PhaseOf(disk) \in {"open", "complete"}
    BY <1>1, StateOf DEF RESUMABLE_RUN_STATUSES
  <1>3. /\ PlanOf(disk') = Plan(mem.queue)
        /\ ReportsOf(disk') = mem.reports
        /\ PhaseOf(disk') = "open"
    BY <1>1, AllStatuses, WrittenPhase
  <1>4. CASE PhaseOf(disk) = "open"
    BY <1>2, <1>3, <1>4, SameLedger
  <1>5. CASE PhaseOf(disk) = "complete"
    BY <1>2, <1>3, <1>5 DEF Ledger!Reopen, PlanOf, ReportsOf, PhaseOf, Readable
  <1> QED
    BY <1>2, <1>4, <1>5

LEMMA ApplyOutcomeRecords ==
    ASSUME ReviewInv, ApplyOutcome
    PROVE  Ledger!RecordNext
  <1>1. /\ mem \in Progress /\ Progressing(mem)
        /\ at = "apply"
        /\ batch # <<>> /\ batch \in Seq(Chunk)
        /\ Batched
        /\ PersistState("running", mem')
    BY DEF ReviewInv, TypeOK, ApplyOutcome
  <1>2. PICK f \in AcceptableFollowups(mem, Head(batch)[1]) :
           mem' = Advance(Recorded(mem, Head(batch), f))
    BY DEF ApplyOutcome, Recorded
  <1> DEFINE r == Recorded(mem, Head(batch), f)
  <1>3. /\ Len(mem.reports) < Len(Plan(mem.queue))
        /\ Head(batch) = Plan(mem.queue)[Len(mem.reports) + 1]
    <2>1. /\ Len(batch) \in Nat \ {0}
          /\ Head(batch) = batch[1]
          /\ Len(mem.reports) \in Nat /\ Len(Plan(mem.queue)) \in Nat
      BY <1>1, EmptySeq, ProgressFields, LenProperties, PlanProperties
    <2>2. /\ Len(mem.reports) + Len(batch) <= Len(Plan(mem.queue))
          /\ \A k \in 1 .. Len(batch) : batch[k] = Plan(mem.queue)[Len(mem.reports) + k]
      BY <1>1 DEF Batched
    <2>3. 1 \in 1 .. Len(batch) /\ Len(mem.reports) < Len(Plan(mem.queue))
      BY <2>1, <2>2, SMT
    <2> QED BY <2>1, <2>2, <2>3
  <1>4. /\ r \in Progress
        /\ Progressing(r)
        /\ r.reports = Append(mem.reports, Head(batch))
        /\ Agrees(Plan(mem.queue), Plan(r.queue))
    BY <1>1, <1>3, RecordedProgresses
  <1> HIDE DEF r
  <1>5. mem' \in Progress /\ mem'.queue = r.queue /\ mem'.reports = r.reports
    BY <1>2, <1>4, AdvanceProgresses DEF r
  <1>6. /\ PlanOf(disk) = Plan(mem.queue)
        /\ ReportsOf(disk) = mem.reports
        /\ PhaseOf(disk) = "open"
    BY <1>1, RunningPhase
  <1>7. /\ PlanOf(disk') = Plan(r.queue)
        /\ ReportsOf(disk') = Append(mem.reports, Head(batch))
        /\ PhaseOf(disk') = "open"
    BY <1>1, <1>4, <1>5, AllStatuses, WrittenPhase
  <1>8. Ledger!IsPrefix(PlanOf(disk), PlanOf(disk'))
    <2>1. Plan(mem.queue) \in Seq(Chunk) /\ Plan(r.queue) \in Seq(Chunk)
      BY <1>1, <1>4, ProgressFields, PlanProperties
    <2>2. IsPrefix(Plan(mem.queue), Plan(r.queue))
      BY <1>4, <2>1, PrefixAgrees
    <2> QED BY <1>6, <1>7, <2>2 DEF IsPrefix, Ledger!IsPrefix
  <1>9. /\ Len(ReportsOf(disk)) < Len(PlanOf(disk))
        /\ ReportsOf(disk') = Append(ReportsOf(disk), PlanOf(disk)[Len(ReportsOf(disk)) + 1])
    BY <1>3, <1>6, <1>7
  <1> QED
    BY <1>6, <1>7, <1>8, <1>9 DEF Ledger!RecordNext, PlanOf, ReportsOf, PhaseOf, Readable

\* A report of everything: all targets are stepped over, so all is reported.
LEMMA AllReported ==
    ASSUME NEW m \in Progress, Progressing(m), m.index = Len(m.queue)
    PROVE  m.reports = Plan(m.queue)
  <1> DEFINE plan == Plan(m.queue)
             reports == m.reports
  <1>1. /\ m.queue \in Seq(Target) /\ Len(m.queue) \in Nat
        /\ reports \in Seq(Chunk) /\ Len(reports) \in Nat
        /\ plan \in Seq(Chunk) /\ Len(plan) \in Nat
        /\ DOMAIN plan = 1 .. Len(plan)
    BY ProgressFields, QueueProperties, LenProperties, PlanProperties
  <1>2. Agrees(reports, plan) /\ m.completed = Range(reports)
    BY DEF Progressing
  <1>3. Distinct(plan)
    <2>1. Len(m.queue) \in 0 .. Len(m.queue)
      BY <1>1, SMT
    <2> QED BY <1>1, <2>1, PlannedDistinct DEF Progressing, Bounded, Plan
  <1>4. \A c \in Range(plan) : c \in Range(reports)
    <2> TAKE c \in Range(plan)
    <2>1. PICK j \in 1 .. Len(m.queue) : c \in ChunksOf(m.queue[j].doc)
      BY <1>1, PlanProperties
    <2>2. Finished(m, m.queue[j])
      BY DEF Progressing
    <2> QED BY <1>2, <2>1, <2>2 DEF Finished
  <1> HIDE DEF plan, reports
  <1>5. Len(reports) = Len(plan)
    <2>1. CASE Len(plan) = 0
      BY <1>1, <1>2, <2>1, SMT DEF Agrees
    <2>2. CASE Len(plan) # 0
      <3>1. Len(plan) \in 1 .. Len(plan)
        BY <1>1, <2>2, SMT
      <3>2. plan[Len(plan)] \in Range(reports)
        <4>1. plan[Len(plan)] \in Range(plan)
          BY <1>1, <3>1, Zenon DEF Range
        <4> QED BY <1>4, <4>1
      <3>3. Len(plan) <= Len(reports)
        BY <1>1, <1>2, <1>3, <3>1, <3>2, ReportedChunks
      <3> QED BY <1>1, <1>2, <3>3, SMT DEF Agrees
    <2> QED BY <2>1, <2>2
  <1>6. reports = plan
    BY <1>1, <1>2, <1>5, SeqEqual DEF Agrees
  <1> QED
    BY <1>6 DEF plan, reports

LEMMA WriteReportCompletes ==
    ASSUME ReviewInv, WriteReport
    PROVE  Ledger!Complete
  <1>1. /\ mem \in Progress /\ Progressing(mem)
        /\ at = "report"
        /\ mem.index = Len(mem.queue)
        /\ PersistState("review_complete", mem)
    BY DEF ReviewInv, TypeOK, Placed, WriteReport
  <1>2. mem.reports = Plan(mem.queue)
    BY <1>1, AllReported
  <1>3. /\ PlanOf(disk) = Plan(mem.queue)
        /\ ReportsOf(disk) = mem.reports
        /\ PhaseOf(disk) = "open"
    BY <1>1, RunningPhase
  <1>4. /\ PlanOf(disk') = Plan(mem.queue)
        /\ ReportsOf(disk') = mem.reports
        /\ PhaseOf(disk') = "complete"
    BY <1>1, AllStatuses, WrittenPhase
  <1> QED
    BY <1>2, <1>3, <1>4 DEF Ledger!Complete, PlanOf, ReportsOf, PhaseOf, Readable

\* The other writes change the phase at most.
LEMMA StatusRefines ==
    ASSUME ReviewInv,
           \/ CancelRequested \/ PacketFails \/ PauseAfterChunks
           \/ SummaryFails \/ MarkCompleted
    PROVE  Ledger!Cancel \/ Ledger!Reopen \/ Ledger!Close \/ UNCHANGED Ledger!vars
  <1>1. mem \in Progress /\ at # "down"
    BY DEF ReviewInv, TypeOK, CancelRequested, PacketFails, PauseAfterChunks,
       SummaryFails, MarkCompleted
  <1>2. /\ PlanOf(disk) = Plan(mem.queue)
        /\ ReportsOf(disk) = mem.reports
        /\ at \in {"next_batch", "apply", "after_packet"} => PhaseOf(disk) = "open"
        /\ at \in {"summary", "complete"} => PhaseOf(disk) = "complete"
        /\ disk.state = mem
    BY <1>1, RunningPhase
  <1>3. \A status \in {"canceled", "failed", "paused", "completed"} :
           PersistState(status, mem) =>
              /\ PlanOf(disk') = PlanOf(disk)
              /\ ReportsOf(disk') = ReportsOf(disk)
              /\ status \in {"failed", "paused"} => PhaseOf(disk') = "open"
              /\ status = "canceled" => PhaseOf(disk') = "canceled"
              /\ status = "completed" => PhaseOf(disk') = "closed"
    BY <1>1, <1>2, AllStatuses, WrittenPhase
  <1>4. CASE CancelRequested
    <2>1. PhaseOf(disk) = "open" /\ PersistState("canceled", mem)
      BY <1>2, <1>4 DEF CancelRequested
    <2> QED BY <1>3, <2>1 DEF Ledger!Cancel, PlanOf, ReportsOf, PhaseOf, Readable
  <1>5. CASE PacketFails \/ PauseAfterChunks
    <2>1. PhaseOf(disk) = "open" /\ (PersistState("failed", mem) \/ PersistState("paused", mem))
      BY <1>2, <1>5 DEF PacketFails, PauseAfterChunks
    <2>2. /\ PlanOf(disk') = PlanOf(disk)
          /\ ReportsOf(disk') = ReportsOf(disk)
          /\ PhaseOf(disk') = "open"
      BY <1>3, <2>1
    <2> QED BY <2>1, <2>2, SameLedger
  <1>6. CASE SummaryFails
    <2>1. PhaseOf(disk) = "complete" /\ PersistState("failed", mem)
      BY <1>2, <1>6 DEF SummaryFails
    <2> QED BY <1>3, <2>1 DEF Ledger!Reopen, PlanOf, ReportsOf, PhaseOf, Readable
  <1>7. CASE MarkCompleted
    <2>1. PhaseOf(disk) = "complete" /\ PersistState("completed", mem)
      BY <1>2, <1>7 DEF MarkCompleted
    <2> QED BY <1>3, <2>1 DEF Ledger!Close, PlanOf, ReportsOf, PhaseOf, Readable
  <1> QED
    BY <1>4, <1>5, <1>6, <1>7

LEMMA CrashInWriteLoses ==
    ASSUME ReviewInv, CrashInWrite
    PROVE  Ledger!Lose
  <1>1. at # "down" /\ at \in ControlPoints /\ disk' = Torn
    BY DEF CrashInWrite, ReviewInv, TypeOK
  <1>2. PhaseOf(disk) \in {"open", "complete"}
    BY <1>1, RunningPhase DEF ControlPoints
  <1>3. PlanOf(disk') = <<>> /\ ReportsOf(disk') = <<>> /\ PhaseOf(disk') = "lost"
    BY <1>1, StateAssumption DEF PlanOf, ReportsOf, PhaseOf
  <1> QED
    BY <1>2, <1>3 DEF Ledger!Lose, PlanOf, ReportsOf, PhaseOf, Readable

LEMMA AdvanceTargetsStutters ==
    ASSUME ReviewInv, AdvanceTargets
    PROVE  UNCHANGED Ledger!vars
  <1>1. /\ mem \in Progress /\ Progressing(mem)
        /\ at = "advance"
        /\ mem' = Advance(mem)
        /\ PersistState("running", mem') \/ disk' = disk
    BY DEF ReviewInv, TypeOK, AdvanceTargets
  <1>2. mem' \in Progress /\ mem'.queue = mem.queue /\ mem'.reports = mem.reports
    BY <1>1, AdvanceProgresses
  <1>3. CASE disk' = disk
    BY <1>3, SameLedger
  <1>4. CASE PersistState("running", mem')
    <2>1. /\ PlanOf(disk') = Plan(mem'.queue)
          /\ ReportsOf(disk') = mem'.reports
          /\ PhaseOf(disk') = "open"
      BY <1>2, <1>4, AllStatuses, WrittenPhase
    <2>2. /\ PlanOf(disk) = Plan(mem.queue)
          /\ ReportsOf(disk) = mem.reports
          /\ PhaseOf(disk) = "open"
      BY <1>1, RunningPhase
    <2> QED BY <1>2, <2>1, <2>2, SameLedger
  <1> QED
    BY <1>1, <1>3, <1>4

LEMMA StepRefines ==
    ASSUME ReviewInv, [Next]_vars
    PROVE  [Ledger!Next]_(Ledger!vars)
  <1>1. CASE Start BY <1>1, StartOpens DEF Ledger!Next
  <1>2. CASE Resume BY <1>2, ResumeReopensOrStutters DEF Ledger!Next
  <1>3. CASE AdvanceTargets BY <1>3, AdvanceTargetsStutters
  <1>4. CASE ApplyOutcome BY <1>4, ApplyOutcomeRecords DEF Ledger!Next
  <1>5. CASE WriteReport BY <1>5, WriteReportCompletes DEF Ledger!Next
  <1>6. CASE CancelRequested \/ PacketFails \/ PauseAfterChunks \/ SummaryFails \/ MarkCompleted
    BY <1>6, StatusRefines DEF Ledger!Next
  <1>7. CASE CrashInWrite BY <1>7, CrashInWriteLoses DEF Ledger!Next
  <1>8. CASE disk' = disk BY <1>8, SameLedger
  <1>9. ReviewBatch \/ Continue \/ Summarize \/ RequestStop \/ Crash \/ UNCHANGED vars
            => disk' = disk
    BY DEF ReviewBatch, Continue, Summarize, RequestStop, Crash, vars
  <1> QED
    BY <1>1, <1>2, <1>3, <1>4, <1>5, <1>6, <1>7, <1>8, <1>9 DEF Next, Step

\* The run-state file is a ledger of chunk reports: recorded in the order of a plan
\* that only grows at its end, each once, complete when all are recorded, and never
\* touched again once canceled or completed: controllers/documenter/orchestrator.py,
\* run_review.
THEOREM Refinement == Spec => ImplementsLedger
  <1>1. Init => Ledger!Init
    BY DEF Init, Ledger!Init, Readable
  <1>2. ReviewInv /\ [Next]_vars => [Ledger!Next]_(Ledger!vars)
    BY StepRefines
  <1> QED
    BY <1>1, <1>2, ReviewInvariant, PTL DEF Spec, ImplementsLedger, Ledger!Spec

=============================================================================

----------------------------- MODULE QueueProofs -----------------------------
(***************************************************************************)
(* What joining two queues, adding, removing and taking a part does to     *)
(* their elements.  The proofs about the sleep queues, the futexes, the    *)
(* locks and the timeouts all rest on these.                               *)
(***************************************************************************)
EXTENDS Queues, SequenceTheorems, FiniteSetTheorems, TLAPS

\* Two queues with nothing in common, one behind the other.
LEMMA ConcatFacts ==
    ASSUME NEW T, NEW s \in Seq(T), NEW t \in Seq(T), NoDup(s), NoDup(t),
           Elements(s) \cap Elements(t) = {}
    PROVE  /\ s \o t \in Seq(T) /\ NoDup(s \o t)
           /\ Elements(s \o t) = Elements(s) \cup Elements(t)
<1>1. /\ s \o t \in Seq(T) /\ Len(s \o t) = Len(s) + Len(t)
      /\ \A i \in 1..Len(s) + Len(t) :
            (s \o t)[i] = IF i <= Len(s) THEN s[i] ELSE t[i - Len(s)]
      /\ Len(s) \in Nat /\ Len(t) \in Nat
  BY ConcatProperties
<1>2. Elements(s \o t) = Elements(s) \cup Elements(t)
  <2>1. \A i \in 1..Len(s) + Len(t) : (s \o t)[i] \in Elements(s) \cup Elements(t)
    BY <1>1 DEF Elements
  <2>2. \A i \in 1..Len(s) : (s \o t)[i] = s[i] /\ i \in 1..Len(s) + Len(t)
    BY <1>1
  <2>3. \A i \in 1..Len(t) : (s \o t)[i + Len(s)] = t[i] /\ i + Len(s) \in 1..Len(s) + Len(t)
    BY <1>1
  <2>4. Elements(s) \subseteq Elements(s \o t)
    BY <1>1, <2>2 DEF Elements
  <2>5. Elements(t) \subseteq Elements(s \o t)
    BY <1>1, <2>3 DEF Elements
  <2>6. Elements(s \o t) \subseteq Elements(s) \cup Elements(t)
    BY <1>1, <2>1 DEF Elements
  <2>7. QED
    BY <2>4, <2>5, <2>6
<1>3. NoDup(s \o t)
  <2> SUFFICES ASSUME NEW i \in 1..Len(s) + Len(t), NEW j \in 1..Len(s) + Len(t),
                      (s \o t)[i] = (s \o t)[j]
               PROVE  i = j
    BY <1>1 DEF NoDup
  <2>1. CASE i <= Len(s) /\ j <= Len(s)
    BY <1>1, <2>1 DEF NoDup
  <2>2. CASE i > Len(s) /\ j > Len(s)
    <3>1. i - Len(s) \in 1..Len(t) /\ j - Len(s) \in 1..Len(t)
      BY <1>1, <2>2
    <3>2. t[i - Len(s)] = t[j - Len(s)]
      BY <1>1, <2>2
    <3>3. i - Len(s) = j - Len(s)
      BY <3>1, <3>2 DEF NoDup
    <3>4. QED
      BY <1>1, <3>3
  <2>3. CASE i <= Len(s) /\ j > Len(s)
    <3>1. s[i] \in Elements(s) /\ t[j - Len(s)] \in Elements(t) /\ s[i] = t[j - Len(s)]
      BY <1>1, <2>3 DEF Elements
    <3>2. QED
      BY <3>1
  <2>4. CASE i > Len(s) /\ j <= Len(s)
    <3>1. j \in 1..Len(s) /\ i - Len(s) \in 1..Len(t) /\ s[j] = t[i - Len(s)]
      BY <1>1, <2>4
    <3>2. s[j] \in Elements(s) /\ t[i - Len(s)] \in Elements(t)
      BY <3>1 DEF Elements
    <3>3. QED
      BY <3>1, <3>2
  <2>5. QED
    BY <1>1, <2>1, <2>2, <2>3, <2>4
<1>4. QED
  BY <1>1, <1>2, <1>3

\* TAILQ_INSERT_TAIL of one who is not on the queue.
LEMMA AppendFacts ==
    ASSUME NEW T, NEW s \in Seq(T), NEW x \in T, NoDup(s), x \notin Elements(s)
    PROVE  /\ Append(s, x) \in Seq(T) /\ NoDup(Append(s, x))
           /\ Elements(Append(s, x)) = Elements(s) \cup {x}
<1>1. /\ <<x>> \in Seq(T) /\ Len(<<x>>) = 1 /\ <<x>>[1] = x
      /\ Append(s, x) = s \o <<x>>
  BY AppendIsConcat
<1>2. NoDup(<<x>>) /\ Elements(<<x>>) = {x}
  BY <1>1 DEF NoDup, Elements
<1>3. Elements(s) \cap Elements(<<x>>) = {}
  BY <1>2
<1>4. PICK t \in Seq(T) : t = <<x>>
  BY <1>1
<1>5. NoDup(t) /\ Elements(s) \cap Elements(t) = {} /\ Elements(t) = {x}
  BY <1>2, <1>3, <1>4
<1>6. s \o t \in Seq(T) /\ NoDup(s \o t) /\ Elements(s \o t) = Elements(s) \cup Elements(t)
  BY <1>5, ConcatFacts
<1>7. QED
  BY <1>1, <1>4, <1>5, <1>6

\* TAILQ_REMOVE.
LEMMA WithoutFacts ==
    ASSUME NEW T, NEW s \in Seq(T), NEW x, NoDup(s)
    PROVE  /\ Without(s, x) \in Seq(T) /\ NoDup(Without(s, x))
           /\ Elements(Without(s, x)) = Elements(s) \ {x}
<1>1. CASE ~\E i \in 1..Len(s) : s[i] = x
  BY <1>1 DEF Without, Elements
<1>2. CASE \E i \in 1..Len(s) : s[i] = x
  <2>1. PICK i \in 1..Len(s) :
           s[i] = x /\ Without(s, x) = SubSeq(s, 1, i - 1) \o SubSeq(s, i + 1, Len(s))
    BY <1>2 DEF Without
  <2>2. PICK a, b : a = SubSeq(s, 1, i - 1) /\ b = SubSeq(s, i + 1, Len(s))
    OBVIOUS
  <2>3. Len(s) \in Nat /\ \A j \in 1..Len(s) : s[j] \in T
    OBVIOUS
  <2>4. a \in Seq(T) /\ Len(a) = i - 1 /\ \A j \in 1..i - 1 : a[j] = s[j]
    <3>1. \A j \in 1..i - 1 : s[j] \in T
      BY <2>3
    <3>2. QED
      BY <2>2, <2>3, <3>1, SubSeqProperties
  <2>5. b \in Seq(T) /\ Len(b) = Len(s) - i /\ \A j \in 1..Len(s) - i : b[j] = s[i + j]
    <3>1. \A j \in i + 1..Len(s) : s[j] \in T
      BY <2>3
    <3>2. /\ b \in Seq(T) /\ Len(b) = IF i + 1 <= Len(s) THEN Len(s) - (i + 1) + 1 ELSE 0
          /\ \A j \in 1..Len(s) - (i + 1) + 1 : b[j] = s[i + 1 + j - 1]
      BY <2>2, <2>3, <3>1, SubSeqProperties
    <3>3. QED
      BY <2>3, <3>2
  <2>6. NoDup(a) /\ NoDup(b)
    <3>1. NoDup(a)
      <4> SUFFICES ASSUME NEW j \in 1..i - 1, NEW k \in 1..i - 1, a[j] = a[k] PROVE j = k
        BY <2>4 DEF NoDup
      <4>1. s[j] = s[k] /\ j \in 1..Len(s) /\ k \in 1..Len(s)
        BY <2>3, <2>4
      <4>2. QED
        BY <4>1 DEF NoDup
    <3>2. NoDup(b)
      <4> SUFFICES ASSUME NEW j \in 1..Len(s) - i, NEW k \in 1..Len(s) - i, b[j] = b[k]
                   PROVE  j = k
        BY <2>5 DEF NoDup
      <4>1. s[i + j] = s[i + k] /\ i + j \in 1..Len(s) /\ i + k \in 1..Len(s)
        BY <2>3, <2>5
      <4>2. i + j = i + k
        BY <4>1 DEF NoDup
      <4>3. QED
        BY <2>3, <4>2
    <3>3. QED
      BY <3>1, <3>2
  <2>7. Elements(a) = {s[j] : j \in 1..i - 1}
    BY <2>4 DEF Elements
  <2>8. Elements(b) = {s[j] : j \in i + 1..Len(s)}
    <3>1. \A j \in 1..Len(s) - i : b[j] = s[i + j] /\ i + j \in i + 1..Len(s)
      BY <2>3, <2>5
    <3>2. \A j \in i + 1..Len(s) : s[j] = b[j - i] /\ j - i \in 1..Len(s) - i
      BY <2>3, <2>5
    <3>3. Elements(b) = {b[j] : j \in 1..Len(s) - i}
      BY <2>5 DEF Elements
    <3>4. Elements(b) \subseteq {s[j] : j \in i + 1..Len(s)}
      BY <3>1, <3>3
    <3>5. {s[j] : j \in i + 1..Len(s)} \subseteq Elements(b)
      BY <3>2, <3>3
    <3>6. QED
      BY <3>4, <3>5
  <2>9. Elements(a) \cap Elements(b) = {}
    BY <2>3, <2>7, <2>8 DEF NoDup
  <2>10. Elements(a) \cup Elements(b) = Elements(s) \ {x}
    <3>1. \A j \in 1..Len(s) : s[j] = x <=> j = i
      BY <2>1 DEF NoDup
    <3>2. \A j \in 1..Len(s) : j # i => j \in 1..i - 1 \/ j \in i + 1..Len(s)
      BY <2>3
    <3>3. \A j : j \in 1..i - 1 \/ j \in i + 1..Len(s) => j \in 1..Len(s) /\ j # i
      BY <2>3
    <3>4. Elements(s) \ {x} = {s[j] : j \in (1..Len(s)) \ {i}}
      BY <3>1 DEF Elements
    <3>5. QED
      BY <2>7, <2>8, <3>2, <3>3, <3>4
  <2>11. /\ a \o b \in Seq(T) /\ NoDup(a \o b)
         /\ Elements(a \o b) = Elements(a) \cup Elements(b)
    BY <2>4, <2>5, <2>6, <2>9, ConcatFacts
  <2>12. QED
    BY <2>1, <2>2, <2>10, <2>11
<1>3. QED
  BY <1>1, <1>2

\* The indices of a list are numbered without gaps, in their order.
LEMMA RankFacts ==
    ASSUME NEW n \in Nat, NEW K \in SUBSET (1..n)
    PROVE  /\ IsFiniteSet(K) /\ Cardinality(K) \in Nat
           /\ \A i \in K : Rank(K, i) \in 1..Cardinality(K)
           /\ \A i, j \in K : Rank(K, i) = Rank(K, j) => i = j
           /\ \A k \in 1..Cardinality(K) : \E i \in K : Rank(K, i) = k
<1>1. IsFiniteSet(K) /\ Cardinality(K) \in Nat
  <2>1. IsFiniteSet(1..n)
    BY FS_Interval
  <2>2. QED
    BY <2>1, FS_Subset, FS_CardinalityType
<1>2. ASSUME NEW i \in K
      PROVE  Rank(K, i) \in 1..Cardinality(K)
  <2>1. {j \in K : j <= i} \in SUBSET K /\ {j \in K : j <= i} # {}
    BY <1>2
  <2>2. /\ IsFiniteSet({j \in K : j <= i})
        /\ Cardinality({j \in K : j <= i}) <= Cardinality(K)
    BY <1>1, <2>1, FS_Subset
  <2>3. Cardinality({j \in K : j <= i}) \in Nat /\ Cardinality({j \in K : j <= i}) # 0
    BY <2>1, <2>2, FS_CardinalityType, FS_EmptySet
  <2>4. QED
    BY <1>1, <2>2, <2>3 DEF Rank
<1>3. ASSUME NEW i \in K, NEW j \in K, i < j
      PROVE  Rank(K, i) # Rank(K, j)
  <2>1. {k \in K : k <= j} \in SUBSET K
    OBVIOUS
  <2>2. IsFiniteSet({k \in K : k <= j})
    BY <1>1, <2>1, FS_Subset
  <2>3. {k \in K : k <= i} \in SUBSET {k \in K : k <= j} /\ j \notin {k \in K : k <= i}
    <3>1. i \in Int /\ j \in Int /\ \A k \in K : k \in Int
      OBVIOUS
    <3>2. ~(j <= i) /\ \A k \in K : k <= i => k <= j
      BY <1>3, <3>1
    <3>3. QED
      BY <3>2
  <2>4. {k \in K : k <= j} # {k \in K : k <= i}
    BY <2>3
  <2>5. Cardinality({k \in K : k <= j}) # Cardinality({k \in K : k <= i})
    BY <2>2, <2>3, <2>4, FS_Subset
  <2>6. QED
    BY <2>5 DEF Rank
<1>4. \A i, j \in K : Rank(K, i) = Rank(K, j) => i = j
  <2> SUFFICES ASSUME NEW i \in K, NEW j \in K, Rank(K, i) = Rank(K, j) PROVE i = j
    OBVIOUS
  <2>1. ~(i < j) /\ ~(j < i)
    BY <1>3
  <2>2. QED
    BY <2>1
<1>5. \A k \in 1..Cardinality(K) : \E i \in K : Rank(K, i) = k
  <2> DEFINE f == [i \in K |-> Rank(K, i)]
  <2>1. f \in Injection(K, 1..Cardinality(K))
    BY <1>2, <1>4 DEF Injection, IsInjective
  <2>2. IsFiniteSet(1..Cardinality(K)) /\ Cardinality(1..Cardinality(K)) = Cardinality(K)
    BY <1>1, FS_Interval
  <2>3. f \in Surjection(K, 1..Cardinality(K))
    BY <2>1, <2>2, FS_Injection
  <2>4. \A k \in 1..Cardinality(K) : \E i \in K : f[i] = k
    BY <2>3 DEF Surjection
  <2>5. QED
    BY <2>4
<1>6. QED
  BY <1>1, <1>2, <1>4, <1>5

\* A part of a list has the futexes at its indices, and none twice.
LEMMA PartFacts ==
    ASSUME NEW T, NEW q \in Seq(T), NEW K \in SUBSET (1..Len(q))
    PROVE  /\ Part(q, K) \in Seq(T)
           /\ Elements(Part(q, K)) = {q[i] : i \in K}
           /\ NoDup(q) => NoDup(Part(q, K))
<1>1. Len(q) \in Nat /\ \A i \in 1..Len(q) : q[i] \in T
  OBVIOUS
<1>2. /\ Cardinality(K) \in Nat
      /\ \A i \in K : Rank(K, i) \in 1..Cardinality(K)
      /\ \A i, j \in K : Rank(K, i) = Rank(K, j) => i = j
      /\ \A k \in 1..Cardinality(K) : \E i \in K : Rank(K, i) = k
  BY <1>1, RankFacts
<1> DEFINE at(k) == CHOOSE i \in K : Rank(K, i) = k
<1>3. \A k \in 1..Cardinality(K) : at(k) \in K /\ Rank(K, at(k)) = k
  BY <1>2
<1>4. Part(q, K) = [k \in 1..Cardinality(K) |-> q[at(k)]]
  BY DEF Part
<1> HIDE DEF at
<1>5. \A k \in 1..Cardinality(K) : q[at(k)] \in T
  BY <1>1, <1>3
<1>6. Part(q, K) \in [1..Cardinality(K) -> T]
  BY <1>4, <1>5
<1>7. Part(q, K) \in Seq(T) /\ Len(Part(q, K)) = Cardinality(K)
  BY <1>2, <1>6
<1>8. Elements(Part(q, K)) = {q[i] : i \in K}
  <2>1. \A k \in 1..Cardinality(K) : Part(q, K)[k] = q[at(k)]
    BY <1>4
  <2>2. \A i \in K : at(Rank(K, i)) = i
    BY <1>2, <1>3
  <2>3. \A i \in K : Part(q, K)[Rank(K, i)] = q[i]
    BY <1>2, <2>1, <2>2
  <2>4. \A x : x \in {q[i] : i \in K} => x \in Elements(Part(q, K))
    BY <1>2, <1>7, <2>3 DEF Elements
  <2>5. \A x : x \in Elements(Part(q, K)) => x \in {q[i] : i \in K}
    BY <1>3, <1>7, <2>1 DEF Elements
  <2>6. QED
    BY <2>4, <2>5
<1>9. ASSUME NoDup(q) PROVE NoDup(Part(q, K))
  <2> SUFFICES ASSUME NEW k \in 1..Cardinality(K), NEW l \in 1..Cardinality(K),
                      Part(q, K)[k] = Part(q, K)[l]
               PROVE  k = l
    BY <1>7 DEF NoDup
  <2>1. q[at(k)] = q[at(l)] /\ at(k) \in 1..Len(q) /\ at(l) \in 1..Len(q)
    BY <1>3, <1>4
  <2>2. at(k) = at(l)
    BY <1>9, <2>1 DEF NoDup
  <2>3. QED
    BY <1>3, <2>2
<1>10. QED
  BY <1>7, <1>8, <1>9
=============================================================================

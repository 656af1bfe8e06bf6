--------------------------- MODULE SequenceFacts ---------------------------
(* What is needed of numbers and lists, and is not in the library: a set of  *)
(* numbers has a least one, and what taking elements off a list, or adding   *)
(* one, does to the others.                                                  *)
EXTENDS Integers, Lists, SequencesExt, SequenceTheorems, FiniteSetTheorems,
        WellFoundedInduction, TLAPS

\* A set of numbers that is not empty has a least one.
LEMMA Least ==
    ASSUME NEW S \in SUBSET Nat, S # {}
    PROVE  \E n \in S : \A k \in S : n <= k
<1>1. \E n \in S : \A k \in S : ~(<<k, n>> \in OpToRel(<, Nat))
  <2>1. IsWellFoundedOn(OpToRel(<, Nat), Nat)
    BY NatLessThanWellFounded
  <2> HIDE DEF IsWellFoundedOn, OpToRel
  <2> QED BY <2>1, WFMin
<1>2. \A k, n \in S : ~(<<k, n>> \in OpToRel(<, Nat)) => n <= k
  BY DEF OpToRel
<1> QED BY <1>1, <1>2

\* A prefix of a list.
LEMMA PrefixFacts ==
    ASSUME NEW S, NEW list \in Seq(S), NEW i \in 1..Len(list)
    PROVE  /\ SubSeq(list, 1, i - 1) \in Seq(S)
           /\ Len(SubSeq(list, 1, i - 1)) = i - 1
           /\ \A j \in 1..(i - 1) : SubSeq(list, 1, i - 1)[j] = list[j]
           /\ IsInjective(list) => IsInjective(SubSeq(list, 1, i - 1))
<1> DEFINE n == i - 1
<1>1. n \in 0..Len(list) /\ \A j \in 1..n : list[j] \in S
  OBVIOUS
<1> HIDE DEF n
<1>2. /\ SubSeq(list, 1, n) \in Seq(S)
      /\ Len(SubSeq(list, 1, n)) = IF 1 <= n THEN n - 1 + 1 ELSE 0
      /\ \A j \in 1..(n - 1 + 1) : SubSeq(list, 1, n)[j] = list[1 + j - 1]
  BY <1>1, SubSeqProperties
<1>3. (IF 1 <= n THEN n - 1 + 1 ELSE 0) = n /\ n - 1 + 1 = n
  BY <1>1
<1>4. /\ Len(SubSeq(list, 1, n)) = n
      /\ \A j \in 1..n : SubSeq(list, 1, n)[j] = list[j]
  BY <1>1, <1>2, <1>3
<1>5. ASSUME IsInjective(list) PROVE IsInjective(SubSeq(list, 1, n))
  <2>1. DOMAIN SubSeq(list, 1, n) = 1..n /\ 1..n \subseteq DOMAIN list
    BY <1>1, <1>2, <1>4
  <2> QED BY <1>4, <1>5, <2>1 DEF IsInjective
<1> QED BY <1>2, <1>4, <1>5 DEF n

\* A list, perhaps one without duplicates, without its element at position i.
LEMMA RemovedFacts ==
    ASSUME NEW S, NEW list \in Seq(S), NEW i \in 1..Len(list)
    PROVE  /\ RemoveAt(list, i) \in Seq(S)
           /\ Len(RemoveAt(list, i)) = Len(list) - 1
           /\ \A j \in 1..(Len(list) - 1) :
                 RemoveAt(list, i)[j] = IF j < i THEN list[j] ELSE list[j + 1]
           /\ IsInjective(list) =>
                 /\ IsInjective(RemoveAt(list, i))
                 /\ \A m : Contains(RemoveAt(list, i), m)
                              <=> Contains(list, m) /\ m # list[i]
<1> DEFINE a == SubSeq(list, 1, i - 1)
           b == SubSeq(list, i + 1, Len(list))
           k == Len(list)
           r == RemoveAt(list, i)
<1>1. k \in Nat /\ i \in 1..k /\ \A j \in 1..k : list[j] \in S
  OBVIOUS
<1>2. a \in Seq(S) /\ Len(a) = i - 1 /\ \A j \in 1..(i - 1) : a[j] = list[j]
  BY PrefixFacts
<1>3. b \in Seq(S) /\ Len(b) = k - i /\ \A j \in 1..(k - i) : b[j] = list[i + j]
  <2>1. \A j \in (i + 1)..k : list[j] \in S
    BY <1>1
  <2> HIDE DEF k
  <2>2. /\ SubSeq(list, i + 1, k) \in Seq(S)
        /\ Len(SubSeq(list, i + 1, k)) = IF i + 1 <= k THEN k - (i + 1) + 1 ELSE 0
        /\ \A j \in 1..(k - (i + 1) + 1) :
              SubSeq(list, i + 1, k)[j] = list[i + 1 + j - 1]
    BY <1>1, <2>1, SubSeqProperties
  <2>3. (IF i + 1 <= k THEN k - (i + 1) + 1 ELSE 0) = k - i /\ k - (i + 1) + 1 = k - i
    BY <1>1
  <2>4. \A j \in 1..(k - i) : i + 1 + j - 1 = i + j
    BY <1>1
  <2>5. b = SubSeq(list, i + 1, k)
    BY DEF k
  <2> HIDE DEF b
  <2> QED BY <1>1, <2>2, <2>3, <2>4, <2>5
<1>4. r = a \o b
  BY DEF RemoveAt
<1> HIDE DEF a, b, r, k
<1>5. /\ r \in Seq(S) /\ Len(r) = k - 1
      /\ \A j \in 1..(k - 1) : r[j] = IF j < i THEN list[j] ELSE list[j + 1]
  <2>1. /\ r \in Seq(S) /\ Len(r) = Len(a) + Len(b)
        /\ \A j \in 1..(Len(a) + Len(b)) :
              r[j] = IF j <= Len(a) THEN a[j] ELSE b[j - Len(a)]
    BY <1>2, <1>3, <1>4, ConcatProperties
  <2>2. Len(r) = k - 1
    BY <1>1, <1>2, <1>3, <2>1
  <2>3. ASSUME NEW j \in 1..(k - 1) PROVE r[j] = IF j < i THEN list[j] ELSE list[j + 1]
    <3>1. CASE j < i
      BY <1>1, <1>2, <1>3, <2>1, <2>3, <3>1
    <3>2. CASE ~(j < i)
      <4>1. j - (i - 1) \in 1..(k - i) /\ i + (j - (i - 1)) = j + 1
        BY <1>1, <2>3, <3>2
      <4>2. r[j] = b[j - (i - 1)]
        BY <1>1, <1>2, <1>3, <2>1, <2>3, <3>2
      <4> QED BY <1>3, <3>2, <4>1, <4>2
    <3> QED BY <3>1, <3>2
  <2> QED BY <2>1, <2>2, <2>3
<1>6. DOMAIN r = 1..(k - 1) /\ DOMAIN list = 1..k
  BY <1>1, <1>5 DEF k
<1> DEFINE at(j) == IF j < i THEN j ELSE j + 1
<1>7. \A j \in 1..(k - 1) : at(j) \in 1..k /\ at(j) # i /\ r[j] = list[at(j)]
  BY <1>1, <1>5
<1>8. \A j, l \in 1..(k - 1) : at(j) = at(l) => j = l
  BY <1>1
<1> HIDE DEF at
<1>9. ASSUME IsInjective(list) PROVE IsInjective(r)
  BY <1>6, <1>7, <1>8, <1>9 DEF IsInjective
<1>10. ASSUME IsInjective(list), NEW m PROVE Contains(r, m) <=> Contains(list, m) /\ m # list[i]
  <2>1. ASSUME Contains(r, m) PROVE Contains(list, m) /\ m # list[i]
    <3>1. PICK j \in 1..(k - 1) : r[j] = m
      BY <1>5, <2>1 DEF Contains
    <3>2. PICK l \in 1..k : l # i /\ list[l] = m
      BY <1>7, <3>1
    <3> QED BY <1>1, <1>6, <1>10, <3>2 DEF Contains, IsInjective, k
  <2>2. ASSUME Contains(list, m), m # list[i] PROVE Contains(r, m)
    <3>1. PICK l \in 1..k : list[l] = m /\ l # i
      BY <2>2 DEF Contains, k
    <3>2. PICK j \in 1..(k - 1) : IF j < i THEN j = l ELSE j + 1 = l
      <4>1. CASE l < i
        BY <1>1, <3>1, <4>1
      <4>2. CASE l > i
        <5>1. l - 1 \in 1..(k - 1) /\ ~(l - 1 < i) /\ (l - 1) + 1 = l
          BY <1>1, <3>1, <4>2
        <5> QED BY <5>1
      <4> QED BY <1>1, <3>1, <4>1, <4>2
    <3>3. r[j] = m
      BY <1>5, <3>1, <3>2
    <3> QED BY <1>5, <3>3 DEF Contains
  <2> QED BY <2>1, <2>2
<1> QED BY <1>5, <1>9, <1>10 DEF r, k

\* An activation is added to the stack.
LEMMA PushFacts ==
    ASSUME NEW S, NEW q \in Seq(S), NEW e \in S
    PROVE  /\ Append(q, e) \in Seq(S)
           /\ DOMAIN Append(q, e) = DOMAIN q \cup {Len(q) + 1}
           /\ \A i \in DOMAIN q : Append(q, e)[i] = q[i] /\ i # Len(q) + 1
           /\ Append(q, e)[Len(q) + 1] = e
           /\ Last(Append(q, e)) = e /\ Append(q, e) # <<>>
           /\ \A m : Contains(Append(q, e), m) <=> Contains(q, m) \/ m = e
<1>1. /\ Append(q, e) \in Seq(S) /\ Len(Append(q, e)) = Len(q) + 1
      /\ \A i \in 1..Len(q) : Append(q, e)[i] = q[i]
      /\ Append(q, e)[Len(q) + 1] = e /\ Append(q, e) # <<>>
  BY AppendProperties
<1>2. DOMAIN q = 1..Len(q) /\ Len(q) \in Nat
  BY LenProperties
<1>3. DOMAIN Append(q, e) = 1..Len(Append(q, e))
  BY <1>1, LenProperties
<1>4. /\ DOMAIN Append(q, e) = DOMAIN q \cup {Len(q) + 1}
      /\ \A i \in DOMAIN q : Append(q, e)[i] = q[i] /\ i # Len(q) + 1
  BY <1>1, <1>2, <1>3
<1>5. Last(Append(q, e)) = e
  BY <1>1 DEF Last
<1>6. ASSUME NEW m PROVE Contains(Append(q, e), m) <=> Contains(q, m) \/ m = e
  BY <1>1, <1>2, <1>3, <1>4, Zenon DEF Contains
<1> QED BY <1>1, <1>4, <1>5, <1>6

\* The topmost activation is taken off.
LEMMA PopFacts ==
    ASSUME NEW S, NEW q \in Seq(S), q # <<>>
    PROVE  /\ Front(q) \in Seq(S)
           /\ Len(q) \in DOMAIN q /\ q[Len(q)] \in S
           /\ DOMAIN Front(q) = DOMAIN q \ {Len(q)}
           /\ \A i \in DOMAIN Front(q) : Front(q)[i] = q[i]
<1> DEFINE n == Len(q) - 1
<1>1. n \in Nat /\ \A j \in 1..n : q[j] \in S
  OBVIOUS
<1>2. DOMAIN q = 1..Len(q) /\ n + 1 = Len(q) /\ Len(q) \in DOMAIN q /\ q[Len(q)] \in S
  OBVIOUS
<1>3. Front(q) = SubSeq(q, 1, n)
  BY DEF Front
<1> HIDE DEF n
<1>4. /\ Front(q) \in Seq(S)
      /\ Len(Front(q)) = IF 1 <= n THEN n - 1 + 1 ELSE 0
      /\ \A j \in 1..(n - 1 + 1) : Front(q)[j] = q[1 + j - 1]
  BY <1>1, <1>3, SubSeqProperties
<1>5. (IF 1 <= n THEN n - 1 + 1 ELSE 0) = n /\ n - 1 + 1 = n
  BY <1>1
<1>6. Len(Front(q)) = n /\ \A j \in 1..n : Front(q)[j] = q[j]
  BY <1>1, <1>4, <1>5
<1>7. DOMAIN Front(q) = 1..n
  BY <1>4, <1>6, LenProperties
<1>8. 1..n = (1..Len(q)) \ {Len(q)}
  BY <1>1, <1>2
<1> QED BY <1>2, <1>4, <1>6, <1>7, <1>8

\* The elements of a set of positions, counted from below
LEMMA NthFacts ==
    ASSUME NEW n \in Nat, NEW K \in SUBSET (1..n)
    PROVE  /\ Cardinality(K) \in Nat
           /\ \A j \in 1..Cardinality(K) : Nth(K, j) \in K
           /\ \A j, l \in 1..Cardinality(K) : j < l => Nth(K, j) < Nth(K, l)
           /\ \A i \in K : \E j \in 1..Cardinality(K) : Nth(K, j) = i
<1> DEFINE upto(i) == {k \in K : k <= i}
           R(i) == Cardinality(upto(i))
<1>0. \A k \in K : k \in Nat /\ 1 <= k /\ k <= n
  OBVIOUS
<1>1. IsFiniteSet(K) /\ \A S \in SUBSET K : IsFiniteSet(S) /\ Cardinality(S) \in Nat
  <2>1. IsFiniteSet(1..n)
    BY FS_Interval
  <2>2. IsFiniteSet(K)
    BY <2>1, FS_Subset
  <2> QED BY <2>2, FS_Subset, FS_CardinalityType
<1>2. \A i \in Int : R(i) \in Nat
  BY <1>1
<1>3. R(0) = 0 /\ R(n) = Cardinality(K)
  <2>1. \A k \in K : ~(k <= 0) /\ k <= n
    BY <1>0
  <2>2. upto(0) = {} /\ upto(n) = K
    BY <2>1, Zenon
  <2> QED BY <2>2, FS_EmptySet
<1>4. ASSUME NEW i \in Nat
      PROVE  R(i + 1) = IF i + 1 \in K THEN R(i) + 1 ELSE R(i)
  <2>1. CASE i + 1 \in K
    <3>0. /\ \A k \in K : k <= i + 1 <=> k <= i \/ k = i + 1
          /\ ~(i + 1 <= i)
      BY <1>0
    <3>1. upto(i + 1) = upto(i) \cup {i + 1} /\ i + 1 \notin upto(i)
      BY <2>1, <3>0, Zenon
    <3>2. IsFiniteSet(upto(i))
      BY <1>1
    <3> HIDE DEF upto
    <3> QED BY <2>1, <3>1, <3>2, FS_AddElement
  <2>2. CASE i + 1 \notin K
    <3>0. \A k \in K : k <= i + 1 <=> k <= i \/ k = i + 1
      BY <1>0
    <3>1. upto(i + 1) = upto(i)
      BY <2>2, <3>0, Zenon
    <3> QED BY <2>2, <3>1
  <2> QED BY <2>1, <2>2
<1>5. ASSUME NEW i \in Nat, NEW l \in Nat, i <= l PROVE R(i) <= R(l)
  <2>1. \A k \in K : k <= i => k <= l
    BY <1>0, <1>5
  <2>2. upto(i) \in SUBSET upto(l) /\ upto(l) \in SUBSET K
    BY <2>1, Zenon
  <2>3. IsFiniteSet(upto(l))
    BY <1>1, <2>2
  <2> HIDE DEF upto
  <2> QED BY <2>2, <2>3, FS_Subset
<1> HIDE DEF R
<1>6. ASSUME NEW i \in Nat, NEW l \in K, i < l PROVE R(i) < R(l)
  <2>1. l - 1 \in Nat /\ i <= l - 1 /\ (l - 1) + 1 = l
    BY <1>6
  <2>2. R(i) <= R(l - 1) /\ R(l) = R(l - 1) + 1
    BY <1>4, <1>5, <2>1
  <2> QED BY <1>2, <2>1, <2>2
<1>7. ASSUME NEW j \in 1..Cardinality(K) PROVE \E i \in K : R(i) = j
  <2> DEFINE S == {i \in Nat : R(i) >= j}
  <2>1. n \in S
    BY <1>1, <1>3
  <2>2. PICK m \in S : \A k \in S : m <= k
    <3>1. S \in SUBSET Nat /\ S # {}
      BY <2>1
    <3> HIDE DEF S
    <3> QED BY <3>1, Least
  <2>3. m # 0
    BY <1>3
  <2>4. m - 1 \in Nat /\ (m - 1) + 1 = m /\ R(m - 1) < j
    <3>1. m - 1 \in Nat /\ m - 1 \notin S
      BY <2>2, <2>3
    <3> QED BY <1>2, <3>1
  <2>5. R(m) = IF m \in K THEN R(m - 1) + 1 ELSE R(m - 1)
    BY <1>4, <2>4
  <2> QED BY <1>2, <2>2, <2>4, <2>5
<1>8. ASSUME NEW j \in 1..Cardinality(K) PROVE Nth(K, j) \in K /\ R(Nth(K, j)) = j
  <2>1. \E i \in K : Cardinality({k \in K : k <= i}) = j
    BY <1>7 DEF R
  <2> QED BY <2>1 DEF Nth, R
<1>9. ASSUME NEW j \in 1..Cardinality(K), NEW l \in 1..Cardinality(K), j < l
      PROVE  Nth(K, j) < Nth(K, l)
  <2>1. Nth(K, j) \in Nat /\ Nth(K, l) \in Nat
    BY <1>0, <1>8
  <2> QED BY <1>1, <1>5, <1>8, <1>9, <2>1
<1>10. ASSUME NEW i \in K PROVE \E j \in 1..Cardinality(K) : Nth(K, j) = i
  <2>1. R(i) \in 1..Cardinality(K)
    <3>1. 0 < i /\ i <= n /\ i \in Nat
      BY <1>0
    <3> QED BY <1>2, <1>3, <1>5, <1>6, <3>1
  <2>2. Nth(K, R(i)) \in K /\ R(Nth(K, R(i))) = R(i)
    BY <1>8, <2>1
  <2>3. Nth(K, R(i)) \in Nat /\ i \in Nat
    BY <1>0, <2>2
  <2>4. ~(Nth(K, R(i)) < i) /\ ~(i < Nth(K, R(i)))
    BY <1>2, <1>6, <2>2, <2>3
  <2>5. Nth(K, R(i)) = i
    BY <2>3, <2>4
  <2> QED BY <2>1, <2>5
<1> QED BY <1>1, <1>8, <1>9, <1>10

\* What is left of a list are the elements at the places that are kept.
LEMMA KeptFacts ==
    ASSUME NEW n \in Nat, NEW list, DOMAIN list = 1..n, NEW K \in SUBSET (1..n)
    PROVE  /\ DOMAIN Kept(list, K) = 1..Cardinality(K) /\ Cardinality(K) \in Nat
           /\ \A j \in DOMAIN Kept(list, K) : \E i \in K : Kept(list, K)[j] = list[i]
           /\ \A i \in K : \E j \in DOMAIN Kept(list, K) : Kept(list, K)[j] = list[i]
           /\ DOMAIN Kept(list, K) = {} <=> K = {}
<1>1. DOMAIN Kept(list, K) = 1..Cardinality(K)
  BY DEF Kept
<1>2. \A j \in 1..Cardinality(K) : Kept(list, K)[j] = list[Nth(K, j)]
  BY DEF Kept
<1>3. /\ Cardinality(K) \in Nat
      /\ \A j \in 1..Cardinality(K) : Nth(K, j) \in K
      /\ \A i \in K : \E j \in 1..Cardinality(K) : Nth(K, j) = i
  BY NthFacts
<1> QED BY <1>1, <1>2, <1>3, Zenon

\* Each element of the result is one of the elements kept
LEMMA EachIsKept ==
    ASSUME NEW n \in Nat, NEW list, DOMAIN list = 1..n,
           NEW K \in SUBSET (1..n), NEW j \in DOMAIN Kept(list, K)
    PROVE  \E i \in K : Kept(list, K)[j] = list[i]
<1>1. \A k \in DOMAIN Kept(list, K) : \E i \in K : Kept(list, K)[k] = list[i]
  BY KeptFacts
<1> QED BY <1>1

\* Each element kept is in the result
LEMMA EveryKept ==
    ASSUME NEW n \in Nat, NEW list, DOMAIN list = 1..n,
           NEW K \in SUBSET (1..n), NEW i \in K
    PROVE  \E j \in DOMAIN Kept(list, K) : Kept(list, K)[j] = list[i]
<1>1. \A k \in K : \E j \in DOMAIN Kept(list, K) : Kept(list, K)[j] = list[k]
  BY KeptFacts
<1> QED BY <1>1
============================================================================

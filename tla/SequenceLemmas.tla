--------------------------- MODULE SequenceLemmas ---------------------------
(***************************************************************************)
(* Facts about sequences and sets of places that several proofs need.      *)
(* What would be an induction over a sequence is an argument about a least *)
(* counterexample, about the size of a set, or about the set of the        *)
(* numbers up to which something holds (CountingUp).                       *)
(***************************************************************************)
EXTENDS Naturals, Sequences, FiniteSetsExt, Functions, Subsequences,
        FiniteSetTheorems, WellFoundedInduction, TLAPS

\* A sequence, whatever its elements are.
IsPath(s) == s \in Seq(Range(s))

\* One sequence begins with another.
Continues(s, t) ==
    /\ IsPath(t)
    /\ Len(s) <= Len(t)
    /\ \A i \in 1 .. Len(s) : t[i] = s[i]

-----------------------------------------------------------------------------
\* A sequence is one over its own elements.
LEMMA OverOwnRange ==
    ASSUME NEW S, NEW s \in Seq(S)
    PROVE  s \in Seq(Range(s))
  BY DEF Range

\* What is appended to a path comes behind what is there.
LEMMA ConcatContinues ==
    ASSUME NEW s, NEW t, IsPath(s), IsPath(t)
    PROVE  Continues(s, s \o t)
<1> DEFINE S == Range(s) \cup Range(t)
<1>1. s \in Seq(S) /\ t \in Seq(S)
  BY DEF IsPath, Range
<1> HIDE DEF S
<1>2. s \o t \in Seq(S)
  BY <1>1
<1>3. s \o t \in Seq(Range(s \o t))
  BY <1>2, OverOwnRange
<1>4. /\ Len(s) <= Len(s \o t)
      /\ \A i \in 1 .. Len(s) : (s \o t)[i] = s[i]
  BY <1>1
<1> QED
  BY <1>3, <1>4 DEF Continues, IsPath

\* So does a single fact.
LEMMA AppendContinues ==
    ASSUME NEW s, IsPath(s), NEW x
    PROVE  Continues(s, Append(s, x))
<1> DEFINE S == Range(s) \cup {x}
<1>1. s \in Seq(S) /\ x \in S
  BY DEF IsPath, Range
<1> HIDE DEF S
<1>2. Append(s, x) \in Seq(S)
  BY <1>1
<1>3. Append(s, x) \in Seq(Range(Append(s, x)))
  BY <1>2, OverOwnRange
<1>4. /\ Len(s) <= Len(Append(s, x))
      /\ \A i \in 1 .. Len(s) : Append(s, x)[i] = s[i]
  BY <1>1
<1> QED
  BY <1>3, <1>4 DEF Continues, IsPath

\* A path continues itself.
LEMMA SameContinues ==
    ASSUME NEW s, IsPath(s)
    PROVE  Continues(s, s)
  BY DEF Continues, IsPath

\* A prefix is that of every continuation.
LEMMA PrefixKept ==
    ASSUME NEW s, NEW t, IsPath(s), Continues(s, t), NEW n \in DOMAIN s
    PROVE  n \in DOMAIN t /\ SubSeq(t, 1, n) = SubSeq(s, 1, n)
<1>1. n \in 1 .. Len(s) /\ Len(s) \in Nat /\ n \in Nat
  BY DEF IsPath
<1>2. n \in 1 .. Len(t) /\ DOMAIN t = 1 .. Len(t)
  BY <1>1 DEF Continues, IsPath
<1>3. SubSeq(s, 1, n) = [i \in 1 .. n |-> s[i]]
  BY <1>1 DEF IsPath
<1>4. SubSeq(t, 1, n) = [i \in 1 .. n |-> t[i]]
  BY <1>1, <1>2 DEF Continues, IsPath
<1>5. \A i \in 1 .. n : t[i] = s[i]
  BY <1>1 DEF Continues
<1> QED
  BY <1>2, <1>3, <1>4, <1>5

\* Numbers have a least.
LEMMA LeastExists ==
    ASSUME NEW S \in SUBSET Nat, S # {}
    PROVE  \E m \in S : \A k \in S : m <= k
<1>1. \A a, b \in Nat : a < b => <<a, b>> \in OpToRel(<, Nat)
  BY DEF OpToRel
<1>2. PICK m \in S : \A k \in S : ~(<<k, m>> \in OpToRel(<, Nat))
  BY NatLessThanWellFounded, WFMin
<1>3. \A k \in S : k \in Nat /\ m \in Nat /\ ~(k < m)
  BY <1>1, <1>2
<1> QED
  BY <1>3

\* What 0 has and every number hands on, all numbers have.
LEMMA CountingUp ==
    ASSUME NEW S, 0 \in S, \A n \in Nat : n \in S => n + 1 \in S
    PROVE  Nat \subseteq S
<1> DEFINE missing == {n \in Nat : n \notin S}
<1>1. missing \in SUBSET Nat
  OBVIOUS
<1>2. ASSUME missing # {} PROVE FALSE
  <2>1. PICK m \in missing : \A k \in missing : m <= k
    BY <1>1, <1>2, LeastExists
  <2>2. m \in Nat /\ m \notin S /\ m # 0
    OBVIOUS
  <2>3. m - 1 \in Nat /\ m - 1 \notin missing
    BY <2>1, <2>2
  <2>4. (m - 1) + 1 \in S
    BY <2>3
  <2> QED
    BY <2>2, <2>4
<1> QED
  BY <1>2

\* A set of numbers up to n that is not empty has a greatest.
LEMMA GreatestExists ==
    ASSUME NEW n \in Nat, NEW S \in SUBSET (1 .. n), S # {}
    PROVE  \E m \in S : \A k \in S : m >= k
<1> DEFINE below == {n - k : k \in S}
<1>1. below \in SUBSET Nat /\ below # {}
  <2>1. \A k \in S : k \in Nat /\ k <= n /\ n - k \in Nat
    OBVIOUS
  <2> QED
    BY <2>1
<1> HIDE DEF below
<1>2. PICK d \in below : \A e \in below : ~(<<e, d>> \in OpToRel(<, Nat))
  BY <1>1, NatLessThanWellFounded, WFMin, Zenon
<1>3. \A e \in below : ~(e < d)
  <2>1. \A a, b \in Nat : a < b => <<a, b>> \in OpToRel(<, Nat)
    BY DEF OpToRel
  <2> QED
    BY <1>1, <1>2, <2>1, Zenon
<1>4. PICK m \in S : d = n - m
  BY <1>2 DEF below
<1>5. ASSUME NEW k \in S PROVE m >= k
  <2>1. n - k \in below
    BY DEF below
  <2>2. ~(n - k < n - m)
    BY <1>3, <1>4, <2>1
  <2> QED
    BY <2>2
<1> QED
  BY <1>4, <1>5

\* A path up to its end is the path.
LEMMA WholePath ==
    ASSUME NEW s, IsPath(s)
    PROVE  SubSeq(s, 1, Len(s)) = s
<1>1. Len(s) \in Nat /\ DOMAIN s = 1 .. Len(s) /\ s = [i \in 1 .. Len(s) |-> s[i]]
  BY DEF IsPath
<1>2. SubSeq(s, 1, Len(s)) = [i \in 1 .. Len(s) |-> s[i]]
  BY <1>1 DEF IsPath
<1> QED
  BY <1>1, <1>2

\* Prefixes are paths.
LEMMA PrefixIsPath ==
    ASSUME NEW s, IsPath(s), NEW n \in 1 .. Len(s)
    PROVE  /\ IsPath(SubSeq(s, 1, n)) /\ Len(SubSeq(s, 1, n)) = n
           /\ \A i \in 1 .. n : SubSeq(s, 1, n)[i] = s[i]
<1> DEFINE S == Range(s)
<1>1. s \in Seq(S) /\ n \in Nat /\ Len(s) \in Nat
  BY DEF IsPath
<1> HIDE DEF S
<1>2. SubSeq(s, 1, n) \in Seq(S)
  BY <1>1
<1>3. SubSeq(s, 1, n) \in Seq(Range(SubSeq(s, 1, n)))
  BY <1>2, OverOwnRange
<1>4. Len(SubSeq(s, 1, n)) = n /\ \A i \in 1 .. n : SubSeq(s, 1, n)[i] = s[i]
  BY <1>1
<1> QED
  BY <1>3, <1>4 DEF IsPath

\* A function of the places of a sequence is a sequence.
LEMMA MapIsPath ==
    ASSUME NEW s, IsPath(s), NEW t, t = [k \in DOMAIN s |-> t[k]]
    PROVE  IsPath(t) /\ Len(t) = Len(s)
<1> DEFINE n == Len(s)
           S == Range(t)
<1>1. n \in Nat /\ DOMAIN s = 1 .. n
  BY DEF IsPath
<1> HIDE DEF n
<1>2. t \in [1 .. n -> S]
  BY <1>1 DEF Range
<1> HIDE DEF S
<1>3. t \in Seq(S) /\ Len(t) = n
  BY <1>1, <1>2
<1> QED
  BY <1>3 DEF S, n, IsPath

\* The first elements of a sequence are those of the sequence with one more.
LEMMA AppendIsPath ==
    ASSUME NEW s, IsPath(s), NEW x
    PROVE  /\ IsPath(Append(s, x)) /\ Len(Append(s, x)) = Len(s) + 1
           /\ \A k \in 1 .. Len(s) : Append(s, x)[k] = s[k]
           /\ Append(s, x)[Len(s) + 1] = x
<1> DEFINE S == Range(s) \cup {x}
<1>1. s \in Seq(S) /\ x \in S
  BY DEF IsPath, Range
<1> HIDE DEF S
<1>2. Append(s, x) \in Seq(S)
  BY <1>1
<1>3. Append(s, x) \in Seq(Range(Append(s, x)))
  BY <1>2, OverOwnRange
<1>4. /\ Len(Append(s, x)) = Len(s) + 1
      /\ \A k \in 1 .. Len(s) : Append(s, x)[k] = s[k]
      /\ Append(s, x)[Len(s) + 1] = x
  BY <1>1
<1> QED
  BY <1>3, <1>4 DEF IsPath

\* What is left of a sequence without its first element.
LEMMA TailIsPath ==
    ASSUME NEW s, IsPath(s), s # << >>
    PROVE  /\ IsPath(Tail(s)) /\ Len(s) \in Nat /\ Len(s) >= 1 /\ Len(Tail(s)) = Len(s) - 1
           /\ Head(s) = s[1]
           /\ \A k \in 1 .. Len(s) - 1 : Tail(s)[k] = s[k + 1]
<1> DEFINE S == Range(s)
<1>1. s \in Seq(S)
  BY DEF IsPath
<1> HIDE DEF S
<1>2. Tail(s) \in Seq(S)
  BY <1>1
<1>3. Tail(s) \in Seq(Range(Tail(s)))
  BY <1>2, OverOwnRange
<1>4. /\ Len(s) \in Nat /\ Len(s) >= 1 /\ Len(Tail(s)) = Len(s) - 1
      /\ Head(s) = s[1]
      /\ \A k \in 1 .. Len(s) - 1 : Tail(s)[k] = s[k + 1]
  BY <1>1
<1> QED
  BY <1>3, <1>4 DEF IsPath

\* A concatenation has the elements of both.
LEMMA ConcatElements ==
    ASSUME NEW s, NEW t, IsPath(s), IsPath(t)
    PROVE  IsPath(s \o t) /\ Range(s) \cup Range(t) \subseteq Range(s \o t)
<1>1. IsPath(s \o t)
  BY ConcatContinues DEF Continues
<1>2. Len(s) \in Nat /\ Len(t) \in Nat /\ DOMAIN s = 1 .. Len(s) /\ DOMAIN t = 1 .. Len(t)
  BY DEF IsPath
<1>3. /\ DOMAIN (s \o t) = 1 .. Len(s) + Len(t)
      /\ \A k \in 1 .. Len(s) : (s \o t)[k] = s[k]
      /\ \A k \in 1 .. Len(t) : (s \o t)[Len(s) + k] = t[k]
  <2> DEFINE S == Range(s) \cup Range(t)
  <2>1. s \in Seq(S) /\ t \in Seq(S)
    BY DEF IsPath, Range
  <2> HIDE DEF S
  <2> QED
    BY <2>1
<1>4. \A k \in 1 .. Len(s) : k \in DOMAIN (s \o t)
  BY <1>2, <1>3
<1>5. \A k \in 1 .. Len(t) : Len(s) + k \in DOMAIN (s \o t)
  BY <1>2, <1>3
<1> QED
  BY <1>1, <1>2, <1>3, <1>4, <1>5 DEF Range

\* Paths that are joined one after the other hold what each of them holds.
LEMMA JoinedElements ==
    ASSUME NEW s, NEW t, IsPath(s), IsPath(t)
    PROVE  /\ IsPath(s \o t) /\ Len(s \o t) = Len(s) + Len(t)
           /\ Len(s) \in Nat /\ Len(t) \in Nat
           /\ \A k \in 1 .. Len(s) : (s \o t)[k] = s[k]
           /\ \A k \in 1 .. Len(t) : (s \o t)[Len(s) + k] = t[k]
           /\ Range(s \o t) = Range(s) \cup Range(t)
<1> DEFINE S == Range(s) \cup Range(t)
<1>1. s \in Seq(S) /\ t \in Seq(S)
  BY DEF IsPath, Range
<1> HIDE DEF S
<1>2. /\ s \o t \in Seq(S) /\ Len(s \o t) = Len(s) + Len(t)
      /\ Len(s) \in Nat /\ Len(t) \in Nat
      /\ DOMAIN s = 1 .. Len(s) /\ DOMAIN t = 1 .. Len(t) /\ DOMAIN (s \o t) = 1 .. Len(s) + Len(t)
      /\ \A k \in 1 .. Len(s) : (s \o t)[k] = s[k]
      /\ \A k \in 1 .. Len(t) : (s \o t)[Len(s) + k] = t[k]
  BY <1>1
<1>3. Range(s) \cup Range(t) \subseteq Range(s \o t)
  BY ConcatElements
<1>4. ASSUME NEW k \in 1 .. Len(s) + Len(t) PROVE (s \o t)[k] \in Range(s) \cup Range(t)
  <2>1. CASE k <= Len(s)
    BY <1>2, <2>1 DEF Range
  <2>2. CASE k > Len(s)
    <3>1. k - Len(s) \in 1 .. Len(t) /\ Len(s) + (k - Len(s)) = k
      BY <1>2, <2>2
    <3>2. (s \o t)[k] = t[k - Len(s)]
      BY <1>2, <3>1
    <3> QED
      BY <1>2, <3>1, <3>2 DEF Range
  <2> QED
    BY <1>2, <2>1, <2>2
<1>5. Range(s \o t) \subseteq Range(s) \cup Range(t)
  BY <1>2, <1>4 DEF Range
<1> QED
  BY <1>2, <1>3, <1>5, OverOwnRange DEF IsPath

\* A path with one element behind it.
LEMMA OneJoined ==
    ASSUME NEW s, IsPath(s), NEW t, IsPath(t), Len(t) = 1
    PROVE  /\ IsPath(s \o t) /\ Len(s \o t) = Len(s) + 1
           /\ \A k \in 1 .. Len(s) : (s \o t)[k] = s[k]
           /\ (s \o t)[Len(s) + 1] = t[1]
<1>1. /\ IsPath(s \o t) /\ Len(s \o t) = Len(s) + Len(t)
      /\ \A k \in 1 .. Len(s) : (s \o t)[k] = s[k]
      /\ \A k \in 1 .. Len(t) : (s \o t)[Len(s) + k] = t[k]
  BY JoinedElements
<1>2. 1 \in 1 .. Len(t)
  OBVIOUS
<1> QED
  BY <1>1, <1>2

-----------------------------------------------------------------------------
(***************************************************************************)
(* The elements at a set of places.                                        *)
(***************************************************************************)
\* The number of smaller places numbers the places.
LEMMA RanksNumber ==
    ASSUME NEW I \in SUBSET Nat, IsFiniteSet(I)
    PROVE  LET rank == [i \in I |-> Cardinality({j \in I : j < i})]
           IN  /\ \A i, j \in I : i < j => rank[i] < rank[j]
               /\ rank \in Surjection(I, 0 .. Cardinality(I) - 1)
<1> DEFINE below(i) == {j \in I : j < i}
           rank == [i \in I |-> Cardinality(below(i))]
           c == Cardinality(I)
<1>1. c \in Nat
  BY FS_CardinalityType
<1>2. ASSUME NEW i \in I
      PROVE  IsFiniteSet(below(i)) /\ Cardinality(below(i)) \in 0 .. c - 1
  <2>1. IsFiniteSet(I \ {i}) /\ Cardinality(I \ {i}) = c - 1
    BY FS_RemoveElement
  <2>2. below(i) \in SUBSET (I \ {i})
    OBVIOUS
  <2> HIDE DEF below
  <2>3. IsFiniteSet(below(i)) /\ Cardinality(below(i)) <= Cardinality(I \ {i})
    BY <2>1, <2>2, FS_Subset
  <2>4. Cardinality(below(i)) \in Nat
    BY <2>3, FS_CardinalityType
  <2> QED
    BY <1>1, <2>1, <2>3, <2>4
<1>3. ASSUME NEW i \in I, NEW j \in I, i < j
      PROVE  Cardinality(below(i)) < Cardinality(below(j))
  <2>1. below(i) \cup {i} \in SUBSET below(j) /\ i \notin below(i)
    <3>1. i \in Nat /\ j \in Nat /\ ~(i < i)
      OBVIOUS
    <3>2. \A x \in I : x < i => x < j
      BY <1>3
    <3> QED
      BY <1>3, <3>1, <3>2
  <2>2. IsFiniteSet(below(i)) /\ IsFiniteSet(below(j)) /\ Cardinality(below(i)) \in Nat /\ Cardinality(below(j)) \in Nat
    BY <1>2, FS_CardinalityType
  <2> HIDE DEF below
  <2>3. Cardinality(below(i) \cup {i}) = Cardinality(below(i)) + 1
    BY <2>1, <2>2, FS_AddElement
  <2>4. Cardinality(below(i) \cup {i}) <= Cardinality(below(j))
    BY <2>1, <2>2, FS_Subset
  <2> QED
    BY <2>2, <2>3, <2>4
<1>4. \A i \in I : rank[i] = Cardinality(below(i))
  OBVIOUS
<1>5. rank \in [I -> 0 .. c - 1]
  BY <1>2
<1> HIDE DEF rank, below, c
<1>6. \A i, j \in I : i < j => rank[i] < rank[j]
  BY <1>3, <1>4
<1>7. \A i, j \in I : rank[i] = rank[j] => i = j
  <2> SUFFICES ASSUME NEW i \in I, NEW j \in I, rank[i] = rank[j], i # j PROVE FALSE
    OBVIOUS
  <2>1. i \in Nat /\ j \in Nat /\ rank[i] \in Nat
    BY <1>1, <1>5
  <2>2. i < j \/ j < i
    BY <2>1
  <2> QED
    BY <1>6, <2>1, <2>2
<1>8. rank \in Injection(I, 0 .. c - 1)
  BY <1>5, <1>7 DEF Injection, IsInjective
<1>9. IsFiniteSet(0 .. c - 1) /\ Cardinality(0 .. c - 1) = c
  BY <1>1, FS_Interval
<1>10. rank \in Surjection(I, 0 .. c - 1)
  BY <1>8, <1>9, FS_Injection DEF c
<1> QED
  BY <1>6, <1>10 DEF rank, below, c

\* The places come in their order, and each of them comes.
LEMMA PlacesInOrder ==
    ASSUME NEW I \in SUBSET Nat, IsFiniteSet(I)
    PROVE  /\ \A k \in 1 .. Cardinality(I) : NthOf(I, k) \in I
           /\ \A k, m \in 1 .. Cardinality(I) : k < m => NthOf(I, k) < NthOf(I, m)
           /\ \A i \in I : \E k \in 1 .. Cardinality(I) : NthOf(I, k) = i
<1> DEFINE rank == [i \in I |-> Cardinality({j \in I : j < i})]
           c == Cardinality(I)
           at(k) == NthOf(I, k)
<1>1. c \in Nat
  BY FS_CardinalityType
<1>2. \A i, j \in I : i < j => rank[i] < rank[j]
  BY RanksNumber
<1>3. rank \in Surjection(I, 0 .. c - 1)
  BY RanksNumber
<1>4. \A i \in I : rank[i] \in 0 .. c - 1
  BY <1>3 DEF Surjection
<1>5. \A n \in 0 .. c - 1 : \E i \in I : rank[i] = n
  BY <1>3 DEF Surjection
<1>6. ASSUME NEW k \in 1 .. c
      PROVE  at(k) \in I /\ rank[at(k)] = k - 1
  <2>1. \E i \in I : Cardinality({j \in I : j < i}) = k - 1
    <3>0. k - 1 \in 0 .. c - 1
      <4> HIDE DEF c
      <4> QED
        BY <1>1
    <3>1. PICK i \in I : rank[i] = k - 1
      <4> HIDE DEF rank, c
      <4> QED
        BY <1>5, <3>0
    <3> QED
      BY <3>1
  <2>2. at(k) \in I /\ Cardinality({j \in I : j < at(k)}) = k - 1
    BY <2>1 DEF NthOf
  <2> QED
    BY <2>2
<1> HIDE DEF rank, c, at
<1>7. ASSUME NEW i \in I, NEW j \in I, rank[i] = rank[j] PROVE i = j
  <2>1. i \in Nat /\ j \in Nat /\ rank[i] \in Nat
    BY <1>1, <1>4
  <2>2. ~(i < j) /\ ~(j < i)
    BY <1>2, <1>7, <2>1
  <2> QED
    BY <2>1, <2>2
<1>8. ASSUME NEW k \in 1 .. c, NEW m \in 1 .. c, k < m PROVE at(k) < at(m)
  <2>1. at(k) \in I /\ at(m) \in I /\ rank[at(k)] = k - 1 /\ rank[at(m)] = m - 1
    BY <1>6
  <2>2. ~(at(m) < at(k)) /\ at(m) # at(k)
    <3>1. rank[at(k)] \in Int /\ rank[at(m)] \in Int /\ rank[at(k)] < rank[at(m)]
      BY <1>1, <1>8, <2>1
    <3>2. ~(rank[at(m)] < rank[at(k)]) /\ rank[at(m)] # rank[at(k)]
      BY <3>1
    <3> QED
      BY <1>2, <2>1, <3>2
  <2>3. at(k) \in Nat /\ at(m) \in Nat
    BY <2>1
  <2> QED
    BY <2>2, <2>3
<1>9. ASSUME NEW i \in I PROVE \E k \in 1 .. c : at(k) = i
  <2>1. PICK k \in 1 .. c : k - 1 = rank[i]
    <3>1. rank[i] + 1 \in 1 .. c /\ (rank[i] + 1) - 1 = rank[i]
      BY <1>1, <1>4
    <3> QED
      BY <3>1
  <2> QED
    BY <1>6, <1>7, <2>1
<1> QED
  BY <1>6, <1>8, <1>9 DEF c, at

\* The elements at some places of a sequence are a sequence of them, in their order.
LEMMA ElementsAreThose ==
    ASSUME NEW s, IsPath(s), NEW I \in SUBSET DOMAIN s
    PROVE  LET r == ElementsAt(s, I)
           IN  /\ IsPath(r)
               /\ IsFiniteSet(I) /\ I \in SUBSET Nat /\ Len(r) = Cardinality(I)
               /\ \A k \in 1 .. Len(r) : NthOf(I, k) \in I /\ r[k] = s[NthOf(I, k)]
               /\ \A k, m \in 1 .. Len(r) : k < m => NthOf(I, k) < NthOf(I, m)
               /\ \A i \in I : \E k \in 1 .. Len(r) : NthOf(I, k) = i
<1> DEFINE r == ElementsAt(s, I)
           c == Cardinality(I)
<1>1. DOMAIN s = 1 .. Len(s) /\ Len(s) \in Nat
  BY DEF IsPath
<1>2. I \in SUBSET Nat /\ IsFiniteSet(I)
  <2>1. IsFiniteSet(1 .. Len(s))
    BY <1>1, FS_Interval
  <2> QED
    BY <1>1, <2>1, FS_Subset
<1>3. c \in Nat
  BY <1>2, FS_CardinalityType
<1>4. r = [k \in 1 .. c |-> s[NthOf(I, k)]]
  BY DEF ElementsAt
<1> HIDE DEF r
<1>5. r \in Seq(Range(r)) /\ Len(r) = c
  <2> DEFINE S == Range(r)
  <2>1. r \in [1 .. c -> S]
    BY <1>4 DEF Range
  <2> HIDE DEF S
  <2> QED
    BY <1>3, <2>1 DEF S
<1>6. \A k \in 1 .. c : r[k] = s[NthOf(I, k)]
  BY <1>4
<1>7. /\ \A k \in 1 .. c : NthOf(I, k) \in I
      /\ \A k, m \in 1 .. c : k < m => NthOf(I, k) < NthOf(I, m)
      /\ \A i \in I : \E k \in 1 .. c : NthOf(I, k) = i
  BY <1>2, PlacesInOrder
<1> HIDE DEF c
<1> QED
  BY <1>2, <1>5, <1>6, <1>7 DEF r, c, IsPath

\* The places that a selection names are places of the sequence.
LEMMA SelectionIsPath ==
    ASSUME NEW s, IsPath(s), NEW I \in SUBSET DOMAIN s
    PROVE  IsPath(ElementsAt(s, I))
  BY ElementsAreThose

\* A function that lists a set of places in their order numbers them.
LEMMA Numbered ==
    ASSUME NEW n \in Nat, NEW I \in SUBSET Nat, NEW h \in [1 .. n -> I],
           \A k, m \in 1 .. n : k < m => h[k] < h[m],
           \A i \in I : \E k \in 1 .. n : h[k] = i
    PROVE  IsFiniteSet(I) /\ Cardinality(I) = n /\ \A k \in 1 .. n : NthOf(I, k) = h[k]
<1>1. ASSUME NEW m \in 0 .. n, NEW J \in SUBSET I, \A k \in 1 .. n : h[k] \in J <=> k <= m
      PROVE  IsFiniteSet(J) /\ Cardinality(J) = m
  <2> DEFINE g == [k \in 1 .. m |-> h[k]]
  <2>1. \A k \in 1 .. m : k \in 1 .. n /\ h[k] \in J /\ g[k] = h[k]
    BY <1>1
  <2>2. g \in [1 .. m -> J]
    BY <2>1
  <2>3. \A a, b \in 1 .. m : g[a] = g[b] => a = b
    <3> SUFFICES ASSUME NEW a \in 1 .. m, NEW b \in 1 .. m, a # b PROVE g[a] # g[b]
      OBVIOUS
    <3>1. a < b \/ b < a
      OBVIOUS
    <3>2. h[a] \in Nat /\ h[b] \in Nat /\ (h[a] < h[b] \/ h[b] < h[a])
      BY <2>1, <3>1
    <3>3. h[a] # h[b]
      BY <3>2
    <3> QED
      BY <2>1, <3>3
  <2>4. \A j \in J : \E k \in 1 .. m : g[k] = j
    <3> SUFFICES ASSUME NEW j \in J PROVE \E k \in 1 .. m : g[k] = j
      OBVIOUS
    <3>1. PICK k \in 1 .. n : h[k] = j
      OBVIOUS
    <3>2. k \in 1 .. m
      BY <1>1, <3>1
    <3> QED
      BY <2>1, <3>1, <3>2
  <2> HIDE DEF g
  <2>5. g \in Bijection(1 .. m, J)
    BY <2>2, <2>3, <2>4 DEF Bijection, Injection, Surjection, IsInjective
  <2>6. IsFiniteSet(1 .. m) /\ Cardinality(1 .. m) = m
    BY FS_Interval
  <2>7. ExistsBijection(1 .. m, J)
    BY <2>5 DEF ExistsBijection
  <2> QED
    BY <2>6, <2>7, FS_Bijection
<1>2. IsFiniteSet(I) /\ Cardinality(I) = n
  BY <1>1
<1>3. ASSUME NEW k \in 1 .. n PROVE Cardinality({j \in I : j < h[k]}) = k - 1
  <2> DEFINE J == {j \in I : j < h[k]}
  <2>1. \A m \in 1 .. n : h[m] \in J <=> m <= k - 1
    <3> SUFFICES ASSUME NEW m \in 1 .. n PROVE h[m] < h[k] <=> m <= k - 1
      OBVIOUS
    <3>1. h[m] \in Nat /\ h[k] \in Nat
      OBVIOUS
    <3>2. m < k \/ m = k \/ k < m
      OBVIOUS
    <3>3. k < m => h[k] < h[m]
      OBVIOUS
    <3>4. m < k => h[m] < h[k]
      OBVIOUS
    <3> QED
      BY <3>1, <3>2, <3>3, <3>4
  <2>2. k - 1 \in 0 .. n /\ J \in SUBSET I
    OBVIOUS
  <2> HIDE DEF J
  <2>3. Cardinality(J) = k - 1
    BY <1>1, <2>1, <2>2
  <2> QED
    BY <2>3 DEF J
<1>4. ASSUME NEW k \in 1 .. n PROVE NthOf(I, k) = h[k]
  <2>1. \E i \in I : Cardinality({j \in I : j < i}) = k - 1
    BY <1>3
  <2>2. NthOf(I, k) \in I /\ Cardinality({j \in I : j < NthOf(I, k)}) = k - 1
    BY <2>1 DEF NthOf
  <2>3. PICK m \in 1 .. n : h[m] = NthOf(I, k)
    BY <2>2
  <2>4. m - 1 = k - 1
    BY <1>3, <2>2, <2>3
  <2>5. m = k
    BY <2>4
  <2> QED
    BY <2>3, <2>5
<1> QED
  BY <1>2, <1>4

\* No places, no elements; some places, some elements.
LEMMA NoneSelected ==
    ASSUME NEW s, IsPath(s), NEW I \in SUBSET DOMAIN s
    PROVE  ElementsAt(s, I) = << >> <=> I = {}
<1> DEFINE r == ElementsAt(s, I)
<1>1. /\ IsPath(r) /\ Len(r) = Cardinality(I) /\ IsFiniteSet(I)
      /\ \A i \in I : \E k \in 1 .. Len(r) : NthOf(I, k) = i
      /\ \A k \in 1 .. Len(r) : NthOf(I, k) \in I
  BY ElementsAreThose
<1> HIDE DEF r
<1>2. Len(r) \in Nat /\ r = [k \in 1 .. Len(r) |-> r[k]]
  BY <1>1 DEF IsPath
<1>3. I = {} => Len(r) = 0
  <2> SUFFICES ASSUME I = {}, Len(r) # 0 PROVE FALSE
    OBVIOUS
  <2>1. 1 \in 1 .. Len(r)
    BY <1>2
  <2> QED
    BY <1>1, <2>1
<1>4. r = << >> => Len(r) = 0
  OBVIOUS
<1>5. Len(r) = 0 => r = << >>
  BY <1>2
<1>6. Len(r) = 0 => I = {}
  BY <1>1
<1> QED
  BY <1>3, <1>4, <1>5, <1>6 DEF r

\* The elements of a selection, as a set.
LEMMA SelectedRange ==
    ASSUME NEW s, IsPath(s), NEW I \in SUBSET DOMAIN s
    PROVE  Range(ElementsAt(s, I)) = {s[i] : i \in I}
<1> DEFINE r == ElementsAt(s, I)
<1>1. /\ IsPath(r)
      /\ \A k \in 1 .. Len(r) : NthOf(I, k) \in I /\ r[k] = s[NthOf(I, k)]
      /\ \A i \in I : \E k \in 1 .. Len(r) : NthOf(I, k) = i
  BY ElementsAreThose
<1> HIDE DEF r
<1>2. DOMAIN r = 1 .. Len(r)
  BY <1>1 DEF IsPath
<1>3. Range(r) = {s[i] : i \in I}
  BY <1>1, <1>2 DEF Range
<1> QED
  BY <1>3 DEF r

\* The same places of two sequences that agree there yield the same elements.
LEMMA SameSelection ==
    ASSUME NEW s, IsPath(s), NEW t, NEW I \in SUBSET DOMAIN s, \A i \in I : s[i] = t[i]
    PROVE  ElementsAt(s, I) = ElementsAt(t, I)
<1>1. /\ Len(ElementsAt(s, I)) = Cardinality(I) /\ IsFiniteSet(I)
      /\ \A k \in 1 .. Len(ElementsAt(s, I)) : NthOf(I, k) \in I
  BY ElementsAreThose
<1>2. \A k \in 1 .. Cardinality(I) : s[NthOf(I, k)] = t[NthOf(I, k)]
  BY <1>1
<1> QED
  BY <1>2 DEF ElementsAt

-----------------------------------------------------------------------------
\* K lists the elements of R at the places H, each once, in some order.
Lists(K, R, H) ==
    \E h \in [DOMAIN K -> H] :
      /\ \A k \in DOMAIN K : K[k] = R[h[k]]
      /\ \A k, m \in DOMAIN K : h[k] = h[m] => k = m
      /\ \A i \in H : \E k \in DOMAIN K : h[k] = i

\* Of what a list holds, a loop keeps some.
LEMMA ListsSome ==
    ASSUME NEW K, IsPath(K), NEW R, NEW H, Lists(K, R, H),
           NEW A \in SUBSET DOMAIN K, NEW G \in SUBSET H,
           \A k \in DOMAIN K, i \in H : K[k] = R[i] => (k \in A <=> i \in G)
    PROVE  Lists(ElementsAt(K, A), R, G)
<1> DEFINE r == ElementsAt(K, A)
           at(k) == NthOf(A, k)
<1>1. PICK h \in [DOMAIN K -> H] :
        /\ \A k \in DOMAIN K : K[k] = R[h[k]]
        /\ \A k, m \in DOMAIN K : h[k] = h[m] => k = m
        /\ \A i \in H : \E k \in DOMAIN K : h[k] = i
  BY DEF Lists
<1>3. /\ IsPath(r)
      /\ A \in SUBSET Nat
      /\ \A k \in 1 .. Len(r) : at(k) \in A /\ r[k] = K[at(k)]
      /\ \A k, m \in 1 .. Len(r) : k < m => at(k) < at(m)
      /\ \A i \in A : \E k \in 1 .. Len(r) : at(k) = i
  BY ElementsAreThose
<1>4. DOMAIN r = 1 .. Len(r) /\ Len(r) \in Nat
  BY <1>3 DEF IsPath
<1>5. \A k \in A : k \in DOMAIN K /\ h[k] \in G
  BY <1>1
<1>6. \A i \in G : \E k \in A : h[k] = i
  BY <1>1
<1> HIDE DEF r, at
<1> DEFINE g == [k \in DOMAIN r |-> h[at(k)]]
<1>7. g \in [DOMAIN r -> G]
  BY <1>3, <1>4, <1>5
<1>8. \A k \in DOMAIN r : g[k] = h[at(k)] /\ at(k) \in A /\ r[k] = K[at(k)]
  BY <1>3, <1>4
<1> HIDE DEF g
<1>9. \A k \in DOMAIN r : r[k] = R[g[k]]
  BY <1>1, <1>5, <1>8
<1>10. \A k, m \in DOMAIN r : g[k] = g[m] => k = m
  <2> SUFFICES ASSUME NEW k \in DOMAIN r, NEW m \in DOMAIN r, g[k] = g[m], k # m PROVE FALSE
    OBVIOUS
  <2>1. at(k) = at(m)
    BY <1>1, <1>5, <1>8
  <2>2. k \in Nat /\ m \in Nat /\ at(k) \in Nat
    <3>1. at(k) \in A /\ A \in SUBSET Nat
      BY <1>3, <1>8
    <3>2. at(k) \in Nat
      BY <3>1
    <3>3. k \in 1 .. Len(r) /\ m \in 1 .. Len(r)
      BY <1>4
    <3>4. k \in Nat /\ m \in Nat
      BY <3>3
    <3> QED
      BY <3>2, <3>4
  <2>3. k < m \/ m < k
    BY <2>2
  <2> QED
    BY <1>3, <1>4, <2>1, <2>2, <2>3
<1>11. ASSUME NEW i \in G PROVE \E k \in DOMAIN r : g[k] = i
  <2>1. PICK j \in A : h[j] = i
    BY <1>6
  <2>2. PICK k \in 1 .. Len(r) : at(k) = j
    BY <1>3
  <2>3. k \in DOMAIN r /\ g[k] = h[at(k)]
    BY <1>4, <1>8
  <2> QED
    BY <2>1, <2>2, <2>3
<1>12. Lists(r, R, G)
  BY <1>7, <1>9, <1>10, <1>11 DEF Lists
<1> QED
  BY <1>12 DEF r

\* A list that holds some places once is as long as they are many.
LEMMA ListsCount ==
    ASSUME NEW K, IsPath(K), NEW R, NEW H, Lists(K, R, H)
    PROVE  /\ Len(K) = Cardinality(H)
           /\ \A k \in DOMAIN K : \E i \in H : K[k] = R[i]
           /\ \A i \in H : \E k \in DOMAIN K : K[k] = R[i]
<1>1. PICK h \in [DOMAIN K -> H] :
        /\ \A k \in DOMAIN K : K[k] = R[h[k]]
        /\ \A k, m \in DOMAIN K : h[k] = h[m] => k = m
        /\ \A i \in H : \E k \in DOMAIN K : h[k] = i
  BY DEF Lists
<1>2. DOMAIN K = 1 .. Len(K) /\ Len(K) \in Nat
  BY DEF IsPath
<1>3. IsFiniteSet(DOMAIN K) /\ Cardinality(DOMAIN K) = Len(K)
  <2>1. PICK n \in Nat : n = Len(K)
    BY <1>2
  <2>2. IsFiniteSet(1 .. n) /\ Cardinality(1 .. n) = IF 1 > n THEN 0 ELSE n - 1 + 1
    BY FS_Interval
  <2>3. Cardinality(1 .. n) = n
    BY <2>2
  <2> QED
    BY <1>2, <2>1, <2>2, <2>3
<1>4. h \in Surjection(DOMAIN K, H) /\ h \in Injection(DOMAIN K, H)
  BY <1>1 DEF Surjection, Injection, IsInjective
<1>5. ExistsBijection(DOMAIN K, H)
  BY <1>4 DEF ExistsBijection, Bijection
<1>6. Cardinality(H) = Cardinality(DOMAIN K)
  BY <1>3, <1>5, FS_Bijection
<1> QED
  BY <1>1, <1>3, <1>6
=============================================================================

------------------------- MODULE SubsequencesProofs ---------------------------
(***************************************************************************)
(* What a filter, a pop and an append do to a list, said of its elements   *)
(* (Range), of whether one is in it twice (IsInjective) and of which comes *)
(* before which (Before), so that proofs about queues need no positions.   *)
(***************************************************************************)
EXTENDS Subsequences, FiniteSetTheorems, TLAPS

(* Nth(I, 1), Nth(I, 2), ... are the members of I in increasing order. *)
LEMMA NthOrder ==
    ASSUME NEW n \in Nat, NEW I \in SUBSET (1 .. n)
    PROVE  /\ Cardinality(I) \in Nat
           /\ \A k \in 1 .. Cardinality(I) : Nth(I, k) \in I
           /\ \A k, l \in 1 .. Cardinality(I) : k < l => Nth(I, k) < Nth(I, l)
           /\ \A i \in I : \E k \in 1 .. Cardinality(I) : Nth(I, k) = i
<1> DEFINE UpTo(i) == {j \in I : j <= i}
           rank == [i \in I |-> Cardinality(UpTo(i))]
           N == Cardinality(I)
<1> HIDE DEF UpTo, rank, N
<1>0. \A i \in I : i \in Int
  OBVIOUS
<1>1. IsFiniteSet(I)
  <2>1. IsFiniteSet(1 .. n)
    BY FS_Interval
  <2> QED
    BY <2>1, FS_Subset
<1>2. N \in Nat
  BY <1>1, FS_CardinalityType DEF N
<1>3. \A i \in I : IsFiniteSet(UpTo(i)) /\ rank[i] = Cardinality(UpTo(i)) /\ rank[i] \in 1 .. N
  <2> SUFFICES ASSUME NEW i \in I
               PROVE  IsFiniteSet(UpTo(i)) /\ Cardinality(UpTo(i)) \in 1 .. N
    BY DEF rank
  <2>1. UpTo(i) \in SUBSET I /\ i \in UpTo(i)
    BY <1>0 DEF UpTo
  <2>2. IsFiniteSet(UpTo(i)) /\ Cardinality(UpTo(i)) <= N
    BY <1>1, <2>1, FS_Subset DEF N
  <2>3. Cardinality(UpTo(i)) \in Nat /\ Cardinality(UpTo(i)) # 0
    BY <2>1, <2>2, FS_CardinalityType, FS_EmptySet
  <2> QED
    BY <1>2, <2>2, <2>3
<1>4. \A i, j \in I : i < j => rank[i] < rank[j]
  <2> SUFFICES ASSUME NEW i \in I, NEW j \in I, i < j
               PROVE  rank[i] < rank[j]
    OBVIOUS
  <2>1. UpTo(i) \in SUBSET UpTo(j) /\ j \in UpTo(j) /\ j \notin UpTo(i)
    <3>1. (\A h \in I : h <= i => h <= j) /\ j <= j /\ ~ (j <= i)
      BY <1>0
    <3> QED
      BY <3>1 DEF UpTo
  <2>2. /\ Cardinality(UpTo(i)) <= Cardinality(UpTo(j))
        /\ Cardinality(UpTo(i)) # Cardinality(UpTo(j))
    BY <1>3, <2>1, FS_Subset
  <2>3. rank[i] \in Int /\ rank[j] \in Int
    BY <1>2, <1>3
  <2> QED
    BY <1>3, <2>2, <2>3
<1>5. \A i, j \in I : rank[i] = rank[j] => i = j
  BY <1>0, <1>2, <1>3, <1>4
<1>6. \A k \in 1 .. N : \E i \in I : rank[i] = k
  <2>1. IsFiniteSet(1 .. N) /\ Cardinality(1 .. N) = N
    BY <1>2, FS_Interval
  <2>2. rank \in Injection(I, 1 .. N)
    BY <1>3, <1>5 DEF Injection, IsInjective, rank
  <2>3. rank \in Surjection(I, 1 .. N)
    BY <2>1, <2>2, FS_Injection DEF N
  <2> QED
    BY <2>3 DEF Surjection
<1>7. \A k \in 1 .. N : Nth(I, k) \in I /\ rank[Nth(I, k)] = k
  <2> SUFFICES ASSUME NEW k \in 1 .. N
               PROVE  Nth(I, k) \in I /\ Cardinality(UpTo(Nth(I, k))) = k
    BY <1>3
  <2>1. \E i \in I : Cardinality(UpTo(i)) = k
    BY <1>3, <1>6
  <2> QED
    BY <2>1 DEF Nth, UpTo
<1>8. \A k, l \in 1 .. N : k < l => Nth(I, k) < Nth(I, l)
  <2> SUFFICES ASSUME NEW k \in 1 .. N, NEW l \in 1 .. N, k < l
               PROVE  Nth(I, k) < Nth(I, l)
    OBVIOUS
  <2>1. /\ Nth(I, k) \in I /\ rank[Nth(I, k)] = k
        /\ Nth(I, l) \in I /\ rank[Nth(I, l)] = l
    BY <1>7
  <2>2. Nth(I, l) < Nth(I, k) => l < k
    BY <1>4, <2>1
  <2>3. Nth(I, k) \in Int /\ Nth(I, l) \in Int
    BY <1>0, <2>1
  <2>4. k \in Int /\ l \in Int
    BY <1>2
  <2> QED
    BY <2>1, <2>2, <2>3, <2>4
<1>9. \A i \in I : \E k \in 1 .. N : Nth(I, k) = i
  <2> SUFFICES ASSUME NEW i \in I
               PROVE  rank[i] \in 1 .. N /\ Nth(I, rank[i]) = i
    OBVIOUS
  <2>1. rank[i] \in 1 .. N
    BY <1>3
  <2>2. Nth(I, rank[i]) \in I /\ rank[Nth(I, rank[i])] = rank[i]
    BY <1>7, <2>1
  <2> QED
    BY <1>5, <2>1, <2>2
<1> QED
  BY <1>2, <1>7, <1>8, <1>9 DEF N

(* Pick(s, I) has the elements of s at I, in their order, and all of them. *)
LEMMA PickSeq ==
    ASSUME NEW S, NEW s \in Seq(S), NEW I \in SUBSET DOMAIN s
    PROVE  /\ Cardinality(I) \in Nat
           /\ Pick(s, I) \in Seq(S)
           /\ Len(Pick(s, I)) = Cardinality(I)
           /\ \A k \in 1 .. Cardinality(I) : Nth(I, k) \in I /\ Pick(s, I)[k] = s[Nth(I, k)]
<1> DEFINE N == Cardinality(I)
<1> HIDE DEF N
<1>1. Len(s) \in Nat /\ DOMAIN s = 1 .. Len(s) /\ \A i \in DOMAIN s : s[i] \in S
  OBVIOUS
<1>2. N \in Nat /\ \A k \in 1 .. N : Nth(I, k) \in I
  BY <1>1, NthOrder DEF N
<1>3. Pick(s, I) = [k \in 1 .. N |-> s[Nth(I, k)]]
  BY DEF Pick, N
<1>4. \A k \in 1 .. N : s[Nth(I, k)] \in S
  BY <1>1, <1>2
<1>5. Pick(s, I) \in [1 .. N -> S]
  BY <1>3, <1>4
<1>6. Pick(s, I) \in Seq(S) /\ Len(Pick(s, I)) = N
  BY <1>2, <1>5
<1> QED
  BY <1>2, <1>3, <1>6 DEF N

LEMMA ListOf ==
    ASSUME NEW S, NEW n \in Nat, NEW f \in [1 .. n -> S]
    PROVE  f \in Seq(S) /\ Len(f) = n /\ DOMAIN f = 1 .. n
OBVIOUS

LEMMA DomainOf ==
    ASSUME NEW S, NEW s \in Seq(S)
    PROVE  /\ Len(s) \in Nat /\ DOMAIN s = 1 .. Len(s)
           /\ \A i \in DOMAIN s : i \in Int /\ s[i] \in S /\ s[i] \in Range(s)
           /\ Range(s) \subseteq S
           /\ \A e \in Range(s) : \E i \in DOMAIN s : s[i] = e
<1>1. Len(s) \in Nat /\ DOMAIN s = 1 .. Len(s) /\ \A i \in DOMAIN s : s[i] \in S
  OBVIOUS
<1> QED
  BY <1>1 DEF Range

LEMMA PickKeeps ==
    ASSUME NEW S, NEW s \in Seq(S), NEW I \in SUBSET DOMAIN s
    PROVE  /\ Pick(s, I) \in Seq(S)
           /\ Range(Pick(s, I)) = {s[i] : i \in I}
           /\ IsInjective(s) => IsInjective(Pick(s, I))
           /\ \A e, f : Before(Pick(s, I), e, f) => Before(s, e, f)
<1> DEFINE N == Cardinality(I)
           at(k) == Nth(I, k)
           t == Pick(s, I)
<1> HIDE DEF N, at, t
<1>1. /\ N \in Nat /\ t \in Seq(S) /\ DOMAIN t = 1 .. N
      /\ \A k \in 1 .. N : at(k) \in I /\ t[k] = s[at(k)]
  <2>1. /\ N \in Nat /\ t \in Seq(S) /\ Len(t) = N
        /\ \A k \in 1 .. N : at(k) \in I /\ t[k] = s[at(k)]
    BY PickSeq DEF N, at, t
  <2> QED
    BY <2>1, DomainOf
<1>2. /\ \A k, l \in 1 .. N : k < l => at(k) < at(l)
      /\ \A i \in I : \E k \in 1 .. N : at(k) = i
  <2>1. Len(s) \in Nat /\ I \in SUBSET (1 .. Len(s))
    BY DomainOf
  <2> QED
    BY <2>1, NthOrder DEF N, at
<1>3. \A i \in I : i \in Int /\ i \in DOMAIN s
  BY DomainOf
<1>4. Range(t) = {s[i] : i \in I}
  <2>1. Range(t) = {t[k] : k \in 1 .. N}
    BY <1>1 DEF Range
  <2>2. \A k \in 1 .. N : t[k] \in {s[i] : i \in I}
    BY <1>1
  <2>3. ASSUME NEW i \in I
        PROVE  \E k \in 1 .. N : t[k] = s[i]
    <3>1. PICK k \in 1 .. N : at(k) = i
      BY <1>2
    <3> QED
      BY <1>1, <3>1
  <2> QED
    BY <2>1, <2>2, <2>3
<1>5. ASSUME IsInjective(s), NEW k \in 1 .. N, NEW l \in 1 .. N, t[k] = t[l]
      PROVE  k = l
  <2>1. at(k) = at(l)
    BY <1>1, <1>3, <1>5 DEF IsInjective
  <2>2. at(k) \in Int /\ at(l) \in Int
    BY <1>1, <1>3
  <2>3. ~(k < l) /\ ~(l < k)
    BY <1>2, <2>1, <2>2
  <2> QED
    BY <1>1, <2>3
<1>6. IsInjective(s) => IsInjective(t)
  BY <1>1, <1>5 DEF IsInjective
<1>7. \A e, f : Before(t, e, f) => Before(s, e, f)
  <2> SUFFICES ASSUME NEW k \in 1 .. N, NEW l \in 1 .. N, k < l
               PROVE  Before(s, t[k], t[l])
    BY <1>1 DEF Before
  <2> QED
    BY <1>1, <1>2, <1>3 DEF Before
<1> QED
  BY <1>1, <1>4, <1>6, <1>7 DEF t

LEMMA ConcatKeeps ==
    ASSUME NEW S, NEW s \in Seq(S), NEW t \in Seq(S)
    PROVE  /\ s \o t \in Seq(S)
           /\ Range(s \o t) = Range(s) \cup Range(t)
           /\ IsInjective(s) /\ IsInjective(t) /\ Range(s) \cap Range(t) = {}
                => IsInjective(s \o t)
           /\ \A e, f : Before(s \o t, e, f) =>
                 Before(s, e, f) \/ f \in Range(t)
<1> DEFINE u == s \o t
<1>1. /\ Len(s) \in Nat /\ DOMAIN s = 1 .. Len(s)
      /\ Len(t) \in Nat /\ DOMAIN t = 1 .. Len(t)
  BY DomainOf
<1>2. /\ u \in Seq(S) /\ DOMAIN u = 1 .. (Len(s) + Len(t))
      /\ \A i \in 1 .. Len(s) : u[i] = s[i]
      /\ \A i \in 1 .. Len(t) : u[Len(s) + i] = t[i]
  BY <1>1
<1> HIDE DEF u
<1>3. \A i \in DOMAIN u : \/ i \in DOMAIN s /\ u[i] = s[i] /\ u[i] \in Range(s)
                          \/ i - Len(s) \in DOMAIN t /\ u[i] = t[i - Len(s)] /\ u[i] \in Range(t)
  <2> SUFFICES ASSUME NEW i \in DOMAIN u, i \notin DOMAIN s
               PROVE  i - Len(s) \in DOMAIN t /\ u[i] = t[i - Len(s)]
    BY <1>1, <1>2, DomainOf
  <2>1. i - Len(s) \in 1 .. Len(t) /\ Len(s) + (i - Len(s)) = i
    BY <1>1, <1>2
  <2> QED
    BY <1>1, <1>2, <2>1
<1>4. Range(u) = Range(s) \cup Range(t)
  <2>1. \A i \in DOMAIN s : i \in DOMAIN u /\ u[i] = s[i]
    BY <1>1, <1>2
  <2>2. \A i \in DOMAIN t : Len(s) + i \in DOMAIN u /\ u[Len(s) + i] = t[i]
    BY <1>1, <1>2
  <2> QED
    BY <1>3, <2>1, <2>2 DEF Range
<1>5. ASSUME IsInjective(s), IsInjective(t), Range(s) \cap Range(t) = {},
             NEW i \in DOMAIN u, NEW j \in DOMAIN u, u[i] = u[j]
      PROVE  i = j
  <2>1. CASE i \in DOMAIN s /\ j \in DOMAIN s /\ u[i] = s[i] /\ u[j] = s[j]
    BY <1>5, <2>1 DEF IsInjective
  <2>2. CASE /\ i - Len(s) \in DOMAIN t /\ u[i] = t[i - Len(s)]
             /\ j - Len(s) \in DOMAIN t /\ u[j] = t[j - Len(s)]
    <3>1. i - Len(s) = j - Len(s)
      BY <1>5, <2>2 DEF IsInjective
    <3> QED
      BY <1>1, <1>2, <3>1
  <2> QED
    BY <1>3, <1>5, <2>1, <2>2
<1>6. IsInjective(s) /\ IsInjective(t) /\ Range(s) \cap Range(t) = {} => IsInjective(u)
  BY <1>5 DEF IsInjective
<1>7. \A e, f : Before(u, e, f) => Before(s, e, f) \/ f \in Range(t)
  <2> SUFFICES ASSUME NEW i \in DOMAIN u, NEW j \in DOMAIN u, i < j, u[j] \notin Range(t)
               PROVE  Before(s, u[i], u[j])
    BY DEF Before
  <2>1. j \in DOMAIN s /\ u[j] = s[j]
    BY <1>3
  <2>2. i \in DOMAIN s /\ u[i] = s[i]
    BY <1>1, <1>2, <2>1
  <2> QED
    BY <2>1, <2>2 DEF Before
<1> QED
  BY <1>2, <1>4, <1>6, <1>7 DEF u

LEMMA TailKeeps ==
    ASSUME NEW S, NEW s \in Seq(S), s # <<>>
    PROVE  /\ Tail(s) \in Seq(S)
           /\ Head(s) \in Range(s)
           /\ IsInjective(s) => Range(Tail(s)) = Range(s) \ {Head(s)} /\ IsInjective(Tail(s))
           /\ \A e, f : Before(Tail(s), e, f) => Before(s, e, f)
           /\ \A e \in Range(s) : e # Head(s) => Before(s, Head(s), e)
<1> DEFINE t == Tail(s)
<1>1. Len(s) \in Nat /\ DOMAIN s = 1 .. Len(s)
  BY DomainOf
<1>2. /\ Len(s) > 0 /\ Head(s) = s[1] /\ 1 \in DOMAIN s
      /\ t \in Seq(S) /\ DOMAIN t = 1 .. (Len(s) - 1)
      /\ \A i \in 1 .. (Len(s) - 1) : t[i] = s[i + 1]
  BY <1>1
<1> HIDE DEF t
<1>3. \A i \in DOMAIN t : i + 1 \in DOMAIN s /\ i + 1 # 1 /\ t[i] = s[i + 1]
  BY <1>1, <1>2
<1>4. \A i \in DOMAIN s : i # 1 => i - 1 \in DOMAIN t /\ t[i - 1] = s[i] /\ 1 < i
  <2> SUFFICES ASSUME NEW i \in DOMAIN s, i # 1
               PROVE  i - 1 \in DOMAIN t /\ t[i - 1] = s[i] /\ 1 < i
    OBVIOUS
  <2>1. i - 1 \in 1 .. (Len(s) - 1) /\ (i - 1) + 1 = i /\ 1 < i
    BY <1>1
  <2> QED
    BY <1>2, <2>1
<1>5. ASSUME IsInjective(s)
      PROVE  Range(t) = Range(s) \ {s[1]}
  <2>1. \A i \in DOMAIN t : t[i] \in Range(s) /\ t[i] # s[1]
    BY <1>2, <1>3, <1>5 DEF IsInjective, Range
  <2>2. \A i \in DOMAIN s : s[i] # s[1] => s[i] \in Range(t)
    BY <1>4 DEF Range
  <2> QED
    BY <2>1, <2>2 DEF Range
<1>6. ASSUME IsInjective(s), NEW i \in DOMAIN t, NEW j \in DOMAIN t, t[i] = t[j]
      PROVE  i = j
  <2>1. i + 1 = j + 1
    BY <1>3, <1>6 DEF IsInjective
  <2> QED
    BY <1>1, <1>2, <2>1
<1>7. IsInjective(s) => IsInjective(t)
  BY <1>6 DEF IsInjective
<1>8. \A e, f : Before(t, e, f) => Before(s, e, f)
  <2> SUFFICES ASSUME NEW i \in DOMAIN t, NEW j \in DOMAIN t, i < j
               PROVE  Before(s, t[i], t[j])
    BY DEF Before
  <2>1. i + 1 < j + 1
    BY <1>1, <1>2
  <2> QED
    BY <1>3, <2>1 DEF Before
<1>9. \A e \in Range(s) : e # s[1] => Before(s, s[1], e)
  <2> SUFFICES ASSUME NEW i \in DOMAIN s, s[i] # s[1]
               PROVE  Before(s, s[1], s[i])
    BY DEF Range
  <2> QED
    BY <1>2, <1>4 DEF Before
<1> QED
  BY <1>2, <1>5, <1>7, <1>8, <1>9 DEF t, Range

LEMMA AppendKeeps ==
    ASSUME NEW S, NEW s \in Seq(S), NEW x \in S
    PROVE  /\ Append(s, x) \in Seq(S)
           /\ Len(Append(s, x)) = Len(s) + 1
           /\ \A i \in DOMAIN s : Append(s, x)[i] = s[i]
           /\ Range(Append(s, x)) = Range(s) \cup {x}
           /\ IsInjective(s) /\ x \notin Range(s) => IsInjective(Append(s, x))
           /\ \A e, f : Before(s, e, f) => Before(Append(s, x), e, f)
           /\ \A e \in Range(s) : Before(Append(s, x), e, x)
           /\ \A e, f : Before(Append(s, x), e, f) =>
                 Before(s, e, f) \/ (e \in Range(s) /\ f = x)
<1> DEFINE t == Append(s, x)
           n == Len(s) + 1
<1>1. Len(s) \in Nat /\ DOMAIN s = 1 .. Len(s)
  BY DomainOf
<1>2. /\ t \in Seq(S) /\ Len(t) = n /\ DOMAIN t = 1 .. n /\ n \in DOMAIN t /\ n \in Nat
      /\ \A i \in 1 .. Len(s) : t[i] = s[i]
      /\ t[n] = x
  BY <1>1
<1>3. /\ \A i \in DOMAIN s : i \in DOMAIN t /\ t[i] = s[i] /\ i < n
      /\ \A i \in DOMAIN t : i = n \/ (i \in DOMAIN s /\ t[i] = s[i] /\ t[i] \in Range(s))
  BY <1>1, <1>2, DomainOf
<1> HIDE DEF t, n
<1>4. Range(t) = Range(s) \cup {x}
  BY <1>2, <1>3 DEF Range
<1>5. IsInjective(s) /\ x \notin Range(s) => IsInjective(t)
  BY <1>2, <1>3 DEF IsInjective
<1>6. \A e, f : Before(s, e, f) => Before(t, e, f)
  BY <1>3 DEF Before
<1>7. \A e \in Range(s) : Before(t, e, x)
  BY <1>2, <1>3 DEF Before, Range
<1>8. \A e, f : Before(t, e, f) => Before(s, e, f) \/ (e \in Range(s) /\ f = x)
  <2> SUFFICES ASSUME NEW i \in DOMAIN t, NEW j \in DOMAIN t, i < j
               PROVE  Before(s, t[i], t[j]) \/ (t[i] \in Range(s) /\ t[j] = x)
    BY DEF Before
  <2>1. i # n
    BY <1>2, <1>3
  <2> QED
    BY <1>2, <1>3, <2>1 DEF Before
<1> QED
  BY <1>2, <1>3, <1>4, <1>5, <1>6, <1>7, <1>8 DEF t, n
=============================================================================

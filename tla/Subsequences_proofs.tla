------------------------ MODULE Subsequences_proofs -------------------------
(***************************************************************************)
(* The entries of a list at some positions are those entries, each once    *)
(* and in their order.                                                     *)
(***************************************************************************)
EXTENDS Subsequences, FiniteSetTheorems, FunctionTheorems, SequenceTheorems, TLAPS

(* Each position has a place of its own among those kept.                     *)
LEMMA PlaceGrows ==
  ASSUME NEW P \in SUBSET Int, IsFiniteSet(P), NEW i \in P, NEW j \in P, i < j
  PROVE  Place(P, i) < Place(P, j)
<1> DEFINE A == {k \in P : k <= i}
           B == {k \in P : k <= j}
<1>1. IsFiniteSet(A) /\ IsFiniteSet(B)
  BY FS_Subset
<1>2. A \subseteq B /\ j \in B /\ j \notin A
  <2>1. i \in Int /\ j \in Int /\ \A k \in P : k \in Int
    OBVIOUS
  <2>2. ASSUME NEW k \in A PROVE k \in B
    <3>1. k \in P /\ k \in Int /\ k <= i
      BY <2>1
    <3>2. k <= j
      BY <2>1, <3>1
    <3> QED
      BY <3>1, <3>2
  <2>3. j \in B /\ j \notin A
    BY <2>1
  <2> QED
    BY <2>2, <2>3
<1>3. Cardinality(A) \in Nat /\ Cardinality(B) \in Nat
  BY <1>1, FS_CardinalityType
<1>4. Cardinality(A) <= Cardinality(B) /\ (Cardinality(B) = Cardinality(A) => B = A)
  <2> A \in SUBSET B
    BY <1>2
  <2> HIDE DEF A, B
  <2> QED
    BY <1>1, FS_Subset
<1>5. Cardinality(A) < Cardinality(B)
  <2> HIDE DEF A, B
  <2> QED
    BY <1>2, <1>3, <1>4
<1> QED
  BY <1>5 DEF Place

LEMMA PlaceRange ==
  ASSUME NEW P \in SUBSET Int, IsFiniteSet(P), NEW i \in P
  PROVE  Place(P, i) \in 1..Cardinality(P)
<1> DEFINE A == {k \in P : k <= i}
<1>1. IsFiniteSet(A) /\ Cardinality(A) <= Cardinality(P)
  BY FS_Subset
<1>2. Cardinality(A) \in Nat /\ Cardinality(P) \in Nat
  BY <1>1, FS_CardinalityType
<1>3. i \in A
  OBVIOUS
<1>4. Cardinality(A) # 0
  <2> HIDE DEF A
  <2> QED
    BY <1>1, <1>3, FS_EmptySet
<1> QED
  BY <1>1, <1>2, <1>4 DEF Place

(* And every place up to their number is taken.                               *)
LEMMA PlaceOnto ==
  ASSUME NEW P \in SUBSET Int, IsFiniteSet(P), NEW k \in 1..Cardinality(P)
  PROVE  \E i \in P : Place(P, i) = k
<1> DEFINE N == 1..Cardinality(P)
           f == [i \in P |-> Place(P, i)]
<1>1. Cardinality(P) \in Nat
  BY FS_CardinalityType
<1>2. f \in [P -> N]
  BY PlaceRange
<1>3. ASSUME NEW i \in P, NEW j \in P, f[i] = f[j] PROVE i = j
  <2>1. CASE i < j
    BY <2>1, <1>3, PlaceGrows, PlaceRange
  <2>2. CASE j < i
    BY <2>2, <1>3, PlaceGrows, PlaceRange
  <2> QED
    BY <2>1, <2>2
<1>4. IsFiniteSet(N) /\ Cardinality(N) = Cardinality(P)
  <2>1. IsFiniteSet(1..Cardinality(P))
        /\ Cardinality(1..Cardinality(P)) =
             IF 1 > Cardinality(P) THEN 0 ELSE Cardinality(P) - 1 + 1
    BY <1>1, FS_Interval
  <2> QED
    BY <1>1, <2>1
<1>5. f \in Injection(P, N)
  <2> HIDE DEF f
  <2> QED
    BY <1>2, <1>3 DEF Injection, IsInjective
<1>6. f \in Surjection(P, N)
  <2> HIDE DEF f, N
  <2> QED
    BY <1>4, <1>5, FS_Injection
<1>7. \A n \in N : \E i \in P : f[i] = n
  <2> HIDE DEF f, N
  <2> QED
    BY <1>6 DEF Surjection
<1> QED
  BY <1>7

LEMMA NthFacts ==
  ASSUME NEW P \in SUBSET Int, IsFiniteSet(P)
  PROVE  /\ Cardinality(P) \in Nat
         /\ \A k \in 1..Cardinality(P) : Nth(P, k) \in P /\ Place(P, Nth(P, k)) = k
         /\ \A i \in P : Place(P, i) \in 1..Cardinality(P) /\ Nth(P, Place(P, i)) = i
         /\ \A j, k \in 1..Cardinality(P) : j < k <=> Nth(P, j) < Nth(P, k)
<1>1. Cardinality(P) \in Nat
  BY FS_CardinalityType
<1>2. ASSUME NEW k \in 1..Cardinality(P) PROVE Nth(P, k) \in P /\ Place(P, Nth(P, k)) = k
  BY PlaceOnto DEF Nth
<1>3. ASSUME NEW i \in P PROVE Place(P, i) \in 1..Cardinality(P) /\ Nth(P, Place(P, i)) = i
  <2>1. Place(P, i) \in 1..Cardinality(P)
    BY PlaceRange
  <2> DEFINE j == Nth(P, Place(P, i))
  <2>2. j \in P /\ Place(P, j) = Place(P, i)
    BY <1>2, <2>1
  <2> HIDE DEF j
  <2>3. ~(i < j) /\ ~(j < i)
    BY <2>1, <2>2, PlaceGrows
  <2>4. i \in Int /\ j \in Int
    BY <2>2
  <2>5. j = i
    BY <2>3, <2>4
  <2> QED
    BY <2>1, <2>5 DEF j
<1>4. ASSUME NEW j \in 1..Cardinality(P), NEW k \in 1..Cardinality(P)
      PROVE  j < k <=> Nth(P, j) < Nth(P, k)
  <2>1. Nth(P, j) \in P /\ Nth(P, k) \in P /\ Place(P, Nth(P, j)) = j /\ Place(P, Nth(P, k)) = k
    BY <1>2
  <2>2. Nth(P, j) < Nth(P, k) => j < k
    BY <2>1, PlaceGrows
  <2>3. Nth(P, k) < Nth(P, j) => k < j
    BY <2>1, PlaceGrows
  <2>4. Nth(P, j) = Nth(P, k) => j = k
    BY <2>1
  <2>5. Nth(P, j) \in Int /\ Nth(P, k) \in Int /\ j \in Int /\ k \in Int
    <3>1. \A i \in P : i \in Int
      OBVIOUS
    <3>2. Nth(P, j) \in Int /\ Nth(P, k) \in Int
      BY <2>1, <3>1
    <3>3. j \in Int /\ k \in Int
      BY <1>1
    <3> QED
      BY <3>2, <3>3
  <2>6. CASE j < k
    BY <2>3, <2>5, <2>6, <2>1
  <2>7. CASE ~(j < k)
    BY <2>2, <2>7
  <2> QED
    BY <2>6, <2>7
<1> QED
  BY <1>1, <1>2, <1>3, <1>4

(* Read both ways: every entry of At(s, P) is s at a position of P, and every  *)
(* position of P has its entry, at its place.                                 *)
LEMMA AtFacts ==
  ASSUME NEW s, NEW n \in Nat, NEW P \in SUBSET (1..n)
  PROVE  /\ IsFiniteSet(P) /\ Cardinality(P) \in 0..n
         /\ DOMAIN At(s, P) = 1..Cardinality(P)
         /\ \A k \in 1..Cardinality(P) : Nth(P, k) \in P /\ At(s, P)[k] = s[Nth(P, k)]
         /\ \A i \in P : Place(P, i) \in 1..Cardinality(P) /\ At(s, P)[Place(P, i)] = s[i]
         /\ \A i \in P : Nth(P, Place(P, i)) = i
         /\ \A j, k \in 1..Cardinality(P) : j < k <=> Nth(P, j) < Nth(P, k)
<1>1. IsFiniteSet(1..n) /\ Cardinality(1..n) = n
  <2>1. IsFiniteSet(1..n) /\ Cardinality(1..n) = IF 1 > n THEN 0 ELSE n - 1 + 1
    BY FS_Interval
  <2> QED
    BY <2>1
<1>2. IsFiniteSet(P) /\ Cardinality(P) <= n
  BY <1>1, FS_Subset
<1>3. Cardinality(P) \in Nat
  BY <1>2, FS_CardinalityType
<1>4. P \in SUBSET Int
  OBVIOUS
<1>5. /\ \A k \in 1..Cardinality(P) : Nth(P, k) \in P /\ Place(P, Nth(P, k)) = k
      /\ \A i \in P : Place(P, i) \in 1..Cardinality(P) /\ Nth(P, Place(P, i)) = i
      /\ \A j, k \in 1..Cardinality(P) : j < k <=> Nth(P, j) < Nth(P, k)
  BY <1>2, <1>4, NthFacts
<1>6. /\ DOMAIN At(s, P) = 1..Cardinality(P)
      /\ \A k \in 1..Cardinality(P) : At(s, P)[k] = s[Nth(P, k)]
  BY DEF At
<1>7. Cardinality(P) \in 0..n
  BY <1>2, <1>3
<1> QED
  BY <1>2, <1>5, <1>6, <1>7

(* It is a list of entries of s, as long as there are positions.              *)
LEMMA AtSeq ==
  ASSUME NEW S, NEW s \in Seq(S), NEW P \in SUBSET (DOMAIN s)
  PROVE  /\ At(s, P) \in Seq(S)
         /\ Len(At(s, P)) = Cardinality(P)
         /\ Cardinality(P) \in 0..Len(s)
<1>1. Len(s) \in Nat /\ DOMAIN s = 1..Len(s)
  OBVIOUS
<1>2. P \in SUBSET (1..Len(s))
  BY <1>1
<1>3. /\ Cardinality(P) \in 0..Len(s)
      /\ \A k \in 1..Cardinality(P) : Nth(P, k) \in P
  BY <1>1, <1>2, AtFacts
<1>4. \A k \in 1..Cardinality(P) : s[Nth(P, k)] \in S
  BY <1>1, <1>2, <1>3
<1>5. Cardinality(P) \in Nat
  BY <1>1, <1>3
<1> QED
  BY <1>3, <1>4, <1>5 DEF At

(* Reading a list put together of two.                                        *)
LEMMA ConcatFacts ==
  ASSUME NEW S, NEW s \in Seq(S), NEW t \in Seq(S)
  PROVE  /\ s \o t \in Seq(S)
         /\ Len(s \o t) = Len(s) + Len(t)
         /\ DOMAIN (s \o t) = 1..(Len(s) + Len(t))
         /\ \A i \in 1..Len(s) : (s \o t)[i] = s[i]
         /\ \A i \in 1..Len(t) : (s \o t)[Len(s) + i] = t[i]
<1> DEFINE u == s \o t
<1>1. Len(s) \in Nat /\ Len(t) \in Nat
  BY LenProperties
<1>2. /\ u \in Seq(S) /\ Len(u) = Len(s) + Len(t)
      /\ \A i \in 1..Len(s) + Len(t) : u[i] = IF i <= Len(s) THEN s[i] ELSE t[i - Len(s)]
  BY ConcatProperties
<1> HIDE DEF u
<1>3. DOMAIN u = 1..(Len(s) + Len(t))
  BY <1>2, LenProperties
<1>4. ASSUME NEW i \in 1..Len(s) PROVE u[i] = s[i]
  <2>1. i \in 1..Len(s) + Len(t) /\ i <= Len(s)
    BY <1>1
  <2> QED
    BY <1>2, <2>1
<1>5. ASSUME NEW i \in 1..Len(t) PROVE u[Len(s) + i] = t[i]
  <2>1. Len(s) + i \in 1..Len(s) + Len(t) /\ ~(Len(s) + i <= Len(s)) /\ Len(s) + i - Len(s) = i
    BY <1>1
  <2> QED
    BY <1>2, <2>1
<1> QED
  BY <1>2, <1>3, <1>4, <1>5 DEF u

(* What is kept of a list, with another after it.                             *)
LEMMA AtThenFacts ==
  ASSUME NEW S, NEW s \in Seq(S), NEW P \in SUBSET (DOMAIN s), NEW t \in Seq(S)
  PROVE  LET u == At(s, P) \o t
             n == Cardinality(P)
         IN /\ u \in Seq(S) /\ n \in Nat
            /\ Len(u) = n + Len(t) /\ DOMAIN u = 1..(n + Len(t))
            /\ \A k \in 1..n : Nth(P, k) \in P /\ u[k] = s[Nth(P, k)]
            /\ \A i \in P : Place(P, i) \in 1..n /\ u[Place(P, i)] = s[i]
            /\ \A i \in P : Nth(P, Place(P, i)) = i
            /\ \A j, k \in 1..n : j < k <=> Nth(P, j) < Nth(P, k)
            /\ \A i \in 1..Len(t) : u[n + i] = t[i]
<1> DEFINE h == At(s, P)
           n == Cardinality(P)
           u == h \o t
<1>1. Len(s) \in Nat /\ DOMAIN s = 1..Len(s)
  BY LenProperties
<1>2. h \in Seq(S) /\ Len(h) = n /\ n \in 0..Len(s)
  BY AtSeq
<1>3. n \in Nat
  BY <1>1, <1>2
<1>4. /\ \A k \in 1..n : Nth(P, k) \in P /\ h[k] = s[Nth(P, k)]
      /\ \A i \in P : Place(P, i) \in 1..n /\ h[Place(P, i)] = s[i]
      /\ \A i \in P : Nth(P, Place(P, i)) = i
      /\ \A j, k \in 1..n : j < k <=> Nth(P, j) < Nth(P, k)
  <2>1. P \in SUBSET (1..Len(s))
    BY <1>1
  <2> QED
    BY <1>1, <2>1, AtFacts
<1> HIDE DEF h, n
<1>5. u \in Seq(S) /\ Len(u) = n + Len(t)
  BY <1>2, ConcatFacts
<1>6. DOMAIN u = 1..(n + Len(t))
  BY <1>5, LenProperties
<1>7. \A i \in 1..n : u[i] = h[i]
  BY <1>2, ConcatFacts
<1>8. ASSUME NEW i \in 1..Len(t) PROVE u[n + i] = t[i]
  BY <1>2, ConcatFacts
<1>9. \A k \in 1..n : Nth(P, k) \in P /\ u[k] = s[Nth(P, k)]
  BY <1>4, <1>7
<1>10. \A i \in P : Place(P, i) \in 1..n /\ u[Place(P, i)] = s[i]
  BY <1>4, <1>7
<1> QED
  BY <1>3, <1>4, <1>5, <1>6, <1>8, <1>9, <1>10 DEF h, n

(* What is kept stands at its place, also when more is appended.               *)
LEMMA KeptAhead ==
  ASSUME NEW S, NEW s \in Seq(S), NEW P \in SUBSET (DOMAIN s), NEW t \in Seq(S), NEW i \in P
  PROVE  (At(s, P) \o t)[Place(P, i)] = s[i]
<1> DEFINE p == Place(P, i)
<1>1. p \in 1..Cardinality(P) /\ Nth(P, p) = i
  BY AtThenFacts
<1> HIDE DEF p
<1>2. \A k \in 1..Cardinality(P) : (At(s, P) \o t)[k] = s[Nth(P, k)]
  BY AtThenFacts
<1>3. (At(s, P) \o t)[p] = s[Nth(P, p)]
  BY <1>1, <1>2
<1> QED
  BY <1>1, <1>3 DEF p

LEMMA HeadAhead ==
  ASSUME NEW S, NEW a \in S, NEW t \in Seq(S)
  PROVE  /\ <<a>> \o t \in Seq(S)
         /\ DOMAIN (<<a>> \o t) = 1..(1 + Len(t))
         /\ (<<a>> \o t)[1] = a
         /\ \A i \in 1..Len(t) : (<<a>> \o t)[1 + i] = t[i]
<1>1. <<a>> \in Seq(S) /\ Len(<<a>>) = 1 /\ <<a>>[1] = a
  OBVIOUS
<1>2. <<a>> \o t \in Seq(S)
  BY <1>1, ConcatFacts
<1>3. DOMAIN (<<a>> \o t) = 1..(1 + Len(t))
  BY <1>1, ConcatFacts
<1>4. (<<a>> \o t)[1] = a
  OBVIOUS
<1>5. ASSUME NEW i \in 1..Len(t) PROVE (<<a>> \o t)[1 + i] = t[i]
  OBVIOUS
<1> QED
  BY <1>2, <1>3, <1>4, <1>5, Zenon

(* There are as many in the first k places as places.                          *)
LEMMA FirstPlaces ==
  ASSUME NEW P \in SUBSET Int, IsFiniteSet(P), NEW k \in 0..Cardinality(P)
  PROVE  Cardinality({i \in P : Place(P, i) <= k}) = k
<1> DEFINE A == {i \in P : Place(P, i) <= k}
           N == 1..k
           f == [n \in N |-> Nth(P, n)]
<1>1. /\ Cardinality(P) \in Nat
      /\ \A n \in 1..Cardinality(P) : Nth(P, n) \in P /\ Place(P, Nth(P, n)) = n
      /\ \A i \in P : Place(P, i) \in 1..Cardinality(P) /\ Nth(P, Place(P, i)) = i
  BY NthFacts
<1>2. k \in Nat /\ N \subseteq 1..Cardinality(P)
  BY <1>1
<1>3. f \in [N -> A]
  BY <1>1, <1>2
<1>4. \A m, n \in N : f[m] = f[n] => m = n
  BY <1>1, <1>2
<1>5. \A i \in A : \E n \in N : f[n] = i
  <2> TAKE i \in A
  <2>1. Place(P, i) \in N /\ f[Place(P, i)] = i
    BY <1>1, <1>2
  <2> QED
    BY <2>1
<1>6. f \in Bijection(N, A)
  <2> HIDE DEF f, N, A
  <2> QED
    BY <1>3, <1>4, <1>5 DEF Bijection, Injection, Surjection, IsInjective
<1>7. IsFiniteSet(N) /\ Cardinality(N) = k
  <2>1. IsFiniteSet(1..k) /\ Cardinality(1..k) = IF 1 > k THEN 0 ELSE k - 1 + 1
    BY <1>2, FS_Interval
  <2> QED
    BY <1>2, <2>1
<1>8. IsFiniteSet(A)
  BY FS_Subset
<1> QED
  <2> HIDE DEF f, N, A
  <2>1. Cardinality(N) = Cardinality(A)
    BY <1>6, <1>7, <1>8, FS_Bijection DEF ExistsBijection
  <2> QED
    BY <1>7, <2>1 DEF A

(* And beyond them the rest.                                                   *)
LEMMA LastPlaces ==
  ASSUME NEW P \in SUBSET Int, IsFiniteSet(P), NEW k \in 0..Cardinality(P)
  PROVE  Cardinality({i \in P : Place(P, i) > k}) = Cardinality(P) - k
<1> DEFINE A == {i \in P : Place(P, i) <= k}
           B == {i \in P : Place(P, i) > k}
<1>1. Cardinality(P) \in Nat /\ \A i \in P : Place(P, i) \in 1..Cardinality(P)
  BY NthFacts
<1>2. B = P \ A
  <2>1. \A i \in P : Place(P, i) > k <=> ~(Place(P, i) <= k)
    BY <1>1
  <2> QED
    BY <2>1
<1>3. IsFiniteSet(A) /\ A \cap P = A /\ Cardinality(A) = k
  BY FS_Subset, FirstPlaces
<1>4. Cardinality(P \ A) = Cardinality(P) - Cardinality(P \cap A)
  BY FS_Difference
<1> QED
  <2> HIDE DEF A, B
  <2>1. P \cap A = A
    BY <1>3
  <2>2. Cardinality(B) = Cardinality(P) - k
    BY <1>2, <1>3, <1>4, <2>1
  <2> QED
    BY <2>2 DEF B
=============================================================================

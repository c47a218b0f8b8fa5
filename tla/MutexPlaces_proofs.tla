------------------------ MODULE MutexPlaces_proofs --------------------------
(***************************************************************************)
(* Lemmas on the sequence of locks a thread holds: how often a mutex is in *)
(* it, and what locking once more or giving up the latest lock changes.    *)
(***************************************************************************)
EXTENDS Pend_proofs, FiniteSetTheorems

Places(s, m) == {i \in DOMAIN s : s[i] = m}

\* A sequence has finitely many places for m, none iff m is not in it.
LEMMA PlacesFinite ==
    ASSUME NEW S, NEW s \in Seq(S), NEW m
    PROVE  /\ IsFiniteSet(Places(s, m)) /\ Cardinality(Places(s, m)) \in Nat
           /\ Cardinality(Places(s, m)) = 0 <=> m \notin ToSet(s)
<1>1. Len(s) \in Nat /\ DOMAIN s = 1..Len(s)
  BY LenProperties
<1>2. IsFiniteSet(1..Len(s))
  BY <1>1, FS_Interval
<1>3. Places(s, m) \in SUBSET (1..Len(s))
  BY <1>1 DEF Places
<1>4. IsFiniteSet(Places(s, m))
  BY <1>2, <1>3, FS_Subset
<1>5. Places(s, m) = {} <=> m \notin ToSet(s)
  BY DEF Places, ToSet
<1> QED BY <1>4, <1>5, FS_CardinalityType, FS_EmptySet

\* One more lock of n is one more place for n and none for another mutex.
LEMMA PlacesAppend ==
    ASSUME NEW S, NEW s \in Seq(S), NEW n \in S, NEW m
    PROVE  /\ Append(s, n) \in Seq(S)
           /\ ToSet(Append(s, n)) = ToSet(s) \cup {n}
           /\ Cardinality(Places(Append(s, n), m)) =
                 IF m = n THEN Cardinality(Places(s, m)) + 1 ELSE Cardinality(Places(s, m))
<1> DEFINE r == Append(s, n)
<1>1. Len(s) \in Nat /\ DOMAIN s = 1..Len(s)
  BY LenProperties
<1>2. /\ r \in Seq(S) /\ Len(r) = Len(s) + 1 /\ r[Len(s) + 1] = n
      /\ \A i \in 1..Len(s) : r[i] = s[i]
  BY AppendProperties
<1> HIDE DEF r
<1>3. DOMAIN r = 1..(Len(s) + 1)
  BY <1>2, LenProperties
<1>4. \A i : i \in DOMAIN r <=> i \in DOMAIN s \/ i = Len(s) + 1
  BY <1>1, <1>3
<1>5. Len(s) + 1 \notin DOMAIN s
  BY <1>1
<1>6. ToSet(r) = ToSet(s) \cup {n}
  BY <1>1, <1>2, <1>4 DEF ToSet
<1>7. CASE m = n
  <2>1. Places(r, m) = Places(s, m) \cup {Len(s) + 1}
    BY <1>1, <1>2, <1>4, <1>7 DEF Places
  <2>2. Len(s) + 1 \notin Places(s, m)
    BY <1>5 DEF Places
  <2>3. IsFiniteSet(Places(s, m))
    BY PlacesFinite
  <2>4. Cardinality(Places(r, m)) = Cardinality(Places(s, m)) + 1
    BY <2>1, <2>2, <2>3, FS_AddElement
  <2> QED BY <1>2, <1>6, <1>7, <2>4 DEF r
<1>8. CASE m # n
  <2>1. Places(r, m) = Places(s, m)
    BY <1>1, <1>2, <1>4, <1>8 DEF Places
  <2> QED BY <1>2, <1>6, <1>8, <2>1 DEF r
<1> QED BY <1>7, <1>8

\* A mutex among the locks has a latest place.
LEMMA LatestPlace ==
    ASSUME NEW S, NEW s \in Seq(S), NEW n \in ToSet(s)
    PROVE  \E k \in DOMAIN s : s[k] = n /\ \A j \in DOMAIN s : s[j] = n => j <= k
<1>0. Len(s) \in Nat /\ DOMAIN s = 1..Len(s)
  BY LenProperties
<1> DEFINE D == {Len(s) - k : k \in Places(s, n)}
<1>1. D \in SUBSET Nat /\ D # {}
  BY <1>0 DEF Places, ToSet
<1>2. PICK d \in D : \A e \in D : <<e, d>> \notin OpToRel(<, Nat)
  <2> HIDE DEF D, OpToRel
  <2> QED BY <1>1, WFMin, NatLessThanWellFounded
<1>3. \A e \in D : ~(e < d)
  BY <1>1, <1>2 DEF OpToRel
<1>4. PICK k \in Places(s, n) : d = Len(s) - k
  OBVIOUS
<1>5. ASSUME NEW j \in DOMAIN s, s[j] = n PROVE j <= k
  <2>1. Len(s) - j \in D
    BY <1>5 DEF Places
  <2>2. ~(Len(s) - j < Len(s) - k)
    BY <2>1, <1>3, <1>4
  <2>3. j \in 1..Len(s) /\ k \in 1..Len(s)
    BY <1>0 DEF Places
  <2> HIDE DEF D
  <2> QED BY <2>2, <2>3, <1>0
<1> QED BY <1>4, <1>5 DEF Places

\* Giving up the latest lock of n takes away one place for n and none for
\* another mutex, whose places may move down.
LEMMA PlacesForget ==
    ASSUME NEW S, NEW s \in Seq(S), NEW n, NEW m, NEW i \in DOMAIN s, s[i] = n,
           \A j \in DOMAIN s : s[j] = n => j <= i
    PROVE  /\ RemoveAt(s, i) \in Seq(S)
           /\ ToSet(RemoveAt(s, i)) \subseteq ToSet(s)
           /\ Cardinality(Places(RemoveAt(s, i), m)) =
                 IF m = n THEN Cardinality(Places(s, m)) - 1 ELSE Cardinality(Places(s, m))
<1>1. Len(s) \in Nat /\ DOMAIN s = 1..Len(s)
  BY LenProperties
<1>3. i \in 1..Len(s) /\ s[i] = n /\ \A j \in 1..Len(s) : s[j] = n => j <= i
  BY <1>1
<1> DEFINE r == RemoveAt(s, i)
<1>4. /\ r \in Seq(S) /\ Len(r) = Len(s) - 1
      /\ \A j \in 1..(Len(s) - 1) : r[j] = IF j < i THEN s[j] ELSE s[j + 1]
  BY <1>3, RemoveAtIndex
<1> HIDE DEF r
<1>5. DOMAIN r = 1..(Len(s) - 1)
  BY <1>4, LenProperties
<1>6. ToSet(r) \subseteq ToSet(s)
  <2> SUFFICES ASSUME NEW j \in 1..(Len(s) - 1) PROVE \E k \in 1..Len(s) : r[j] = s[k]
    BY <1>1, <1>5 DEF ToSet
  <2>1. j \in 1..Len(s) /\ j + 1 \in 1..Len(s)
    BY <1>1
  <2> QED BY <1>4, <2>1
<1>7. CASE m = n
  <2>1. Places(r, m) = Places(s, m) \ {i}
    <3>1. ASSUME NEW j \in 1..(Len(s) - 1), r[j] = n PROVE j < i /\ s[j] = n
      <4>1. j \in 1..Len(s) /\ j + 1 \in 1..Len(s)
        BY <1>1
      <4>2. ~(j < i) => s[j + 1] = n
        BY <3>1, <1>4, Zenon
      <4>3. ~(j < i) => j + 1 <= i
        BY <4>1, <4>2, <1>3
      <4>4. j < i
        BY <4>1, <4>3, <1>3
      <4> QED BY <3>1, <4>4, <1>4
    <3>2. ASSUME NEW j \in 1..Len(s), s[j] = n, j # i PROVE j \in 1..(Len(s) - 1) /\ r[j] = n
      <4>1. j < i
        BY <3>2, <1>3
      <4>2. j \in 1..(Len(s) - 1)
        BY <4>1, <1>1, <1>3
      <4> QED BY <3>2, <4>1, <4>2, <1>4
    <3>3. ASSUME NEW j \in Places(r, m) PROVE j \in Places(s, m) /\ j # i
      <4>1. j \in 1..(Len(s) - 1) /\ r[j] = n BY <1>5, <1>7 DEF Places
      <4>2. j < i /\ s[j] = n /\ j \in 1..Len(s) BY <4>1, <3>1, <1>1
      <4> QED BY <4>2, <1>1, <1>3, <1>7 DEF Places
    <3>4. ASSUME NEW j \in Places(s, m), j # i PROVE j \in Places(r, m)
      <4>1. j \in 1..Len(s) /\ s[j] = n BY <1>1, <1>7 DEF Places
      <4> QED BY <4>1, <3>4, <3>2, <1>5, <1>7 DEF Places
    <3> QED BY <3>3, <3>4
  <2>2. i \in Places(s, m)
    BY <1>1, <1>3, <1>7 DEF Places
  <2>3. IsFiniteSet(Places(s, m))
    BY PlacesFinite
  <2>4. Cardinality(Places(r, m)) = Cardinality(Places(s, m)) - 1
    BY <2>1, <2>2, <2>3, FS_RemoveElement
  <2> QED BY <1>4, <1>6, <1>7, <2>4 DEF r
<1>8. CASE m # n
  <2> DEFINE A == Places(s, m)
             B == Places(r, m)
             f == [j \in A |-> IF j < i THEN j ELSE j - 1]
  <2>1. A = {j \in 1..Len(s) : s[j] = m} /\ B = {j \in 1..(Len(s) - 1) : r[j] = m} /\ i \notin A
    BY <1>1, <1>3, <1>5, <1>8 DEF Places
  <2>2. ASSUME NEW j \in A PROVE f[j] \in B
    <3> HIDE DEF A, B
    <3>1. f[j] = IF j < i THEN j ELSE j - 1
      BY <2>2 DEF f
    <3>2. j \in 1..Len(s) /\ s[j] = m /\ j # i
      BY <2>1
    <3>3. CASE j < i BY <3>1, <3>2, <3>3, <2>1, <1>1, <1>3, <1>4
    <3>4. CASE j > i
      <4>1. f[j] = j - 1 /\ j - 1 \in 1..(Len(s) - 1) /\ ~(j - 1 < i) /\ (j - 1) + 1 = j
        BY <3>1, <3>2, <3>4, <1>1, <1>3
      <4>2. r[j - 1] = s[j] BY <4>1, <1>4
      <4> QED BY <4>1, <4>2, <3>2, <2>1
    <3> QED BY <3>2, <3>3, <3>4, <1>3
  <2>3. ASSUME NEW j \in A, NEW k \in A, f[j] = f[k] PROVE j = k
    <3>1. j \in 1..Len(s) /\ k \in 1..Len(s) /\ j # i /\ k # i
      BY <2>1
    <3> HIDE DEF A, B
    <3>2. f[j] = (IF j < i THEN j ELSE j - 1) /\ f[k] = (IF k < i THEN k ELSE k - 1)
      BY DEF f
    <3> QED BY <2>3, <3>1, <3>2, <1>3
  <2>4. ASSUME NEW k \in B PROVE \E j \in A : f[j] = k
    <3>1. k \in 1..(Len(s) - 1) /\ r[k] = m
      BY <2>1
    <3>2. CASE k < i
      <4>0. k \in 1..Len(s) BY <3>1, <1>1
      <4>1. k \in A
        <5>1. r[k] = s[k] BY <3>1, <3>2, <1>4
        <5> QED BY <4>0, <5>1, <3>1, <2>1
      <4> HIDE DEF A, B
      <4>2. f[k] = k BY <4>1, <3>2 DEF f
      <4> HIDE DEF f
      <4> QED BY <4>1, <4>2, Zenon
    <3>3. CASE ~(k < i)
      <4>0. k + 1 \in 1..Len(s) /\ s[k + 1] = m
        <5>1. k + 1 \in 1..Len(s) BY <3>1, <1>1
        <5>2. r[k] = s[k + 1] BY <3>1, <3>3, <1>4, Zenon
        <5> QED BY <3>1, <5>1, <5>2
      <4>1. k + 1 \in A BY <4>0, <2>1
      <4>2. ~(k + 1 < i) /\ (k + 1) - 1 = k BY <3>1, <3>3, <1>1, <1>3
      <4> HIDE DEF A, B
      <4>3. f[k + 1] = k BY <4>1, <4>2 DEF f
      <4> HIDE DEF f
      <4> QED BY <4>1, <4>3, Zenon
    <3> QED BY <3>2, <3>3
  <2> HIDE DEF A, B
  <2>5. f \in Bijection(A, B)
    <3>1. f \in [A -> B] BY <2>2
    <3> HIDE DEF f
    <3> QED BY <3>1, <2>3, <2>4 DEF Bijection, Injection, Surjection, IsInjective
  <2>6. Cardinality(B) = Cardinality(A)
    <3> HIDE DEF f
    <3>1. ExistsBijection(A, B) BY <2>5 DEF ExistsBijection
    <3>2. IsFiniteSet(A) BY PlacesFinite DEF A
    <3> QED BY <3>1, <3>2, FS_Bijection
  <2> QED BY <1>4, <1>6, <1>8, <2>6 DEF r, A, B
<1> QED BY <1>7, <1>8
=============================================================================

---------------------------- MODULE Pend_proofs ----------------------------
(***************************************************************************)
(* What the operations on a wait queue do to the set of threads in it.     *)
(* Every kernel object built on Pend needs these facts.                    *)
(***************************************************************************)
EXTENDS Pend, SequenceTheorems, WellFoundedInduction, TLAPS

\* Inserting e into a sequence adds e to its elements, and keeps them distinct
\* if e was not among them (sys_dlist_insert()).
LEMMA InsertAtElements ==
    ASSUME NEW S, NEW s \in Seq(S), NEW e \in S, NEW i \in 1..Len(s)
    PROVE  /\ InsertAt(s, i, e) \in Seq(S)
           /\ ToSet(InsertAt(s, i, e)) = ToSet(s) \cup {e}
           /\ IsInjective(s) /\ e \notin ToSet(s) => IsInjective(InsertAt(s, i, e))
<1> DEFINE l == SubSeq(s, 1, i - 1)
           r == SubSeq(s, i, Len(s))
           m == l \o <<e>>
           n == m \o r
<1>1. Len(s) \in Nat /\ DOMAIN s = 1..Len(s) /\ \A j \in 1..Len(s) : s[j] \in S
  BY LenProperties, ElementOfSeq
<1>2. l \in Seq(S) /\ Len(l) = i - 1 /\ \A j \in 1..(i - 1) : l[j] = s[j]
  BY <1>1, SubSeqProperties
<1>3. r \in Seq(S) /\ Len(r) = Len(s) - i + 1 /\ \A j \in 1..(Len(s) - i + 1) : r[j] = s[i + j - 1]
  BY <1>1, SubSeqProperties
<1>4. <<e>> \in Seq(S) /\ Len(<<e>>) = 1 /\ <<e>>[1] = e
  OBVIOUS
<1>5. m \in Seq(S) /\ Len(m) = i /\ \A j \in 1..i : m[j] = IF j < i THEN s[j] ELSE e
  <2> HIDE DEF l
  <2>1. m \in Seq(S) /\ Len(m) = Len(l) + 1
        /\ \A j \in 1..(Len(l) + 1) : m[j] = IF j <= Len(l) THEN l[j] ELSE <<e>>[j - Len(l)]
    BY <1>2, <1>4, ConcatProperties
  <2> QED BY <2>1, <1>2, <1>4
<1>6. /\ n \in Seq(S) /\ Len(n) = Len(s) + 1
      /\ \A j \in 1..(Len(s) + 1) :
            n[j] = IF j < i THEN s[j] ELSE IF j = i THEN e ELSE s[j - 1]
  <2> HIDE DEF m, r
  <2>1. n \in Seq(S) /\ Len(n) = Len(m) + Len(r)
        /\ \A j \in 1..(Len(m) + Len(r)) : n[j] = IF j <= Len(m) THEN m[j] ELSE r[j - Len(m)]
    BY <1>3, <1>5, ConcatProperties
  <2> QED BY <2>1, <1>1, <1>3, <1>5
<1>7. n = InsertAt(s, i, e)
  BY DEF InsertAt
<1> HIDE DEF n
<1>8. DOMAIN n = 1..(Len(s) + 1)
  BY <1>6, LenProperties
<1>9. ToSet(n) = ToSet(s) \cup {e}
  <2>0. \A j \in 1..Len(s) : s[j] \in ToSet(s)
    BY <1>1 DEF ToSet
  <2>1. \A j \in 1..(Len(s) + 1) : n[j] \in ToSet(s) \cup {e}
    <3> SUFFICES ASSUME NEW j \in 1..(Len(s) + 1) PROVE n[j] \in ToSet(s) \cup {e}
      OBVIOUS
    <3>1. CASE j < i BY <3>1, <2>0, <1>1, <1>6
    <3>2. CASE j = i BY <3>2, <1>1, <1>6
    <3>3. CASE j > i BY <3>3, <2>0, <1>1, <1>6
    <3> QED BY <3>1, <3>2, <3>3, <1>1
  <2>2. \A j \in 1..Len(s) : \E k \in 1..(Len(s) + 1) : n[k] = s[j]
    <3> SUFFICES ASSUME NEW j \in 1..Len(s) PROVE \E k \in 1..(Len(s) + 1) : n[k] = s[j]
      OBVIOUS
    <3>1. CASE j < i BY <3>1, <1>1, <1>6
    <3>2. CASE j >= i
      <4>1. j + 1 \in 1..(Len(s) + 1) /\ n[j + 1] = s[j] BY <3>2, <1>1, <1>6
      <4> QED BY <4>1
    <3> QED BY <3>1, <3>2, <1>1
  <2>3. n[i] = e /\ i \in 1..(Len(s) + 1)
    BY <1>1, <1>6
  <2> QED BY <2>1, <2>2, <2>3, <1>1, <1>8 DEF ToSet
<1>10. IsInjective(s) /\ e \notin ToSet(s) => IsInjective(n)
  <2> SUFFICES ASSUME IsInjective(s), e \notin ToSet(s),
                      NEW j \in 1..(Len(s) + 1), NEW k \in 1..(Len(s) + 1), n[j] = n[k]
               PROVE  j = k
    BY <1>8 DEF IsInjective
  <2>1. \A x, y \in 1..Len(s) : s[x] = s[y] => x = y
    BY <1>1 DEF IsInjective
  <2>2. \A x \in 1..Len(s) : s[x] # e
    BY <1>1 DEF ToSet
  <2> QED BY <2>1, <2>2, <1>1, <1>6
<1> QED BY <1>6, <1>7, <1>9, <1>10

\* Removing a position shifts the later elements down by one.
LEMMA RemoveAtIndex ==
    ASSUME NEW S, NEW s \in Seq(S), NEW i \in 1..Len(s)
    PROVE  /\ RemoveAt(s, i) \in Seq(S)
           /\ Len(RemoveAt(s, i)) = Len(s) - 1
           /\ \A j \in 1..(Len(s) - 1) :
                 RemoveAt(s, i)[j] = IF j < i THEN s[j] ELSE s[j + 1]
<1> DEFINE l == SubSeq(s, 1, i - 1)
           r == SubSeq(s, i + 1, Len(s))
           n == l \o r
<1>1. Len(s) \in Nat /\ DOMAIN s = 1..Len(s) /\ \A j \in 1..Len(s) : s[j] \in S
  BY LenProperties, ElementOfSeq
<1>2. l \in Seq(S) /\ Len(l) = i - 1 /\ \A j \in 1..(i - 1) : l[j] = s[j]
  BY <1>1, SubSeqProperties
<1>3. r \in Seq(S) /\ Len(r) = Len(s) - i /\ \A j \in 1..(Len(s) - i) : r[j] = s[i + j]
  <2>1. /\ r \in Seq(S)
        /\ Len(r) = IF i + 1 <= Len(s) THEN Len(s) - (i + 1) + 1 ELSE 0
        /\ \A j \in 1..(Len(s) - (i + 1) + 1) : r[j] = s[(i + 1) + j - 1]
    BY <1>1, SubSeqProperties
  <2> HIDE DEF r
  <2>2. Len(s) - (i + 1) + 1 = Len(s) - i /\ \A j \in Int : (i + 1) + j - 1 = i + j
    BY <1>1
  <2>3. Len(r) = Len(s) - i
    <3>1. i \in Int /\ Len(s) \in Int /\ i <= Len(s) BY <1>1
    <3>2. Len(r) = IF i + 1 <= Len(s) THEN Len(s) - (i + 1) + 1 ELSE 0 BY <2>1
    <3>3. CASE i + 1 <= Len(s) BY <3>1, <3>2, <3>3, <2>2
    <3>4. CASE ~(i + 1 <= Len(s))
      <4>1. Len(s) = i BY <3>1, <3>4
      <4>2. Len(r) = 0 BY <3>2, <3>4
      <4> QED BY <4>1, <4>2, <3>1
    <3> QED BY <3>3, <3>4
  <2>4. ASSUME NEW j \in 1..(Len(s) - i) PROVE r[j] = s[i + j]
    <3>1. j \in 1..(Len(s) - (i + 1) + 1) /\ (i + 1) + j - 1 = i + j BY <2>2
    <3>2. r[j] = s[(i + 1) + j - 1] BY <3>1, <2>1
    <3> QED BY <3>1, <3>2
  <2> QED BY <2>1, <2>3, <2>4
<1>4. /\ n \in Seq(S) /\ Len(n) = Len(s) - 1
      /\ \A j \in 1..(Len(s) - 1) : n[j] = IF j < i THEN s[j] ELSE s[j + 1]
  <2> HIDE DEF l, r
  <2>1. n \in Seq(S) /\ Len(n) = Len(l) + Len(r)
        /\ \A j \in 1..(Len(l) + Len(r)) : n[j] = IF j <= Len(l) THEN l[j] ELSE r[j - Len(l)]
    BY <1>2, <1>3, ConcatProperties
  <2> HIDE DEF n
  <2>2. Len(l) + Len(r) = Len(s) - 1 BY <1>1, <1>2, <1>3
  <2>3. ASSUME NEW j \in 1..(Len(s) - 1) PROVE n[j] = IF j < i THEN s[j] ELSE s[j + 1]
    <3>1. CASE j < i
      <4>1. j \in 1..(i - 1) /\ j <= Len(l) BY <3>1, <1>1, <1>2
      <4>2. n[j] = l[j] BY <4>1, <2>1, <2>2
      <4> QED BY <3>1, <4>1, <4>2, <1>2
    <3>2. CASE ~(j < i)
      <4>1. j - Len(l) \in 1..(Len(s) - i) /\ ~(j <= Len(l)) /\ i + (j - Len(l)) = j + 1
        BY <3>2, <1>1, <1>2
      <4>2. n[j] = r[j - Len(l)] BY <4>1, <2>1, <2>2
      <4>3. n[j] = s[j + 1] BY <4>1, <4>2, <1>3
      <4> QED BY <3>2, <4>3
    <3> QED BY <3>1, <3>2
  <2> QED BY <2>1, <2>2, <2>3
<1>5. n = RemoveAt(s, i)
  BY DEF RemoveAt
<1> HIDE DEF n
<1> QED BY <1>4, <1>5

\* Removing one position from a sequence of distinct elements removes that
\* element from its elements (sys_dlist_remove()).
LEMMA RemoveAtElements ==
    ASSUME NEW S, NEW s \in Seq(S), NEW i \in 1..Len(s), IsInjective(s)
    PROVE  /\ RemoveAt(s, i) \in Seq(S)
           /\ ToSet(RemoveAt(s, i)) = ToSet(s) \ {s[i]}
           /\ IsInjective(RemoveAt(s, i))
<1> DEFINE n == RemoveAt(s, i)
<1>1. Len(s) \in Nat /\ DOMAIN s = 1..Len(s) /\ \A j \in 1..Len(s) : s[j] \in S
  BY LenProperties, ElementOfSeq
<1>4. /\ n \in Seq(S) /\ Len(n) = Len(s) - 1
      /\ \A j \in 1..(Len(s) - 1) : n[j] = IF j < i THEN s[j] ELSE s[j + 1]
  BY RemoveAtIndex
<1> HIDE DEF n
<1>6. DOMAIN n = 1..(Len(s) - 1)
  BY <1>4, LenProperties
<1>7. \A x, y \in 1..Len(s) : s[x] = s[y] => x = y
  BY <1>1 DEF IsInjective
<1>8. ToSet(n) = ToSet(s) \ {s[i]}
  <2>0. \A j \in 1..Len(s) : s[j] \in ToSet(s)
    BY <1>1 DEF ToSet
  <2>1. \A j \in 1..(Len(s) - 1) : n[j] \in ToSet(s) \ {s[i]}
    <3> SUFFICES ASSUME NEW j \in 1..(Len(s) - 1) PROVE n[j] \in ToSet(s) \ {s[i]}
      OBVIOUS
    <3>1. CASE j < i BY <3>1, <2>0, <1>1, <1>4, <1>7
    <3>2. CASE j >= i BY <3>2, <2>0, <1>1, <1>4, <1>7
    <3> QED BY <3>1, <3>2, <1>1
  <2>2. \A j \in 1..Len(s) : j # i => \E k \in 1..(Len(s) - 1) : n[k] = s[j]
    <3> SUFFICES ASSUME NEW j \in 1..Len(s), j # i
                 PROVE  \E k \in 1..(Len(s) - 1) : n[k] = s[j]
      OBVIOUS
    <3>1. CASE j < i BY <3>1, <1>1, <1>4
    <3>2. CASE j > i
      <4>1. j - 1 \in 1..(Len(s) - 1) /\ n[j - 1] = s[j] BY <3>2, <1>1, <1>4
      <4> QED BY <4>1
    <3> QED BY <3>1, <3>2, <1>1
  <2>3. ToSet(n) \subseteq ToSet(s) \ {s[i]}
    BY <2>1, <1>6 DEF ToSet
  <2>4. ASSUME NEW x \in ToSet(s), x # s[i] PROVE x \in ToSet(n)
    <3>1. PICK j \in 1..Len(s) : x = s[j] BY <1>1 DEF ToSet
    <3>2. PICK k \in 1..(Len(s) - 1) : n[k] = x BY <3>1, <2>2, <2>4
    <3> QED BY <3>2, <1>6 DEF ToSet
  <2> QED BY <2>3, <2>4
<1>9. IsInjective(n)
  <2> SUFFICES ASSUME NEW j \in 1..(Len(s) - 1), NEW k \in 1..(Len(s) - 1), n[j] = n[k]
               PROVE  j = k
    BY <1>6 DEF IsInjective
  <2>1. n[j] = (IF j < i THEN s[j] ELSE s[j + 1]) /\ n[k] = (IF k < i THEN s[k] ELSE s[k + 1])
    BY <1>4
  <2>2. {j, k, j + 1, k + 1} \subseteq 1..Len(s)
    BY <1>1
  <2>3. CASE j < i /\ k < i BY <1>7, <2>1, <2>2, <2>3
  <2>4. CASE j >= i /\ k >= i
    <3>0. ~(j < i) /\ ~(k < i) BY <2>4, <1>1
    <3>1. s[j + 1] = s[k + 1] BY <2>1, <3>0, Zenon
    <3>2. j + 1 = k + 1 BY <1>7, <2>2, <3>1
    <3> QED BY <3>2
  <2>5. CASE j < i /\ k >= i
    <3>0. j < i /\ ~(k < i) BY <2>5, <1>1
    <3>1. s[j] = s[k + 1] BY <2>1, <3>0, Zenon
    <3>2. j = k + 1 BY <1>7, <2>2, <3>1
    <3> QED BY <3>2, <2>5
  <2>6. CASE j >= i /\ k < i
    <3>0. ~(j < i) /\ k < i BY <2>6, <1>1
    <3>1. s[j + 1] = s[k] BY <2>1, <3>0, Zenon
    <3>2. j + 1 = k BY <1>7, <2>2, <3>1
    <3> QED BY <3>2, <2>6
  <2> QED BY <2>3, <2>4, <2>5, <2>6, <1>1
<1> QED BY <1>4, <1>8, <1>9 DEF n

\* _priq_wait_add() adds the thread to those in the queue and nobody else.
LEMMA WaitAddElements ==
    ASSUME NEW S, NEW wq \in Seq(S), NEW t \in S
    PROVE  /\ z_priq_wait_add(wq, t) \in Seq(S)
           /\ ToSet(z_priq_wait_add(wq, t)) = ToSet(wq) \cup {t}
           /\ IsInjective(wq) /\ t \notin ToSet(wq) => IsInjective(z_priq_wait_add(wq, t))
<1>1. Len(wq) \in Nat /\ DOMAIN wq = 1..Len(wq)
  BY LenProperties
<1>2. CASE LowerThan(wq, t) = {}
  <2> DEFINE n == Append(wq, t)
  <2>1. z_priq_wait_add(wq, t) = n
    BY <1>2 DEF z_priq_wait_add
  <2>2. /\ n \in Seq(S) /\ Len(n) = Len(wq) + 1 /\ n[Len(wq) + 1] = t
        /\ \A i \in 1..Len(wq) : n[i] = wq[i]
    BY AppendProperties
  <2> HIDE DEF n
  <2>3. DOMAIN n = 1..(Len(wq) + 1)
    BY <2>2, LenProperties
  <2>4. ToSet(n) = ToSet(wq) \cup {t}
    <3>1. \A i \in 1..(Len(wq) + 1) : n[i] = IF i <= Len(wq) THEN wq[i] ELSE t
      BY <2>2, <1>1
    <3>2. \A x \in ToSet(n) : x \in ToSet(wq) \cup {t}
      BY <3>1, <2>3, <1>1 DEF ToSet
    <3>3. \A x \in ToSet(wq) \cup {t} : x \in ToSet(n)
      BY <2>2, <2>3, <1>1 DEF ToSet
    <3> QED BY <3>2, <3>3
  <2>5. IsInjective(wq) /\ t \notin ToSet(wq) => IsInjective(n)
    BY <2>2, <2>3, <1>1 DEF IsInjective, ToSet
  <2> QED BY <2>1, <2>2, <2>4, <2>5
<1>3. CASE LowerThan(wq, t) # {}
  <2> DEFINE i == CHOOSE i \in LowerThan(wq, t) : \A j \in LowerThan(wq, t) : i <= j
  <2>1. \E k \in LowerThan(wq, t) : \A j \in LowerThan(wq, t) : k <= j
    <3>1. LowerThan(wq, t) \in SUBSET Nat
      BY <1>1 DEF LowerThan
    <3>2. PICK k \in LowerThan(wq, t) :
              \A j \in LowerThan(wq, t) : <<j, k>> \notin OpToRel(<, Nat)
      <4> HIDE DEF OpToRel
      <4> QED BY <1>3, <3>1, WFMin, NatLessThanWellFounded
    <3>3. \A j \in LowerThan(wq, t) : ~(j < k)
      BY <3>1, <3>2 DEF OpToRel
    <3> QED BY <3>1, <3>3
  <2>2. i \in 1..Len(wq)
    BY <2>1, <1>1 DEF LowerThan
  <2>3. z_priq_wait_add(wq, t) = InsertAt(wq, i, t)
    BY <1>3 DEF z_priq_wait_add
  <2> HIDE DEF i
  <2> QED BY <2>2, <2>3, InsertAtElements
<1> QED BY <1>2, <1>3

\* _priq_wait_remove() removes the thread and nobody else.
LEMMA WaitRemoveElements ==
    ASSUME NEW S, NEW wq \in Seq(S), NEW t
    PROVE  /\ z_priq_wait_remove(wq, t) \in Seq(S)
           /\ IsInjective(wq) => /\ ToSet(z_priq_wait_remove(wq, t)) = ToSet(wq) \ {t}
                                /\ IsInjective(z_priq_wait_remove(wq, t))
<1>1. Len(wq) \in Nat /\ DOMAIN wq = 1..Len(wq)
  BY LenProperties
<1>2. CASE t \in ToSet(wq)
  <2> DEFINE i == CHOOSE i \in DOMAIN wq : wq[i] = t
  <2>1. i \in 1..Len(wq) /\ wq[i] = t
    BY <1>1, <1>2 DEF ToSet
  <2>2. z_priq_wait_remove(wq, t) = RemoveAt(wq, i)
    BY <1>2 DEF z_priq_wait_remove
  <2> HIDE DEF i
  <2> QED BY <2>1, <2>2, RemoveAtIndex, RemoveAtElements
<1>3. CASE t \notin ToSet(wq)
  BY <1>3 DEF z_priq_wait_remove
<1> QED BY <1>2, <1>3

\* Taking the head off a queue removes that thread and nobody else.
LEMMA TailElements ==
    ASSUME NEW S, NEW wq \in Seq(S), wq # <<>>
    PROVE  /\ Head(wq) \in S /\ Tail(wq) \in Seq(S)
           /\ Head(wq) \in ToSet(wq)
           /\ IsInjective(wq) => /\ ToSet(Tail(wq)) = ToSet(wq) \ {Head(wq)}
                                /\ IsInjective(Tail(wq))
<1>1. Len(wq) \in Nat \ {0} /\ DOMAIN wq = 1..Len(wq)
  BY LenProperties, EmptySeq
<1>2. /\ Head(wq) \in S /\ Tail(wq) \in Seq(S) /\ Len(Tail(wq)) = Len(wq) - 1
      /\ \A i \in 1..Len(Tail(wq)) : Tail(wq)[i] = wq[i + 1]
  BY HeadTailProperties
<1>3. Head(wq) = wq[1]
  BY <1>1
<1> DEFINE n == Tail(wq)
<1>4. n \in Seq(S) /\ DOMAIN n = 1..(Len(wq) - 1) /\ \A i \in 1..(Len(wq) - 1) : n[i] = wq[i + 1]
  BY <1>2, LenProperties
<1> HIDE DEF n
<1>5. ASSUME IsInjective(wq) PROVE ToSet(n) = ToSet(wq) \ {wq[1]} /\ IsInjective(n)
  <2>1. \A x, y \in 1..Len(wq) : wq[x] = wq[y] => x = y
    BY <1>1, <1>5 DEF IsInjective
  <2>2. ASSUME NEW x \in ToSet(n) PROVE x \in ToSet(wq) \ {wq[1]}
    <3>1. PICK k \in 1..(Len(wq) - 1) : n[k] = x BY <1>4 DEF ToSet
    <3>2. k + 1 \in 1..Len(wq) /\ k + 1 # 1 /\ 1 \in 1..Len(wq) BY <1>1
    <3>3. x = wq[k + 1] BY <3>1, <1>4
    <3>4. x # wq[1] BY <3>2, <3>3, <2>1
    <3> QED BY <3>2, <3>3, <3>4, <1>1 DEF ToSet
  <2>3. ASSUME NEW x \in ToSet(wq), x # wq[1] PROVE x \in ToSet(n)
    <3>1. PICK j \in 1..Len(wq) : x = wq[j] BY <1>1 DEF ToSet
    <3>2. j - 1 \in 1..(Len(wq) - 1) /\ (j - 1) + 1 = j BY <3>1, <2>3, <1>1
    <3>3. n[j - 1] = x BY <3>1, <3>2, <1>4
    <3> QED BY <3>2, <3>3, <1>4 DEF ToSet
  <2>4. IsInjective(n)
    <3> SUFFICES ASSUME NEW j \in 1..(Len(wq) - 1), NEW k \in 1..(Len(wq) - 1), n[j] = n[k]
                 PROVE  j = k
      BY <1>4 DEF IsInjective
    <3>1. wq[j + 1] = wq[k + 1] BY <1>4
    <3>2. {j + 1, k + 1} \subseteq 1..Len(wq) BY <1>1
    <3>3. j + 1 = k + 1 BY <3>1, <3>2, <2>1
    <3> QED BY <3>3
  <2> QED BY <2>2, <2>3, <2>4
<1>6. Head(wq) \in ToSet(wq)
  BY <1>1, <1>3 DEF ToSet
<1> QED BY <1>2, <1>3, <1>5, <1>6 DEF n

-----------------------------------------------------------------------------
\* The same facts for the steps of Pend, over all wait queues at once.
Distinct == \A q \in WaitQs : IsInjective(waitq[q])

\* z_pend_curr() puts the thread on the one wait queue it was given.
LEMMA PendQueues ==
    ASSUME waitq \in [WaitQs -> Seq(Threads)],
           NEW t \in Threads, NEW q \in WaitQs, NEW timed, z_pend_curr(t, q, timed)
    PROVE  /\ waitq' \in [WaitQs -> Seq(Threads)]
           /\ \A r \in WaitQs : ToSet(waitq'[r]) =
                 IF r = q THEN ToSet(waitq[r]) \cup {t} ELSE ToSet(waitq[r])
           /\ Distinct /\ t \notin ToSet(waitq[q]) => Distinct'
<1>1. waitq \in [WaitQs -> Seq(Threads)] /\ waitq[q] \in Seq(Threads)
  OBVIOUS
<1>2. waitq' = [waitq EXCEPT ![q] = z_priq_wait_add(waitq[q], t)]
  BY DEF z_pend_curr
<1> DEFINE n == z_priq_wait_add(waitq[q], t)
<1>3. /\ n \in Seq(Threads) /\ ToSet(n) = ToSet(waitq[q]) \cup {t}
      /\ IsInjective(waitq[q]) /\ t \notin ToSet(waitq[q]) => IsInjective(n)
  BY <1>1, WaitAddElements
<1> HIDE DEF n
<1>4. \A r \in WaitQs : waitq'[r] = IF r = q THEN n ELSE waitq[r]
  BY <1>1, <1>2 DEF n
<1>5. waitq' \in [WaitQs -> Seq(Threads)]
  BY <1>1, <1>2, <1>3 DEF n
<1> QED BY <1>3, <1>4, <1>5 DEF Distinct

\* z_unpend_first_thread() takes the thread it returns off that queue.
LEMMA UnpendQueues ==
    ASSUME waitq \in [WaitQs -> Seq(Threads)], NEW q \in WaitQs, z_unpend_first_thread(q)
    PROVE  /\ waitq' \in [WaitQs -> Seq(Threads)]
           /\ waking' = Head(waitq[q]) /\ waking' \in Threads
           /\ waking' \in ToSet(waitq[q])
           /\ Distinct => /\ \A r \in WaitQs : ToSet(waitq'[r]) =
                              IF r = q THEN ToSet(waitq[r]) \ {waking'} ELSE ToSet(waitq[r])
                         /\ Distinct'
<1>1. waitq \in [WaitQs -> Seq(Threads)] /\ waitq[q] \in Seq(Threads)
  OBVIOUS
<1>2. /\ waitq' = [waitq EXCEPT ![q] = Tail(waitq[q])]
      /\ waitq[q] # <<>> /\ waking' = Head(waitq[q])
  BY DEF z_unpend_first_thread
<1> DEFINE n == Tail(waitq[q])
<1>3. /\ n \in Seq(Threads) /\ waking' \in Threads /\ waking' \in ToSet(waitq[q])
      /\ IsInjective(waitq[q]) => ToSet(n) = ToSet(waitq[q]) \ {waking'} /\ IsInjective(n)
  BY <1>1, <1>2, TailElements
<1> HIDE DEF n
<1>4. \A r \in WaitQs : waitq'[r] = IF r = q THEN n ELSE waitq[r]
  BY <1>1, <1>2 DEF n
<1>5. waitq' \in [WaitQs -> Seq(Threads)]
  BY <1>1, <1>2, <1>3 DEF n
<1> QED BY <1>2, <1>3, <1>4, <1>5 DEF Distinct

\* z_thread_timeout() takes its thread off whatever queue it is on.
LEMMA TimeoutQueues ==
    ASSUME waitq \in [WaitQs -> Seq(Threads)], z_thread_timeout
    PROVE  /\ waitq' \in [WaitQs -> Seq(Threads)]
           /\ \A r \in WaitQs : waitq[r] = <<>> => waitq'[r] = <<>>
           /\ Distinct => /\ \A r \in WaitQs : ToSet(waitq'[r]) = ToSet(waitq[r]) \ {firing}
                         /\ Distinct'
<1>1. waitq \in [WaitQs -> Seq(Threads)]
  OBVIOUS
<1>2. waitq' = [r \in WaitQs |-> z_priq_wait_remove(waitq[r], firing)]
  BY DEF z_thread_timeout
<1>3. ASSUME NEW r \in WaitQs
      PROVE  /\ waitq'[r] = z_priq_wait_remove(waitq[r], firing)
             /\ waitq'[r] \in Seq(Threads)
             /\ waitq[r] = <<>> => waitq'[r] = <<>>
             /\ IsInjective(waitq[r]) => /\ ToSet(waitq'[r]) = ToSet(waitq[r]) \ {firing}
                                        /\ IsInjective(waitq'[r])
  <2>1. waitq[r] \in Seq(Threads) /\ waitq'[r] = z_priq_wait_remove(waitq[r], firing)
    BY <1>1, <1>2
  <2>2. waitq[r] = <<>> => waitq'[r] = <<>>
    BY <2>1 DEF z_priq_wait_remove, ToSet
  <2> QED BY <2>1, <2>2, WaitRemoveElements
<1>4. waitq' \in [WaitQs -> Seq(Threads)]
  BY <1>2, <1>3
<1> QED BY <1>3, <1>4 DEF Distinct
=============================================================================

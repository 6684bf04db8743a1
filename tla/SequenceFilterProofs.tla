------------------------ MODULE SequenceFilterProofs ------------------------
(***************************************************************************)
(* A filtered list is the list with some places left out.                  *)
(***************************************************************************)
EXTENDS SequenceFilter, SequenceTheorems, FunctionTheorems,
        FiniteSetTheorems, TLAPS

(* The ranks of a finite set of numbers are 1, 2, ... in its order. *)
LEMMA Ranks ==
    ASSUME NEW I \in SUBSET Nat, IsFiniteSet(I)
    PROVE  /\ Cardinality(I) \in Nat
           /\ \A i \in I : Rank(I, i) \in 1 .. Cardinality(I)
           /\ \A i, j \in I : i < j => Rank(I, i) < Rank(I, j)
           /\ \A k \in 1 .. Cardinality(I) : \E i \in I : Rank(I, i) = k
<1> DEFINE Upto(i) == {h \in I : h <= i}
           n == Cardinality(I)
           f == [i \in I |-> Rank(I, i)]
<1>1. n \in Nat
  BY FS_CardinalityType
<1>2. \A i \in I : IsFiniteSet(Upto(i)) /\ Rank(I, i) \in Nat /\ Rank(I, i) <= n
  <2> TAKE i \in I
  <2>1. Upto(i) \in SUBSET I
    OBVIOUS
  <2>2. IsFiniteSet(Upto(i)) /\ Cardinality(Upto(i)) <= n
    BY <2>1, FS_Subset
  <2> QED
    BY <2>2, FS_CardinalityType DEF Rank
<1>3. \A i \in I : Rank(I, i) # 0
  <2> TAKE i \in I
  <2>1. i \in Upto(i)
    OBVIOUS
  <2> QED
    BY <2>1, <1>2, FS_EmptySet DEF Rank
<1>4. ASSUME NEW i \in I, NEW j \in I, i < j
      PROVE  Rank(I, i) < Rank(I, j)
  <2>1. Upto(i) \in SUBSET Upto(j)
    <3>1. i \in Int /\ j \in Int /\ \A h \in I : h \in Int
      OBVIOUS
    <3>2. \A h \in I : h <= i => h <= j
      BY <3>1, <1>4
    <3> QED
      BY <3>2
  <2>2. j \in Upto(j) /\ j \notin Upto(i)
    BY <1>4
  <2>3. Upto(i) # Upto(j)
    BY <2>2
  <2>4. Cardinality(Upto(i)) <= Cardinality(Upto(j))
        /\ Cardinality(Upto(i)) # Cardinality(Upto(j))
    BY <2>1, <2>3, <1>2, FS_Subset
  <2> QED
    BY <2>4, <1>2 DEF Rank
<1>5. \A i \in I : Rank(I, i) \in 1 .. n
  <2> TAKE i \in I
  <2>1. Rank(I, i) \in Nat /\ Rank(I, i) <= n /\ Rank(I, i) # 0
    BY <1>2, <1>3
  <2> HIDE DEF n
  <2> QED
    BY <2>1, <1>1
<1>6. f \in Injection(I, 1 .. n)
  <2>1. f \in [I -> 1 .. n]
    BY <1>5
  <2>2. ASSUME NEW i \in I, NEW j \in I, f[i] = f[j]
        PROVE  i = j
    <3>1. Rank(I, i) \in Nat /\ Rank(I, i) = Rank(I, j)
      BY <2>2, <1>2
    <3>2. ~(i < j) /\ ~(j < i)
      BY <3>1, <1>4
    <3> QED
      BY <3>2
  <2> QED
    BY <2>1, <2>2, Fun_IsInj
<1>7. IsFiniteSet(1 .. n) /\ Cardinality(1 .. n) = n
  BY <1>1, FS_Interval
<1>8. f \in Surjection(I, 1 .. n)
  BY <1>6, <1>7, FS_Injection
<1>9. \A k \in 1 .. n : \E i \in I : f[i] = k
  BY <1>8 DEF Surjection
<1> QED
  BY <1>1, <1>5, <1>4, <1>9

(* The places of the filtered list are places of the list, in their order, *)
(* and those of every element that stays.                                  *)
LEMMA FilterEmbeds ==
    ASSUME NEW S, NEW T, NEW s \in Seq(S)
    PROVE  /\ Filtered(s, T) \in Seq(S)
           /\ Len(Filtered(s, T)) \in Nat
           /\ DOMAIN Filtered(s, T) = 1 .. Len(Filtered(s, T))
           /\ \E e \in [DOMAIN Filtered(s, T) -> Places(s, T)] :
                 /\ \A k \in DOMAIN Filtered(s, T) : Filtered(s, T)[k] = s[e[k]]
                 /\ \A k, l \in DOMAIN Filtered(s, T) : k < l => e[k] < e[l]
                 /\ \A i \in Places(s, T) :
                       \E k \in DOMAIN Filtered(s, T) : e[k] = i
<1> DEFINE I == Places(s, T)
           n == Cardinality(I)
           e == [k \in 1 .. n |-> CHOOSE i \in I : Rank(I, i) = k]
           r == Filtered(s, T)
<1>1. Len(s) \in Nat /\ DOMAIN s = 1 .. Len(s)
  BY LenProperties
<1>2. I \in SUBSET (1 .. Len(s)) /\ I \in SUBSET Nat
  BY <1>1 DEF Places
<1>3. IsFiniteSet(I)
  <2>1. IsFiniteSet(1 .. Len(s))
    BY <1>1, FS_Interval
  <2> QED
    BY <2>1, <1>2, FS_Subset
<1>4. /\ n \in Nat
      /\ \A i \in I : Rank(I, i) \in 1 .. n
      /\ \A i, j \in I : i < j => Rank(I, i) < Rank(I, j)
      /\ \A k \in 1 .. n : \E i \in I : Rank(I, i) = k
  BY <1>2, <1>3, Ranks
<1>5. \A k \in 1 .. n : e[k] \in I /\ Rank(I, e[k]) = k
  BY <1>4
<1>6. r = [k \in 1 .. n |-> s[e[k]]]
  BY DEF Filtered
<1> HIDE DEF e, n, r
<1>7. \A k \in 1 .. n : s[e[k]] \in S
  BY <1>5, <1>2, ElementOfSeq
<1>8. r \in [1 .. n -> S]
  BY <1>6, <1>7
<1>9. r \in Seq(S) /\ Len(r) = n /\ DOMAIN r = 1 .. n
  BY <1>8, <1>4
<1>10. e \in [1 .. n -> I]
  BY <1>5 DEF e
<1>11. ASSUME NEW k \in 1 .. n, NEW l \in 1 .. n, k < l
       PROVE  e[k] < e[l]
  <2>1. /\ e[k] \in Nat /\ e[l] \in Nat /\ e[k] \in I /\ e[l] \in I
        /\ Rank(I, e[k]) = k /\ Rank(I, e[l]) = l
    BY <1>5, <1>2
  <2>2. ~(e[l] < e[k])
    BY <2>1, <1>4, <1>11
  <2>3. e[l] # e[k]
    BY <2>1, <1>11
  <2> QED
    BY <2>1, <2>2, <2>3
<1>12. ASSUME NEW i \in I
       PROVE  \E k \in 1 .. n : e[k] = i
  <2> DEFINE k == Rank(I, i)
  <2>1. k \in 1 .. n
    BY <1>4
  <2>2. e[k] \in I /\ Rank(I, e[k]) = k /\ e[k] \in Nat /\ i \in Nat
    BY <2>1, <1>5, <1>2
  <2>3. ~(e[k] < i) /\ ~(i < e[k])
    BY <2>2, <1>4, <2>1
  <2> QED
    BY <2>1, <2>2, <2>3
<1> QED
  BY <1>4, <1>6, <1>9, <1>10, <1>11, <1>12 DEF r

(* A list without repetition. *)
Distinct(s) == \A i, k \in DOMAIN s : s[i] = s[k] => i = k

(* What stays are the elements in T, and in a list without repetition they *)
(* stay without repetition.                                                *)
LEMMA FilterKeeps ==
    ASSUME NEW S, NEW T, NEW s \in Seq(S)
    PROVE  /\ \A k \in DOMAIN Filtered(s, T) :
                 Filtered(s, T)[k] \in T
                 /\ \E i \in DOMAIN s : s[i] = Filtered(s, T)[k]
           /\ \A i \in DOMAIN s : s[i] \in T =>
                 \E k \in DOMAIN Filtered(s, T) : Filtered(s, T)[k] = s[i]
           /\ Distinct(s) => Distinct(Filtered(s, T))
<1> DEFINE r == Filtered(s, T)
<1>1. /\ Len(r) \in Nat /\ DOMAIN r = 1 .. Len(r)
      /\ \E e \in [DOMAIN r -> Places(s, T)] :
            /\ \A k \in DOMAIN r : r[k] = s[e[k]]
            /\ \A k, l \in DOMAIN r : k < l => e[k] < e[l]
            /\ \A i \in Places(s, T) : \E k \in DOMAIN r : e[k] = i
  BY FilterEmbeds
<1>2. Len(s) \in Nat /\ DOMAIN s = 1 .. Len(s)
  BY LenProperties
<1> HIDE DEF r
<1>3. PICK e \in [DOMAIN r -> Places(s, T)] :
            /\ \A k \in DOMAIN r : r[k] = s[e[k]]
            /\ \A k, l \in DOMAIN r : k < l => e[k] < e[l]
            /\ \A i \in Places(s, T) : \E k \in DOMAIN r : e[k] = i
  BY <1>1
<1>4. \A k \in DOMAIN r : e[k] \in DOMAIN s /\ s[e[k]] \in T
  BY <1>3 DEF Places
<1>5. \A k \in DOMAIN r : r[k] \in T /\ \E i \in DOMAIN s : s[i] = r[k]
  BY <1>3, <1>4
<1>6. \A i \in DOMAIN s : s[i] \in T => \E k \in DOMAIN r : r[k] = s[i]
  BY <1>3 DEF Places
<1>7. ASSUME Distinct(s), NEW k \in DOMAIN r, NEW l \in DOMAIN r, r[k] = r[l]
      PROVE  k = l
  <2>1. e[k] = e[l]
    BY <1>7, <1>3, <1>4 DEF Distinct
  <2>2. ~(k < l) /\ ~(l < k)
    BY <2>1, <1>2, <1>3, <1>4
  <2> QED
    BY <2>2, <1>1
<1> QED
  BY <1>5, <1>6, <1>7 DEF r, Distinct

(* What joins such a list at its end, and what leaves it at its head. *)
LEMMA AppendElements ==
    ASSUME NEW S, NEW s \in Seq(S), NEW e \in S
    PROVE  /\ Append(s, e) \in Seq(S) /\ Append(s, e) # <<>>
           /\ DOMAIN Append(s, e) = 1 .. Len(s) + 1
           /\ Len(s) \in Nat /\ DOMAIN s = 1 .. Len(s)
           /\ \A i \in DOMAIN s :
                 i \in DOMAIN Append(s, e) /\ Append(s, e)[i] = s[i]
           /\ Append(s, e)[Len(s) + 1] = e
           /\ Len(s) + 1 \in DOMAIN Append(s, e)
           /\ \A i \in DOMAIN Append(s, e) : i \in DOMAIN s \/ i = Len(s) + 1
           /\ Distinct(s) /\ (\A i \in DOMAIN s : s[i] # e) => Distinct(Append(s, e))
<1> DEFINE r == Append(s, e)
<1>1. /\ Len(s) \in Nat /\ DOMAIN s = 1 .. Len(s)
      /\ r \in Seq(S) /\ r # <<>> /\ Len(r) = Len(s) + 1
      /\ \A i \in 1 .. Len(s) : r[i] = s[i]
      /\ r[Len(s) + 1] = e
  BY LenProperties, AppendProperties
<1>2. DOMAIN r = 1 .. Len(s) + 1
  BY <1>1, LenProperties
<1> HIDE DEF r
<1>3. \A i \in DOMAIN r : i \in DOMAIN s \/ i = Len(s) + 1
  BY <1>1, <1>2
<1>4. ASSUME Distinct(s), \A i \in DOMAIN s : s[i] # e
      PROVE  Distinct(r)
  <2> SUFFICES ASSUME NEW i \in DOMAIN r, NEW k \in DOMAIN r, r[i] = r[k]
               PROVE  i = k
    BY DEF Distinct
  <2>1. CASE i \in DOMAIN s /\ k \in DOMAIN s
    BY <2>1, <1>1, <1>4 DEF Distinct
  <2>2. CASE i \notin DOMAIN s \/ k \notin DOMAIN s
    BY <2>2, <1>1, <1>3, <1>4
  <2> QED
    BY <2>1, <2>2
<1> QED
  BY <1>1, <1>2, <1>3, <1>4 DEF r

LEMMA TailElements ==
    ASSUME NEW S, NEW s \in Seq(S), s # <<>>
    PROVE  /\ Head(s) \in S /\ Tail(s) \in Seq(S) /\ Head(s) = s[1]
           /\ Len(s) \in Nat \ {0} /\ DOMAIN s = 1 .. Len(s)
           /\ DOMAIN Tail(s) = 1 .. Len(s) - 1
           /\ \A i \in DOMAIN Tail(s) : i + 1 \in DOMAIN s /\ Tail(s)[i] = s[i + 1]
           /\ \A i \in DOMAIN s : i # 1 => i - 1 \in DOMAIN Tail(s)
                                            /\ Tail(s)[i - 1] = s[i]
           /\ Distinct(s) =>
                 Distinct(Tail(s)) /\ \A i \in DOMAIN Tail(s) : Tail(s)[i] # Head(s)
<1> DEFINE r == Tail(s)
<1>1. /\ Head(s) \in S /\ r \in Seq(S) /\ Head(s) = s[1]
      /\ Len(s) \in Nat \ {0} /\ DOMAIN s = 1 .. Len(s)
      /\ Len(r) = Len(s) - 1
      /\ \A i \in 1 .. Len(r) : r[i] = s[i + 1]
  BY LenProperties, HeadTailProperties, EmptySeq
<1>2. DOMAIN r = 1 .. Len(s) - 1
  BY <1>1, LenProperties
<1> HIDE DEF r
<1>3. \A i \in DOMAIN r : i + 1 \in DOMAIN s /\ r[i] = s[i + 1]
  BY <1>1, <1>2
<1>4. ASSUME NEW i \in DOMAIN s, i # 1
      PROVE  i - 1 \in DOMAIN r /\ r[i - 1] = s[i]
  <2>1. i - 1 \in DOMAIN r /\ (i - 1) + 1 = i
    BY <1>1, <1>2, <1>4
  <2> QED
    BY <2>1, <1>3
<1>5. ASSUME Distinct(s)
      PROVE  Distinct(r) /\ \A i \in DOMAIN r : r[i] # Head(s)
  <2>1. ASSUME NEW i \in DOMAIN r, NEW k \in DOMAIN r, r[i] = r[k]
        PROVE  i = k
    <3>1. i + 1 = k + 1
      BY <2>1, <1>3, <1>5 DEF Distinct
    <3> QED
      BY <3>1, <1>1, <1>2
  <2>2. ASSUME NEW i \in DOMAIN r, r[i] = Head(s)
        PROVE  FALSE
    <3>1. i + 1 = 1
      BY <2>2, <1>1, <1>3, <1>5 DEF Distinct
    <3> QED
      BY <3>1, <1>1, <1>2
  <2> QED
    BY <2>1, <2>2 DEF Distinct
<1> QED
  BY <1>1, <1>2, <1>3, <1>4, <1>5 DEF r

(* A filtered list is no longer than the list. *)
LEMMA FilterShortens ==
    ASSUME NEW S, NEW T, NEW s \in Seq(S)
    PROVE  /\ Len(Filtered(s, T)) \in Nat /\ Len(s) \in Nat
           /\ Len(Filtered(s, T)) <= Len(s)
<1> DEFINE I == Places(s, T)
           n == Cardinality(I)
           r == Filtered(s, T)
<1>1. Len(s) \in Nat /\ DOMAIN s = 1 .. Len(s)
  BY LenProperties
<1>2. I \in SUBSET (1 .. Len(s))
  BY <1>1 DEF Places
<1>3. IsFiniteSet(1 .. Len(s)) /\ Cardinality(1 .. Len(s)) = Len(s)
  BY <1>1, FS_Interval
<1>4. n <= Len(s) /\ n \in Nat
  BY <1>2, <1>3, FS_Subset, FS_CardinalityType
<1>5. r \in Seq(S) /\ DOMAIN r = 1 .. n
  <2>1. r \in Seq(S)
    BY FilterEmbeds
  <2>2. DOMAIN r = 1 .. n
    BY DEF Filtered
  <2> QED
    BY <2>1, <2>2
<1>6. Len(r) \in Nat /\ DOMAIN r = 1 .. Len(r)
  BY <1>5, LenProperties
<1> HIDE DEF r, n
<1>7. Len(r) = n
  BY <1>4, <1>5, <1>6
<1> QED
  BY <1>1, <1>4, <1>6, <1>7 DEF r

(* A first element that stays is the first of those that stay. *)
LEMMA FirstStays ==
    ASSUME NEW S, NEW T, NEW s \in Seq(S)
    PROVE  s # <<>> /\ s[1] \in T =>
              Filtered(s, T) # <<>> /\ Filtered(s, T)[1] = s[1]
<1> DEFINE r == Filtered(s, T)
<1>1. /\ Len(r) \in Nat /\ DOMAIN r = 1 .. Len(r)
      /\ \E e \in [DOMAIN r -> Places(s, T)] :
            /\ \A k \in DOMAIN r : r[k] = s[e[k]]
            /\ \A k, l \in DOMAIN r : k < l => e[k] < e[l]
            /\ \A i \in Places(s, T) : \E k \in DOMAIN r : e[k] = i
  BY FilterEmbeds
<1> HAVE s # <<>> /\ s[1] \in T
<1>2. 1 \in DOMAIN s /\ DOMAIN s \subseteq Nat \ {0}
  <2>1. Len(s) \in Nat /\ DOMAIN s = 1 .. Len(s) /\ Len(s) # 0
    BY LenProperties, EmptySeq
  <2> QED
    BY <2>1
<1>3. 1 \in Places(s, T) /\ Places(s, T) \subseteq Nat \ {0}
  BY <1>2 DEF Places
<1> HIDE DEF r
<1>4. PICK e \in [DOMAIN r -> Places(s, T)] :
         /\ \A k \in DOMAIN r : r[k] = s[e[k]]
         /\ \A k, l \in DOMAIN r : k < l => e[k] < e[l]
         /\ \A i \in Places(s, T) : \E k \in DOMAIN r : e[k] = i
  BY <1>1
<1>5. PICK k \in DOMAIN r : e[k] = 1
  BY <1>3, <1>4
<1>6. 1 \in DOMAIN r /\ (k = 1 \/ 1 < k)
  BY <1>1, <1>5
<1>7. k = 1
  <2>1. ~(1 < k)
    <3> SUFFICES ASSUME 1 < k PROVE FALSE
      OBVIOUS
    <3>1. e[1] < e[k] /\ e[1] \in Nat \ {0}
      BY <1>3, <1>4, <1>6
    <3> QED
      BY <1>5, <3>1
  <2> QED
    BY <1>6, <2>1
<1>8. r[1] = s[1]
  BY <1>4, <1>5, <1>7
<1>9. r # <<>>
  BY <1>6
<1> QED
  BY <1>8, <1>9 DEF r
=============================================================================

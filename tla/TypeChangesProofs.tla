------------------------- MODULE TypeChangesProofs -------------------------
(***************************************************************************)
(* Proofs about TypeChanges for any workers, objects and fields and any    *)
(* number of requests: that objects and type fit together, and the data    *)
(* sets of objects and the section of the type, but for what the histories *)
(* name. The latter rests on what a deletion by indexes does to a list.    *)
(***************************************************************************)
EXTENDS TypeChanges, FiniteSetTheorems, SequenceTheorems, WellFoundedInduction, TLAPS

-----------------------------------------------------------------------------
(* Documents. *)

IsDoc(d) == {"fields", "mds"} \subseteq DOMAIN d /\ d.fields \in [Entries -> Nat]

\* The fields an object has, and that it has each but once.
FieldSet(d) == {f \in Fields : Count(d, f) > 0}
Once(d) == \A f \in Fields : Count(d, f) <= 1

LEMMA EntriesOfField ==
  ASSUME NEW f \in Fields
  PROVE  <<f, "typed">> \in Entries /\ <<f, "bare">> \in Entries
  BY DEF Entries

LEMMA CountIsNat ==
  ASSUME NEW d, IsDoc(d), NEW f \in Fields
  PROVE  d.fields[<<f, "typed">>] \in Nat /\ d.fields[<<f, "bare">>] \in Nat /\ Count(d, f) \in Nat
  BY EntriesOfField DEF IsDoc, Count

\* A new document has the fields it is made of, once each.
LEMMA TypedDocument ==
  ASSUME NEW d, {"fields", "mds"} \subseteq DOMAIN d, NEW N \in SUBSET Fields, d.fields = Typed(N)
  PROVE  IsDoc(d) /\ FieldSet(d) = N /\ Once(d)
<1>1. IsDoc(d)
  BY DEF Typed, IsDoc
<1>2. ASSUME NEW f \in Fields PROVE Count(d, f) = IF f \in N THEN 1 ELSE 0
  BY EntriesOfField DEF Typed, Count
<1> QED BY <1>1, <1>2 DEF FieldSet, Once

LEMMA NewDocument ==
  ASSUME NEW r, r.names \subseteq Fields
  PROVE  IsDoc(Document(r)) /\ FieldSet(Document(r)) = r.names /\ Once(Document(r))
<1>1. Document(r).fields = Typed(r.names) /\ DOMAIN Document(r) = {"fields", "mds"}
  BY DEF Document
<1> QED BY <1>1, TypedDocument

\* What taking fields out of a document leaves.
LEMMA WithoutFields ==
  ASSUME NEW d, IsDoc(d), NEW S
  PROVE  /\ IsDoc(Without(d, S))
         /\ FieldSet(Without(d, S)) = FieldSet(d) \ S
         /\ Once(d) => Once(Without(d, S))
         /\ \A f \in Fields : Count(d, f) = 0 => Count(Without(d, S), f) = 0
<1> DEFINE e == Without(d, S)
<1>1. /\ e.fields = [x \in Entries |-> IF x[1] \in S THEN 0 ELSE d.fields[x]]
      /\ DOMAIN e = DOMAIN d
  BY DEF Without, IsDoc
<1>2. IsDoc(e)
  BY <1>1 DEF IsDoc
<1>3. ASSUME NEW f \in Fields PROVE Count(e, f) = IF f \in S THEN 0 ELSE Count(d, f)
  BY <1>1, EntriesOfField, CountIsNat DEF Count
<1> QED BY <1>2, <1>3, CountIsNat DEF FieldSet, Once

\* What putting entries without a type into a document gives.
LEMMA AppendedFields ==
  ASSUME NEW d, IsDoc(d), NEW S \in SUBSET Fields
  PROVE  /\ IsDoc(Appended(d, S))
         /\ FieldSet(Appended(d, S)) = FieldSet(d) \cup S
         /\ Once(d) /\ FieldSet(d) \cap S = {} => Once(Appended(d, S))
         /\ \A f \in Fields \ S : Count(Appended(d, S), f) = Count(d, f)
<1> DEFINE e == Appended(d, S)
<1>1. /\ e.fields = [x \in Entries |-> IF x[2] = "bare" /\ x[1] \in S THEN d.fields[x] + 1 ELSE d.fields[x]]
      /\ DOMAIN e = DOMAIN d
  BY DEF Appended, IsDoc
<1>2. IsDoc(e)
  BY <1>1 DEF IsDoc
<1>3. ASSUME NEW f \in Fields PROVE Count(e, f) = IF f \in S THEN Count(d, f) + 1 ELSE Count(d, f)
  BY <1>1, EntriesOfField, CountIsNat DEF Count
<1>4. FieldSet(e) = FieldSet(d) \cup S
  <2>1. ASSUME NEW f \in Fields PROVE Count(e, f) > 0 <=> Count(d, f) > 0 \/ f \in S
    <3>1. Count(d, f) \in Nat
      BY CountIsNat
    <3> QED BY <1>3, <3>1
  <2> QED BY <2>1 DEF FieldSet
<1>5. ASSUME Once(d), FieldSet(d) \cap S = {} PROVE Once(e)
  <2> SUFFICES ASSUME NEW f \in Fields PROVE Count(e, f) <= 1
    BY DEF Once
  <2>1. CASE f \in S
    <3>1. Count(d, f) = 0
      <4>1. Count(d, f) \in Nat /\ ~(Count(d, f) > 0)
        BY <1>5, <2>1, CountIsNat DEF FieldSet
      <4> QED BY <4>1
    <3> QED BY <1>3, <2>1, <3>1
  <2>2. CASE f \notin S
    BY <1>3, <1>5, <2>2 DEF Once
  <2> QED BY <2>1, <2>2
<1> QED BY <1>2, <1>3, <1>4, <1>5

LEMMA AddedToSet ==
  ASSUME NEW d, IsDoc(d), NEW f \in Fields
  PROVE  /\ IsDoc(AddToSet(d, f))
         /\ FieldSet(AddToSet(d, f)) = FieldSet(d) \cup {f}
         /\ Once(d) /\ Count(d, f) = 0 => Once(AddToSet(d, f))
         /\ \A g \in Fields \ {f} : Count(AddToSet(d, f), g) = Count(d, g)
<1>1. CASE d.fields[<<f, "bare">>] > 0
  <2>1. Count(d, f) > 0
    BY <1>1, CountIsNat DEF Count
  <2> QED BY <1>1, <2>1 DEF AddToSet, FieldSet
<1>2. CASE ~(d.fields[<<f, "bare">>] > 0)
  <2>1. AddToSet(d, f) = Appended(d, {f})
    BY <1>2 DEF AddToSet
  <2>2. Count(d, f) = 0 => FieldSet(d) \cap {f} = {}
    BY CountIsNat DEF FieldSet
  <2> QED BY <2>1, <2>2, AppendedFields
<1> QED BY <1>1, <1>2

\* Data sets are no matter of fields.
LEMMA OtherData ==
  ASSUME NEW d, IsDoc(d), NEW m
  PROVE  /\ IsDoc([d EXCEPT !.mds = m])
         /\ FieldSet([d EXCEPT !.mds = m]) = FieldSet(d)
         /\ Once(d) => Once([d EXCEPT !.mds = m])
<1>1. [d EXCEPT !.mds = m].fields = d.fields /\ DOMAIN [d EXCEPT !.mds = m] = DOMAIN d
  BY DEF IsDoc
<1> QED BY <1>1 DEF IsDoc, FieldSet, Once, Count

LEMMA FieldsOfType ==
  ASSUME NEW t \in Types
  PROVE  SectionOf(t) \subseteq TemplateFields /\ FieldsOf(t) \subseteq Fields /\ Rendered(t) \subseteq Fields
  BY DEF Types, SectionOf, FieldsOf, Rendered, Fields

-----------------------------------------------------------------------------
(* Numbers and finite sets. *)

LEMMA Finite ==
  ASSUME NEW S, IsFiniteSet(S), NEW T, T \subseteq S
  PROVE  /\ IsFiniteSet(T) /\ Cardinality(T) \in Nat /\ Cardinality(S) \in Nat
         /\ Cardinality(T) <= Cardinality(S)
         /\ Cardinality(S) = Cardinality(T) => S = T
BY FS_Subset, FS_CardinalityType

LEMMA IntervalSize ==
  ASSUME NEW n \in Nat
  PROVE  IsFiniteSet(1..n) /\ Cardinality(1..n) = n
BY FS_Interval

\* A set of natural numbers has a least one.
LEMMA LeastNumber ==
  ASSUME NEW T, T \subseteq Nat, T # {}
  PROVE  \E n \in T : \A m \in T : n <= m
<1> DEFINE R == OpToRel(<, Nat)
<1>1. IsWellFoundedOn(R, Nat)
  BY NatLessThanWellFounded
<1>2. \A x, y \in Nat : <<y, x>> \in R <=> y < x
  BY DEF OpToRel
<1> HIDE DEF R
<1>3. PICK n \in T : \A m \in T : ~(<<m, n>> \in R)
  BY <1>1, WFMin
<1>4. \A m \in T : n <= m
  <2>1. ASSUME NEW m \in T PROVE n <= m
    <3>1. m \in Nat /\ n \in Nat
      BY <2>1
    <3>2. ~(m < n)
      BY <1>2, <1>3, <3>1
    <3> QED BY <3>1, <3>2
  <2> QED BY <2>1
<1> QED BY <1>4

\* Induction, for a set of numbers.
LEMMA InductionUpTo ==
  ASSUME NEW C \in Nat, NEW T, 0 \in T, \A k \in 1..C : k - 1 \in T => k \in T
  PROVE  0..C \subseteq T
<1>1. SUFFICES ASSUME (0..C) \ T # {} PROVE FALSE
  OBVIOUS
<1>2. (0..C) \ T \subseteq Nat
  OBVIOUS
<1>3. PICK n \in (0..C) \ T : \A m \in (0..C) \ T : n <= m
  BY <1>1, <1>2, LeastNumber
<1>4. n # 0 /\ n \in Nat
  BY <1>3
<1>5. n \in 1..C /\ n - 1 \in 0..C /\ ~(n <= n - 1)
  BY <1>3, <1>4
<1>6. n - 1 \in T
  BY <1>3, <1>5
<1> QED BY <1>3, <1>5, <1>6

\* The place of a number in a set of numbers.
RankIn(K, i) == Cardinality({j \in K : j <= i})

\* Every number in a set has a place of its own, and every place has a number.
LEMMA Ranks ==
  ASSUME NEW K, IsFiniteSet(K), K \subseteq Nat
  PROVE  /\ Cardinality(K) \in Nat
         /\ \A i \in K : RankIn(K, i) \in 1..Cardinality(K)
         /\ \A i, j \in K : RankIn(K, i) = RankIn(K, j) => i = j
         /\ \A k \in 1..Cardinality(K) : \E i \in K : RankIn(K, i) = k
<1> DEFINE n == Cardinality(K)
           UpTo(i) == {j \in K : j <= i}
           r == [i \in K |-> RankIn(K, i)]
<1>1. n \in Nat
  BY FS_CardinalityType
<1>2. \A i \in K : /\ IsFiniteSet(UpTo(i)) /\ Cardinality(UpTo(i)) \in Nat /\ Cardinality(UpTo(i)) <= n
                   /\ UpTo(i) # {} /\ Cardinality(UpTo(i)) # 0
  <2> SUFFICES ASSUME NEW i \in K
               PROVE  /\ IsFiniteSet(UpTo(i)) /\ Cardinality(UpTo(i)) \in Nat /\ Cardinality(UpTo(i)) <= n
                      /\ UpTo(i) # {} /\ Cardinality(UpTo(i)) # 0
    OBVIOUS
  <2>1. i \in UpTo(i) /\ UpTo(i) \subseteq K
    OBVIOUS
  <2> HIDE DEF UpTo
  <2>2. IsFiniteSet(UpTo(i)) /\ Cardinality(UpTo(i)) \in Nat /\ Cardinality(UpTo(i)) <= n
    BY <2>1, Finite
  <2> QED BY <2>1, <2>2, FS_EmptySet
<1>3. \A i \in K : RankIn(K, i) = Cardinality(UpTo(i))
  BY DEF RankIn
<1>4. \A i \in K : RankIn(K, i) \in 1..n
  <2> HIDE DEF UpTo, n
  <2> QED BY <1>1, <1>2, <1>3
<1>5. \A i, j \in K : i < j => RankIn(K, i) # RankIn(K, j)
  <2> SUFFICES ASSUME NEW i \in K, NEW j \in K, i < j, Cardinality(UpTo(i)) = Cardinality(UpTo(j)) PROVE FALSE
    BY <1>3
  <2>1. UpTo(i) \subseteq UpTo(j) /\ j \in UpTo(j) /\ j \notin UpTo(i)
    <3>1. \A a, b, c \in Nat : a <= b /\ b < c => a <= c
      OBVIOUS
    <3>2. i \in Nat /\ j \in Nat /\ j <= j /\ ~(j <= i)
      OBVIOUS
    <3> QED BY <3>1, <3>2
  <2>2. UpTo(i) = UpTo(j)
    <3> HIDE DEF UpTo
    <3> QED BY <1>2, <2>1, Finite
  <2> QED BY <2>1, <2>2
<1>6. \A i, j \in K : RankIn(K, i) = RankIn(K, j) => i = j
  <2>1. \A i, j \in K : i < j \/ j < i \/ i = j
    OBVIOUS
  <2> QED BY <1>5, <2>1
<1>7. r \in [K -> 1..n] /\ \A i, j \in K : r[i] = r[j] => i = j
  BY <1>4, <1>6
<1>8. IsFiniteSet(1..n) /\ Cardinality(1..n) = n
  BY <1>1, IntervalSize
<1> HIDE DEF r
<1>9. \A k \in 1..n : \E i \in K : r[i] = k
  <2>1. Cardinality(K) = Cardinality(1..n)
    BY <1>8
  <2> DEFINE N == 1..n
  <2>2. r \in [K -> N] /\ IsFiniteSet(N) /\ Cardinality(K) = Cardinality(N)
    BY <1>7, <1>8, <2>1
  <2>3. \A i, j \in K : r[i] = r[j] => i = j
    BY <1>7
  <2> HIDE DEF UpTo, n, N
  <2>4. r \in Injection(K, N)
    BY <2>2, <2>3 DEF Injection, IsInjective
  <2>5. r \in Surjection(K, N)
    BY <2>2, <2>4, FS_Injection
  <2>6. \A k \in N : \E i \in K : r[i] = k
    BY <2>5 DEF Surjection
  <2> QED BY <2>6 DEF N
<1> QED BY <1>1, <1>4, <1>6, <1>9 DEF r

-----------------------------------------------------------------------------
(* Data sets. *)

IsData(q) == q \in Seq(DataFields) /\ IsInjective(q)

LEMMA SeqParts ==
  ASSUME NEW q \in Seq(DataFields)
  PROVE  /\ Len(q) \in Nat /\ DOMAIN q = 1..Len(q) /\ q \in [1..Len(q) -> DataFields]
         /\ \A i \in 1..Len(q) : q[i] \in Range(q) /\ q[i] \in DataFields
         /\ Range(q) \subseteq DataFields
         /\ \A x \in Range(q) : \E i \in 1..Len(q) : x = q[i]
<1>1. /\ Len(q) \in Nat /\ DOMAIN q = 1..Len(q) /\ q \in [1..Len(q) -> DataFields]
      /\ \A i \in 1..Len(q) : q[i] \in DataFields
  BY LenProperties, ElementOfSeq
<1> QED BY <1>1 DEF Range

\* A data set with each field once has as many entries as fields.
LEMMA DataParts ==
  ASSUME NEW q, IsData(q)
  PROVE  /\ \A i, j \in 1..Len(q) : q[i] = q[j] => i = j
         /\ IsFiniteSet(Range(q)) /\ Cardinality(Range(q)) = Len(q)
<1>1. /\ Len(q) \in Nat /\ DOMAIN q = 1..Len(q)
      /\ \A i \in 1..Len(q) : q[i] \in Range(q)
      /\ \A x \in Range(q) : \E i \in 1..Len(q) : x = q[i]
      /\ q \in [1..Len(q) -> DataFields]
  BY SeqParts DEF IsData
<1>2. \A i, j \in 1..Len(q) : q[i] = q[j] => i = j
  BY <1>1 DEF IsData, IsInjective
<1> DEFINE N == 1..Len(q)
           R == Range(q)
<1>3. IsFiniteSet(N) /\ Cardinality(N) = Len(q)
  BY <1>1, IntervalSize
<1>4. q \in [N -> R]
  <2> HIDE DEF R
  <2> QED BY <1>1 DEF R
<1> HIDE DEF N, R
<1>5. q \in Surjection(N, R) /\ q \in Injection(N, R)
  BY <1>1, <1>2, <1>4 DEF Surjection, Injection, IsInjective, N, R
<1>6. IsFiniteSet(R) /\ Cardinality(R) = Cardinality(N)
  BY <1>3, <1>5, FS_Surjection
<1> QED BY <1>2, <1>3, <1>6 DEF R

\* What is kept of a sequence are its elements that are in the set.
LEMMA KeptParts ==
  ASSUME NEW s \in Seq(DataFields), NEW S
  PROVE  /\ Kept(s, S) \in Seq(DataFields)
         /\ Range(Kept(s, S)) = Range(s) \cap S
         /\ IsInjective(s) => IsInjective(Kept(s, S))
<1> DEFINE K == {i \in DOMAIN s : s[i] \in S}
           n == Cardinality(K)
           at(k) == CHOOSE i \in K : RankIn(K, i) = k
           q == [k \in 1..n |-> s[at(k)]]
<1>1. /\ Len(s) \in Nat /\ DOMAIN s = 1..Len(s)
      /\ \A i \in 1..Len(s) : s[i] \in Range(s) /\ s[i] \in DataFields
      /\ \A x \in Range(s) : \E i \in 1..Len(s) : x = s[i]
  BY SeqParts
<1>2. Kept(s, S) = q
  BY DEF Kept, RankIn
<1>3. K \subseteq 1..Len(s) /\ K \subseteq Nat /\ IsFiniteSet(K)
  <2>1. K \subseteq 1..Len(s) /\ K \subseteq Nat
    BY <1>1
  <2>2. IsFiniteSet(1..Len(s))
    BY <1>1, IntervalSize
  <2> HIDE DEF K
  <2> QED BY <2>1, <2>2, Finite
<1>4. \A i \in K : s[i] \in S /\ i \in 1..Len(s)
  BY <1>3
<1>5. \A i \in 1..Len(s) : s[i] \in S => i \in K
  BY <1>1
<1> HIDE DEF K
<1>6. /\ n \in Nat /\ \A i \in K : RankIn(K, i) \in 1..n
      /\ \A i, j \in K : RankIn(K, i) = RankIn(K, j) => i = j
      /\ \A k \in 1..n : \E i \in K : RankIn(K, i) = k
  BY <1>3, Ranks
<1> HIDE DEF n
<1>7. \A k \in 1..n : at(k) \in K /\ RankIn(K, at(k)) = k
  BY <1>6
<1>8. \A i \in K : at(RankIn(K, i)) = i
  BY <1>6, <1>7
<1> HIDE DEF at
<1>9. q \in Seq(DataFields) /\ DOMAIN q = 1..n /\ \A k \in 1..n : q[k] = s[at(k)]
  <2>1. \A k \in 1..n : s[at(k)] \in DataFields
    BY <1>1, <1>4, <1>7
  <2> QED BY <1>6, <2>1, IsASeq
<1> HIDE DEF q
<1>10. IsInjective(s) => IsInjective(q)
  BY <1>1, <1>4, <1>7, <1>9 DEF IsInjective
<1>11. \A x \in Range(q) : x \in Range(s) \cap S
  BY <1>1, <1>4, <1>7, <1>9 DEF Range
<1>12. \A x \in Range(s) \cap S : x \in Range(q)
  <2> SUFFICES ASSUME NEW x \in Range(s), x \in S PROVE x \in Range(q)
    OBVIOUS
  <2>1. PICK i \in 1..Len(s) : s[i] = x
    BY <1>1
  <2>2. i \in K
    BY <1>5, <2>1
  <2>3. q[RankIn(K, i)] = x /\ RankIn(K, i) \in DOMAIN q
    BY <1>6, <1>8, <1>9, <2>1, <2>2
  <2> QED BY <2>3 DEF Range
<1> QED BY <1>2, <1>9, <1>10, <1>11, <1>12

\* fields_diff: the fields of the one that the other has not, in their order.
LEMMA DiffParts ==
  ASSUME NEW a, NEW b, IsData(a)
  PROVE  IsData(FieldsDiff(a, b)) /\ Range(FieldsDiff(a, b)) = Range(a) \ Range(b)
BY KeptParts DEF FieldsDiff, IsData

\* Fields appended to a data set that has none of them.
LEMMA Appending ==
  ASSUME NEW a, NEW b, IsData(a), IsData(b), Range(a) \cap Range(b) = {}
  PROVE  /\ IsData(a \o b) /\ Range(a \o b) = Range(a) \cup Range(b)
         /\ Len(a) <= Len(a \o b)
         /\ \A i \in 1..Len(a) : (a \o b)[i] = a[i]
<1> DEFINE c == a \o b
           m == Len(a)
           n == Len(b)
<1>1. /\ m \in Nat /\ n \in Nat /\ DOMAIN a = 1..m /\ DOMAIN b = 1..n
      /\ \A i \in 1..m : a[i] \in Range(a)
      /\ \A i \in 1..n : b[i] \in Range(b)
      /\ \A x \in Range(a) : \E i \in 1..m : x = a[i]
      /\ \A x \in Range(b) : \E i \in 1..n : x = b[i]
      /\ \A i, j \in 1..m : a[i] = a[j] => i = j
      /\ \A i, j \in 1..n : b[i] = b[j] => i = j
  BY SeqParts, DataParts DEF IsData
<1>2. /\ c \in Seq(DataFields) /\ Len(c) = m + n
      /\ \A i \in 1..(m + n) : c[i] = IF i <= m THEN a[i] ELSE b[i - m]
  BY ConcatProperties DEF IsData
<1> HIDE DEF c, m, n
<1>3. DOMAIN c = 1..(m + n)
  BY <1>1, <1>2, LenProperties
<1>4. \A i \in 1..m : i \in 1..(m + n) /\ c[i] = a[i]
  BY <1>1, <1>2
<1>5. \A i \in 1..n : i + m \in 1..(m + n) /\ c[i + m] = b[i]
  BY <1>1, <1>2
<1>6. \A i \in 1..(m + n) : i \in 1..m \/ \E j \in 1..n : i = j + m
  <2> SUFFICES ASSUME NEW i \in 1..(m + n), i \notin 1..m PROVE i - m \in 1..n /\ i = (i - m) + m
    OBVIOUS
  <2> QED BY <1>1
<1>7. IsInjective(c)
  <2> SUFFICES ASSUME NEW i \in 1..(m + n), NEW j \in 1..(m + n), c[i] = c[j] PROVE i = j
    BY <1>3 DEF IsInjective
  <2>1. CASE i \in 1..m /\ j \in 1..m
    BY <1>1, <1>4, <2>1
  <2>2. CASE i \in 1..m /\ \E l \in 1..n : j = l + m
    BY <1>1, <1>4, <1>5, <2>2
  <2>3. CASE j \in 1..m /\ \E l \in 1..n : i = l + m
    BY <1>1, <1>4, <1>5, <2>3
  <2>4. CASE (\E l \in 1..n : i = l + m) /\ (\E l \in 1..n : j = l + m)
    <3>1. PICK k \in 1..n, l \in 1..n : i = k + m /\ j = l + m
      BY <2>4
    <3>2. b[k] = b[l]
      BY <1>5, <3>1
    <3> QED BY <1>1, <3>1, <3>2
  <2> QED BY <1>6, <2>1, <2>2, <2>3, <2>4
<1>8. Range(c) = Range(a) \cup Range(b)
  <2>1. \A x \in Range(c) : \E i \in 1..(m + n) : x = c[i]
    BY <1>3 DEF Range
  <2>2. \A i \in 1..(m + n) : c[i] \in Range(c)
    BY <1>3 DEF Range
  <2>3. ASSUME NEW i \in 1..(m + n) PROVE c[i] \in Range(a) \cup Range(b)
    <3>1. CASE i \in 1..m
      BY <1>1, <1>4, <3>1
    <3>2. CASE \E j \in 1..n : i = j + m
      <4>1. PICK j \in 1..n : i = j + m
        BY <3>2
      <4> QED BY <1>1, <1>5, <4>1
    <3> QED BY <1>6, <3>1, <3>2
  <2>4. \A x \in Range(a) : x \in Range(c)
    BY <1>1, <1>4, <2>2
  <2>5. \A x \in Range(b) : x \in Range(c)
    <3>1. \A j \in 1..n : b[j] \in Range(c)
      BY <1>5, <2>2
    <3> QED BY <1>1, <3>1
  <2> QED BY <2>1, <2>3, <2>4, <2>5
<1>9. m <= m + n
  BY <1>1
<1> QED BY <1>2, <1>4, <1>7, <1>8, <1>9 DEF IsData, c, m

\* del of the entry at an index.
LEMMA RemovedAt ==
  ASSUME NEW s, IsData(s), NEW i \in 1..Len(s)
  PROVE  /\ IsData(RemoveAt(s, i)) /\ Range(RemoveAt(s, i)) = Range(s) \ {s[i]}
         /\ \A j \in 1..(i - 1) : j \in 1..Len(RemoveAt(s, i)) /\ RemoveAt(s, i)[j] = s[j]
<1> DEFINE a == SubSeq(s, 1, i - 1)
           b == SubSeq(s, i + 1, Len(s))
           c == RemoveAt(s, i)
           n == Len(s)
<1>1. /\ n \in Nat /\ DOMAIN s = 1..n /\ i \in Nat /\ i >= 1 /\ i <= n
      /\ \A j \in 1..n : s[j] \in DataFields /\ s[j] \in Range(s)
      /\ \A x \in Range(s) : \E j \in 1..n : x = s[j]
      /\ \A j, k \in 1..n : s[j] = s[k] => j = k
  BY SeqParts, DataParts DEF IsData
<1>2. /\ a \in Seq(DataFields) /\ Len(a) = i - 1 /\ \A j \in 1..(i - 1) : a[j] = s[j]
  <2>1. \A j \in 1..(i - 1) : s[j] \in DataFields
    BY <1>1
  <2>2. s \in Seq(DataFields)
    BY DEF IsData
  <2>3. a = [j \in 1..(i - 1) |-> s[j]]
    BY <1>1, <2>2
  <2>4. PICK m \in Nat : m = i - 1
    BY <1>1
  <2>5. a \in [1..m -> DataFields] /\ DOMAIN a = 1..m
    BY <2>1, <2>3, <2>4
  <2>6. a \in Seq(DataFields) /\ Len(a) = m
    <3> HIDE DEF a
    <3> QED BY <2>5
  <2> QED BY <2>3, <2>4, <2>6
<1>3. /\ b \in Seq(DataFields) /\ Len(b) = n - i /\ \A j \in 1..(n - i) : b[j] = s[i + j]
  <2>1. \A j \in 1..(n - i) : s[i + j] \in DataFields
    BY <1>1
  <2>2. s \in Seq(DataFields)
    BY DEF IsData
  <2>3. b = [j \in 1..(n - i) |-> s[i + j]]
    BY <1>1, <2>2
  <2> DEFINE m == n - i
  <2>4. m \in Nat
    BY <1>1
  <2>5. b \in [1..m -> DataFields] /\ DOMAIN b = 1..m
    BY <2>1, <2>3
  <2>6. b \in Seq(DataFields) /\ Len(b) = m
    <3> HIDE DEF b, m
    <3> QED BY <2>4, <2>5
  <2> QED BY <2>3, <2>4, <2>6
<1> HIDE DEF a, b, n
<1>4. c = a \o b
  BY DEF RemoveAt, a, b, n
<1> HIDE DEF c
<1>5. /\ c \in Seq(DataFields) /\ Len(c) = (i - 1) + (n - i)
      /\ \A j \in 1..((i - 1) + (n - i)) : c[j] = IF j <= i - 1 THEN a[j] ELSE b[j - (i - 1)]
  BY <1>2, <1>3, <1>4, ConcatProperties
<1>6. Len(c) = n - 1 /\ DOMAIN c = 1..(n - 1)
  BY <1>1, <1>5, LenProperties
<1>7. \A j \in 1..(n - 1) : c[j] = IF j < i THEN s[j] ELSE s[j + 1]
  <2> SUFFICES ASSUME NEW j \in 1..(n - 1) PROVE c[j] = IF j < i THEN s[j] ELSE s[j + 1]
    OBVIOUS
  <2>1. c[j] = IF j <= i - 1 THEN a[j] ELSE b[j - (i - 1)]
    BY <1>1, <1>5
  <2>2. CASE j < i
    BY <1>1, <1>2, <2>1, <2>2
  <2>3. CASE ~(j < i)
    <3>1. j - (i - 1) \in 1..(n - i) /\ i + (j - (i - 1)) = j + 1 /\ ~(j <= i - 1)
      BY <1>1, <2>3
    <3> QED BY <1>3, <2>1, <2>3, <3>1
  <2> QED BY <2>2, <2>3
<1>8. IsInjective(c)
  <2> SUFFICES ASSUME NEW j \in 1..(n - 1), NEW k \in 1..(n - 1), c[j] = c[k] PROVE j = k
    BY <1>6 DEF IsInjective
  <2>1. /\ j \in 1..n /\ k \in 1..n /\ j + 1 \in 1..n /\ k + 1 \in 1..n
    BY <1>1
  <2>2. (j < i /\ k < i => j = k) /\ (~(j < i) /\ ~(k < i) => j + 1 = k + 1)
    BY <1>1, <1>7, <2>1
  <2>3. ~(j < i /\ ~(k < i)) /\ ~(k < i /\ ~(j < i))
    <3>1. j < i /\ ~(k < i) => j = k + 1
      BY <1>1, <1>7, <2>1
    <3>2. k < i /\ ~(j < i) => k = j + 1
      BY <1>1, <1>7, <2>1
    <3> QED BY <1>1, <3>1, <3>2
  <2> QED BY <2>2, <2>3
<1>9. Range(c) = Range(s) \ {s[i]}
  <2>1. \A x \in Range(c) : \E j \in 1..(n - 1) : x = c[j]
    BY <1>6 DEF Range
  <2>2. \A j \in 1..(n - 1) : c[j] \in Range(c)
    BY <1>6 DEF Range
  <2>3. ASSUME NEW j \in 1..(n - 1) PROVE c[j] \in Range(s) /\ c[j] # s[i]
    <3>1. j \in 1..n /\ j + 1 \in 1..n /\ i \in 1..n
      BY <1>1
    <3> QED BY <1>1, <1>7, <3>1
  <2>4. ASSUME NEW j \in 1..n, j # i PROVE s[j] \in Range(c)
    <3>1. CASE j < i
      <4>1. j \in 1..(n - 1)
        BY <1>1, <3>1
      <4> QED BY <1>7, <2>2, <3>1, <4>1
    <3>2. CASE ~(j < i)
      <4>1. j - 1 \in 1..(n - 1) /\ ~(j - 1 < i) /\ (j - 1) + 1 = j
        BY <1>1, <2>4, <3>2
      <4>2. c[j - 1] = s[(j - 1) + 1]
        BY <1>7, <4>1
      <4> QED BY <2>2, <4>1, <4>2
    <3> QED BY <3>1, <3>2
  <2> QED BY <1>1, <2>1, <2>3, <2>4
<1>10. \A j \in 1..(i - 1) : j \in 1..Len(c) /\ c[j] = s[j]
  BY <1>1, <1>6, <1>7
<1> QED BY <1>5, <1>8, <1>9, <1>10 DEF IsData, c

-----------------------------------------------------------------------------
(* Deleting the entries of removed fields. *)

\* The equation of the deletions, and that a function fulfils it.
Shorter(s, i) == IF s = Gone \/ i > Len(s) THEN Gone ELSE RemoveAt(s, i)
Deletions(f, data, indexes, n) == f = [k \in 0..n |-> IF k = 0 THEN data ELSE Shorter(f[k - 1], indexes[k])]

LEMMA DeletionRounds ==
  ASSUME NEW n \in Nat, NEW data, NEW indexes, NEW f, Deletions(f, data, indexes, n)
  PROVE  f[0] = data /\ \A k \in 1..n : f[k] = Shorter(f[k - 1], indexes[k])
<1>1. f = [k \in 0..n |-> IF k = 0 THEN data ELSE Shorter(f[k - 1], indexes[k])]
  BY DEF Deletions
<1>2. f[0] = data
  <2>1. 0 \in 0..n
    OBVIOUS
  <2> QED BY <1>1, <2>1
<1>3. ASSUME NEW k \in 1..n PROVE f[k] = Shorter(f[k - 1], indexes[k])
  <2>1. k \in 0..n /\ k # 0
    OBVIOUS
  <2> QED BY <1>1, <2>1
<1> QED BY <1>2, <1>3

LEMMA DeletionsExist ==
  ASSUME NEW n \in Nat, NEW data, NEW indexes
  PROVE  \E f : Deletions(f, data, indexes, n)
<1> DEFINE T == {m \in Nat : \E f : Deletions(f, data, indexes, m)}
<1>1. 0 \in T
  <2> DEFINE f == [k \in 0..0 |-> data]
  <2>1. Deletions(f, data, indexes, 0)
    BY DEF Deletions
  <2> QED BY <2>1
<1>2. \A m \in 1..n : m - 1 \in T => m \in T
  <2> SUFFICES ASSUME NEW m \in 1..n, m - 1 \in T PROVE \E g : Deletions(g, data, indexes, m)
    OBVIOUS
  <2>1. PICK f : Deletions(f, data, indexes, m - 1)
    OBVIOUS
  <2> DEFINE g == [k \in 0..m |-> IF k = m THEN Shorter(f[m - 1], indexes[m]) ELSE f[k]]
  <2>2. m \in Nat /\ m # 0 /\ m - 1 \in Nat
    OBVIOUS
  <2>3. f[0] = data /\ \A k \in 1..(m - 1) : f[k] = Shorter(f[k - 1], indexes[k])
    BY <2>1, <2>2, DeletionRounds
  <2>4. g[0] = data
    <3>1. 0 \in 0..m /\ 0 # m
      BY <2>2
    <3>2. g[0] = f[0]
      BY <3>1
    <3> QED BY <2>3, <3>2
  <2>5. \A k \in 1..m : g[k] = Shorter(g[k - 1], indexes[k])
    <3> SUFFICES ASSUME NEW k \in 1..m PROVE g[k] = Shorter(g[k - 1], indexes[k])
      OBVIOUS
    <3>1. k - 1 \in 0..m /\ k - 1 # m /\ k \in 0..m
      BY <2>2
    <3>2. g[k - 1] = f[k - 1]
      BY <3>1
    <3>3. g[k] = Shorter(f[k - 1], indexes[k])
      <4>1. CASE k = m
        BY <3>1, <4>1
      <4>2. CASE k # m
        <5>1. g[k] = f[k] /\ k \in 1..(m - 1)
          BY <2>2, <3>1, <4>2
        <5> QED BY <2>3, <5>1
      <4> QED BY <4>1, <4>2
    <3> HIDE DEF g
    <3> QED BY <3>2, <3>3
  <2>6. Deletions(g, data, indexes, m)
    <3> DEFINE h == [k \in 0..m |-> IF k = 0 THEN data ELSE Shorter(g[k - 1], indexes[k])]
    <3>1. g = [k \in 0..m |-> g[k]]
      OBVIOUS
    <3> HIDE DEF g
    <3>2. \A k \in 0..m : g[k] = IF k = 0 THEN data ELSE Shorter(g[k - 1], indexes[k])
      <4>1. \A k \in 0..m : k = 0 \/ k \in 1..m
        BY <2>2
      <4>2. \A k \in 1..m : k # 0
        OBVIOUS
      <4> QED BY <2>4, <2>5, <4>1, <4>2
    <3>3. g = h
      BY <3>1, <3>2
    <3> QED BY <3>3 DEF Deletions
  <2> QED BY <2>6
<1> HIDE DEF T
<1>3. 0..n \subseteq T
  BY <1>1, <1>2, InductionUpTo
<1>4. n \in T
  BY <1>3
<1> QED BY <1>4 DEF T

\* What DeleteAll goes through.
Deleting(f, data, indexes, n) ==
  /\ f[0] = data /\ \A k \in 1..n : f[k] = Shorter(f[k - 1], indexes[k])
  /\ DeleteAll(data, indexes) = f[n]

LEMMA DeletionsMade ==
  ASSUME NEW data, NEW indexes, NEW n \in Nat, Len(indexes) = n
  PROVE  \E f : Deleting(f, data, indexes, n)
<1> DEFINE g == CHOOSE f : Deletions(f, data, indexes, n)
<1>1. DeleteAll(data, indexes) = g[n]
  BY DEF DeleteAll, Deletions, Shorter
<1>2. Deletions(g, data, indexes, n)
  BY DeletionsExist
<1> HIDE DEF g
<1>3. g[0] = data /\ \A k \in 1..n : g[k] = Shorter(g[k - 1], indexes[k])
  BY <1>2, DeletionRounds
<1> QED BY <1>1, <1>3 DEF Deleting

EntriesAt(data, indexes, n) == {data[indexes[k]] : k \in 1..n}
FromTheEnd(indexes, n) == \A k \in 2..n : indexes[k] < indexes[k - 1]

\* Entries deleted from the last index to the first leave the others.
LEMMA DeletedFromTheEnd ==
  ASSUME NEW data, IsData(data), NEW n \in Nat, NEW indexes, indexes \in [1..n -> 1..Len(data)], Len(indexes) = n,
         FromTheEnd(indexes, n)
  PROVE  /\ IsData(DeleteAll(data, indexes))
         /\ Range(DeleteAll(data, indexes)) = Range(data) \ EntriesAt(data, indexes, n)
<1>0. PICK f : Deleting(f, data, indexes, n)
  BY DeletionsMade
<1>1. /\ f[0] = data /\ \A k \in 1..n : f[k] = Shorter(f[k - 1], indexes[k])
      /\ DeleteAll(data, indexes) = f[n]
  BY <1>0 DEF Deleting
<1> DEFINE Left(k) == /\ IsData(f[k])
                      /\ Range(f[k]) = Range(data) \ {data[indexes[j]] : j \in 1..k}
                      /\ \A i \in 1..Len(data) : k = 0 \/ i < indexes[k] => i \in 1..Len(f[k]) /\ f[k][i] = data[i]
           T == {k \in 0..n : Left(k)}
<1>2. Left(0)
  BY <1>1
<1>3. ASSUME NEW k \in 1..n, Left(k - 1) PROVE Left(k)
  <2> DEFINE s == f[k - 1]
             i == indexes[k]
  <2>1. i \in 1..Len(data) /\ i \in Nat /\ Len(data) \in Nat
    BY SeqParts DEF IsData
  <2>2. k - 1 = 0 \/ i < indexes[k - 1]
    <3>1. k = 1 \/ k \in 2..n
      OBVIOUS
    <3> QED BY <3>1 DEF FromTheEnd
  <2>3. IsData(s) /\ i \in 1..Len(s) /\ s[i] = data[i]
    BY <1>3, <2>1, <2>2
  <2>4. f[k] = RemoveAt(s, i)
    <3>1. s # Gone
      BY <2>3, SentinelsAssumption DEF IsData
    <3>2. ~(i > Len(s))
      BY <2>3, SeqParts DEF IsData
    <3> QED BY <1>1, <3>1, <3>2 DEF Shorter
  <2>5. /\ IsData(f[k]) /\ Range(f[k]) = Range(s) \ {s[i]}
        /\ \A j \in 1..(i - 1) : j \in 1..Len(f[k]) /\ f[k][j] = s[j]
    BY <2>3, <2>4, RemovedAt
  <2>6. Range(f[k]) = Range(data) \ {data[indexes[j]] : j \in 1..k}
    <3>1. \A j \in 1..k : j \in 1..(k - 1) \/ j = k
      OBVIOUS
    <3>2. \A j \in 1..(k - 1) : j \in 1..k
      OBVIOUS
    <3>3. k \in 1..k
      OBVIOUS
    <3>4. Range(s) = Range(data) \ {data[indexes[j]] : j \in 1..(k - 1)}
      BY <1>3
    <3> QED BY <2>3, <2>5, <3>1, <3>2, <3>3, <3>4
  <2>7. ASSUME NEW l \in 1..Len(data), k = 0 \/ l < i PROVE l \in 1..Len(f[k]) /\ f[k][l] = data[l]
    <3>1. l \in 1..(i - 1)
      BY <2>1, <2>7
    <3>2. k - 1 = 0 \/ l < indexes[k - 1]
      <4>1. k - 1 # 0 => indexes[k - 1] \in Nat
        BY <2>1
      <4> QED BY <2>1, <2>2, <3>1, <4>1
    <3>3. s[l] = data[l]
      BY <1>3, <3>2
    <3> QED BY <2>5, <3>1, <3>3
  <2> QED BY <2>5, <2>6, <2>7
<1> HIDE DEF Left
<1>4. 0 \in T /\ \A k \in 1..n : k - 1 \in T => k \in T
  BY <1>2, <1>3
<1>5. 0..n \subseteq T
  <2> HIDE DEF T
  <2> QED BY <1>4, InductionUpTo
<1>6. Left(n)
  BY <1>5
<1> QED BY <1>1, <1>6 DEF Left, EntriesAt

LEMMA IndexParts ==
  ASSUME NEW data, IsData(data), NEW f \in Range(data)
  PROVE  /\ IndexOf(data, f) \in 1..Len(data) /\ data[IndexOf(data, f)] = f
         /\ \A i \in 1..Len(data) : data[i] = f => i = IndexOf(data, f)
<1>1. /\ Len(data) \in Nat /\ DOMAIN data = 1..Len(data)
      /\ \A i, j \in 1..Len(data) : data[i] = data[j] => i = j
      /\ \E i \in 1..Len(data) : f = data[i]
  BY SeqParts, DataParts DEF IsData
<1>2. PICK i \in 1..Len(data) : data[i] = f
  BY <1>1
<1>3. \A j \in 1..(i - 1) : data[j] # f
  <2> SUFFICES ASSUME NEW j \in 1..(i - 1), data[j] = f PROVE FALSE
    OBVIOUS
  <2>1. j \in 1..Len(data) /\ j # i
    BY <1>1
  <2> QED BY <1>1, <1>2, <2>1
<1>4. IndexOf(data, f) = CHOOSE k \in DOMAIN data : data[k] = f /\ \A j \in 1..(k - 1) : data[j] # f
  BY DEF IndexOf
<1>5. IndexOf(data, f) \in 1..Len(data) /\ data[IndexOf(data, f)] = f
  BY <1>1, <1>2, <1>3, <1>4
<1> QED BY <1>1, <1>5

\* A save changes a data set to the new fields, each once, when it has the old
\* ones with the removed ones in the order they are deleted in.
LEMMA UpdatedData ==
  ASSUME NEW data, IsData(data), NEW old, IsData(old), NEW new, IsData(new), Range(data) = Range(old),
         InOrder(data, FieldsDiff(old, new))
  PROVE  IsData(DataUpdated(data, old, new)) /\ Range(DataUpdated(data, old, new)) = Range(new)
<1> DEFINE added == FieldsDiff(new, old)
           names == FieldsDiff(old, new)
           all == data \o added
           n == Len(names)
           indexes == [k \in DOMAIN names |-> IndexOf(all, names[Len(names) + 1 - k])]
<1>1. DataUpdated(data, old, new) = DeleteAll(all, indexes)
  BY DEF DataUpdated, DeleteEntries
<1>2. /\ IsData(added) /\ Range(added) = Range(new) \ Range(old)
      /\ IsData(names) /\ Range(names) = Range(old) \ Range(new)
      /\ InOrder(data, names)
  BY DiffParts
<1> HIDE DEF added, names
<1>3. /\ IsData(all) /\ Range(all) = Range(old) \cup Range(new) /\ Len(data) <= Len(all)
      /\ \A i \in 1..Len(data) : all[i] = data[i]
  <2>1. Range(data) \cap Range(added) = {}
    BY <1>2
  <2> QED BY <1>2, <2>1, Appending
<1> HIDE DEF all
<1>4. /\ n \in Nat /\ DOMAIN names = 1..n
      /\ \A k \in 1..n : names[k] \in Range(old) \ Range(new)
      /\ \A x \in Range(old) \ Range(new) : \E k \in 1..n : x = names[k]
      /\ Len(data) \in Nat /\ Len(all) \in Nat
  BY <1>2, <1>3, SeqParts DEF IsData
<1> HIDE DEF n
<1>5. \A f \in Range(old) : /\ IndexOf(all, f) = IndexOf(data, f)
                            /\ IndexOf(all, f) \in 1..Len(all) /\ all[IndexOf(all, f)] = f
  <2> SUFFICES ASSUME NEW f \in Range(old)
               PROVE  /\ IndexOf(all, f) = IndexOf(data, f)
                      /\ IndexOf(all, f) \in 1..Len(all) /\ all[IndexOf(all, f)] = f
    OBVIOUS
  <2>1. IndexOf(data, f) \in 1..Len(data) /\ data[IndexOf(data, f)] = f
    BY IndexParts
  <2>2. /\ IndexOf(all, f) \in 1..Len(all) /\ all[IndexOf(all, f)] = f
        /\ \A i \in 1..Len(all) : all[i] = f => i = IndexOf(all, f)
    <3>1. f \in Range(all)
      BY <1>3
    <3> QED BY <1>3, <3>1, IndexParts
  <2>3. IndexOf(data, f) \in 1..Len(all) /\ all[IndexOf(data, f)] = f
    BY <1>3, <1>4, <2>1
  <2> QED BY <2>2, <2>3
<1>6. \A k \in 1..n : n + 1 - k \in 1..n /\ n + 1 - (n + 1 - k) = k
  BY <1>4
<1>7. indexes \in [1..n -> 1..Len(all)] /\ \A k \in 1..n : indexes[k] = IndexOf(all, names[n + 1 - k])
  BY <1>4, <1>5, <1>6 DEF n
<1>8. Len(indexes) = n
  <2> HIDE DEF indexes
  <2> QED BY <1>4, <1>7
<1> HIDE DEF indexes
<1>9. FromTheEnd(indexes, n)
  <2> SUFFICES ASSUME NEW k \in 2..n PROVE indexes[k] < indexes[k - 1]
    BY DEF FromTheEnd
  <2>1. /\ k \in 1..n /\ k - 1 \in 1..n /\ n + 1 - k \in 1..n /\ n + 1 - (k - 1) \in 1..n
        /\ n + 1 - k < n + 1 - (k - 1)
    BY <1>4
  <2>2. IndexOf(data, names[n + 1 - k]) < IndexOf(data, names[n + 1 - (k - 1)])
    BY <1>2, <1>4, <2>1 DEF InOrder
  <2>3. names[n + 1 - k] \in Range(old) /\ names[n + 1 - (k - 1)] \in Range(old)
    BY <1>4, <2>1
  <2> QED BY <1>5, <1>7, <2>1, <2>2, <2>3
<1>10. /\ IsData(DeleteAll(all, indexes))
       /\ Range(DeleteAll(all, indexes)) = Range(all) \ EntriesAt(all, indexes, n)
  <2>1. indexes \in [1..n -> 1..Len(all)]
    BY <1>7
  <2> HIDE DEF n, all, indexes
  <2> QED BY <1>3, <1>4, <1>8, <1>9, <2>1, DeletedFromTheEnd
<1>11. EntriesAt(all, indexes, n) = Range(old) \ Range(new)
  <2>1. \A k \in 1..n : all[indexes[k]] = names[n + 1 - k]
    BY <1>4, <1>5, <1>6, <1>7
  <2>2. \A k \in 1..n : all[indexes[n + 1 - k]] = names[k]
    BY <1>6, <2>1
  <2>3. \A k \in 1..n : all[indexes[k]] \in Range(old) \ Range(new)
    BY <1>4, <1>6, <2>1
  <2>4. ASSUME NEW x \in Range(old) \ Range(new) PROVE \E k \in 1..n : x = all[indexes[k]]
    <3>1. PICK k \in 1..n : x = names[k]
      BY <1>4
    <3> QED BY <1>6, <2>2, <3>1
  <2> QED BY <2>3, <2>4 DEF EntriesAt
<1> QED BY <1>1, <1>3, <1>10, <1>11

\* A data set in an order of its own.
LEMMA ReorderedData ==
  ASSUME NEW q, IsData(q), NEW s \in SetToSeqs(Range(q))
  PROVE  IsData(s) /\ Range(s) = Range(q)
<1> DEFINE n == Len(q)
           R == Range(q)
           N == 1..n
<1>1. /\ n \in Nat /\ R \subseteq DataFields /\ IsFiniteSet(R) /\ Cardinality(R) = n
  BY SeqParts, DataParts DEF IsData
<1>2. s \in [N -> R] /\ \A i, j \in N : i # j => s[i] # s[j]
  BY <1>1 DEF SetToSeqs
<1>3. IsFiniteSet(N) /\ Cardinality(N) = n
  BY <1>1, IntervalSize
<1>4. s \in Seq(DataFields) /\ DOMAIN s = N
  <2> HIDE DEF R
  <2> QED BY <1>1, <1>2
<1>5. s \in Surjection(N, R)
  <2> HIDE DEF N, R, n
  <2>1. s \in Injection(N, R)
    BY <1>2 DEF Injection, IsInjective
  <2> QED BY <1>1, <1>3, <2>1, FS_Injection
<1>6. Range(s) = R
  <2>1. \A t \in R : \E i \in N : s[i] = t
    BY <1>5 DEF Surjection
  <2> HIDE DEF R, N
  <2> QED BY <1>2, <2>1 DEF Range
<1> QED BY <1>2, <1>4, <1>6 DEF IsData, IsInjective

-----------------------------------------------------------------------------
(* What is in the database and in the workers' hands. *)

\* Requests that change a template, once they have found the type using it.
Templating(r) == r.at \in {"clean", "add", "back"} \/ (r.at = "objects" /\ r.then # "idle")

HandOK(docs) == \A o \in DOMAIN docs : o \in Objects /\ IsDoc(docs[o].new) /\ docs[o].old # Gone

TemplateReqOK(r) ==
  /\ {"kind", "removed", "added", "read", "data", "docs", "then"} \subseteq DOMAIN r
  /\ r.kind \in {"save", "delete"}
  /\ r.added \subseteq TemplateFields
  /\ r.read \in Types
  /\ r.data \in Types

ReqOK(r) ==
  /\ "at" \in DOMAIN r
  /\ r.at \in {"typeForm", "save"} => r.seen \in Types /\ r.global \in {Gone} \cup SUBSET TemplateFields
  /\ r.at = "save" => r.data \in Types
  /\ r.at \in {"template", "types"} => /\ {"kind", "old", "new"} \subseteq DOMAIN r
                                       /\ r.old \subseteq TemplateFields /\ r.new \subseteq TemplateFields
                                       /\ r.kind = "save" \/ (r.kind = "delete" /\ r.new = {})
  /\ r.at = "reading" => {"old", "mds", "docs", "then"} \subseteq DOMAIN r
  /\ r.at = "objects" => /\ r.then \in {"idle", "add", "back"}
                         /\ {"docs", "then"} \subseteq DOMAIN r /\ HandOK(r.docs)
  /\ Templating(r) => TemplateReqOK(r)
  /\ r.at = "add" \/ (r.at = "objects" /\ r.then = "add") => r.kind = "save"
  /\ r.at \in {"sweep", "pull", "fill"} => "fields" \in DOMAIN r /\ r.fields \subseteq Fields
  /\ r.at \in {"pull", "fill"} => "todo" \in DOMAIN r /\ r.todo \subseteq Objects \X Fields
  /\ r.at = "fill" => \A x \in r.todo : x[2] \in r.fields
  /\ r.at \in {"new", "insert", "validate", "write"} => r.names \subseteq Fields
  /\ r.at \in {"new", "validate"} => {"names", "mds"} \subseteq DOMAIN r
  /\ r.at = "validate" => "obj" \in DOMAIN r
  /\ r.at \in {"edit", "validate", "write"} => r.obj \in Objects

DocsOK == doc = [o \in Objects |-> doc[o]] /\ \A o \in Objects : doc[o] = Gone \/ IsDoc(doc[o])
TypeDocOK == type \in {Gone} \cup Types
TemplateOK == template \in {Gone} \cup SUBSET TemplateFields
ReqsOK == req = [w \in Workers |-> req[w]] /\ \A w \in Workers : ReqOK(req[w])
TypeInv == DocsOK /\ TypeDocOK /\ TemplateOK /\ ReqsOK

\* A worker's request is replaced, the others' are not.
LEMMA IsMoves ==
  ASSUME ReqsOK, NEW w \in Workers, NEW r, Is(w, r)
  PROVE  /\ req'[w] = r
         /\ \A v \in Workers : v # w => req'[v] = req[v]
         /\ ReqOK(r) => ReqsOK'
<1>1. req'[w] = r /\ \A v \in Workers : v # w => req'[v] = req[v]
  BY DEF ReqsOK, Is
<1>2. req' = [v \in Workers |-> req'[v]]
  BY DEF ReqsOK, Is
<1>3. ASSUME ReqOK(r), NEW v \in Workers PROVE ReqOK(req'[v])
  BY <1>1, <1>3 DEF ReqsOK
<1> QED BY <1>1, <1>2, <1>3 DEF ReqsOK

LEMMA IdleOK == ReqOK(Idle) /\ Idle.at = "idle"
  BY DEF ReqOK, Idle, Templating

LEMMA StartMoves ==
  ASSUME ReqsOK, NEW w \in Workers, NEW r, Start(w, r)
  PROVE  Is(w, r) /\ At(w, "idle") /\ UNCHANGED <<db, ways, since>>
  BY DEF Start

\* The type a change of a template makes of the one there is.
LEMMA NewTypeIsType ==
  ASSUME type \in Types, NEW r, r.new \subseteq TemplateFields
  PROVE  /\ NewType(r) \in Types
         /\ NewType(r).own = (FieldsOf(type) \ Removed(r)) \ r.new
         /\ r.kind = "save" => FieldsOf(NewType(r)) = (FieldsOf(type) \ Removed(r)) \cup r.new
         /\ r.kind # "save" => FieldsOf(NewType(r)) = (FieldsOf(type) \ Removed(r)) \ r.new
<1>1. FieldsOf(type) \subseteq Fields
  BY FieldsOfType
<1>2. NewType(r) \in Types
  BY <1>1 DEF NewType, Types
<1>3. /\ NewType(r).own = (FieldsOf(type) \ Removed(r)) \ r.new
      /\ NewType(r).section = IF r.kind = "save" THEN r.new ELSE Unused
  BY DEF NewType, Types
<1>4. r.new # Unused
  BY SentinelsAssumption
<1> QED BY <1>2, <1>3, <1>4 DEF FieldsOf, SectionOf

\* The request that a change of a template becomes.
TemplateRequest(r) ==
  [at |-> "clean", kind |-> r.kind, removed |-> Removed(r), added |-> r.new \ r.old,
   read |-> type, data |-> NewType(r), docs |-> <<>>, then |-> "idle"]

LEMMA FindTypesMoves ==
  ASSUME TypeInv, NEW w \in Workers, FindTypes(w)
  PROVE  /\ req[w].at = "types" /\ ReqOK(req[w])
         /\ UNCHANGED db
         /\ \/ /\ type # Gone /\ type \in Types /\ type.section # Unused
               /\ Is(w, TemplateRequest(req[w]))
            \/ Is(w, Idle)
            \/ Is(w, [at |-> "drop"])
  BY DEF FindTypes, TypeInv, TypeDocOK, ReqsOK, At, TemplateRequest

LEMMA ReadObjectsHands ==
  ASSUME NEW w \in Workers, ReadObjects(w)
  PROVE  \/ Refused(w)
         \/ Is(w, Hand([req[w] EXCEPT !.old = <<>>, !.mds = <<>>],
                       [o \in Present |-> [old |-> doc[o],
                          new |-> [doc[o] EXCEPT !.mds = DataUpdated(doc[o].mds, req[w].old, req[w].mds)]]],
                       "idle"))
  BY DEF ReadObjects, Each

LEMMA ReadToCleanHands ==
  ASSUME NEW w \in Workers, ReadToClean(w)
  PROVE  Is(w, Hand(req[w], [o \in Present |-> [old |-> doc[o], new |-> Without(doc[o], req[w].removed)]],
                    IF req[w].kind = "save" THEN "add" ELSE "back"))
  BY DEF ReadToClean, Each

LEMMA ReadToAddHands ==
  ASSUME NEW w \in Workers, ReadToAdd(w)
  PROVE  Is(w, Hand(req[w], [o \in Present |-> [old |-> doc[o], new |-> Appended(doc[o], req[w].added)]], "back"))
  BY DEF ReadToAdd, Each

\* Handing over to the writes, or past them when there is nothing to write.
LEMMA HandCases ==
  ASSUME NEW r, {"at", "docs", "then"} \subseteq DOMAIN r, NEW docs, NEW then
  PROVE  LET h == Hand(r, docs, then)
         IN  \/ /\ DOMAIN docs # {}
                /\ h.at = "objects" /\ h.docs = docs /\ h.then = then
                /\ DOMAIN h = DOMAIN r /\ \A x \in DOMAIN r \ {"at", "docs", "then"} : h[x] = r[x]
             \/ DOMAIN docs = {} /\ then = "idle" /\ h = Idle
             \/ /\ DOMAIN docs = {} /\ then # "idle"
                /\ h.at = then
                /\ DOMAIN h = DOMAIN r /\ \A x \in DOMAIN r \ {"at", "docs"} : h[x] = r[x]
  BY DEF Hand

LEMMA HandKeepsTemplate ==
  ASSUME NEW r, "at" \in DOMAIN r, TemplateReqOK(r), NEW docs, NEW then
  PROVE  LET h == Hand(r, docs, then)
         IN  h # Idle => /\ TemplateReqOK(h) /\ "at" \in DOMAIN h
                         /\ h.kind = r.kind /\ h.removed = r.removed /\ h.added = r.added
                         /\ h.read = r.read /\ h.data = r.data
<1> DEFINE h == Hand(r, docs, then)
<1>1. h # Idle => /\ DOMAIN h = DOMAIN r
                  /\ h.kind = r.kind /\ h.removed = r.removed /\ h.added = r.added
                  /\ h.read = r.read /\ h.data = r.data
  BY HandCases DEF TemplateReqOK
<1> QED BY <1>1 DEF TemplateReqOK

LEMMA HandIsOK ==
  ASSUME NEW r, {"at", "docs", "then"} \subseteq DOMAIN r,
         NEW docs, HandOK(docs),
         NEW then \in {"idle", "add", "back"},
         then # "idle" => TemplateReqOK(r),
         then = "add" => r.kind = "save"
  PROVE  ReqOK(Hand(r, docs, then))
<1> DEFINE h == Hand(r, docs, then)
<1>1. CASE h = Idle
  BY <1>1, IdleOK
<1>2. CASE h # Idle
  <2>1. "at" \in DOMAIN h /\ (h.at = "objects" \/ (h.at = then /\ then # "idle"))
    BY <1>2, HandCases
  <2>2. h.at = "objects" => h.then = then /\ h.docs = docs /\ {"docs", "then"} \subseteq DOMAIN h
    BY <1>2, HandCases
  <2>3. then # "idle" => TemplateReqOK(h) /\ h.kind = r.kind
    BY <1>2, HandKeepsTemplate
  <2> HIDE DEF h
  <2>4. Templating(h) => TemplateReqOK(h)
    BY <2>1, <2>2, <2>3 DEF Templating
  <2>5. h.at = "add" \/ (h.at = "objects" /\ h.then = "add") => h.kind = "save"
    BY <2>1, <2>2, <2>3
  <2>6. ReqOK(h)
    BY <2>1, <2>2, <2>4, <2>5 DEF ReqOK
  <2> QED BY <2>6 DEF h
<1> QED BY <1>1, <1>2

\* Steps that change no document, and what one document is replaced by.
LEMMA MovesOnly ==
  ASSUME TypeInv, NEW w \in Workers, NEW r, Is(w, r), ReqOK(r), UNCHANGED db
  PROVE  TypeInv'
<1>1. ReqsOK'
  BY IsMoves DEF TypeInv
<1> QED BY <1>1 DEF TypeInv, db, DocsOK, TypeDocOK, TemplateOK

LEMMA WriteDoc ==
  ASSUME DocsOK, NEW o \in Objects, NEW d, IsDoc(d) \/ d = Gone, doc' = [doc EXCEPT ![o] = d]
  PROVE  DocsOK' /\ doc'[o] = d /\ \A p \in Objects \ {o} : doc'[p] = doc[p]
<1>1. doc'[o] = d /\ \A p \in Objects \ {o} : doc'[p] = doc[p]
  BY DEF DocsOK
<1>2. doc' = [p \in Objects |-> doc'[p]]
  BY DEF DocsOK
<1>3. \A p \in Objects : doc'[p] = Gone \/ IsDoc(doc'[p])
  BY <1>1 DEF DocsOK
<1> QED BY <1>1, <1>2, <1>3 DEF DocsOK

LEMMA MovesAndWrites ==
  ASSUME TypeInv, NEW w \in Workers, NEW r, Is(w, r), ReqOK(r), UNCHANGED <<type, template>>, DocsOK'
  PROVE  TypeInv'
<1>1. ReqsOK'
  BY IsMoves DEF TypeInv
<1> QED BY <1>1 DEF TypeInv, TypeDocOK, TemplateOK

LEMMA ChangesAreTypes ==
  ASSUME NEW t \in Types, NEW global \in {Gone} \cup SUBSET TemplateFields, NEW c \in Changes(t, global)
  PROVE  c \in Types
<1>1. CASE \E S \in SUBSET OwnFields : c = [t EXCEPT !.own = (@ \ OwnFields) \cup S]
  BY <1>1 DEF Types, Fields
<1>2. CASE \E s \in {Unused, global} \ {Gone} : c = [t EXCEPT !.section = s]
  BY <1>2 DEF Types
<1>3. CASE \E q \in Remains(t.mds) : c = [t EXCEPT !.mds = q]
  <2>1. PICK S : c = [t EXCEPT !.mds = Kept(t.mds, S)]
    BY <1>3 DEF Remains
  <2>2. Kept(t.mds, S) \in Seq(DataFields)
    BY KeptParts DEF Types
  <2> QED BY <2>1, <2>2 DEF Types
<1>4. CASE \E f \in DataFields \ Range(t.mds) : c = [t EXCEPT !.mds = <<f>> \o @]
  <2>1. PICK f \in DataFields : c = [t EXCEPT !.mds = <<f>> \o @]
    BY <1>4
  <2>2. <<f>> \o t.mds \in Seq(DataFields)
    BY DEF Types
  <2> QED BY <2>1, <2>2 DEF Types
<1> QED BY <1>1, <1>2, <1>3, <1>4 DEF Changes

LEMMA HandsAreOK ==
  ASSUME DocsOK
  PROVE  /\ \A old, mds : HandOK([o \in Present |-> [old |-> doc[o],
                             new |-> [doc[o] EXCEPT !.mds = DataUpdated(doc[o].mds, old, mds)]]])
         /\ \A S : HandOK([o \in Present |-> [old |-> doc[o], new |-> Without(doc[o], S)]])
         /\ \A S \in SUBSET Fields : HandOK([o \in Present |-> [old |-> doc[o], new |-> Appended(doc[o], S)]])
<1>1. \A o \in Present : o \in Objects /\ IsDoc(doc[o]) /\ doc[o] # Gone
  BY DEF DocsOK, Present
<1>2. \A o \in Present : \A old, mds : IsDoc([doc[o] EXCEPT !.mds = DataUpdated(doc[o].mds, old, mds)])
  BY <1>1, OtherData
<1>3. \A o \in Present : \A S : IsDoc(Without(doc[o], S))
  BY <1>1, WithoutFields
<1>4. \A o \in Present : \A S \in SUBSET Fields : IsDoc(Appended(doc[o], S))
  BY <1>1, AppendedFields
<1> QED BY <1>1, <1>2, <1>3, <1>4 DEF HandOK

LEMMA WriteObjectMoves ==
  ASSUME NEW w \in Workers, NEW o \in Objects, WriteObject(w, o)
  PROVE  /\ req[w].at = "objects" /\ o \in DOMAIN req[w].docs
         /\ UNCHANGED <<type, template, left>>
         /\ \/ type = Gone /\ Refused(w) /\ doc' = doc
            \/ /\ type # Gone
               /\ doc' = [doc EXCEPT ![o] = req[w].docs[o].new]
               /\ Is(w, Hand(req[w], [x \in DOMAIN req[w].docs \ {o} |-> req[w].docs[x]], req[w].then))
               /\ NoteWrite(w, When(doc[o] # req[w].docs[o].old, "stale"))
  BY DEF WriteObject, At

\* One write of a pass over the objects, of either kind.
WritesOf(w, Changed(_, _)) ==
  \E x \in req[w].todo :
    /\ doc' = IF doc[x[1]] = Gone THEN doc ELSE [doc EXCEPT ![x[1]] = Changed(doc[x[1]], x[2])]
    /\ Is(w, [req[w] EXCEPT !.todo = @ \ {x}])
    /\ NoteWrite(w, When(type = Gone \/ FieldsOf(type) # req[w].fields, "stale"))

LEMMA PullMoves ==
  ASSUME NEW w \in Workers, Pull(w)
  PROVE  /\ req[w].at = "pull" /\ UNCHANGED <<type, template>>
         /\ \/ /\ req[w].todo = {}
               /\ Is(w, [req[w] EXCEPT !.at = "fill",
                           !.todo = {x \in Present \X Fields : x[2] \in Lacking(doc[x[1]], req[w].fields)}])
               /\ UNCHANGED <<doc, ways, since>>
            \/ WritesOf(w, LAMBDA d, f : Without(d, {f}))
  BY DEF Pull, At, WritesOf

LEMMA FillMoves ==
  ASSUME NEW w \in Workers, Fill(w)
  PROVE  /\ req[w].at = "fill" /\ UNCHANGED <<type, template>>
         /\ \/ req[w].todo = {} /\ Is(w, Idle) /\ UNCHANGED <<doc, ways, since>>
            \/ WritesOf(w, LAMBDA d, f : AddToSet(d, f))
  BY DEF Fill, At, WritesOf, Done

-----------------------------------------------------------------------------
(* Type correctness. *)

LEMMA TypeInvInit == Init => TypeInv /\ type \in Types
<1> SUFFICES ASSUME Init PROVE TypeInv /\ type \in Types
  OBVIOUS
<1>1. type \in Types /\ TemplateOK
  <2>1. \A q \in SeqOf(DataFields, Cardinality(DataFields)) : q \in Seq(DataFields)
    <3> SUFFICES ASSUME NEW q \in SeqOf(DataFields, Cardinality(DataFields)) PROVE q \in Seq(DataFields)
      OBVIOUS
    <3>1. PICK m \in 0..Cardinality(DataFields) : q \in [1..m -> DataFields]
      BY DEF SeqOf
    <3>2. m \in Nat
      BY <3>1
    <3> QED BY <3>1, <3>2
  <2>2. type \in [own : SUBSET OwnFields, section : {Unused, template}, mds : Seq(DataFields)]
    BY <2>1 DEF Init
  <2> QED BY <2>2 DEF Init, Types, Fields, TemplateOK
<1>2. DocsOK
  <2>1. PICK own \in SUBSET OwnFields :
          doc \in [Objects -> {Gone} \cup [fields : {Typed(own \cup SectionOf(type))}, mds : SetToSeqs(Range(type.mds))]]
    BY DEF Init
  <2>2. own \cup SectionOf(type) \in SUBSET Fields
    BY <1>1, FieldsOfType DEF Fields
  <2>3. ASSUME NEW o \in Objects PROVE doc[o] = Gone \/ IsDoc(doc[o])
    <3>1. doc[o] = Gone \/ ({"fields", "mds"} \subseteq DOMAIN doc[o] /\ doc[o].fields = Typed(own \cup SectionOf(type)))
      BY <2>1
    <3> QED BY <2>2, <3>1, TypedDocument
  <2> QED BY <2>1, <2>3 DEF DocsOK
<1>3. ReqsOK
  BY IdleOK DEF Init, ReqsOK
<1> QED BY <1>1, <1>2, <1>3 DEF TypeInv, TypeDocOK

LEMMA RefusedKeepsTypes ==
  ASSUME TypeInv, NEW w \in Workers, Refused(w), UNCHANGED db
  PROVE  TypeInv'
  BY MovesOnly, IdleOK DEF Refused, Done

LEMMA WritesOne ==
  ASSUME NEW w \in Workers,
         \/ WritesOf(w, LAMBDA d, f : Without(d, {f}))
         \/ WritesOf(w, LAMBDA d, f : AddToSet(d, f))
  PROVE  \E x \in req[w].todo :
           /\ \/ doc' = doc
              \/ /\ doc[x[1]] # Gone
                 /\ \/ doc' = [doc EXCEPT ![x[1]] = Without(doc[x[1]], {x[2]})]
                    \/ doc' = [doc EXCEPT ![x[1]] = AddToSet(doc[x[1]], x[2])]
           /\ Is(w, [req[w] EXCEPT !.todo = @ \ {x}])
           /\ NoteWrite(w, When(type = Gone \/ FieldsOf(type) # req[w].fields, "stale"))
  BY DEF WritesOf

LEMMA WritesKeepTypes ==
  ASSUME TypeInv, NEW w \in Workers, req[w].at \in {"pull", "fill"}, UNCHANGED <<type, template>>,
         \/ WritesOf(w, LAMBDA d, f : Without(d, {f}))
         \/ WritesOf(w, LAMBDA d, f : AddToSet(d, f))
  PROVE  TypeInv'
<1>1. ReqOK(req[w])
  BY DEF TypeInv, ReqsOK
<1>2. PICK x \in req[w].todo :
        /\ \/ doc' = doc
           \/ /\ doc[x[1]] # Gone
              /\ \/ doc' = [doc EXCEPT ![x[1]] = Without(doc[x[1]], {x[2]})]
                 \/ doc' = [doc EXCEPT ![x[1]] = AddToSet(doc[x[1]], x[2])]
        /\ Is(w, [req[w] EXCEPT !.todo = @ \ {x}])
  BY WritesOne
<1>3. x[1] \in Objects /\ x[2] \in Fields
  BY <1>1, <1>2 DEF ReqOK
<1>4. DocsOK'
  <2>1. CASE doc' = doc
    BY <2>1 DEF TypeInv, DocsOK
  <2>2. CASE doc' # doc
    <3>1. IsDoc(doc[x[1]])
      BY <1>2, <1>3, <2>2 DEF TypeInv, DocsOK
    <3>2. IsDoc(Without(doc[x[1]], {x[2]})) /\ IsDoc(AddToSet(doc[x[1]], x[2]))
      BY <1>3, <3>1, WithoutFields, AddedToSet
    <3> QED BY <1>2, <1>3, <2>2, <3>2, WriteDoc DEF TypeInv
  <2> QED BY <2>1, <2>2
<1>5. ReqOK([req[w] EXCEPT !.todo = @ \ {x}])
  BY <1>1 DEF ReqOK, Templating
<1> QED BY <1>2, <1>4, <1>5, MovesAndWrites

LEMMA TypeInvStep == TypeInv /\ [Next]_vars => TypeInv'
<1> SUFFICES ASSUME TypeInv, [Next]_vars PROVE TypeInv'
  OBVIOUS
<1>1. CASE UNCHANGED vars
  BY <1>1 DEF vars, db, TypeInv, DocsOK, TypeDocOK, TemplateOK, ReqsOK
<1>2. CASE \E o \in Objects : DeleteObject(o)
  <2>1. PICK o \in Objects : DeleteObject(o)
    BY <1>2
  <2>2. DocsOK'
    BY <2>1, WriteDoc DEF DeleteObject, TypeInv
  <2> QED BY <2>1, <2>2 DEF DeleteObject, TypeInv, TypeDocOK, TemplateOK, ReqsOK
<1>3. ASSUME NEW w \in Workers,
             OpenTypeForm(w) \/ OpenObjectForm(w) \/ StartDeleteTemplate(w) \/ StartDeleteType(w)
      PROVE  TypeInv'
  <2>1. type # Gone => type \in Types
    BY DEF TypeInv, TypeDocOK
  <2>2. CASE OpenTypeForm(w)
    <3>1. ReqOK([at |-> "typeForm", seen |-> type, global |-> template])
      BY <2>1, <2>2 DEF OpenTypeForm, ReqOK, Templating, TypeInv, TemplateOK
    <3> QED BY <2>2, <3>1, MovesOnly DEF OpenTypeForm, Start
  <2>3. CASE OpenObjectForm(w)
    <3>1. ReqOK([at |-> "new", names |-> Rendered(type), mds |-> type.mds])
      BY <2>1, <2>3, FieldsOfType DEF OpenObjectForm, ReqOK, Templating
    <3> QED BY <2>3, <3>1, MovesOnly DEF OpenObjectForm, Start
  <2>4. CASE StartDeleteTemplate(w)
    <3>1. ReqOK([at |-> "types", kind |-> "delete", old |-> template, new |-> {}])
      BY <2>4 DEF StartDeleteTemplate, ReqOK, Templating, TypeInv, TemplateOK
    <3> QED BY <2>4, <3>1, MovesOnly DEF StartDeleteTemplate, Start
  <2>5. CASE StartDeleteType(w)
    <3>1. ReqOK([at |-> "deleteType"])
      BY DEF ReqOK, Templating
    <3> QED BY <2>5, <3>1, MovesOnly DEF StartDeleteType, Start
  <2> QED BY <1>3, <2>2, <2>3, <2>4, <2>5
<1>4. ASSUME NEW w \in Workers, NEW S \in SUBSET TemplateFields, StartSaveTemplate(w, S)
      PROVE  TypeInv'
  <2>1. ReqOK([at |-> "template", kind |-> "save", old |-> template, new |-> S])
    BY <1>4 DEF StartSaveTemplate, ReqOK, Templating, TypeInv, TemplateOK
  <2> QED BY <1>4, <2>1, MovesOnly DEF StartSaveTemplate, Start
<1>5. ASSUME NEW w \in Workers, NEW o \in Objects, OpenEditForm(w, o)
      PROVE  TypeInv'
  <2>1. ReqOK([at |-> "edit", obj |-> o, mds |-> doc[o].mds])
    BY DEF ReqOK, Templating
  <2> QED BY <1>5, <2>1, MovesOnly DEF OpenEditForm, Start
<1>6. ASSUME NEW w \in Workers, At(w, "typeForm"), NEW t \in Changes(req[w].seen, req[w].global), SaveType(w, t)
      PROVE  TypeInv'
  <2>1. ReqOK(req[w]) /\ req[w].at = "typeForm"
    BY <1>6 DEF TypeInv, ReqsOK, At
  <2>2. t \in Types
    BY <2>1, ChangesAreTypes DEF ReqOK
  <2>3. ReqOK([at |-> "save", seen |-> req[w].seen, global |-> req[w].global, data |-> t, old |-> type])
    BY <2>1, <2>2 DEF ReqOK, Templating
  <2> QED BY <1>6, <2>3, MovesOnly, IdleOK DEF SaveType, Done
<1>7. ASSUME NEW w \in Workers, WriteType(w) PROVE TypeInv'
  <2>1. ReqOK(req[w]) /\ req[w].at = "save"
    BY <1>7 DEF TypeInv, ReqsOK, WriteType, At
  <2>2. ReqOK([at |-> "reading", old |-> req[w].old.mds, mds |-> req[w].data.mds, docs |-> <<>>, then |-> "idle"])
    BY DEF ReqOK, Templating
  <2>3. ReqsOK'
    BY <1>7, <2>2, IsMoves DEF WriteType, TypeInv
  <2> QED BY <1>7, <2>1, <2>3 DEF WriteType, TypeInv, TypeDocOK, TemplateOK, DocsOK, ReqOK
<1>8. ASSUME NEW w \in Workers, ReadObjects(w) PROVE TypeInv'
  <2> DEFINE r == [req[w] EXCEPT !.old = <<>>, !.mds = <<>>]
  <2>1. ReqOK(req[w]) /\ req[w].at = "reading"
    BY <1>8 DEF TypeInv, ReqsOK, ReadObjects, At
  <2>2. {"at", "docs", "then"} \subseteq DOMAIN r
    BY <2>1 DEF ReqOK
  <2>3. HandOK([o \in Present |-> [old |-> doc[o],
                  new |-> [doc[o] EXCEPT !.mds = DataUpdated(doc[o].mds, req[w].old, req[w].mds)]]])
    BY HandsAreOK DEF TypeInv
  <2>4. UNCHANGED db
    BY <1>8 DEF ReadObjects
  <2> HIDE DEF r
  <2>5. \A docs : HandOK(docs) => ReqOK(Hand(r, docs, "idle"))
    BY <2>2, HandIsOK
  <2> USE DEF r
  <2> QED BY <1>8, <2>3, <2>4, <2>5, ReadObjectsHands, RefusedKeepsTypes, MovesOnly
<1>9. ASSUME NEW w \in Workers, WriteTemplate(w) PROVE TypeInv'
  <2>1. ReqOK(req[w]) /\ req[w].at = "template"
    BY <1>9 DEF TypeInv, ReqsOK, WriteTemplate, At
  <2>2. ReqOK([req[w] EXCEPT !.at = "types"])
    BY <2>1 DEF ReqOK, Templating
  <2>3. ReqsOK'
    BY <1>9, <2>2, IsMoves DEF WriteTemplate, TypeInv
  <2> QED BY <1>9, <2>1, <2>3 DEF WriteTemplate, TypeInv, TypeDocOK, TemplateOK, DocsOK, ReqOK
<1>10. ASSUME NEW w \in Workers, FindTypes(w) PROVE TypeInv'
  <2>1. ReqOK([at |-> "drop"])
    BY DEF ReqOK, Templating
  <2>2. ASSUME type \in Types PROVE ReqOK(TemplateRequest(req[w]))
    <3>1. ReqOK(req[w]) /\ req[w].at = "types"
      BY <1>10, FindTypesMoves
    <3>2. NewType(req[w]) \in Types
      BY <2>2, <3>1, NewTypeIsType DEF ReqOK
    <3>3. TemplateReqOK(TemplateRequest(req[w]))
      BY <2>2, <3>1, <3>2 DEF ReqOK, TemplateRequest, TemplateReqOK
    <3> QED BY <3>3 DEF ReqOK, TemplateRequest
  <2> QED BY <1>10, <2>1, <2>2, FindTypesMoves, MovesOnly, IdleOK
<1>11. ASSUME NEW w \in Workers, ReadToClean(w) \/ ReadToAdd(w) PROVE TypeInv'
  <2>1. ReqOK(req[w]) /\ req[w].at \in {"clean", "add"} /\ UNCHANGED db
    BY <1>11 DEF TypeInv, ReqsOK, ReadToClean, ReadToAdd, At
  <2>2. TemplateReqOK(req[w]) /\ {"at", "docs", "then"} \subseteq DOMAIN req[w]
    BY <2>1 DEF ReqOK, Templating, TemplateReqOK
  <2>3. req[w].added \in SUBSET Fields
    BY <2>2 DEF TemplateReqOK, Fields
  <2>4. CASE ReadToClean(w)
    <3>1. HandOK([o \in Present |-> [old |-> doc[o], new |-> Without(doc[o], req[w].removed)]])
      BY HandsAreOK DEF TypeInv
    <3>2. ReqOK(Hand(req[w], [o \in Present |-> [old |-> doc[o], new |-> Without(doc[o], req[w].removed)]],
                     IF req[w].kind = "save" THEN "add" ELSE "back"))
      BY <2>2, <3>1, HandIsOK
    <3> QED BY <2>1, <2>4, <3>2, ReadToCleanHands, MovesOnly
  <2>5. CASE ReadToAdd(w)
    <3>1. HandOK([o \in Present |-> [old |-> doc[o], new |-> Appended(doc[o], req[w].added)]])
      BY <2>3, HandsAreOK DEF TypeInv
    <3>2. ReqOK(Hand(req[w], [o \in Present |-> [old |-> doc[o], new |-> Appended(doc[o], req[w].added)]], "back"))
      BY <2>2, <3>1, HandIsOK
    <3> QED BY <2>1, <2>5, <3>2, ReadToAddHands, MovesOnly
  <2> QED BY <1>11, <2>4, <2>5
<1>12. ASSUME NEW w \in Workers, NEW o \in Objects, WriteObject(w, o) PROVE TypeInv'
  <2> DEFINE docs == [x \in DOMAIN req[w].docs \ {o} |-> req[w].docs[x]]
  <2>1. ReqOK(req[w]) /\ req[w].at = "objects" /\ o \in DOMAIN req[w].docs
    BY <1>12, WriteObjectMoves DEF TypeInv, ReqsOK
  <2>2. HandOK(docs) /\ IsDoc(req[w].docs[o].new)
    BY <2>1 DEF ReqOK, HandOK
  <2>3. ReqOK(Hand(req[w], docs, req[w].then))
    <3>1. {"at", "docs", "then"} \subseteq DOMAIN req[w] /\ req[w].then \in {"idle", "add", "back"}
      BY <2>1 DEF ReqOK
    <3>2. /\ req[w].then # "idle" => TemplateReqOK(req[w])
          /\ req[w].then = "add" => req[w].kind = "save"
      BY <2>1 DEF ReqOK, Templating
    <3> HIDE DEF docs
    <3> QED BY <2>2, <3>1, <3>2, HandIsOK
  <2>4. doc' = [doc EXCEPT ![o] = req[w].docs[o].new] => DocsOK'
    BY <2>2, WriteDoc DEF TypeInv
  <2> QED BY <1>12, <2>3, <2>4, WriteObjectMoves, RefusedKeepsTypes, MovesAndWrites DEF db
<1>13. ASSUME NEW w \in Workers, WriteTypeBack(w) PROVE TypeInv'
  <2>1. ReqOK(req[w]) /\ req[w].at = "back"
    BY <1>13 DEF TypeInv, ReqsOK, WriteTypeBack, At
  <2>2. req[w].data \in Types
    BY <2>1 DEF ReqOK, Templating, TemplateReqOK
  <2>3. ReqOK([at |-> "drop"])
    BY DEF ReqOK, Templating
  <2>4. ReqsOK'
    BY <1>13, <2>3, IdleOK, IsMoves DEF WriteTypeBack, TypeInv
  <2> QED BY <1>13, <2>2, <2>4 DEF WriteTypeBack, TypeInv, TypeDocOK, TemplateOK, DocsOK
<1>14. ASSUME NEW w \in Workers, DropTemplate(w) \/ DeleteType(w) PROVE TypeInv'
  <2>1. ReqsOK'
    BY <1>14, IsMoves, IdleOK DEF DropTemplate, DeleteType, Done, TypeInv
  <2> QED BY <1>14, <2>1 DEF DropTemplate, DeleteType, TypeInv, TypeDocOK, TemplateOK, DocsOK
<1>15. ASSUME NEW w \in Workers, StartClean(w) \/ Sweep(w) PROVE TypeInv'
  <2>1. CASE StartClean(w)
    <3>1. ReqOK([at |-> "sweep", fields |-> FieldsOf(type)])
      BY <2>1, FieldsOfType DEF StartClean, TypeInv, TypeDocOK, ReqOK, Templating
    <3> QED BY <2>1, <3>1, MovesOnly DEF StartClean
  <2>2. CASE Sweep(w)
    <3>1. ReqOK(req[w]) /\ req[w].at = "sweep"
      BY <2>2 DEF TypeInv, ReqsOK, Sweep, At
    <3>2. ReqOK([at |-> "pull", fields |-> req[w].fields,
                 todo |-> {x \in Present \X Fields : x[2] \in Surplus(doc[x[1]], req[w].fields)}])
      BY <3>1 DEF ReqOK, Templating, Present
    <3> QED BY <2>2, <3>2, MovesOnly DEF Sweep
  <2> QED BY <1>15, <2>1, <2>2
<1>16. ASSUME NEW w \in Workers, Pull(w) PROVE TypeInv'
  <2> DEFINE r == [req[w] EXCEPT !.at = "fill",
                           !.todo = {x \in Present \X Fields : x[2] \in Lacking(doc[x[1]], req[w].fields)}]
  <2>1. ReqOK(req[w]) /\ req[w].at = "pull"
    BY <1>16, PullMoves DEF TypeInv, ReqsOK
  <2>2. ReqOK(r)
    <3>1. /\ DOMAIN r = DOMAIN req[w] /\ r.at = "fill" /\ r.fields = req[w].fields
          /\ r.todo = {x \in Present \X Fields : x[2] \in Lacking(doc[x[1]], req[w].fields)}
      BY <2>1 DEF ReqOK
    <3>2. r.todo \subseteq Objects \X Fields /\ \A x \in r.todo : x[2] \in r.fields
      BY <3>1 DEF Present, Lacking
    <3> HIDE DEF r
    <3> QED BY <2>1, <3>1, <3>2 DEF ReqOK, Templating
  <2> QED BY <1>16, <2>1, <2>2, PullMoves, WritesKeepTypes, MovesOnly DEF db
<1>17. ASSUME NEW w \in Workers, Fill(w) PROVE TypeInv'
  BY <1>17, FillMoves, WritesKeepTypes, MovesOnly, IdleOK DEF db
<1>18. ASSUME NEW w \in Workers, CheckNew(w) \/ Validate(w) \/ Render(w) PROVE TypeInv'
  <2>1. ReqOK(req[w]) /\ (type # Gone => type \in Types)
    BY DEF TypeInv, ReqsOK, TypeDocOK
  <2>2. CASE CheckNew(w)
    <3>1. ReqOK([req[w] EXCEPT !.at = "insert"])
      BY <2>1, <2>2 DEF CheckNew, At, ReqOK, Templating
    <3> QED BY <2>2, <3>1, MovesOnly, IdleOK DEF CheckNew, Done
  <2>3. CASE Validate(w)
    <3>1. ReqOK([req[w] EXCEPT !.at = "write"])
      BY <2>1, <2>3 DEF Validate, At, ReqOK, Templating
    <3> QED BY <2>3, <3>1, MovesOnly, IdleOK DEF Validate, Done
  <2>4. CASE Render(w)
    <3>1. type # Gone => ReqOK([at |-> "validate", obj |-> req[w].obj, names |-> Rendered(type), mds |-> req[w].mds])
      BY <2>1, <2>4, FieldsOfType DEF Render, At, ReqOK, Templating
    <3> QED BY <2>4, <3>1, MovesOnly, IdleOK DEF Render, Done
  <2> QED BY <1>18, <2>2, <2>3, <2>4
<1>19. ASSUME NEW w \in Workers, NEW o \in Objects, InsertObject(w, o) PROVE TypeInv'
  <2>1. ReqOK(req[w]) /\ req[w].at = "insert"
    BY <1>19 DEF TypeInv, ReqsOK, InsertObject, At
  <2>2. IsDoc(Document(req[w]))
    BY <2>1, NewDocument DEF ReqOK
  <2>3. DocsOK'
    BY <1>19, <2>2, WriteDoc DEF InsertObject, TypeInv
  <2> QED BY <1>19, <2>3, MovesAndWrites, IdleOK DEF InsertObject, Done
<1>20. ASSUME NEW w \in Workers, WriteEdit(w) PROVE TypeInv'
  <2>1. ReqOK(req[w]) /\ req[w].at = "write"
    BY <1>20 DEF TypeInv, ReqsOK, WriteEdit, At
  <2>2. IsDoc(Document(req[w])) /\ req[w].obj \in Objects
    BY <2>1, NewDocument DEF ReqOK
  <2>3. DocsOK'
    <3>1. CASE type = Gone
      BY <1>20, <3>1 DEF WriteEdit, TypeInv, DocsOK
    <3>2. CASE type # Gone
      BY <1>20, <2>2, <3>2, WriteDoc DEF WriteEdit, TypeInv
    <3> QED BY <3>1, <3>2
  <2> QED BY <1>20, <2>3, MovesAndWrites, IdleOK DEF WriteEdit, Done
<1>21. ASSUME NEW w \in Workers, Kill(w) PROVE TypeInv'
  BY <1>21, RefusedKeepsTypes DEF Kill
<1> QED
  BY <1>1, <1>2, <1>3, <1>4, <1>5, <1>6, <1>7, <1>8, <1>9, <1>10, <1>11, <1>12, <1>13, <1>14, <1>15,
     <1>16, <1>17, <1>18, <1>19, <1>20, <1>21 DEF Next

-----------------------------------------------------------------------------
(* An object has its type. *)

\* What the second history says of it, which cleaning resets.
HasTypeInv == since \subseteq ways /\ (type = Gone /\ Present # {} => "typeless" \in since)

LEMMA HasTypeMeans == HasTypeInv => EveryObjectHasItsType
  BY DEF HasTypeInv, EveryObjectHasItsType

LEMMA HasTypeInit == Init => HasTypeInv
  BY TypeInvInit, SentinelsAssumption DEF Init, HasTypeInv

LEMMA HasTypeStep == TypeInv /\ HasTypeInv /\ [Next]_vars => HasTypeInv'
<1> SUFFICES ASSUME TypeInv, HasTypeInv, [Next]_vars PROVE HasTypeInv'
  OBVIOUS
<1> USE DEF HasTypeInv
\* Most steps leave type and objects alone, or make objects fewer, or write a type.
<1>1. ASSUME UNCHANGED <<type, doc>>, since' \subseteq ways', since \subseteq since' PROVE HasTypeInv'
  BY <1>1 DEF Present
<1>2. ASSUME NEW S, Note(S) PROVE since' \subseteq ways' /\ since \subseteq since'
  BY <1>2 DEF Note
<1>3. ASSUME NEW w \in Workers, Refused(w), UNCHANGED <<type, doc>> PROVE HasTypeInv'
  BY <1>1, <1>2, <1>3 DEF Refused
<1>4. CASE UNCHANGED vars
  BY <1>1, <1>4 DEF vars, db
<1>5. CASE \E o \in Objects : DeleteObject(o)
  <2>1. PICK o \in Objects : DeleteObject(o)
    BY <1>5
  <2>2. Present' \subseteq Present
    BY <2>1 DEF DeleteObject, Present, TypeInv, DocsOK
  <2> QED BY <2>1, <2>2 DEF DeleteObject
<1>6. ASSUME NEW w \in Workers,
             \/ OpenTypeForm(w) \/ OpenObjectForm(w) \/ StartDeleteTemplate(w) \/ StartDeleteType(w)
             \/ \E S \in SUBSET TemplateFields : StartSaveTemplate(w, S)
             \/ \E o \in Objects : OpenEditForm(w, o)
      PROVE  HasTypeInv'
  <2>1. UNCHANGED <<db, ways, since>>
    BY <1>6 DEF OpenTypeForm, OpenObjectForm, StartDeleteTemplate, StartDeleteType, StartSaveTemplate, OpenEditForm, Start
  <2> QED BY <1>1, <2>1 DEF db
<1>7. ASSUME NEW w \in Workers,
             \/ \E t \in Changes(req[w].seen, req[w].global) : SaveType(w, t)
             \/ ReadToClean(w) \/ Sweep(w) \/ CheckNew(w) \/ Render(w) \/ Validate(w) \/ DropTemplate(w)
      PROVE  HasTypeInv'
  <2>1. UNCHANGED <<type, doc, ways, since>>
    BY <1>7 DEF SaveType, ReadToClean, Sweep, CheckNew, Render, Validate, DropTemplate, db
  <2> QED BY <1>1, <2>1
<1>8. ASSUME NEW w \in Workers, ReadObjects(w) \/ FindTypes(w) \/ ReadToAdd(w) PROVE HasTypeInv'
  <2>1. UNCHANGED <<type, doc>> /\ \E S : Note(S)
    BY <1>8 DEF ReadObjects, FindTypes, ReadToAdd, Refused, db
  <2> QED BY <1>1, <1>2, <2>1
<1>9. ASSUME NEW w \in Workers, WriteTemplate(w) PROVE HasTypeInv'
  BY <1>1, <1>2, <1>9 DEF WriteTemplate, NoteWrite
<1>10. ASSUME NEW w \in Workers, Kill(w) PROVE HasTypeInv'
  BY <1>3, <1>10 DEF Kill, db
<1>11. ASSUME NEW w \in Workers, StartClean(w) PROVE HasTypeInv'
  BY <1>11 DEF StartClean, db
\* A type that is written is one.
<1>12. ASSUME NEW w \in Workers, WriteType(w) \/ WriteTypeBack(w) PROVE HasTypeInv'
  <2>1. ReqOK(req[w]) /\ req[w].at \in {"save", "back"}
    BY <1>12 DEF TypeInv, ReqsOK, WriteType, WriteTypeBack, At
  <2>2. req[w].data # Gone
    BY <2>1, SentinelsAssumption DEF ReqOK, Templating, TemplateReqOK
  <2>3. type' = req[w].data /\ \E S : Note(S)
    BY <1>12 DEF WriteType, WriteTypeBack, NoteWrite
  <2> QED BY <1>2, <2>2, <2>3
<1>13. ASSUME NEW w \in Workers, DeleteType(w) PROVE HasTypeInv'
  <2>1. Note(When(Present # {}, "typeless")) /\ doc' = doc
    BY <1>13 DEF DeleteType
  <2>2. Present' = Present
    BY <2>1 DEF Present
  <2> QED BY <1>2, <2>1, <2>2 DEF When, Note
\* Writes of documents without a type are refused or noted, or change no document
\* that is not there.
<1>14. ASSUME NEW w \in Workers, NEW o \in Objects, WriteObject(w, o) PROVE HasTypeInv'
  <2>1. CASE type # Gone
    <3>1. type' # Gone /\ \E S : Note(S)
      BY <1>14, <2>1, WriteObjectMoves DEF NoteWrite
    <3> QED BY <1>2, <3>1
  <2>2. CASE type = Gone
    BY <1>3, <1>14, <2>2, WriteObjectMoves
  <2> QED BY <2>1, <2>2
<1>15. ASSUME NEW w \in Workers, Pull(w) \/ Fill(w) PROVE HasTypeInv'
  <2>1. ReqOK(req[w]) /\ req[w].at \in {"pull", "fill"} /\ type' = type
    BY <1>15, PullMoves, FillMoves DEF TypeInv, ReqsOK
  <2>2. \/ UNCHANGED <<doc, ways, since>>
        \/ \E S : Note(S) /\ \E x \in req[w].todo : doc' = doc \/ (doc[x[1]] # Gone /\ \E d : doc' = [doc EXCEPT ![x[1]] = d])
    <3>1. \/ UNCHANGED <<doc, ways, since>>
          \/ WritesOf(w, LAMBDA d, f : Without(d, {f}))
          \/ WritesOf(w, LAMBDA d, f : AddToSet(d, f))
      BY <1>15, PullMoves, FillMoves
    <3> QED BY <3>1, WritesOne DEF NoteWrite
  <2>3. CASE UNCHANGED <<doc, ways, since>>
    BY <1>1, <2>1, <2>3
  <2>4. CASE \E S : Note(S) /\ \E x \in req[w].todo : doc' = doc \/ (doc[x[1]] # Gone /\ \E d : doc' = [doc EXCEPT ![x[1]] = d])
    <3>1. since' \subseteq ways' /\ since \subseteq since'
      BY <1>2, <2>4
    <3>2. Present' \subseteq Present
      BY <2>4 DEF Present, TypeInv, DocsOK
    <3> QED BY <2>1, <3>1, <3>2
  <2> QED BY <2>2, <2>3, <2>4
<1>16. ASSUME NEW w \in Workers, NEW o \in Objects, InsertObject(w, o) PROVE HasTypeInv'
  <2>1. type' = type /\ Note(Outdated(req[w]) \cup Crossing(w))
    BY <1>16 DEF InsertObject, NoteWrite
  <2> QED BY <1>2, <2>1 DEF Outdated, Note
<1>17. ASSUME NEW w \in Workers, WriteEdit(w) PROVE HasTypeInv'
  <2>1. CASE type = Gone
    BY <1>1, <1>17, <2>1 DEF WriteEdit
  <2>2. CASE type # Gone
    BY <1>2, <1>17, <2>2 DEF WriteEdit, NoteWrite
  <2> QED BY <2>1, <2>2
<1> QED
  BY <1>4, <1>5, <1>6, <1>7, <1>8, <1>9, <1>10, <1>11, <1>12, <1>13, <1>14, <1>15, <1>16, <1>17 DEF Next

-----------------------------------------------------------------------------
(* Objects and their type. *)

\* Nothing that keeps objects and type apart has been noted since the cleaning.
Trusted == type # Gone /\ since \cap {"saved", "stale", "crossed", "halted", "behind"} = {}

Fit(o, S) == FieldSet(doc[o]) = S
AllFit == \A o \in Present : Fit(o, FieldsOf(type))

\* A request owns the objects while they may not fit because of it. Cleaning to
\* no fields at all changes nothing.
Sweeping(v) == req[v].at \in {"sweep", "pull", "fill"}
Owner(v) == Changing(v) /\ ~(Sweeping(v) /\ req[v].fields = {})
OtherOwner(w) == \E v \in Workers \ {w} : Owner(v)

\* What a request knows of an object it has in hand, and of one it has done with.
InHandFit(w, o) ==
  LET r == req[w]
  IN  /\ doc[o] = r.docs[o].old
      /\ \/ /\ r.then = "idle"
            /\ Fit(o, FieldsOf(type)) \/ OtherOwner(w)
            /\ FieldSet(r.docs[o].new) = FieldSet(doc[o])
         \/ /\ r.then # "idle" /\ ~(r.then = "back" /\ r.kind = "save")
            /\ Fit(o, FieldsOf(type)) \/ OtherOwner(w)
            /\ FieldSet(r.docs[o].new) = FieldSet(doc[o]) \ r.removed
         \/ /\ r.then = "back" /\ r.kind = "save"
            /\ FieldSet(r.docs[o].new) = FieldsOf(r.data)

DoneFit(w, o) ==
  LET r == req[w]
  IN  \/ r.then = "idle" /\ (Fit(o, FieldsOf(type)) \/ OtherOwner(w))
      \/ r.then = "add" /\ Fit(o, FieldsOf(type) \ r.removed)
      \/ r.then = "back" /\ Fit(o, FieldsOf(r.data))

\* How far a request has come with the objects, and what its plan rests on.
ObjectsFor(w) ==
  LET r == req[w]
  IN  /\ r.at \in {"reading", "clean"} => \A o \in Present : Fit(o, FieldsOf(type)) \/ OtherOwner(w)
      /\ r.at = "objects" => \A o \in Present : IF o \in DOMAIN r.docs THEN InHandFit(w, o) ELSE DoneFit(w, o)
      /\ r.at = "add" => \A o \in Present : Fit(o, FieldsOf(type) \ r.removed)
      /\ r.at = "back" => \A o \in Present : Fit(o, FieldsOf(r.data))

PlanFits(w) ==
  LET r == req[w]
  IN  Templating(r) => /\ type = r.read
                       /\ FieldsOf(r.data) = (FieldsOf(type) \ r.removed) \cup r.added
                       /\ r.added \cap SectionOf(type) = {}
                       /\ r.kind = "delete" => r.added = {}

SweepFits(w) ==
  LET r == req[w]
  IN  Sweeping(w) /\ r.fields # {} =>
        /\ r.fields = FieldsOf(type)
        /\ r.at = "pull" => \A o \in Present : \A f \in FieldSet(doc[o]) \ r.fields : <<o, f>> \in r.todo
        /\ r.at = "fill" => \A o \in Present : /\ FieldSet(doc[o]) \subseteq r.fields
                                               /\ \A f \in r.fields \ FieldSet(doc[o]) : <<o, f>> \in r.todo

Progress(w) == ObjectsFor(w) /\ PlanFits(w) /\ SweepFits(w)

FitInv == Trusted => /\ AllFit \/ \E v \in Workers : Owner(v)
                     /\ \A w \in Workers : Progress(w)

LEMMA FitMeans == FitInv /\ Rest /\ Trusted => FieldsFit
  BY DEF FitInv, Rest, At, Owner, Changing, AllFit, Fit, FieldSet, FieldsFit

\* A request that is changing nothing has nothing to keep to.
LEMMA Resting == \A w \in Workers : ~Changing(w) => Progress(w) /\ ~Owner(w)
  BY DEF Changing, Progress, ObjectsFor, PlanFits, SweepFits, Templating, Sweeping, Owner

LEMMA RestingThen == (\A w \in Workers : ~Changing(w) => Progress(w) /\ ~Owner(w))'
  BY Resting, PTL

LEMMA FitInit == Init => FitInv
<1> SUFFICES ASSUME Init PROVE FitInv
  OBVIOUS
<1>1. \A w \in Workers : Progress(w)
  BY Resting DEF Init, Changing, Idle
<1>2. Trusted => AllFit
  <2> SUFFICES ASSUME Trusted, NEW o \in Present PROVE FieldSet(doc[o]) = FieldsOf(type)
    BY DEF AllFit, Fit
  <2>1. PICK own \in SUBSET OwnFields :
          /\ doc \in [Objects -> {Gone} \cup [fields : {Typed(own \cup SectionOf(type))}, mds : SetToSeqs(Range(type.mds))]]
          /\ ways = When(own # type.own, "saved")
    BY DEF Init
  <2>2. own = type.own
    BY <2>1 DEF Init, Trusted, When
  <2>3. FieldsOf(type) \subseteq Fields
    BY TypeInvInit, FieldsOfType
  <2>4. {"fields", "mds"} \subseteq DOMAIN doc[o] /\ doc[o].fields = Typed(FieldsOf(type))
    BY <2>1, <2>2 DEF Present, FieldsOf
  <2> QED BY <2>3, <2>4, TypedDocument
<1> QED BY <1>1, <1>2 DEF FitInv

\* What the request of one worker keeps to, it keeps to while another takes a step
\* that does not touch the documents, or only deletes some.
LEMMA OthersKeep ==
  ASSUME NEW v \in Workers, req'[v] = req[v], type' = type,
         \A o \in Present' : o \in Present /\ doc'[o] = doc[o],
         OtherOwner(v) => OtherOwner(v)' \/ AllFit',
         Progress(v)
  PROVE  Progress(v)'
<1>1. ASSUME NEW o \in Present'
      PROVE  /\ o \in Present
             /\ \A S : Fit(o, S)' <=> Fit(o, S)
             /\ Fit(o, FieldsOf(type)) \/ OtherOwner(v) => (Fit(o, FieldsOf(type)) \/ OtherOwner(v))'
  BY <1>1 DEF Fit, AllFit
<1>2. ObjectsFor(v)'
  <2>1. ASSUME NEW o \in Present', InHandFit(v, o) PROVE InHandFit(v, o)'
    BY <1>1, <2>1 DEF InHandFit
  <2>2. ASSUME NEW o \in Present', DoneFit(v, o) PROVE DoneFit(v, o)'
    BY <1>1, <2>2 DEF DoneFit
  <2> QED BY <1>1, <2>1, <2>2 DEF Progress, ObjectsFor
<1>3. PlanFits(v)'
  BY DEF Progress, PlanFits
<1>4. SweepFits(v)'
  BY <1>1 DEF Progress, SweepFits, Sweeping
<1> QED BY <1>2, <1>3, <1>4 DEF Progress

\* Steps of one worker that touch no document and not the type.
LEMMA MovesKeepFit ==
  ASSUME ReqsOK, FitInv, NEW w \in Workers, NEW r, Is(w, r),
         type' = type, doc' = doc, since \subseteq since',
         Trusted => (Owner(w) => Owner(w)' \/ AllFit),
         Trusted' => (Trusted => Progress(w)')
  PROVE  FitInv'
<1> SUFFICES ASSUME Trusted' PROVE (AllFit \/ \E v \in Workers : Owner(v))' /\ \A v \in Workers : Progress(v)'
  BY DEF FitInv
<1>1. Trusted
  BY DEF Trusted
<1>2. AllFit' <=> AllFit
  BY DEF AllFit, Fit, Present
<1>3. \A v \in Workers : v # w => req'[v] = req[v]
  BY IsMoves
<1>4. \A v \in Workers : v # w => Owner(v)' = Owner(v)
  BY <1>3 DEF Owner, Changing, Sweeping
<1>5. (AllFit \/ \E v \in Workers : Owner(v))'
  BY <1>1, <1>2, <1>4 DEF FitInv
<1>6. ASSUME NEW v \in Workers PROVE Progress(v)'
  <2>1. CASE v = w
    BY <1>1, <2>1
  <2>2. CASE v # w
    <3>1. OtherOwner(v) => OtherOwner(v)' \/ AllFit'
      BY <1>1, <1>2, <1>4 DEF OtherOwner
    <3>2. \A o \in Present' : o \in Present /\ doc'[o] = doc[o]
      BY DEF Present
    <3> QED BY <1>1, <1>3, <2>2, <3>1, <3>2, OthersKeep DEF FitInv
  <2> QED BY <2>1, <2>2
<1> QED BY <1>5, <1>6

\* Steps of a request that is changing nothing, before or after.
LEMMA CalmKeepsFit ==
  ASSUME ReqsOK, FitInv, NEW w \in Workers, NEW r, Is(w, r),
         type' = type, doc' = doc, since \subseteq since',
         ~Changing(w), ~Changing(w)'
  PROVE  FitInv'
<1>1. ~Owner(w) /\ Progress(w)'
  BY Resting, RestingThen
<1> QED BY <1>1, MovesKeepFit

\* Who writes without crossing anybody is alone with the objects.
LEMMA WritesAlone ==
  ASSUME ReqsOK, NEW w \in Workers, NEW r, Is(w, r), NEW S, NoteWrite(w, S)
  PROVE  /\ since \subseteq since' /\ S \subseteq since' /\ ways \subseteq ways' /\ S \subseteq ways'
         /\ "crossed" \notin since' \/ "crossed" \notin ways' =>
              \A v \in Workers \ {w} : /\ req'[v] = req[v]
                                       /\ ~Changing(v) /\ ~Changing(v)'
                                       /\ ~Owner(v) /\ ~Owner(v)' /\ Progress(v)'
<1>1. \A v \in Workers : v # w => req'[v] = req[v]
  BY IsMoves
<1>2. "crossed" \notin since' \/ "crossed" \notin ways' => \A v \in Workers \ {w} : ~Changing(v)
  BY DEF NoteWrite, Note, Crossing
<1>3. \A v \in Workers \ {w} : Changing(v)' = Changing(v)
  BY <1>1 DEF Changing
<1>4. \A v \in Workers \ {w} : ~Changing(v) /\ ~Changing(v)' => ~Owner(v) /\ ~Owner(v)' /\ Progress(v)'
  BY Resting, RestingThen
<1> QED BY <1>1, <1>2, <1>3, <1>4 DEF NoteWrite, Note

LEMMA WriteKeepsFit ==
  ASSUME ReqsOK, NEW w \in Workers, NEW r, Is(w, r), NEW S, NoteWrite(w, S),
         Trusted' => (AllFit \/ Owner(w))' /\ Progress(w)'
  PROVE  FitInv'
<1>1. Trusted' => \A v \in Workers \ {w} : Progress(v)'
  BY WritesAlone DEF Trusted
<1> QED BY <1>1 DEF FitInv

\* What a writer may rely on: it is alone, and things fit but for itself.
LEMMA WriterKnows ==
  ASSUME ReqsOK, FitInv, NEW w \in Workers, NEW r, Is(w, r), NEW S, NoteWrite(w, S), type # Gone, Trusted'
  PROVE  /\ Trusted
         /\ S \cap {"saved", "stale", "crossed", "halted", "behind"} = {}
         /\ \A v \in Workers \ {w} : ~Owner(v) /\ ~Owner(v)'
         /\ ~OtherOwner(w) /\ ~OtherOwner(w)'
         /\ AllFit \/ Owner(w)
         /\ Progress(w)
<1>1. /\ since \subseteq since' /\ S \subseteq since'
      /\ \A v \in Workers \ {w} : ~Owner(v) /\ ~Owner(v)'
  BY WritesAlone DEF Trusted
<1>2. Trusted /\ S \cap {"saved", "stale", "crossed", "halted", "behind"} = {}
  BY <1>1 DEF Trusted
<1> QED BY <1>1, <1>2 DEF FitInv, OtherOwner

\* A request that is refused or killed while it is changing things is noted.
LEMMA RefusedKeepsFit ==
  ASSUME ReqsOK, FitInv, NEW w \in Workers, Refused(w), type' = type, doc' = doc
  PROVE  FitInv'
<1>1. CASE Changing(w)
  <2>1. "halted" \in since'
    BY <1>1 DEF Refused, Note, When
  <2> QED BY <2>1 DEF FitInv, Trusted
<1>2. CASE ~Changing(w)
  <2>1. Is(w, Idle) /\ since \subseteq since'
    BY DEF Refused, Done, Note
  <2>2. ~Changing(w)'
    BY <2>1, IsMoves, IdleOK DEF Changing
  <2> QED BY <1>2, <2>1, <2>2, CalmKeepsFit
<1> QED BY <1>1, <1>2

\* Template changes: the plan, and the three looks at the objects.
LEMMA FindTypesKeepsFit ==
  ASSUME TypeInv, FitInv, NEW w \in Workers, FindTypes(w)
  PROVE  FitInv'
<1> DEFINE r == req[w]
           q == TemplateRequest(r)
<1>1. /\ r.at = "types" /\ ReqOK(r) /\ type' = type /\ doc' = doc /\ ReqsOK
  BY FindTypesMoves DEF db, TypeInv
<1>2. since \subseteq since' /\ (r.kind = "save" /\ type # Gone /\ type.section \notin {Unused, r.old} => "behind" \in since')
  BY DEF FindTypes, Note, When
<1>3. ~Changing(w)
  BY <1>1 DEF Changing
<1>4. CASE Is(w, Idle) \/ Is(w, [at |-> "drop"])
  <2>1. ~Changing(w)'
    BY <1>1, <1>4, IsMoves, IdleOK DEF Changing
  <2> QED BY <1>1, <1>2, <1>3, <1>4, <2>1, CalmKeepsFit
<1>5. CASE type \in Types /\ type.section # Unused /\ Is(w, q)
  <2>1. req'[w] = q /\ \A v \in Workers : v # w => req'[v] = req[v]
    BY <1>1, <1>5, IsMoves
  <2>2. /\ q.at = "clean" /\ q.kind = r.kind /\ q.removed = Removed(r) /\ q.added = r.new \ r.old
        /\ q.read = type /\ q.data = NewType(r)
    BY DEF TemplateRequest
  <2> HIDE DEF q
  <2>3. Owner(w)'
    BY <2>1, <2>2 DEF Owner, Changing, Sweeping
  <2>4. ASSUME Trusted', Trusted PROVE Progress(w)'
    <3>1. ObjectsFor(w)'
      <4>1. AllFit \/ OtherOwner(w)
        BY <1>3, <2>4, Resting DEF FitInv, OtherOwner
      <4>2. OtherOwner(w)' <=> OtherOwner(w)
        BY <2>1 DEF OtherOwner, Owner, Changing, Sweeping
      <4>3. \A o \in Present' : Fit(o, FieldsOf(type))' \/ OtherOwner(w)'
        BY <1>1, <4>1, <4>2 DEF AllFit, Fit, Present
      <4> QED BY <2>1, <2>2, <4>3 DEF ObjectsFor
    <3>2. PlanFits(w)'
      <4>1. SectionOf(type) = type.section
        BY <1>5 DEF SectionOf
      <4>2. CASE r.kind = "save"
        <5>1. type.section = r.old
          BY <1>2, <1>5, <2>4, <4>2 DEF Trusted
        <5>2. FieldsOf(NewType(r)) = (FieldsOf(type) \ (r.old \ r.new)) \cup r.new
          BY <1>1, <1>5, <4>2, NewTypeIsType DEF ReqOK, Removed
        <5>3. FieldsOf(NewType(r)) = (FieldsOf(type) \ (r.old \ r.new)) \cup (r.new \ r.old)
          BY <4>1, <5>1, <5>2 DEF FieldsOf
        <5> QED BY <1>1, <2>1, <2>2, <4>1, <4>2, <5>1, <5>3 DEF PlanFits, Removed
      <4>3. CASE r.kind # "save"
        <5>1. r.new = {}
          BY <1>1, <4>3 DEF ReqOK
        <5>2. FieldsOf(NewType(r)) = FieldsOf(type) \ Removed(r)
          BY <1>1, <1>5, <4>3, <5>1, NewTypeIsType DEF ReqOK
        <5> QED BY <1>1, <2>1, <2>2, <5>1, <5>2 DEF PlanFits
      <4> QED BY <4>2, <4>3
    <3>3. SweepFits(w)'
      BY <2>1, <2>2 DEF SweepFits, Sweeping
    <3> QED BY <3>1, <3>2, <3>3 DEF Progress
  <2> QED BY <1>1, <1>2, <1>5, <2>3, <2>4, MovesKeepFit
<1> QED BY <1>4, <1>5, FindTypesMoves

\* The looks at the objects take them all in hand, as they fit or are another's.
LEMMA HandingKeepsFit ==
  ASSUME TypeInv, FitInv, NEW w \in Workers,
         NEW r, {"at", "docs", "then"} \subseteq DOMAIN r,
         NEW docs, DOMAIN docs = Present, \A o \in Present : docs[o].old = doc[o],
         NEW then \in {"idle", "add", "back"},
         Is(w, Hand(r, docs, then)),
         then # "idle" => /\ TemplateReqOK(r) /\ TemplateReqOK(req[w]) /\ Templating(req[w])
                          /\ r.kind = req[w].kind /\ r.removed = req[w].removed /\ r.added = req[w].added
                          /\ r.read = req[w].read /\ r.data = req[w].data,
         UNCHANGED db, since \subseteq since',
         Owner(w),
         Trusted => \A o \in Present :
           \/ /\ then = "idle"
              /\ Fit(o, FieldsOf(type)) \/ OtherOwner(w)
              /\ FieldSet(docs[o].new) = FieldSet(doc[o])
           \/ /\ then # "idle" /\ ~(then = "back" /\ r.kind = "save")
              /\ Fit(o, FieldsOf(type)) \/ OtherOwner(w)
              /\ FieldSet(docs[o].new) = FieldSet(doc[o]) \ r.removed
           \/ /\ then = "back" /\ r.kind = "save"
              /\ FieldSet(docs[o].new) = FieldsOf(r.data)
  PROVE  FitInv'
<1> DEFINE h == Hand(r, docs, then)
<1>1. /\ ReqsOK /\ type' = type /\ doc' = doc /\ Present' = Present
      /\ req'[w] = h /\ \A v \in Workers : v # w => req'[v] = req[v]
  BY IsMoves DEF TypeInv, db, Present
<1>2. \/ /\ Present # {}
         /\ h.at = "objects" /\ h.docs = docs /\ h.then = then
         /\ DOMAIN h = DOMAIN r /\ \A x \in DOMAIN r \ {"at", "docs", "then"} : h[x] = r[x]
      \/ Present = {} /\ then = "idle" /\ h = Idle
      \/ Present = {} /\ then # "idle" /\ h.at = then
  BY HandCases
<1>3. then # "idle" /\ h # Idle => /\ h.kind = req[w].kind /\ h.removed = req[w].removed /\ h.added = req[w].added
                                   /\ h.read = req[w].read /\ h.data = req[w].data
                                   /\ h.kind = r.kind /\ h.removed = r.removed /\ h.data = r.data
  BY HandKeepsTemplate
<1> HIDE DEF h
<1>4. Owner(w)' \/ AllFit
  <2>1. h.at \in {"objects", "add", "back"} => Owner(w)'
    BY <1>1 DEF Owner, Changing, Sweeping
  <2> QED BY <1>2, <2>1 DEF AllFit
<1>5. ASSUME Trusted PROVE Progress(w)'
  <2>1. OtherOwner(w)' <=> OtherOwner(w)
    BY <1>1 DEF OtherOwner, Owner, Changing, Sweeping
  <2>2. ObjectsFor(w)'
    <3>1. CASE Present = {}
      <4>1. h.at # "objects" \/ Present' = {}
        BY <1>1, <3>1
      <4> QED BY <1>1, <3>1, <4>1 DEF ObjectsFor
    <3>2. CASE Present # {}
      <4>1. h.at = "objects" /\ h.docs = docs /\ h.then = then
        BY <1>2, <3>2
      <4>2. h # Idle
        BY <4>1, IdleOK
      <4>3. ASSUME NEW o \in Present PROVE InHandFit(w, o)'
        <5>1. doc'[o] = docs[o].old
          BY <1>1
        <5>2. \A S : Fit(o, S)' <=> Fit(o, S)
          BY <1>1 DEF Fit
        <5>3. h.docs[o].new = docs[o].new /\ h.docs[o].old = doc[o]
          BY <4>1
        <5>4. CASE then = "idle"
          BY <1>1, <1>5, <2>1, <4>1, <5>1, <5>2, <5>3, <5>4 DEF InHandFit
        <5>5. CASE then # "idle"
          BY <1>1, <1>3, <1>5, <2>1, <4>1, <4>2, <5>1, <5>2, <5>3, <5>5 DEF InHandFit
        <5> QED BY <5>4, <5>5
      <4>4. DOMAIN req'[w].docs = Present'
        BY <1>1, <4>1
      <4> QED BY <1>1, <4>1, <4>3, <4>4 DEF ObjectsFor
    <3> QED BY <3>1, <3>2
  <2>3. PlanFits(w)'
    <3>1. CASE then = "idle"
      BY <1>1, <1>2, <3>1, IdleOK DEF PlanFits, Templating
    <3>2. CASE then # "idle"
      <4>1. h # Idle
        BY <1>2, <3>2, IdleOK
      <4>2. PlanFits(w)
        BY <1>5 DEF FitInv, Progress
      <4> QED BY <1>1, <1>3, <3>2, <4>1, <4>2 DEF PlanFits
    <3> QED BY <3>1, <3>2
  <2>4. SweepFits(w)'
    <3>1. h.at \notin {"sweep", "pull", "fill"}
      BY <1>2, IdleOK
    <3> QED BY <1>1, <3>1 DEF SweepFits, Sweeping
  <2> QED BY <2>2, <2>3, <2>4 DEF Progress
<1>6. \E q : Is(w, q)
  OBVIOUS
<1> QED BY <1>1, <1>4, <1>5, <1>6, MovesKeepFit

LEMMA ReadObjectsKeepsFit ==
  ASSUME TypeInv, FitInv, NEW w \in Workers, ReadObjects(w)
  PROVE  FitInv'
<1> DEFINE r == [req[w] EXCEPT !.old = <<>>, !.mds = <<>>]
           docs == [o \in Present |-> [old |-> doc[o],
                      new |-> [doc[o] EXCEPT !.mds = DataUpdated(doc[o].mds, req[w].old, req[w].mds)]]]
<1>1. /\ req[w].at = "reading" /\ ReqOK(req[w]) /\ UNCHANGED db /\ type' = type /\ doc' = doc /\ ReqsOK /\ DocsOK
  BY DEF ReadObjects, At, TypeInv, ReqsOK, db
<1>2. CASE Refused(w)
  BY <1>1, <1>2, RefusedKeepsFit
<1>3. CASE ~Refused(w)
  <2>1. Is(w, Hand(r, docs, "idle")) /\ since \subseteq since'
    <3>1. Is(w, Hand(r, docs, "idle"))
      BY <1>3, ReadObjectsHands
    <3>2. since \subseteq since'
      BY <1>3 DEF ReadObjects, Note
    <3> QED BY <3>1, <3>2
  <2>2. {"at", "docs", "then"} \subseteq DOMAIN r
    BY <1>1 DEF ReqOK
  <2>3. Owner(w)
    BY <1>1 DEF Owner, Changing, Sweeping
  <2>4. /\ DOMAIN docs = Present
        /\ \A o \in Present : docs[o].old = doc[o] /\ FieldSet(docs[o].new) = FieldSet(doc[o])
    <3>1. \A o \in Present : IsDoc(doc[o])
      BY <1>1 DEF DocsOK, Present
    <3> QED BY <3>1, OtherData
  <2>5. Trusted => \A o \in Present : Fit(o, FieldsOf(type)) \/ OtherOwner(w)
    BY <1>1 DEF FitInv, Progress, ObjectsFor
  <2> HIDE DEF r, docs
  <2> QED BY <1>1, <2>1, <2>2, <2>3, <2>4, <2>5, HandingKeepsFit
<1> QED BY <1>2, <1>3

LEMMA ReadToCleanKeepsFit ==
  ASSUME TypeInv, FitInv, NEW w \in Workers, ReadToClean(w)
  PROVE  FitInv'
<1> DEFINE r == req[w]
           docs == [o \in Present |-> [old |-> doc[o], new |-> Without(doc[o], req[w].removed)]]
           then == IF req[w].kind = "save" THEN "add" ELSE "back"
<1>1. /\ r.at = "clean" /\ ReqOK(r) /\ UNCHANGED db /\ since' = since /\ DocsOK
  BY DEF ReadToClean, At, TypeInv, ReqsOK
<1>2. Is(w, Hand(r, docs, then))
  BY ReadToCleanHands
<1>3. TemplateReqOK(r) /\ Templating(r) /\ {"at", "docs", "then"} \subseteq DOMAIN r
  BY <1>1 DEF ReqOK, Templating, TemplateReqOK
<1>4. Owner(w)
  BY <1>1 DEF Owner, Changing, Sweeping
<1>5. /\ DOMAIN docs = Present
      /\ \A o \in Present : docs[o].old = doc[o] /\ FieldSet(docs[o].new) = FieldSet(doc[o]) \ r.removed
  <2>1. \A o \in Present : IsDoc(doc[o])
    BY <1>1 DEF DocsOK, Present
  <2> QED BY <2>1, WithoutFields
<1>6. Trusted => \A o \in Present : Fit(o, FieldsOf(type)) \/ OtherOwner(w)
  BY <1>1 DEF FitInv, Progress, ObjectsFor
<1>7. then \in {"idle", "add", "back"} /\ then # "idle" /\ ~(then = "back" /\ r.kind = "save")
  OBVIOUS
<1> HIDE DEF docs, then
<1> QED BY <1>1, <1>2, <1>3, <1>4, <1>5, <1>6, <1>7, HandingKeepsFit

LEMMA ReadToAddKeepsFit ==
  ASSUME TypeInv, FitInv, NEW w \in Workers, ReadToAdd(w)
  PROVE  FitInv'
<1> DEFINE r == req[w]
           docs == [o \in Present |-> [old |-> doc[o], new |-> Appended(doc[o], req[w].added)]]
<1>1. /\ r.at = "add" /\ ReqOK(r) /\ UNCHANGED db /\ since \subseteq since' /\ DocsOK
  BY DEF ReadToAdd, At, TypeInv, ReqsOK, Note
<1>2. Is(w, Hand(r, docs, "back"))
  BY ReadToAddHands
<1>3. /\ TemplateReqOK(r) /\ Templating(r) /\ {"at", "docs", "then"} \subseteq DOMAIN r /\ r.kind = "save"
      /\ r.added \in SUBSET Fields
  BY <1>1 DEF ReqOK, Templating, TemplateReqOK, Fields
<1>4. Owner(w)
  BY <1>1 DEF Owner, Changing, Sweeping
<1>5. /\ DOMAIN docs = Present
      /\ \A o \in Present : docs[o].old = doc[o] /\ FieldSet(docs[o].new) = FieldSet(doc[o]) \cup r.added
  <2>1. \A o \in Present : IsDoc(doc[o])
    BY <1>1 DEF DocsOK, Present
  <2> QED BY <1>3, <2>1, AppendedFields
<1>6. Trusted => \A o \in Present : FieldSet(docs[o].new) = FieldsOf(r.data)
  <2> SUFFICES ASSUME Trusted, NEW o \in Present PROVE FieldSet(docs[o].new) = FieldsOf(r.data)
    OBVIOUS
  <2>1. ObjectsFor(w) /\ PlanFits(w)
    BY DEF FitInv, Progress
  <2>2. FieldSet(doc[o]) = FieldsOf(type) \ r.removed
    BY <1>1, <2>1 DEF ObjectsFor, Fit
  <2> QED BY <1>3, <1>5, <2>1, <2>2 DEF PlanFits
<1> HIDE DEF docs
<1> QED BY <1>1, <1>2, <1>3, <1>4, <1>5, <1>6, HandingKeepsFit

\* The writes of one object after the other.
LEMMA WriteObjectKeepsFit ==
  ASSUME TypeInv, FitInv, NEW w \in Workers, NEW o \in Objects, WriteObject(w, o)
  PROVE  FitInv'
<1> DEFINE r == req[w]
           rest == [x \in DOMAIN r.docs \ {o} |-> r.docs[x]]
           h == Hand(r, rest, r.then)
           S == When(doc[o] # r.docs[o].old, "stale")
<1>1. /\ r.at = "objects" /\ ReqOK(r) /\ type' = type /\ ReqsOK /\ DocsOK /\ o \in DOMAIN r.docs
  BY WriteObjectMoves DEF TypeInv, ReqsOK
<1>2. CASE type = Gone
  BY <1>1, <1>2 DEF FitInv, Trusted
<1>3. CASE type # Gone
  <2>1. /\ doc' = [doc EXCEPT ![o] = r.docs[o].new]
        /\ Is(w, h) /\ NoteWrite(w, S)
    BY <1>3, WriteObjectMoves
  <2>2. req'[w] = h
    BY <1>1, <2>1, IsMoves
  <2>3. doc'[o] = r.docs[o].new /\ \A p \in Objects \ {o} : doc'[p] = doc[p]
    BY <1>1, <2>1 DEF DocsOK
  <2>4. {"at", "docs", "then"} \subseteq DOMAIN r /\ r.then \in {"idle", "add", "back"} /\ HandOK(r.docs)
    BY <1>1 DEF ReqOK
  <2>5. /\ DOMAIN rest = DOMAIN r.docs \ {o}
        /\ \A p \in DOMAIN rest : rest[p] = r.docs[p]
    OBVIOUS
  <2> HIDE DEF rest
  <2>6. \/ /\ DOMAIN rest # {}
           /\ h.at = "objects" /\ h.docs = rest /\ h.then = r.then
        \/ DOMAIN rest = {} /\ r.then = "idle" /\ h = Idle
        \/ DOMAIN rest = {} /\ r.then # "idle" /\ h.at = r.then
    BY <2>4, HandCases
  <2>7. r.then # "idle" => Templating(r) /\ TemplateReqOK(r)
    BY <1>1 DEF ReqOK, Templating
  <2>8. r.then # "idle" /\ h # Idle => /\ h.kind = r.kind /\ h.removed = r.removed /\ h.added = r.added
                                       /\ h.read = r.read /\ h.data = r.data
    BY <2>4, <2>7, HandKeepsTemplate
  <2> HIDE DEF h
  <2>9. ASSUME Trusted' PROVE (AllFit \/ Owner(w))' /\ Progress(w)'
    <3>1. /\ ~OtherOwner(w) /\ ~OtherOwner(w)' /\ Progress(w) /\ doc[o] = r.docs[o].old
      <4>1. /\ ~OtherOwner(w) /\ ~OtherOwner(w)' /\ Progress(w)
            /\ S \cap {"saved", "stale", "crossed", "halted", "behind"} = {}
        BY <1>1, <1>3, <2>1, <2>9, WriterKnows
      <4> QED BY <4>1 DEF When
    <3>2. o \in Present
      BY <1>1, <2>4, <3>1 DEF HandOK, Present
    <3>3. \A p \in Present : IF p \in DOMAIN r.docs THEN InHandFit(w, p) ELSE DoneFit(w, p)
      BY <1>1, <3>1 DEF Progress, ObjectsFor
    <3>4. PlanFits(w)
      BY <3>1 DEF Progress
    \* An object that is done with fits as the request goes on, the one written too.
    <3> DEFINE Then(p) == \/ r.then = "idle" /\ FieldSet(doc'[p]) = FieldsOf(type)
                          \/ r.then = "add" /\ FieldSet(doc'[p]) = FieldsOf(type) \ r.removed
                          \/ r.then = "back" /\ FieldSet(doc'[p]) = FieldsOf(r.data)
    <3>5. Then(o)
      <4>1. InHandFit(w, o)
        BY <1>1, <3>2, <3>3
      <4>2. CASE r.then = "idle"
        BY <2>3, <3>1, <4>1, <4>2 DEF InHandFit, Fit
      <4>3. CASE r.then = "add"
        BY <2>3, <3>1, <4>1, <4>3 DEF InHandFit, Fit
      <4>4. CASE r.then = "back" /\ r.kind = "save"
        BY <2>3, <4>1, <4>4 DEF InHandFit
      <4>5. CASE r.then = "back" /\ r.kind = "delete"
        <5>1. FieldSet(r.docs[o].new) = FieldsOf(type) \ r.removed
          BY <3>1, <4>1, <4>5 DEF InHandFit, Fit
        <5>2. FieldsOf(r.data) = FieldsOf(type) \ r.removed
          BY <2>7, <3>4, <4>5 DEF PlanFits
        <5> QED BY <2>3, <4>5, <5>1, <5>2
      <4> QED BY <2>4, <2>7, <4>2, <4>3, <4>4, <4>5 DEF TemplateReqOK
    <3>6. ASSUME NEW p \in Present' PROVE p \in DOMAIN rest \/ Then(p)
      <4>1. CASE p = o
        BY <3>5, <4>1
      <4>2. CASE p # o
        <5>1. p \in Present /\ doc'[p] = doc[p]
          BY <2>3, <4>2 DEF Present
        <5>2. p \in DOMAIN rest \/ DoneFit(w, p)
          BY <2>5, <3>3, <4>2, <5>1
        <5> QED BY <3>1, <5>1, <5>2 DEF DoneFit, Fit
      <4> QED BY <4>1, <4>2
    <3>7. CASE DOMAIN rest # {}
      <4>1. h.at = "objects" /\ h.docs = rest /\ h.then = r.then
        BY <2>6, <3>7
      <4>2. h # Idle
        BY <4>1, IdleOK
      <4>3. Owner(w)'
        BY <2>2, <4>1 DEF Owner, Changing, Sweeping
      <4>4. ASSUME NEW p \in Present', p \in DOMAIN rest PROVE InHandFit(w, p)'
        <5>1. p \in Present /\ doc'[p] = doc[p] /\ p \in DOMAIN r.docs /\ rest[p] = r.docs[p]
          BY <2>3, <2>5, <4>4 DEF Present
        <5>2. InHandFit(w, p)
          BY <3>3, <5>1
        <5>3. \A A : Fit(p, A)' <=> Fit(p, A)
          BY <5>1 DEF Fit
        <5> QED BY <1>1, <2>2, <2>8, <3>1, <4>1, <4>2, <5>1, <5>2, <5>3 DEF InHandFit
      <4>5. ASSUME NEW p \in Present', p \notin DOMAIN rest PROVE DoneFit(w, p)'
        BY <1>1, <2>2, <2>8, <3>6, <4>1, <4>2, <4>5 DEF DoneFit, Fit
      <4>6. ObjectsFor(w)'
        BY <2>2, <4>1, <4>4, <4>5 DEF ObjectsFor
      <4>7. PlanFits(w)' /\ SweepFits(w)'
        BY <1>1, <2>2, <2>7, <2>8, <3>4, <4>1, <4>2 DEF PlanFits, Templating, SweepFits, Sweeping
      <4> QED BY <4>3, <4>6, <4>7 DEF Progress
    <3>8. CASE DOMAIN rest = {} /\ r.then = "idle"
      <4>1. ~Changing(w)'
        BY <2>2, <2>6, <3>8, IdleOK DEF Changing
      <4>2. AllFit'
        BY <1>1, <3>6, <3>8 DEF AllFit, Fit
      <4> QED BY <4>1, <4>2, RestingThen
    <3>9. CASE DOMAIN rest = {} /\ r.then # "idle"
      <4>1. h.at = r.then /\ h.at \in {"add", "back"} /\ h # Idle
        BY <2>4, <2>6, <3>9, IdleOK
      <4>2. Owner(w)'
        BY <2>2, <4>1 DEF Owner, Changing, Sweeping
      <4>3. ObjectsFor(w)'
        BY <1>1, <2>2, <2>8, <3>6, <3>9, <4>1 DEF ObjectsFor, Fit
      <4>4. PlanFits(w)' /\ SweepFits(w)'
        BY <1>1, <2>2, <2>7, <2>8, <3>4, <3>9, <4>1 DEF PlanFits, Templating, SweepFits, Sweeping
      <4> QED BY <4>2, <4>3, <4>4 DEF Progress
    <3> QED BY <3>7, <3>8, <3>9
  <2> QED BY <1>1, <2>1, <2>9, WriteKeepsFit
<1> QED BY <1>2, <1>3

LEMMA Pairs == \A x, o, f : <<o, f>> = x => o = x[1] /\ f = x[2]
<1> SUFFICES ASSUME NEW x, NEW o, NEW f, <<o, f>> = x PROVE o = x[1] /\ f = x[2]
  OBVIOUS
<1>1. <<o, f>>[1] = o /\ <<o, f>>[2] = f
  OBVIOUS
<1> QED BY <1>1

\* One $pull or $addToSet, of fields that are not the type's or are.
LEMMA WritesOfKeepFit ==
  ASSUME TypeInv, FitInv, NEW w \in Workers, type' = type,
         \/ req[w].at = "pull" /\ WritesOf(w, LAMBDA d, f : Without(d, {f}))
         \/ req[w].at = "fill" /\ WritesOf(w, LAMBDA d, f : AddToSet(d, f))
  PROVE  FitInv'
<1> DEFINE r == req[w]
<1>1. r.at \in {"pull", "fill"} /\ ReqOK(r) /\ ReqsOK /\ DocsOK
  BY DEF TypeInv, ReqsOK
<1>2. PICK x \in r.todo :
        /\ \/ doc' = doc /\ doc[x[1]] = Gone
           \/ /\ doc[x[1]] # Gone
              /\ \/ r.at = "pull" /\ doc' = [doc EXCEPT ![x[1]] = Without(doc[x[1]], {x[2]})]
                 \/ r.at = "fill" /\ doc' = [doc EXCEPT ![x[1]] = AddToSet(doc[x[1]], x[2])]
        /\ Is(w, [r EXCEPT !.todo = @ \ {x}])
        /\ NoteWrite(w, When(type = Gone \/ FieldsOf(type) # r.fields, "stale"))
  BY DEF WritesOf
<1>3. /\ x[1] \in Objects /\ x[2] \in Fields /\ r.fields \subseteq Fields
      /\ \A o, f : <<o, f>> = x => o = x[1] /\ f = x[2]
      /\ r.at = "fill" => x[2] \in r.fields
  <2>1. x \in Objects \X Fields
    BY <1>1, <1>2 DEF ReqOK
  <2>2. x[1] \in Objects /\ x[2] \in Fields
    BY <2>1
  <2>3. \A o, f : <<o, f>> = x => o = x[1] /\ f = x[2]
    BY Pairs
  <2>4. r.fields \subseteq Fields /\ (r.at = "fill" => x[2] \in r.fields)
    BY <1>1, <1>2 DEF ReqOK
  <2> QED BY <2>2, <2>3, <2>4
<1>4. req'[w].at = r.at /\ req'[w].fields = r.fields /\ req'[w].todo = r.todo \ {x}
  <2>1. req'[w] = [r EXCEPT !.todo = @ \ {x}]
    BY <1>1, <1>2, IsMoves
  <2>2. {"at", "fields", "todo"} \subseteq DOMAIN r
    BY <1>1 DEF ReqOK
  <2> QED BY <2>1, <2>2
\* What the write does to each object there is.
<1>5. ASSUME NEW o \in Present'
      PROVE  /\ o \in Present
             /\ FieldSet(doc'[o]) = IF o # x[1] THEN FieldSet(doc[o])
                                    ELSE IF r.at = "pull" THEN FieldSet(doc[o]) \ {x[2]} ELSE FieldSet(doc[o]) \cup {x[2]}
  <2>1. CASE o # x[1]
    BY <1>1, <1>2, <1>3, <2>1 DEF Present, DocsOK
  <2>2. CASE o = x[1]
    <3>1. doc[o] # Gone
      BY <1>2, <2>2 DEF Present
    <3>2. o \in Present /\ IsDoc(doc[o])
      BY <1>1, <1>3, <2>2, <3>1 DEF DocsOK, Present
    <3>3. /\ FieldSet(Without(doc[o], {x[2]})) = FieldSet(doc[o]) \ {x[2]}
          /\ FieldSet(AddToSet(doc[o], x[2])) = FieldSet(doc[o]) \cup {x[2]}
      BY <1>3, <3>2, WithoutFields, AddedToSet
    <3> QED BY <1>1, <1>2, <1>3, <2>2, <3>1, <3>2, <3>3 DEF DocsOK
  <2> QED BY <2>1, <2>2
<1>6. ASSUME Trusted' PROVE (AllFit \/ Owner(w))' /\ Progress(w)'
  <2>1. type # Gone
    BY <1>6 DEF Trusted
  <2>2. /\ (AllFit \/ Owner(w)) /\ Progress(w)
        /\ FieldsOf(type) = r.fields
    <3>1. /\ (AllFit \/ Owner(w)) /\ Progress(w)
          /\ When(type = Gone \/ FieldsOf(type) # r.fields, "stale") \cap {"saved", "stale", "crossed", "halted", "behind"} = {}
      BY <1>1, <1>2, <1>6, <2>1, WriterKnows
    <3> QED BY <3>1 DEF When
  <2>3. ObjectsFor(w)' /\ PlanFits(w)'
    BY <1>1, <1>4 DEF ObjectsFor, PlanFits, Templating
  <2>4. CASE r.fields # {}
    <3>1. Owner(w)'
      BY <1>1, <1>4, <2>4 DEF Owner, Changing, Sweeping
    <3>2. SweepFits(w)'
      <4>1. ASSUME r.at = "pull", NEW o \in Present', NEW f \in FieldSet(doc'[o]) \ r.fields PROVE <<o, f>> \in r.todo \ {x}
        <5>1. o \in Present /\ \A g \in FieldSet(doc[o]) \ r.fields : <<o, g>> \in r.todo
          BY <1>5, <2>2, <2>4, <4>1 DEF Progress, SweepFits, Sweeping
        <5>2. f \in FieldSet(doc[o]) /\ ~(o = x[1] /\ f = x[2])
          BY <1>5, <4>1
        <5>3. <<o, f>> # x
          BY <1>3, <5>2
        <5> QED BY <4>1, <5>1, <5>2, <5>3
      <4>2. ASSUME r.at = "fill", NEW o \in Present'
            PROVE  /\ FieldSet(doc'[o]) \subseteq r.fields
                   /\ \A f \in r.fields \ FieldSet(doc'[o]) : <<o, f>> \in r.todo \ {x}
        <5>1. /\ o \in Present /\ FieldSet(doc[o]) \subseteq r.fields
              /\ \A f \in r.fields \ FieldSet(doc[o]) : <<o, f>> \in r.todo
          BY <1>5, <2>2, <2>4, <4>2 DEF Progress, SweepFits, Sweeping
        <5>2. FieldSet(doc'[o]) = IF o # x[1] THEN FieldSet(doc[o]) ELSE FieldSet(doc[o]) \cup {x[2]}
          BY <1>5, <4>2
        <5>3. x[2] \in r.fields
          BY <1>3, <4>2
        <5> QED BY <1>3, <5>1, <5>2, <5>3
      <4>3. SweepFits(w)' = (/\ r.fields = FieldsOf(type)
                             /\ r.at = "pull" => \A o \in Present' : \A f \in FieldSet(doc'[o]) \ r.fields : <<o, f>> \in r.todo \ {x}
                             /\ r.at = "fill" => \A o \in Present' : /\ FieldSet(doc'[o]) \subseteq r.fields
                                                               /\ \A f \in r.fields \ FieldSet(doc'[o]) : <<o, f>> \in r.todo \ {x})
        BY <1>1, <1>4, <2>4 DEF SweepFits, Sweeping
      <4> QED BY <2>2, <4>1, <4>2, <4>3
    <3> QED BY <2>3, <3>1, <3>2 DEF Progress
  <2>5. CASE r.fields = {}
    <3>1. AllFit
      BY <1>1, <2>2, <2>5 DEF Owner, Sweeping
    <3>2. AllFit'
      <4> SUFFICES ASSUME NEW o \in Present' PROVE FieldSet(doc'[o]) = FieldsOf(type)
        BY DEF AllFit, Fit
      <4>1. o \in Present /\ FieldSet(doc[o]) = {}
        BY <1>5, <2>2, <2>5, <3>1 DEF AllFit, Fit
      <4>2. r.at = "pull"
        BY <1>1, <1>3, <2>5
      <4>3. FieldSet(doc'[o]) = {}
        BY <1>5, <4>1, <4>2
      <4> QED BY <2>2, <2>5, <4>3
    <3>3. SweepFits(w)'
      BY <1>4, <2>5 DEF SweepFits
    <3> QED BY <2>3, <3>2, <3>3 DEF Progress
  <2> QED BY <2>4, <2>5
<1> QED BY <1>1, <1>2, <1>6, WriteKeepsFit

LEMMA PullKeepsFit ==
  ASSUME TypeInv, FitInv, NEW w \in Workers, Pull(w)
  PROVE  FitInv'
<1> DEFINE r == req[w]
           q == [r EXCEPT !.at = "fill", !.todo = {x \in Present \X Fields : x[2] \in Lacking(doc[x[1]], r.fields)}]
<1>1. r.at = "pull" /\ ReqOK(r) /\ ReqsOK /\ type' = type /\ DocsOK
  BY PullMoves DEF TypeInv, ReqsOK
<1>2. CASE WritesOf(w, LAMBDA d, f : Without(d, {f}))
  BY <1>1, <1>2, WritesOfKeepFit
<1>3. CASE r.todo = {} /\ Is(w, q) /\ UNCHANGED <<doc, ways, since>>
  <2>1. req'[w] = q /\ {"at", "fields", "todo"} \subseteq DOMAIN r /\ r.fields \subseteq Fields
    BY <1>1, <1>3, IsMoves DEF ReqOK
  <2>2. /\ q.at = "fill" /\ q.fields = r.fields
        /\ q.todo = {x \in Present \X Fields : x[2] \in Lacking(doc[x[1]], r.fields)}
    BY <2>1
  <2> HIDE DEF q
  <2>3. Owner(w) => Owner(w)'
    BY <1>1, <2>1, <2>2 DEF Owner, Changing, Sweeping
  <2>4. ASSUME Trusted PROVE Progress(w)'
    <3>1. SweepFits(w)
      BY <2>4 DEF FitInv, Progress
    <3>2. ASSUME r.fields # {}, NEW o \in Present
          PROVE  /\ FieldSet(doc[o]) \subseteq r.fields
                 /\ \A f \in r.fields \ FieldSet(doc[o]) : <<o, f>> \in q.todo
      <4>1. \A f \in FieldSet(doc[o]) \ r.fields : <<o, f>> \in r.todo
        BY <1>1, <3>1, <3>2 DEF SweepFits, Sweeping
      <4>2. ASSUME NEW f \in r.fields \ FieldSet(doc[o]) PROVE <<o, f>> \in q.todo
        <5>1. Count(doc[o], f) = 0
          <6>1. IsDoc(doc[o]) /\ f \in Fields
            BY <1>1, <2>1 DEF DocsOK, Present
          <6>2. Count(doc[o], f) \in Nat /\ ~(Count(doc[o], f) > 0)
            BY <6>1, CountIsNat DEF FieldSet
          <6> QED BY <6>2
        <5>2. <<o, f>> \in Present \X Fields /\ <<o, f>>[1] = o /\ <<o, f>>[2] = f
          BY <2>1
        <5> QED BY <2>2, <5>1, <5>2 DEF Lacking
      <4> QED BY <1>3, <4>1, <4>2
    <3>3. SweepFits(w)'
      BY <1>1, <1>3, <2>1, <2>2, <3>1, <3>2 DEF SweepFits, Sweeping, Present
    <3>4. ObjectsFor(w)' /\ PlanFits(w)'
      BY <2>1, <2>2 DEF ObjectsFor, PlanFits, Templating
    <3> QED BY <3>3, <3>4 DEF Progress
  <2> QED BY <1>1, <1>3, <2>3, <2>4, MovesKeepFit
<1> QED BY <1>2, <1>3, PullMoves

LEMMA FillKeepsFit ==
  ASSUME TypeInv, FitInv, NEW w \in Workers, Fill(w)
  PROVE  FitInv'
<1> DEFINE r == req[w]
<1>1. r.at = "fill" /\ ReqOK(r) /\ ReqsOK /\ type' = type
  BY FillMoves DEF TypeInv, ReqsOK
<1>2. CASE WritesOf(w, LAMBDA d, f : AddToSet(d, f))
  BY <1>1, <1>2, WritesOfKeepFit
<1>3. CASE r.todo = {} /\ Is(w, Idle) /\ UNCHANGED <<doc, ways, since>>
  <2>1. ~Changing(w)'
    BY <1>1, <1>3, IsMoves, IdleOK DEF Changing
  <2>2. ASSUME Trusted, Owner(w) PROVE AllFit
    <3>1. r.fields # {} /\ SweepFits(w)
      BY <1>1, <2>2 DEF Owner, Sweeping, FitInv, Progress
    <3>2. \A o \in Present : FieldSet(doc[o]) \subseteq r.fields /\ r.fields \subseteq FieldSet(doc[o])
      BY <1>1, <1>3, <3>1 DEF SweepFits, Sweeping
    <3> QED BY <1>1, <3>1, <3>2 DEF SweepFits, Sweeping, AllFit, Fit
  <2> QED BY <1>1, <1>3, <2>1, <2>2, RestingThen, MovesKeepFit
<1> QED BY <1>2, <1>3, FillMoves

LEMMA SweepKeepsFit ==
  ASSUME TypeInv, FitInv, NEW w \in Workers, Sweep(w)
  PROVE  FitInv'
<1> DEFINE r == req[w]
           q == [at |-> "pull", fields |-> r.fields,
                 todo |-> {x \in Present \X Fields : x[2] \in Surplus(doc[x[1]], r.fields)}]
<1>1. /\ r.at = "sweep" /\ ReqOK(r) /\ ReqsOK /\ Is(w, q)
      /\ type' = type /\ doc' = doc /\ since' = since
  BY DEF Sweep, At, TypeInv, ReqsOK, db
<1>2. req'[w] = q
  BY <1>1, IsMoves
<1>3. /\ q.at = "pull" /\ q.fields = r.fields
      /\ q.todo = {x \in Present \X Fields : x[2] \in Surplus(doc[x[1]], r.fields)}
  OBVIOUS
<1> HIDE DEF q
<1>4. Owner(w) => Owner(w)'
  BY <1>1, <1>2, <1>3 DEF Owner, Changing, Sweeping
<1>5. ASSUME Trusted PROVE Progress(w)'
  <2>1. SweepFits(w)
    BY <1>5 DEF FitInv, Progress
  <2>2. ASSUME r.fields # {}, NEW o \in Present, NEW f \in FieldSet(doc[o]) \ r.fields PROVE <<o, f>> \in q.todo
    <3>1. <<o, f>> \in Present \X Fields /\ <<o, f>>[1] = o /\ <<o, f>>[2] = f
      BY <2>2 DEF FieldSet
    <3> QED BY <1>3, <2>2, <3>1 DEF Surplus, FieldSet
  <2>3. SweepFits(w)'
    BY <1>1, <1>2, <1>3, <2>1, <2>2 DEF SweepFits, Sweeping, Present
  <2>4. ObjectsFor(w)' /\ PlanFits(w)'
    BY <1>2, <1>3 DEF ObjectsFor, PlanFits, Templating
  <2> QED BY <2>3, <2>4 DEF Progress
<1> QED BY <1>1, <1>4, <1>5, MovesKeepFit

\* Cleaning starts anew the history of what keeps objects and type apart, if
\* nobody is changing them.
LEMMA StartCleanKeepsFit ==
  ASSUME TypeInv, FitInv, NEW w \in Workers, StartClean(w)
  PROVE  FitInv'
<1> DEFINE q == [at |-> "sweep", fields |-> FieldsOf(type)]
<1>1. /\ req[w].at = "idle" /\ ReqsOK /\ Is(w, q) /\ type' = type /\ doc' = doc
  BY DEF StartClean, At, TypeInv, db
<1>2. req'[w] = q /\ \A v \in Workers : v # w => req'[v] = req[v]
  BY <1>1, IsMoves
<1>3. Progress(w)'
  BY <1>1, <1>2 DEF Progress, ObjectsFor, PlanFits, SweepFits, Templating, Sweeping
<1>4. ~Owner(w)
  BY <1>1 DEF Owner, Changing
<1>5. CASE since' = since
  BY <1>1, <1>3, <1>4, <1>5, MovesKeepFit
<1>6. CASE since' # since
  <2>1. FieldsOf(type) # {} /\ \A v \in Workers : ~Changing(v)
    BY <1>6 DEF StartClean
  <2>2. Owner(w)'
    BY <1>2, <2>1 DEF Owner, Changing, Sweeping
  <2>3. ASSUME NEW v \in Workers PROVE Progress(v)'
    <3>1. v # w => ~Changing(v)'
      BY <1>2, <2>1 DEF Changing
    <3> QED BY <1>3, <3>1, RestingThen
  <2> QED BY <2>2, <2>3 DEF FitInv
<1> QED BY <1>5, <1>6

\* Saves of the type, and the last write of a template's.
LEMMA TypeWritesKeepFit ==
  ASSUME TypeInv, FitInv, NEW w \in Workers, WriteType(w) \/ WriteTypeBack(w)
  PROVE  FitInv'
<1> DEFINE r == req[w]
<1>1. ReqsOK /\ ReqOK(r) /\ doc' = doc /\ Present' = Present
  BY DEF TypeInv, ReqsOK, WriteType, WriteTypeBack, Present
<1>2. CASE WriteType(w)
  <2> DEFINE q == [at |-> "reading", old |-> r.old.mds, mds |-> r.data.mds, docs |-> <<>>, then |-> "idle"]
             S == When({type, r.old} # {r.seen} \/ template # r.global, "stale")
                    \cup When(type # Gone /\ FieldsOf(type) # FieldsOf(r.data), "saved")
  <2>1. r.at = "save" /\ type' = r.data /\ Is(w, q) /\ NoteWrite(w, S)
    BY <1>2 DEF WriteType, At
  <2>2. req'[w] = q
    BY <1>1, <2>1, IsMoves
  <2>3. ASSUME Trusted' PROVE (AllFit \/ Owner(w))' /\ Progress(w)'
    <3>1. S \subseteq since'
      BY <1>1, <2>1, WritesAlone
    <3>2. type # Gone /\ FieldsOf(type) = FieldsOf(r.data)
      <4>1. type = r.seen
        BY <2>3, <3>1 DEF Trusted, When
      <4>2. type # Gone
        BY <1>1, <2>1, <4>1, SentinelsAssumption DEF ReqOK
      <4> QED BY <2>3, <3>1, <4>2 DEF Trusted, When
    <3>3. AllFit
      <4>1. ~Owner(w)
        BY <2>1 DEF Owner, Changing
      <4> QED BY <1>1, <2>1, <2>3, <3>2, <4>1, WriterKnows
    <3>4. AllFit'
      BY <1>1, <2>1, <3>2, <3>3 DEF AllFit, Fit
    <3>5. ObjectsFor(w)' /\ PlanFits(w)' /\ SweepFits(w)'
      BY <2>2, <3>4 DEF ObjectsFor, PlanFits, SweepFits, Templating, Sweeping, AllFit
    <3> QED BY <3>4, <3>5 DEF Progress
  <2> QED BY <1>1, <2>1, <2>3, WriteKeepsFit
<1>3. CASE WriteTypeBack(w)
  <2> DEFINE q == IF r.kind = "save" THEN Idle ELSE [at |-> "drop"]
             S == When(type # r.read, "stale")
  <2>1. r.at = "back" /\ type' = r.data /\ Is(w, q) /\ NoteWrite(w, S)
    BY <1>3 DEF WriteTypeBack, At
  <2>2. ~Changing(w)'
    BY <1>1, <2>1, IsMoves, IdleOK DEF Changing
  <2>3. ASSUME Trusted' PROVE AllFit'
    <3>1. S \subseteq since'
      BY <1>1, <2>1, WritesAlone
    <3>2. type = r.read
      BY <2>3, <3>1 DEF Trusted, When
    <3>3. type # Gone
      BY <1>1, <2>1, <3>2, SentinelsAssumption DEF ReqOK, Templating, TemplateReqOK
    <3>4. Progress(w)
      BY <1>1, <2>1, <2>3, <3>3, WriterKnows
    <3> QED BY <1>1, <2>1, <3>4 DEF Progress, ObjectsFor, AllFit, Fit
  <2> QED BY <1>1, <2>1, <2>2, <2>3, RestingThen, WriteKeepsFit
<1> QED BY <1>2, <1>3

\* Objects are inserted and edited with the fields of the type, or it is noted.
LEMMA NewDocumentsFit ==
  ASSUME TypeInv, FitInv, NEW w \in Workers, NEW o \in Objects,
         req[w].at \in {"insert", "write"}, type' = type, Is(w, Idle),
         doc' = [doc EXCEPT ![o] = Document(req[w])],
         NoteWrite(w, Outdated(req[w]))
  PROVE  FitInv'
<1> DEFINE r == req[w]
<1>1. ReqsOK /\ ReqOK(r) /\ DocsOK
  BY DEF TypeInv, ReqsOK
<1>2. ~Changing(w) /\ ~Changing(w)'
  BY <1>1, IsMoves, IdleOK DEF Changing
<1>3. ASSUME Trusted' PROVE AllFit'
  <2>1. type # Gone
    BY <1>3 DEF Trusted
  <2>2. AllFit /\ Outdated(r) \cap {"saved", "stale", "crossed", "halted", "behind"} = {}
    BY <1>1, <1>2, <1>3, <2>1, Resting, WriterKnows
  <2>3. r.names = FieldsOf(type)
    BY <2>1, <2>2 DEF Outdated, When
  <2>4. FieldSet(doc'[o]) = FieldsOf(type)
    BY <1>1, <2>3, NewDocument DEF ReqOK, DocsOK
  <2>5. \A p \in Objects \ {o} : doc'[p] = doc[p]
    BY <1>1 DEF DocsOK
  <2> QED BY <2>2, <2>4, <2>5 DEF AllFit, Fit, Present
<1> QED BY <1>1, <1>2, <1>3, RestingThen, WriteKeepsFit

LEMMA FitStep == TypeInv /\ FitInv /\ [Next]_vars => FitInv'
<1> SUFFICES ASSUME TypeInv, FitInv, [Next]_vars PROVE FitInv'
  OBVIOUS
<1>1. ReqsOK /\ DocsOK
  BY DEF TypeInv
<1>2. ASSUME req' = req, type' = type, since' = since,
             \A o \in Present' : o \in Present /\ doc'[o] = doc[o]
      PROVE  FitInv'
  <2>1. Trusted' => Trusted
    BY <1>2 DEF Trusted
  <2>2. \A v \in Workers : Owner(v)' = Owner(v) /\ OtherOwner(v)' = OtherOwner(v)
    BY <1>2 DEF Owner, Changing, Sweeping, OtherOwner
  <2>3. AllFit => AllFit'
    BY <1>2 DEF AllFit, Fit
  <2>4. ASSUME NEW v \in Workers, Progress(v) PROVE Progress(v)'
    BY <1>2, <2>2, <2>4, OthersKeep
  <2> QED BY <2>1, <2>2, <2>3, <2>4 DEF FitInv
<1>3. CASE UNCHANGED vars
  BY <1>2, <1>3 DEF vars, db, Present
<1>4. CASE \E o \in Objects : DeleteObject(o)
  <2>1. PICK o \in Objects : DeleteObject(o)
    BY <1>4
  <2>2. \A p \in Present' : p \in Present /\ doc'[p] = doc[p]
    BY <1>1, <2>1 DEF DeleteObject, Present, DocsOK
  <2> QED BY <1>2, <2>1, <2>2 DEF DeleteObject
<1>5. ASSUME NEW w \in Workers,
             \/ OpenTypeForm(w) \/ OpenObjectForm(w) \/ StartDeleteTemplate(w) \/ StartDeleteType(w)
             \/ \E S \in SUBSET TemplateFields : StartSaveTemplate(w, S)
             \/ \E o \in Objects : OpenEditForm(w, o)
      PROVE  FitInv'
  <2>1. PICK r : Start(w, r) /\ r.at \in {"typeForm", "new", "types", "deleteType", "template", "edit"}
    <3>1. CASE OpenTypeForm(w)
      BY <3>1 DEF OpenTypeForm
    <3>2. CASE OpenObjectForm(w)
      BY <3>2 DEF OpenObjectForm
    <3>3. CASE StartDeleteTemplate(w)
      BY <3>3 DEF StartDeleteTemplate
    <3>4. CASE StartDeleteType(w)
      BY <3>4 DEF StartDeleteType
    <3>5. CASE \E S \in SUBSET TemplateFields : StartSaveTemplate(w, S)
      BY <3>5 DEF StartSaveTemplate
    <3>6. CASE \E o \in Objects : OpenEditForm(w, o)
      BY <3>6 DEF OpenEditForm
    <3> QED BY <1>5, <3>1, <3>2, <3>3, <3>4, <3>5, <3>6
  <2>2. /\ Is(w, r) /\ UNCHANGED <<db, ways, since>>
        /\ ~Changing(w) /\ ~Changing(w)'
    BY <1>1, <2>1, IsMoves DEF Start, At, Changing
  <2> QED BY <1>1, <2>2, CalmKeepsFit DEF db
<1>6. ASSUME NEW w \in Workers,
             \/ \E t \in Changes(req[w].seen, req[w].global) : SaveType(w, t)
             \/ CheckNew(w) \/ Render(w) \/ Validate(w) \/ DropTemplate(w) \/ WriteTemplate(w)
      PROVE  FitInv'
  <2>1. /\ req[w].at \in {"typeForm", "new", "edit", "validate", "drop", "template"} /\ ReqOK(req[w])
        /\ type' = type /\ doc' = doc /\ since \subseteq since'
    BY <1>1, <1>6 DEF SaveType, CheckNew, Render, Validate, DropTemplate, WriteTemplate, At, db, NoteWrite, Note, ReqsOK
  <2>2. PICK r : Is(w, r) /\ r.at \in {"idle", "save", "insert", "validate", "write", "types"}
    <3>1. CASE \E t \in Changes(req[w].seen, req[w].global) : SaveType(w, t)
      BY <3>1, IdleOK DEF SaveType, Done
    <3>2. CASE CheckNew(w)
      BY <2>1, <3>2, IdleOK DEF CheckNew, Done, ReqOK
    <3>3. CASE Render(w)
      BY <3>3, IdleOK DEF Render, Done
    <3>4. CASE Validate(w)
      BY <2>1, <3>4, IdleOK DEF Validate, Done, ReqOK
    <3>5. CASE DropTemplate(w)
      BY <3>5, IdleOK DEF DropTemplate, Done
    <3>6. CASE WriteTemplate(w)
      BY <2>1, <3>6 DEF WriteTemplate, ReqOK
    <3> QED BY <1>6, <3>1, <3>2, <3>3, <3>4, <3>5, <3>6
  <2>3. ~Changing(w) /\ ~Changing(w)'
    BY <1>1, <2>1, <2>2, IsMoves DEF Changing
  <2> QED BY <1>1, <2>1, <2>2, <2>3, CalmKeepsFit
<1>7. ASSUME NEW w \in Workers, NEW o \in Objects, InsertObject(w, o) PROVE FitInv'
  BY <1>7, NewDocumentsFit DEF InsertObject, At, Done
<1>8. ASSUME NEW w \in Workers, WriteEdit(w) PROVE FitInv'
  <2>1. ReqOK(req[w]) /\ req[w].at = "write" /\ type' = type
    BY <1>1, <1>8 DEF WriteEdit, At, ReqsOK
  <2>2. CASE type = Gone
    BY <2>1, <2>2 DEF FitInv, Trusted
  <2>3. CASE type # Gone
    <3>1. req[w].obj \in Objects
      BY <2>1 DEF ReqOK
    <3> QED BY <1>8, <2>1, <2>3, <3>1, NewDocumentsFit DEF WriteEdit, Done
  <2> QED BY <2>2, <2>3
<1>9. ASSUME NEW w \in Workers, DeleteType(w) PROVE FitInv'
  BY <1>9 DEF DeleteType, FitInv, Trusted
<1>10. ASSUME NEW w \in Workers, Kill(w) PROVE FitInv'
  BY <1>1, <1>10, RefusedKeepsFit DEF Kill, db
<1> QED
  BY <1>3, <1>4, <1>5, <1>6, <1>7, <1>8, <1>9, <1>10,
     FindTypesKeepsFit, ReadObjectsKeepsFit, ReadToCleanKeepsFit, ReadToAddKeepsFit, WriteObjectKeepsFit,
     PullKeepsFit, FillKeepsFit, SweepKeepsFit, StartCleanKeepsFit, TypeWritesKeepFit DEF Next

-----------------------------------------------------------------------------
(* No field twice. *)

AllOnce == \A o \in Present : Once(doc[o])

OnceInHand(w) ==
  LET r == req[w]
  IN  /\ r.at = "objects" => \A o \in DOMAIN r.docs : Once(r.docs[o].new)
      /\ r.at = "fill" => \A x \in r.todo : doc[x[1]] # Gone => Count(doc[x[1]], x[2]) = 0

OnceInv == ways \cap {"crossed", "doubled"} = {} => AllOnce /\ \A w \in Workers : OnceInHand(w)

LEMMA OnceMeans == OnceInv => (ways \cap {"crossed", "doubled"} = {} => NoFieldTwice)
  BY DEF OnceInv, AllOnce, Once, NoFieldTwice

LEMMA OnceInit == Init => OnceInv
<1> SUFFICES ASSUME Init PROVE OnceInv
  OBVIOUS
<1>1. \A w \in Workers : OnceInHand(w)
  BY DEF Init, Idle, OnceInHand
<1>2. ASSUME NEW o \in Present PROVE Once(doc[o])
  <2>1. PICK own \in SUBSET OwnFields :
          doc \in [Objects -> {Gone} \cup [fields : {Typed(own \cup SectionOf(type))}, mds : SetToSeqs(Range(type.mds))]]
    BY DEF Init
  <2>2. own \cup SectionOf(type) \in SUBSET Fields
    BY TypeInvInit, FieldsOfType DEF Fields
  <2>3. {"fields", "mds"} \subseteq DOMAIN doc[o] /\ doc[o].fields = Typed(own \cup SectionOf(type))
    BY <2>1 DEF Present
  <2> QED BY <2>2, <2>3, TypedDocument
<1> QED BY <1>1, <1>2 DEF OnceInv, AllOnce

LEMMA MovesKeepOnce ==
  ASSUME ReqsOK, OnceInv, NEW w \in Workers, NEW r, Is(w, r), doc' = doc, ways \subseteq ways',
         OnceInHand(w) /\ AllOnce /\ ways' \cap {"crossed", "doubled"} = {} => OnceInHand(w)'
  PROVE  OnceInv'
<1> SUFFICES ASSUME ways' \cap {"crossed", "doubled"} = {} PROVE AllOnce' /\ \A v \in Workers : OnceInHand(v)'
  BY DEF OnceInv
<1>1. AllOnce /\ \A v \in Workers : OnceInHand(v)
  BY DEF OnceInv
<1>2. ASSUME NEW v \in Workers, v # w PROVE OnceInHand(v)'
  <2>1. req'[v] = req[v]
    BY <1>2, IsMoves
  <2> QED BY <1>1, <2>1 DEF OnceInHand
<1> QED BY <1>1, <1>2 DEF AllOnce, Present

LEMMA WritesKeepOnce ==
  ASSUME ReqsOK, OnceInv, NEW w \in Workers, NEW r, Is(w, r), NEW S, NoteWrite(w, S),
         AllOnce /\ OnceInHand(w) => AllOnce' /\ OnceInHand(w)'
  PROVE  OnceInv'
<1> SUFFICES ASSUME ways' \cap {"crossed", "doubled"} = {} PROVE AllOnce' /\ \A v \in Workers : OnceInHand(v)'
  BY DEF OnceInv
<1>1. ways \subseteq ways' /\ \A v \in Workers \ {w} : ~Changing(v)'
  BY WritesAlone
<1>2. AllOnce /\ OnceInHand(w)
  BY <1>1 DEF OnceInv
<1>3. \A v \in Workers \ {w} : OnceInHand(v)'
  BY <1>1 DEF Changing, OnceInHand
<1> QED BY <1>2, <1>3

\* A request that takes nothing in hand and fills nothing.
LEMMA EmptyHanded ==
  \A w \in Workers : req[w].at \notin {"objects", "fill"} => OnceInHand(w)
  BY DEF OnceInHand

LEMMA EmptyHandedThen ==
  (\A w \in Workers : req[w].at \notin {"objects", "fill"} => OnceInHand(w))'
  BY EmptyHanded, PTL

LEMMA RefusedKeepsOnce ==
  ASSUME ReqsOK, OnceInv, NEW w \in Workers, Refused(w), doc' = doc
  PROVE  OnceInv'
<1>1. Is(w, Idle) /\ ways \subseteq ways' /\ req'[w].at = "idle"
  BY IsMoves, IdleOK DEF Refused, Done, Note
<1> QED BY <1>1, EmptyHandedThen, MovesKeepOnce

LEMMA HandingKeepsOnce ==
  ASSUME ReqsOK, OnceInv, NEW w \in Workers, NEW r, {"at", "docs", "then"} \subseteq DOMAIN r,
         NEW docs, NEW then \in {"idle", "add", "back"},
         Is(w, Hand(r, docs, then)), doc' = doc, ways \subseteq ways',
         AllOnce /\ ways' \cap {"crossed", "doubled"} = {} => \A o \in DOMAIN docs : Once(docs[o].new)
  PROVE  OnceInv'
<1> DEFINE h == Hand(r, docs, then)
<1>1. req'[w] = h
  BY IsMoves
<1>2. (h.at = "objects" /\ h.docs = docs) \/ h.at \in {"idle", "add", "back"}
  BY HandCases, IdleOK
<1> HIDE DEF h
<1>3. AllOnce /\ ways' \cap {"crossed", "doubled"} = {} => OnceInHand(w)'
  BY <1>1, <1>2 DEF OnceInHand
<1> QED BY <1>3, MovesKeepOnce

\* A template's new fields are none that an object has, while nothing has been
\* noted since the cleaning.
LEMMA ReadToAddKeepsOnce ==
  ASSUME TypeInv, HasTypeInv, FitInv, OnceInv, NEW w \in Workers, ReadToAdd(w)
  PROVE  OnceInv'
<1> DEFINE r == req[w]
           docs == [o \in Present |-> [old |-> doc[o], new |-> Appended(doc[o], req[w].added)]]
<1>1. /\ r.at = "add" /\ ReqOK(r) /\ doc' = doc /\ ReqsOK /\ DocsOK /\ ways \subseteq ways'
      /\ \/ r.added # {} /\ since # {}
         \/ r.added \cap r.read.own # {}
         => "doubled" \in ways'
  BY DEF ReadToAdd, At, TypeInv, ReqsOK, Note, db, When
<1>2. Is(w, Hand(r, docs, "back"))
  BY ReadToAddHands
<1>3. {"at", "docs", "then"} \subseteq DOMAIN r /\ r.added \in SUBSET Fields
  BY <1>1 DEF ReqOK, Templating, TemplateReqOK, Fields
<1>4. ASSUME AllOnce, ways' \cap {"crossed", "doubled"} = {}, NEW o \in Present
      PROVE  Once(Appended(doc[o], r.added))
  <2>1. IsDoc(doc[o]) /\ Once(doc[o])
    BY <1>1, <1>4 DEF DocsOK, Present, AllOnce
  <2>2. FieldSet(doc[o]) \cap r.added = {}
    <3>1. CASE r.added = {}
      BY <3>1
    <3>2. CASE r.added # {}
      <4>1. since = {} /\ r.added \cap r.read.own = {}
        BY <1>1, <1>4, <3>2
      <4>2. Trusted
        BY <4>1 DEF HasTypeInv, Trusted
      <4>3. ObjectsFor(w) /\ PlanFits(w)
        BY <4>2 DEF FitInv, Progress
      <4>4. FieldSet(doc[o]) \subseteq type.own \cup SectionOf(type)
        BY <1>1, <4>3 DEF ObjectsFor, Fit, FieldsOf
      <4>5. type = r.read /\ r.added \cap SectionOf(type) = {}
        BY <1>1, <4>3 DEF PlanFits, Templating
      <4> QED BY <4>1, <4>4, <4>5
    <3> QED BY <3>1, <3>2
  <2> QED BY <1>3, <2>1, <2>2, AppendedFields
<1>5. DOMAIN docs = Present /\ \A o \in Present : docs[o].new = Appended(doc[o], r.added)
  OBVIOUS
<1> HIDE DEF docs
<1> QED BY <1>1, <1>2, <1>3, <1>4, <1>5, HandingKeepsOnce

LEMMA ReadsKeepOnce ==
  ASSUME TypeInv, OnceInv, NEW w \in Workers, ReadObjects(w) \/ ReadToClean(w)
  PROVE  OnceInv'
<1>1. /\ ReqOK(req[w]) /\ doc' = doc /\ ReqsOK /\ DocsOK
  BY DEF ReadObjects, ReadToClean, TypeInv, ReqsOK, db
<1>2. \A o \in Present : IsDoc(doc[o])
  BY <1>1 DEF DocsOK, Present
<1>3. CASE ReadObjects(w)
  <2> DEFINE r == [req[w] EXCEPT !.old = <<>>, !.mds = <<>>]
             docs == [o \in Present |-> [old |-> doc[o],
                        new |-> [doc[o] EXCEPT !.mds = DataUpdated(doc[o].mds, req[w].old, req[w].mds)]]]
  <2>1. CASE Refused(w)
    BY <1>1, <2>1, RefusedKeepsOnce
  <2>2. CASE ~Refused(w)
    <3>1. Is(w, Hand(r, docs, "idle"))
      BY <1>3, <2>2, ReadObjectsHands
    <3>2. ways \subseteq ways'
      BY <1>3, <2>2 DEF ReadObjects, Note
    <3>3. {"at", "docs", "then"} \subseteq DOMAIN r
      BY <1>1, <1>3 DEF ReqOK, ReadObjects, At
    <3>4. AllOnce => \A o \in DOMAIN docs : Once(docs[o].new)
      BY <1>2, OtherData DEF AllOnce
    <3> HIDE DEF r, docs
    <3> QED BY <1>1, <3>1, <3>2, <3>3, <3>4, HandingKeepsOnce
  <2> QED BY <2>1, <2>2
<1>4. CASE ReadToClean(w)
  <2> DEFINE docs == [o \in Present |-> [old |-> doc[o], new |-> Without(doc[o], req[w].removed)]]
             then == IF req[w].kind = "save" THEN "add" ELSE "back"
  <2>1. Is(w, Hand(req[w], docs, then)) /\ ways' = ways
    BY <1>4, ReadToCleanHands DEF ReadToClean
  <2>2. {"at", "docs", "then"} \subseteq DOMAIN req[w]
    BY <1>1, <1>4 DEF ReqOK, ReadToClean, At, Templating, TemplateReqOK
  <2>3. AllOnce => \A o \in DOMAIN docs : Once(docs[o].new)
    BY <1>2, WithoutFields DEF AllOnce
  <2>4. then \in {"idle", "add", "back"}
    OBVIOUS
  <2> HIDE DEF docs, then
  <2> QED BY <1>1, <2>1, <2>2, <2>3, <2>4, HandingKeepsOnce
<1> QED BY <1>3, <1>4

LEMMA WriteObjectKeepsOnce ==
  ASSUME TypeInv, OnceInv, NEW w \in Workers, NEW o \in Objects, WriteObject(w, o)
  PROVE  OnceInv'
<1> DEFINE r == req[w]
           rest == [x \in DOMAIN r.docs \ {o} |-> r.docs[x]]
           h == Hand(r, rest, r.then)
<1>1. /\ r.at = "objects" /\ ReqOK(r) /\ ReqsOK /\ DocsOK /\ o \in DOMAIN r.docs
  BY WriteObjectMoves DEF TypeInv, ReqsOK
<1>2. CASE type = Gone
  BY <1>1, <1>2, WriteObjectMoves, RefusedKeepsOnce
<1>3. CASE type # Gone
  <2>1. /\ doc' = [doc EXCEPT ![o] = r.docs[o].new]
        /\ Is(w, h) /\ NoteWrite(w, When(doc[o] # r.docs[o].old, "stale"))
    BY <1>3, WriteObjectMoves
  <2>2. req'[w] = h
    BY <1>1, <2>1, IsMoves
  <2>3. {"at", "docs", "then"} \subseteq DOMAIN r /\ r.then \in {"idle", "add", "back"}
    BY <1>1 DEF ReqOK
  <2>4. DOMAIN rest \subseteq DOMAIN r.docs /\ \A p \in DOMAIN rest : rest[p] = r.docs[p]
    OBVIOUS
  <2> HIDE DEF rest
  <2>5. (h.at = "objects" /\ h.docs = rest) \/ h.at \in {"idle", "add", "back"}
    BY <2>3, HandCases, IdleOK
  <2> HIDE DEF h
  <2>6. ASSUME AllOnce, OnceInHand(w) PROVE AllOnce' /\ OnceInHand(w)'
    <3>1. \A p \in DOMAIN r.docs : Once(r.docs[p].new)
      BY <1>1, <2>6 DEF OnceInHand
    <3>2. doc'[o] = r.docs[o].new /\ \A p \in Objects \ {o} : doc'[p] = doc[p]
      BY <1>1, <2>1 DEF DocsOK
    <3>3. AllOnce'
      BY <1>1, <2>6, <3>1, <3>2 DEF AllOnce, Present
    <3>4. OnceInHand(w)'
      BY <2>2, <2>4, <2>5, <3>1 DEF OnceInHand
    <3> QED BY <3>3, <3>4
  <2> QED BY <1>1, <2>1, <2>6, WritesKeepOnce
<1> QED BY <1>2, <1>3

LEMMA PairsHaveParts ==
  \A y \in Objects \X Fields : y[1] \in Objects /\ y[2] \in Fields /\ y = <<y[1], y[2]>>
<1> SUFFICES ASSUME NEW a \in Objects, NEW f \in Fields, NEW y, y = <<a, f>>
             PROVE  y[1] \in Objects /\ y[2] \in Fields /\ y = <<y[1], y[2]>>
  OBVIOUS
<1> QED OBVIOUS

LEMMA WritesOfKeepOnce ==
  ASSUME TypeInv, OnceInv, NEW w \in Workers,
         \/ req[w].at = "pull" /\ WritesOf(w, LAMBDA d, f : Without(d, {f}))
         \/ req[w].at = "fill" /\ WritesOf(w, LAMBDA d, f : AddToSet(d, f))
  PROVE  OnceInv'
<1> DEFINE r == req[w]
<1>1. r.at \in {"pull", "fill"} /\ ReqOK(r) /\ ReqsOK /\ DocsOK
  BY DEF TypeInv, ReqsOK
<1>2. PICK x \in r.todo :
        /\ \/ doc' = doc /\ doc[x[1]] = Gone
           \/ /\ doc[x[1]] # Gone
              /\ \/ r.at = "pull" /\ doc' = [doc EXCEPT ![x[1]] = Without(doc[x[1]], {x[2]})]
                 \/ r.at = "fill" /\ doc' = [doc EXCEPT ![x[1]] = AddToSet(doc[x[1]], x[2])]
        /\ Is(w, [r EXCEPT !.todo = @ \ {x}])
        /\ NoteWrite(w, When(type = Gone \/ FieldsOf(type) # r.fields, "stale"))
  BY DEF WritesOf
<1>3. \A y \in r.todo : y[1] \in Objects /\ y[2] \in Fields /\ y = <<y[1], y[2]>>
  BY <1>1, PairsHaveParts DEF ReqOK
<1>4. req'[w].at = r.at /\ req'[w].todo = r.todo \ {x}
  <2>1. req'[w] = [r EXCEPT !.todo = @ \ {x}]
    BY <1>1, <1>2, IsMoves
  <2>2. {"at", "todo"} \subseteq DOMAIN r
    BY <1>1 DEF ReqOK
  <2> QED BY <2>1, <2>2
<1>5. ASSUME AllOnce, OnceInHand(w) PROVE AllOnce' /\ OnceInHand(w)'
  <2>1. CASE doc' = doc
    <3>1. AllOnce'
      BY <1>5, <2>1 DEF AllOnce, Present
    <3> QED BY <1>4, <1>5, <2>1, <3>1 DEF OnceInHand
  <2>2. CASE doc' # doc
    <3> DEFINE d == doc[x[1]]
    <3>1. d # Gone /\ x[1] \in Present /\ IsDoc(d) /\ Once(d)
      BY <1>1, <1>2, <1>3, <1>5, <2>2 DEF Present, DocsOK, AllOnce
    <3>2. \A p \in Objects \ {x[1]} : doc'[p] = doc[p]
      BY <1>1, <1>2 DEF DocsOK
    <3>3. CASE r.at = "pull"
      <4>1. doc'[x[1]] = Without(d, {x[2]})
        BY <1>1, <1>2, <1>3, <2>2, <3>3 DEF DocsOK
      <4>2. Once(doc'[x[1]])
        <5>1. IsDoc(d) => (Once(d) => Once(Without(d, {x[2]})))
          BY WithoutFields
        <5> QED BY <3>1, <4>1, <5>1
      <4>3. AllOnce'
        BY <1>5, <3>2, <4>2 DEF AllOnce, Present
      <4> QED BY <1>4, <3>3, <4>3 DEF OnceInHand
    <3>4. CASE r.at = "fill"
      <4>1. doc'[x[1]] = AddToSet(d, x[2])
        BY <1>1, <1>2, <1>3, <2>2, <3>4 DEF DocsOK
      <4>2. Count(d, x[2]) = 0
        BY <1>5, <3>1, <3>4 DEF OnceInHand
      <4> DEFINE e == AddToSet(d, x[2])
      <4>3. Once(doc'[x[1]]) /\ \A g \in Fields \ {x[2]} : Count(doc'[x[1]], g) = Count(d, g)
        <5>1. x[2] \in Fields
          BY <1>3
        <5>2. Once(e) /\ \A g \in Fields \ {x[2]} : Count(e, g) = Count(d, g)
          BY <3>1, <4>2, <5>1, AddedToSet
        <5> QED BY <4>1, <5>2
      <4>4. AllOnce'
        BY <1>5, <3>2, <4>3 DEF AllOnce, Present
      <4>5. ASSUME NEW y \in r.todo \ {x}, doc'[y[1]] # Gone PROVE Count(doc'[y[1]], y[2]) = 0
        <5>1. CASE y[1] # x[1]
          <6>1. doc'[y[1]] = doc[y[1]]
            BY <1>3, <3>2, <5>1
          <6> QED BY <1>5, <3>4, <4>5, <6>1 DEF OnceInHand
        <5>2. CASE y[1] = x[1]
          <6>1. y[2] # x[2]
            BY <1>2, <1>3, <4>5, <5>2
          <6>2. Count(doc'[y[1]], y[2]) = Count(d, y[2])
            BY <1>3, <4>3, <5>2, <6>1
          <6> QED BY <1>5, <3>1, <3>4, <5>2, <6>2 DEF OnceInHand, d
        <5> QED BY <5>1, <5>2
      <4> QED BY <1>4, <3>4, <4>4, <4>5 DEF OnceInHand
    <3> QED BY <1>1, <3>3, <3>4
  <2> QED BY <2>1, <2>2
<1> QED BY <1>1, <1>2, <1>5, WritesKeepOnce

LEMMA PassesKeepOnce ==
  ASSUME TypeInv, OnceInv, NEW w \in Workers, Sweep(w) \/ Pull(w) \/ Fill(w)
  PROVE  OnceInv'
<1>1. ReqsOK /\ DocsOK /\ ReqOK(req[w])
  BY DEF TypeInv, ReqsOK
<1>2. CASE Sweep(w)
  <2>1. PICK r : Is(w, r) /\ r.at = "pull"
    BY <1>2 DEF Sweep
  <2>2. OnceInHand(w)'
    BY <1>1, <2>1, IsMoves, EmptyHandedThen
  <2> QED BY <1>1, <1>2, <2>1, <2>2, MovesKeepOnce DEF Sweep, db
<1>3. CASE Pull(w)
  <2> DEFINE todo == {x \in Present \X Fields : x[2] \in Lacking(doc[x[1]], req[w].fields)}
             r == [req[w] EXCEPT !.at = "fill", !.todo = todo]
  <2>1. CASE WritesOf(w, LAMBDA d, f : Without(d, {f}))
    BY <1>3, <2>1, PullMoves, WritesOfKeepOnce
  <2>2. CASE Is(w, r) /\ UNCHANGED <<doc, ways, since>>
    <3>1. \A x \in todo : Count(doc[x[1]], x[2]) = 0
      BY DEF Lacking
    <3>2. "todo" \in DOMAIN req[w] /\ "at" \in DOMAIN req[w]
      BY <1>1, <1>3, PullMoves DEF ReqOK
    <3> HIDE DEF todo
    <3>3. req'[w].at = "fill" /\ req'[w].todo = todo
      <4>1. req'[w] = r
        BY <1>1, <2>2, IsMoves
      <4> QED BY <3>2, <4>1
    <3>4. OnceInHand(w)'
      BY <2>2, <3>1, <3>3 DEF OnceInHand
    <3> QED BY <1>1, <2>2, <3>4, MovesKeepOnce
  <2> QED BY <1>3, <2>1, <2>2, PullMoves
<1>4. CASE Fill(w)
  <2>1. CASE WritesOf(w, LAMBDA d, f : AddToSet(d, f))
    BY <1>4, <2>1, FillMoves, WritesOfKeepOnce
  <2>2. CASE Is(w, Idle) /\ UNCHANGED <<doc, ways, since>>
    <3>1. OnceInHand(w)'
      BY <1>1, <2>2, IsMoves, IdleOK, EmptyHandedThen
    <3> QED BY <1>1, <2>2, <3>1, MovesKeepOnce
  <2> QED BY <1>4, <2>1, <2>2, FillMoves
<1> QED BY <1>2, <1>3, <1>4

LEMMA NewDocumentsOnce ==
  ASSUME TypeInv, OnceInv, NEW w \in Workers, NEW o \in Objects,
         req[w].at \in {"insert", "write"}, Is(w, Idle),
         doc' = [doc EXCEPT ![o] = Document(req[w])],
         NEW S, NoteWrite(w, S)
  PROVE  OnceInv'
<1>1. ReqsOK /\ DocsOK /\ ReqOK(req[w])
  BY DEF TypeInv, ReqsOK
<1>2. doc'[o] = Document(req[w]) /\ \A p \in Objects \ {o} : doc'[p] = doc[p]
  BY <1>1 DEF DocsOK
<1>3. Once(Document(req[w]))
  BY <1>1, NewDocument DEF ReqOK
<1>4. AllOnce => AllOnce'
  BY <1>2, <1>3 DEF AllOnce, Present
<1>5. OnceInHand(w)'
  BY <1>1, IsMoves, IdleOK, EmptyHandedThen
<1> QED BY <1>1, <1>4, <1>5, WritesKeepOnce

LEMMA OnceStep == TypeInv /\ HasTypeInv /\ FitInv /\ OnceInv /\ [Next]_vars => OnceInv'
<1> SUFFICES ASSUME TypeInv, HasTypeInv, FitInv, OnceInv, [Next]_vars PROVE OnceInv'
  OBVIOUS
<1>1. ReqsOK /\ DocsOK
  BY DEF TypeInv
<1>2. CASE UNCHANGED vars
  BY <1>2 DEF vars, db, OnceInv, AllOnce, OnceInHand, Present
<1>3. CASE \E o \in Objects : DeleteObject(o)
  <2>1. PICK o \in Objects : DeleteObject(o)
    BY <1>3
  <2>2. req' = req /\ ways' = ways /\ \A p : doc'[p] # Gone /\ p \in Objects => doc'[p] = doc[p]
    BY <1>1, <2>1 DEF DeleteObject, DocsOK
  <2>3. AllOnce => AllOnce'
    BY <2>2 DEF AllOnce, Present
  <2>4. ASSUME NEW w \in Workers, OnceInHand(w) PROVE OnceInHand(w)'
    <3>1. req[w].at = "fill" => \A x \in req[w].todo : x[1] \in Objects
      BY <1>1, PairsHaveParts DEF ReqsOK, ReqOK
    <3> QED BY <2>2, <2>4, <3>1 DEF OnceInHand
  <2> QED BY <2>2, <2>3, <2>4 DEF OnceInv
\* Moves to where nothing is in hand.
<1>4. ASSUME NEW w \in Workers, NEW r, Is(w, r), r.at \notin {"objects", "fill"}, doc' = doc, ways \subseteq ways'
      PROVE  OnceInv'
  <2>1. OnceInHand(w)'
    BY <1>1, <1>4, IsMoves, EmptyHandedThen
  <2> QED BY <1>1, <1>4, <2>1, MovesKeepOnce
<1>5. ASSUME NEW w \in Workers,
             \/ OpenTypeForm(w) \/ OpenObjectForm(w) \/ StartDeleteTemplate(w) \/ StartDeleteType(w)
             \/ \E S \in SUBSET TemplateFields : StartSaveTemplate(w, S)
             \/ \E o \in Objects : OpenEditForm(w, o)
      PROVE  OnceInv'
  <2>1. PICK r : Start(w, r) /\ r.at \in {"typeForm", "new", "types", "deleteType", "template", "edit"}
    <3>1. CASE OpenTypeForm(w)
      BY <3>1 DEF OpenTypeForm
    <3>2. CASE OpenObjectForm(w)
      BY <3>2 DEF OpenObjectForm
    <3>3. CASE StartDeleteTemplate(w)
      BY <3>3 DEF StartDeleteTemplate
    <3>4. CASE StartDeleteType(w)
      BY <3>4 DEF StartDeleteType
    <3>5. CASE \E S \in SUBSET TemplateFields : StartSaveTemplate(w, S)
      BY <3>5 DEF StartSaveTemplate
    <3>6. CASE \E o \in Objects : OpenEditForm(w, o)
      BY <3>6 DEF OpenEditForm
    <3> QED BY <1>5, <3>1, <3>2, <3>3, <3>4, <3>5, <3>6
  <2> QED BY <1>4, <2>1 DEF Start, db
<1>6. ASSUME NEW w \in Workers,
             \/ \E t \in Changes(req[w].seen, req[w].global) : SaveType(w, t)
             \/ CheckNew(w) \/ Render(w) \/ Validate(w) \/ DropTemplate(w) \/ StartClean(w)
      PROVE  OnceInv'
  <2>1. ReqOK(req[w]) /\ doc' = doc /\ ways' = ways
    BY <1>1, <1>6 DEF SaveType, CheckNew, Render, Validate, DropTemplate, StartClean, db, ReqsOK
  <2>2. PICK r : Is(w, r) /\ r.at \notin {"objects", "fill"}
    <3>1. CASE \E t \in Changes(req[w].seen, req[w].global) : SaveType(w, t)
      BY <3>1, IdleOK DEF SaveType, Done
    <3>2. CASE CheckNew(w)
      BY <2>1, <3>2, IdleOK DEF CheckNew, Done, ReqOK
    <3>3. CASE Render(w)
      BY <3>3, IdleOK DEF Render, Done
    <3>4. CASE Validate(w)
      BY <2>1, <3>4, IdleOK DEF Validate, Done, ReqOK
    <3>5. CASE DropTemplate(w)
      BY <3>5, IdleOK DEF DropTemplate, Done
    <3>6. CASE StartClean(w)
      BY <3>6 DEF StartClean
    <3> QED BY <1>6, <3>1, <3>2, <3>3, <3>4, <3>5, <3>6
  <2> QED BY <1>4, <2>1, <2>2
<1>7. ASSUME NEW w \in Workers,
             WriteType(w) \/ WriteTypeBack(w) \/ WriteTemplate(w) \/ DeleteType(w) \/ FindTypes(w)
      PROVE  OnceInv'
  <2>1. ReqOK(req[w]) /\ doc' = doc
    BY <1>1, <1>7 DEF WriteType, WriteTypeBack, WriteTemplate, DeleteType, FindTypes, db, ReqsOK
  <2>2. ways \subseteq ways'
    BY <1>7 DEF WriteType, WriteTypeBack, WriteTemplate, DeleteType, FindTypes, NoteWrite, Note
  <2>3. PICK r : Is(w, r) /\ r.at \notin {"objects", "fill"}
    <3>1. CASE WriteType(w)
      BY <3>1 DEF WriteType
    <3>2. CASE WriteTypeBack(w)
      BY <3>2, IdleOK DEF WriteTypeBack
    <3>3. CASE WriteTemplate(w)
      BY <2>1, <3>3 DEF WriteTemplate, ReqOK
    <3>4. CASE DeleteType(w)
      BY <3>4, IdleOK DEF DeleteType, Done
    <3>5. CASE FindTypes(w)
      <4>1. TemplateRequest(req[w]).at = "clean" /\ Idle.at = "idle" /\ [at |-> "drop"].at = "drop"
        BY IdleOK DEF TemplateRequest
      <4>2. Is(w, TemplateRequest(req[w])) \/ Is(w, Idle) \/ Is(w, [at |-> "drop"])
        BY <3>5, FindTypesMoves
      <4> QED BY <4>1, <4>2
    <3> QED BY <1>7, <3>1, <3>2, <3>3, <3>4, <3>5
  <2> QED BY <1>4, <2>1, <2>2, <2>3
<1>8. ASSUME NEW w \in Workers, NEW o \in Objects, InsertObject(w, o) PROVE OnceInv'
  BY <1>8, NewDocumentsOnce DEF InsertObject, At, Done
<1>9. ASSUME NEW w \in Workers, WriteEdit(w) PROVE OnceInv'
  <2>1. ReqOK(req[w]) /\ req[w].at = "write" /\ Is(w, Idle)
    BY <1>1, <1>9 DEF WriteEdit, At, ReqsOK, Done
  <2>2. CASE type = Gone
    BY <1>4, <1>9, <2>1, <2>2, IdleOK DEF WriteEdit
  <2>3. CASE type # Gone
    <3>1. req[w].obj \in Objects
      BY <2>1 DEF ReqOK
    <3> QED BY <1>9, <2>1, <2>3, <3>1, NewDocumentsOnce DEF WriteEdit
  <2> QED BY <2>2, <2>3
<1>10. ASSUME NEW w \in Workers, Kill(w) PROVE OnceInv'
  BY <1>1, <1>10, RefusedKeepsOnce DEF Kill, db
<1> QED
  BY <1>2, <1>3, <1>5, <1>6, <1>7, <1>8, <1>9, <1>10,
     ReadsKeepOnce, ReadToAddKeepsOnce, WriteObjectKeepsOnce, PassesKeepOnce DEF Next

-----------------------------------------------------------------------------
\* A deleted type leaves no objects, at rest after a cleaning objects have the
\* fields of their type and no others, and none has a field twice, but for what the
\* histories name: objects inserted while their type is deleted, requests that
\* cross each other, write on stale reads or are halted half way
\* (update_cmdb_type, the section template requests, the clean route).
THEOREM ObjectsFit == Spec => []ObjectsFitType
<1> DEFINE Inv == TypeInv /\ HasTypeInv /\ FitInv /\ OnceInv
<1>1. Init => Inv
  BY TypeInvInit, HasTypeInit, FitInit, OnceInit
<1>2. Inv /\ [Next]_vars => Inv'
  BY TypeInvStep, HasTypeStep, FitStep, OnceStep
<1>3. Inv => ObjectsFitType
  BY HasTypeMeans, FitMeans, OnceMeans DEF ObjectsFitType, Trusted
<1> QED BY <1>1, <1>2, <1>3, PTL DEF Spec

-----------------------------------------------------------------------------
(* The data sets of the section. *)

\* Nothing has been noted that keeps data sets and section apart.
Orderly == type # Gone /\ ways \cap {"stale", "crossed", "halted", "jumbled"} = {}

DataSetsOK == IsData(type.mds) /\ \A o \in Present : IsData(doc[o].mds)
DataFit(o) == Range(doc[o].mds) = Range(type.mds)
AllDataFit == \A o \in Present : DataFit(o)

\* A save of the type owns the data sets from its write of the type on.
DataOwner(v) == req[v].at = "reading" \/ (req[v].at = "objects" /\ req[v].then = "idle")

\* The data sets in the clients' forms and the requests, each field once.
DataHeld(r) ==
  /\ r.at \in {"typeForm", "save"} => IsData(r.seen.mds)
  /\ r.at = "save" => IsData(r.data.mds)
  /\ r.at = "reading" => IsData(r.old) /\ IsData(r.mds)
  /\ r.at \in {"new", "insert", "edit", "validate", "write"} => IsData(r.mds)
  /\ Templating(r) => r.data.mds = r.read.mds

\* How far a save has come with the data sets; other requests leave them alone.
DataProgress(w) ==
  LET r == req[w]
  IN  /\ r.at = "reading" => /\ type.mds = r.mds
                             /\ \A o \in Present : Range(doc[o].mds) = Range(r.old)
      /\ r.at = "objects" /\ r.then = "idle" =>
           \A o \in Present : IF o \in DOMAIN r.docs
                                THEN IsData(r.docs[o].new.mds) /\ Range(r.docs[o].new.mds) = Range(type.mds)
                                ELSE DataFit(o)
      /\ r.at = "objects" /\ r.then # "idle" => \A o \in DOMAIN r.docs : r.docs[o].new.mds = r.docs[o].old.mds

DataInv == Orderly => /\ DataSetsOK
                      /\ AllDataFit \/ \E v \in Workers : DataOwner(v)
                      /\ \A w \in Workers : DataHeld(req[w]) /\ DataProgress(w)

LEMMA DataMeans == DataInv => SectionDataFits
<1> SUFFICES ASSUME DataInv, Rest, Orderly PROVE DataFits
  BY DEF SectionDataFits, Orderly
<1>1. \A v \in Workers : ~DataOwner(v)
  BY DEF Rest, At, DataOwner
<1> QED BY <1>1 DEF DataInv, DataSetsOK, AllDataFit, DataFit, DataFits, IsData

\* A request that is changing nothing has no data sets to care for.
LEMMA DataResting == \A w \in Workers : ~Changing(w) => DataProgress(w) /\ ~DataOwner(w)
  BY DEF Changing, DataProgress, DataOwner

LEMMA DataRestingThen == (\A w \in Workers : ~Changing(w) => DataProgress(w) /\ ~DataOwner(w))'
  BY DataResting, PTL

LEMMA IdleHolds == DataHeld(Idle)
  BY DEF DataHeld, Idle, Templating

\* Changes of fields leave the data set of a document alone.
LEMMA SameData ==
  ASSUME NEW d, IsDoc(d), NEW S
  PROVE  Without(d, S).mds = d.mds /\ Appended(d, S).mds = d.mds /\ AddToSet(d, S).mds = d.mds
<1>1. Without(d, S).mds = d.mds
  BY DEF IsDoc, Without
<1>2. \A T : Appended(d, T).mds = d.mds
  BY DEF IsDoc, Appended
<1>3. AddToSet(d, S).mds = d.mds
  BY <1>2 DEF AddToSet
<1> QED BY <1>1, <1>2, <1>3

LEMMA DataPut ==
  ASSUME NEW d, IsDoc(d), NEW m
  PROVE  [d EXCEPT !.mds = m].mds = m
BY DEF IsDoc

LEMMA ChangesKeepData ==
  ASSUME NEW t \in Types, IsData(t.mds), NEW global, NEW c \in Changes(t, global)
  PROVE  IsData(c.mds)
<1>1. CASE \E S \in SUBSET OwnFields : c = [t EXCEPT !.own = (@ \ OwnFields) \cup S]
  BY <1>1 DEF Types
<1>2. CASE \E s \in {Unused, global} \ {Gone} : c = [t EXCEPT !.section = s]
  BY <1>2 DEF Types
<1>3. CASE \E q \in Remains(t.mds) : c = [t EXCEPT !.mds = q]
  <2>1. PICK S : c = [t EXCEPT !.mds = Kept(t.mds, S)]
    BY <1>3 DEF Remains
  <2>2. IsData(Kept(t.mds, S))
    BY KeptParts DEF IsData
  <2>3. c.mds = Kept(t.mds, S)
    BY <2>1 DEF Types
  <2> QED BY <2>2, <2>3
<1>4. CASE \E f \in DataFields \ Range(t.mds) : c = [t EXCEPT !.mds = <<f>> \o @]
  <2>1. PICK f \in DataFields \ Range(t.mds) : c = [t EXCEPT !.mds = <<f>> \o @]
    BY <1>4
  <2>2. c.mds = <<f>> \o t.mds
    BY <2>1 DEF Types
  <2>3. <<f>> \in Seq(DataFields) /\ Len(<<f>>) = 1 /\ DOMAIN <<f>> = 1..1
    OBVIOUS
  <2>4. IsData(<<f>>) /\ Range(<<f>>) = {f}
    <3>1. \A i, j \in 1..1 : i = j
      OBVIOUS
    <3>2. <<f>>[1] = f /\ 1..1 = {1}
      OBVIOUS
    <3> QED BY <2>3, <3>1, <3>2 DEF IsData, IsInjective, Range
  <2> QED BY <2>2, <2>4, Appending
<1> QED BY <1>1, <1>2, <1>3, <1>4 DEF Changes

LEMMA DataInit == Init => DataInv
<1> SUFFICES ASSUME Init PROVE DataInv
  OBVIOUS
<1>1. IsData(type.mds)
  <2>1. type \in Types /\ IsInjective(type.mds)
    BY TypeInvInit DEF Init
  <2> QED BY <2>1 DEF IsData, Types
<1>2. ASSUME NEW o \in Present PROVE IsData(doc[o].mds) /\ DataFit(o)
  <2>1. PICK own \in SUBSET OwnFields :
          doc \in [Objects -> {Gone} \cup [fields : {Typed(own \cup SectionOf(type))}, mds : SetToSeqs(Range(type.mds))]]
    BY DEF Init
  <2>2. doc[o].mds \in SetToSeqs(Range(type.mds))
    BY <2>1 DEF Present
  <2> QED BY <1>1, <2>2, ReorderedData DEF DataFit
<1>3. \A w \in Workers : DataHeld(req[w]) /\ DataProgress(w)
  BY IdleHolds, DataResting DEF Init, Changing, Idle
<1> QED BY <1>1, <1>2, <1>3 DEF DataInv, DataSetsOK, AllDataFit

\* What one worker's save keeps to, it keeps to while another takes a step that
\* does not touch the documents, or only deletes some.
LEMMA DataOthersKeep ==
  ASSUME NEW v \in Workers, req'[v] = req[v], type' = type,
         \A o \in Present' : o \in Present /\ doc'[o] = doc[o],
         DataProgress(v)
  PROVE  DataProgress(v)'
BY DEF DataProgress, DataFit

\* Steps of one worker that touch no document and not the type.
LEMMA MovesKeepData ==
  ASSUME ReqsOK, DataInv, NEW w \in Workers, NEW r, Is(w, r),
         type' = type, doc' = doc, ways \subseteq ways',
         Orderly /\ Orderly' => DataHeld(r) /\ DataProgress(w)' /\ (DataOwner(w) => DataOwner(w)' \/ AllDataFit)
  PROVE  DataInv'
<1> SUFFICES ASSUME Orderly'
             PROVE  /\ DataSetsOK' /\ (AllDataFit \/ \E v \in Workers : DataOwner(v))'
                    /\ \A v \in Workers : DataHeld(req'[v]) /\ DataProgress(v)'
  BY DEF DataInv, DataHeld, Templating
<1>1. Orderly
  BY DEF Orderly
<1>2. DataSetsOK' /\ (AllDataFit => AllDataFit')
  BY <1>1 DEF DataInv, DataSetsOK, AllDataFit, DataFit, Present
<1>3. req'[w] = r /\ \A v \in Workers : v # w => req'[v] = req[v]
  BY IsMoves
<1>4. \A v \in Workers : v # w => DataOwner(v)' = DataOwner(v)
  BY <1>3 DEF DataOwner
<1>5. (AllDataFit \/ \E v \in Workers : DataOwner(v))'
  BY <1>1, <1>2, <1>4 DEF DataInv
<1>6. ASSUME NEW v \in Workers PROVE DataHeld(req'[v]) /\ DataProgress(v)'
  <2>1. CASE v = w
    BY <1>1, <1>3, <2>1
  <2>2. CASE v # w
    <3>1. \A o \in Present' : o \in Present /\ doc'[o] = doc[o]
      BY DEF Present
    <3> QED BY <1>1, <1>3, <2>2, <3>1, DataOthersKeep DEF DataInv
  <2> QED BY <2>1, <2>2
<1> QED BY <1>2, <1>5, <1>6

\* Steps of a request that is changing nothing, before or after.
LEMMA CalmKeepsData ==
  ASSUME ReqsOK, DataInv, NEW w \in Workers, NEW r, Is(w, r),
         type' = type, doc' = doc, ways \subseteq ways', ~Changing(w)', ~DataOwner(w),
         Orderly => DataHeld(r)
  PROVE  DataInv'
<1>1. DataProgress(w)'
  BY DataRestingThen
<1> QED BY <1>1, MovesKeepData

LEMMA WriteKeepsData ==
  ASSUME ReqsOK, DataInv, NEW w \in Workers, NEW r, Is(w, r), NEW S, NoteWrite(w, S),
         Orderly' => /\ Orderly /\ DataSetsOK' /\ (AllDataFit \/ DataOwner(w))'
                     /\ DataHeld(r) /\ DataProgress(w)'
  PROVE  DataInv'
<1> SUFFICES ASSUME Orderly'
             PROVE  /\ DataSetsOK' /\ (AllDataFit \/ \E v \in Workers : DataOwner(v))'
                    /\ \A v \in Workers : DataHeld(req'[v]) /\ DataProgress(v)'
  BY DEF DataInv, DataHeld, Templating
<1>1. req'[w] = r
  BY IsMoves
<1>2. ASSUME NEW v \in Workers PROVE DataHeld(req'[v]) /\ DataProgress(v)'
  <2>1. CASE v = w
    BY <1>1, <2>1
  <2>2. CASE v # w
    <3>1. req'[v] = req[v] /\ ~Changing(v)'
      BY <2>2, WritesAlone DEF Orderly
    <3> QED BY <3>1, DataRestingThen DEF DataInv
  <2> QED BY <2>1, <2>2
<1> QED BY <1>2

\* What a writer may rely on: it is alone, and the data sets fit but for itself.
LEMMA DataWriterKnows ==
  ASSUME ReqsOK, DataInv, NEW w \in Workers, NEW r, Is(w, r), NEW S, NoteWrite(w, S), type # Gone, Orderly'
  PROVE  /\ Orderly /\ "stale" \notin S /\ DataSetsOK
         /\ AllDataFit \/ DataOwner(w)
         /\ DataHeld(req[w]) /\ DataProgress(w)
<1>1. /\ ways \subseteq ways' /\ S \subseteq ways'
      /\ \A v \in Workers \ {w} : ~Changing(v)
  BY WritesAlone DEF Orderly
<1>2. Orderly /\ "stale" \notin S
  BY <1>1 DEF Orderly
<1>3. \A v \in Workers \ {w} : ~DataOwner(v)
  BY <1>1, DataResting
<1> QED BY <1>2, <1>3 DEF DataInv

LEMMA RefusedKeepsData ==
  ASSUME ReqsOK, DataInv, NEW w \in Workers, Refused(w), type' = type, doc' = doc
  PROVE  DataInv'
<1>1. CASE Changing(w)
  <2>1. "halted" \in ways'
    BY <1>1 DEF Refused, Note, When
  <2> QED BY <2>1 DEF DataInv, Orderly
<1>2. CASE ~Changing(w)
  <2>1. Is(w, Idle) /\ ways \subseteq ways'
    BY DEF Refused, Done, Note
  <2>2. ~Changing(w)' /\ ~DataOwner(w)
    BY <1>2, <2>1, IsMoves, IdleOK, DataResting DEF Changing
  <2> QED BY <2>1, <2>2, IdleHolds, CalmKeepsData
<1> QED BY <1>1, <1>2

\* Saves of the type, and the last write of a template's.
LEMMA TypeWritesKeepData ==
  ASSUME TypeInv, DataInv, NEW w \in Workers, WriteType(w) \/ WriteTypeBack(w)
  PROVE  DataInv'
<1> DEFINE r == req[w]
<1>1. ReqsOK /\ ReqOK(r) /\ doc' = doc /\ Present' = Present
  BY DEF TypeInv, ReqsOK, WriteType, WriteTypeBack, Present
<1>2. CASE WriteType(w)
  <2> DEFINE q == [at |-> "reading", old |-> r.old.mds, mds |-> r.data.mds, docs |-> <<>>, then |-> "idle"]
             S == When({type, r.old} # {r.seen} \/ template # r.global, "stale")
                    \cup When(type # Gone /\ FieldsOf(type) # FieldsOf(r.data), "saved")
  <2>1. r.at = "save" /\ type' = r.data /\ Is(w, q) /\ NoteWrite(w, S)
    BY <1>2 DEF WriteType, At
  <2>2. req'[w] = q
    BY <1>1, <2>1, IsMoves
  <2>3. ASSUME Orderly' PROVE /\ Orderly /\ DataSetsOK' /\ (AllDataFit \/ DataOwner(w))'
                              /\ DataHeld(q) /\ DataProgress(w)'
    <3>1. type = r.seen /\ r.old = r.seen
      <4>1. S \subseteq ways'
        BY <1>1, <2>1, WritesAlone
      <4> QED BY <2>3, <4>1 DEF Orderly, When
    <3>2. type # Gone
      BY <1>1, <2>1, <3>1, SentinelsAssumption DEF ReqOK
    <3>3. Orderly /\ DataSetsOK /\ AllDataFit /\ DataHeld(r)
      <4>1. ~DataOwner(w)
        BY <2>1 DEF DataOwner
      <4> QED BY <1>1, <2>1, <2>3, <3>2, <4>1, DataWriterKnows
    <3>4. IsData(r.data.mds) /\ IsData(r.old.mds)
      BY <2>1, <3>1, <3>3 DEF DataHeld
    <3>5. DataSetsOK'
      BY <1>1, <2>1, <3>3, <3>4 DEF DataSetsOK
    <3>6. DataOwner(w)' /\ DataHeld(q)
      BY <2>2, <3>4 DEF DataOwner, DataHeld, Templating
    <3>7. DataProgress(w)'
      BY <1>1, <2>1, <2>2, <3>1, <3>3 DEF DataProgress, AllDataFit, DataFit
    <3> QED BY <3>3, <3>5, <3>6, <3>7
  <2> QED BY <1>1, <2>1, <2>3, WriteKeepsData
<1>3. CASE WriteTypeBack(w)
  <2> DEFINE q == IF r.kind = "save" THEN Idle ELSE [at |-> "drop"]
             S == When(type # r.read, "stale")
  <2>1. r.at = "back" /\ type' = r.data /\ Is(w, q) /\ NoteWrite(w, S)
    BY <1>3 DEF WriteTypeBack, At
  <2>2. ~Changing(w)' /\ DataHeld(q)
    BY <1>1, <2>1, IsMoves, IdleOK, IdleHolds DEF Changing, DataHeld, Templating
  <2>3. ASSUME Orderly' PROVE Orderly /\ DataSetsOK' /\ AllDataFit'
    <3>1. type = r.read
      <4>1. S \subseteq ways'
        BY <1>1, <2>1, WritesAlone
      <4> QED BY <2>3, <4>1 DEF Orderly, When
    <3>2. type # Gone
      BY <1>1, <2>1, <3>1, SentinelsAssumption DEF ReqOK, Templating, TemplateReqOK
    <3>3. Orderly /\ DataSetsOK /\ AllDataFit /\ DataHeld(r)
      <4>1. ~DataOwner(w)
        BY <2>1 DEF DataOwner
      <4> QED BY <1>1, <2>1, <2>3, <3>2, <4>1, DataWriterKnows
    <3>4. type'.mds = type.mds
      BY <2>1, <3>1, <3>3 DEF DataHeld, Templating
    <3> QED BY <1>1, <3>3, <3>4 DEF DataSetsOK, AllDataFit, DataFit
  <2>4. DataProgress(w)'
    BY <2>2, DataRestingThen
  <2> QED BY <1>1, <2>1, <2>2, <2>3, <2>4, WriteKeepsData
<1> QED BY <1>2, <1>3

\* The look at the objects that brings their data sets in line with the section.
LEMMA ReadObjectsKeepsData ==
  ASSUME TypeInv, DataInv, NEW w \in Workers, ReadObjects(w)
  PROVE  DataInv'
<1> DEFINE r == [req[w] EXCEPT !.old = <<>>, !.mds = <<>>]
           docs == [o \in Present |-> [old |-> doc[o],
                      new |-> [doc[o] EXCEPT !.mds = DataUpdated(doc[o].mds, req[w].old, req[w].mds)]]]
           h == Hand(r, docs, "idle")
<1>1. /\ req[w].at = "reading" /\ ReqOK(req[w]) /\ type' = type /\ doc' = doc /\ ReqsOK /\ DocsOK
  BY DEF ReadObjects, At, TypeInv, ReqsOK, db
<1>2. CASE Refused(w)
  BY <1>1, <1>2, RefusedKeepsData
<1>3. CASE ~Refused(w)
  <2>1. /\ Is(w, h)
        /\ Note(When(\E o \in Present : ~InOrder(doc[o].mds, FieldsDiff(req[w].old, req[w].mds)), "jumbled"))
    <3>1. Is(w, h)
      BY <1>3, ReadObjectsHands
    <3> QED BY <1>3, <3>1 DEF ReadObjects
  <2>2. req'[w] = h
    BY <1>1, <2>1, IsMoves
  <2>3. /\ DOMAIN docs = Present
        /\ \A o \in Present : docs[o].new.mds = DataUpdated(doc[o].mds, req[w].old, req[w].mds)
    <3>1. SUFFICES ASSUME NEW o \in Present
                   PROVE  [doc[o] EXCEPT !.mds = DataUpdated(doc[o].mds, req[w].old, req[w].mds)].mds
                            = DataUpdated(doc[o].mds, req[w].old, req[w].mds)
      OBVIOUS
    <3>2. IsDoc(doc[o])
      BY <1>1 DEF DocsOK, Present
    <3> QED BY <3>2, DataPut
  <2>4. {"at", "docs", "then"} \subseteq DOMAIN r
    BY <1>1 DEF ReqOK
  <2>5. ways \subseteq ways'
    BY <2>1 DEF Note
  <2> HIDE DEF docs, r
  <2>6. \/ Present # {} /\ h.at = "objects" /\ h.docs = docs /\ h.then = "idle"
        \/ Present = {} /\ h = Idle
    BY <2>3, <2>4, HandCases
  <2> HIDE DEF h
  <2>7. ASSUME Orderly, Orderly' PROVE DataHeld(h) /\ DataProgress(w)' /\ (DataOwner(w)' \/ AllDataFit)
    <3>1. DataHeld(h)
      BY <2>6, IdleHolds DEF DataHeld, Templating
    <3>2. CASE Present = {}
      BY <1>1, <2>2, <2>6, <3>1, <3>2, IdleOK DEF DataProgress, AllDataFit
    <3>3. CASE Present # {}
      <4>1. h.at = "objects" /\ h.docs = docs /\ h.then = "idle"
        BY <2>6, <3>3
      <4>2. /\ DataSetsOK /\ type.mds = req[w].mds /\ \A o \in Present : Range(doc[o].mds) = Range(req[w].old)
            /\ IsData(req[w].old) /\ IsData(req[w].mds)
        BY <1>1, <2>7 DEF DataInv, DataProgress, DataHeld
      <4>3. \A o \in Present : InOrder(doc[o].mds, FieldsDiff(req[w].old, req[w].mds))
        BY <2>1, <2>7 DEF Note, When, Orderly
      <4>4. \A o \in Present : IsData(docs[o].new.mds) /\ Range(docs[o].new.mds) = Range(type.mds)
        BY <2>3, <4>2, <4>3, UpdatedData DEF DataSetsOK
      <4>5. DataOwner(w)'
        BY <2>2, <4>1 DEF DataOwner
      <4>6. Present' = Present
        BY <1>1 DEF Present
      <4>7. DataProgress(w)'
        BY <1>1, <2>2, <2>3, <4>1, <4>4, <4>6 DEF DataProgress
      <4> QED BY <3>1, <4>5, <4>7
    <3> QED BY <3>2, <3>3
  <2> QED BY <1>1, <2>1, <2>5, <2>7, MovesKeepData
<1> QED BY <1>2, <1>3

\* The looks of a template's changes, which leave the data sets as they are.
LEMMA HandingKeepsData ==
  ASSUME ReqsOK, DataInv, NEW w \in Workers, TemplateReqOK(req[w]), Templating(req[w]), "at" \in DOMAIN req[w],
         NEW docs, \A o \in DOMAIN docs : docs[o].new.mds = docs[o].old.mds,
         NEW then \in {"add", "back"},
         Is(w, Hand(req[w], docs, then)),
         type' = type, doc' = doc, ways \subseteq ways', ~DataOwner(w)
  PROVE  DataInv'
<1> DEFINE h == Hand(req[w], docs, then)
<1>1. req'[w] = h
  BY IsMoves
<1>2. {"at", "docs", "then"} \subseteq DOMAIN req[w]
  BY DEF TemplateReqOK
<1>3. (h.at = "objects" /\ h.docs = docs /\ h.then = then) \/ h.at = then
  BY <1>2, HandCases
<1>4. h # Idle
  BY <1>3, IdleOK
<1>5. h.read = req[w].read /\ h.data = req[w].data
  BY <1>4, HandKeepsTemplate
<1> HIDE DEF h
<1>6. Orderly => DataHeld(h)
  <2>1. Orderly => req[w].data.mds = req[w].read.mds
    BY DEF DataInv, DataHeld
  <2> QED BY <1>3, <1>5, <2>1 DEF DataHeld
<1>7. DataProgress(w)'
  BY <1>1, <1>3 DEF DataProgress
<1> QED BY <1>6, <1>7, MovesKeepData DEF h

LEMMA TemplateLooksKeepData ==
  ASSUME TypeInv, DataInv, NEW w \in Workers, ReadToClean(w) \/ ReadToAdd(w)
  PROVE  DataInv'
<1>1. /\ ReqsOK /\ DocsOK /\ ReqOK(req[w]) /\ req[w].at \in {"clean", "add"} /\ type' = type /\ doc' = doc
      /\ ways \subseteq ways'
  BY DEF TypeInv, ReqsOK, ReadToClean, ReadToAdd, At, Note, db
<1>2. TemplateReqOK(req[w]) /\ Templating(req[w]) /\ "at" \in DOMAIN req[w] /\ ~DataOwner(w)
  BY <1>1 DEF ReqOK, Templating, DataOwner
<1>3. \A o \in Present : IsDoc(doc[o])
  BY <1>1 DEF DocsOK, Present
<1>4. CASE ReadToClean(w)
  <2> DEFINE docs == [o \in Present |-> [old |-> doc[o], new |-> Without(doc[o], req[w].removed)]]
             then == IF req[w].kind = "save" THEN "add" ELSE "back"
  <2>1. Is(w, Hand(req[w], docs, then))
    BY <1>4, ReadToCleanHands
  <2>2. \A o \in DOMAIN docs : docs[o].new.mds = docs[o].old.mds
    BY <1>3, SameData
  <2>3. then \in {"add", "back"}
    OBVIOUS
  <2> HIDE DEF docs, then
  <2> QED BY <1>1, <1>2, <2>1, <2>2, <2>3, HandingKeepsData
<1>5. CASE ReadToAdd(w)
  <2> DEFINE docs == [o \in Present |-> [old |-> doc[o], new |-> Appended(doc[o], req[w].added)]]
  <2>1. Is(w, Hand(req[w], docs, "back"))
    BY <1>5, ReadToAddHands
  <2>2. \A o \in DOMAIN docs : docs[o].new.mds = docs[o].old.mds
    BY <1>3, SameData
  <2> HIDE DEF docs
  <2> QED BY <1>1, <1>2, <2>1, <2>2, HandingKeepsData
<1> QED BY <1>4, <1>5

\* The writes of one object after the other.
LEMMA WriteObjectKeepsData ==
  ASSUME TypeInv, DataInv, NEW w \in Workers, NEW o \in Objects, WriteObject(w, o)
  PROVE  DataInv'
<1> DEFINE r == req[w]
           rest == [x \in DOMAIN r.docs \ {o} |-> r.docs[x]]
           h == Hand(r, rest, r.then)
           S == When(doc[o] # r.docs[o].old, "stale")
<1>1. /\ r.at = "objects" /\ ReqOK(r) /\ type' = type /\ ReqsOK /\ DocsOK /\ o \in DOMAIN r.docs
  BY WriteObjectMoves DEF TypeInv, ReqsOK
<1>2. CASE type = Gone
  BY <1>1, <1>2 DEF DataInv, Orderly
<1>3. CASE type # Gone
  <2>1. /\ doc' = [doc EXCEPT ![o] = r.docs[o].new]
        /\ Is(w, h) /\ NoteWrite(w, S)
    BY <1>3, WriteObjectMoves
  <2>2. req'[w] = h
    BY <1>1, <2>1, IsMoves
  <2>3. doc'[o] = r.docs[o].new /\ \A p \in Objects \ {o} : doc'[p] = doc[p]
    BY <1>1, <2>1 DEF DocsOK
  <2>4. /\ {"at", "docs", "then"} \subseteq DOMAIN r /\ r.then \in {"idle", "add", "back"}
        /\ r.docs[o].old # Gone
    BY <1>1 DEF ReqOK, HandOK
  <2>5. /\ DOMAIN rest = DOMAIN r.docs \ {o}
        /\ \A p \in DOMAIN rest : rest[p] = r.docs[p]
    OBVIOUS
  <2> HIDE DEF rest
  <2>6. \/ /\ DOMAIN rest # {}
           /\ h.at = "objects" /\ h.docs = rest /\ h.then = r.then
        \/ DOMAIN rest = {} /\ r.then = "idle" /\ h = Idle
        \/ DOMAIN rest = {} /\ r.then # "idle" /\ h.at = r.then
    BY <2>4, HandCases
  <2>7. r.then # "idle" => Templating(r) /\ TemplateReqOK(r)
    BY <1>1 DEF ReqOK, Templating
  <2>8. r.then # "idle" /\ h # Idle => h.read = r.read /\ h.data = r.data
    BY <2>4, <2>7, HandKeepsTemplate
  <2> HIDE DEF h
  <2>9. ASSUME Orderly'
        PROVE  /\ Orderly /\ DataSetsOK' /\ (AllDataFit \/ DataOwner(w))'
               /\ DataHeld(h) /\ DataProgress(w)'
    <3>1. /\ Orderly /\ doc[o] = r.docs[o].old /\ DataSetsOK
          /\ AllDataFit \/ DataOwner(w)
          /\ DataHeld(r) /\ DataProgress(w)
      <4>1. /\ Orderly /\ "stale" \notin S /\ DataSetsOK
            /\ AllDataFit \/ DataOwner(w)
            /\ DataHeld(r) /\ DataProgress(w)
        BY <1>1, <1>3, <2>1, <2>9, DataWriterKnows
      <4> QED BY <4>1 DEF When
    <3>2. o \in Present
      BY <2>4, <3>1 DEF Present
    <3>3. ASSUME NEW p \in Present' PROVE p \in Present /\ (p # o => doc'[p] = doc[p])
      BY <2>3, <3>2 DEF Present
    <3>4. CASE r.then = "idle"
      <4>1. \A p \in Present : IF p \in DOMAIN r.docs
                                 THEN IsData(r.docs[p].new.mds) /\ Range(r.docs[p].new.mds) = Range(type.mds)
                                 ELSE DataFit(p)
        BY <1>1, <3>1, <3>4 DEF DataProgress
      <4>2. IsData(doc'[o].mds) /\ Range(doc'[o].mds) = Range(type.mds)
        BY <1>1, <2>3, <3>2, <4>1
      <4>3. DataSetsOK'
        BY <1>1, <3>1, <3>3, <4>2 DEF DataSetsOK
      <4>4. \A p \in Present' : p \in DOMAIN rest \/ Range(doc'[p].mds) = Range(type.mds)
        BY <2>5, <3>3, <4>1, <4>2 DEF DataFit
      <4>5. CASE DOMAIN rest # {}
        <5>1. h.at = "objects" /\ h.docs = rest /\ h.then = "idle"
          BY <2>6, <3>4, <4>5
        <5>2. DataOwner(w)' /\ DataHeld(h)
          BY <2>2, <5>1 DEF DataOwner, DataHeld, Templating
        <5>3. \A p \in Present' : p \in DOMAIN rest =>
                IsData(rest[p].new.mds) /\ Range(rest[p].new.mds) = Range(type.mds)
          BY <2>5, <3>3, <4>1
        <5>4. DataProgress(w)'
          BY <1>1, <2>2, <4>4, <5>1, <5>3 DEF DataProgress, DataFit
        <5> QED BY <3>1, <4>3, <5>2, <5>4
      <4>6. CASE DOMAIN rest = {}
        <5>1. h = Idle /\ ~Changing(w)'
          BY <2>2, <2>6, <3>4, <4>6, IdleOK DEF Changing
        <5>2. AllDataFit'
          BY <1>1, <4>4, <4>6 DEF AllDataFit, DataFit
        <5> QED BY <3>1, <4>3, <5>1, <5>2, IdleHolds, DataRestingThen
      <4> QED BY <4>5, <4>6
    <3>5. CASE r.then # "idle"
      <4>1. /\ \A p \in DOMAIN r.docs : r.docs[p].new.mds = r.docs[p].old.mds
            /\ ~DataOwner(w) /\ r.data.mds = r.read.mds
        BY <1>1, <2>7, <3>1, <3>5 DEF DataProgress, DataOwner, DataHeld
      <4>2. \A p \in Present' : p \in Present /\ doc'[p].mds = doc[p].mds
        BY <1>1, <2>3, <3>1, <3>3, <4>1
      <4>3. DataSetsOK' /\ AllDataFit'
        BY <1>1, <3>1, <4>1, <4>2 DEF DataSetsOK, AllDataFit, DataFit
      <4>4. (h.at = "objects" /\ h.docs = rest /\ h.then = r.then) \/ (h.at = r.then /\ h.at \in {"add", "back"})
        BY <2>4, <2>6, <3>5
      <4>5. h # Idle
        BY <4>4, IdleOK
      <4>6. DataHeld(h)
        BY <2>8, <3>5, <4>1, <4>4, <4>5 DEF DataHeld
      <4>7. DataProgress(w)'
        BY <2>2, <2>5, <3>5, <4>1, <4>4 DEF DataProgress
      <4> QED BY <3>1, <4>3, <4>6, <4>7
    <3> QED BY <3>4, <3>5
  <2> QED BY <1>1, <2>1, <2>9, WriteKeepsData
<1> QED BY <1>2, <1>3

\* Cleaning: the writes are of fields.
LEMMA WritesOfKeepData ==
  ASSUME TypeInv, DataInv, NEW w \in Workers, req[w].at \in {"pull", "fill"}, type' = type,
         \/ WritesOf(w, LAMBDA d, f : Without(d, {f}))
         \/ WritesOf(w, LAMBDA d, f : AddToSet(d, f))
  PROVE  DataInv'
<1> DEFINE r == req[w]
<1>1. ReqOK(r) /\ ReqsOK /\ DocsOK
  BY DEF TypeInv, ReqsOK
<1>2. PICK x \in r.todo :
        /\ \/ doc' = doc
           \/ /\ doc[x[1]] # Gone
              /\ \/ doc' = [doc EXCEPT ![x[1]] = Without(doc[x[1]], {x[2]})]
                 \/ doc' = [doc EXCEPT ![x[1]] = AddToSet(doc[x[1]], x[2])]
        /\ Is(w, [r EXCEPT !.todo = @ \ {x}])
        /\ NoteWrite(w, When(type = Gone \/ FieldsOf(type) # r.fields, "stale"))
  BY WritesOne
<1> DEFINE q == [r EXCEPT !.todo = @ \ {x}]
<1>3. q.at = r.at
  BY <1>1 DEF ReqOK
<1>4. x[1] \in Objects
  BY <1>1, <1>2, PairsHaveParts DEF ReqOK
<1>5. ASSUME NEW o \in Present' PROVE o \in Present /\ doc'[o].mds = doc[o].mds
  <2>1. CASE doc' = doc
    BY <2>1 DEF Present
  <2>2. CASE doc' # doc
    <3>1. /\ doc[x[1]] # Gone /\ IsDoc(doc[x[1]])
          /\ \A p \in Objects \ {x[1]} : doc'[p] = doc[p]
          /\ doc'[x[1]] \in {Without(doc[x[1]], {x[2]}), AddToSet(doc[x[1]], x[2])}
      BY <1>1, <1>2, <1>4, <2>2 DEF DocsOK
    <3>2. doc'[x[1]].mds = doc[x[1]].mds
      <4>1. Without(doc[x[1]], {x[2]}).mds = doc[x[1]].mds
        BY <3>1, SameData
      <4>2. AddToSet(doc[x[1]], x[2]).mds = doc[x[1]].mds
        BY <3>1, SameData
      <4> QED BY <3>1, <4>1, <4>2
    <3> QED BY <1>4, <3>1, <3>2 DEF Present
  <2> QED BY <2>1, <2>2
<1> HIDE DEF q
<1>6. ASSUME Orderly' PROVE Orderly /\ DataSetsOK' /\ AllDataFit'
  <2>1. type # Gone
    BY <1>6 DEF Orderly
  <2>2. Orderly /\ DataSetsOK /\ AllDataFit
    <3>1. ~DataOwner(w)
      BY DEF DataOwner
    <3> QED BY <1>1, <1>2, <1>6, <2>1, <3>1, DataWriterKnows
  <2> QED BY <1>5, <2>2 DEF DataSetsOK, AllDataFit, DataFit
<1>7. DataHeld(q)
  BY <1>3 DEF DataHeld, Templating
<1>8. DataProgress(w)'
  <2>1. req'[w] = q
    BY <1>1, <1>2, IsMoves DEF q
  <2> QED BY <1>3, <2>1 DEF DataProgress
<1> QED BY <1>1, <1>2, <1>6, <1>7, <1>8, WriteKeepsData DEF q

LEMMA PassesKeepData ==
  ASSUME TypeInv, DataInv, NEW w \in Workers, Sweep(w) \/ Pull(w) \/ Fill(w)
  PROVE  DataInv'
<1>1. ReqsOK /\ ReqOK(req[w]) /\ type' = type
  BY PullMoves, FillMoves DEF TypeInv, ReqsOK, Sweep, db
<1>2. ASSUME NEW r, Is(w, r), r.at \in {"pull", "fill", "idle"}, UNCHANGED <<doc, ways, since>>, ~DataOwner(w) PROVE DataInv'
  <2>1. DataHeld(r)
    BY <1>2 DEF DataHeld, Templating
  <2>2. DataProgress(w)'
    BY <1>1, <1>2, IsMoves DEF DataProgress
  <2> QED BY <1>1, <1>2, <2>1, <2>2, MovesKeepData
<1>3. CASE Sweep(w)
  BY <1>2, <1>3 DEF Sweep, At, DataOwner, db
<1>4. CASE Pull(w)
  <2> DEFINE r == [req[w] EXCEPT !.at = "fill", !.todo = {x \in Present \X Fields : x[2] \in Lacking(doc[x[1]], req[w].fields)}]
  <2>1. req[w].at = "pull" /\ r.at = "fill" /\ ~DataOwner(w)
    BY <1>1, <1>4, PullMoves DEF ReqOK, DataOwner
  <2> QED BY <1>1, <1>2, <1>4, <2>1, PullMoves, WritesOfKeepData
<1>5. CASE Fill(w)
  <2>1. req[w].at = "fill" /\ ~DataOwner(w)
    BY <1>5, FillMoves DEF DataOwner
  <2> QED BY <1>1, <1>2, <1>5, <2>1, FillMoves, WritesOfKeepData, IdleOK
<1> QED BY <1>3, <1>4, <1>5

\* Objects are inserted and edited with the fields of the section, or it is noted.
LEMMA NewDocumentsKeepData ==
  ASSUME TypeInv, DataInv, NEW w \in Workers, NEW o \in Objects,
         req[w].at \in {"insert", "write"}, type' = type, Is(w, Idle),
         doc' = [doc EXCEPT ![o] = Document(req[w])],
         NoteWrite(w, Outdated(req[w]))
  PROVE  DataInv'
<1> DEFINE r == req[w]
<1>1. ReqsOK /\ ReqOK(r) /\ DocsOK
  BY DEF TypeInv, ReqsOK
<1>2. ~Changing(w)' /\ ~DataOwner(w)
  BY <1>1, IsMoves, IdleOK DEF Changing, DataOwner
<1>3. ASSUME Orderly' PROVE Orderly /\ DataSetsOK' /\ AllDataFit'
  <2>1. type # Gone
    BY <1>3 DEF Orderly
  <2>2. Orderly /\ DataSetsOK /\ AllDataFit /\ DataHeld(r) /\ "stale" \notin Outdated(r)
    BY <1>1, <1>2, <1>3, <2>1, DataWriterKnows
  <2>3. IsData(r.mds) /\ Range(r.mds) = Range(type.mds)
    BY <2>1, <2>2 DEF Outdated, When, DataHeld
  <2>4. doc'[o].mds = r.mds /\ \A p \in Objects \ {o} : doc'[p] = doc[p]
    BY <1>1 DEF DocsOK, Document
  <2> QED BY <2>2, <2>3, <2>4 DEF DataSetsOK, AllDataFit, DataFit, Present
<1> QED BY <1>1, <1>2, <1>3, IdleHolds, DataRestingThen, WriteKeepsData

LEMMA DataStep == TypeInv /\ DataInv /\ [Next]_vars => DataInv'
<1> SUFFICES ASSUME TypeInv, DataInv, [Next]_vars PROVE DataInv'
  OBVIOUS
<1>1. ReqsOK /\ DocsOK
  BY DEF TypeInv
<1>2. ASSUME req' = req, type' = type, ways' = ways,
             \A o \in Present' : o \in Present /\ doc'[o] = doc[o]
      PROVE  DataInv'
  <2>1. \A v \in Workers : DataOwner(v)' = DataOwner(v) /\ DataHeld(req[v])' = DataHeld(req[v])
    BY <1>2 DEF DataOwner, DataHeld, Templating
  <2>2. DataSetsOK => DataSetsOK'
    BY <1>2 DEF DataSetsOK
  <2>3. AllDataFit => AllDataFit'
    BY <1>2 DEF AllDataFit, DataFit
  <2>4. ASSUME NEW v \in Workers, DataProgress(v) PROVE DataProgress(v)'
    BY <1>2, <2>4, DataOthersKeep
  <2> QED BY <1>2, <2>1, <2>2, <2>3, <2>4 DEF DataInv, Orderly
<1>3. CASE UNCHANGED vars
  BY <1>2, <1>3 DEF vars, db, Present
<1>4. CASE \E o \in Objects : DeleteObject(o)
  <2>1. PICK o \in Objects : DeleteObject(o)
    BY <1>4
  <2>2. \A p \in Present' : p \in Present /\ doc'[p] = doc[p]
    BY <1>1, <2>1 DEF DeleteObject, Present, DocsOK
  <2> QED BY <1>2, <2>1, <2>2 DEF DeleteObject
\* Moves of a request that is changing nothing, to where it is not either.
<1>5. ASSUME NEW w \in Workers, NEW r, Is(w, r), type' = type, doc' = doc, ways \subseteq ways', ~Changing(w),
             r.at \in {"idle", "typeForm", "save", "template", "types", "drop", "new", "insert", "edit", "validate",
                       "write", "deleteType"},
             Orderly => DataHeld(r)
      PROVE  DataInv'
  <2>1. ~Changing(w)' /\ ~DataOwner(w)
    BY <1>1, <1>5, IsMoves, DataResting DEF Changing
  <2> QED BY <1>1, <1>5, <2>1, CalmKeepsData
<1>6. ASSUME NEW w \in Workers, NEW r, Start(w, r),
             r.at \in {"typeForm", "new", "types", "deleteType", "template", "edit"},
             Orderly => DataHeld(r)
      PROVE  DataInv'
  BY <1>5, <1>6 DEF Start, At, Changing, db
<1>7. ASSUME NEW w \in Workers,
             \/ OpenTypeForm(w) \/ OpenObjectForm(w) \/ StartDeleteTemplate(w) \/ StartDeleteType(w)
             \/ \E S \in SUBSET TemplateFields : StartSaveTemplate(w, S)
             \/ \E o \in Objects : OpenEditForm(w, o)
      PROVE  DataInv'
  <2>1. CASE OpenTypeForm(w)
    <3>1. Orderly => DataHeld([at |-> "typeForm", seen |-> type, global |-> template])
      BY DEF DataInv, DataSetsOK, DataHeld, Templating
    <3> QED BY <1>6, <2>1, <3>1 DEF OpenTypeForm
  <2>2. CASE OpenObjectForm(w)
    <3>1. Orderly => DataHeld([at |-> "new", names |-> Rendered(type), mds |-> type.mds])
      BY DEF DataInv, DataSetsOK, DataHeld, Templating
    <3> QED BY <1>6, <2>2, <3>1 DEF OpenObjectForm
  <2>3. CASE StartDeleteTemplate(w)
    <3>1. DataHeld([at |-> "types", kind |-> "delete", old |-> template, new |-> {}])
      BY DEF DataHeld, Templating
    <3> QED BY <1>6, <2>3, <3>1 DEF StartDeleteTemplate
  <2>4. CASE StartDeleteType(w)
    <3>1. DataHeld([at |-> "deleteType"])
      BY DEF DataHeld, Templating
    <3> QED BY <1>6, <2>4, <3>1 DEF StartDeleteType
  <2>5. CASE \E S \in SUBSET TemplateFields : StartSaveTemplate(w, S)
    <3>1. \A S : DataHeld([at |-> "template", kind |-> "save", old |-> template, new |-> S])
      BY DEF DataHeld, Templating
    <3> QED BY <1>6, <2>5, <3>1 DEF StartSaveTemplate
  <2>6. CASE \E o \in Objects : OpenEditForm(w, o)
    <3>1. PICK o \in Objects : OpenEditForm(w, o)
      BY <2>6
    <3>2. Orderly => DataHeld([at |-> "edit", obj |-> o, mds |-> doc[o].mds])
      BY <3>1 DEF OpenEditForm, Present, DataInv, DataSetsOK, DataHeld, Templating
    <3> QED BY <1>6, <3>1, <3>2 DEF OpenEditForm
  <2> QED BY <1>7, <2>1, <2>2, <2>3, <2>4, <2>5, <2>6
<1>8. ASSUME NEW w \in Workers, At(w, "typeForm"), NEW t \in Changes(req[w].seen, req[w].global), SaveType(w, t)
      PROVE  DataInv'
  <2>1. req[w].at = "typeForm" /\ ReqOK(req[w]) /\ ~Changing(w) /\ type' = type /\ doc' = doc /\ ways' = ways
    BY <1>1, <1>8 DEF At, ReqsOK, Changing, SaveType, db
  <2> DEFINE r == [at |-> "save", seen |-> req[w].seen, global |-> req[w].global, data |-> t, old |-> type]
  <2>2. Orderly => DataHeld(r)
    <3>1. Orderly => IsData(req[w].seen.mds)
      BY <2>1 DEF DataInv, DataHeld
    <3>2. Orderly => IsData(t.mds)
      BY <1>8, <2>1, <3>1, ChangesKeepData DEF ReqOK
    <3> QED BY <3>1, <3>2 DEF DataHeld, Templating
  <2>3. Is(w, r) \/ Is(w, Idle)
    BY <1>8 DEF SaveType, Done
  <2>4. r.at = "save"
    OBVIOUS
  <2> HIDE DEF r
  <2> QED BY <1>5, <2>1, <2>2, <2>3, <2>4, IdleHolds, IdleOK
<1>9. ASSUME NEW w \in Workers, CheckNew(w) \/ Validate(w) \/ Render(w) PROVE DataInv'
  <2>1. /\ req[w].at \in {"new", "edit", "validate"} /\ ReqOK(req[w]) /\ ~Changing(w)
        /\ type' = type /\ doc' = doc /\ ways' = ways
    BY <1>1, <1>9 DEF CheckNew, Validate, Render, At, ReqsOK, Changing, db
  <2>2. Orderly => IsData(req[w].mds)
    BY <2>1 DEF DataInv, DataHeld
  <2>3. CASE CheckNew(w)
    <3> DEFINE r == [req[w] EXCEPT !.at = "insert"]
    <3>1. r.at = "insert" /\ (Is(w, r) \/ Is(w, Idle)) /\ r.mds = req[w].mds
      BY <2>1, <2>3 DEF CheckNew, Done, At, ReqOK
    <3> HIDE DEF r
    <3>2. Orderly => DataHeld(r)
      BY <2>2, <3>1 DEF DataHeld, Templating
    <3> QED BY <1>5, <2>1, <3>1, <3>2, IdleHolds, IdleOK
  <2>4. CASE Validate(w)
    <3> DEFINE r == [req[w] EXCEPT !.at = "write"]
    <3>1. r.at = "write" /\ (Is(w, r) \/ Is(w, Idle)) /\ r.mds = req[w].mds
      BY <2>1, <2>4 DEF Validate, Done, At, ReqOK
    <3> HIDE DEF r
    <3>2. Orderly => DataHeld(r)
      BY <2>2, <3>1 DEF DataHeld, Templating
    <3> QED BY <1>5, <2>1, <3>1, <3>2, IdleHolds, IdleOK
  <2>5. CASE Render(w)
    <3> DEFINE r == [at |-> "validate", obj |-> req[w].obj, names |-> Rendered(type), mds |-> req[w].mds]
    <3>1. r.at = "validate" /\ (Is(w, r) \/ Is(w, Idle)) /\ r.mds = req[w].mds
      BY <2>5 DEF Render, Done
    <3> HIDE DEF r
    <3>2. Orderly => DataHeld(r)
      BY <2>2, <3>1 DEF DataHeld, Templating
    <3> QED BY <1>5, <2>1, <3>1, <3>2, IdleHolds, IdleOK
  <2> QED BY <1>9, <2>3, <2>4, <2>5
<1>10. ASSUME NEW w \in Workers, DropTemplate(w) \/ WriteTemplate(w) PROVE DataInv'
  <2>1. /\ req[w].at \in {"drop", "template"} /\ ReqOK(req[w]) /\ ~Changing(w)
        /\ type' = type /\ doc' = doc /\ ways \subseteq ways'
    BY <1>1, <1>10 DEF DropTemplate, WriteTemplate, At, ReqsOK, Changing, NoteWrite, Note
  <2>2. CASE DropTemplate(w)
    BY <1>5, <2>1, <2>2, IdleHolds, IdleOK DEF DropTemplate, Done
  <2>3. CASE WriteTemplate(w)
    <3>1. [req[w] EXCEPT !.at = "types"].at = "types"
      BY <2>1 DEF ReqOK
    <3>2. DataHeld([req[w] EXCEPT !.at = "types"])
      BY <3>1 DEF DataHeld, Templating
    <3> QED BY <1>5, <2>1, <2>3, <3>1, <3>2 DEF WriteTemplate
  <2> QED BY <1>10, <2>2, <2>3
<1>11. ASSUME NEW w \in Workers, FindTypes(w) PROVE DataInv'
  <2>1. /\ req[w].at = "types" /\ ~Changing(w) /\ ~DataOwner(w) /\ type' = type /\ doc' = doc /\ ways \subseteq ways'
    BY <1>11, FindTypesMoves DEF FindTypes, Note, Changing, DataOwner, db
  <2> DEFINE q == TemplateRequest(req[w])
  <2>2. CASE Is(w, Idle) \/ Is(w, [at |-> "drop"])
    <3>1. DataHeld([at |-> "drop"])
      BY DEF DataHeld, Templating
    <3> QED BY <1>5, <2>1, <2>2, <3>1, IdleHolds, IdleOK
  <2>3. CASE type \in Types /\ Is(w, q)
    <3>1. q.at = "clean" /\ q.read = type /\ q.data.mds = type.mds
      BY <2>3 DEF TemplateRequest, NewType, Types
    <3> HIDE DEF q
    <3>2. DataHeld(q)
      BY <3>1 DEF DataHeld
    <3>3. DataProgress(w)'
      BY <1>1, <2>3, <3>1, IsMoves DEF DataProgress
    <3> QED BY <1>1, <2>1, <2>3, <3>2, <3>3, MovesKeepData
  <2> QED BY <1>11, <2>2, <2>3, FindTypesMoves
<1>12. ASSUME NEW w \in Workers, StartClean(w) PROVE DataInv'
  <2> DEFINE q == [at |-> "sweep", fields |-> FieldsOf(type)]
  <2>1. /\ Is(w, q) /\ type' = type /\ doc' = doc /\ ways' = ways /\ ~DataOwner(w)
    BY <1>12 DEF StartClean, At, DataOwner, db
  <2>2. DataHeld(q) /\ q.at = "sweep"
    BY DEF DataHeld, Templating
  <2> HIDE DEF q
  <2>3. DataProgress(w)'
    BY <1>1, <2>1, <2>2, IsMoves DEF DataProgress
  <2> QED BY <1>1, <2>1, <2>2, <2>3, MovesKeepData
<1>13. ASSUME NEW w \in Workers, NEW o \in Objects, InsertObject(w, o) PROVE DataInv'
  BY <1>13, NewDocumentsKeepData DEF InsertObject, At, Done
<1>14. ASSUME NEW w \in Workers, WriteEdit(w) PROVE DataInv'
  <2>1. ReqOK(req[w]) /\ req[w].at = "write" /\ type' = type
    BY <1>1, <1>14 DEF WriteEdit, At, ReqsOK
  <2>2. CASE type = Gone
    BY <2>1, <2>2 DEF DataInv, Orderly
  <2>3. CASE type # Gone
    <3>1. req[w].obj \in Objects
      BY <2>1 DEF ReqOK
    <3> QED BY <1>14, <2>1, <2>3, <3>1, NewDocumentsKeepData DEF WriteEdit, Done
  <2> QED BY <2>2, <2>3
<1>15. ASSUME NEW w \in Workers, DeleteType(w) PROVE DataInv'
  BY <1>15 DEF DeleteType, DataInv, Orderly
<1>16. ASSUME NEW w \in Workers, Kill(w) PROVE DataInv'
  BY <1>1, <1>16, RefusedKeepsData DEF Kill, db
<1> QED
  BY <1>3, <1>4, <1>7, <1>8, <1>9, <1>10, <1>11, <1>12, <1>13, <1>14, <1>15, <1>16,
     TypeWritesKeepData, ReadObjectsKeepsData, TemplateLooksKeepData, WriteObjectKeepsData, PassesKeepData DEF Next

-----------------------------------------------------------------------------
\* At rest the data set of each object has the fields of its type's section, each
\* once, but for what the histories name: a save that deletes fields in another
\* order than a data set has them (delete_mds_field_entries), requests that cross
\* each other, write on stale reads or are halted half way.
THEOREM SectionDataFitsAlways == Spec => []SectionDataFits
<1> DEFINE Inv == TypeInv /\ DataInv
<1>1. Init => Inv
  BY TypeInvInit, DataInit
<1>2. Inv /\ [Next]_vars => Inv'
  BY TypeInvStep, DataStep
<1>3. Inv => SectionDataFits
  BY DataMeans
<1> QED BY <1>1, <1>2, <1>3, PTL DEF Spec
=============================================================================

--------------------------- MODULE TypeBuilderProofs ---------------------------
(***************************************************************************)
(* Proofs about TypeBuilder for any objects, sections and names, and any   *)
(* number of steps: type correctness, that the fields have different names,*)
(* that the sections and the list of fields agree, and that the global     *)
(* template is listed, but for what the history names.                     *)
(***************************************************************************)
EXTENDS TypeBuilder, FiniteSetTheorems, SequenceTheorems, WellFoundedInduction, TLAPS

----------------------------------------------------------------------------
(* Finite sets. *)

LEMMA Finite ==
  ASSUME NEW S, IsFiniteSet(S), NEW T, T \subseteq S
  PROVE  /\ IsFiniteSet(T) /\ Cardinality(T) \in Nat /\ Cardinality(S) \in Nat
         /\ Cardinality(T) <= Cardinality(S)
         /\ Cardinality(S) = Cardinality(T) => S = T
BY FS_Subset, FS_CardinalityType

LEMMA IntervalSize ==
  ASSUME NEW n \in Nat
  PROVE  IsFiniteSet(1..n) /\ Cardinality(1..n) = n
BY FS_Interval

\* A map that is one to one and onto keeps the number of elements.
LEMMA SameSize ==
  ASSUME NEW S, IsFiniteSet(S), NEW T, NEW f \in [S -> T],
         \A x, y \in S : f[x] = f[y] => x = y, \A t \in T : \E x \in S : f[x] = t
  PROVE  IsFiniteSet(T) /\ Cardinality(T) = Cardinality(S)
<1>1. f \in Surjection(S, T) /\ f \in Injection(S, T)
  BY DEF Surjection, Injection, IsInjective
<1> QED BY <1>1, FS_Surjection

\* One that is one to one alone does not make them more.
LEMMA NoFewer ==
  ASSUME NEW T, IsFiniteSet(T), NEW S, NEW f \in [S -> T],
         \A x, y \in S : f[x] = f[y] => x = y
  PROVE  IsFiniteSet(S) /\ Cardinality(S) <= Cardinality(T)
<1>1. f \in Injection(S, T)
  BY DEF Injection, IsInjective
<1> QED BY <1>1, FS_Injection

\* Where it leads.
LEMMA InjectionParts ==
  ASSUME NEW S, NEW T, NEW f, f \in Injection(S, T)
  PROVE  /\ DOMAIN f = S /\ Range(f) \subseteq T
         /\ \A o \in Range(f) : \E c \in S : o = f[c]
         /\ \A c \in S : f[c] \in Range(f)
         /\ \A c, d \in S : f[c] = f[d] => c = d
<1>1. f \in [S -> T] /\ \A c, d \in S : f[c] = f[d] => c = d
  BY DEF Injection, IsInjective
<1> QED BY <1>1 DEF Range

\* There is room for the elements of a set in one that is no smaller.
LEMMA InjectionExists ==
  ASSUME NEW S, IsFiniteSet(S), NEW T, IsFiniteSet(T), Cardinality(S) <= Cardinality(T)
  PROVE  \E f \in Injection(S, T) : TRUE
<1> DEFINE m == Cardinality(S)
           n == Cardinality(T)
<1>1. m \in Nat /\ n \in Nat /\ m <= n
  BY FS_CardinalityType
<1>2. PICK g \in Bijection(1..m, S) : TRUE
  BY FS_CardinalityType DEF ExistsBijection
<1>3. PICK h \in Bijection(1..n, T) : TRUE
  BY FS_CardinalityType DEF ExistsBijection
<1> HIDE DEF m, n
<1>4. /\ g \in [1..m -> S] /\ \A x, y \in 1..m : g[x] = g[y] => x = y
      /\ \A s \in S : \E x \in 1..m : g[x] = s
  BY <1>2 DEF Bijection, Injection, Surjection, IsInjective
<1>5. h \in [1..n -> T] /\ \A x, y \in 1..n : h[x] = h[y] => x = y
  BY <1>3 DEF Bijection, Injection, IsInjective
<1> DEFINE at(s) == CHOOSE x \in 1..m : g[x] = s
           f == [s \in S |-> h[at(s)]]
<1>6. \A s \in S : at(s) \in 1..m /\ at(s) \in 1..n /\ g[at(s)] = s
  <2>1. \A s \in S : at(s) \in 1..m /\ g[at(s)] = s
    BY <1>4
  <2>2. 1..m \subseteq 1..n
    BY <1>1
  <2> QED BY <2>1, <2>2
<1> HIDE DEF at
<1>7. f \in [S -> T]
  BY <1>5, <1>6
<1>8. \A s, t \in S : f[s] = f[t] => s = t
  <2> SUFFICES ASSUME NEW s \in S, NEW t \in S, h[at(s)] = h[at(t)] PROVE s = t
    OBVIOUS
  <2>1. at(s) = at(t)
    BY <1>5, <1>6
  <2> QED BY <1>6, <2>1
<1> HIDE DEF f
<1>9. f \in Injection(S, T)
  BY <1>7, <1>8 DEF Injection, IsInjective
<1> QED BY <1>9

\* A set of natural numbers has a least one.
LEMMA LeastNumber ==
  ASSUME NEW T, T \subseteq Nat, T # {}
  PROVE  \E n \in T : \A m \in T : n <= m
<1> DEFINE R == OpToRel(<, Nat)
<1>1. IsWellFoundedOn(R, Nat)
  BY NatLessThanWellFounded
<1>2. \A x, y \in Nat : <<y, x>> \in R <=> y < x
  BY DEF OpToRel
<1> HIDE DEF R
<1>3. PICK n \in T : \A m \in T : ~(<<m, n>> \in R)
  BY <1>1, WFMin
<1>4. \A m \in T : n <= m
  <2>1. ASSUME NEW m \in T PROVE n <= m
    <3>1. m \in Nat /\ n \in Nat
      BY <2>1
    <3>2. ~(m < n)
      BY <1>2, <1>3, <3>1
    <3> QED BY <3>1, <3>2
  <2> QED BY <2>1
<1> QED BY <1>4

\* The place of a number in a set of numbers.
RankIn(K, i) == Cardinality({j \in K : j <= i})

\* Every number in a set has a place of its own, and every place has a number.
LEMMA Ranks ==
  ASSUME NEW K, IsFiniteSet(K), K \subseteq Nat
  PROVE  /\ Cardinality(K) \in Nat
         /\ \A i \in K : RankIn(K, i) \in 1..Cardinality(K)
         /\ \A i, j \in K : RankIn(K, i) = RankIn(K, j) => i = j
         /\ \A k \in 1..Cardinality(K) : \E i \in K : RankIn(K, i) = k
<1> DEFINE n == Cardinality(K)
           UpTo(i) == {j \in K : j <= i}
           r == [i \in K |-> RankIn(K, i)]
<1>1. n \in Nat
  BY FS_CardinalityType
<1>2. \A i \in K : /\ IsFiniteSet(UpTo(i)) /\ Cardinality(UpTo(i)) \in Nat /\ Cardinality(UpTo(i)) <= n
                   /\ UpTo(i) # {} /\ Cardinality(UpTo(i)) # 0
  <2> SUFFICES ASSUME NEW i \in K
               PROVE  /\ IsFiniteSet(UpTo(i)) /\ Cardinality(UpTo(i)) \in Nat /\ Cardinality(UpTo(i)) <= n
                      /\ UpTo(i) # {} /\ Cardinality(UpTo(i)) # 0
    OBVIOUS
  <2>1. i \in UpTo(i) /\ UpTo(i) \subseteq K
    OBVIOUS
  <2> HIDE DEF UpTo
  <2>2. IsFiniteSet(UpTo(i)) /\ Cardinality(UpTo(i)) \in Nat /\ Cardinality(UpTo(i)) <= n
    BY <2>1, Finite
  <2> QED BY <2>1, <2>2, FS_EmptySet
<1>3. \A i \in K : RankIn(K, i) = Cardinality(UpTo(i))
  BY DEF RankIn
<1>4. \A i \in K : RankIn(K, i) \in 1..n
  <2> HIDE DEF UpTo, n
  <2> QED BY <1>1, <1>2, <1>3
<1>5. \A i, j \in K : i < j => RankIn(K, i) # RankIn(K, j)
  <2> SUFFICES ASSUME NEW i \in K, NEW j \in K, i < j, Cardinality(UpTo(i)) = Cardinality(UpTo(j)) PROVE FALSE
    BY <1>3
  <2>1. UpTo(i) \subseteq UpTo(j) /\ j \in UpTo(j) /\ j \notin UpTo(i)
    <3>1. \A a, b, c \in Nat : a <= b /\ b < c => a <= c
      OBVIOUS
    <3>2. i \in Nat /\ j \in Nat /\ j <= j /\ ~(j <= i)
      OBVIOUS
    <3> QED BY <3>1, <3>2
  <2>2. UpTo(i) = UpTo(j)
    <3> HIDE DEF UpTo
    <3> QED BY <1>2, <2>1, Finite
  <2> QED BY <2>1, <2>2
<1>6. \A i, j \in K : RankIn(K, i) = RankIn(K, j) => i = j
  <2>1. \A i, j \in K : i < j \/ j < i \/ i = j
    OBVIOUS
  <2> QED BY <1>5, <2>1
<1>7. r \in [K -> 1..n] /\ \A i, j \in K : r[i] = r[j] => i = j
  BY <1>4, <1>6
<1>8. IsFiniteSet(1..n) /\ Cardinality(1..n) = n
  BY <1>1, IntervalSize
<1> HIDE DEF r
<1>9. \A k \in 1..n : \E i \in K : r[i] = k
  <2>1. Cardinality(K) = Cardinality(1..n)
    BY <1>8
  <2> DEFINE N == 1..n
  <2>2. r \in [K -> N] /\ IsFiniteSet(N) /\ Cardinality(K) = Cardinality(N)
    BY <1>7, <1>8, <2>1
  <2>3. \A i, j \in K : r[i] = r[j] => i = j
    BY <1>7
  <2> HIDE DEF UpTo, n, N
  <2>4. r \in Injection(K, N)
    BY <2>2, <2>3 DEF Injection, IsInjective
  <2>5. r \in Surjection(K, N)
    BY <2>2, <2>4, FS_Injection
  <2>6. \A k \in N : \E i \in K : r[i] = k
    BY <2>5 DEF Surjection
  <2> QED BY <2>6 DEF N
<1> QED BY <1>1, <1>4, <1>6, <1>9 DEF r

\* The first k of them are k.
LEMMA FirstRanks ==
  ASSUME NEW K, IsFiniteSet(K), K \subseteq Nat, NEW k \in Nat, k <= Cardinality(K)
  PROVE  /\ IsFiniteSet({i \in K : RankIn(K, i) <= k})
         /\ Cardinality({i \in K : RankIn(K, i) <= k}) = k
<1> DEFINE G == {i \in K : RankIn(K, i) <= k}
           r == [i \in G |-> RankIn(K, i)]
<1>1. /\ Cardinality(K) \in Nat
      /\ \A i \in K : RankIn(K, i) \in 1..Cardinality(K)
      /\ \A i, j \in K : RankIn(K, i) = RankIn(K, j) => i = j
      /\ \A l \in 1..Cardinality(K) : \E i \in K : RankIn(K, i) = l
  BY Ranks
<1>2. IsFiniteSet(G)
  BY Finite
<1>3. r \in [G -> 1..k] /\ \A i, j \in G : r[i] = r[j] => i = j
  <2>1. \A i \in G : RankIn(K, i) \in 1..k
    BY <1>1
  <2>2. \A i, j \in G : RankIn(K, i) = RankIn(K, j) => i = j
    BY <1>1
  <2> HIDE DEF G
  <2> QED BY <2>1, <2>2
<1>4. \A l \in 1..k : \E i \in G : r[i] = l
  <2> SUFFICES ASSUME NEW l \in 1..k PROVE \E i \in G : r[i] = l
    OBVIOUS
  <2>1. l \in 1..Cardinality(K) /\ l <= k
    BY <1>1
  <2>2. PICK i \in K : RankIn(K, i) = l
    BY <1>1, <2>1
  <2> QED BY <2>1, <2>2
<1> HIDE DEF G, r
<1>5. Cardinality(1..k) = Cardinality(G)
  BY <1>2, <1>3, <1>4, SameSize
<1>6. Cardinality(1..k) = k
  BY IntervalSize
<1> QED BY <1>2, <1>5, <1>6 DEF G

----------------------------------------------------------------------------
(* Lists without repetition. *)

ListOK(q) == q \in Seq(Objects) /\ \A i, j \in DOMAIN q : q[i] = q[j] => i = j

LEMMA ListParts ==
  ASSUME NEW q, ListOK(q)
  PROVE  /\ Len(q) \in Nat /\ DOMAIN q = 1..Len(q) /\ q \in [1..Len(q) -> Objects]
         /\ \A i \in 1..Len(q) : q[i] \in Range(q) /\ q[i] \in Objects
         /\ Range(q) \subseteq Objects
         /\ IsFiniteSet(Range(q)) /\ Cardinality(Range(q)) = Len(q)
<1>1. /\ Len(q) \in Nat /\ DOMAIN q = 1..Len(q) /\ q \in [1..Len(q) -> Objects]
      /\ \A i \in 1..Len(q) : q[i] \in Objects
  BY LenProperties, ElementOfSeq DEF ListOK
<1>2. \A i \in 1..Len(q) : q[i] \in Range(q)
  BY <1>1 DEF Range
<1>3. Range(q) \subseteq Objects
  BY <1>1 DEF Range
<1> DEFINE N == 1..Len(q)
           R == Range(q)
<1>4. q \in [N -> R] /\ IsFiniteSet(N) /\ Cardinality(N) = Len(q)
  <2>1. IsFiniteSet(N) /\ Cardinality(N) = Len(q)
    BY <1>1, IntervalSize
  <2>2. q \in [N -> R]
    <3> HIDE DEF R
    <3> QED BY <1>1, <1>2 DEF R
  <2> QED BY <2>1, <2>2
<1>5. q \in Surjection(N, R)
  BY <1>1, <1>4 DEF Surjection, Range
<1>6. q \in Injection(N, R)
  BY <1>1, <1>4 DEF Injection, IsInjective, ListOK
<1> HIDE DEF N, R
<1>7. IsFiniteSet(R) /\ Cardinality(R) = Cardinality(N)
  BY <1>4, <1>5, <1>6, FS_Surjection
<1> QED BY <1>1, <1>2, <1>3, <1>4, <1>7 DEF R

LEMMA AppendKeeps ==
  ASSUME NEW q, ListOK(q), NEW o \in Objects, o \notin Range(q)
  PROVE  ListOK(Append(q, o)) /\ Range(Append(q, o)) = Range(q) \cup {o} /\ Append(q, o) # <<>>
<1>1. /\ Len(q) \in Nat /\ DOMAIN q = 1..Len(q) /\ q \in Seq(Objects)
      /\ \A i \in 1..Len(q) : q[i] \in Range(q)
  BY ListParts DEF ListOK
<1> DEFINE a == Append(q, o)
<1>2. /\ a \in Seq(Objects) /\ Len(a) = Len(q) + 1 /\ DOMAIN a = 1..(Len(q) + 1)
      /\ \A i \in 1..Len(q) : a[i] = q[i]
      /\ a[Len(q) + 1] = o
  BY <1>1, AppendProperties, LenProperties
<1> HIDE DEF a
<1>3. \A i \in 1..(Len(q) + 1) : i \in 1..Len(q) \/ i = Len(q) + 1
  BY <1>1
<1>4. Len(q) + 1 \in 1..(Len(q) + 1) /\ 1..Len(q) \subseteq 1..(Len(q) + 1)
  BY <1>1
<1>5. \A i, j \in DOMAIN a : a[i] = a[j] => i = j
  BY <1>1, <1>2, <1>3 DEF ListOK
<1>6. Range(a) = Range(q) \cup {o}
  <2>1. \A x \in Range(a) : x \in Range(q) \cup {o}
    BY <1>1, <1>2, <1>3 DEF Range
  <2>2. \A i \in 1..Len(q) : q[i] \in Range(a)
    BY <1>2, <1>4 DEF Range
  <2>3. o \in Range(a)
    BY <1>2, <1>4 DEF Range
  <2>4. \A x \in Range(q) : \E i \in 1..Len(q) : x = q[i]
    BY <1>1 DEF Range
  <2> QED BY <2>1, <2>2, <2>3, <2>4
<1>7. a # <<>>
  BY <1>1, <1>2
<1> QED BY <1>2, <1>5, <1>6, <1>7 DEF ListOK, a

\* What is left of the list.
LEMMA OnlyKeeps ==
  ASSUME ListOK(fields), NEW S
  PROVE  ListOK(Only(S)) /\ Range(Only(S)) = Range(fields) \cap S
<1> DEFINE K == {i \in DOMAIN fields : fields[i] \in S}
           n == Cardinality(K)
           at(k) == CHOOSE i \in K : RankIn(K, i) = k
           q == [k \in 1..n |-> fields[at(k)]]
<1>1. /\ Len(fields) \in Nat /\ DOMAIN fields = 1..Len(fields)
      /\ \A i \in 1..Len(fields) : fields[i] \in Range(fields) /\ fields[i] \in Objects
      /\ \A i, j \in 1..Len(fields) : fields[i] = fields[j] => i = j
  BY ListParts DEF ListOK
<1>2. Only(S) = q
  BY DEF Only, RankIn
<1>3. K \subseteq 1..Len(fields) /\ K \subseteq Nat /\ IsFiniteSet(K)
  <2>1. K \subseteq 1..Len(fields) /\ K \subseteq Nat
    BY <1>1
  <2>2. IsFiniteSet(1..Len(fields))
    BY <1>1, IntervalSize
  <2> HIDE DEF K
  <2> QED BY <2>1, <2>2, Finite
<1>4. \A i \in K : fields[i] \in S /\ i \in 1..Len(fields)
  BY <1>3
<1>5. \A i \in 1..Len(fields) : fields[i] \in S => i \in K
  BY <1>1
<1> HIDE DEF K
<1>6. /\ n \in Nat /\ \A i \in K : RankIn(K, i) \in 1..n
      /\ \A i, j \in K : RankIn(K, i) = RankIn(K, j) => i = j
      /\ \A k \in 1..n : \E i \in K : RankIn(K, i) = k
  BY <1>3, Ranks
<1> HIDE DEF n
<1>7. \A k \in 1..n : at(k) \in K /\ RankIn(K, at(k)) = k
  BY <1>6
<1>8. \A i \in K : at(RankIn(K, i)) = i
  BY <1>6, <1>7
<1> HIDE DEF at
<1>9. q \in Seq(Objects) /\ DOMAIN q = 1..n /\ \A k \in 1..n : q[k] = fields[at(k)]
  <2>1. \A k \in 1..n : fields[at(k)] \in Objects
    BY <1>1, <1>4, <1>7
  <2> QED BY <1>6, <2>1, IsASeq
<1> HIDE DEF q
<1>10. \A k, l \in 1..n : q[k] = q[l] => k = l
  BY <1>1, <1>4, <1>7, <1>9
<1>11. \A x \in Range(q) : x \in Range(fields) \cap S
  BY <1>1, <1>4, <1>7, <1>9 DEF Range
<1>12. \A x \in Range(fields) \cap S : x \in Range(q)
  <2> SUFFICES ASSUME NEW x \in Range(fields), x \in S PROVE x \in Range(q)
    OBVIOUS
  <2>1. PICK i \in 1..Len(fields) : fields[i] = x
    BY <1>1 DEF Range
  <2>2. i \in K
    BY <1>5, <2>1
  <2>3. q[RankIn(K, i)] = x /\ RankIn(K, i) \in DOMAIN q
    BY <1>6, <1>8, <1>9, <2>1, <2>2
  <2> QED BY <2>3 DEF Range
<1> QED BY <1>2, <1>9, <1>10, <1>11, <1>12 DEF ListOK

\* The first field of a name is one of that name.
LEMMA FirstOfName ==
  ASSUME ListOK(fields), NEW n \in FieldNames
  PROVE  First(n) \in 1..Len(fields) /\ fields[First(n)] \in Range(fields) /\ name[fields[First(n)]] = n
<1>1. /\ Len(fields) \in Nat /\ DOMAIN fields = 1..Len(fields)
      /\ \A i \in 1..Len(fields) : fields[i] \in Range(fields)
  BY ListParts
<1> DEFINE T == {i \in 1..Len(fields) : name[fields[i]] = n}
<1>2. \E i \in 1..Len(fields) : name[fields[i]] = n
  BY <1>1 DEF FieldNames, Range
<1>3. T \subseteq Nat /\ T # {}
  BY <1>1, <1>2
<1>4. PICK i \in T : \A j \in T : i <= j
  BY <1>3, LeastNumber
<1>5. i \in DOMAIN fields /\ name[fields[i]] = n /\ \A j \in 1..(i - 1) : name[fields[j]] # n
  <2>1. \A j \in 1..(i - 1) : j \in 1..Len(fields) /\ ~(i <= j)
    BY <1>1, <1>4
  <2> QED BY <1>1, <1>4, <2>1
<1>6. First(n) \in DOMAIN fields /\ name[fields[First(n)]] = n
  BY <1>5 DEF First
<1> QED BY <1>1, <1>6

----------------------------------------------------------------------------
(* Types. *)

SectionSet == [kind : Kinds, title : SectionIds, fields : SUBSET (Objects \cup Names), new : BOOLEAN]
AllCards == UNION {Cards(s) : s \in DOMAIN sections}

\* An object is on one card at most.
SectionsOK == /\ DOMAIN sections \subseteq SectionIds
              /\ sections \in [DOMAIN sections -> SectionSet]
              /\ \A s \in DOMAIN sections : IsFiniteSet(sections[s].fields)
              /\ \A s, t \in DOMAIN sections : s # t => Cards(s) \cap Cards(t) = {}

NamesOK == /\ name \in [Objects -> Names \cup {None}]
           /\ form \in [Objects -> Names \cup {None}]
           /\ prior \in [Objects -> Names \cup {None}]
           /\ \A o \in Range(fields) \cup AllCards : name[o] \in Names
           /\ \A c \in AllCards : form[c] \in Names

PageOK == /\ mode \in {"create", "edit"} /\ {loaded, available, listed, valid} \subseteq BOOLEAN
          /\ newFields \subseteq AllCards /\ known \subseteq Names
          /\ locked \in AllCards \cup {None}

TypeInv == SectionsOK /\ ListOK(fields) /\ NamesOK /\ PageOK

ControlOK == control \in [Objects -> Controls]

LEMMA TypeInvImpliesTypeOK == TypeInv /\ ControlOK => TypeOK
<1> SUFFICES ASSUME TypeInv, ControlOK PROVE TypeOK
  OBVIOUS
<1>1. Range(fields) \subseteq Objects /\ Cardinality(Range(fields)) = Len(fields)
  BY ListParts DEF TypeInv
<1>2. \A s \in DOMAIN sections : /\ sections[s].kind \in Kinds /\ sections[s].title \in SectionIds
                                 /\ sections[s].new \in BOOLEAN
                                 /\ sections[s].fields \subseteq Objects \cup Names
  BY DEF TypeInv, SectionsOK, SectionSet
<1>3. \A s \in DOMAIN sections : \A c \in Cards(s) : c \in AllCards
  BY DEF AllCards
<1>4. \A c \in AllCards : c \in Objects
  BY DEF AllCards, Cards
<1>5. newFields \subseteq Objects
  BY <1>4 DEF TypeInv, PageOK
<1> QED BY <1>1, <1>2, <1>3, <1>5 DEF TypeInv, SectionsOK, NamesOK, PageOK, ControlOK, TypeOK, AllCards

\* What an object on a card is.
CardFacts ==
  /\ \A c \in AllCards : c \in Objects /\ \E s \in DOMAIN sections : c \in Cards(s)
  /\ \A s \in DOMAIN sections : \A c \in Cards(s) : c \in AllCards /\ c \in Objects /\ c \in sections[s].fields
  /\ \A s \in DOMAIN sections : \A e \in sections[s].fields : e \in Objects => e \in Cards(s) /\ e \in AllCards
  /\ InUse = Range(fields) \cup AllCards

LEMMA CardParts == CardFacts
<1>1. \A c \in AllCards : c \in Objects /\ \E s \in DOMAIN sections : c \in Cards(s)
  BY DEF AllCards, Cards
<1>2. \A s \in DOMAIN sections : \A c \in Cards(s) : c \in AllCards /\ c \in Objects /\ c \in sections[s].fields
  BY DEF AllCards, Cards
<1>3. \A s \in DOMAIN sections : \A e \in sections[s].fields : e \in Objects => e \in Cards(s) /\ e \in AllCards
  BY DEF AllCards, Cards
<1> QED BY <1>1, <1>2, <1>3 DEF InUse, AllCards, CardFacts

LEMMA CardPartsNext == CardFacts'
BY CardParts, PTL

LEMMA SectionParts ==
  ASSUME SectionsOK, NEW s \in DOMAIN sections
  PROVE  /\ s \in SectionIds /\ sections[s] \in SectionSet /\ IsFiniteSet(sections[s].fields)
         /\ sections[s].kind \in Kinds /\ sections[s].title \in SectionIds /\ sections[s].new \in BOOLEAN
         /\ sections[s].fields \subseteq Objects \cup Names
BY DEF SectionsOK, SectionSet

----------------------------------------------------------------------------
(* Changes of one section. *)

\* r is q with the fields X in s.
FieldsOf(r, q, D, s, X) ==
  /\ r \in [D -> SectionSet] /\ DOMAIN r = D
  /\ \A x \in D : r[x].kind = q[x].kind /\ r[x].fields = IF x = s THEN X ELSE q[x].fields

LEMMA FieldsSet ==
  ASSUME NEW D, NEW q, q \in [D -> SectionSet], NEW s, s \in D, NEW X, X \subseteq Objects \cup Names,
         NEW r, r = [q EXCEPT ![s].fields = X]
  PROVE  FieldsOf(r, q, D, s, X)
BY DEF SectionSet, FieldsOf

LEMMA FieldsSetOld ==
  ASSUME NEW D, NEW q, q \in [D -> SectionSet], NEW s, s \in D, NEW X, X \subseteq Objects \cup Names,
         NEW r, r = [q EXCEPT ![s].fields = X, ![s].new = FALSE]
  PROVE  FieldsOf(r, q, D, s, X)
BY DEF SectionSet, FieldsOf

\* The sections have other fields and are otherwise the same.
Refilled == /\ DOMAIN sections' = DOMAIN sections
            /\ sections' \in [DOMAIN sections -> SectionSet]
            /\ \A s \in DOMAIN sections : sections'[s].kind = sections[s].kind

LEMMA SectionFields ==
  ASSUME SectionsOK, NEW s \in DOMAIN sections, NEW X, X \subseteq Objects \cup Names,
         \/ sections' = [sections EXCEPT ![s].fields = X]
         \/ sections' = [sections EXCEPT ![s].fields = X, ![s].new = FALSE]
  PROVE  /\ Refilled
         /\ \A x \in DOMAIN sections : sections'[x].fields = IF x = s THEN X ELSE sections[x].fields
<1> DEFINE D == DOMAIN sections
           r == sections'
<1>1. sections \in [D -> SectionSet]
  BY DEF SectionsOK
<1>2. s \in D
  OBVIOUS
<1>3. FieldsOf(r, sections, D, s, X)
  <2>1. CASE r = [sections EXCEPT ![s].fields = X]
    <3> HIDE DEF D, r
    <3> QED BY <1>1, <1>2, <2>1, FieldsSet
  <2>2. CASE r = [sections EXCEPT ![s].fields = X, ![s].new = FALSE]
    <3> HIDE DEF D, r
    <3> QED BY <1>1, <1>2, <2>2, FieldsSetOld
  <2> QED BY <2>1, <2>2
<1> HIDE DEF D, r
<1> QED BY <1>3 DEF D, r, Refilled, FieldsOf

\* A card is taken out of one section and put into another one.
LEMMA SectionsMoved ==
  ASSUME SectionsOK, NEW s \in DOMAIN sections, NEW t \in DOMAIN sections, NEW c \in Objects,
         sections' = [[sections EXCEPT ![s].fields = @ \ {c}] EXCEPT ![t].fields = @ \cup {c}]
  PROVE  /\ Refilled
         /\ \A x \in DOMAIN sections :
              LET rest == IF x = s THEN sections[x].fields \ {c} ELSE sections[x].fields
              IN  sections'[x].fields = IF x = t THEN rest \cup {c} ELSE rest
<1> DEFINE D == DOMAIN sections
           r == sections'
           X == sections[s].fields \ {c}
           q == [sections EXCEPT ![s].fields = X]
           Y == q[t].fields \cup {c}
<1>1. sections \in [D -> SectionSet] /\ s \in D /\ t \in D
  BY DEF SectionsOK
<1>2. q = [sections EXCEPT ![s].fields = X]
  OBVIOUS
<1>3. r = [q EXCEPT ![t].fields = Y]
  OBVIOUS
<1>4. X \subseteq Objects \cup Names /\ \A x \in D : sections[x].fields \subseteq Objects \cup Names
  BY SectionParts
<1> HIDE DEF D, r, X, q
<1>5. FieldsOf(q, sections, D, s, X)
  BY <1>1, <1>2, <1>4, FieldsSet
<1>6. Y \subseteq Objects \cup Names
  BY <1>1, <1>4, <1>5 DEF FieldsOf
<1>7. q \in [D -> SectionSet]
  BY <1>5 DEF FieldsOf
<1> HIDE DEF Y
<1>8. FieldsOf(r, q, D, t, Y)
  BY <1>1, <1>3, <1>6, <1>7, FieldsSet
<1>9. \A x \in D : r[x].fields = IF x = t THEN q[x].fields \cup {c} ELSE q[x].fields
  BY <1>8 DEF Y, FieldsOf
<1>10. \A x \in D : q[x].fields = IF x = s THEN sections[x].fields \ {c} ELSE sections[x].fields
  BY <1>5 DEF X, FieldsOf
<1>11. Refilled
  BY <1>5, <1>8 DEF D, r, Refilled, FieldsOf
<1> QED BY <1>9, <1>10, <1>11 DEF D, r

LEMMA TitleSet ==
  ASSUME NEW D, NEW q \in [D -> SectionSet], NEW s \in D, NEW t \in SectionIds,
         NEW r, r = [q EXCEPT ![s].title = t]
  PROVE  /\ r \in [D -> SectionSet] /\ DOMAIN r = D
         /\ \A x \in D : r[x].kind = q[x].kind /\ r[x].fields = q[x].fields
BY DEF SectionSet

\* There is a new section s, of kind k, with the fields X.
SectionIsPut(s, k, X) ==
  /\ DOMAIN sections' = DOMAIN sections \cup {s} /\ DOMAIN sections' \subseteq SectionIds
  /\ sections' \in [DOMAIN sections' -> SectionSet]
  /\ sections'[s].kind = k /\ sections'[s].fields = X
  /\ \A x \in DOMAIN sections : x # s /\ sections'[x] = sections[x]

LEMMA SectionPut ==
  ASSUME SectionsOK, NEW s, s \in SectionIds, s \notin DOMAIN sections, NEW k, k \in Kinds,
         NEW t, t \in SectionIds, NEW X, X \subseteq Objects \cup Names,
         sections' = With(s, Section(k, t, X))
  PROVE  SectionIsPut(s, k, X)
<1> DEFINE r == sections'
<1>1. Section(k, t, X) \in SectionSet /\ Section(k, t, X).kind = k /\ Section(k, t, X).fields = X
  BY DEF Section, SectionSet
<1> DEFINE z == Section(k, t, X)
<1> HIDE DEF z, r
<1>2. r = [x \in DOMAIN sections \cup {s} |-> IF x = s THEN z ELSE sections[x]]
  BY DEF With, z, r
<1>3. DOMAIN r = DOMAIN sections \cup {s} /\ r[s] = z /\ \A x \in DOMAIN sections : x # s /\ r[x] = sections[x]
  BY <1>2
<1>4. \A x \in DOMAIN r : r[x] \in SectionSet
  BY <1>1, <1>3, SectionParts DEF z
<1>5. r \in [DOMAIN r -> SectionSet]
  BY <1>2, <1>4
<1>6. DOMAIN r \subseteq SectionIds
  BY <1>3 DEF SectionsOK
<1> QED BY <1>1, <1>3, <1>5, <1>6 DEF z, r, SectionIsPut

\* There is an object and a section when there is room for them.
LEMMA NewOnes ==
  /\ Unused # {} => NewObject \in Objects /\ NewObject \notin InUse
  /\ Room(0) => NewSection \in SectionIds /\ NewSection \notin DOMAIN sections
  /\ Room(1) => Unused # {} /\ NewSection \in SectionIds /\ NewSection \notin DOMAIN sections
<1>1. Unused # {} => NewObject \in Objects /\ NewObject \notin InUse
  BY DEF NewObject, Unused
<1>2. \A n : Room(n) => NewSection \in SectionIds /\ NewSection \notin DOMAIN sections
  BY DEF Room, NewSection
<1>3. Cardinality(Unused) >= 1 => Unused # {}
  BY FS_EmptySet
<1> QED BY <1>1, <1>2, <1>3 DEF Room

----------------------------------------------------------------------------
(* Steps that add a field. *)

\* The object o, named n, is put at the end of the list.
Listed(o, n) ==
  /\ o \in Objects /\ o \notin InUse /\ n \in Names
  /\ ListOK(fields)' /\ Range(fields)' = Range(fields) \cup {o} /\ fields' # <<>>
  /\ name' \in [Objects -> Names \cup {None}] /\ form' \in [Objects -> Names \cup {None}]
  /\ prior' \in [Objects -> Names \cup {None}]
  /\ name'[o] = n /\ form'[o] = n
  /\ \A x \in Objects : x # o => name'[x] = name[x] /\ form'[x] = form[x]
  /\ newFields' = newFields \cup {o}

\* It is put into the section s, a new one or one that is there.
PutIn(o, s) ==
  /\ s \in SectionIds /\ DOMAIN sections' = DOMAIN sections \cup {s}
  /\ sections' \in [DOMAIN sections' -> SectionSet]
  /\ \A x \in DOMAIN sections : x # s => /\ sections'[x].kind = sections[x].kind
                                         /\ sections'[x].fields = sections[x].fields
  /\ s \in DOMAIN sections => /\ sections'[s].kind = sections[s].kind
                              /\ sections'[s].fields = sections[s].fields \cup {o}
  /\ s \notin DOMAIN sections => sections'[s].fields = {o}

LEMMA NewFieldLists ==
  ASSUME TypeInv, Unused # {}, NEW k, NEW n \in Names, NewField(k, n)
  PROVE  Listed(NewObject, n) /\ valid' \in BOOLEAN
<1> DEFINE o == NewObject
<1>1. o \in Objects /\ o \notin InUse /\ o \notin Range(fields)
  BY NewOnes DEF InUse
<1>2. /\ name \in [Objects -> Names \cup {None}] /\ form \in [Objects -> Names \cup {None}]
      /\ prior \in [Objects -> Names \cup {None}] /\ ListOK(fields)
  BY DEF TypeInv, NamesOK
<1>3. /\ fields' = Append(fields, o) /\ newFields' = newFields \cup {o}
      /\ name' = [x \in Objects |-> IF x \in {o} THEN [name EXCEPT ![o] = n][x] ELSE name[x]]
      /\ form' = [x \in Objects |-> IF x \in {o} THEN [name EXCEPT ![o] = n][x] ELSE form[x]]
      /\ prior' = [x \in Objects |-> IF x \in {o} THEN None ELSE prior[x]]
  BY DEF NewField, Card
<1>4. valid' \in BOOLEAN
  BY DEF NewField, ContentValid
<1> HIDE DEF o
<1>5. /\ ListOK(Append(fields, o)) /\ Range(Append(fields, o)) = Range(fields) \cup {o}
      /\ Append(fields, o) # <<>>
  BY <1>1, <1>2, AppendKeeps
<1>6. ListOK(fields)' /\ Range(fields)' = Range(fields) \cup {o} /\ fields' # <<>>
  BY <1>3, <1>5 DEF ListOK
<1>7. [name EXCEPT ![o] = n][o] = n
  BY <1>1, <1>2
<1>8. /\ name' \in [Objects -> Names \cup {None}] /\ form' \in [Objects -> Names \cup {None}]
      /\ prior' \in [Objects -> Names \cup {None}]
  BY <1>2, <1>3, <1>7
<1>9. /\ name'[o] = n /\ form'[o] = n
      /\ \A x \in Objects : x # o => name'[x] = name[x] /\ form'[x] = form[x]
  BY <1>1, <1>2, <1>3, <1>7
<1>10. Listed(o, n)
  BY <1>1, <1>3, <1>6, <1>8, <1>9 DEF Listed
<1> QED BY <1>4, <1>10 DEF o

LEMMA SectionWithFieldPuts ==
  ASSUME TypeInv, NEW kind \in Kinds, NEW o \in Objects, NEW s \in SectionIds, s \notin DOMAIN sections,
         sections' = With(s, Section(kind, s, {o}))
  PROVE  PutIn(o, s) /\ sections'[s].kind = kind
<1>1. {o} \subseteq Objects \cup Names
  OBVIOUS
<1>2. SectionIsPut(s, kind, {o})
  BY <1>1, SectionPut DEF TypeInv
<1> QED BY <1>2 DEF PutIn, SectionIsPut

LEMMA FieldPuts ==
  ASSUME TypeInv, NEW o \in Objects, NEW s \in DOMAIN sections,
         sections' = [sections EXCEPT ![s].fields = @ \cup {o}]
  PROVE  PutIn(o, s) /\ DOMAIN sections' = DOMAIN sections
<1> DEFINE X == sections[s].fields \cup {o}
<1>1. X \subseteq Objects \cup Names /\ s \in SectionIds
  BY SectionParts DEF TypeInv
<1>2. sections' = [sections EXCEPT ![s].fields = X]
  OBVIOUS
<1> HIDE DEF X
<1>3. /\ sections' \in [DOMAIN sections -> SectionSet] /\ DOMAIN sections' = DOMAIN sections
      /\ \A x \in DOMAIN sections : /\ sections'[x].kind = sections[x].kind
                                    /\ sections'[x].fields = IF x = s THEN X ELSE sections[x].fields
  BY <1>1, <1>2, SectionFields DEF Refilled, TypeInv
<1> QED BY <1>1, <1>3 DEF PutIn, X

\* The cards, with the new one.
LEMMA PutCards ==
  ASSUME TypeInv, NEW o, NEW n, Listed(o, n), NEW s, PutIn(o, s)
  PROVE  SectionsOK' /\ AllCards' = AllCards \cup {o} /\ InUse' = InUse \cup {o}
<1>1. o \in Objects /\ o \notin AllCards /\ SectionsOK
  BY CardParts DEF Listed, CardFacts, TypeInv
<1>2. /\ s \in SectionIds /\ DOMAIN sections' = DOMAIN sections \cup {s}
      /\ sections' \in [DOMAIN sections' -> SectionSet]
  BY DEF PutIn
<1>3. \A x \in DOMAIN sections : Cards(x) \subseteq AllCards /\ IsFiniteSet(sections[x].fields)
  BY <1>1 DEF AllCards, SectionsOK
<1>4. \A x \in DOMAIN sections' :
        \/ x \in DOMAIN sections /\ x # s /\ sections'[x].fields = sections[x].fields
        \/ x = s /\ x \in DOMAIN sections /\ sections'[x].fields = sections[x].fields \cup {o}
        \/ x = s /\ x \notin DOMAIN sections /\ sections'[x].fields = {o}
  BY <1>2 DEF PutIn
<1>5. \A x \in DOMAIN sections' :
        \/ x \in DOMAIN sections /\ x # s /\ Cards(x)' = Cards(x)
        \/ x = s /\ x \in DOMAIN sections /\ Cards(x)' = Cards(x) \cup {o}
        \/ x = s /\ x \notin DOMAIN sections /\ Cards(x)' = {o}
  BY <1>1, <1>4 DEF Cards
<1>6. \A x \in DOMAIN sections' : IsFiniteSet(sections'[x].fields)
  <2> SUFFICES ASSUME NEW x \in DOMAIN sections' PROVE IsFiniteSet(sections'[x].fields)
    OBVIOUS
  <2>1. CASE x \in DOMAIN sections /\ sections'[x].fields = sections[x].fields
    BY <1>3, <2>1
  <2>2. CASE x \in DOMAIN sections /\ sections'[x].fields = sections[x].fields \cup {o}
    BY <1>3, <2>2, FS_AddElement
  <2>3. CASE sections'[x].fields = {o}
    BY <2>3, FS_Singleton
  <2> QED BY <1>4, <2>1, <2>2, <2>3
<1>7. \A x, y \in DOMAIN sections : x # y => Cards(x) \cap Cards(y) = {}
  BY <1>1 DEF SectionsOK
<1>8. \A x, y \in DOMAIN sections' : x # y => Cards(x)' \cap Cards(y)' = {}
  BY <1>1, <1>3, <1>5, <1>7
<1>9. DOMAIN sections' \subseteq SectionIds
  BY <1>1, <1>2 DEF SectionsOK
<1>10. AllCards' = AllCards \cup {o}
  <2>1. \A c \in AllCards' : c \in AllCards \cup {o}
    <3> SUFFICES ASSUME NEW x \in DOMAIN sections', NEW c \in Cards(x)' PROVE c \in AllCards \cup {o}
      BY DEF AllCards
    <3> QED BY <1>3, <1>5
  <2>2. \A x \in DOMAIN sections : Cards(x) \subseteq Cards(x)' /\ x \in DOMAIN sections'
    BY <1>2, <1>5
  <2>3. o \in Cards(s)' /\ s \in DOMAIN sections'
    BY <1>2, <1>5
  <2>4. AllCards \subseteq AllCards' /\ o \in AllCards'
    BY <2>2, <2>3 DEF AllCards
  <2> QED BY <2>1, <2>4
<1>11. InUse' = InUse \cup {o}
  BY <1>10, CardParts, CardPartsNext DEF CardFacts, Listed
<1> QED BY <1>2, <1>6, <1>8, <1>9, <1>10, <1>11 DEF SectionsOK

LEMMA AddKeepsType ==
  ASSUME TypeInv, NEW o, NEW n, Listed(o, n), NEW s, PutIn(o, s), valid' \in BOOLEAN,
         {loaded', available', listed'} \subseteq BOOLEAN, UNCHANGED <<mode, known, locked>>
  PROVE  TypeInv'
<1>1. SectionsOK' /\ AllCards' = AllCards \cup {o}
  BY PutCards
<1>2. ListOK(fields)' /\ Range(fields)' = Range(fields) \cup {o}
  BY DEF Listed
<1>3. o \notin AllCards /\ o \notin Range(fields) /\ Range(fields) \subseteq Objects /\ AllCards \subseteq Objects
  BY CardParts, ListParts DEF Listed, CardFacts, TypeInv
<1>4. NamesOK'
  <2>1. /\ name' \in [Objects -> Names \cup {None}] /\ form' \in [Objects -> Names \cup {None}]
        /\ prior' \in [Objects -> Names \cup {None}]
        /\ name'[o] \in Names /\ form'[o] \in Names
    BY DEF Listed
  <2>2. \A x \in Objects : x # o => name'[x] = name[x] /\ form'[x] = form[x]
    BY DEF Listed
  <2>3. \A x \in (Range(fields) \cup AllCards) \cup {o} : name'[x] \in Names
    BY <1>3, <2>1, <2>2 DEF TypeInv, NamesOK
  <2>4. \A x \in AllCards \cup {o} : form'[x] \in Names
    BY <1>3, <2>1, <2>2 DEF TypeInv, NamesOK
  <2> QED BY <1>1, <1>2, <2>1, <2>3, <2>4 DEF NamesOK
<1>5. PageOK'
  BY <1>1 DEF TypeInv, PageOK, Listed
<1> QED BY <1>1, <1>2, <1>4, <1>5 DEF TypeInv

\* A field of name n comes into the section s.
Adds(o, n, s) == Listed(o, n) /\ PutIn(o, s)

LEMMA DropTemplateAdds ==
  ASSUME TypeInv, NEW n \in Names, DropTemplate(n)
  PROVE  /\ TypeInv'
         /\ Adds(NewObject, n, NewSection) /\ NewSection \notin DOMAIN sections
         /\ sections'[NewSection].kind = "section"
<1>1. Unused # {} /\ NewSection \in SectionIds /\ NewSection \notin DOMAIN sections
  BY NewOnes DEF DropTemplate
<1>2. NewField("checked", n) /\ sections' = With(NewSection, Section("section", NewSection, {NewObject}))
  BY DEF DropTemplate, DropWithField
<1>3. Listed(NewObject, n) /\ valid' \in BOOLEAN /\ NewObject \in Objects
  BY <1>1, <1>2, NewFieldLists, NewOnes
<1>4. PutIn(NewObject, NewSection) /\ sections'[NewSection].kind = "section"
  BY <1>1, <1>2, <1>3, SectionWithFieldPuts DEF Kinds
<1>5. UNCHANGED <<mode, loaded, available, listed, known, locked>>
  BY DEF DropTemplate, templates
<1>6. TypeInv'
  BY <1>3, <1>4, <1>5, AddKeepsType DEF TypeInv, PageOK
<1> QED BY <1>1, <1>3, <1>4, <1>6 DEF Adds

LEMMA DropGlobalAdds ==
  ASSUME TypeInv, DropGlobalTemplate
  PROVE  /\ TypeInv'
         /\ Adds(NewObject, GlobalName, NewSection) /\ NewSection \notin DOMAIN sections
         /\ sections'[NewSection].kind = "global"
<1>1. Unused # {} /\ NewSection \in SectionIds /\ NewSection \notin DOMAIN sections
  BY NewOnes DEF DropGlobalTemplate
<1>2. NewField("checked", GlobalName) /\ sections' = With(NewSection, Section("global", NewSection, {NewObject}))
  BY DEF DropGlobalTemplate, DropWithField
<1>3. Listed(NewObject, GlobalName) /\ valid' \in BOOLEAN /\ NewObject \in Objects
  BY <1>1, <1>2, NewFieldLists, NewOnes, NamesAssumption
<1>4. PutIn(NewObject, NewSection) /\ sections'[NewSection].kind = "global"
  BY <1>1, <1>2, <1>3, SectionWithFieldPuts DEF Kinds
<1>5. UNCHANGED <<mode, loaded, known, locked>> /\ available' = FALSE /\ listed' = TRUE
  BY DEF DropGlobalTemplate
<1>6. TypeInv'
  BY <1>3, <1>4, <1>5, AddKeepsType DEF TypeInv, PageOK
<1> QED BY <1>1, <1>3, <1>4, <1>6 DEF Adds

LEMMA DropFieldAdds ==
  ASSUME TypeInv, NEW s \in DOMAIN sections, NEW k \in Controls, NEW n \in Names, DropField(s, k, n)
  PROVE  /\ TypeInv'
         /\ Adds(NewObject, n, s) /\ DOMAIN sections' = DOMAIN sections
<1>1. Unused # {} /\ NewObject \in Objects
  BY NewOnes DEF DropField
<1>2. NewField(k, n) /\ sections' = [sections EXCEPT ![s].fields = @ \cup {NewObject}]
  BY DEF DropField
<1>3. Listed(NewObject, n) /\ valid' \in BOOLEAN
  BY <1>1, <1>2, NewFieldLists
<1>4. PutIn(NewObject, s) /\ DOMAIN sections' = DOMAIN sections
  BY <1>1, <1>2, FieldPuts
<1>5. UNCHANGED <<mode, loaded, available, listed, known, locked>>
  BY DEF DropField, templates
<1>6. TypeInv'
  BY <1>3, <1>4, <1>5, AddKeepsType DEF TypeInv, PageOK
<1> QED BY <1>3, <1>4, <1>6 DEF Adds

----------------------------------------------------------------------------
(* Steps that move or remove. *)

\* A section with other fields.
LEMMA RecordFields ==
  ASSUME NEW q \in SectionSet, NEW X \in SUBSET (Objects \cup Names)
  PROVE  /\ [q EXCEPT !.fields = X] \in SectionSet /\ [q EXCEPT !.fields = X].fields = X
         /\ [q EXCEPT !.fields = X].kind = q.kind
BY DEF SectionSet

\* Objects that are in the list or on a card keep their names, and cards not in S
\* what they show.
Forgotten(S) ==
  /\ name' \in [Objects -> Names \cup {None}] /\ form' \in [Objects -> Names \cup {None}]
  /\ prior' \in [Objects -> Names \cup {None}]
  /\ \A o \in Range(fields)' \cup AllCards' : name'[o] = name[o]
  /\ \A c \in AllCards' \ S : form'[c] = form[c]
  /\ newFields' \subseteq newFields /\ newFields' \subseteq AllCards'

LEMMA ForgetKeeps ==
  ASSUME TypeInv, ListOK(fields)', NEW S, Forget(S)
  PROVE  Forgotten(S)
<1> DEFINE A == {o \in Objects : \E s \in DOMAIN sections' : o \in sections'[s].fields}
           kept == {o \in Objects : o \in Range(fields') \/ \E s \in DOMAIN sections' : o \in sections'[s].fields}
           shown == {o \in Objects \ S : \E s \in DOMAIN sections' : o \in sections'[s].fields}
<1>1. /\ name' = [o \in Objects |-> IF o \in kept THEN name[o] ELSE None]
      /\ form' = [o \in Objects |-> IF o \in shown THEN form[o] ELSE None]
      /\ prior' = [o \in Objects |-> IF o \in shown THEN prior[o] ELSE None]
      /\ newFields' = newFields \cap shown
  BY DEF Forget
<1>2. AllCards' = A
  <2>1. \A c \in AllCards' : c \in A
    BY CardPartsNext DEF CardFacts
  <2>2. \A c \in A : c \in AllCards'
    BY CardPartsNext DEF CardFacts
  <2> QED BY <2>1, <2>2
<1>3. kept = Range(fields)' \cup A /\ shown = A \ S
  <2>1. Range(fields)' \subseteq Objects
    <3>1. ListOK(fields) => Range(fields) \subseteq Objects
      BY ListParts
    <3>2. ListOK(fields)' => Range(fields)' \subseteq Objects
      BY <3>1, ListParts DEF ListOK
    <3> QED BY <3>2
  <2> QED BY <2>1
<1>4. /\ name \in [Objects -> Names \cup {None}] /\ form \in [Objects -> Names \cup {None}]
      /\ prior \in [Objects -> Names \cup {None}]
  BY DEF TypeInv, NamesOK
<1>5. A \subseteq Objects /\ kept \subseteq Objects
  OBVIOUS
<1> HIDE DEF A, kept, shown
<1> QED BY <1>1, <1>2, <1>3, <1>4, <1>5 DEF Forgotten

\* Types after such a step, if no locked card went.
LEMMA ForgottenKeepsType ==
  ASSUME TypeInv, SectionsOK', ListOK(fields)', NEW S, Forgotten(S),
         Range(fields)' \subseteq Range(fields), AllCards' \subseteq AllCards, AllCards' \cap S = {},
         valid' \in BOOLEAN, {loaded', available', listed'} \subseteq BOOLEAN, mode' = mode,
         \/ known' = known
         \/ Register,
         locked' = None
  PROVE  TypeInv'
<1>1. \A o \in Range(fields)' \cup AllCards' : name'[o] \in Names
  BY DEF TypeInv, NamesOK, Forgotten
<1>2. \A c \in AllCards' : form'[c] \in Names
  BY DEF TypeInv, NamesOK, Forgotten
<1>3. NamesOK'
  BY <1>1, <1>2 DEF NamesOK, Forgotten
<1>4. known' \subseteq Names
  BY <1>1 DEF Register, TypeInv, PageOK
<1>5. PageOK'
  BY <1>4 DEF TypeInv, PageOK, Forgotten
<1> QED BY <1>3, <1>5 DEF TypeInv

\* With and without one card, which is in one section only.
LEMMA OneSection ==
  ASSUME SectionsOK, NEW s \in DOMAIN sections, NEW c \in Cards(s), NEW t \in DOMAIN sections, t # s
  PROVE  c \notin sections[t].fields
BY CardParts DEF SectionsOK, CardFacts

LEMMA RemoveFieldShape ==
  ASSUME TypeInv, NEW s \in DOMAIN sections, NEW c \in Cards(s), RemoveField(s, c)
  PROVE  /\ TypeInv' /\ Refilled /\ Forgotten({c})
         /\ \A x \in DOMAIN sections : sections'[x].fields = sections[x].fields \ {c}
         /\ AllCards' = AllCards \ {c} /\ Range(fields)' = Range(fields) \ {c}
<1> DEFINE X == sections[s].fields \ {c}
<1>1. SectionsOK /\ ListOK(fields) /\ X \subseteq Objects \cup Names
  BY SectionParts DEF TypeInv
<1>2. Refilled /\ \A x \in DOMAIN sections : sections'[x].fields = sections[x].fields \ {c}
  <2>1. sections' = [sections EXCEPT ![s].fields = X]
    BY DEF RemoveField
  <2>2. \A x \in DOMAIN sections : x # s => sections[x].fields = sections[x].fields \ {c}
    BY <1>1, OneSection
  <2> HIDE DEF X
  <2>3. Refilled /\ \A x \in DOMAIN sections : sections'[x].fields = IF x = s THEN X ELSE sections[x].fields
    BY <1>1, <2>1, SectionFields
  <2> QED BY <2>2, <2>3 DEF X
<1>3. \A x \in DOMAIN sections : Cards(x)' = Cards(x) \ {c}
  BY <1>2 DEF Cards, Refilled
<1>4. SectionsOK'
  <2>1. \A x \in DOMAIN sections : IsFiniteSet(sections[x].fields \ {c})
    BY <1>1, Finite DEF SectionsOK
  <2> QED BY <1>1, <1>2, <1>3, <2>1 DEF SectionsOK, Refilled
<1>5. AllCards' = AllCards \ {c}
  BY <1>2, <1>3 DEF AllCards, Refilled
<1>6. ListOK(fields)' /\ Range(fields)' = Range(fields) \ {c} /\ valid' \in BOOLEAN
  <2>1. CASE c \in Range(fields)
    <3>1. fields' = Only(Range(fields) \ {c}) /\ valid' \in BOOLEAN
      BY <2>1 DEF RemoveField, TakeField, ContentValid
    <3>2. ListOK(Only(Range(fields) \ {c})) /\ Range(Only(Range(fields) \ {c})) = Range(fields) \ {c}
      <4>1. Range(fields) \cap (Range(fields) \ {c}) = Range(fields) \ {c}
        OBVIOUS
      <4> QED BY <1>1, <4>1, OnlyKeeps
    <3> QED BY <3>1, <3>2 DEF ListOK
  <2>2. CASE c \notin Range(fields)
    <3>1. fields' = fields /\ valid' = valid
      BY <2>2 DEF RemoveField, TakeField
    <3> QED BY <1>1, <2>2, <3>1 DEF ListOK, TypeInv, PageOK
  <2> QED BY <2>1, <2>2
<1>7. Forgotten({c})
  BY <1>6, ForgetKeeps DEF RemoveField
<1>8. /\ Register /\ locked' = None /\ mode' = mode
      /\ {loaded', available', listed'} \subseteq BOOLEAN
  BY DEF RemoveField, templates, TypeInv, PageOK
<1>9. TypeInv'
  BY <1>4, <1>5, <1>6, <1>7, <1>8, ForgottenKeepsType
<1> QED BY <1>2, <1>5, <1>6, <1>7, <1>9

\* The section is gone with its cards, and with them some fields or none.
LEMMA RemoveSectionShape ==
  ASSUME TypeInv, NEW s \in DOMAIN sections, RemoveSection(s)
  PROVE  /\ TypeInv' /\ Forgotten(Cards(s))
         /\ DOMAIN sections' = DOMAIN sections \ {s}
         /\ \A x \in DOMAIN sections \ {s} : sections'[x] = sections[x] /\ Cards(x)' = Cards(x)
         /\ AllCards' = AllCards \ Cards(s) /\ Range(fields)' \subseteq Range(fields)
<1>1. SectionsOK /\ ListOK(fields)
  BY DEF TypeInv
<1>2. /\ DOMAIN sections' = DOMAIN sections \ {s}
      /\ sections' = [t \in DOMAIN sections \ {s} |-> sections[t]]
      /\ \A x \in DOMAIN sections \ {s} : sections'[x] = sections[x]
  BY DEF RemoveSection
<1>3. \A x \in DOMAIN sections \ {s} : Cards(x)' = Cards(x)
  BY <1>2 DEF Cards
<1>4. SectionsOK'
  BY <1>1, <1>2, <1>3 DEF SectionsOK
<1>5. AllCards' = AllCards \ Cards(s)
  BY <1>1, <1>2, <1>3 DEF AllCards, SectionsOK
<1>6. ListOK(fields)' /\ Range(fields)' \subseteq Range(fields)
  <2>1. CASE sections[s].kind = "multi"
    <3>1. fields' = fields
      BY <2>1 DEF RemoveSection, TakeFields
    <3> QED BY <1>1, <3>1 DEF ListOK
  <2>2. CASE sections[s].kind # "multi"
    <3>1. PICK T : fields' = Only(T)
      BY <2>2 DEF RemoveSection, TakeFields, Without
    <3> QED BY <1>1, <3>1, OnlyKeeps DEF ListOK
  <2> QED BY <2>1, <2>2
<1>7. Forgotten(Cards(s))
  BY <1>6, ForgetKeeps DEF RemoveSection
<1>8. /\ Register /\ locked' = None /\ mode' = mode /\ valid' \in BOOLEAN
      /\ {loaded', available', listed'} \subseteq BOOLEAN
  BY DEF RemoveSection, Unlist, ContentValid, TypeInv, PageOK
<1>9. TypeInv'
  BY <1>4, <1>5, <1>6, <1>7, <1>8, ForgottenKeepsType
<1> QED BY <1>2, <1>3, <1>5, <1>6, <1>7, <1>9

\* A section shows finitely many names.
LEMMA ShownFinite ==
  ASSUME NEW s, IsFiniteSet(sections[s].fields)
  PROVE  IsFiniteSet(Shown(s))
<1> DEFINE S == sections[s].fields
           f == [e \in S |-> Label(e)]
<1>1. f \in Surjection(S, Shown(s))
  BY DEF Surjection, Shown
<1> QED BY <1>1, FS_Surjection

LEMMA SaveFailsShape ==
  ASSUME TypeInv, SaveFails
  PROVE  /\ TypeInv' /\ Refilled /\ Forgotten({})
         /\ \A s \in DOMAIN sections : sections'[s].fields = Shown(s) /\ Shown(s) \subseteq Names
         /\ AllCards' = {} /\ fields' = fields
<1>1. SectionsOK /\ ListOK(fields) /\ Names \cap Objects = {} /\ locked = None
  BY ObjectsAssumption DEF TypeInv, SaveFails, IsSaveButtonEnabled, MayDrag
<1>2. \A s \in DOMAIN sections : Shown(s) \subseteq Names
  <2> SUFFICES ASSUME NEW s \in DOMAIN sections, NEW e \in sections[s].fields PROVE Label(e) \in Names
    BY DEF Shown
  <2>1. CASE e \in Objects
    BY <2>1, CardParts DEF Label, TypeInv, NamesOK, CardFacts
  <2>2. CASE e \notin Objects
    BY <1>1, <2>2, SectionParts DEF Label
  <2> QED BY <2>1, <2>2
<1>3. sections' = [s \in DOMAIN sections |-> [sections[s] EXCEPT !.fields = Shown(s)]]
  BY DEF SaveFails
<1>4. Refilled /\ \A s \in DOMAIN sections : sections'[s].fields = Shown(s)
  <2>1. \A s \in DOMAIN sections : sections[s] \in SectionSet /\ Shown(s) \in SUBSET (Objects \cup Names)
    BY <1>1, <1>2 DEF SectionsOK
  <2>2. \A s \in DOMAIN sections : /\ [sections[s] EXCEPT !.fields = Shown(s)] \in SectionSet
                                   /\ [sections[s] EXCEPT !.fields = Shown(s)].fields = Shown(s)
                                   /\ [sections[s] EXCEPT !.fields = Shown(s)].kind = sections[s].kind
    BY <2>1, RecordFields
  <2> DEFINE z(s) == [sections[s] EXCEPT !.fields = Shown(s)]
  <2>3. sections' = [s \in DOMAIN sections |-> z(s)]
    BY <1>3
  <2>4. \A s \in DOMAIN sections : z(s) \in SectionSet /\ z(s).fields = Shown(s) /\ z(s).kind = sections[s].kind
    BY <2>2
  <2> HIDE DEF z
  <2> QED BY <2>3, <2>4 DEF Refilled
<1>5. \A s \in DOMAIN sections : Cards(s)' = {}
  BY <1>1, <1>2, <1>4 DEF Cards
<1>6. AllCards' = {}
  BY <1>4, <1>5 DEF AllCards, Refilled
<1>7. \A s \in DOMAIN sections : IsFiniteSet(Shown(s))
  BY <1>1, ShownFinite DEF SectionsOK
<1>8. SectionsOK'
  BY <1>1, <1>4, <1>5, <1>7 DEF SectionsOK, Refilled
<1>9. fields' = fields /\ ListOK(fields)'
  BY <1>1 DEF SaveFails, ListOK
<1>10. Forgotten({})
  BY <1>9, ForgetKeeps DEF SaveFails
<1>11. /\ locked' = None /\ mode' = mode /\ valid' \in BOOLEAN /\ known' = known
       /\ {loaded', available', listed'} \subseteq BOOLEAN
  BY <1>1 DEF SaveFails, templates, TypeInv, PageOK
<1>12. TypeInv'
  BY <1>6, <1>8, <1>9, <1>10, <1>11, ForgottenKeepsType
<1> QED BY <1>2, <1>4, <1>6, <1>9, <1>10, <1>12

\* The list is put in another order: its objects stay.
LEMMA RelistKeeps ==
  ASSUME ListOK(fields), NEW c \in Objects, Relist(c)
  PROVE  ListOK(fields)' /\ Range(fields)' = Range(fields)
<1>1. CASE c \in Range(fields)
  <2> DEFINE q == Only(Range(fields) \ {c})
  <2>1. ListOK(q) /\ Range(q) = Range(fields) \cap (Range(fields) \ {c})
    BY OnlyKeeps
  <2>2. fields' = Append(q, c)
    BY <1>1 DEF Relist
  <2> HIDE DEF q
  <2>3. c \notin Range(q) /\ Range(q) \cup {c} = Range(fields)
    BY <1>1, <2>1
  <2>4. ListOK(Append(q, c)) /\ Range(Append(q, c)) = Range(q) \cup {c}
    BY <2>1, <2>3, AppendKeeps
  <2> QED BY <2>2, <2>3, <2>4 DEF ListOK
<1>2. CASE c \notin Range(fields)
  BY <1>2 DEF Relist, ListOK
<1> QED BY <1>1, <1>2

\* The card c is in t and in no other section.
FieldMoved(c, t) ==
  \A x \in DOMAIN sections :
    sections'[x].fields = IF x = t THEN sections[x].fields \cup {c} ELSE sections[x].fields \ {c}

LEMMA MoveFieldShape ==
  ASSUME TypeInv, NEW s \in DOMAIN sections, NEW c \in Cards(s), NEW t \in DOMAIN sections, MoveField(c, s, t)
  PROVE  /\ TypeInv' /\ Refilled /\ FieldMoved(c, t) /\ name' = name
         /\ AllCards' = AllCards /\ Range(fields)' = Range(fields) /\ newFields' \subseteq newFields
<1>1. /\ SectionsOK /\ ListOK(fields) /\ c \in Objects
      /\ c \in sections[s].fields /\ c \in AllCards
  BY SectionParts, CardParts DEF TypeInv, CardFacts
<1>2. /\ Refilled
      /\ \A x \in DOMAIN sections :
           sections'[x].fields = IF x = t THEN sections[x].fields \cup {c} ELSE sections[x].fields \ {c}
  <2>1. sections' = [[sections EXCEPT ![s].fields = @ \ {c}] EXCEPT ![t].fields = @ \cup {c}]
    BY DEF MoveField
  <2>2. \A x \in DOMAIN sections : x # s => sections[x].fields = sections[x].fields \ {c}
    BY <1>1, OneSection
  <2>3. /\ Refilled
        /\ \A x \in DOMAIN sections :
              LET rest == IF x = s THEN sections[x].fields \ {c} ELSE sections[x].fields
              IN  sections'[x].fields = IF x = t THEN rest \cup {c} ELSE rest
    BY <1>1, <2>1, SectionsMoved
  <2>4. \A x \in DOMAIN sections : (sections[x].fields \ {c}) \cup {c} = sections[x].fields \cup {c}
    OBVIOUS
  <2> QED BY <2>2, <2>3, <2>4
<1>3. \A x \in DOMAIN sections : Cards(x)' = IF x = t THEN Cards(x) \cup {c} ELSE Cards(x) \ {c}
  BY <1>1, <1>2 DEF Cards, Refilled
<1>4. SectionsOK'
  <2>1. \A x \in DOMAIN sections : /\ IsFiniteSet(sections[x].fields \ {c})
                                   /\ IsFiniteSet(sections[x].fields \cup {c})
    BY <1>1, Finite, FS_AddElement DEF SectionsOK
  <2>2. \A x \in DOMAIN sections' : IsFiniteSet(sections'[x].fields)
    BY <1>2, <2>1 DEF Refilled
  <2>3. \A x, y \in DOMAIN sections' : x # y => Cards(x)' \cap Cards(y)' = {}
    BY <1>1, <1>2, <1>3 DEF SectionsOK, Refilled
  <2> QED BY <1>1, <1>2, <2>2, <2>3 DEF SectionsOK, Refilled
<1>5. AllCards' = AllCards
  <2>1. \A x \in DOMAIN sections : Cards(x)' \subseteq AllCards
    BY <1>1, <1>3 DEF AllCards
  <2>2. c \in Cards(t)'
    BY <1>3
  <2>3. \A o \in AllCards : \E x \in DOMAIN sections : o \in Cards(x)'
    BY <1>3, <2>2, CardParts DEF CardFacts
  <2> QED BY <1>2, <2>1, <2>3 DEF AllCards, Refilled
<1>6. ListOK(fields)' /\ Range(fields)' = Range(fields)
  BY <1>1, RelistKeeps DEF MoveField
<1>7. /\ name' = name /\ form' \in [Objects -> Names \cup {None}] /\ prior' \in [Objects -> Names \cup {None}]
      /\ \A o \in AllCards : form'[o] \in Names
  <2>1. /\ name' = [o \in Objects |-> IF o \in {c} THEN name[o] ELSE name[o]]
        /\ form' = [o \in Objects |-> IF o \in {c} THEN name[o] ELSE form[o]]
        /\ prior' = [o \in Objects |-> IF o \in {c} THEN None ELSE prior[o]]
    BY DEF MoveField, Card
  <2>2. AllCards \subseteq Objects /\ name[c] \in Names
    BY <1>1, CardParts DEF CardFacts, TypeInv, NamesOK
  <2> QED BY <2>1, <2>2 DEF TypeInv, NamesOK
<1>8. NamesOK'
  BY <1>5, <1>6, <1>7 DEF NamesOK, TypeInv
<1>9. newFields' = newFields \ {c} /\ valid' \in BOOLEAN /\ known' \subseteq Names
  <2>1. known' \subseteq Names
    BY <1>8 DEF MoveField, Register, NamesOK
  <2> QED BY <2>1 DEF MoveField, ContentValid
<1>10. PageOK'
  BY <1>5, <1>9 DEF MoveField, PageOK, TypeInv, templates
<1> QED BY <1>2, <1>4, <1>5, <1>6, <1>7, <1>8, <1>9, <1>10 DEF TypeInv, FieldMoved

\* There are objects for the copies.
LEMMA CopyExists ==
  ASSUME NEW S, S \subseteq Objects, Cardinality(Unused) >= Cardinality(S)
  PROVE  /\ CopyOf(S) \in Injection(S, Unused) /\ DOMAIN CopyOf(S) = S
         /\ Range(CopyOf(S)) \subseteq Unused
         /\ \A c \in S : CopyOf(S)[c] \in Range(CopyOf(S))
         /\ \A o \in Range(CopyOf(S)) : \E c \in S : CopyOf(S)[c] = o
         /\ \A c, d \in S : CopyOf(S)[c] = CopyOf(S)[d] => c = d
<1>1. IsFiniteSet(S) /\ IsFiniteSet(Unused)
  BY BoundsAssumption, Finite DEF Unused
<1>2. Cardinality(S) <= Cardinality(Unused)
  BY <1>1, FS_CardinalityType
<1>3. \E f \in Injection(S, Unused) : TRUE
  BY <1>1, <1>2, InjectionExists
<1> DEFINE f == CopyOf(S)
<1>4. f \in Injection(S, Unused)
  BY <1>3 DEF CopyOf
<1> HIDE DEF f
<1>5. /\ DOMAIN f = S /\ Range(f) \subseteq Unused
      /\ \A c \in S : f[c] \in Range(f)
      /\ \A o \in Range(f) : \E c \in S : f[c] = o
      /\ \A c, d \in S : f[c] = f[d] => c = d
  BY <1>4, InjectionParts
<1> QED BY <1>4, <1>5 DEF f

----------------------------------------------------------------------------
(* Steps that copy. *)

\* A copy has the name of its card, and so has the card it shows; no other object
\* has another name, and the cards in T show the names of their objects.
Copied(f, S, T) ==
  /\ name' \in [Objects -> Names \cup {None}] /\ form' \in [Objects -> Names \cup {None}]
  /\ prior' \in [Objects -> Names \cup {None}]
  /\ \A c \in S : name'[f[c]] = name[c] /\ form'[f[c]] = name[c]
  /\ \A o \in Objects \ Range(f) : name'[o] = name[o]
  /\ \A o \in T : form'[o] = name[o]
  /\ \A o \in Objects \ (Range(f) \cup T) : form'[o] = form[o]

LEMMA CopyCardsNames ==
  ASSUME TypeInv, NEW S, S \subseteq AllCards, NEW T, T \subseteq AllCards,
         Cardinality(Unused) >= Cardinality(S), CopyCards(CopyOf(S), T)
  PROVE  Copied(CopyOf(S), S, T)
<1> DEFINE f == CopyOf(S)
           Of(o) == IF o \in Range(f) THEN CHOOSE c \in DOMAIN f : f[c] = o ELSE o
           R == Range(f) \cup T
<1>1. S \subseteq Objects /\ T \subseteq Objects /\ AllCards \cap Unused = {} /\ Unused \subseteq Objects
  BY CardParts DEF CardFacts, Unused
<1>2. /\ DOMAIN f = S /\ Range(f) \subseteq Unused
      /\ \A c \in S : f[c] \in Range(f)
      /\ \A o \in Range(f) : \E c \in S : f[c] = o
      /\ \A c, d \in S : f[c] = f[d] => c = d
  BY <1>1, CopyExists
<1>3. /\ name' = [o \in Objects |-> IF o \in R THEN [x \in Objects |-> name[Of(x)]][o] ELSE name[o]]
      /\ form' = [o \in Objects |-> IF o \in R THEN [x \in Objects |-> name[Of(x)]][o] ELSE form[o]]
      /\ prior' = [o \in Objects |-> IF o \in R THEN None ELSE prior[o]]
  BY DEF CopyCards, Card
<1> HIDE DEF f
<1>4. \A c \in S : Of(f[c]) = c
  BY <1>2
<1>5. \A o \in Objects : o \notin Range(f) => Of(o) = o
  OBVIOUS
<1>6. \A o \in Objects : Of(o) \in Objects
  BY <1>1, <1>2
<1> HIDE DEF Of, R
<1>7. \A o \in Objects : /\ name'[o] = IF o \in R THEN name[Of(o)] ELSE name[o]
                         /\ form'[o] = IF o \in R THEN name[Of(o)] ELSE form[o]
  BY <1>3
<1>8. /\ name \in [Objects -> Names \cup {None}] /\ form \in [Objects -> Names \cup {None}]
      /\ prior \in [Objects -> Names \cup {None}]
  BY DEF TypeInv, NamesOK
<1>9. /\ name' \in [Objects -> Names \cup {None}] /\ form' \in [Objects -> Names \cup {None}]
      /\ prior' \in [Objects -> Names \cup {None}]
  BY <1>3, <1>6, <1>8
<1>10. \A c \in S : name'[f[c]] = name[c] /\ form'[f[c]] = name[c]
  BY <1>1, <1>2, <1>4, <1>7 DEF R
<1>11. \A o \in Objects \ Range(f) : name'[o] = name[o]
  BY <1>5, <1>7
<1>12. \A o \in T : form'[o] = name[o]
  <2>1. \A o \in T : o \in Objects /\ o \notin Range(f) /\ o \in R
    BY <1>1, <1>2 DEF R
  <2> QED BY <1>5, <1>7, <2>1
<1>13. \A o \in Objects \ (Range(f) \cup T) : form'[o] = form[o]
  BY <1>7 DEF R
<1> QED BY <1>9, <1>10, <1>11, <1>12, <1>13 DEF Copied, f

\* What a step that copies leaves is of the right types.
LEMMA CopiedKeepsNames ==
  ASSUME TypeInv, NEW f, NEW S, S \subseteq AllCards, NEW T, T \subseteq AllCards, Copied(f, S, T),
         Range(f) \subseteq Unused, \A o \in Range(f) : \E c \in S : f[c] = o,
         fields' = fields, AllCards' \subseteq AllCards \cup Range(f)
  PROVE  NamesOK'
<1>1. /\ AllCards \subseteq Objects /\ Range(fields) \subseteq Objects
      /\ (Range(fields) \cup AllCards) \cap Range(f) = {}
      /\ \A c \in AllCards : name[c] \in Names /\ form[c] \in Names
  BY CardParts, ListParts DEF CardFacts, Unused, TypeInv, NamesOK
<1>2. \A o \in Range(f) : name'[o] \in Names /\ form'[o] \in Names
  BY <1>1 DEF Copied
<1>3. \A o \in Range(fields) \cup AllCards : name'[o] \in Names
  BY <1>1 DEF Copied, TypeInv, NamesOK
<1>4. \A c \in AllCards : form'[c] \in Names
  BY <1>1 DEF Copied
<1> QED BY <1>2, <1>3, <1>4 DEF Copied, NamesOK

LEMMA MoveSectionShape ==
  ASSUME TypeInv, NEW s \in DOMAIN sections, MoveSection(s)
  PROVE  LET S == Cards(s) \cap Range(fields)
             f == CopyOf(S)
         IN  /\ TypeInv' /\ Refilled /\ Copied(f, S, Cards(s) \ S) /\ f \in Injection(S, Unused)
             /\ \A x \in DOMAIN sections :
                  sections'[x].fields = IF x = s THEN (sections[s].fields \ S) \cup Range(f) ELSE sections[x].fields
             /\ AllCards' = (AllCards \ S) \cup Range(f)
             /\ fields' = fields /\ newFields' = newFields \ Cards(s)
<1> DEFINE S == Cards(s) \cap Range(fields)
           f == CopyOf(S)
           X == (sections[s].fields \ S) \cup Range(f)
<1>1. SectionsOK /\ ListOK(fields)
  BY DEF TypeInv
<1>2. /\ Cards(s) \subseteq AllCards /\ S \subseteq Cards(s) /\ S \subseteq Objects /\ AllCards \cap Unused = {}
      /\ Cards(s) \subseteq sections[s].fields /\ Unused \subseteq Objects
  BY CardParts DEF CardFacts, Unused
<1>3. Cardinality(Unused) >= Cardinality(S)
  <2>1. Cardinality(Unused) >= Cardinality(Cards(s)) /\ IsFiniteSet(Cards(s)) /\ IsFiniteSet(Unused)
    BY <1>1, BoundsAssumption, Finite, CardParts DEF MoveSection, Unused, Cards, SectionsOK
  <2>2. /\ Cardinality(S) \in Nat /\ Cardinality(Cards(s)) \in Nat /\ Cardinality(S) <= Cardinality(Cards(s))
        /\ Cardinality(Unused) \in Nat
    BY <1>2, <2>1, Finite
  <2> QED BY <2>1, <2>2
<1>4. /\ f \in Injection(S, Unused) /\ DOMAIN f = S /\ Range(f) \subseteq Unused
      /\ \A o \in Range(f) : \E c \in S : f[c] = o
  BY <1>2, <1>3, CopyExists
<1>5. sections' = [sections EXCEPT ![s].fields = X, ![s].new = FALSE] /\ CopyCards(f, Cards(s) \ S)
  BY <1>4 DEF MoveSection, ReplaceByCopy
<1>6. Copied(f, S, Cards(s) \ S)
  BY <1>2, <1>3, <1>5, CopyCardsNames
<1>7. X \subseteq Objects \cup Names
  BY <1>1, <1>2, <1>4, SectionParts
<1> HIDE DEF f
<1>8. Refilled /\ \A x \in DOMAIN sections : sections'[x].fields = IF x = s THEN X ELSE sections[x].fields
  <2> HIDE DEF X
  <2> QED BY <1>1, <1>5, <1>7, SectionFields
<1>9. \A x \in DOMAIN sections : Cards(x)' = IF x = s THEN (Cards(s) \ S) \cup Range(f) ELSE Cards(x)
  BY <1>2, <1>4, <1>8 DEF Cards, Refilled
<1>10. SectionsOK'
  <2>1. IsFiniteSet(X)
    <3>1. IsFiniteSet(sections[s].fields \ S) /\ IsFiniteSet(Range(f))
      BY <1>1, <1>2, <1>4, BoundsAssumption, Finite DEF SectionsOK
    <3> QED BY <3>1, FS_Union
  <2>2. \A x \in DOMAIN sections' : IsFiniteSet(sections'[x].fields)
    <3> HIDE DEF X
    <3> QED BY <1>1, <1>8, <2>1 DEF SectionsOK, Refilled
  <2>3. \A x \in DOMAIN sections : Cards(x) \cap Range(f) = {}
    BY <1>2, <1>4, CardParts DEF CardFacts
  <2>4. \A x, y \in DOMAIN sections : x # y => Cards(x) \cap Cards(y) = {}
    BY <1>1 DEF SectionsOK
  <2> HIDE DEF S, X
  <2>5. \A x, y \in DOMAIN sections' : x # y => Cards(x)' \cap Cards(y)' = {}
    BY <1>8, <1>9, <2>3, <2>4 DEF Refilled
  <2> QED BY <1>1, <1>8, <2>2, <2>5 DEF SectionsOK, Refilled
<1>11. AllCards' = (AllCards \ S) \cup Range(f)
  <2>1. \A x \in DOMAIN sections : x # s => Cards(x) \cap S = {}
    BY <1>1, <1>2 DEF SectionsOK
  <2>2. \A x \in DOMAIN sections : Cards(x)' \subseteq (AllCards \ S) \cup Range(f)
    BY <1>2, <1>9, <2>1 DEF AllCards
  <2>3. \A o \in AllCards \ S : \E x \in DOMAIN sections : o \in Cards(x)'
    BY <1>9, CardParts DEF CardFacts
  <2>4. Range(f) \subseteq Cards(s)'
    BY <1>9
  <2> HIDE DEF S
  <2>5. \A o \in AllCards' : \E x \in DOMAIN sections : o \in Cards(x)'
    BY <1>8, CardPartsNext DEF Refilled, CardFacts
  <2>6. \A x \in DOMAIN sections : Cards(x)' \subseteq AllCards'
    BY <1>8, CardPartsNext DEF Refilled, CardFacts
  <2> QED BY <2>2, <2>3, <2>4, <2>5, <2>6
<1>12. /\ fields' = fields /\ newFields' = newFields \ Cards(s) /\ known' = FieldNames
       /\ locked' = locked /\ locked = None /\ mode' = mode /\ valid' = valid
       /\ <<loaded, available, listed>>' = <<loaded, available, listed>>
  BY DEF MoveSection, MayDrag, templates
<1>13. NamesOK'
  BY <1>2, <1>4, <1>6, <1>11, <1>12, CopiedKeepsNames
<1>14. PageOK'
  <2>1. FieldNames \subseteq Names
    BY DEF FieldNames, TypeInv, NamesOK
  <2>2. newFields' \subseteq AllCards'
    BY <1>2, <1>11, <1>12 DEF TypeInv, PageOK
  <2> QED BY <1>12, <2>1, <2>2 DEF PageOK, TypeInv
<1>15. TypeInv'
  BY <1>1, <1>10, <1>12, <1>13, <1>14 DEF TypeInv, ListOK
<1> QED BY <1>4, <1>6, <1>8, <1>11, <1>12, <1>15 DEF f

LEMMA CopySectionShape ==
  ASSUME TypeInv, NEW s \in DOMAIN sections, CopySection(s)
  PROVE  LET S == Cards(s)
             f == CopyOf(S)
         IN  /\ TypeInv' /\ Copied(f, S, {}) /\ Range(f) \subseteq Unused
             /\ fields' = fields /\ "copied" \in ways'
<1> DEFINE S == Cards(s)
           f == CopyOf(S)
           X == (sections[s].fields \ Objects) \cup Range(f)
<1> PICK t : t = NewSection
  OBVIOUS
<1>1. SectionsOK /\ ListOK(fields)
  BY DEF TypeInv
<1>2. S \subseteq AllCards /\ S \subseteq Objects /\ AllCards \cap Unused = {} /\ Unused \subseteq Objects
  BY CardParts DEF CardFacts, Unused
<1>3. Cardinality(Unused) >= Cardinality(S) /\ t \in SectionIds /\ t \notin DOMAIN sections
  BY DEF CopySection, Room, NewSection
<1>4. /\ DOMAIN f = S /\ Range(f) \subseteq Unused
      /\ \A o \in Range(f) : \E c \in S : f[c] = o
  BY <1>2, <1>3, CopyExists
<1>5. sections' = With(t, Section(sections[s].kind, sections[s].title, X)) /\ CopyCards(f, {})
  BY DEF CopySection
<1>6. Copied(f, S, {})
  BY <1>2, <1>3, <1>5, CopyCardsNames
<1>7. X \subseteq Objects \cup Names /\ sections[s].kind \in Kinds /\ sections[s].title \in SectionIds
  BY <1>1, <1>2, <1>4, SectionParts
<1> HIDE DEF f
<1>8. SectionIsPut(t, sections[s].kind, X)
  <2> HIDE DEF X
  <2> QED BY <1>1, <1>3, <1>5, <1>7, SectionPut
<1>9. Cards(t)' = Range(f) /\ \A x \in DOMAIN sections : Cards(x)' = Cards(x)
  BY <1>2, <1>4, <1>8 DEF Cards, SectionIsPut
<1>10. SectionsOK'
  <2>1. IsFiniteSet(X)
    <3>1. IsFiniteSet(sections[s].fields \ Objects) /\ IsFiniteSet(Range(f))
      BY <1>1, <1>2, <1>4, BoundsAssumption, Finite DEF SectionsOK
    <3> QED BY <3>1, FS_Union
  <2>2. \A x \in DOMAIN sections' : IsFiniteSet(sections'[x].fields)
    <3> HIDE DEF X
    <3> QED BY <1>1, <1>8, <2>1 DEF SectionsOK, SectionIsPut
  <2>3. \A x \in DOMAIN sections : Cards(x) \cap Range(f) = {}
    BY <1>2, <1>4, CardParts DEF CardFacts
  <2>4. \A x, y \in DOMAIN sections : x # y => Cards(x) \cap Cards(y) = {}
    BY <1>1 DEF SectionsOK
  <2> HIDE DEF S, X
  <2>5. \A x, y \in DOMAIN sections' : x # y => Cards(x)' \cap Cards(y)' = {}
    BY <1>8, <1>9, <2>3, <2>4 DEF SectionIsPut
  <2> QED BY <1>8, <2>2, <2>5 DEF SectionsOK, SectionIsPut
<1>11. AllCards' = AllCards \cup Range(f)
  <2> HIDE DEF S, X
  <2>1. \A o \in AllCards' : o \in AllCards \cup Range(f)
    BY <1>8, <1>9, CardParts, CardPartsNext DEF CardFacts, SectionIsPut
  <2>2. \A o \in AllCards : o \in AllCards'
    BY <1>8, <1>9, CardParts, CardPartsNext DEF CardFacts, SectionIsPut
  <2>3. \A o \in Range(f) : o \in AllCards'
    BY <1>8, <1>9, CardPartsNext DEF CardFacts, SectionIsPut
  <2> QED BY <2>1, <2>2, <2>3
<1>12. /\ fields' = fields /\ newFields' = newFields /\ known' = known
       /\ locked' = locked /\ mode' = mode /\ valid' = valid
       /\ <<loaded, available, listed>>' = <<loaded, available, listed>>
       /\ "copied" \in ways'
  BY DEF CopySection, templates
<1>13. NamesOK'
  BY <1>2, <1>4, <1>6, <1>11, <1>12, CopiedKeepsNames
<1>14. PageOK'
  BY <1>11, <1>12 DEF PageOK, TypeInv
<1>15. TypeInv'
  BY <1>1, <1>10, <1>12, <1>13, <1>14 DEF TypeInv, ListOK
<1> QED BY <1>4, <1>6, <1>12, <1>15 DEF f

----------------------------------------------------------------------------
(* Steps that add a section, or change names. *)

LEMMA DropSectionShape ==
  ASSUME TypeInv, NEW kind \in Kinds, DropSection(kind)
  PROVE  /\ TypeInv' /\ kind # "global" /\ UNCHANGED <<mode, templates, fields, cards, ways>>
         /\ NewSection \notin DOMAIN sections /\ DOMAIN sections' = DOMAIN sections \cup {NewSection}
         /\ sections'[NewSection].kind = kind /\ sections'[NewSection].fields = {}
         /\ \A x \in DOMAIN sections : sections'[x] = sections[x]
         /\ AllCards' = AllCards
<1> DEFINE X == {}
<1> PICK t : t = NewSection
  OBVIOUS
<1>1. SectionsOK /\ t \in SectionIds /\ t \notin DOMAIN sections
  BY NewOnes DEF DropSection, TypeInv
<1>2. SectionIsPut(t, kind, X)
  <2>1. sections' = With(t, Section(kind, t, X))
    BY DEF DropSection
  <2>2. X \subseteq Objects \cup Names
    OBVIOUS
  <2> HIDE DEF X
  <2> QED BY <1>1, <2>1, <2>2, SectionPut
<1> HIDE DEF X
<1>3. Cards(t)' = {} /\ \A x \in DOMAIN sections : Cards(x)' = Cards(x)
  BY <1>2 DEF Cards, X, SectionIsPut
<1>4. SectionsOK'
  BY <1>1, <1>2, <1>3, FS_EmptySet DEF SectionsOK, X, SectionIsPut
<1>5. AllCards' = AllCards
  <2>1. \A o \in AllCards' : o \in AllCards
    BY <1>2, <1>3, CardParts, CardPartsNext DEF CardFacts, SectionIsPut
  <2>2. \A o \in AllCards : o \in AllCards'
    BY <1>2, <1>3, CardParts, CardPartsNext DEF CardFacts, SectionIsPut
  <2> QED BY <2>1, <2>2
<1>6. UNCHANGED <<mode, templates, fields, cards, ways>> /\ UNCHANGED <<known, valid, locked>> /\ kind # "global"
  BY DEF DropSection
<1>7. ListOK(fields)' /\ NamesOK' /\ PageOK'
  BY <1>5, <1>6 DEF TypeInv, ListOK, NamesOK, PageOK, cards, templates
<1> QED BY <1>1, <1>2, <1>4, <1>5, <1>6, <1>7 DEF TypeInv, X, SectionIsPut

LEMMA RenameSectionShape ==
  ASSUME TypeInv, NEW s \in DOMAIN sections, RenameSection(s)
  PROVE  /\ TypeInv' /\ UNCHANGED <<mode, templates, fields, cards, ways>>
         /\ DOMAIN sections' = DOMAIN sections /\ AllCards' = AllCards
         /\ \A x \in DOMAIN sections : /\ sections'[x].kind = sections[x].kind
                                       /\ sections'[x].fields = sections[x].fields
<1> DEFINE D == DOMAIN sections
           r == sections'
<1>1. sections \in [D -> SectionSet] /\ s \in D
  BY DEF TypeInv, SectionsOK
<1>2. r = [sections EXCEPT ![s].title = s] /\ s \in SectionIds
  BY DEF RenameSection, TypeInv, SectionsOK
<1> HIDE DEF D, r
<1>3. /\ r \in [D -> SectionSet] /\ DOMAIN r = D
      /\ \A x \in D : r[x].kind = sections[x].kind /\ r[x].fields = sections[x].fields
  BY <1>1, <1>2, TitleSet
<1>4. \A x \in DOMAIN sections : Cards(x)' = Cards(x)
  BY <1>3 DEF Cards, D, r
<1>5. SectionsOK'
  BY <1>3, <1>4 DEF TypeInv, SectionsOK, D, r
<1>6. AllCards' = AllCards
  BY <1>3, <1>4 DEF AllCards, D, r
<1>7. UNCHANGED <<mode, templates, fields, cards, ways>> /\ UNCHANGED <<known, valid, locked>>
  BY DEF RenameSection
<1>8. ListOK(fields)' /\ NamesOK' /\ PageOK'
  BY <1>6, <1>7 DEF TypeInv, ListOK, NamesOK, PageOK, cards, templates
<1> QED BY <1>3, <1>5, <1>6, <1>7, <1>8 DEF TypeInv, D, r

\* The first field of the card's name gets the new one, if there is one.
Renamed(c, n) ==
  /\ form[c] \in Names
  /\ form[c] \in FieldNames =>
       LET x == fields[First(form[c])]
       IN  x \in Range(fields) /\ name[x] = form[c] /\ name' = [name EXCEPT ![x] = n]
  /\ form[c] \notin FieldNames => name' = name

LEMMA ChangeShape ==
  ASSUME TypeInv, NEW c \in AllCards, NEW n \in Names, Change(c, n),
         UNCHANGED <<mode, templates, sections, fields, newFields, valid>>
  PROVE  TypeInv' /\ Renamed(c, n) /\ AllCards' = AllCards
<1>1. ListOK(fields) /\ form[c] \in Names /\ c \in Objects /\ Range(fields) \subseteq Objects
  BY CardParts, ListParts DEF TypeInv, NamesOK, CardFacts
<1>2. Renamed(c, n)
  <2>1. CASE form[c] \in FieldNames
    BY <1>1, <2>1, FirstOfName DEF Renamed, Change
  <2>2. CASE form[c] \notin FieldNames
    BY <1>1, <2>2 DEF Renamed, Change
  <2> QED BY <2>1, <2>2
<1>3. SectionsOK' /\ AllCards' = AllCards /\ ListOK(fields)' /\ Range(fields)' = Range(fields)
  BY DEF TypeInv, SectionsOK, AllCards, Cards, ListOK
<1>4. name' \in [Objects -> Names \cup {None}] /\ \A o \in Range(fields) \cup AllCards : name'[o] \in Names
  <2>1. /\ name \in [Objects -> Names \cup {None}]
        /\ \A o \in Range(fields) \cup AllCards : o \in Objects /\ name[o] \in Names
    BY <1>1, CardParts DEF TypeInv, NamesOK, CardFacts
  <2>2. CASE form[c] \in FieldNames
    <3> DEFINE x == fields[First(form[c])]
    <3>1. x \in Objects /\ name' = [name EXCEPT ![x] = n]
      BY <1>1, <1>2, <2>2 DEF Renamed
    <3> HIDE DEF x
    <3> QED BY <2>1, <3>1
  <2>3. CASE form[c] \notin FieldNames
    BY <1>2, <2>1, <2>3 DEF Renamed
  <2> QED BY <2>2, <2>3
<1>5. /\ form' \in [Objects -> Names \cup {None}] /\ prior' \in [Objects -> Names \cup {None}]
      /\ \A o \in AllCards : form'[o] \in Names
  <2>1. form' = [form EXCEPT ![c] = n] /\ prior' \in {prior, [prior EXCEPT ![c] = form[c]]}
    BY DEF Change
  <2>2. \A o \in AllCards : o \in Objects /\ form[o] \in Names
    BY CardParts DEF TypeInv, NamesOK, CardFacts
  <2>3. form \in [Objects -> Names \cup {None}] /\ prior \in [Objects -> Names \cup {None}]
    BY DEF TypeInv, NamesOK
  <2> QED BY <1>1, <2>1, <2>2, <2>3
<1>6. NamesOK'
  BY <1>3, <1>4, <1>5 DEF NamesOK
<1>7. PageOK'
  BY <1>3, <1>4 DEF PageOK, TypeInv, Change, templates
<1> QED BY <1>2, <1>3, <1>6, <1>7 DEF TypeInv

LEMMA RenameFieldShape ==
  ASSUME TypeInv, NEW s \in DOMAIN sections, NEW c \in Cards(s), NEW n \in Names, RenameField(s, c, n)
  PROVE  /\ TypeInv' /\ Renamed(c, n) /\ AllCards' = AllCards
         /\ UNCHANGED <<mode, templates, sections, fields, newFields>>
<1>1. c \in AllCards
  BY CardParts DEF CardFacts
<1>2. Change(c, n) /\ UNCHANGED <<mode, templates, sections, fields, newFields, valid>>
  BY DEF RenameField
<1> QED BY <1>1, <1>2, ChangeShape

\* A reference's card names its own object.
LEMMA RenameReferenceShape ==
  ASSUME TypeInv, NEW s \in DOMAIN sections, NEW c \in Cards(s), NEW n \in Names, RenameReference(s, c, n)
  PROVE  /\ TypeInv' /\ AllCards' = AllCards /\ name' = [name EXCEPT ![c] = n]
         /\ UNCHANGED <<mode, templates, sections, fields, newFields>>
<1>1. c \in AllCards /\ c \in Objects
  BY CardParts DEF CardFacts
<1>2. /\ name' = [name EXCEPT ![c] = n]
      /\ UNCHANGED <<mode, templates, sections, fields, form, prior, newFields, known, valid, locked>>
  BY DEF RenameReference
<1>3. SectionsOK' /\ AllCards' = AllCards /\ ListOK(fields)' /\ Range(fields)' = Range(fields)
  BY <1>2 DEF TypeInv, SectionsOK, AllCards, Cards, ListOK
<1>4. NamesOK'
  <2>1. Range(fields) \cup AllCards \subseteq Objects /\ name \in [Objects -> Names \cup {None}]
    BY CardParts, ListParts DEF CardFacts, TypeInv, NamesOK
  <2>2. name' \in [Objects -> Names \cup {None}] /\ \A o \in Range(fields) \cup AllCards : name'[o] \in Names
    BY <1>1, <1>2, <2>1 DEF TypeInv, NamesOK
  <2> QED BY <1>2, <1>3, <2>2 DEF TypeInv, NamesOK
<1>5. PageOK'
  BY <1>2, <1>3 DEF TypeInv, PageOK, templates
<1> QED BY <1>2, <1>3, <1>4, <1>5 DEF TypeInv

\* The old name is typed: no name changes.
LEMMA TypeOldNameShape ==
  ASSUME TypeInv, NEW c \in Objects, TypeOldName(c)
  PROVE  /\ TypeInv' /\ AllCards' = AllCards /\ name' = name
         /\ UNCHANGED <<mode, templates, sections, fields, newFields, ways>>
<1>1. c \in AllCards /\ form[c] \in Names
  BY NamesAssumption, ObjectsAssumption DEF TypeOldName, TypeInv, PageOK, NamesOK
<1>2. Change(c, form[c]) /\ UNCHANGED <<mode, templates, sections, fields, newFields, valid, ways>>
  BY DEF TypeOldName
<1>3. TypeInv' /\ Renamed(c, form[c]) /\ AllCards' = AllCards
  BY <1>1, <1>2, ChangeShape
<1>4. name' = name
  BY <1>3 DEF Renamed, TypeInv, NamesOK
<1> QED BY <1>2, <1>3, <1>4

LEMMA RenameRefusedShape ==
  ASSUME TypeInv, NEW s \in DOMAIN sections, NEW c \in Cards(s), NEW n \in Names, RenameRefused(s, c, n)
  PROVE  /\ TypeInv' /\ AllCards' = AllCards
         /\ UNCHANGED <<mode, templates, sections, fields, name, newFields, ways>>
<1>1. c \in AllCards /\ c \in Objects /\ form[c] \in Names
  BY CardParts DEF CardFacts, TypeInv, NamesOK
<1>2. /\ locked' = c /\ prior' = [prior EXCEPT ![c] = form[c]]
      /\ UNCHANGED <<mode, templates, sections, fields, name, form, newFields, known, valid, ways>>
  BY DEF RenameRefused
<1>3. SectionsOK' /\ AllCards' = AllCards /\ ListOK(fields)' /\ Range(fields)' = Range(fields)
  BY <1>2 DEF TypeInv, SectionsOK, AllCards, Cards, ListOK
<1>4. NamesOK'
  BY <1>1, <1>2, <1>3 DEF TypeInv, NamesOK
<1>5. PageOK'
  BY <1>1, <1>2, <1>3 DEF TypeInv, PageOK, templates
<1> QED BY <1>2, <1>3, <1>4, <1>5 DEF TypeInv

LEMMA OtherStepsShape ==
  ASSUME TypeInv, TemplatesArrive \/ EditOtherStep
  PROVE  TypeInv' /\ AllCards' = AllCards /\ UNCHANGED <<mode, sections, fields, name, newFields, ways>>
<1>1. UNCHANGED <<mode, sections, fields, cards, known, locked, ways>>
  BY DEF TemplatesArrive, EditOtherStep
<1>2. /\ SectionsOK' /\ AllCards' = AllCards /\ ListOK(fields)' /\ Range(fields)' = Range(fields)
      /\ UNCHANGED <<name, newFields>>
  BY <1>1 DEF TypeInv, SectionsOK, AllCards, Cards, ListOK, cards
<1>3. NamesOK'
  BY <1>1, <1>2 DEF TypeInv, NamesOK, cards
<1>4. {loaded', available', listed', valid'} \subseteq BOOLEAN
  BY DEF TemplatesArrive, EditOtherStep, ContentValid, templates, TypeInv, PageOK
<1>5. PageOK'
  BY <1>1, <1>2, <1>4 DEF TypeInv, PageOK
<1> QED BY <1>1, <1>2, <1>3, <1>5 DEF TypeInv

----------------------------------------------------------------------------
(* The start. *)

\* A type is in order if its sections name different fields, and there are objects
\* for all; the template has one section at most, with its field.
NamesOf(type) == UNION {type[s].names : s \in DOMAIN type}

InOrder(type) ==
  /\ DOMAIN type \subseteq SectionIds
  /\ \A s \in DOMAIN type : /\ type[s].kind \in Kinds /\ type[s].names \subseteq Names
                            /\ type[s].kind = "global" => type[s].names = {GlobalName}
  /\ \A s, t \in DOMAIN type : s # t => /\ type[s].names \cap type[t].names = {}
                                        /\ {type[s].kind, type[t].kind} # {"global"}
  /\ IsFiniteSet(NamesOf(type)) /\ Cardinality(NamesOf(type)) <= Cardinality(Objects)

\* What a type is on the page when it is opened.
Fresh ==
  /\ SectionsOK /\ ListOK(fields) /\ AllCards = Range(fields)
  /\ name \in [Objects -> Names \cup {None}]
  /\ \A o \in AllCards : name[o] \in Names
  /\ \A o, p \in AllCards : name[o] = name[p] => o = p
  /\ \A s \in DOMAIN sections : sections[s].fields \subseteq Objects
  /\ \A s \in DOMAIN sections : sections[s].kind = "global" => Shown(s) = {GlobalName}
  /\ \A s, t \in DOMAIN sections : sections[s].kind = "global" /\ sections[t].kind = "global" => s = t
  /\ listed \in BOOLEAN /\ (listed <=> \E s \in DOMAIN sections : sections[s].kind = "global")

\* A list of all elements of a finite set.
LEMMA SetListed ==
  ASSUME NEW S, S \subseteq Objects, IsFiniteSet(S), fields = SetToSeq(S)
  PROVE  ListOK(fields) /\ Range(fields) = S
<1> DEFINE n == Cardinality(S)
<1>1. n \in Nat /\ \E f : f \in Bijection(1..n, S)
  BY FS_CardinalityType DEF ExistsBijection
<1>2. PICK f \in [1..n -> S] : IsInjective(f)
  BY <1>1 DEF Bijection, Injection
<1> DEFINE q == SetToSeq(S)
<1>3. q \in [1..n -> S] /\ IsInjective(q)
  BY <1>2 DEF SetToSeq
<1> HIDE DEF q
<1>4. /\ q \in Seq(Objects) /\ DOMAIN q = 1..n
      /\ \A i, j \in 1..n : q[i] = q[j] => i = j
  <2> HIDE DEF n
  <2>1. q \in [1..n -> Objects]
    BY <1>3
  <2>2. \A i, j \in 1..n : q[i] = q[j] => i = j
    BY <1>3 DEF IsInjective
  <2>3. q \in Seq(Objects)
    BY <1>1, <2>1
  <2> QED BY <2>1, <2>2, <2>3
<1>5. ListOK(q)
  BY <1>4 DEF ListOK
<1>6. Range(q) = S
  <2>1. q \in Injection(1..n, S)
    BY <1>3 DEF Injection
  <2>2. IsFiniteSet(1..n) /\ Cardinality(1..n) = n
    BY <1>1, IntervalSize
  <2> DEFINE N == 1..n
  <2>3. Cardinality(N) = Cardinality(S) /\ IsFiniteSet(S) /\ q \in Injection(N, S)
    BY <2>1, <2>2
  <2> HIDE DEF N, n
  <2>4. q \in Surjection(N, S)
    BY <2>3, FS_Injection
  <2> QED BY <2>4 DEF Surjection, Range
<1> QED BY <1>5, <1>6 DEF q

LEMMA OpenedIsFresh ==
  ASSUME NEW type, InOrder(type), Opened(type)
  PROVE  Fresh
<1> DEFINE names == NamesOf(type)
           object == CHOOSE f \in Injection(names, Objects) : TRUE
           R == Range(object)
<1>1. \E f \in Injection(names, Objects) : TRUE
  BY BoundsAssumption, InjectionExists DEF InOrder
<1>2. object \in Injection(names, Objects)
  BY <1>1
<1>3. /\ fields = SetToSeq(R)
      /\ name = [o \in Objects |-> IF o \in R THEN CHOOSE n \in names : object[n] = o ELSE None]
      /\ sections = [s \in DOMAIN type |->
                       [kind |-> type[s].kind, title |-> s, new |-> FALSE,
                        fields |-> {object[n] : n \in type[s].names}]]
      /\ listed = (\E s \in DOMAIN type : type[s].kind = "global")
  BY DEF Opened, NamesOf
<1> HIDE DEF object
<1>4. /\ object \in [names -> Objects] /\ DOMAIN object = names
      /\ \A m, n \in names : object[m] = object[n] => m = n
      /\ \A n \in names : object[n] \in R /\ object[n] \in Objects
      /\ \A o \in R : \E n \in names : o = object[n]
  <2>1. object \in [names -> Objects] /\ IsInjective(object)
    BY <1>2 DEF Injection
  <2> HIDE DEF names
  <2> QED BY <2>1 DEF IsInjective, Range
<1>5. /\ names \subseteq Names /\ \A s \in DOMAIN type : type[s].names \subseteq names
      /\ \A n \in names : \E s \in DOMAIN type : n \in type[s].names
  BY DEF InOrder, NamesOf
<1>6. IsFiniteSet(R) /\ R \subseteq Objects
  BY <1>4, BoundsAssumption, Finite
<1>7. ListOK(fields) /\ Range(fields) = R
  BY <1>3, <1>6, SetListed
<1> HIDE DEF R, names
<1>8. \A n \in names : name[object[n]] = n
  BY <1>3, <1>4
<1>9. /\ name \in [Objects -> Names \cup {None}]
      /\ \A o \in R : name[o] \in Names
      /\ \A o, p \in R : name[o] = name[p] => o = p
  <2>1. \A o \in R : name[o] \in Names /\ o = object[name[o]]
    BY <1>4, <1>5, <1>8
  <2>2. \A o \in Objects : o \notin R => name[o] = None
    BY <1>3
  <2>3. name \in [Objects -> Names \cup {None}]
    BY <1>3, <2>1, <2>2
  <2> QED BY <2>1, <2>3
<1>10. /\ DOMAIN sections = DOMAIN type
       /\ \A s \in DOMAIN type : /\ sections[s].kind = type[s].kind
                                 /\ sections[s].fields = {object[n] : n \in type[s].names}
                                 /\ sections[s].fields \subseteq R
  BY <1>3, <1>4, <1>5
<1>11. sections \in [DOMAIN sections -> SectionSet]
  <2> DEFINE z(s) == [kind |-> type[s].kind, title |-> s, new |-> FALSE,
                      fields |-> {object[n] : n \in type[s].names}]
  <2>1. sections = [s \in DOMAIN type |-> z(s)]
    BY <1>3
  <2>2. \A s \in DOMAIN type : z(s) \in SectionSet
    <3> SUFFICES ASSUME NEW s \in DOMAIN type PROVE z(s) \in SectionSet
      OBVIOUS
    <3>1. {object[n] : n \in type[s].names} \subseteq Objects
      BY <1>4, <1>5
    <3>2. type[s].kind \in Kinds /\ s \in SectionIds
      BY DEF InOrder
    <3> QED BY <3>1, <3>2 DEF SectionSet
  <2> HIDE DEF z
  <2> QED BY <2>1, <2>2
<1>12. \A s \in DOMAIN sections : Cards(s) = sections[s].fields /\ Shown(s) = type[s].names
  <2> SUFFICES ASSUME NEW s \in DOMAIN sections
               PROVE  Cards(s) = sections[s].fields /\ Shown(s) = type[s].names
    OBVIOUS
  <2>1. sections[s].fields = {object[n] : n \in type[s].names} /\ type[s].names \subseteq names
    BY <1>5, <1>10
  <2>2. Cards(s) = sections[s].fields
    BY <1>6, <1>10 DEF Cards
  <2>3. \A n \in type[s].names : Label(object[n]) = n
    BY <1>4, <1>8, <2>1 DEF Label
  <2>4. Shown(s) = {Label(e) : e \in {object[n] : n \in type[s].names}}
    BY <2>1 DEF Shown
  <2>5. Shown(s) = type[s].names
    BY <2>3, <2>4
  <2> QED BY <2>2, <2>5
<1>13. AllCards = R
  <2>1. \A o \in AllCards : o \in R
    BY <1>10, <1>12 DEF AllCards
  <2>2. \A o \in R : o \in AllCards
    <3> SUFFICES ASSUME NEW o \in R PROVE o \in AllCards
      OBVIOUS
    <3>1. PICK n \in names : o = object[n]
      BY <1>4
    <3>2. PICK s \in DOMAIN type : n \in type[s].names
      BY <1>5
    <3>3. s \in DOMAIN sections /\ o \in Cards(s)
      BY <1>10, <1>12, <3>1, <3>2
    <3> QED BY <3>3 DEF AllCards
  <2> QED BY <2>1, <2>2
<1>14. SectionsOK
  <2>1. \A s \in DOMAIN sections : IsFiniteSet(sections[s].fields)
    BY <1>6, <1>10, Finite
  <2>2. \A s, t \in DOMAIN sections : s # t => Cards(s) \cap Cards(t) = {}
    <3> SUFFICES ASSUME NEW s \in DOMAIN type, NEW t \in DOMAIN type, s # t,
                        NEW m \in type[s].names, NEW n \in type[t].names, object[m] = object[n]
                 PROVE  FALSE
      BY <1>10, <1>12
    <3>1. m = n
      BY <1>4, <1>5
    <3> QED BY <3>1 DEF InOrder
  <2> QED BY <1>10, <1>11, <2>1, <2>2 DEF SectionsOK, InOrder
<1>15. \A s, t \in DOMAIN sections : sections[s].kind = "global" /\ sections[t].kind = "global" => s = t
  <2> SUFFICES ASSUME NEW s \in DOMAIN type, NEW t \in DOMAIN type,
                      type[s].kind = "global", type[t].kind = "global", s # t
               PROVE  FALSE
    BY <1>10
  <2>1. {type[s].kind, type[t].kind} # {"global"}
    BY DEF InOrder
  <2>2. {type[s].kind, type[t].kind} = {"global"}
    OBVIOUS
  <2> QED BY <2>1, <2>2
<1>16. \A s \in DOMAIN sections : sections[s].kind = "global" => Shown(s) = {GlobalName}
  BY <1>10, <1>12 DEF InOrder
<1>17. listed \in BOOLEAN /\ (listed <=> \E s \in DOMAIN sections : sections[s].kind = "global")
  <2>1. (\E s \in DOMAIN sections : sections[s].kind = "global") <=> (\E s \in DOMAIN type : type[s].kind = "global")
    BY <1>10
  <2>2. listed = (\E s \in DOMAIN type : type[s].kind = "global")
    BY <1>3
  <2> QED BY <2>1, <2>2
<1>18. \A s \in DOMAIN sections : sections[s].fields \subseteq Objects
  BY <1>6, <1>10
<1> QED BY <1>7, <1>9, <1>13, <1>14, <1>15, <1>16, <1>17, <1>18 DEF Fresh

LEMMA InitIsFresh ==
  ASSUME Init
  PROVE  Fresh
<1>1. CASE Opened(<<>>)
  <2>1. DOMAIN <<>> = {}
    OBVIOUS
  <2>2. NamesOf(<<>>) = {} /\ IsFiniteSet({}) /\ Cardinality({}) = 0 /\ Cardinality(Objects) \in Nat
    BY <2>1, FS_EmptySet, FS_CardinalityType, BoundsAssumption DEF NamesOf
  <2>3. InOrder(<<>>)
    BY <2>1, <2>2 DEF InOrder
  <2> QED BY <1>1, <2>3, OpenedIsFresh
<1>2. CASE Opened(Base)
  <2>1. NamesOf(Base) = BaseNames
    BY DEF NamesOf, BaseNames
  <2>2. InOrder(Base)
    BY <2>1, BaseAssumption DEF InOrder
  <2> QED BY <1>2, <2>2, OpenedIsFresh
<1> QED BY <1>1, <1>2 DEF Init

LEMMA InitTypes ==
  ASSUME Init
  PROVE  TypeInv
<1>1. Fresh
  BY InitIsFresh
<1>2. /\ mode \in {"create", "edit"} /\ loaded = FALSE /\ available = FALSE
      /\ form = name /\ prior = [o \in Objects |-> None] /\ newFields = {} /\ known = FieldNames
      /\ locked = None
  BY DEF Init
<1>3. valid \in BOOLEAN
  BY DEF Init
<1>4. NamesOK
  BY <1>1, <1>2 DEF Fresh, NamesOK
<1>5. known \subseteq Names
  BY <1>1, <1>2 DEF Fresh, FieldNames
<1>6. PageOK
  BY <1>1, <1>2, <1>3, <1>5 DEF Fresh, PageOK
<1> QED BY <1>1, <1>4, <1>6 DEF Fresh, TypeInv

----------------------------------------------------------------------------
(* Type correctness. *)

LEMMA StepKeepsTypes ==
  ASSUME TypeInv, [Next]_vars
  PROVE  TypeInv'
<1>1. ASSUME NEW kind \in Kinds, DropSection(kind) PROVE TypeInv'
  BY <1>1, DropSectionShape
<1>2. ASSUME NEW n \in Names, DropTemplate(n) PROVE TypeInv'
  BY <1>2, DropTemplateAdds
<1>3. CASE DropGlobalTemplate
  BY <1>3, DropGlobalAdds
<1>4. ASSUME NEW s \in DOMAIN sections, NEW k \in Controls, NEW n \in Names, DropField(s, k, n) PROVE TypeInv'
  BY <1>4, DropFieldAdds
<1>5. ASSUME NEW s \in DOMAIN sections, NEW c \in Cards(s), NEW t \in DOMAIN sections, MoveField(c, s, t)
      PROVE  TypeInv'
  BY <1>5, MoveFieldShape
<1>6. ASSUME NEW s \in DOMAIN sections, NEW c \in Cards(s), NEW n \in Names, RenameField(s, c, n)
      PROVE  TypeInv'
  BY <1>6, RenameFieldShape
<1>7. ASSUME NEW s \in DOMAIN sections, NEW c \in Cards(s), NEW n \in Names, RenameRefused(s, c, n)
      PROVE  TypeInv'
  BY <1>7, RenameRefusedShape
<1>8. ASSUME NEW s \in DOMAIN sections, NEW c \in Cards(s), RemoveField(s, c) PROVE TypeInv'
  BY <1>8, RemoveFieldShape
<1>9. ASSUME NEW s \in DOMAIN sections, MoveSection(s) PROVE TypeInv'
  BY <1>9, MoveSectionShape
<1>10. ASSUME NEW s \in DOMAIN sections, CopySection(s) PROVE TypeInv'
  BY <1>10, CopySectionShape
<1>11. ASSUME NEW s \in DOMAIN sections, RenameSection(s) PROVE TypeInv'
  BY <1>11, RenameSectionShape
<1>12. ASSUME NEW s \in DOMAIN sections, RemoveSection(s) PROVE TypeInv'
  BY <1>12, RemoveSectionShape
<1>13. ASSUME NEW c \in Objects, TypeOldName(c) PROVE TypeInv'
  BY <1>13, TypeOldNameShape
<1>14. CASE TemplatesArrive \/ EditOtherStep
  BY <1>14, OtherStepsShape
<1>15. CASE SaveFails
  BY <1>15, SaveFailsShape
<1>16. CASE UNCHANGED vars
  BY <1>16 DEF vars, templates, cards, TypeInv, SectionsOK, ListOK, NamesOK, PageOK, AllCards, Cards
<1>17. ASSUME NEW s \in DOMAIN sections, NEW c \in Cards(s), NEW n \in Names, RenameReference(s, c, n)
       PROVE  TypeInv'
  BY <1>17, RenameReferenceShape
<1> QED BY <1>1, <1>2, <1>3, <1>4, <1>5, <1>6, <1>7, <1>8, <1>9, <1>10, <1>11, <1>12, <1>13, <1>14,
           <1>15, <1>16, <1>17 DEF Next

\* A copy is of the type of what was copied.
LEMMA CopyKeepsControl ==
  ASSUME ControlOK, NEW S, S \subseteq Objects, Cardinality(Unused) >= Cardinality(S), NEW T, CopyCards(CopyOf(S), T)
  PROVE  ControlOK'
<1> DEFINE f == CopyOf(S)
           Of(o) == IF o \in Range(f) THEN CHOOSE c \in DOMAIN f : f[c] = o ELSE o
<1>1. DOMAIN f = S /\ \A o \in Range(f) : \E c \in S : f[c] = o
  BY CopyExists
<1>2. control' = [o \in Objects |-> control[Of(o)]]
  BY DEF CopyCards
<1> HIDE DEF f
<1>3. \A o \in Objects : Of(o) \in Objects
  BY <1>1
<1> HIDE DEF Of
<1> QED BY <1>2, <1>3 DEF ControlOK

LEMMA StepKeepsControl ==
  ASSUME TypeInv, ControlOK, [Next]_vars
  PROVE  ControlOK'
<1>1. ASSUME NEW k \in Controls, control' = [control EXCEPT ![NewObject] = k] PROVE ControlOK'
  BY <1>1 DEF ControlOK
<1>2. ASSUME NEW S, Forget(S) PROVE ControlOK'
  BY <1>2 DEF Forget, ControlOK, Controls
<1>3. CASE UNCHANGED control
  BY <1>3 DEF ControlOK
<1>4. ASSUME \/ \E n \in Names : DropTemplate(n)
             \/ DropGlobalTemplate
             \/ \E s \in DOMAIN sections, k \in Controls, n \in Names : DropField(s, k, n)
      PROVE  ControlOK'
  <2>1. \E k \in Controls : control' = [control EXCEPT ![NewObject] = k]
    BY <1>4 DEF DropTemplate, DropGlobalTemplate, DropWithField, DropField, NewField, Controls
  <2> QED BY <1>1, <2>1
<1>5. ASSUME \/ \E s \in DOMAIN sections : RemoveSection(s) \/ \E c \in Cards(s) : RemoveField(s, c)
             \/ SaveFails
      PROVE  ControlOK'
  <2>1. \E S : Forget(S)
    BY <1>5 DEF RemoveSection, RemoveField, SaveFails
  <2> QED BY <1>2, <2>1
<1>6. ASSUME NEW s \in DOMAIN sections, MoveSection(s) PROVE ControlOK'
  <2> DEFINE S == Cards(s) \cap Range(fields)
  <2>1. Cards(s) \subseteq Objects /\ IsFiniteSet(Cards(s)) /\ IsFiniteSet(Unused)
    BY BoundsAssumption, Finite, CardParts DEF CardFacts, Unused
  <2>2. S \subseteq Objects /\ Cardinality(S) <= Cardinality(Cards(s)) /\ Cardinality(S) \in Nat
    BY <2>1, Finite
  <2>3. Cardinality(Cards(s)) \in Nat /\ Cardinality(Unused) \in Nat
    BY <2>1, Finite
  <2>4. Cardinality(Unused) >= Cardinality(Cards(s))
    BY <1>6 DEF MoveSection
  <2>5. Cardinality(Unused) >= Cardinality(S)
    BY <2>2, <2>3, <2>4
  <2>6. DOMAIN CopyOf(S) = S
    BY <2>2, <2>5, CopyExists
  <2>7. CopyCards(CopyOf(S), Cards(s) \ S)
    BY <1>6, <2>6 DEF MoveSection, ReplaceByCopy
  <2> HIDE DEF S
  <2> QED BY <2>2, <2>5, <2>7, CopyKeepsControl
<1>7. ASSUME NEW s \in DOMAIN sections, CopySection(s) PROVE ControlOK'
  <2>1. Cards(s) \subseteq Objects
    BY CardParts DEF CardFacts
  <2>2. Cardinality(Unused) >= Cardinality(Cards(s)) /\ CopyCards(CopyOf(Cards(s)), {})
    BY <1>7 DEF CopySection, Room
  <2> QED BY <2>1, <2>2, CopyKeepsControl
<1>8. ASSUME NEW s \in DOMAIN sections,
             \/ RenameSection(s)
             \/ \E c \in Cards(s) : \/ \E t \in DOMAIN sections : MoveField(c, s, t)
                                    \/ \E n \in Names : \/ RenameField(s, c, n) \/ RenameRefused(s, c, n)
                                                       \/ RenameReference(s, c, n)
      PROVE  UNCHANGED control
  BY <1>8 DEF RenameSection, MoveField, RenameField, RenameRefused, RenameReference, cards
<1>9. ASSUME \/ \E kind \in Kinds : DropSection(kind)
             \/ \E c \in Objects : TypeOldName(c)
             \/ TemplatesArrive \/ EditOtherStep
             \/ UNCHANGED vars
      PROVE  UNCHANGED control
  BY <1>9 DEF DropSection, TypeOldName, TemplatesArrive, EditOtherStep, vars, cards
<1> QED BY <1>3, <1>4, <1>5, <1>6, <1>7, <1>8, <1>9 DEF Next

\* The page is of its types, which every handler of the builder relies on: an object
\* that is in the list or on a card has a name, and one that is locked has a card.
THEOREM TypeCorrect == Spec => []TypeOK
<1>1. Init => TypeInv /\ ControlOK
  BY InitTypes DEF Init, ControlOK, Controls
<1>2. TypeInv /\ ControlOK /\ [Next]_vars => TypeInv' /\ ControlOK'
  BY StepKeepsTypes, StepKeepsControl
<1>3. TypeInv /\ ControlOK => TypeOK
  BY TypeInvImpliesTypeOK
<1> QED BY <1>1, <1>2, <1>3, PTL DEF Spec

----------------------------------------------------------------------------
(* Identifiers. *)

LEMMA WaysGrow ==
  ASSUME [Next]_vars
  PROVE  ways \subseteq ways'
<1>1. ASSUME \/ \E kind \in Kinds : DropSection(kind)
             \/ \E n \in Names : DropTemplate(n)
             \/ TemplatesArrive \/ EditOtherStep \/ SaveFails
             \/ \E c \in Objects : TypeOldName(c)
      PROVE  ways' = ways
  BY <1>1 DEF DropSection, DropTemplate, TemplatesArrive, EditOtherStep, SaveFails, TypeOldName
<1>2. CASE UNCHANGED vars
  BY <1>2 DEF vars
<1>3. ASSUME NEW s \in DOMAIN sections, RenameSection(s) \/ MoveSection(s) PROVE ways' = ways
  BY <1>3 DEF RenameSection, MoveSection
<1>4. ASSUME NEW s \in DOMAIN sections, NEW c \in Cards(s), NEW n \in Names, RenameRefused(s, c, n)
      PROVE  ways' = ways
  BY <1>4 DEF RenameRefused
<1>5. DropGlobalTemplate => ways \subseteq ways'
  BY DEF DropGlobalTemplate
<1>6. ASSUME NEW s \in DOMAIN sections, CopySection(s) \/ RemoveSection(s) PROVE ways \subseteq ways'
  BY <1>6 DEF CopySection, RemoveSection
<1>7. ASSUME NEW s \in DOMAIN sections, NEW k \in Controls, NEW n \in Names, DropField(s, k, n) PROVE ways \subseteq ways'
  BY <1>7 DEF DropField
<1>8. ASSUME NEW s \in DOMAIN sections, NEW c \in Cards(s), NEW t \in DOMAIN sections, MoveField(c, s, t)
      PROVE  ways \subseteq ways'
  BY <1>8 DEF MoveField
<1>9. ASSUME NEW s \in DOMAIN sections, NEW c \in Cards(s), RemoveField(s, c) PROVE ways \subseteq ways'
  BY <1>9 DEF RemoveField
<1>10. ASSUME NEW s \in DOMAIN sections, NEW c \in Cards(s), NEW n \in Names, RenameField(s, c, n)
       PROVE  ways \subseteq ways'
  BY <1>10 DEF RenameField
<1>11. ASSUME NEW s \in DOMAIN sections, NEW c \in Cards(s), NEW n \in Names, RenameReference(s, c, n)
       PROVE  ways \subseteq ways'
  BY <1>11 DEF RenameReference
<1> QED BY <1>1, <1>2, <1>3, <1>4, <1>5, <1>6, <1>7, <1>8, <1>9, <1>10, <1>11 DEF Next

Distinct == \A o, p \in Range(fields) : name[o] = name[p] => o = p
IdentInv == ways \cap {"priorName", "notKnown", "unchecked", "nextLocation", "taken"} = {} => Distinct

LEMMA IdentInvImplies == TypeInv /\ IdentInv => IdentifiersUnique
<1> SUFFICES ASSUME TypeInv, Distinct PROVE Cardinality(FieldNames) = Len(fields)
  BY DEF IdentInv, IdentifiersUnique
<1> DEFINE R == Range(fields)
           f == [o \in R |-> name[o]]
<1>1. IsFiniteSet(R) /\ Cardinality(R) = Len(fields)
  BY ListParts DEF TypeInv
<1>2. f \in [R -> FieldNames]
  BY DEF FieldNames
<1>3. \A o, p \in R : f[o] = f[p] => o = p
  BY DEF Distinct
<1>4. \A n \in FieldNames : \E o \in R : f[o] = n
  BY DEF FieldNames
<1> HIDE DEF R, f
<1> QED BY <1>1, <1>2, <1>3, <1>4, SameSize

\* It stays so when fields go, and when one with a new name comes.
LEMMA DistinctKept ==
  ASSUME Distinct, Range(fields)' \subseteq Range(fields), \A o \in Range(fields)' : name'[o] = name[o]
  PROVE  Distinct'
BY DEF Distinct

LEMMA DistinctAdded ==
  ASSUME Distinct, ListOK(fields), NEW o, NEW n, Listed(o, n), n \notin FieldNames
  PROVE  Distinct'
<1>1. /\ Range(fields)' = Range(fields) \cup {o} /\ o \notin Range(fields) /\ name'[o] = n
      /\ \A x \in Range(fields) : name'[x] = name[x] /\ name[x] # n
  BY ListParts DEF Listed, InUse, FieldNames
<1> QED BY <1>1 DEF Distinct

LEMMA IdentStep ==
  ASSUME TypeInv, IdentInv, [Next]_vars
  PROVE  IdentInv'
<1> SUFFICES ASSUME ways' \cap {"priorName", "notKnown", "unchecked", "nextLocation", "taken"} = {} PROVE Distinct'
  BY DEF IdentInv
<1>1. Distinct /\ ListOK(fields) /\ Range(fields) \subseteq Objects
  BY WaysGrow, ListParts DEF IdentInv, TypeInv
<1>2. ASSUME Range(fields)' \subseteq Range(fields), \A o \in Range(fields)' : name'[o] = name[o]
      PROVE  Distinct'
  BY <1>1, <1>2, DistinctKept
<1>3. ASSUME NEW n \in Names, DropTemplate(n) PROVE Distinct'
  <2>1. n \notin FieldNames
    BY <1>3 DEF DropTemplate, Random
  <2> QED BY <1>1, <1>3, <2>1, DropTemplateAdds, DistinctAdded DEF Adds
<1>4. CASE DropGlobalTemplate
  <2>1. GlobalName \notin FieldNames
    BY <1>4 DEF DropGlobalTemplate
  <2> QED BY <1>1, <1>4, <2>1, DropGlobalAdds, DistinctAdded DEF Adds
<1>5. ASSUME NEW s \in DOMAIN sections, NEW k \in Controls, NEW n \in Names, DropField(s, k, n) PROVE Distinct'
  <2>1. n \notin FieldNames
    BY <1>5 DEF DropField
  <2> QED BY <1>1, <1>5, <2>1, DropFieldAdds, DistinctAdded DEF Adds
<1>6. ASSUME NEW s \in DOMAIN sections, NEW c \in Cards(s), NEW n \in Names, RenameField(s, c, n)
      PROVE  Distinct'
  <2>1. n \notin FieldNames
    <3>1. n \notin known \/ n = prior[c]
      BY <1>6 DEF RenameField, Accepted
    <3>2. ~(n \in FieldNames /\ n = prior[c]) /\ ~(n \in FieldNames \ known)
      BY <1>6 DEF RenameField
    <3> QED BY <3>1, <3>2
  <2>2. Renamed(c, n) /\ fields' = fields
    BY <1>6, RenameFieldShape
  <2>3. CASE form[c] \in FieldNames
    <3> DEFINE x == fields[First(form[c])]
    <3>1. x \in Range(fields) /\ name' = [name EXCEPT ![x] = n] /\ name \in [Objects -> Names \cup {None}]
      BY <2>2, <2>3 DEF Renamed, TypeInv, NamesOK
    <3> HIDE DEF x
    <3>2. \A o \in Range(fields) : name[o] # n
      BY <2>1 DEF FieldNames
    <3>3. \A o \in Range(fields) : name'[o] = IF o = x THEN n ELSE name[o]
      BY <1>1, <3>1
    <3> QED BY <1>1, <2>2, <3>2, <3>3 DEF Distinct
  <2>4. CASE form[c] \notin FieldNames
    BY <1>2, <2>2, <2>4 DEF Renamed
  <2> QED BY <2>3, <2>4
<1>7. ASSUME NEW s \in DOMAIN sections, NEW c \in Cards(s), NEW t \in DOMAIN sections, MoveField(c, s, t)
      PROVE  Distinct'
  BY <1>2, <1>7, MoveFieldShape
<1>8. ASSUME NEW s \in DOMAIN sections, NEW c \in Cards(s), RemoveField(s, c) PROVE Distinct'
  BY <1>2, <1>8, RemoveFieldShape DEF Forgotten
<1>9. ASSUME NEW s \in DOMAIN sections, MoveSection(s) PROVE Distinct'
  <2> DEFINE S == Cards(s) \cap Range(fields)
             f == CopyOf(S)
  <2>1. fields' = fields /\ Copied(f, S, Cards(s) \ S) /\ f \in Injection(S, Unused)
    BY <1>9, MoveSectionShape
  <2>2. Range(f) \subseteq Unused
    BY <2>1 DEF Injection, Range
  <2> HIDE DEF S, f
  <2>3. \A o \in Range(fields) : name'[o] = name[o]
    BY <1>1, <2>1, <2>2 DEF Copied, Unused, InUse
  <2> QED BY <1>2, <2>1, <2>3
<1>10. ASSUME NEW s \in DOMAIN sections, CopySection(s) PROVE Distinct'
  <2> DEFINE f == CopyOf(Cards(s))
  <2>1. fields' = fields /\ Copied(f, Cards(s), {}) /\ Range(f) \subseteq Unused
    BY <1>10, CopySectionShape
  <2> HIDE DEF f
  <2>2. \A o \in Range(fields) : name'[o] = name[o]
    BY <1>1, <2>1 DEF Copied, Unused, InUse
  <2> QED BY <1>2, <2>1, <2>2
<1>11. ASSUME NEW s \in DOMAIN sections, RemoveSection(s) PROVE Distinct'
  BY <1>2, <1>11, RemoveSectionShape DEF Forgotten
<1>12. CASE SaveFails
  BY <1>2, <1>12, SaveFailsShape DEF Forgotten
<1>13. ASSUME NEW c \in Objects, TypeOldName(c) PROVE Distinct'
  BY <1>2, <1>13, TypeOldNameShape
<1>14. CASE UNCHANGED <<fields, name>>
  BY <1>2, <1>14
<1>15. ASSUME \/ \E kind \in Kinds : DropSection(kind)
              \/ \E s \in DOMAIN sections : \/ RenameSection(s)
                                            \/ \E c \in Cards(s) : \E n \in Names : RenameRefused(s, c, n)
              \/ TemplatesArrive \/ EditOtherStep
              \/ UNCHANGED vars
       PROVE  UNCHANGED <<fields, name>>
  BY <1>15 DEF DropSection, RenameSection, RenameRefused, TemplatesArrive, EditOtherStep, vars, cards
<1>16. ASSUME NEW s \in DOMAIN sections, NEW c \in Cards(s), NEW n \in Names, RenameReference(s, c, n)
       PROVE  Distinct'
  <2>1. fields' = fields /\ name' = [name EXCEPT ![c] = n] /\ name \in [Objects -> Names \cup {None}]
    BY <1>16, RenameReferenceShape DEF TypeInv, NamesOK
  <2>2. \A o \in Range(fields) : name'[o] = IF o = c THEN n ELSE name[o]
    BY <1>1, <2>1
  <2>3. CASE c \in Range(fields)
    <3>1. n \notin FieldNames
      BY <1>16, <2>3 DEF RenameReference
    <3>2. \A o \in Range(fields) : name[o] # n
      BY <3>1 DEF FieldNames
    <3> QED BY <1>1, <2>1, <2>2, <3>2 DEF Distinct
  <2>4. CASE c \notin Range(fields)
    BY <1>2, <2>1, <2>2, <2>4
  <2> QED BY <2>3, <2>4
<1> QED BY <1>3, <1>4, <1>5, <1>6, <1>7, <1>8, <1>9, <1>10, <1>11, <1>12, <1>13, <1>14, <1>15, <1>16 DEF Next

\* No two fields of a type have one name, but for a name given twice in one of the
\* ways named: the test of a new name (onInputChange) looks at the names known when
\* the list last changed, and lets a card have its prior name again; a reference's
\* card (onNameChange) tests none, and every Location control has the same name.
THEOREM IdentifiersUniqueAlways == Spec => []IdentifiersUnique
<1>1. Init => TypeInv /\ IdentInv
  BY InitTypes, InitIsFresh DEF Fresh, IdentInv, Distinct
<1>2. TypeInv /\ IdentInv /\ [Next]_vars => TypeInv' /\ IdentInv'
  BY StepKeepsTypes, IdentStep
<1>3. TypeInv /\ IdentInv => IdentifiersUnique
  BY IdentInvImplies
<1> QED BY <1>1, <1>2, <1>3, PTL DEF Spec

----------------------------------------------------------------------------
(* The global template. *)

Global(s) == s \in DOMAIN sections /\ sections[s].kind = "global"

\* There is one section of it at most, and it is listed if there is one; it is
\* offered if it is not listed, once the templates have come. Before, its section is
\* of the type that was opened, whose fields the page does not let be renamed.
TemplateParts ==
  /\ \A s, t : Global(s) /\ Global(t) => s = t
  /\ listed <=> \E s : Global(s)
  /\ loaded => (available <=> ~listed)
  /\ ~loaded => ~available
  /\ ~loaded => \A s : Global(s) => mode = "edit" /\ Cards(s) \cap newFields = {}
  /\ \A s : Global(s) => Shown(s) = {GlobalName}

TemplateInv == ways \cap {"early", "copied", "otherRenamed"} = {} => TemplateParts

\* A step that leaves the template's section as it is.
SameGlobals ==
  /\ mode' = mode /\ UNCHANGED <<loaded, available, listed>>
  /\ \A s : Global(s)' <=> Global(s)
  /\ \A s : Global(s) => Shown(s)' = Shown(s)
  /\ \A s : Global(s) /\ ~loaded /\ Cards(s) \cap newFields = {} => Cards(s)' \cap newFields' = {}

LEMMA SameGlobalsKeep ==
  ASSUME TemplateParts, SameGlobals
  PROVE  TemplateParts'
<1>1. (\E s : Global(s)') <=> (\E s : Global(s))
  BY DEF SameGlobals
<1>2. ~loaded' => \A s : Global(s)' => mode' = "edit" /\ Cards(s)' \cap newFields' = {}
  BY DEF SameGlobals, TemplateParts
<1>3. \A s : Global(s)' => Shown(s)' = {GlobalName}
  BY DEF SameGlobals, TemplateParts
<1>4. \A s, t : Global(s)' /\ Global(t)' => s = t
  BY DEF SameGlobals, TemplateParts
<1>5. /\ loaded' = loaded /\ available' = available /\ listed' = listed
      /\ (listed <=> \E s : Global(s)) /\ (loaded => (available <=> ~listed)) /\ (~loaded => ~available)
  BY DEF SameGlobals, TemplateParts
<1>6. listed' <=> \E s : Global(s)'
  BY <1>1, <1>5
<1>7. (loaded' => (available' <=> ~listed')) /\ (~loaded' => ~available')
  BY <1>5
<1> QED BY <1>2, <1>3, <1>4, <1>6, <1>7 DEF TemplateParts

\* A section with the same fields, of the same names, shows the same.
LEMMA ShownSame ==
  ASSUME NEW s, sections'[s].fields = sections[s].fields, \A c \in Cards(s) : name'[c] = name[c]
  PROVE  Shown(s)' = Shown(s) /\ Cards(s)' = Cards(s)
<1>1. Cards(s)' = Cards(s)
  BY DEF Cards
<1>2. \A e \in sections[s].fields : Label(e)' = Label(e)
  BY DEF Label, Cards
<1>3. Shown(s) = {Label(e) : e \in sections[s].fields} /\ Shown(s)' = {Label(e)' : e \in sections'[s].fields}
  BY DEF Shown
<1> QED BY <1>1, <1>2, <1>3

\* Of a step that changes no fields of the template's section.
LEMMA UntouchedGlobals ==
  ASSUME CardFacts, UNCHANGED <<mode, loaded, available, listed>>,
         \A s : Global(s)' <=> Global(s),
         \A s : Global(s) => sections'[s].fields = sections[s].fields,
         \A s : Global(s) => \A c \in Cards(s) : name'[c] = name[c],
         \A c \in AllCards : c \in newFields' => c \in newFields
  PROVE  SameGlobals
<1>1. \A s : Global(s) => Shown(s)' = Shown(s) /\ Cards(s)' = Cards(s)
  BY ShownSame
<1>2. \A s : Global(s) => Cards(s) \subseteq AllCards
  BY DEF CardFacts, Global
<1>3. \A s : Global(s) /\ ~loaded /\ Cards(s) \cap newFields = {} => Cards(s)' \cap newFields' = {}
  BY <1>1, <1>2
<1> QED BY <1>1, <1>3 DEF SameGlobals

\* A field that comes into a section of another kind.
LEMMA AddElsewhere ==
  ASSUME TypeInv, NEW o, NEW n, NEW s, Adds(o, n, s), UNCHANGED <<mode, loaded, available, listed>>,
         sections'[s].kind # "global", s \in DOMAIN sections => sections[s].kind # "global"
  PROVE  SameGlobals
<1>1. CardFacts /\ o \notin AllCards /\ DOMAIN sections' = DOMAIN sections \cup {s}
  BY CardParts DEF Adds, Listed, PutIn, CardFacts
<1>2. \A x \in DOMAIN sections : x # s => /\ sections'[x].kind = sections[x].kind
                                          /\ sections'[x].fields = sections[x].fields
  BY DEF Adds, PutIn
<1>3. \A x : Global(x)' <=> Global(x)
  BY <1>1, <1>2 DEF Global
<1>4. \A x : Global(x) => sections'[x].fields = sections[x].fields
  BY <1>2 DEF Global
<1>5. \A c \in AllCards : name'[c] = name[c] /\ (c \in newFields' => c \in newFields)
  BY <1>1 DEF Adds, Listed, CardFacts
<1>6. \A x : Global(x) => \A c \in Cards(x) : name'[c] = name[c]
  BY <1>1, <1>5 DEF CardFacts, Global
<1> QED BY <1>1, <1>3, <1>4, <1>5, <1>6, UntouchedGlobals

\* The template's section comes.
LEMMA TemplateDropped ==
  ASSUME TypeInv, TemplateParts, DropGlobalTemplate
  PROVE  TemplateParts'
<1> PICK t : t = NewSection
  OBVIOUS
<1> PICK o : o = NewObject
  OBVIOUS
<1>1. /\ Listed(o, GlobalName) /\ PutIn(o, t) /\ t \notin DOMAIN sections
      /\ sections'[t].kind = "global"
  BY DropGlobalAdds DEF Adds
<1>2. available /\ loaded' = loaded /\ available' = FALSE /\ listed' = TRUE
  BY DEF DropGlobalTemplate
<1>3. loaded /\ ~listed /\ \A s : ~Global(s)
  BY <1>2 DEF TemplateParts
<1>4. /\ DOMAIN sections' = DOMAIN sections \cup {t} /\ sections'[t].fields = {o}
      /\ \A x \in DOMAIN sections : x # t /\ sections'[x].kind = sections[x].kind
  BY <1>1 DEF PutIn
<1>5. \A s : Global(s)' <=> s = t
  BY <1>1, <1>3, <1>4 DEF Global
<1>6. Shown(t)' = {GlobalName}
  <2>1. Label(o)' = GlobalName
    BY <1>1 DEF Label, Listed
  <2>2. Shown(t)' = {Label(e)' : e \in {o}}
    BY <1>4 DEF Shown
  <2> QED BY <2>1, <2>2
<1> QED BY <1>2, <1>3, <1>5, <1>6 DEF TemplateParts

\* It goes.
LEMMA TemplateRemoved ==
  ASSUME TypeInv, TemplateParts, NEW s \in DOMAIN sections, RemoveSection(s),
         "early" \notin ways'
  PROVE  TemplateParts'
<1>1. /\ DOMAIN sections' = DOMAIN sections \ {s}
      /\ \A x \in DOMAIN sections \ {s} : sections'[x] = sections[x] /\ Cards(x)' = Cards(x)
      /\ AllCards' = AllCards \ Cards(s) /\ Forgotten(Cards(s)) /\ CardFacts
  BY RemoveSectionShape, CardParts
<1>2. CASE sections[s].kind = "global"
  <2>1. loaded /\ loaded' = loaded
    BY <1>2 DEF RemoveSection
  <2>2. listed /\ ~available
    BY <1>2, <2>1 DEF TemplateParts, Global
  <2>3. available' = TRUE /\ listed' = FALSE
    BY <1>2, <2>1, <2>2 DEF RemoveSection, Unlist, IsGlobalSection
  <2>4. \A x : ~Global(x)'
    BY <1>1, <1>2 DEF Global, TemplateParts
  <2> QED BY <2>1, <2>3, <2>4 DEF TemplateParts
<1>3. CASE sections[s].kind # "global"
  <2>1. UNCHANGED <<mode, loaded, available, listed>>
    BY <1>3 DEF RemoveSection, Unlist, IsGlobalSection
  <2>2. \A x : Global(x)' <=> Global(x)
    BY <1>1, <1>3 DEF Global
  <2>3. \A x : Global(x) => x \in DOMAIN sections \ {s} /\ sections'[x].fields = sections[x].fields
    BY <1>1, <1>3 DEF Global
  <2>4. \A x \in DOMAIN sections \ {s} : \A c \in Cards(x) : name'[c] = name[c]
    <3> SUFFICES ASSUME NEW x \in DOMAIN sections \ {s}, NEW c \in Cards(x) PROVE name'[c] = name[c]
      OBVIOUS
    <3>1. c \in AllCards'
      BY <1>1 DEF AllCards
    <3> QED BY <1>1, <3>1 DEF Forgotten
  <2>5. \A c \in AllCards : c \in newFields' => c \in newFields
    BY <1>1 DEF Forgotten
  <2>6. SameGlobals
    BY <1>1, <2>1, <2>2, <2>3, <2>4, <2>5, UntouchedGlobals
  <2> QED BY <2>6, SameGlobalsKeep
<1> QED BY <1>2, <1>3

\* It is replaced by a copy that shows the same.
LEMMA TemplateMoved ==
  ASSUME TypeInv, NEW s \in DOMAIN sections, MoveSection(s)
  PROVE  SameGlobals
<1> PICK S : S = Cards(s) \cap Range(fields)
  OBVIOUS
<1> PICK f : f = CopyOf(S)
  OBVIOUS
<1>1. /\ Refilled /\ Copied(f, S, Cards(s) \ S) /\ f \in Injection(S, Unused)
      /\ \A x \in DOMAIN sections :
           sections'[x].fields = IF x = s THEN (sections[s].fields \ S) \cup Range(f) ELSE sections[x].fields
      /\ newFields' = newFields \ Cards(s)
  BY MoveSectionShape
<1>2. /\ CardFacts /\ AllCards \cap Unused = {} /\ Unused \subseteq Objects /\ newFields \subseteq AllCards
      /\ Cards(s) \subseteq AllCards
  BY CardParts DEF CardFacts, Unused, TypeInv, PageOK
<1>3. S \subseteq Cards(s) /\ Cards(s) \subseteq Objects /\ Cards(s) \subseteq sections[s].fields
  BY DEF Cards
<1>4. /\ Range(f) \subseteq Unused
      /\ \A o \in Range(f) : \E c \in S : o = f[c]
      /\ \A c \in S : f[c] \in Range(f) /\ f[c] \in Objects
  BY <1>1, <1>2 DEF Injection, Range
<1>5. \A c \in AllCards : name'[c] = name[c] /\ c \notin Range(f)
  BY <1>1, <1>2, <1>4 DEF Copied, CardFacts
<1>6. Shown(s)' = Shown(s)
  <2>1. \A e \in sections[s].fields \ S : Label(e)' = Label(e)
    BY <1>2, <1>5 DEF Label, CardFacts
  <2>2. \A c \in S : Label(f[c])' = Label(c)
    BY <1>1, <1>3, <1>4 DEF Label, Copied
  <2>3. /\ Shown(s) = {Label(e) : e \in sections[s].fields}
        /\ Shown(s)' = {Label(e)' : e \in (sections[s].fields \ S) \cup Range(f)}
    BY <1>1 DEF Shown
  <2>4. \A e \in (sections[s].fields \ S) \cup Range(f) : \E d \in sections[s].fields : Label(e)' = Label(d)
    <3>1. \A e \in sections[s].fields \ S : \E d \in sections[s].fields : Label(e)' = Label(d)
      BY <2>1
    <3>2. ASSUME NEW e \in Range(f) PROVE \E d \in sections[s].fields : Label(e)' = Label(d)
      <4>1. PICK c \in S : e = f[c]
        BY <1>4
      <4>2. c \in sections[s].fields /\ Label(e)' = Label(c)
        BY <1>3, <2>2, <4>1
      <4> QED BY <4>2
    <3> QED BY <3>1, <3>2
  <2>5. \A d \in sections[s].fields : \E e \in (sections[s].fields \ S) \cup Range(f) : Label(e)' = Label(d)
    BY <1>4, <2>1, <2>2
  <2>6. \A n \in Shown(s) : n \in Shown(s)'
    <3> SUFFICES ASSUME NEW d \in sections[s].fields PROVE Label(d) \in Shown(s)'
      BY <2>3
    <3>1. PICK e \in (sections[s].fields \ S) \cup Range(f) : Label(e)' = Label(d)
      BY <2>5
    <3> QED BY <2>3, <3>1
  <2>7. \A n \in Shown(s)' : n \in Shown(s)
    <3> SUFFICES ASSUME NEW e \in (sections[s].fields \ S) \cup Range(f) PROVE Label(e)' \in Shown(s)
      BY <2>3
    <3>1. PICK d \in sections[s].fields : Label(e)' = Label(d)
      BY <2>4
    <3> QED BY <2>3, <3>1
  <2> QED BY <2>6, <2>7
<1>7. \A x \in DOMAIN sections : x # s => Shown(x)' = Shown(x) /\ Cards(x)' = Cards(x)
  <2> SUFFICES ASSUME NEW x \in DOMAIN sections, x # s PROVE Shown(x)' = Shown(x) /\ Cards(x)' = Cards(x)
    OBVIOUS
  <2>1. sections'[x].fields = sections[x].fields /\ \A c \in Cards(x) : name'[c] = name[c]
    BY <1>1, <1>2, <1>5 DEF CardFacts
  <2> QED BY <2>1, ShownSame
<1>8. Cards(s)' \cap newFields' = {}
  <2>1. Cards(s)' \subseteq Cards(s) \cup Range(f)
    BY <1>1 DEF Cards
  <2> QED BY <1>1, <1>2, <1>4, <2>1
<1>9. \A x : Global(x)' <=> Global(x)
  BY <1>1 DEF Global, Refilled
<1>10. UNCHANGED <<mode, loaded, available, listed>>
  BY DEF MoveSection, templates
<1>11. \A x : Global(x) => Shown(x)' = Shown(x)
  BY <1>6, <1>7 DEF Global
<1>12. \A x : Global(x) /\ ~loaded /\ Cards(x) \cap newFields = {} => Cards(x)' \cap newFields' = {}
  BY <1>1, <1>7, <1>8 DEF Global
<1> QED BY <1>9, <1>10, <1>11, <1>12 DEF SameGlobals

LEMMA TemplateStep ==
  ASSUME TypeInv, TemplateInv, [Next]_vars
  PROVE  TemplateInv'
<1> SUFFICES ASSUME ways' \cap {"early", "copied", "otherRenamed"} = {} PROVE TemplateParts'
  BY DEF TemplateInv
<1>1. TemplateParts /\ CardFacts /\ SectionsOK
  BY WaysGrow, CardParts DEF TemplateInv, TypeInv
<1>2. SameGlobals => TemplateParts'
  BY <1>1, SameGlobalsKeep
<1>3. ASSUME NEW kind \in Kinds, DropSection(kind) PROVE TemplateParts'
  <2> PICK t : t = NewSection
    OBVIOUS
  <2>1. /\ kind # "global" /\ UNCHANGED <<mode, templates, cards>> /\ t \notin DOMAIN sections
        /\ DOMAIN sections' = DOMAIN sections \cup {t} /\ sections'[t].kind = kind
        /\ \A x \in DOMAIN sections : sections'[x] = sections[x]
    BY <1>3, DropSectionShape
  <2>2. \A x : Global(x)' <=> Global(x)
    BY <2>1 DEF Global
  <2>3. SameGlobals
    BY <1>1, <2>1, <2>2, UntouchedGlobals DEF Global, templates, cards
  <2> QED BY <1>2, <2>3
<1>4. ASSUME NEW n \in Names, DropTemplate(n) PROVE TemplateParts'
  <2>1. /\ Adds(NewObject, n, NewSection) /\ NewSection \notin DOMAIN sections
        /\ sections'[NewSection].kind = "section"
    BY <1>4, DropTemplateAdds
  <2>2. UNCHANGED <<mode, loaded, available, listed>>
    BY <1>4 DEF DropTemplate, templates
  <2> QED BY <1>2, <2>1, <2>2, AddElsewhere
<1>5. CASE DropGlobalTemplate
  BY <1>1, <1>5, TemplateDropped
<1>6. ASSUME NEW s \in DOMAIN sections, NEW k \in Controls, NEW n \in Names, DropField(s, k, n) PROVE TemplateParts'
  <2>1. sections[s].kind # "global" /\ UNCHANGED <<mode, loaded, available, listed>>
    BY <1>6 DEF DropField, templates
  <2>2. Adds(NewObject, n, s)
    BY <1>6, DropFieldAdds
  <2>3. sections'[s].kind = sections[s].kind
    BY <2>2 DEF Adds, PutIn
  <2> QED BY <1>2, <2>1, <2>2, <2>3, AddElsewhere
<1>7. ASSUME NEW s \in DOMAIN sections, NEW c \in Cards(s), NEW t \in DOMAIN sections, MoveField(c, s, t)
      PROVE  TemplateParts'
  <2>1. Refilled /\ FieldMoved(c, t) /\ name' = name /\ newFields' \subseteq newFields
    BY <1>7, MoveFieldShape
  <2>2. s = t \/ (sections[s].kind # "global" /\ sections[t].kind # "global")
    BY <1>7 DEF MoveField
  <2>3. UNCHANGED <<mode, loaded, available, listed>>
    BY <1>7 DEF MoveField, templates
  <2>4. c \in sections[s].fields /\ \A x \in DOMAIN sections : x # s => c \notin sections[x].fields
    BY <1>1, OneSection DEF CardFacts
  <2>5. \A x : Global(x) => sections'[x].fields = sections[x].fields
    <3> SUFFICES ASSUME NEW x, Global(x) PROVE sections'[x].fields = sections[x].fields
      OBVIOUS
    <3>1. x \in DOMAIN sections /\ (x = s => x = t) /\ (x = t => x = s)
      BY <2>2 DEF Global
    <3>2. CASE x = t
      BY <2>1, <2>4, <3>1, <3>2 DEF FieldMoved
    <3>3. CASE x # t
      <4>1. c \notin sections[x].fields
        BY <2>4, <3>1, <3>3
      <4>2. sections[x].fields \ {c} = sections[x].fields
        BY <4>1
      <4> QED BY <2>1, <3>1, <3>3, <4>2 DEF FieldMoved
    <3> QED BY <3>2, <3>3
  <2>6. \A x : Global(x)' <=> Global(x)
    BY <2>1 DEF Global, Refilled
  <2>7. SameGlobals
    BY <1>1, <2>1, <2>3, <2>5, <2>6, UntouchedGlobals
  <2> QED BY <1>2, <2>7
<1>8. ASSUME NEW s \in DOMAIN sections, NEW c \in Cards(s), NEW n \in Names, RenameField(s, c, n)
      PROVE  TemplateParts'
  <2>1. Renamed(c, n) /\ UNCHANGED <<mode, templates, sections, fields, newFields>>
    BY <1>8, RenameFieldShape
  <2>2. sections[s].kind # "global"
    <3> SUFFICES ASSUME Global(s) PROVE FALSE
      BY DEF Global
    <3>1. (mode = "create" \/ c \in newFields) /\ ~(loaded /\ name[c] = GlobalName)
      BY <1>8 DEF RenameField, MayRename, IsGlobalField
    <3>2. Label(c) \in Shown(s) /\ Label(c) = name[c]
      BY <1>1 DEF Shown, Label, CardFacts
    <3>3. name[c] = GlobalName
      BY <1>1, <3>2 DEF TemplateParts
    <3>4. ~loaded
      BY <3>1, <3>3
    <3>5. mode = "edit" /\ c \notin newFields
      BY <1>1, <3>4 DEF TemplateParts
    <3> QED BY <3>1, <3>5
  <2>3. \A x : Global(x) => \A o \in Cards(x) : name'[o] = name[o]
    <3>1. CASE form[c] \in FieldNames
      <4> PICK x : x = fields[First(form[c])]
        OBVIOUS
      <4>1. x = c
        BY <1>8, <3>1 DEF RenameField
      <4>2. name' = [name EXCEPT ![c] = n] /\ name \in [Objects -> Names \cup {None}]
        BY <2>1, <3>1, <4>1 DEF Renamed, TypeInv, NamesOK
      <4>3. \A o \in Objects : o # c => name'[o] = name[o]
        BY <4>2
      <4>4. \A y \in DOMAIN sections : y # s => c \notin sections[y].fields
        BY <1>1, OneSection
      <4>5. \A y : Global(y) => \A o \in Cards(y) : o \in Objects /\ o # c
        BY <1>1, <2>2, <4>4 DEF Global, CardFacts
      <4> QED BY <4>3, <4>5
    <3>2. CASE form[c] \notin FieldNames
      BY <2>1, <3>2 DEF Renamed
    <3> QED BY <3>1, <3>2
  <2>4. SameGlobals
    BY <1>1, <2>1, <2>3, UntouchedGlobals DEF Global, templates
  <2> QED BY <1>2, <2>4
<1>21. ASSUME NEW s \in DOMAIN sections, NEW c \in Cards(s), NEW n \in Names, RenameReference(s, c, n)
       PROVE  TemplateParts'
  <2>1. name' = [name EXCEPT ![c] = n] /\ UNCHANGED <<mode, templates, sections, fields, newFields>>
    BY <1>21, RenameReferenceShape
  <2>2. sections[s].kind # "global"
    <3> SUFFICES ASSUME Global(s) PROVE FALSE
      BY DEF Global
    <3>1. (mode = "create" \/ c \in newFields) /\ ~(loaded /\ name[c] = GlobalName)
      BY <1>21 DEF RenameReference, MayRename, IsGlobalField
    <3>2. Label(c) \in Shown(s) /\ Label(c) = name[c]
      BY <1>1 DEF Shown, Label, CardFacts
    <3>3. name[c] = GlobalName
      BY <1>1, <3>2 DEF TemplateParts
    <3>4. ~loaded
      BY <3>1, <3>3
    <3>5. mode = "edit" /\ c \notin newFields
      BY <1>1, <3>4 DEF TemplateParts
    <3> QED BY <3>1, <3>5
  <2>3. \A x : Global(x) => \A o \in Cards(x) : name'[o] = name[o]
    <3>1. \A o \in Objects : o # c => name'[o] = name[o]
      BY <2>1 DEF TypeInv, NamesOK
    <3>2. \A y \in DOMAIN sections : y # s => c \notin sections[y].fields
      BY <1>1, OneSection
    <3>3. \A y : Global(y) => \A o \in Cards(y) : o \in Objects /\ o # c
      BY <1>1, <2>2, <3>2 DEF Global, CardFacts
    <3> QED BY <3>1, <3>3
  <2>4. SameGlobals
    BY <1>1, <2>1, <2>3, UntouchedGlobals DEF Global, templates
  <2> QED BY <1>2, <2>4
<1>9. ASSUME NEW s \in DOMAIN sections, NEW c \in Cards(s), RemoveField(s, c) PROVE TemplateParts'
  <2>1. /\ Refilled /\ Forgotten({c}) /\ AllCards' = AllCards \ {c}
        /\ \A x \in DOMAIN sections : sections'[x].fields = sections[x].fields \ {c}
    BY <1>9, RemoveFieldShape
  <2>2. sections[s].kind # "global" /\ UNCHANGED <<mode, loaded, available, listed>>
    BY <1>9 DEF RemoveField, templates
  <2>3. \A x \in DOMAIN sections : x # s => c \notin sections[x].fields
    BY <1>1, OneSection
  <2>4. \A x : Global(x) => sections'[x].fields = sections[x].fields
    BY <2>1, <2>2, <2>3 DEF Global
  <2>5. \A x : Global(x) => \A o \in Cards(x) : o \in AllCards'
    BY <1>1, <2>1, <2>2, <2>3 DEF Global, CardFacts
  <2>6. \A x : Global(x) => \A o \in Cards(x) : name'[o] = name[o]
    BY <2>1, <2>5 DEF Forgotten
  <2>7. \A x : Global(x)' <=> Global(x)
    BY <2>1 DEF Global, Refilled
  <2>8. SameGlobals
    BY <1>1, <2>1, <2>2, <2>4, <2>6, <2>7, UntouchedGlobals DEF Forgotten
  <2> QED BY <1>2, <2>8
<1>10. ASSUME NEW s \in DOMAIN sections, MoveSection(s) PROVE TemplateParts'
  BY <1>2, <1>10, TemplateMoved
<1>11. ASSUME NEW s \in DOMAIN sections, CopySection(s) PROVE TemplateParts'
  BY <1>11, CopySectionShape
<1>12. ASSUME NEW s \in DOMAIN sections, RemoveSection(s) PROVE TemplateParts'
  BY <1>1, <1>12, TemplateRemoved
<1>13. CASE SaveFails
  <2>1. /\ Refilled /\ AllCards' = {} /\ Names \cap Objects = {}
        /\ \A s \in DOMAIN sections : sections'[s].fields = Shown(s) /\ Shown(s) \subseteq Names
    BY <1>13, SaveFailsShape, ObjectsAssumption
  <2>2. \A s \in DOMAIN sections : Cards(s)' = {} /\ Shown(s)' = Shown(s)
    <3> SUFFICES ASSUME NEW s \in DOMAIN sections PROVE Cards(s)' = {} /\ Shown(s)' = Shown(s)
      OBVIOUS
    <3>1. \A e \in Shown(s) : e \notin Objects /\ Label(e)' = e
      BY <2>1 DEF Label
    <3>2. Shown(s)' = {Label(e)' : e \in Shown(s)}
      BY <2>1 DEF Shown
    <3>3. Shown(s)' = Shown(s)
      BY <3>1, <3>2
    <3>4. Cards(s)' = {}
      BY <2>1, <3>1 DEF Cards
    <3> QED BY <3>3, <3>4
  <2>3. \A x : Global(x)' <=> Global(x)
    BY <2>1 DEF Global, Refilled
  <2>4. UNCHANGED <<mode, loaded, available, listed>>
    BY <1>13 DEF SaveFails, templates
  <2>5. SameGlobals
    BY <2>2, <2>3, <2>4 DEF SameGlobals, Global
  <2> QED BY <1>2, <2>5
<1>14. ASSUME NEW s \in DOMAIN sections, RenameSection(s) PROVE TemplateParts'
  <2>1. /\ UNCHANGED <<mode, templates, fields, cards, ways>> /\ DOMAIN sections' = DOMAIN sections
        /\ \A x \in DOMAIN sections : /\ sections'[x].kind = sections[x].kind
                                      /\ sections'[x].fields = sections[x].fields
    BY <1>14, RenameSectionShape
  <2>2. SameGlobals
    BY <1>1, <2>1, UntouchedGlobals DEF Global, templates, cards
  <2> QED BY <1>2, <2>2
<1>15. ASSUME UNCHANGED <<mode, templates, sections, name, newFields>> PROVE TemplateParts'
  <2>1. SameGlobals
    BY <1>1, <1>15, UntouchedGlobals DEF Global, templates
  <2> QED BY <1>2, <2>1
<1>16. ASSUME NEW s \in DOMAIN sections, NEW c \in Cards(s), NEW n \in Names, RenameRefused(s, c, n)
       PROVE  TemplateParts'
  BY <1>15, <1>16 DEF RenameRefused
<1>17. ASSUME NEW c \in Objects, TypeOldName(c) PROVE TemplateParts'
  BY <1>15, <1>17, TypeOldNameShape
<1>18. CASE TemplatesArrive
  <2>1. /\ ~loaded /\ loaded' = TRUE /\ available' = ~listed /\ listed' = listed
        /\ UNCHANGED <<mode, sections, name, newFields>>
    BY <1>18 DEF TemplatesArrive, cards
  <2>2. \A x : Global(x)' <=> Global(x)
    BY <2>1 DEF Global
  <2>3. \A x : Global(x) => Shown(x)' = Shown(x)
    BY <2>1, ShownSame
  <2>4. \A s, t : Global(s)' /\ Global(t)' => s = t
    BY <1>1, <2>2 DEF TemplateParts
  <2>5. \A s : Global(s)' => Shown(s)' = {GlobalName}
    BY <1>1, <2>2, <2>3 DEF TemplateParts
  <2>6. listed' <=> \E s : Global(s)'
    <3>1. listed <=> \E s : Global(s)
      BY <1>1 DEF TemplateParts
    <3>2. (\E s : Global(s)') <=> \E s : Global(s)
      BY <2>2
    <3> QED BY <2>1, <3>1, <3>2
  <2>7. loaded' /\ (available' <=> ~listed')
    BY <2>1
  <2> QED BY <2>4, <2>5, <2>6, <2>7 DEF TemplateParts
<1>19. CASE EditOtherStep
  BY <1>15, <1>19 DEF EditOtherStep, cards
<1>20. CASE UNCHANGED vars
  BY <1>15, <1>20 DEF vars, cards
<1> QED BY <1>3, <1>4, <1>5, <1>6, <1>7, <1>8, <1>9, <1>10, <1>11, <1>12, <1>13, <1>14, <1>16,
           <1>17, <1>18, <1>19, <1>20, <1>21 DEF Next

\* The global template is listed with the type, and so taken for used, if its section
\* is there with its field and nothing else, as onSectionDrop and handleGlobalTemplates
\* would have it; but for a change before the templates came, a copy, or a card that
\* renamed another one's field.
THEOREM TemplateListedAlways == Spec => []TemplateListed
<1>1. Init => TypeInv /\ TemplateInv
  <2> SUFFICES ASSUME Init PROVE TypeInv /\ TemplateInv
    OBVIOUS
  <2>1. TypeInv /\ Fresh
    BY InitTypes, InitIsFresh
  <2>2. loaded = FALSE /\ available = FALSE /\ newFields = {}
    BY DEF Init
  <2>3. mode = "edit" \/ \A s : ~Global(s)
    <3>1. mode = "edit" \/ Opened(<<>>)
      BY DEF Init
    <3>2. Opened(<<>>) => DOMAIN sections = {}
      <4>1. DOMAIN <<>> = {}
        OBVIOUS
      <4> QED BY <4>1 DEF Opened
    <3> QED BY <3>1, <3>2 DEF Global
  <2>4. TemplateParts
    BY <2>1, <2>2, <2>3 DEF TemplateParts, Fresh, Global
  <2> QED BY <2>1, <2>4 DEF TemplateInv
<1>2. TypeInv /\ TemplateInv /\ [Next]_vars => TypeInv' /\ TemplateInv'
  BY StepKeepsTypes, TemplateStep
<1>3. TemplateInv => TemplateListed
  BY DEF TemplateInv, TemplateParts, TemplateListed, Global
<1> QED BY <1>1, <1>2, <1>3, PTL DEF Spec

----------------------------------------------------------------------------
(* Counting fields and where they are shown. *)

\* Two parts of a finite set.
LEMMA TwoParts ==
  ASSUME NEW S, IsFiniteSet(S), NEW A, NEW B, S = A \cup B, A \cap B = {}
  PROVE  /\ IsFiniteSet(A) /\ IsFiniteSet(B)
         /\ Cardinality(A) \in Nat /\ Cardinality(B) \in Nat /\ Cardinality(S) = Cardinality(A) + Cardinality(B)
<1>1. IsFiniteSet(A) /\ IsFiniteSet(B) /\ Cardinality(A) \in Nat /\ Cardinality(B) \in Nat
  BY Finite
<1>2. Cardinality(A \cup B) = Cardinality(A) + Cardinality(B) - Cardinality(A \cap B)
  BY <1>1, FS_Union
<1>3. Cardinality(A \cap B) = 0
  BY FS_EmptySet
<1> QED BY <1>1, <1>2, <1>3

\* One element more, and one less.
LEMMA OneMore ==
  ASSUME NEW S, IsFiniteSet(S), NEW x
  PROVE  /\ Cardinality(S) \in Nat
         /\ x \notin S => Cardinality(S \cup {x}) = Cardinality(S) + 1
         /\ x \in S => Cardinality(S \ {x}) + 1 = Cardinality(S)
<1>1. Cardinality(S) \in Nat
  BY FS_CardinalityType
<1>2. x \notin S => Cardinality(S \cup {x}) = Cardinality(S) + 1
  BY FS_AddElement
<1>3. x \in S => Cardinality(S \ {x}) = Cardinality(S) - 1
  BY FS_RemoveElement
<1> QED BY <1>1, <1>2, <1>3

\* The cards of a name, the sections that have it in place of an object, and how many
\* fields have it.
CardsNamed(n) == {c \in AllCards : name[c] = n}
NamedIn(n) == {s \in DOMAIN sections : n \in sections[s].fields}
Shows(n) == Cardinality(CardsNamed(n)) + Cardinality(NamedIn(n))
Has(n) == Cardinality(Having(n))

Counted(n) == /\ IsFiniteSet(CardsNamed(n)) /\ IsFiniteSet(NamedIn(n)) /\ IsFiniteSet(Having(n))
              /\ Cardinality(CardsNamed(n)) \in Nat /\ Cardinality(NamedIn(n)) \in Nat
              /\ Has(n) \in Nat /\ Shows(n) \in Nat

CountedAll == \A n : Counted(n)

LEMMA AllCounted == TypeInv => CountedAll
<1> SUFFICES ASSUME TypeInv, NEW n PROVE Counted(n)
  BY DEF CountedAll
<1>1. CardsNamed(n) \subseteq Objects /\ Having(n) \subseteq Objects /\ NamedIn(n) \subseteq SectionIds
  BY CardParts, ListParts DEF CardsNamed, Having, NamedIn, CardFacts, TypeInv, SectionsOK
<1>2. /\ IsFiniteSet(CardsNamed(n)) /\ IsFiniteSet(NamedIn(n)) /\ IsFiniteSet(Having(n))
      /\ Cardinality(CardsNamed(n)) \in Nat /\ Cardinality(NamedIn(n)) \in Nat /\ Cardinality(Having(n)) \in Nat
  BY <1>1, BoundsAssumption, Finite
<1>3. Shows(n) \in Nat
  BY <1>2 DEF Shows
<1> QED BY <1>2, <1>3 DEF Counted, Has

LEMMA AllCountedNext == TypeInv' => CountedAll'
BY AllCounted, PTL

CountLE == \A n \in Names : Shows(n) <= Has(n)
CountEQ == \A n \in Names : Shows(n) = Has(n)

\* Every field is shown once at most, and once but after more of the ways.
CountInv ==
  /\ ways \cap {"originalRenamed", "copyRenamed", "copied"} = {} => CountLE
  /\ ways \cap {"originalRenamed", "copyRenamed", "copied", "copyRemoved", "multiRemoved", "namesRemoved"} = {} =>
       CountEQ

\* The place of an entry of a name is a card of that name or a section that has it.
LEMMA ShowingSize ==
  ASSUME TypeInv, NEW n \in Names
  PROVE  Cardinality(Showing(n)) = Shows(n)
<1> DEFINE of(c) == CHOOSE s \in DOMAIN sections : c \in Cards(s)
           C == CardsNamed(n)
           N == NamedIn(n)
           A == {<<of(c), c>> : c \in C}
           B == {<<s, n>> : s \in N}
           f == [c \in C |-> <<of(c), c>>]
           g == [s \in N |-> <<s, n>>]
<1>1. CardFacts /\ SectionsOK /\ n \notin Objects
  BY CardParts, ObjectsAssumption DEF TypeInv
<1>2. \A c \in AllCards : of(c) \in DOMAIN sections /\ c \in Cards(of(c))
  BY <1>1 DEF CardFacts
<1>3. \A c \in AllCards : \A s \in DOMAIN sections : c \in Cards(s) => s = of(c)
  BY <1>1, <1>2 DEF SectionsOK
<1> HIDE DEF of
<1>4. IsFiniteSet(C) /\ IsFiniteSet(N) /\ Cardinality(C) \in Nat /\ Cardinality(N) \in Nat
  BY AllCounted DEF Counted, CountedAll
<1>5. IsFiniteSet(A) /\ Cardinality(A) = Cardinality(C)
  <2>1. f \in [C -> A] /\ (\A c, d \in C : f[c] = f[d] => c = d) /\ \A x \in A : \E c \in C : f[c] = x
    OBVIOUS
  <2> HIDE DEF C, A, f
  <2> QED BY <1>4, <2>1, SameSize
<1>6. IsFiniteSet(B) /\ Cardinality(B) = Cardinality(N)
  <2>1. g \in [N -> B] /\ (\A s, t \in N : g[s] = g[t] => s = t) /\ \A x \in B : \E s \in N : g[s] = x
    OBVIOUS
  <2> HIDE DEF N, B, g
  <2> QED BY <1>4, <2>1, SameSize
<1>7. A \cap B = {}
  <2>1. \A c \in C : c # n
    BY <1>1 DEF CardsNamed, CardFacts
  <2> QED BY <2>1
<1>8. Showing(n) = A \cup B
  <2>1. ASSUME NEW x \in Showing(n) PROVE x \in A \cup B
    <3> PICK s \in DOMAIN sections, e \in Objects \cup Names :
             x = <<s, e>> /\ e \in sections[s].fields /\ Label(e) = n
      BY DEF Showing
    <3>1. CASE e \in Objects
      <4>1. e \in Cards(s) /\ e \in AllCards /\ name[e] = n
        BY <1>1, <3>1 DEF CardFacts, Label
      <4>2. e \in C /\ s = of(e)
        BY <1>3, <4>1 DEF CardsNamed
      <4> QED BY <4>2
    <3>2. CASE e \notin Objects
      <4>1. e = n
        BY <3>2 DEF Label
      <4>2. s \in N
        BY <4>1 DEF NamedIn
      <4> QED BY <4>1, <4>2
    <3> QED BY <3>1, <3>2
  <2>2. ASSUME NEW c \in C PROVE <<of(c), c>> \in Showing(n)
    <3>1. /\ c \in Objects /\ name[c] = n /\ of(c) \in DOMAIN sections
          /\ c \in sections[of(c)].fields
      BY <1>1, <1>2 DEF CardsNamed, CardFacts
    <3>2. Label(c) = n
      BY <3>1 DEF Label
    <3> QED BY <3>1, <3>2 DEF Showing
  <2>3. ASSUME NEW s \in N PROVE <<s, n>> \in Showing(n)
    <3>1. s \in DOMAIN sections /\ n \in sections[s].fields /\ Label(n) = n
      BY <1>1 DEF NamedIn, Label
    <3> QED BY <3>1 DEF Showing
  <2> QED BY <2>1, <2>2, <2>3
<1> HIDE DEF A, B, C, N
<1>9. Cardinality(A \cup B) = Cardinality(A) + Cardinality(B)
  <2>1. IsFiniteSet(A \cup B)
    BY <1>5, <1>6, FS_Union
  <2> QED BY <1>7, <2>1, TwoParts
<1> QED BY <1>5, <1>6, <1>8, <1>9 DEF Shows, C, N

LEMMA CountInvImplies == TypeInv /\ CountInv => SectionsNameFields /\ FieldsAreShown
<1> SUFFICES ASSUME TypeInv, CountInv PROVE SectionsNameFields /\ FieldsAreShown
  OBVIOUS
<1>1. SectionsNameFields
  <2> SUFFICES ASSUME CountLE, NEW s \in DOMAIN sections, NEW e \in sections[s].fields
               PROVE  Label(e) \in FieldNames
    BY DEF CountInv, SectionsNameFields, Shown
  <2> DEFINE n == Label(e)
  <2>1. n \in Names /\ (e \in CardsNamed(n) \/ s \in NamedIn(n))
    <3>1. CASE e \in Objects
      BY <3>1, CardParts DEF Label, TypeInv, NamesOK, CardFacts, CardsNamed
    <3>2. CASE e \notin Objects
      BY <3>2, SectionParts DEF Label, TypeInv, NamedIn
    <3> QED BY <3>1, <3>2
  <2> HIDE DEF n
  <2>2. Counted(n) /\ Shows(n) <= Has(n)
    BY <2>1, AllCounted DEF CountLE, CountedAll
  <2>3. Shows(n) # 0
    <3>1. CardsNamed(n) # {} \/ NamedIn(n) # {}
      BY <2>1
    <3>2. Cardinality(CardsNamed(n)) # 0 \/ Cardinality(NamedIn(n)) # 0
      BY <2>2, <3>1, FS_EmptySet DEF Counted
    <3> QED BY <2>2, <3>2 DEF Shows, Counted
  <2>4. Has(n) # 0
    BY <2>2, <2>3 DEF Counted
  <2>5. Having(n) # {}
    BY <2>4, FS_EmptySet DEF Has
  <2> QED BY <2>5 DEF Having, FieldNames, n
<1>2. FieldsAreShown
  <2> SUFFICES ASSUME CountEQ, NEW n \in FieldNames PROVE Cardinality(Showing(n)) = Cardinality(Having(n))
    BY DEF CountInv, FieldsAreShown
  <2>1. n \in Names
    BY DEF FieldNames, TypeInv, NamesOK
  <2> QED BY <2>1, ShowingSize DEF CountEQ, Has
<1> QED BY <1>1, <1>2

\* A step after which a name is shown as many times more as fields have it more.
Even == \A n \in Names : Shows(n)' + Has(n) = Shows(n) + Has(n)'

LEMMA EvenKeeps ==
  ASSUME TypeInv, TypeInv', Even
  PROVE  (CountLE => CountLE') /\ (CountEQ => CountEQ')
<1>1. \A n : Shows(n) \in Nat /\ Has(n) \in Nat /\ Shows(n)' \in Nat /\ Has(n)' \in Nat
  BY AllCounted, AllCountedNext DEF CountedAll, Counted
<1>2. \A n \in Names : Shows(n)' + Has(n) = Shows(n) + Has(n)'
  BY DEF Even
<1>3. ASSUME CountLE PROVE CountLE'
  <2> SUFFICES ASSUME NEW n \in Names PROVE Shows(n)' <= Has(n)'
    BY DEF CountLE
  <2>1. Shows(n) <= Has(n)
    BY <1>3 DEF CountLE
  <2> QED BY <1>1, <1>2, <2>1
<1>4. ASSUME CountEQ PROVE CountEQ'
  <2> SUFFICES ASSUME NEW n \in Names PROVE Shows(n)' = Has(n)'
    BY DEF CountEQ
  <2>1. Shows(n) = Has(n)
    BY <1>4 DEF CountEQ
  <2> QED BY <1>1, <1>2, <2>1
<1> QED BY <1>3, <1>4

\* The cards, the fields, their names and the entries that are names stay.
LEMMA SameCounts ==
  ASSUME AllCards' = AllCards, Range(fields)' = Range(fields),
         \A o \in Range(fields) \cup AllCards : name'[o] = name[o],
         \A n \in Names : NamedIn(n)' = NamedIn(n), TypeInv
  PROVE  Even
<1> SUFFICES ASSUME NEW n \in Names PROVE Shows(n)' + Has(n) = Shows(n) + Has(n)'
  BY DEF Even
<1>1. CardsNamed(n)' = CardsNamed(n) /\ Having(n)' = Having(n) /\ NamedIn(n)' = NamedIn(n)
  BY DEF CardsNamed, Having
<1>2. Shows(n)' = Shows(n) /\ Has(n)' = Has(n)
  BY <1>1 DEF Shows, Has
<1> QED BY <1>2

\* A field comes into a section.
LEMMA AddEven ==
  ASSUME TypeInv, NEW o, NEW m, NEW s, Adds(o, m, s)
  PROVE  Even
<1> SUFFICES ASSUME NEW n \in Names PROVE Shows(n)' + Has(n) = Shows(n) + Has(n)'
  BY DEF Even
<1>1. Listed(o, m) /\ PutIn(o, s) /\ n \notin Objects
  BY ObjectsAssumption DEF Adds
<1>2. AllCards' = AllCards \cup {o} /\ Range(fields)' = Range(fields) \cup {o}
  BY <1>1, PutCards DEF Listed
<1>3. /\ o \in Objects /\ o \notin AllCards /\ o \notin Range(fields) /\ name'[o] = m
      /\ \A x \in Range(fields) \cup AllCards : name'[x] = name[x]
  BY <1>1, CardParts, ListParts DEF Listed, CardFacts, TypeInv
<1>4. NamedIn(n)' = NamedIn(n)
  <2>1. \A x \in DOMAIN sections' : n \in sections'[x].fields <=> x \in DOMAIN sections /\ n \in sections[x].fields
    <3> SUFFICES ASSUME NEW x \in DOMAIN sections'
                 PROVE  n \in sections'[x].fields <=> x \in DOMAIN sections /\ n \in sections[x].fields
      OBVIOUS
    <3>1. \/ x \in DOMAIN sections /\ x # s /\ sections'[x].fields = sections[x].fields
          \/ x = s /\ x \in DOMAIN sections /\ sections'[x].fields = sections[x].fields \cup {o}
          \/ x = s /\ x \notin DOMAIN sections /\ sections'[x].fields = {o}
      BY <1>1 DEF PutIn
    <3> QED BY <1>1, <1>3, <3>1
  <2>2. DOMAIN sections \subseteq DOMAIN sections'
    BY <1>1 DEF PutIn
  <2> QED BY <2>1, <2>2 DEF NamedIn
<1>5. Counted(n)
  BY AllCounted DEF CountedAll
<1>6. CASE n = m
  <2>1. CardsNamed(n)' = CardsNamed(n) \cup {o} /\ Having(n)' = Having(n) \cup {o}
    BY <1>2, <1>3, <1>6 DEF CardsNamed, Having
  <2>2. o \notin CardsNamed(n) /\ o \notin Having(n)
    BY <1>3 DEF CardsNamed, Having
  <2>3. /\ Cardinality(CardsNamed(n)') = Cardinality(CardsNamed(n)) + 1
        /\ Cardinality(Having(n)') = Cardinality(Having(n)) + 1
    BY <1>5, <2>1, <2>2, OneMore DEF Counted
  <2> QED BY <1>4, <1>5, <2>3 DEF Shows, Has, Counted
<1>7. CASE n # m
  <2>1. CardsNamed(n)' = CardsNamed(n) /\ Having(n)' = Having(n)
    BY <1>2, <1>3, <1>7 DEF CardsNamed, Having
  <2> QED BY <1>4, <2>1 DEF Shows, Has
<1> QED BY <1>6, <1>7

\* A field is renamed that is on a card.
LEMMA RenameEven ==
  ASSUME TypeInv, NEW x \in Range(fields), x \in AllCards, NEW m \in Names, name' = [name EXCEPT ![x] = m],
         name[x] # m, UNCHANGED <<sections, fields>>, AllCards' = AllCards
  PROVE  Even
<1> SUFFICES ASSUME NEW n \in Names PROVE Shows(n)' + Has(n) = Shows(n) + Has(n)'
  BY DEF Even
<1>1. x \in Objects /\ name \in [Objects -> Names \cup {None}] /\ Range(fields) \cup AllCards \subseteq Objects
  BY CardParts, ListParts DEF CardFacts, TypeInv, NamesOK
<1>2. \A o \in Range(fields) \cup AllCards : name'[o] = IF o = x THEN m ELSE name[o]
  BY <1>1
<1>3. NamedIn(n)' = NamedIn(n) /\ Range(fields)' = Range(fields)
  BY DEF NamedIn
<1>4. Counted(n)
  BY AllCounted DEF CountedAll
<1>5. CASE n = m
  <2>1. /\ CardsNamed(n)' = CardsNamed(n) \cup {x} /\ Having(n)' = Having(n) \cup {x}
        /\ x \notin CardsNamed(n) /\ x \notin Having(n)
    BY <1>2, <1>3, <1>5 DEF CardsNamed, Having
  <2>2. /\ Cardinality(CardsNamed(n)') = Cardinality(CardsNamed(n)) + 1
        /\ Cardinality(Having(n)') = Cardinality(Having(n)) + 1
    BY <1>4, <2>1, OneMore DEF Counted
  <2> QED BY <1>3, <1>4, <2>2 DEF Shows, Has, Counted
<1>6. CASE n = name[x]
  <2>1. /\ CardsNamed(n)' = CardsNamed(n) \ {x} /\ Having(n)' = Having(n) \ {x}
        /\ x \in CardsNamed(n) /\ x \in Having(n)
    BY <1>2, <1>3, <1>6 DEF CardsNamed, Having
  <2>2. /\ Cardinality(CardsNamed(n)') + 1 = Cardinality(CardsNamed(n))
        /\ Cardinality(Having(n)') + 1 = Cardinality(Having(n))
    BY <1>4, <2>1, OneMore DEF Counted
  <2>3. IsFiniteSet(CardsNamed(n)') /\ IsFiniteSet(Having(n)')
    BY <1>4, <2>1, Finite DEF Counted
  <2>4. Cardinality(CardsNamed(n)') \in Nat /\ Cardinality(Having(n)') \in Nat
    BY <2>3, FS_CardinalityType
  <2> QED BY <1>3, <1>4, <2>2, <2>4 DEF Shows, Has, Counted
<1>7. CASE n # m /\ n # name[x]
  <2>1. CardsNamed(n)' = CardsNamed(n) /\ Having(n)' = Having(n)
    BY <1>2, <1>3, <1>7 DEF CardsNamed, Having
  <2> QED BY <1>3, <2>1 DEF Shows, Has
<1> QED BY <1>5, <1>6, <1>7

\* The fields of the names of the cards in S that are left: for each card one less.
LEMMA WithoutTakes ==
  ASSUME ListOK(fields), NEW S, IsFiniteSet(S), NEW n,
         Cardinality({c \in S : name[c] = n}) <= Cardinality(Having(n))
  PROVE  Cardinality({o \in Range(Without(S)) : name[o] = n}) + Cardinality({c \in S : name[c] = n})
           = Cardinality(Having(n))
<1> DEFINE L == 1..Len(fields)
           K == {i \in L : name[fields[i]] = n}
           T == {c \in S : name[c] = n}
           k == Cardinality(T)
           UpTo(i) == {j \in 1..i : name[fields[j]] = name[fields[i]]}
           OfName(i) == {c \in S : name[c] = name[fields[i]]}
           P == {i \in DOMAIN fields : Cardinality(UpTo(i)) > Cardinality(OfName(i))}
           Z == {fields[i] : i \in P}
           A == {i \in K : RankIn(K, i) <= k}
           B == {i \in K : ~(RankIn(K, i) <= k)}
           H == {o \in Range(Without(S)) : name[o] = n}
           f == [i \in K |-> fields[i]]
           g == [i \in B |-> fields[i]]
<1>1. /\ Len(fields) \in Nat /\ DOMAIN fields = L
      /\ \A i \in L : fields[i] \in Range(fields)
      /\ \A i, j \in L : fields[i] = fields[j] => i = j
      /\ \A o \in Range(fields) : \E i \in L : fields[i] = o
  <2>1. /\ Len(fields) \in Nat /\ DOMAIN fields = L
        /\ \A i \in L : fields[i] \in Range(fields)
    BY ListParts
  <2> QED BY <2>1 DEF ListOK, Range
<1>2. K \subseteq Nat /\ IsFiniteSet(K)
  <2>1. IsFiniteSet(L) /\ K \subseteq L
    BY <1>1, IntervalSize
  <2>2. IsFiniteSet(K)
    <3> HIDE DEF L, K
    <3> QED BY <2>1, Finite
  <2> QED BY <1>1, <2>2
<1>3. k \in Nat
  <2>1. IsFiniteSet(T)
    BY Finite
  <2> HIDE DEF T
  <2> QED BY <2>1, FS_CardinalityType
<1>4. Without(S) = Only(Z)
  BY DEF Without
<1>5. Range(Without(S)) = Range(fields) \cap Z
  <2> HIDE DEF Z
  <2> QED BY <1>4, OnlyKeeps
<1>6. \A i \in K : UpTo(i) = {j \in K : j <= i} /\ OfName(i) = T
  <2> SUFFICES ASSUME NEW i \in K PROVE UpTo(i) = {j \in K : j <= i} /\ OfName(i) = T
    OBVIOUS
  <2>1. name[fields[i]] = n /\ i \in L
    OBVIOUS
  <2>2. 1..i = {j \in L : j <= i}
    BY <1>1, <2>1
  <2> QED BY <2>1, <2>2
<1>7. \A i \in K : i \in P <=> i \in B
  <2> SUFFICES ASSUME NEW i \in K PROVE i \in P <=> i \in B
    OBVIOUS
  <2>1. Cardinality(UpTo(i)) = RankIn(K, i) /\ Cardinality(OfName(i)) = k /\ i \in DOMAIN fields
    BY <1>1, <1>6 DEF RankIn
  <2>2. RankIn(K, i) \in Nat
    <3>1. RankIn(K, i) \in 1..Cardinality(K) /\ Cardinality(K) \in Nat
      <4> HIDE DEF K
      <4> QED BY <1>2, Ranks
    <3> QED BY <3>1
  <2> HIDE DEF k, K, UpTo, OfName
  <2> QED BY <1>3, <2>1, <2>2
<1>8. IsFiniteSet(Having(n)) /\ Cardinality(Having(n)) = Cardinality(K)
  <2>1. f \in [K -> Having(n)]
    BY <1>1 DEF Having
  <2>2. \A i, j \in K : f[i] = f[j] => i = j
    BY <1>1
  <2>3. \A o \in Having(n) : \E i \in K : f[i] = o
    BY <1>1 DEF Having
  <2> HIDE DEF K, f
  <2> QED BY <1>2, <2>1, <2>2, <2>3, SameSize
<1>9. IsFiniteSet(A) /\ Cardinality(A) = k
  <2> HIDE DEF K, k
  <2>1. k <= Cardinality(K)
    BY <1>8 DEF k
  <2> QED BY <1>2, <1>3, <2>1, FirstRanks
<1>10. Cardinality(K) = k + Cardinality(B) /\ IsFiniteSet(B) /\ Cardinality(B) \in Nat
  <2>1. K = A \cup B /\ A \cap B = {}
    OBVIOUS
  <2> HIDE DEF A, B, K, k
  <2> QED BY <1>2, <1>9, <2>1, TwoParts
<1>11. Cardinality(H) = Cardinality(B)
  <2>1. g \in [B -> H]
    <3> SUFFICES ASSUME NEW i \in B PROVE fields[i] \in H
      OBVIOUS
    <3>1. i \in K /\ i \in P
      BY <1>7
    <3>2. fields[i] \in Z /\ fields[i] \in Range(fields)
      BY <1>1, <3>1
    <3>3. name[fields[i]] = n
      BY <3>1
    <3> QED BY <1>5, <3>2, <3>3
  <2>2. \A i, j \in B : g[i] = g[j] => i = j
    BY <1>1
  <2>3. \A o \in H : \E i \in B : g[i] = o
    <3> SUFFICES ASSUME NEW o \in H PROVE \E i \in B : g[i] = o
      OBVIOUS
    <3>1. o \in Z /\ name[o] = n
      BY <1>5
    <3>2. PICK i \in P : o = fields[i]
      BY <3>1
    <3>3. i \in K
      BY <1>1, <3>1, <3>2
    <3>4. i \in B
      BY <1>7, <3>2, <3>3
    <3> QED BY <3>2, <3>4
  <2> HIDE DEF B, H, g
  <2> QED BY <1>10, <2>1, <2>2, <2>3, SameSize
<1> HIDE DEF B, H, k, K
<1>12. Cardinality(H) + k = Cardinality(Having(n))
  BY <1>3, <1>8, <1>10, <1>11
<1> QED BY <1>12 DEF H, k

\* A card is removed, with its field or alone.
LEMMA RemoveFieldCounts ==
  ASSUME TypeInv, NEW s \in DOMAIN sections, NEW c \in Cards(s), RemoveField(s, c)
  PROVE  (CountLE => CountLE') /\ (CountEQ /\ "copyRemoved" \notin ways' => CountEQ')
<1>1. /\ TypeInv' /\ Refilled /\ Forgotten({c})
      /\ \A x \in DOMAIN sections : sections'[x].fields = sections[x].fields \ {c}
      /\ AllCards' = AllCards \ {c} /\ Range(fields)' = Range(fields) \ {c}
  BY RemoveFieldShape
<1>2. c \in Objects /\ c \in AllCards /\ Names \cap Objects = {}
  BY CardParts, ObjectsAssumption DEF CardFacts
<1>3. \A n \in Names : NamedIn(n)' = NamedIn(n)
  BY <1>1, <1>2 DEF NamedIn, Refilled
<1>4. \A n : Counted(n) /\ Counted(n)'
  BY <1>1, AllCounted, AllCountedNext DEF CountedAll
<1>5. \A n \in Names : CardsNamed(n)' = CardsNamed(n) \ {c} /\ Having(n)' = Having(n) \ {c}
  BY <1>1 DEF CardsNamed, Having, Forgotten
<1>6. \A n \in Names : IF n = name[c] THEN Cardinality(CardsNamed(n)') + 1 = Cardinality(CardsNamed(n))
                                     ELSE CardsNamed(n)' = CardsNamed(n)
  <2> SUFFICES ASSUME NEW n \in Names
               PROVE  IF n = name[c] THEN Cardinality(CardsNamed(n)') + 1 = Cardinality(CardsNamed(n))
                                     ELSE CardsNamed(n)' = CardsNamed(n)
    OBVIOUS
  <2>1. CASE n = name[c]
    <3>1. c \in CardsNamed(n) /\ IsFiniteSet(CardsNamed(n))
      BY <1>2, <1>4, <2>1 DEF CardsNamed, Counted
    <3> QED BY <1>5, <2>1, <3>1, OneMore
  <2>2. CASE n # name[c]
    BY <1>5, <2>2 DEF CardsNamed
  <2> QED BY <2>1, <2>2
<1>7. \A n \in Names : IF n = name[c] /\ c \in Range(fields)
                       THEN Cardinality(Having(n)') + 1 = Cardinality(Having(n))
                       ELSE Having(n)' = Having(n)
  <2> SUFFICES ASSUME NEW n \in Names
               PROVE  IF n = name[c] /\ c \in Range(fields)
                      THEN Cardinality(Having(n)') + 1 = Cardinality(Having(n))
                      ELSE Having(n)' = Having(n)
    OBVIOUS
  <2>1. CASE n = name[c] /\ c \in Range(fields)
    <3>1. c \in Having(n) /\ IsFiniteSet(Having(n))
      BY <1>4, <2>1 DEF Having, Counted
    <3> QED BY <1>5, <2>1, <3>1, OneMore
  <2>2. CASE ~(n = name[c] /\ c \in Range(fields))
    BY <1>5, <2>2 DEF Having
  <2> QED BY <2>1, <2>2
<1>8. CASE c \in Range(fields)
  <2>1. Even
    <3> SUFFICES ASSUME NEW n \in Names PROVE Shows(n)' + Has(n) = Shows(n) + Has(n)'
      BY DEF Even
    <3>1. CASE n = name[c]
      BY <1>3, <1>4, <1>6, <1>7, <1>8, <3>1 DEF Shows, Has, Counted
    <3>2. CASE n # name[c]
      BY <1>3, <1>6, <1>7, <3>2 DEF Shows, Has
    <3> QED BY <3>1, <3>2
  <2> QED BY <1>1, <2>1, EvenKeeps
<1>9. CASE c \notin Range(fields)
  <2>1. "copyRemoved" \in ways'
    BY <1>9 DEF RemoveField
  <2>2. ASSUME CountLE PROVE CountLE'
    <3> SUFFICES ASSUME NEW n \in Names PROVE Shows(n)' <= Has(n)'
      BY DEF CountLE
    <3>1. Has(n)' = Has(n) /\ Shows(n) <= Has(n)
      BY <1>7, <1>9, <2>2 DEF Has, CountLE
    <3>2. CASE n = name[c]
      <4>1. Shows(n)' + 1 = Shows(n)
        BY <1>3, <1>4, <1>6, <3>2 DEF Shows, Counted
      <4> QED BY <1>4, <3>1, <4>1 DEF Counted
    <3>3. CASE n # name[c]
      BY <1>3, <1>6, <3>1, <3>3 DEF Shows
    <3> QED BY <3>2, <3>3
  <2> QED BY <2>1, <2>2
<1> QED BY <1>8, <1>9

\* A section is removed, with as many fields of a name as it has cards of it.
LEMMA RemoveSectionCounts ==
  ASSUME TypeInv, CountLE, NEW s \in DOMAIN sections, RemoveSection(s)
  PROVE  CountLE' /\ (CountEQ /\ ways' \cap {"multiRemoved", "namesRemoved"} = {} => CountEQ')
<1> DEFINE K(n) == {c \in Cards(s) : name[c] = n}
<1>1. /\ TypeInv' /\ Forgotten(Cards(s)) /\ DOMAIN sections' = DOMAIN sections \ {s}
      /\ \A x \in DOMAIN sections \ {s} : sections'[x] = sections[x]
      /\ AllCards' = AllCards \ Cards(s) /\ Range(fields)' \subseteq Range(fields)
  BY RemoveSectionShape
<1>2. Names \cap Objects = {} /\ CardFacts /\ ListOK(fields) /\ Cards(s) \subseteq AllCards
  BY CardParts, ObjectsAssumption DEF CardFacts, TypeInv
<1>3. \A n : Counted(n) /\ Counted(n)'
  BY <1>1, AllCounted, AllCountedNext DEF CountedAll
<1>4. IsFiniteSet(Cards(s))
  BY Finite, SectionParts DEF Cards, TypeInv
<1>5. \A n \in Names : /\ Cardinality(CardsNamed(n)) = Cardinality(CardsNamed(n)') + Cardinality(K(n))
                       /\ Cardinality(K(n)) \in Nat
  <2> SUFFICES ASSUME NEW n \in Names
               PROVE  /\ Cardinality(CardsNamed(n)) = Cardinality(CardsNamed(n)') + Cardinality(K(n))
                      /\ Cardinality(K(n)) \in Nat
    OBVIOUS
  <2>1. CardsNamed(n)' = CardsNamed(n) \ K(n) /\ K(n) \subseteq CardsNamed(n)
    BY <1>1, <1>2 DEF CardsNamed, Forgotten
  <2>2. CardsNamed(n) = CardsNamed(n)' \cup K(n) /\ CardsNamed(n)' \cap K(n) = {}
    BY <2>1
  <2>3. IsFiniteSet(CardsNamed(n)) /\ Cardinality(CardsNamed(n)) \in Nat
    BY <1>3 DEF Counted
  <2> DEFINE C == CardsNamed(n)
             D == CardsNamed(n)'
             E == K(n)
  <2> HIDE DEF C, D, E
  <2>4. IsFiniteSet(C) /\ C = D \cup E /\ D \cap E = {}
    BY <2>2, <2>3 DEF C, D, E
  <2>5. Cardinality(E) \in Nat /\ Cardinality(C) = Cardinality(D) + Cardinality(E)
    BY <2>4, TwoParts
  <2> QED BY <2>5 DEF C, D, E
<1>6. \A n \in Names : /\ Cardinality(NamedIn(n)') <= Cardinality(NamedIn(n))
                       /\ sections[s].fields \subseteq Objects => NamedIn(n)' = NamedIn(n)
  <2> SUFFICES ASSUME NEW n \in Names
               PROVE  /\ Cardinality(NamedIn(n)') <= Cardinality(NamedIn(n))
                      /\ sections[s].fields \subseteq Objects => NamedIn(n)' = NamedIn(n)
    OBVIOUS
  <2>1. NamedIn(n)' = NamedIn(n) \ {s}
    BY <1>1 DEF NamedIn
  <2>2. Cardinality(NamedIn(n) \ {s}) <= Cardinality(NamedIn(n))
    BY <1>3, Finite DEF Counted
  <2>3. sections[s].fields \subseteq Objects => s \notin NamedIn(n)
    BY <1>2 DEF NamedIn
  <2> QED BY <2>1, <2>2, <2>3
<1>7. "namesRemoved" \notin ways' => sections[s].fields \subseteq Objects
  BY DEF RemoveSection
<1> HIDE DEF K
<1>8. CASE sections[s].kind = "multi"
  <2>1. \A n \in Names : Has(n)' = Has(n)
    <3>1. fields' = fields
      BY <1>8 DEF RemoveSection, TakeFields
    <3>2. \A n \in Names : Having(n)' = Having(n)
      BY <1>1, <3>1 DEF Having, Forgotten
    <3> QED BY <3>2 DEF Has
  <2>2. \A n \in Names : Shows(n)' <= Shows(n)
    BY <1>3, <1>5, <1>6 DEF Shows, Counted
  <2>3. CountLE'
    <3> SUFFICES ASSUME NEW n \in Names PROVE Shows(n)' <= Has(n)'
      BY DEF CountLE
    <3>1. Shows(n) <= Has(n) /\ Shows(n)' <= Shows(n) /\ Has(n)' = Has(n)
      BY <2>1, <2>2 DEF CountLE
    <3> QED BY <1>3, <3>1 DEF Counted
  <2>4. ASSUME CountEQ, ways' \cap {"multiRemoved", "namesRemoved"} = {} PROVE CountEQ'
    <3>1. sections[s].fields = {}
      BY <1>8, <2>4 DEF RemoveSection
    <3>2. \A n \in Names : K(n) = {}
      BY <3>1 DEF K, Cards
    <3>3. \A n \in Names : Shows(n)' = Shows(n)
      <4>1. \A n \in Names : Cardinality(K(n)) = 0 /\ NamedIn(n)' = NamedIn(n)
        BY <1>6, <3>1, <3>2, FS_EmptySet
      <4> QED BY <1>3, <1>5, <4>1 DEF Shows, Counted
    <3> QED BY <2>1, <2>4, <3>3 DEF CountEQ
  <2> QED BY <2>3, <2>4
<1>9. CASE sections[s].kind # "multi"
  <2>1. \A n \in Names : Cardinality(K(n)) <= Has(n)
    <3> SUFFICES ASSUME NEW n \in Names PROVE Cardinality(K(n)) <= Has(n)
      OBVIOUS
    <3>1. Shows(n) <= Has(n)
      BY DEF CountLE
    <3>2. Cardinality(K(n)) <= Cardinality(CardsNamed(n))
      BY <1>3, <1>5 DEF Counted
    <3> QED BY <1>3, <1>5, <3>1, <3>2 DEF Shows, Counted
  <2>2. \A n \in Names : Has(n)' + Cardinality(K(n)) = Has(n)
    <3> SUFFICES ASSUME NEW n \in Names PROVE Has(n)' + Cardinality(K(n)) = Has(n)
      OBVIOUS
    <3>1. fields' = Without(Cards(s))
      BY <1>9 DEF RemoveSection, TakeFields
    <3>2. Cardinality({c \in Cards(s) : name[c] = n}) <= Cardinality(Having(n))
      BY <2>1 DEF K, Has
    <3>3. Cardinality({o \in Range(Without(Cards(s))) : name[o] = n}) + Cardinality({c \in Cards(s) : name[c] = n})
            = Cardinality(Having(n))
      BY <1>2, <1>4, <3>2, WithoutTakes
    <3>4. Having(n)' = {o \in Range(Without(Cards(s))) : name[o] = n}
      BY <1>1, <3>1 DEF Having, Forgotten
    <3> QED BY <3>3, <3>4 DEF K, Has
  <2>3. CountLE'
    <3> SUFFICES ASSUME NEW n \in Names PROVE Shows(n)' <= Has(n)'
      BY DEF CountLE
    <3>1. Shows(n) <= Has(n) /\ Has(n)' + Cardinality(K(n)) = Has(n)
      BY <2>2 DEF CountLE
    <3>2. Shows(n)' + Cardinality(K(n)) <= Shows(n)
      BY <1>3, <1>5, <1>6 DEF Shows, Counted
    <3> QED BY <1>3, <1>5, <3>1, <3>2 DEF Counted
  <2>4. ASSUME CountEQ, ways' \cap {"multiRemoved", "namesRemoved"} = {} PROVE CountEQ'
    <3> SUFFICES ASSUME NEW n \in Names PROVE Shows(n)' = Has(n)'
      BY DEF CountEQ
    <3>1. Shows(n) = Has(n) /\ Has(n)' + Cardinality(K(n)) = Has(n)
      BY <2>2, <2>4 DEF CountEQ
    <3>2. NamedIn(n)' = NamedIn(n)
      BY <1>6, <1>7, <2>4
    <3>3. Shows(n)' + Cardinality(K(n)) = Shows(n)
      BY <1>3, <1>5, <3>2 DEF Shows, Counted
    <3> QED BY <1>3, <1>5, <3>1, <3>3 DEF Counted
  <2> QED BY <2>3, <2>4
<1> QED BY <1>8, <1>9

\* A section is replaced by a copy: a card for each card, of the same name.
LEMMA MoveSectionEven ==
  ASSUME TypeInv, NEW s \in DOMAIN sections, MoveSection(s)
  PROVE  Even
<1>1. PICK S : S = Cards(s) \cap Range(fields)
  OBVIOUS
<1>2. PICK f : f = CopyOf(S)
  OBVIOUS
<1>3. /\ TypeInv' /\ Refilled /\ Copied(f, S, Cards(s) \ S) /\ f \in Injection(S, Unused)
      /\ \A x \in DOMAIN sections :
           sections'[x].fields = IF x = s THEN (sections[s].fields \ S) \cup Range(f) ELSE sections[x].fields
      /\ AllCards' = (AllCards \ S) \cup Range(f) /\ fields' = fields
  BY <1>1, <1>2, MoveSectionShape
<1>4. /\ CardFacts /\ Unused \subseteq Objects /\ S \subseteq AllCards /\ AllCards \subseteq Objects
      /\ (AllCards \cup Range(fields)) \cap Unused = {} /\ Range(fields) \subseteq Objects
      /\ Names \cap Objects = {}
  BY <1>1, CardParts, ListParts, ObjectsAssumption DEF CardFacts, Unused, TypeInv
<1>5. /\ Range(f) \subseteq Unused
      /\ \A o \in Range(f) : \E c \in S : o = f[c]
      /\ \A c \in S : f[c] \in Range(f)
      /\ \A c, d \in S : f[c] = f[d] => c = d
  BY <1>3, InjectionParts
<1>6. \A o \in AllCards \cup Range(fields) : name'[o] = name[o] /\ o \notin Range(f)
  BY <1>3, <1>4, <1>5 DEF Copied
<1>7. \A c \in S : name'[f[c]] = name[c]
  BY <1>3 DEF Copied
<1> SUFFICES ASSUME NEW n \in Names PROVE Shows(n)' + Has(n) = Shows(n) + Has(n)'
  BY DEF Even
<1>8. NamedIn(n)' = NamedIn(n)
  <2>1. n \notin S /\ n \notin Range(f)
    BY <1>4, <1>5
  <2>2. \A x \in DOMAIN sections : n \in sections'[x].fields <=> n \in sections[x].fields
    BY <1>3, <2>1
  <2>3. DOMAIN sections' = DOMAIN sections
    BY <1>3 DEF Refilled
  <2> QED BY <2>2, <2>3 DEF NamedIn
<1>9. Having(n)' = Having(n)
  BY <1>3, <1>6 DEF Having
<1>10. Cardinality(CardsNamed(n)') = Cardinality(CardsNamed(n))
  <2> DEFINE C == CardsNamed(n)
             D == CardsNamed(n)'
             g == [c \in C |-> IF c \in S THEN f[c] ELSE c]
  <2>1. /\ \A c \in C : c \in AllCards /\ name[c] = n
        /\ \A c \in AllCards : name[c] = n => c \in C
        /\ \A d \in D : d \in (AllCards \ S) \cup Range(f) /\ name'[d] = n
        /\ \A d \in (AllCards \ S) \cup Range(f) : name'[d] = n => d \in D
    BY <1>3 DEF CardsNamed
  <2>2. IsFiniteSet(C)
    BY AllCounted DEF CountedAll, Counted
  <2> HIDE DEF C, D
  <2>3. g \in [C -> D]
    <3> SUFFICES ASSUME NEW c \in C PROVE (IF c \in S THEN f[c] ELSE c) \in D
      OBVIOUS
    <3>1. c \in AllCards /\ name[c] = n
      BY <2>1
    <3>2. CASE c \in S
      <4>1. f[c] \in Range(f) /\ name'[f[c]] = n
        BY <1>5, <1>7, <3>1, <3>2
      <4>2. f[c] \in D
        BY <2>1, <4>1
      <4> QED BY <3>2, <4>2
    <3>3. CASE c \notin S
      <4>1. name'[c] = n
        BY <1>6, <3>1
      <4>2. c \in D
        BY <2>1, <3>1, <3>3, <4>1
      <4> QED BY <3>3, <4>2
    <3> QED BY <3>2, <3>3
  <2>4. \A c, d \in C : g[c] = g[d] => c = d
    <3>1. \A c \in C : c \in AllCards /\ c \notin Range(f)
      BY <1>6, <2>1
    <3>2. \A c \in S : f[c] \in Range(f)
      BY <1>5
    <3>3. \A c, d \in S : f[c] = f[d] => c = d
      BY <1>5
    <3> QED BY <3>1, <3>2, <3>3
  <2>5. \A d \in D : \E c \in C : g[c] = d
    <3> SUFFICES ASSUME NEW d \in D PROVE \E c \in C : g[c] = d
      OBVIOUS
    <3>1. CASE d \in AllCards \ S
      BY <1>6, <2>1, <3>1
    <3>2. CASE d \in Range(f)
      <4>1. PICK c \in S : d = f[c]
        BY <1>5, <3>2
      <4>2. c \in C
        BY <1>4, <1>7, <2>1, <4>1
      <4> QED BY <4>1, <4>2
    <3> QED BY <2>1, <3>1, <3>2
  <2> HIDE DEF g
  <2>6. Cardinality(D) = Cardinality(C)
    BY <2>2, <2>3, <2>4, <2>5, SameSize
  <2> QED BY <2>6 DEF C, D
<1> QED BY <1>8, <1>9, <1>10 DEF Shows, Has

\* After a failed save the names are in place of the cards: of each name as many, as
\* no section shows it twice.
LEMMA SaveFailsEven ==
  ASSUME TypeInv, SaveFails
  PROVE  Even
<1>1. /\ Refilled /\ Forgotten({}) /\ AllCards' = {} /\ fields' = fields
      /\ \A s \in DOMAIN sections : sections'[s].fields = Shown(s)
  BY SaveFailsShape
<1>2. CardFacts /\ Names \cap Objects = {} /\ SectionsOK /\ Range(fields) \subseteq Objects
  BY CardParts, ListParts, ObjectsAssumption DEF TypeInv
<1>3. \A s \in DOMAIN sections : \A c \in Cards(s) : name[c] \notin sections[s].fields
  BY DEF SaveFails
<1>4. \A s \in DOMAIN sections : \A c, d \in Cards(s) : name[c] = name[d] => c = d
  BY DEF SaveFails, IsSaveButtonEnabled, MayDrag, Highlighted, IsSectionHighlighted, IsFieldHighlighted
<1> SUFFICES ASSUME NEW n \in Names PROVE Shows(n)' + Has(n) = Shows(n) + Has(n)'
  BY DEF Even
<1> DEFINE C == CardsNamed(n)
           N == NamedIn(n)
           X == {s \in DOMAIN sections : \E c \in Cards(s) : name[c] = n}
           at(c) == CHOOSE s \in DOMAIN sections : c \in Cards(s)
           g == [c \in C |-> at(c)]
<1>5. CardsNamed(n)' = {}
  BY <1>1 DEF CardsNamed
<1>6. Having(n)' = Having(n)
  BY <1>1 DEF Having, Forgotten
<1>7. NamedIn(n)' = N \cup X
  <2>1. \A s \in DOMAIN sections : n \in Shown(s) <=> s \in N \/ s \in X
    <3> SUFFICES ASSUME NEW s \in DOMAIN sections PROVE n \in Shown(s) <=> s \in N \/ s \in X
      OBVIOUS
    <3>1. \A e \in sections[s].fields : Label(e) = n <=> e = n \/ (e \in Cards(s) /\ name[e] = n)
      BY <1>2 DEF Label, Cards
    <3>2. \A c \in Cards(s) : c \in sections[s].fields
      BY DEF Cards
    <3> QED BY <3>1, <3>2 DEF Shown, NamedIn
  <2>2. NamedIn(n)' = {s \in DOMAIN sections : n \in Shown(s)}
    BY <1>1 DEF NamedIn, Refilled
  <2>3. N \subseteq DOMAIN sections
    BY DEF NamedIn
  <2> HIDE DEF N
  <2> QED BY <2>1, <2>2, <2>3
<1>8. N \cap X = {}
  BY <1>3 DEF NamedIn
<1>9. \A c \in C : /\ c \in AllCards /\ name[c] = n
                   /\ at(c) \in DOMAIN sections /\ c \in Cards(at(c))
  BY <1>2 DEF CardsNamed, CardFacts
<1>10. \A s \in X : \E c \in C : at(c) = s
  <2> SUFFICES ASSUME NEW s \in DOMAIN sections, NEW c \in Cards(s), name[c] = n PROVE \E d \in C : at(d) = s
    OBVIOUS
  <2>1. c \in C
    BY <1>2 DEF CardsNamed, CardFacts
  <2>2. at(c) = s
    BY <1>2, <1>9, <2>1 DEF SectionsOK
  <2> QED BY <2>1, <2>2
<1>11. g \in [C -> X] /\ \A c, d \in C : g[c] = g[d] => c = d
  <2> HIDE DEF C, at
  <2> QED BY <1>4, <1>9
<1>12. IsFiniteSet(C) /\ IsFiniteSet(N) /\ Counted(n)
  BY AllCounted DEF CountedAll, Counted
<1> HIDE DEF C, N, X, at
<1>13. \A x \in X : \E c \in C : g[c] = x
  BY <1>10
<1> HIDE DEF g
<1>14. IsFiniteSet(X) /\ Cardinality(X) = Cardinality(C)
  BY <1>11, <1>12, <1>13, SameSize
<1>15. Cardinality(N \cup X) = Cardinality(N) + Cardinality(X)
  <2>1. IsFiniteSet(N \cup X)
    BY <1>12, <1>14, FS_Union
  <2> QED BY <1>8, <2>1, TwoParts
<1>16. Cardinality(CardsNamed(n)') = 0
  BY <1>5, FS_EmptySet
<1>17. Cardinality(NamedIn(n)') = Cardinality(NamedIn(n)) + Cardinality(CardsNamed(n))
  BY <1>7, <1>14, <1>15 DEF C, N
<1> QED BY <1>6, <1>12, <1>16, <1>17 DEF Shows, Has, Counted

\* The fields of the sections stay.
LEMMA UnmovedEven ==
  ASSUME TypeInv, AllCards' = AllCards, UNCHANGED <<fields, name>>, DOMAIN sections' = DOMAIN sections,
         \A s \in DOMAIN sections : sections'[s].fields = sections[s].fields
  PROVE  Even
<1>1. \A n \in Names : NamedIn(n)' = NamedIn(n)
  BY DEF NamedIn
<1>2. Range(fields)' = Range(fields)
  OBVIOUS
<1> QED BY <1>1, <1>2, SameCounts

LEMMA DropSectionEven ==
  ASSUME TypeInv, NEW kind \in Kinds, DropSection(kind)
  PROVE  Even
<1> PICK t : t = NewSection
  OBVIOUS
<1>1. /\ UNCHANGED <<fields, cards>> /\ AllCards' = AllCards /\ t \notin DOMAIN sections
      /\ DOMAIN sections' = DOMAIN sections \cup {t} /\ sections'[t].fields = {}
      /\ \A x \in DOMAIN sections : sections'[x] = sections[x]
  BY DropSectionShape
<1>2. \A n \in Names : NamedIn(n)' = NamedIn(n)
  BY <1>1 DEF NamedIn
<1>3. Range(fields)' = Range(fields) /\ name' = name
  BY <1>1 DEF cards
<1> QED BY <1>1, <1>2, <1>3, SameCounts

LEMMA MoveFieldEven ==
  ASSUME TypeInv, NEW s \in DOMAIN sections, NEW c \in Cards(s), NEW t \in DOMAIN sections, MoveField(c, s, t)
  PROVE  Even
<1>1. /\ Refilled /\ FieldMoved(c, t) /\ name' = name
      /\ AllCards' = AllCards /\ Range(fields)' = Range(fields)
  BY MoveFieldShape
<1>2. c \in Objects /\ Names \cap Objects = {}
  BY CardParts, ObjectsAssumption DEF CardFacts
<1>3. \A n \in Names : NamedIn(n)' = NamedIn(n)
  <2> SUFFICES ASSUME NEW n \in Names PROVE NamedIn(n)' = NamedIn(n)
    OBVIOUS
  <2>1. \A x \in DOMAIN sections : n \in sections'[x].fields <=> n \in sections[x].fields
    BY <1>1, <1>2 DEF FieldMoved
  <2> QED BY <1>1, <2>1 DEF NamedIn, Refilled
<1> QED BY <1>1, <1>3, SameCounts

\* A field is renamed whose card is in a section, or none.
LEMMA RenameFieldEven ==
  ASSUME TypeInv, NEW s \in DOMAIN sections, NEW c \in Cards(s), NEW n \in Names, RenameField(s, c, n),
         "originalRenamed" \notin ways'
  PROVE  Even
<1>1. Renamed(c, n) /\ AllCards' = AllCards /\ UNCHANGED <<sections, fields>>
  BY RenameFieldShape
<1>2. CASE form[c] \in FieldNames
  <2>1. PICK x : x = fields[First(form[c])]
    OBVIOUS
  <2>2. x \in Range(fields) /\ name[x] = form[c] /\ name' = [name EXCEPT ![x] = n]
    BY <1>1, <1>2, <2>1 DEF Renamed
  <2>3. n # form[c] /\ x \notin Originals
    BY <1>2, <2>1 DEF RenameField
  <2>4. x \in AllCards
    BY <2>2, <2>3 DEF Originals, AllCards
  <2> QED BY <1>1, <2>2, <2>3, <2>4, RenameEven
<1>3. CASE form[c] \notin FieldNames
  <2>1. name' = name
    BY <1>1, <1>3 DEF Renamed
  <2> QED BY <1>1, <2>1, UnmovedEven
<1> QED BY <1>2, <1>3

LEMMA CountStep ==
  ASSUME TypeInv, CountInv, [Next]_vars
  PROVE  CountInv'
<1>1. TypeInv' /\ ways \subseteq ways'
  BY StepKeepsTypes, WaysGrow
<1>2. Even => CountInv'
  BY <1>1, EvenKeeps DEF CountInv
<1>3. ASSUME NEW kind \in Kinds, DropSection(kind) PROVE CountInv'
  BY <1>2, <1>3, DropSectionEven
<1>4. ASSUME NEW n \in Names, DropTemplate(n) PROVE CountInv'
  BY <1>2, <1>4, DropTemplateAdds, AddEven
<1>5. CASE DropGlobalTemplate
  BY <1>2, <1>5, DropGlobalAdds, AddEven
<1>6. ASSUME NEW s \in DOMAIN sections, NEW k \in Controls, NEW n \in Names, DropField(s, k, n) PROVE CountInv'
  BY <1>2, <1>6, DropFieldAdds, AddEven
<1>7. ASSUME NEW s \in DOMAIN sections, NEW c \in Cards(s), NEW t \in DOMAIN sections, MoveField(c, s, t)
      PROVE  CountInv'
  BY <1>2, <1>7, MoveFieldEven
<1>8. ASSUME NEW s \in DOMAIN sections, NEW c \in Cards(s), NEW n \in Names, RenameField(s, c, n)
      PROVE  CountInv'
  <2>1. CASE "originalRenamed" \in ways'
    BY <2>1 DEF CountInv
  <2>2. CASE "originalRenamed" \notin ways'
    BY <1>2, <1>8, <2>2, RenameFieldEven
  <2> QED BY <2>1, <2>2
<1>9. ASSUME NEW s \in DOMAIN sections, NEW c \in Cards(s), NEW n \in Names, RenameRefused(s, c, n)
      PROVE  CountInv'
  <2>1. UNCHANGED <<sections, fields, name>> /\ AllCards' = AllCards
    BY <1>9, RenameRefusedShape
  <2> QED BY <1>2, <2>1, UnmovedEven
<1>10. ASSUME NEW s \in DOMAIN sections, NEW c \in Cards(s), RemoveField(s, c) PROVE CountInv'
  <2>1. (CountLE => CountLE') /\ (CountEQ /\ "copyRemoved" \notin ways' => CountEQ')
    BY <1>10, RemoveFieldCounts
  <2> QED BY <1>1, <2>1 DEF CountInv
<1>11. ASSUME NEW s \in DOMAIN sections, MoveSection(s) PROVE CountInv'
  BY <1>2, <1>11, MoveSectionEven
<1>12. ASSUME NEW s \in DOMAIN sections, CopySection(s) PROVE CountInv'
  <2>1. "copied" \in ways'
    BY <1>12 DEF CopySection
  <2> QED BY <2>1 DEF CountInv
<1>13. ASSUME NEW s \in DOMAIN sections, RenameSection(s) PROVE CountInv'
  <2>1. /\ UNCHANGED <<fields, cards>> /\ DOMAIN sections' = DOMAIN sections /\ AllCards' = AllCards
        /\ \A x \in DOMAIN sections : sections'[x].fields = sections[x].fields
    BY <1>13, RenameSectionShape
  <2> QED BY <1>2, <2>1, UnmovedEven DEF cards
<1>14. ASSUME NEW s \in DOMAIN sections, RemoveSection(s) PROVE CountInv'
  <2>1. CountLE => CountLE' /\ (CountEQ /\ ways' \cap {"multiRemoved", "namesRemoved"} = {} => CountEQ')
    BY <1>14, RemoveSectionCounts
  <2> QED BY <1>1, <2>1 DEF CountInv
<1>15. ASSUME NEW c \in Objects, TypeOldName(c) PROVE CountInv'
  <2>1. UNCHANGED <<sections, fields, name>> /\ AllCards' = AllCards
    BY <1>15, TypeOldNameShape
  <2> QED BY <1>2, <2>1, UnmovedEven
<1>16. CASE TemplatesArrive \/ EditOtherStep
  <2>1. UNCHANGED <<sections, fields, name>> /\ AllCards' = AllCards
    BY <1>16, OtherStepsShape
  <2> QED BY <1>2, <2>1, UnmovedEven
<1>17. CASE SaveFails
  BY <1>2, <1>17, SaveFailsEven
<1>18. CASE UNCHANGED vars
  <2>1. UNCHANGED <<sections, fields, name>>
    BY <1>18 DEF vars, cards
  <2>2. AllCards' = AllCards
    BY <2>1 DEF AllCards, Cards
  <2> QED BY <1>2, <2>1, <2>2, UnmovedEven
<1>19. ASSUME NEW s \in DOMAIN sections, NEW c \in Cards(s), NEW n \in Names, RenameReference(s, c, n)
       PROVE  CountInv'
  <2>1. /\ name' = [name EXCEPT ![c] = n] /\ name[c] # n
        /\ AllCards' = AllCards /\ UNCHANGED <<sections, fields>> /\ c \in AllCards
    BY <1>19, RenameReferenceShape, CardParts DEF RenameReference, CardFacts
  <2>2. CASE c \in Range(fields)
    BY <1>2, <2>1, <2>2, RenameEven
  <2>3. CASE c \notin Range(fields)
    <3>1. "copyRenamed" \in ways'
      BY <1>19, <2>3 DEF RenameReference
    <3> QED BY <3>1 DEF CountInv
  <2> QED BY <2>2, <2>3
<1> QED BY <1>3, <1>4, <1>5, <1>6, <1>7, <1>8, <1>9, <1>10, <1>11, <1>12, <1>13, <1>14, <1>15, <1>16,
           <1>17, <1>18, <1>19 DEF Next

\* At the start each field is on a card.
LEMMA InitCounts ==
  ASSUME Init
  PROVE  CountInv
<1>1. TypeInv /\ Fresh
  BY InitTypes, InitIsFresh
<1>2. \A n \in Names : Shows(n) = Has(n) /\ Has(n) \in Nat
  <2> SUFFICES ASSUME NEW n \in Names PROVE Shows(n) = Has(n) /\ Has(n) \in Nat
    OBVIOUS
  <2>1. CardsNamed(n) = Having(n)
    BY <1>1 DEF CardsNamed, Having, Fresh
  <2>2. NamedIn(n) = {}
    BY <1>1, ObjectsAssumption DEF NamedIn, Fresh
  <2>3. Cardinality(NamedIn(n)) = 0 /\ Has(n) \in Nat
    BY <1>1, <2>2, AllCounted, FS_EmptySet DEF CountedAll, Counted
  <2> QED BY <2>1, <2>3 DEF Shows, Has
<1> QED BY <1>2 DEF CountInv, CountLE, CountEQ

LEMMA CountsAlways == Spec => [](SectionsNameFields /\ FieldsAreShown)
<1>1. Init => TypeInv /\ CountInv
  BY InitTypes, InitCounts
<1>2. TypeInv /\ CountInv /\ [Next]_vars => TypeInv' /\ CountInv'
  BY StepKeepsTypes, CountStep
<1>3. TypeInv /\ CountInv => SectionsNameFields /\ FieldsAreShown
  BY CountInvImplies
<1> QED BY <1>1, <1>2, <1>3, PTL DEF Spec

\* saveType puts names in place of the objects, so a section must show no name that
\* no field of the list has: it shows none, however fields and sections are moved,
\* renamed and removed, until a section is copied (onSectionDrop with the control key)
\* or handleFieldChanges renames the field of which a moved section holds a copy, or
\* the card of a reference (onNameChange) such a copy.
THEOREM SectionsNameFieldsAlways == Spec => []SectionsNameFields
BY CountsAlways, PTL

\* No field is lost from the page, or on it twice: the sections show each name as many
\* times as fields have it. removeField takes the object of a card from the list, and
\* removeSection a field of the name of each card: as many as were shown, but in the
\* ways that leave a field which nothing shows.
THEOREM FieldsAreShownAlways == Spec => []FieldsAreShown
BY CountsAlways, PTL
=============================================================================

--------------------------- MODULE GraphEditorProofs ---------------------------
(***************************************************************************)
(* Proofs about GraphEditor for any objects, relations, types and filters, *)
(* and any number of clicks and requests: type correctness, that the graph *)
(* at rest is that of the root chosen and the filter applied, that it is a *)
(* tree, and that collapsing a node takes what hangs below it.             *)
(***************************************************************************)
EXTENDS GraphEditor, FiniteSetTheorems, SequenceTheorems, WellFoundedInduction, TLAPS

----------------------------------------------------------------------------
(* Numbers and finite sets. *)

\* A set of natural numbers has a least one.
LEMMA LeastNumber ==
  ASSUME NEW T, T \subseteq Nat, T # {}
  PROVE  \E n \in T : \A m \in T : n <= m
<1> DEFINE R == OpToRel(<, Nat)
<1>1. IsWellFoundedOn(R, Nat)
  BY NatLessThanWellFounded
<1>2. \A x, y \in Nat : <<y, x>> \in R <=> y < x
  BY DEF OpToRel
<1> HIDE DEF R
<1>3. PICK n \in T : \A m \in T : ~(<<m, n>> \in R)
  BY <1>1, WFMin
<1>4. \A m \in T : n <= m
  <2>1. ASSUME NEW m \in T PROVE n <= m
    <3>1. m \in Nat /\ n \in Nat
      BY <2>1
    <3>2. ~(m < n)
      BY <1>2, <1>3, <3>1
    <3> QED BY <3>1, <3>2
  <2> QED BY <2>1
<1> QED BY <1>4

\* Induction, for a set of numbers.
LEMMA InductionUpTo ==
  ASSUME NEW C \in Nat, NEW T, 0 \in T, \A k \in 1..C : k - 1 \in T => k \in T
  PROVE  0..C \subseteq T
<1>1. SUFFICES ASSUME (0..C) \ T # {} PROVE FALSE
  OBVIOUS
<1>2. (0..C) \ T \subseteq Nat
  OBVIOUS
<1>3. PICK n \in (0..C) \ T : \A m \in (0..C) \ T : n <= m
  BY <1>1, <1>2, LeastNumber
<1>4. n # 0 /\ n \in Nat
  BY <1>3
<1>5. n \in 1..C /\ n - 1 \in 0..C /\ ~(n <= n - 1)
  BY <1>3, <1>4
<1>6. n - 1 \in T
  BY <1>3, <1>5
<1> QED BY <1>3, <1>5, <1>6

\* The image of a finite set is finite, and no larger.
LEMMA ImageFinite ==
  ASSUME NEW S, IsFiniteSet(S), NEW f, DOMAIN f = S
  PROVE  /\ IsFiniteSet({f[x] : x \in S})
         /\ Cardinality({f[x] : x \in S}) <= Cardinality(S)
<1> DEFINE T == {f[x] : x \in S}
           g == [x \in S |-> f[x]]
<1>1. g \in [S -> T] /\ \A t \in T : \E x \in S : g[x] = t
  OBVIOUS
<1>2. g \in Surjection(S, T)
  BY <1>1 DEF Surjection
<1> HIDE DEF T, g
<1>3. IsFiniteSet(T) /\ Cardinality(T) <= Cardinality(S)
  BY <1>2, FS_Surjection
<1> QED BY <1>3 DEF T

\* The image under a function without two arguments of one value has as many elements.
LEMMA ImageCardinality ==
  ASSUME NEW S, IsFiniteSet(S), NEW f, DOMAIN f = S,
         \A x, y \in S : f[x] = f[y] => x = y
  PROVE  /\ IsFiniteSet({f[x] : x \in S})
         /\ Cardinality({f[x] : x \in S}) = Cardinality(S)
<1> DEFINE T == {f[x] : x \in S}
           g == [x \in S |-> f[x]]
<1>1. g \in [S -> T] /\ \A t \in T : \E x \in S : g[x] = t
  OBVIOUS
<1>2. \A x, y \in S : g[x] = g[y] => x = y
  OBVIOUS
<1>3. g \in Surjection(S, T) /\ g \in Injection(S, T)
  BY <1>1, <1>2 DEF Surjection, Injection, IsInjective
<1> HIDE DEF T, g
<1>4. IsFiniteSet(T) /\ Cardinality(T) = Cardinality(S)
  BY <1>3, FS_Surjection
<1> QED BY <1>4 DEF T

----------------------------------------------------------------------------
(* Paths and nodes. *)

\* A path one longer has the path as its front, and what was appended as its end.
LEMMA AppendPath ==
  ASSUME NEW S, NEW p \in Seq(S), NEW o \in S
  PROVE  /\ Append(p, o) \in Seq(S) /\ Append(p, o) # <<>> /\ Len(Append(p, o)) = Len(p) + 1
         /\ Last(Append(p, o)) = o /\ Front(Append(p, o)) = p
         /\ p # <<>> => Append(p, o)[1] = p[1]
<1>1. /\ Append(p, o) \in Seq(S) /\ Append(p, o) # <<>> /\ Len(Append(p, o)) = Len(p) + 1
      /\ \A i \in 1..Len(p) : Append(p, o)[i] = p[i]
      /\ Append(p, o)[Len(p) + 1] = o
  BY AppendProperties
<1>2. Len(p) \in Nat /\ (p # <<>> => Len(p) # 0)
  BY EmptySeq, LenProperties
<1>3. Last(Append(p, o)) = o
  BY <1>1 DEF Last
<1> DEFINE f == SubSeq(Append(p, o), 1, Len(p))
<1>4. \A i \in 1..Len(p) : Append(p, o)[i] \in S
  BY <1>1, <1>2, LenProperties
<1>5. f \in Seq(S) /\ Len(f) = Len(p) /\ \A i \in 1..Len(p) : f[i] = p[i]
  BY <1>1, <1>2, <1>4, SubSeqProperties
<1>6. f = p
  BY <1>5, SeqEqual
<1>7. Front(Append(p, o)) = p
  <2>1. Len(Append(p, o)) - 1 = Len(p)
    BY <1>1, <1>2
  <2> QED BY <1>6, <2>1 DEF Front
<1>8. p # <<>> => Append(p, o)[1] = p[1]
  BY <1>1, <1>2
<1> QED BY <1>1, <1>3, <1>7, <1>8

\* Every path but the empty one is its front with its end appended.
LEMMA FrontPath ==
  ASSUME NEW S, NEW p \in Seq(S), p # <<>>
  PROVE  /\ Front(p) \in Seq(S) /\ Len(Front(p)) = Len(p) - 1
         /\ Last(p) \in S /\ p = Append(Front(p), Last(p))
<1>1. PICK q \in Seq(S), o \in S : p = Append(q, o)
  BY SequenceEmptyOrAppend
<1>2. Front(p) = q /\ Last(p) = o /\ Len(p) = Len(q) + 1
  BY <1>1, AppendPath
<1>3. Len(q) \in Nat
  BY LenProperties
<1> QED BY <1>1, <1>2, <1>3

\* What is a strict prefix of a path is its front or a strict prefix of it, and
\* the other way round.
LEMMA StrictPrefixOfFront ==
  ASSUME NEW S, NEW p \in Seq(S), NEW q \in Seq(S), q # <<>>
  PROVE  IsStrictPrefix(p, q) <=> p = Front(q) \/ IsStrictPrefix(p, Front(q))
<1>1. /\ Len(p) \in Nat /\ Len(q) \in Nat \ {0}
      /\ Front(q) \in Seq(S) /\ Len(Front(q)) = Len(q) - 1
  BY EmptySeq, LenProperties, FrontPath
<1>2. \A i \in 1..Len(q) : q[i] \in S
  BY <1>1, LenProperties
<1>3. \A n \in 0..Len(q) : /\ SubSeq(q, 1, n) \in Seq(S) /\ Len(SubSeq(q, 1, n)) = n
                           /\ \A i \in 1..n : SubSeq(q, 1, n)[i] = q[i]
  <2> TAKE n \in 0..Len(q)
  <2>1. \A i \in 1..n : q[i] \in S
    BY <1>1, <1>2
  <2> QED BY <2>1, SubSeqProperties
<1>4. SubSeq(p, 1, Len(p)) = p
  BY SubSeqFull
<1>5. Front(q) = SubSeq(q, 1, Len(q) - 1) /\ \A i \in 1..(Len(q) - 1) : Front(q)[i] = q[i]
  BY <1>1, <1>3 DEF Front
<1>6. \A n \in 0..(Len(q) - 1) : SubSeq(Front(q), 1, n) = SubSeq(q, 1, n)
  <2> TAKE n \in 0..(Len(q) - 1)
  <2>1. \A i \in 1..n : Front(q)[i] = q[i] /\ q[i] \in S
    BY <1>1, <1>2, <1>5
  <2>2. \A i \in 1..n : Front(q)[i] \in S
    BY <2>1
  <2> DEFINE f == SubSeq(Front(q), 1, n)
             g == SubSeq(q, 1, n)
  <2>3. f \in Seq(S) /\ Len(f) = n /\ \A i \in 1..n : f[i] = Front(q)[i]
    BY <2>2, SubSeqProperties
  <2>4. g \in Seq(S) /\ Len(g) = n /\ \A i \in 1..n : g[i] = q[i]
    BY <1>1, <1>3
  <2>5. \A i \in 1..Len(f) : f[i] = g[i]
    BY <2>1, <2>3, <2>4
  <2> HIDE DEF f, g
  <2>6. f = g
    BY <2>3, <2>4, <2>5, SeqEqual
  <2> QED BY <2>6 DEF f, g
<1>7. CASE Len(p) > Len(q)
  <2>1. ~(Len(p) <= Len(q)) /\ ~(Len(p) <= Len(Front(q))) /\ p # Front(q)
    BY <1>1, <1>7
  <2> QED BY <2>1 DEF IsStrictPrefix, IsPrefix
<1>8. CASE Len(p) = Len(q)
  <2>1. ~(Len(p) <= Len(Front(q))) /\ p # Front(q)
    BY <1>1, <1>8
  <2>2. SubSeq(q, 1, Len(p)) = q
    BY <1>8, SubSeqFull
  <2> QED BY <1>4, <2>1, <2>2 DEF IsStrictPrefix, IsPrefix
<1>9. CASE Len(p) < Len(q)
  <2>1. p # q /\ Len(p) <= Len(q) /\ Len(p) <= Len(Front(q)) /\ Len(p) \in 0..(Len(q) - 1)
    BY <1>1, <1>9
  <2>2. IsStrictPrefix(p, q) <=> p = SubSeq(q, 1, Len(p))
    BY <1>4, <2>1 DEF IsStrictPrefix, IsPrefix
  <2>3. IsStrictPrefix(p, Front(q)) <=> p = SubSeq(q, 1, Len(p)) /\ p # Front(q)
    <3>1. SubSeq(Front(q), 1, Len(p)) = SubSeq(q, 1, Len(p))
      BY <1>6, <2>1
    <3> QED BY <1>4, <2>1, <3>1 DEF IsStrictPrefix, IsPrefix
  <2>4. p = Front(q) => p = SubSeq(q, 1, Len(p))
    BY <1>1, <1>5
  <2> QED BY <2>2, <2>3, <2>4
<1> QED BY <1>1, <1>7, <1>8, <1>9

LEMMA StrictPrefixShorter ==
  ASSUME NEW S, NEW p \in Seq(S), NEW q \in Seq(S), IsStrictPrefix(p, q)
  PROVE  Len(p) < Len(q) /\ Len(p) \in Nat /\ Len(q) \in Nat
<1>1. Len(p) \in Nat /\ Len(q) \in Nat
  BY LenProperties
<1>2. Len(p) <= Len(q) /\ SubSeq(p, 1, Len(p)) = SubSeq(q, 1, Len(p)) /\ p # q
  BY DEF IsStrictPrefix, IsPrefix
<1>3. SubSeq(p, 1, Len(p)) = p /\ SubSeq(q, 1, Len(q)) = q
  BY SubSeqFull
<1>4. Len(p) # Len(q)
  BY <1>2, <1>3
<1> QED BY <1>1, <1>2, <1>4

IsNode(n) == /\ n.path \in Seq(Objects) /\ n.path # <<>>
             /\ n.side \in Sides
             /\ IsRoot(n) <=> Len(n.path) = 1

LEMMA LongIsNotRoot ==
  ASSUME NEW n, IsNode(n), Len(n.path) >= 2
  PROVE  ~IsRoot(n)
<1>1. Len(n.path) \in Nat
  BY DEF IsNode
<1>2. \A k \in Nat : k >= 2 => k # 1
  OBVIOUS
<1>3. Len(n.path) # 1
  BY <1>1, <1>2
<1> QED BY <1>3 DEF IsNode

LEMMA NodeParts ==
  ASSUME NEW n, IsNode(n)
  PROVE  /\ Len(n.path) \in Nat \ {0}
         /\ ~IsRoot(n) => Len(n.path) >= 2
         /\ Front(n.path) \in Seq(Objects) /\ Len(Front(n.path)) = Len(n.path) - 1
         /\ Id(n) \in Objects /\ n.path[1] \in Objects
         /\ Range(n.path) \subseteq Objects
<1>1. n.path \in Seq(Objects) /\ n.path # <<>> /\ (IsRoot(n) <=> Len(n.path) = 1)
  BY DEF IsNode
<1>2. Len(n.path) \in Nat \ {0} /\ DOMAIN n.path = 1..Len(n.path)
      /\ \A i \in 1..Len(n.path) : n.path[i] \in Objects
  BY <1>1, EmptySeq, LenProperties
<1>3. /\ Front(n.path) \in Seq(Objects) /\ Len(Front(n.path)) = Len(n.path) - 1
      /\ Last(n.path) \in Objects
  BY <1>1, FrontPath
<1>4. Id(n) \in Objects /\ n.path[1] \in Objects
  BY <1>2, <1>3 DEF Id
<1>5. Range(n.path) \subseteq Objects
  BY <1>2 DEF Range
<1>6. ~IsRoot(n) => Len(n.path) >= 2
  <2>1. ~IsRoot(n) => Len(n.path) # 1
    BY <1>1
  <2>2. \A k \in Nat \ {0} : k # 1 => k >= 2
    OBVIOUS
  <2> QED BY <1>2, <2>1, <2>2
<1> QED BY <1>2, <1>3, <1>4, <1>5, <1>6

\* A number that no node in use has is always found.
LEMMA FreshIsNew ==
  ASSUME NEW path, NEW side, NEW used, IsFiniteSet(used)
  PROVE  New(path, side, used) \notin used
<1> DEFINE C == Cardinality(used)
           Free(k) == Node(path, side, k) \notin used
           f == [k \in 0..C |-> Node(path, side, k)]
           Fresh(k) == Free(k) /\ \A i \in 0..(k - 1) : ~Free(i)
<1>1. C \in Nat
  BY FS_CardinalityType
<1>2. \E k \in 0..C : Free(k)
  <2> SUFFICES ASSUME \A k \in 0..C : ~Free(k) PROVE FALSE
    OBVIOUS
  <2>1. f \in [0..C -> used]
    OBVIOUS
  <2>2. IsFiniteSet(0..C) /\ Cardinality(0..C) = C + 1
    BY <1>1, FS_Interval
  <2>3. Cardinality(used) < Cardinality(0..C)
    BY <1>1, <2>2
  <2> HIDE DEF f, C
  <2>4. PICK j, k \in 0..C : j # k /\ f[j] = f[k]
    BY <2>1, <2>2, <2>3, FS_PigeonHole
  <2>5. Node(path, side, j) = Node(path, side, k)
    BY <2>4 DEF f
  <2> QED BY <2>4, <2>5 DEF Node
<1>3. \E k \in 0..C : Fresh(k)
  <2> DEFINE T == {k \in 0..C : Free(k)}
  <2>1. T # {} /\ T \subseteq Nat
    BY <1>1, <1>2
  <2> HIDE DEF T
  <2>2. PICK k \in T : \A m \in T : k <= m
    BY <2>1, LeastNumber
  <2>3. k \in 0..C /\ k \in Nat
    BY <2>2 DEF T
  <2>4. \A i \in 0..(k - 1) : i \in 0..C /\ ~(k <= i)
    BY <1>1, <2>3
  <2> QED BY <2>2, <2>3, <2>4 DEF T
<1>4. FreshCopy(path, side, used) = CHOOSE k \in 0..C : Fresh(k)
  BY DEF FreshCopy
<1> HIDE DEF Fresh
<1>5. Fresh(FreshCopy(path, side, used))
  BY <1>3, <1>4
<1> QED BY <1>5 DEF Fresh, New

\* What a new node is made of.
LEMMA NewParts ==
  ASSUME NEW path, NEW side, NEW used
  PROVE  New(path, side, used).path = path /\ New(path, side, used).side = side
BY DEF New, Node

LEMMA NewNodes ==
  ASSUME NEW used
  PROVE  /\ \A o \in Objects : IsNode(New(<<o>>, "root", used)) /\ IsRoot(New(<<o>>, "root", used))
         /\ \A o, p \in Objects, side \in {"parent", "child"} :
              IsNode(New(<<o, p>>, side, used)) /\ ~IsRoot(New(<<o, p>>, side, used))
<1>1. ASSUME NEW o \in Objects
      PROVE  IsNode(New(<<o>>, "root", used)) /\ IsRoot(New(<<o>>, "root", used))
  <2>1. <<o>> \in Seq(Objects) /\ <<o>> # <<>> /\ Len(<<o>>) = 1
    OBVIOUS
  <2> DEFINE m == New(<<o>>, "root", used)
  <2>2. m.path = <<o>> /\ m.side = "root"
    BY DEF New, Node
  <2> QED BY <2>1, <2>2 DEF IsNode, IsRoot, Sides
<1>2. ASSUME NEW o \in Objects, NEW p \in Objects, NEW side \in {"parent", "child"}
      PROVE  IsNode(New(<<o, p>>, side, used)) /\ ~IsRoot(New(<<o, p>>, side, used))
  <2>1. <<o, p>> \in Seq(Objects) /\ <<o, p>> # <<>> /\ Len(<<o, p>>) = 2
    OBVIOUS
  <2> DEFINE m == New(<<o, p>>, side, used)
  <2>2. m.path = <<o, p>> /\ m.side = side
    BY DEF New, Node
  <2>3. IsNode(m) /\ ~IsRoot(m)
    <3> HIDE DEF m
    <3> QED BY <2>1, <2>2 DEF IsNode, IsRoot, Sides
  <2> QED BY <2>3
<1> QED BY <1>1, <1>2

\* A node one further from the root.
LEMMA NewBelow ==
  ASSUME NEW n, IsNode(n), ~IsRoot(n), NEW o \in Objects,
         NEW m, m.path = Append(n.path, o), m.side = n.side
  PROVE  /\ IsNode(m) /\ ~IsRoot(m) /\ m.side = n.side /\ Front(m.path) = n.path
         /\ Id(m) = o /\ m.path[1] = n.path[1]
<1>1. n.path \in Seq(Objects) /\ n.path # <<>> /\ n.side \in Sides
  BY DEF IsNode
<1>2. Len(n.path) \in Nat /\ Len(n.path) >= 2
  BY NodeParts
<1>3. m.path = Append(n.path, o) /\ m.side = n.side
  OBVIOUS
<1>4. /\ m.path \in Seq(Objects) /\ m.path # <<>> /\ Len(m.path) = Len(n.path) + 1
      /\ Last(m.path) = o /\ Front(m.path) = n.path /\ m.path[1] = n.path[1]
  BY <1>1, <1>3, AppendPath
<1>5. ~IsRoot(m) /\ Len(m.path) # 1
  BY <1>2, <1>3, <1>4 DEF IsRoot
<1> QED BY <1>1, <1>3, <1>4, <1>5 DEF IsNode, Id

----------------------------------------------------------------------------
(* The type invariant. *)

\* m is the node that n was loaded from; j is a connection of the two.
Above(m, n) == m.path = Front(n.path) /\ ~IsRoot(n) /\ (IsRoot(m) \/ m.side = n.side)
Connects(j, m, n) == IF n.side = "parent" THEN j.up = n /\ j.down = m
                                          ELSE j.up = m /\ j.down = n

Requested == [root : Objects, filter : Filters, late : BOOLEAN]

IsExpansion(e) ==
  /\ e \in [node : {e.node}, filter : Filters, nodesLive : BOOLEAN, joinsLive : BOOLEAN]
  /\ IsNode(e.node) /\ ~IsRoot(e.node)
  /\ e.joinsLive => e.nodesLive

\* No node is expanded by two requests at once.
ExpansionsFit(E) == /\ IsFiniteSet(E)
                    /\ \A e \in E : IsExpansion(e)
                    /\ \A d, e \in E : d.node = e.node => d = e

PageOK == /\ {rootInput, rootNodeId, chosen} \subseteq Objects /\ nav \in Objects \cup {None}
          /\ typesFilter \in Filters /\ applied \in Filters
LoadsOK == loads \in Seq(Requested)
NodesOK == /\ shown \subseteq mapped /\ IsFiniteSet(mapped)
           /\ \A n \in mapped : IsNode(n)
JoinsOK == /\ IsFiniteSet(joins)
           /\ \A j \in joins : \E m, n \in mapped : Above(m, n) /\ Connects(j, m, n)
ExpansionsOK == ExpansionsFit(expansions)
CounterOK == counter = Len(loads) + Cardinality(expansions)

TypeInv == PageOK /\ LoadsOK /\ NodesOK /\ JoinsOK /\ ExpansionsOK /\ CounterOK

\* The node selected is one, shown or not.
SelectedOK == \A n \in Selected : IsNode(n)

LEMMA JoinEnds ==
  ASSUME JoinsOK, NEW j \in joins
  PROVE  j.up \in mapped /\ j.down \in mapped
BY DEF JoinsOK, Connects

LEMMA LoadingFinite ==
  ASSUME NEW E, ExpansionsFit(E)
  PROVE  /\ IsFiniteSet({e.node : e \in E})
         /\ Cardinality({e.node : e \in E}) = Cardinality(E)
<1> DEFINE f == [e \in E |-> e.node]
<1>1. DOMAIN f = E /\ \A d, e \in E : f[d] = f[e] => d = e
  BY DEF ExpansionsFit
<1>2. IsFiniteSet(E)
  BY DEF ExpansionsFit
<1>3. {f[e] : e \in E} = {e.node : e \in E}
  OBVIOUS
<1> HIDE DEF f
<1>4. /\ IsFiniteSet({f[e] : e \in E})
      /\ Cardinality({f[e] : e \in E}) = Cardinality(E)
  BY <1>1, <1>2, ImageCardinality
<1> QED BY <1>3, <1>4

LEMMA TypeInvImpliesTypeOK == TypeInv /\ SelectedOK => TypeOK
<1> SUFFICES ASSUME TypeInv, SelectedOK PROVE TypeOK
  OBVIOUS
<1> USE DEF TypeInv
<1>1. \A n \in InUse : n.side \in Sides /\ Range(n.path) \subseteq Objects
  <2>1. \A n \in InUse : IsNode(n)
    BY DEF NodesOK, InUse, Kept, SelectedOK, Loading, ExpansionsOK, ExpansionsFit, IsExpansion
  <2> QED BY <2>1, NodeParts DEF IsNode
<1>2. \A j \in joins : {j.up, j.down} \subseteq mapped
  BY JoinEnds
<1>3. \A l \in Range(loads) : l.root \in Objects /\ l.filter \in Filters
  <2>1. DOMAIN loads = 1..Len(loads) /\ \A i \in 1..Len(loads) : loads[i] \in Requested
    BY LenProperties DEF LoadsOK
  <2> QED BY <2>1 DEF Range, Requested
<1>4. expansions \subseteq Requests
  <2> SUFFICES ASSUME NEW e \in expansions PROVE e \in Requests
    OBVIOUS
  <2>1. IsExpansion(e) /\ e.node \in Loading
    BY DEF ExpansionsOK, ExpansionsFit, Loading
  <2> QED BY <2>1 DEF IsExpansion, Requests
<1>5. Cardinality(Loading) = Cardinality(expansions)
  BY LoadingFinite DEF ExpansionsOK, Loading
<1> QED BY <1>1, <1>2, <1>3, <1>4, <1>5 DEF TypeOK, PageOK, CounterOK

LEMMA InitType == Init => TypeInv
<1> SUFFICES ASSUME Init PROVE TypeInv
  OBVIOUS
<1> USE DEF Init
<1>1. PageOK
  BY ObjectsAssumption, FiltersAssumption DEF PageOK
<1>2. LoadsOK /\ Len(loads) = 1
  <2>1. [root |-> Start, filter |-> {}, late |-> FALSE] \in Requested
    BY ObjectsAssumption, FiltersAssumption DEF Requested
  <2> QED BY <2>1 DEF LoadsOK
<1>3. NodesOK /\ JoinsOK /\ ExpansionsOK
  BY FS_EmptySet DEF NodesOK, JoinsOK, ExpansionsOK, ExpansionsFit
<1>4. CounterOK
  BY <1>2, FS_EmptySet DEF CounterOK
<1> QED BY <1>1, <1>2, <1>3, <1>4 DEF TypeInv

----------------------------------------------------------------------------
(* Requests for the graph. *)

LEMMA AskOK ==
  ASSUME LoadsOK, NEW root \in Objects, NEW filter \in Filters, Ask(root, filter)
  PROVE  /\ LoadsOK' /\ applied' = filter
         /\ Len(loads') = Len(loads) + 1 /\ Len(loads) \in Nat
         /\ loads' # <<>>
         /\ Last(loads') = [root |-> root, filter |-> filter, late |-> FALSE]
         /\ \A i \in 1..Len(loads) : loads'[i] = loads[i]
<1> DEFINE l == [root |-> root, filter |-> filter, late |-> FALSE]
<1>1. l \in Requested
  BY DEF Requested
<1>2. loads' = Append(loads, l) /\ applied' = filter
  BY DEF Ask
<1> HIDE DEF l
<1>3. /\ Append(loads, l) \in Seq(Requested) /\ Append(loads, l) # <<>>
      /\ Len(Append(loads, l)) = Len(loads) + 1 /\ Last(Append(loads, l)) = l
  BY <1>1, AppendPath DEF LoadsOK
<1>4. Len(loads) \in Nat /\ \A i \in 1..Len(loads) : Append(loads, l)[i] = loads[i]
  BY <1>1, AppendProperties, LenProperties DEF LoadsOK
<1> QED BY <1>2, <1>3, <1>4 DEF LoadsOK, l

\* What is left of the requests when the i-th one is answered.
LEMMA RestOK ==
  ASSUME LoadsOK, NEW i \in DOMAIN loads
  PROVE  /\ i \in 1..Len(loads) /\ Len(loads) \in Nat /\ loads[i] \in Requested
         /\ Rest(i) \in Seq(Requested) /\ Len(Rest(i)) = Len(loads) - 1
         /\ \A k \in 1..(Len(loads) - 1) :
              Rest(i)[k] = IF k < i THEN [loads[k] EXCEPT !.late = TRUE] ELSE loads[k + 1]
<1>1. /\ Len(loads) \in Nat /\ DOMAIN loads = 1..Len(loads)
      /\ \A k \in 1..Len(loads) : loads[k] \in Requested
  BY LenProperties DEF LoadsOK
<1>2. \A k \in 1..(Len(loads) - 1) :
        (IF k < i THEN [loads[k] EXCEPT !.late = TRUE] ELSE loads[k + 1]) \in Requested
  <2> TAKE k \in 1..(Len(loads) - 1)
  <2>1. k \in 1..Len(loads) /\ k + 1 \in 1..Len(loads)
    BY <1>1
  <2>2. loads[k] \in Requested /\ loads[k + 1] \in Requested
    BY <1>1, <2>1
  <2>3. [loads[k] EXCEPT !.late = TRUE] \in Requested
    BY <2>2 DEF Requested
  <2> QED BY <2>2, <2>3
<1>3. Len(loads) - 1 \in Nat
  BY <1>1
<1>4. Rest(i) \in [1..(Len(loads) - 1) -> Requested]
  BY <1>2 DEF Rest
<1>5. Rest(i) \in Seq(Requested)
  BY <1>3, <1>4, SeqDef
<1>6. Len(Rest(i)) = Len(loads) - 1
  <2>1. DOMAIN Rest(i) = 1..(Len(loads) - 1)
    BY DEF Rest
  <2>2. Len(Rest(i)) \in Nat /\ DOMAIN Rest(i) = 1..Len(Rest(i))
    BY <1>5, LenProperties
  <2> QED BY <1>3, <2>1, <2>2
<1> QED BY <1>1, <1>5, <1>6 DEF Rest

----------------------------------------------------------------------------
(* Expansions. *)

\* What becomes of an expansion when the arrays it works on are replaced.
Cut(e, nodesToo) == [e EXCEPT !.nodesLive = @ /\ ~nodesToo, !.joinsLive = FALSE]

LEMMA CutParts ==
  ASSUME NEW e, IsExpansion(e), NEW nodesToo \in BOOLEAN
  PROVE  /\ IsExpansion(Cut(e, nodesToo))
         /\ Cut(e, nodesToo).node = e.node /\ Cut(e, nodesToo).filter = e.filter
         /\ Cut(e, nodesToo).nodesLive = (e.nodesLive /\ ~nodesToo)
         /\ Cut(e, nodesToo).joinsLive = FALSE
<1>1. e \in [node : {e.node}, filter : Filters, nodesLive : BOOLEAN, joinsLive : BOOLEAN]
  BY DEF IsExpansion
<1>2. Cut(e, nodesToo) \in [node : {e.node}, filter : Filters, nodesLive : BOOLEAN, joinsLive : BOOLEAN]
  BY <1>1 DEF Cut
<1>3. /\ Cut(e, nodesToo).node = e.node /\ Cut(e, nodesToo).filter = e.filter
      /\ Cut(e, nodesToo).nodesLive = (e.nodesLive /\ ~nodesToo)
      /\ Cut(e, nodesToo).joinsLive = FALSE
  BY <1>1 DEF Cut
<1> HIDE DEF Cut
<1> QED BY <1>2, <1>3 DEF IsExpansion

LEMMA CutAll ==
  ASSUME NEW E, ExpansionsFit(E), NEW nodesToo \in BOOLEAN,
         NEW D, D = {Cut(e, nodesToo) : e \in E}
  PROVE  /\ ExpansionsFit(D) /\ Cardinality(D) = Cardinality(E)
         /\ {d.node : d \in D} = {e.node : e \in E}
         /\ \A d \in D : \E e \in E : d = Cut(e, nodesToo)
<1>1. IsFiniteSet(E) /\ (\A e \in E : IsExpansion(e)) /\ (\A d, e \in E : d.node = e.node => d = e)
  BY DEF ExpansionsFit
<1>2. \A e \in E : IsExpansion(Cut(e, nodesToo)) /\ Cut(e, nodesToo).node = e.node
  <2> TAKE e \in E
  <2>1. IsExpansion(e)
    BY <1>1
  <2> QED BY <2>1, CutParts
<1> DEFINE f == [e \in E |-> Cut(e, nodesToo)]
<1>3. IsFiniteSet(D) /\ Cardinality(D) = Cardinality(E)
  <2>1. D = {f[e] : e \in E} /\ DOMAIN f = E
    OBVIOUS
  <2>2. \A d, e \in E : f[d] = f[e] => d = e
    <3>1. \A d, e \in E : Cut(d, nodesToo) = Cut(e, nodesToo) => d.node = e.node
      BY <1>2
    <3> QED BY <1>1, <3>1
  <2> HIDE DEF f
  <2> QED BY <1>1, <2>1, <2>2, ImageCardinality
<1>4. \A d \in D : \E e \in E : d = Cut(e, nodesToo)
  OBVIOUS
<1>5. \A d \in D : IsExpansion(d)
  BY <1>2, <1>4
<1>6. \A c, d \in D : c.node = d.node => c = d
  BY <1>1, <1>2, <1>4
<1>7. {d.node : d \in D} = {e.node : e \in E}
  BY <1>2
<1> QED BY <1>3, <1>4, <1>5, <1>6, <1>7 DEF ExpansionsFit

LEMMA DetachedOK ==
  ASSUME ExpansionsOK, expansions' = Detached(TRUE)
  PROVE  /\ ExpansionsOK' /\ Cardinality(expansions') = Cardinality(expansions)
         /\ Loading' = Loading
         /\ \A e \in expansions' : ~e.joinsLive /\ ~e.nodesLive
<1>1. expansions' = {Cut(e, TRUE) : e \in expansions}
  BY DEF Detached, Cut
<1>2. /\ ExpansionsFit(expansions') /\ Cardinality(expansions') = Cardinality(expansions)
      /\ {d.node : d \in expansions'} = {e.node : e \in expansions}
      /\ \A d \in expansions' : \E e \in expansions : d = Cut(e, TRUE)
  BY <1>1, CutAll DEF ExpansionsOK
<1>3. \A d \in expansions' : ~d.joinsLive /\ ~d.nodesLive
  <2> TAKE d \in expansions'
  <2>1. PICK e \in expansions : d = Cut(e, TRUE)
    BY <1>2
  <2>2. IsExpansion(e)
    BY DEF ExpansionsOK, ExpansionsFit
  <2>3. d.joinsLive = FALSE /\ d.nodesLive = (e.nodesLive /\ ~TRUE)
    BY <2>1, <2>2, CutParts
  <2> QED BY <2>3
<1> QED BY <1>2, <1>3 DEF ExpansionsOK, Loading

\* The end of an expansion: it is gone, and the others are cut off the connections.
LEMMA EndExpansionOK ==
  ASSUME ExpansionsOK, CounterOK, LoadsOK, NEW e \in expansions, NEW connections,
         EndExpansion(e, connections), UNCHANGED loads
  PROVE  /\ ExpansionsOK' /\ CounterOK'
         /\ Loading' = Loading \ {e.node}
         /\ \A d \in expansions' : \E x \in expansions : /\ d.node = x.node /\ d.filter = x.filter
                                                         /\ d.nodesLive = x.nodesLive
                                                         /\ x # e
<1> DEFINE E == expansions \ {e}
<1>1. ExpansionsFit(expansions)
  BY DEF ExpansionsOK
<1>2. ExpansionsFit(E) /\ Cardinality(E) = Cardinality(expansions) - 1
  BY <1>1, FS_RemoveElement DEF ExpansionsFit
<1>3. expansions' = {Cut(x, FALSE) : x \in E}
  <2>1. \A x \in E : [x EXCEPT !.joinsLive = FALSE] = Cut(x, FALSE)
    <3> TAKE x \in E
    <3>1. x \in [node : {x.node}, filter : Filters, nodesLive : BOOLEAN, joinsLive : BOOLEAN]
      BY <1>2 DEF ExpansionsFit, IsExpansion
    <3> QED BY <3>1 DEF Cut
  <2> QED BY <2>1 DEF EndExpansion
<1>4. /\ ExpansionsFit(expansions') /\ Cardinality(expansions') = Cardinality(E)
      /\ {d.node : d \in expansions'} = {x.node : x \in E}
      /\ \A d \in expansions' : \E x \in E : d = Cut(x, FALSE)
  <2> HIDE DEF E
  <2> QED BY <1>2, <1>3, CutAll
<1>7. \A d \in expansions' : \E x \in expansions : /\ d.node = x.node /\ d.filter = x.filter
                                                 /\ d.nodesLive = x.nodesLive
                                                 /\ x # e
  <2> TAKE d \in expansions'
  <2>1. PICK x \in E : d = Cut(x, FALSE)
    BY <1>4
  <2>2. IsExpansion(x) /\ x.nodesLive \in BOOLEAN
    BY <1>1 DEF ExpansionsFit, IsExpansion
  <2>3. d.node = x.node /\ d.filter = x.filter /\ d.nodesLive = (x.nodesLive /\ ~FALSE)
    BY <2>1, <2>2, CutParts
  <2>4. d.nodesLive = x.nodesLive
    BY <2>2, <2>3
  <2> QED BY <2>3, <2>4
<1>5. {x.node : x \in E} = Loading \ {e.node}
  BY <1>1 DEF Loading, ExpansionsFit
<1>6. CounterOK'
  <2>1. Cardinality(expansions) \in Nat /\ Len(loads) \in Nat
    BY <1>1, FS_CardinalityType, LenProperties DEF ExpansionsFit, LoadsOK
  <2>2. counter' = counter - 1 /\ counter = Len(loads) + Cardinality(expansions)
    BY DEF EndExpansion, CounterOK
  <2> QED BY <1>2, <1>4, <2>1, <2>2 DEF CounterOK
<1> QED BY <1>4, <1>5, <1>6, <1>7 DEF ExpansionsOK, Loading

----------------------------------------------------------------------------
(* Answers. *)

LEMMA RelatedFinite ==
  ASSUME NEW id, NEW side, NEW filter
  PROVE  /\ Related(id, side, filter) \subseteq Objects
         /\ IsFiniteSet(Related(id, side, filter))
         /\ \A o \in Related(id, side, filter) : filter = {} \/ TypeOf[o] \in filter
<1>1. Related(id, side, filter) \subseteq Objects
  BY DEF Related
<1>2. IsFiniteSet(Related(id, side, filter))
  BY <1>1, ObjectsAssumption, FS_Subset
<1>3. \A o \in Related(id, side, filter) : filter = {} \/ TypeOf[o] \in filter
  BY DEF Related
<1> QED BY <1>1, <1>2, <1>3

\* The nodes of an answer: one root, and on the next level what is related to it.
LEMMA AnswerParts ==
  ASSUME NEW l \in Requested, NEW n \in AnsweredNodes(l)
  PROVE  \/ n = New(<<l.root>>, "root", Kept)
         \/ \E side \in {"parent", "child"} : \E o \in Related(l.root, side, l.filter) :
              n = New(<<l.root, o>>, side, Kept)
BY DEF AnsweredNodes

LEMMA AnswerNode ==
  ASSUME IsFiniteSet(Kept), NEW l \in Requested, NEW n \in AnsweredNodes(l)
  PROVE  /\ IsNode(n) /\ n \notin Kept /\ n.path[1] = l.root
         /\ IsRoot(n) => n = New(<<l.root>>, "root", Kept)
         /\ ~IsRoot(n) => /\ Len(n.path) = 2 /\ Front(n.path) = <<l.root>>
                          /\ l.filter = {} \/ TypeOf[Id(n)] \in l.filter
                          /\ n.side \in {"parent", "child"}
                          /\ n = New(n.path, n.side, Kept)
<1>1. l.root \in Objects
  BY DEF Requested
<1>2. CASE n = New(<<l.root>>, "root", Kept)
  <2>1. IsNode(n) /\ IsRoot(n)
    BY <1>1, <1>2, NewNodes
  <2>2. n \notin Kept
    BY <1>2, FreshIsNew
  <2>3. n.path = <<l.root>>
    BY <1>2 DEF New, Node
  <2> QED BY <1>2, <2>1, <2>2, <2>3
<1>3. CASE \E side \in {"parent", "child"} : \E o \in Related(l.root, side, l.filter) :
             n = New(<<l.root, o>>, side, Kept)
  <2>9. PICK side \in {"parent", "child"} :
          \E o \in Related(l.root, side, l.filter) : n = New(<<l.root, o>>, side, Kept)
    BY <1>3
  <2>1. PICK o \in Related(l.root, side, l.filter) : n = New(<<l.root, o>>, side, Kept)
    BY <2>9
  <2>2. o \in Objects /\ (l.filter = {} \/ TypeOf[o] \in l.filter)
    BY RelatedFinite
  <2>3. IsNode(n) /\ ~IsRoot(n)
    BY <1>1, <2>1, <2>2, NewNodes
  <2>4. n \notin Kept
    BY <2>1, FreshIsNew
  <2>5. n.path = <<l.root, o>> /\ n.side = side
    BY <2>1 DEF New, Node
  <2>6. <<l.root, o>> = Append(<<l.root>>, o) /\ <<l.root>> \in Seq(Objects) /\ <<l.root, o>>[1] = l.root
        /\ Len(<<l.root, o>>) = 2
    BY <1>1
  <2>10. Last(Append(<<l.root>>, o)) = o /\ Front(Append(<<l.root>>, o)) = <<l.root>>
    BY <2>2, <2>6, AppendPath
  <2>7. Front(n.path) = <<l.root>> /\ Id(n) = o
    BY <2>5, <2>6, <2>10 DEF Id
  <2> QED BY <2>1, <2>2, <2>3, <2>4, <2>5, <2>6, <2>7
<1> QED BY <1>2, <1>3, AnswerParts

LEMMA AnswerShape ==
  ASSUME IsFiniteSet(Kept), NEW l \in Requested
  PROVE  /\ IsFiniteSet(AnsweredNodes(l))
         /\ \E r \in AnsweredNodes(l) : IsRoot(r) /\ r.path = <<l.root>>
         /\ \A m, n \in AnsweredNodes(l) : IsRoot(m) /\ IsRoot(n) => m = n
         /\ \A m, n \in AnsweredNodes(l) : m.path = n.path /\ m.side = n.side => m = n
<1> DEFINE r == New(<<l.root>>, "root", Kept)
           F(side) == {New(<<l.root, o>>, side, Kept) : o \in Related(l.root, side, l.filter)}
<1>1. \A side : IsFiniteSet(F(side))
  <2> TAKE side
  <2> DEFINE f == [o \in Related(l.root, side, l.filter) |-> New(<<l.root, o>>, side, Kept)]
  <2>1. F(side) = {f[o] : o \in Related(l.root, side, l.filter)}
        /\ DOMAIN f = Related(l.root, side, l.filter)
    OBVIOUS
  <2> HIDE DEF f, F
  <2>2. IsFiniteSet({f[o] : o \in Related(l.root, side, l.filter)})
    BY <2>1, RelatedFinite, ImageFinite
  <2> QED BY <2>1, <2>2
<1>2. AnsweredNodes(l) = {r} \cup F("parent") \cup F("child")
  BY DEF AnsweredNodes
<1>3. IsFiniteSet(AnsweredNodes(l))
  <2> HIDE DEF r, F
  <2>1. IsFiniteSet({r})
    BY FS_Singleton
  <2>2. IsFiniteSet({r} \cup F("parent"))
    BY <1>1, <2>1, FS_Union
  <2>3. IsFiniteSet(({r} \cup F("parent")) \cup F("child"))
    BY <1>1, <2>2, FS_Union
  <2> QED BY <1>2, <2>3
<1>4. r \in AnsweredNodes(l) /\ IsRoot(r) /\ r.path = <<l.root>>
  BY <1>2 DEF New, Node, IsRoot
<1>5. \A m, n \in AnsweredNodes(l) : IsRoot(m) /\ IsRoot(n) => m = n
  BY AnswerNode
<1>6. \A m, n \in AnsweredNodes(l) : m.path = n.path /\ m.side = n.side => m = n
  <2> SUFFICES ASSUME NEW m \in AnsweredNodes(l), NEW n \in AnsweredNodes(l),
                      m.path = n.path, m.side = n.side
               PROVE  m = n
    OBVIOUS
  <2>1. CASE IsRoot(m)
    BY <1>5, <2>1 DEF IsRoot
  <2>2. CASE ~IsRoot(m)
    <3>1. ~IsRoot(n)
      BY <2>2 DEF IsRoot
    <3>2. m = New(m.path, m.side, Kept) /\ n = New(n.path, n.side, Kept)
      BY <2>2, <3>1, AnswerNode
    <3> QED BY <3>2
  <2> QED BY <2>1, <2>2
<1> QED BY <1>3, <1>4, <1>5, <1>6

LEMMA JoinParts ==
  ASSUME NEW n, NEW m, NEW from, NEW to
  PROVE  Connects(Join(n, m, from, to), n, m)
BY DEF Connects, Join

LEMMA AnswerJoins ==
  ASSUME IsFiniteSet(Kept), NEW l \in Requested,
         NEW nodes, nodes = AnsweredNodes(l)
  PROVE  /\ IsFiniteSet(AnsweredJoins(nodes))
         /\ \A j \in AnsweredJoins(nodes) : \E m, n \in nodes : Above(m, n) /\ Connects(j, m, n)
         /\ ~skip => \A m, n \in nodes : IsRoot(m) /\ ~IsRoot(n) =>
                       /\ Above(m, n)
                       /\ \E j \in AnsweredJoins(nodes) : Connects(j, m, n)
<1> DEFINE roots == {x \in nodes : IsRoot(x)}
           others == {x \in nodes : ~IsRoot(x)}
           f == [p \in roots \X others |-> Join(p[1], p[2], Id(p[1]), Id(p[2]))]
           all == {Join(n, m, Id(n), Id(m)) : n \in roots, m \in others}
<1>1. AnsweredJoins(nodes) = IF skip THEN {} ELSE all
  BY DEF AnsweredJoins
<1>2. IsFiniteSet(nodes)
  BY AnswerShape
<1>3. IsFiniteSet(roots \X others)
  <2>1. IsFiniteSet(roots) /\ IsFiniteSet(others)
    BY <1>2, FS_Subset
  <2> HIDE DEF roots, others
  <2> QED BY <2>1, FS_Product
<1>4. IsFiniteSet(all)
  <2>1. all \subseteq {f[p] : p \in roots \X others} /\ DOMAIN f = roots \X others
    <3> SUFFICES ASSUME NEW n \in roots, NEW m \in others
                 PROVE  Join(n, m, Id(n), Id(m)) \in {f[p] : p \in roots \X others}
      OBVIOUS
    <3>1. <<n, m>> \in roots \X others /\ f[<<n, m>>] = Join(n, m, Id(n), Id(m))
      OBVIOUS
    <3> QED BY <3>1
  <2> HIDE DEF f, all, roots, others
  <2>2. IsFiniteSet({f[p] : p \in roots \X others})
    BY <1>3, <2>1, ImageFinite
  <2> QED BY <2>1, <2>2, FS_Subset
<1>5. \A m \in roots, n \in others : Above(m, n)
  <2> TAKE m \in roots, n \in others
  <2>1. Front(n.path) = <<l.root>> /\ ~IsRoot(n)
    BY AnswerNode
  <2>2. m.path = <<l.root>> /\ IsRoot(m)
    BY AnswerShape
  <2> QED BY <2>1, <2>2 DEF Above
<1>6. \A m \in roots, n \in others : Connects(Join(m, n, Id(m), Id(n)), m, n)
  BY JoinParts
<1>7. \A j \in all : \E m \in roots, n \in others : j = Join(m, n, Id(m), Id(n))
  OBVIOUS
<1>8. IsFiniteSet(AnsweredJoins(nodes))
  BY <1>1, <1>4, FS_EmptySet
<1>9. \A j \in AnsweredJoins(nodes) : \E m, n \in nodes : Above(m, n) /\ Connects(j, m, n)
  BY <1>1, <1>5, <1>6, <1>7
<1>10. ~skip => \A m, n \in nodes : IsRoot(m) /\ ~IsRoot(n) =>
                  /\ Above(m, n)
                  /\ \E j \in AnsweredJoins(nodes) : Connects(j, m, n)
  BY <1>1, <1>5, <1>6
<1> QED BY <1>8, <1>9, <1>10

LEMMA Validated ==
  ASSUME NEW js, IsFiniteSet(js), NEW nodes,
         \A j \in js : \E m, n : Above(m, n) /\ Connects(j, m, n)
  PROVE  /\ IsFiniteSet(ValidateConnections(js, nodes))
         /\ \A j \in ValidateConnections(js, nodes) :
              j \in js /\ \E m, n \in nodes : Above(m, n) /\ Connects(j, m, n)
         /\ \A j \in js : \A m, n \in nodes : Connects(j, m, n) => j \in ValidateConnections(js, nodes)
<1>1. ValidateConnections(js, nodes) \subseteq js
  BY DEF ValidateConnections
<1>2. IsFiniteSet(ValidateConnections(js, nodes))
  BY <1>1, FS_Subset
<1>3. \A j \in ValidateConnections(js, nodes) :
        j \in js /\ \E m, n \in nodes : Above(m, n) /\ Connects(j, m, n)
  <2> TAKE j \in ValidateConnections(js, nodes)
  <2>1. j \in js /\ j.up \in nodes /\ j.down \in nodes
    BY DEF ValidateConnections
  <2>2. PICK m, n : Above(m, n) /\ Connects(j, m, n)
    BY <2>1
  <2>3. m \in nodes /\ n \in nodes
    BY <2>1, <2>2 DEF Connects
  <2> QED BY <2>1, <2>2, <2>3
<1>4. \A j \in js : \A m, n \in nodes : Connects(j, m, n) => j \in ValidateConnections(js, nodes)
  BY DEF Connects, ValidateConnections
<1> QED BY <1>2, <1>3, <1>4

\* The nodes and the connections an expansion is answered with.
NewOf(e) == {New(Append(e.node.path, o), e.node.side, InUse) : o \in Related(Id(e.node), e.node.side, e.filter)}
JoinsOf(e) == IF e.joinsLive THEN {Join(e.node, m, Id(e.node), Id(e.node)) : m \in NewOf(e)} ELSE {}

LEMMA LoadingNodes ==
  ASSUME ExpansionsOK
  PROVE  /\ IsFiniteSet(Loading)
         /\ \A n \in Loading : IsNode(n) /\ ~IsRoot(n)
BY LoadingFinite DEF ExpansionsOK, Loading, ExpansionsFit, IsExpansion

LEMMA KeptFinite ==
  ASSUME ExpansionsOK
  PROVE  IsFiniteSet(Kept)
<1>1. IsFiniteSet(Selected)
  BY FS_Singleton, FS_Subset DEF Selected
<1> QED BY <1>1, LoadingNodes, FS_Union DEF Kept

LEMMA InUseFinite ==
  ASSUME NodesOK, ExpansionsOK
  PROVE  IsFiniteSet(InUse)
<1>1. IsFiniteSet(mapped) /\ shown \subseteq mapped
  BY DEF NodesOK
<1>2. IsFiniteSet(shown)
  BY <1>1, FS_Subset
<1>3. IsFiniteSet(shown \cup mapped)
  BY <1>1, <1>2, FS_Union
<1>4. IsFiniteSet((shown \cup mapped) \cup Kept)
  BY <1>3, KeptFinite, FS_Union
<1> QED BY <1>4 DEF InUse

LEMMA NewOfNode ==
  ASSUME NodesOK, ExpansionsOK, NEW e \in expansions, NEW m \in NewOf(e)
  PROVE  /\ IsNode(m) /\ ~IsRoot(m) /\ m \notin InUse /\ Above(e.node, m)
         /\ m.side = e.node.side /\ Front(m.path) = e.node.path
         /\ m.path[1] = e.node.path[1]
         /\ e.filter = {} \/ TypeOf[Id(m)] \in e.filter
         /\ m = New(m.path, m.side, InUse)
<1>1. IsNode(e.node) /\ ~IsRoot(e.node)
  BY DEF ExpansionsOK, ExpansionsFit, IsExpansion
<1>2. PICK o \in Related(Id(e.node), e.node.side, e.filter) :
              m = New(Append(e.node.path, o), e.node.side, InUse)
  BY DEF NewOf
<1>3. o \in Objects /\ (e.filter = {} \/ TypeOf[o] \in e.filter)
  BY RelatedFinite
<1>4. /\ IsNode(m) /\ ~IsRoot(m) /\ m.side = e.node.side /\ Front(m.path) = e.node.path
      /\ Id(m) = o /\ m.path[1] = e.node.path[1] /\ m.path = Append(e.node.path, o)
  <2>1. m.path = Append(e.node.path, o) /\ m.side = e.node.side
    BY <1>2 DEF New, Node
  <2> DEFINE n == e.node
  <2>2. IsNode(n) /\ ~IsRoot(n) /\ m.path = Append(n.path, o) /\ m.side = n.side /\ o \in Objects
    BY <1>1, <1>3, <2>1
  <2> HIDE DEF n
  <2>3. /\ IsNode(m) /\ ~IsRoot(m) /\ m.side = n.side /\ Front(m.path) = n.path
        /\ Id(m) = o /\ m.path[1] = n.path[1]
    BY <2>2, NewBelow
  <2> QED BY <2>1, <2>3 DEF n
<1>5. m \notin InUse
  BY <1>2, InUseFinite, FreshIsNew
<1> QED BY <1>2, <1>3, <1>4, <1>5 DEF Above

LEMMA NewOfFinite ==
  ASSUME NEW e
  PROVE  IsFiniteSet(NewOf(e)) /\ IsFiniteSet(JoinsOf(e))
<1> DEFINE R == Related(Id(e.node), e.node.side, e.filter)
           f == [o \in R |-> New(Append(e.node.path, o), e.node.side, InUse)]
           g == [m \in NewOf(e) |-> Join(e.node, m, Id(e.node), Id(e.node))]
<1>1. IsFiniteSet(NewOf(e))
  <2>1. NewOf(e) = {f[o] : o \in R} /\ DOMAIN f = R
    BY DEF NewOf
  <2>2. IsFiniteSet(R)
    BY RelatedFinite
  <2> HIDE DEF f, R
  <2> QED BY <2>1, <2>2, ImageFinite
<1>2. IsFiniteSet(JoinsOf(e))
  <2>1. JoinsOf(e) = {} \/ JoinsOf(e) = {g[m] : m \in NewOf(e)}
    BY DEF JoinsOf
  <2>2. DOMAIN g = NewOf(e)
    OBVIOUS
  <2> HIDE DEF g
  <2>3. IsFiniteSet({g[m] : m \in NewOf(e)})
    BY <1>1, <2>2, ImageFinite
  <2> QED BY <2>1, <2>3, FS_EmptySet
<1> QED BY <1>1, <1>2

LEMMA JoinsOfShape ==
  ASSUME NodesOK, ExpansionsOK, NEW e \in expansions
  PROVE  /\ \A j \in JoinsOf(e) : \E m \in NewOf(e) : Above(e.node, m) /\ Connects(j, e.node, m)
         /\ e.joinsLive => \A m \in NewOf(e) : \E j \in JoinsOf(e) : Connects(j, e.node, m)
<1>1. \A m \in NewOf(e) : Above(e.node, m)
  BY NewOfNode
<1>2. \A m \in NewOf(e) : Connects(Join(e.node, m, Id(e.node), Id(e.node)), e.node, m)
  BY JoinParts
<1> QED BY <1>1, <1>2 DEF JoinsOf

LEMMA AttachParts ==
  ASSUME NEW e, Attach(e)
  PROVE  /\ e \in expansions
         /\ shown' = shown \cup (IF e.nodesLive THEN NewOf(e) ELSE {})
         /\ mapped' = mapped \cup NewOf(e)
         /\ EndExpansion(e, joins \cup JoinsOf(e))
         /\ ways' = ways \cup (IF e.nodesLive /\ NewOf(e) # {} /\ (~e.joinsLive \/ e.node \notin shown)
                                THEN {"late"} ELSE {})
         /\ UNCHANGED <<page, rootNodeId, typesFilter, expanded, selected, loads, left, applied>>
BY DEF Attach, NewOf, JoinsOf

----------------------------------------------------------------------------
(* Every step keeps the type invariant. *)

LEMMA CounterUp ==
  ASSUME CounterOK, ExpansionsOK, LoadsOK, UNCHANGED expansions,
         Len(loads') = Len(loads) + 1, counter' = counter + 1
  PROVE  CounterOK'
<1>1. Cardinality(expansions) \in Nat /\ Len(loads) \in Nat
  BY FS_CardinalityType, LenProperties DEF ExpansionsOK, ExpansionsFit, LoadsOK
<1> QED BY <1>1 DEF CounterOK

LEMMA CounterDown ==
  ASSUME CounterOK, ExpansionsOK, LoadsOK, NEW i \in DOMAIN loads,
         loads' = Rest(i), counter' = counter - 1, Cardinality(expansions') = Cardinality(expansions)
  PROVE  CounterOK' /\ LoadsOK'
<1>1. Cardinality(expansions) \in Nat
  BY FS_CardinalityType DEF ExpansionsOK, ExpansionsFit
<1>2. Len(loads) \in Nat /\ loads' \in Seq(Requested) /\ Len(loads') = Len(loads) - 1
  BY RestOK
<1> QED BY <1>1, <1>2 DEF CounterOK, LoadsOK

LEMMA EmptyGraphOK ==
  ASSUME EmptyGraph
  PROVE  NodesOK' /\ JoinsOK'
BY FS_EmptySet DEF EmptyGraph, NodesOK, JoinsOK

\* Connections that lose their nodes go, the others stay.
LEMMA FewerJoins ==
  ASSUME JoinsOK, NEW gone, joins' = {j \in joins : ~Touches(j, gone)},
         mapped \ gone \subseteq mapped'
  PROVE  JoinsOK'
<1>1. IsFiniteSet(joins')
  BY FS_Subset DEF JoinsOK
<1>2. ASSUME NEW j \in joins' PROVE \E m, n \in mapped' : Above(m, n) /\ Connects(j, m, n)
  <2>1. j \in joins /\ j.up \notin gone /\ j.down \notin gone
    BY DEF Touches
  <2>2. PICK m \in mapped, n \in mapped : Above(m, n) /\ Connects(j, m, n)
    BY <2>1 DEF JoinsOK
  <2>3. m \notin gone /\ n \notin gone
    BY <2>1, <2>2 DEF Connects
  <2> QED BY <2>2, <2>3
<1> QED BY <1>1, <1>2 DEF JoinsOK

LEMMA FewerNodes ==
  ASSUME NodesOK, mapped' \subseteq mapped, shown' \subseteq mapped'
  PROVE  NodesOK'
BY FS_Subset DEF NodesOK

LEMMA PaintType ==
  ASSUME TypeInv, NEW i \in DOMAIN loads, Paint(i)
  PROVE  TypeInv'
<1> USE DEF TypeInv
<1> DEFINE nodes == AnsweredNodes(loads[i])
<1>1. loads[i] \in Requested /\ loads' = Rest(i)
  BY RestOK DEF Paint
<1>2. IsFiniteSet(Kept)
  BY KeptFinite
<1>3. shown' = nodes /\ mapped' = nodes /\ joins' = ValidateConnections(AnsweredJoins(nodes), nodes)
  BY DEF Paint
<1>4. NodesOK'
  <2>1. IsFiniteSet(nodes) /\ \A n \in nodes : IsNode(n)
    BY <1>1, <1>2, AnswerNode, AnswerShape
  <2> QED BY <1>3, <2>1 DEF NodesOK
<1>5. JoinsOK'
  <2>1. /\ IsFiniteSet(AnsweredJoins(nodes))
        /\ \A j \in AnsweredJoins(nodes) : \E m, n \in nodes : Above(m, n) /\ Connects(j, m, n)
    BY <1>1, <1>2, AnswerJoins
  <2> HIDE DEF nodes
  <2>2. /\ IsFiniteSet(joins')
        /\ \A j \in joins' : \E m, n \in nodes : Above(m, n) /\ Connects(j, m, n)
    BY <1>3, <2>1, Validated
  <2> QED BY <1>3, <2>2 DEF JoinsOK
<1>6. ExpansionsOK' /\ Cardinality(expansions') = Cardinality(expansions)
  BY DetachedOK DEF Paint
<1>7. CounterOK' /\ LoadsOK'
  BY <1>1, <1>6, CounterDown DEF Paint
<1>8. PageOK'
  BY DEF Paint, PageOK, page
<1> QED BY <1>4, <1>5, <1>6, <1>7, <1>8

LEMMA LoadFailsType ==
  ASSUME TypeInv, NEW i \in DOMAIN loads, LoadFails(i)
  PROVE  TypeInv'
<1> USE DEF TypeInv
<1>1. CounterOK' /\ LoadsOK'
  BY CounterDown DEF LoadFails
<1>2. PageOK' /\ NodesOK' /\ JoinsOK' /\ ExpansionsOK'
  BY DEF LoadFails, PageOK, page, NodesOK, JoinsOK, ExpansionsOK, graph
<1> QED BY <1>1, <1>2

LEMMA ApplyFiltersType ==
  ASSUME TypeInv, NEW f \in Filters, ApplyFilters(f)
  PROVE  TypeInv'
<1> USE DEF TypeInv
<1>1. Ask(rootNodeId, f) /\ rootNodeId \in Objects /\ UNCHANGED expansions
  BY DEF ApplyFilters, PageOK
<1>2. LoadsOK' /\ applied' = f /\ Len(loads') = Len(loads) + 1
  BY <1>1, AskOK
<1>3. CounterOK'
  BY <1>1, <1>2, CounterUp DEF Ask
<1>4. NodesOK' /\ JoinsOK'
  BY EmptyGraphOK DEF ApplyFilters
<1>5. PageOK' /\ ExpansionsOK'
  BY <1>2 DEF ApplyFilters, PageOK, page, ExpansionsOK
<1> QED BY <1>2, <1>3, <1>4, <1>5

LEMMA EditFilterFormType ==
  ASSUME TypeInv, NEW f \in Filters, EditFilterForm(f)
  PROVE  TypeInv'
BY DEF TypeInv, EditFilterForm, PageOK, LoadsOK, NodesOK, JoinsOK, ExpansionsOK, CounterOK, page, graph

LEMMA SelectAsRootNodeType ==
  ASSUME TypeInv, NEW n, IsNode(n), SelectAsRootNode(n)
  PROVE  TypeInv'
<1> USE DEF TypeInv
<1>1. Id(n) \in Objects
  BY NodeParts
<1>2. Ask(Id(n), typesFilter) /\ typesFilter \in Filters /\ UNCHANGED expansions
  BY DEF SelectAsRootNode, PageOK
<1>3. LoadsOK' /\ applied' = typesFilter /\ Len(loads') = Len(loads) + 1
  BY <1>1, <1>2, AskOK
<1>4. CounterOK'
  BY <1>2, <1>3, CounterUp DEF Ask
<1>5. NodesOK' /\ JoinsOK' /\ ExpansionsOK'
  BY DEF SelectAsRootNode, NodesOK, JoinsOK, ExpansionsOK
<1>6. PageOK'
  BY <1>1, <1>3 DEF SelectAsRootNode, PageOK, OnRootNodeSelected
<1> QED BY <1>3, <1>4, <1>5, <1>6

LEMMA OpenSelectedObjectType ==
  ASSUME TypeInv, NEW id \in Objects, OpenSelectedObject(id)
  PROVE  TypeInv'
BY DEF TypeInv, OpenSelectedObject, PageOK, LoadsOK, NodesOK, JoinsOK, ExpansionsOK, CounterOK, graph

LEMMA SelectType ==
  ASSUME TypeInv, NEW n, Select(n)
  PROVE  TypeInv'
BY DEF TypeInv, Select, PageOK, LoadsOK, NodesOK, JoinsOK, ExpansionsOK, CounterOK, page

LEMMA NavigationFailsType ==
  ASSUME TypeInv, NavigationFails
  PROVE  TypeInv'
BY DEF TypeInv, NavigationFails, PageOK, LoadsOK, NodesOK, JoinsOK, ExpansionsOK, CounterOK, graph

LEMMA NavigationEndsType ==
  ASSUME TypeInv, NavigationEnds
  PROVE  TypeInv'
<1> USE DEF TypeInv
<1>1. nav \in Objects /\ rootNodeId' = nav /\ rootInput' = nav /\ nav' = None
  BY DEF NavigationEnds, TakeRoot, PageOK
<1>2. Ask(nav, typesFilter) /\ typesFilter \in Filters /\ UNCHANGED expansions
  BY <1>1 DEF NavigationEnds, PageOK
<1>3. LoadsOK' /\ applied' = typesFilter /\ Len(loads') = Len(loads) + 1
  BY <1>1, <1>2, AskOK
<1>4. CounterOK'
  BY <1>2, <1>3, CounterUp DEF Ask
<1>5. NodesOK' /\ JoinsOK'
  BY EmptyGraphOK DEF NavigationEnds
<1>6. PageOK' /\ ExpansionsOK'
  BY <1>1, <1>3 DEF NavigationEnds, PageOK, ExpansionsOK
<1> QED BY <1>3, <1>4, <1>5, <1>6

LEMMA CollapseRootNodeType ==
  ASSUME TypeInv, NEW root \in shown, CollapseRootNode(root)
  PROVE  TypeInv'
<1> USE DEF TypeInv
<1> DEFINE others == {n \in shown : ~IsRoot(n)}
<1>1. /\ shown' = shown \ others /\ mapped' = mapped \ others
      /\ joins' = {j \in joins : ~Touches(j, others)}
  BY DEF CollapseRootNode
<1> HIDE DEF others
<1>2. JoinsOK'
  BY <1>1, FewerJoins
<1>3. NodesOK'
  BY <1>1, FewerNodes DEF NodesOK
<1>4. PageOK' /\ LoadsOK' /\ ExpansionsOK' /\ CounterOK'
  BY DEF CollapseRootNode, PageOK, page, LoadsOK, ExpansionsOK, CounterOK
<1> QED BY <1>2, <1>3, <1>4

LEMMA ExpandRootNodeType ==
  ASSUME TypeInv, NEW root \in shown, ExpandRootNode(root)
  PROVE  TypeInv'
<1> USE DEF TypeInv
<1>1. Id(root) \in Objects
  BY NodeParts DEF NodesOK
<1>2. Ask(Id(root), typesFilter) /\ typesFilter \in Filters /\ UNCHANGED expansions
  BY DEF ExpandRootNode, PageOK
<1>3. LoadsOK' /\ applied' = typesFilter /\ Len(loads') = Len(loads) + 1
  BY <1>1, <1>2, AskOK
<1>4. CounterOK'
  BY <1>2, <1>3, CounterUp DEF Ask
<1>5. NodesOK' /\ JoinsOK'
  BY EmptyGraphOK DEF ExpandRootNode
<1>6. PageOK' /\ ExpansionsOK'
  BY <1>1, <1>3 DEF ExpandRootNode, PageOK, ExpansionsOK
<1> QED BY <1>3, <1>4, <1>5, <1>6

LEMMA ExpandNodeInstanceType ==
  ASSUME TypeInv, NEW n, IsNode(n), ExpandNodeInstance(n)
  PROVE  TypeInv'
<1> USE DEF TypeInv
<1> DEFINE e == [node |-> n, filter |-> typesFilter, nodesLive |-> TRUE, joinsLive |-> TRUE]
<1>1. /\ n \notin Loading /\ ~IsRoot(n)
      /\ expansions' = expansions \cup {e} /\ counter' = counter + 1
  BY DEF ExpandNodeInstance
<1>2. IsExpansion(e) /\ e.node = n
  BY <1>1 DEF IsExpansion, PageOK
<1> HIDE DEF e
<1>3. \A x \in expansions : x.node # n
  BY <1>1 DEF Loading
<1>4. ExpansionsFit(expansions) /\ e \notin expansions
  BY <1>2, <1>3 DEF ExpansionsOK
<1>5. ExpansionsOK'
  <2>1. IsFiniteSet(expansions')
    BY <1>1, <1>4, FS_AddElement DEF ExpansionsFit
  <2>2. \A x \in expansions' : IsExpansion(x)
    BY <1>1, <1>2, <1>4 DEF ExpansionsFit
  <2>3. \A x, y \in expansions' : x.node = y.node => x = y
    BY <1>1, <1>2, <1>3, <1>4 DEF ExpansionsFit
  <2> QED BY <2>1, <2>2, <2>3 DEF ExpansionsOK, ExpansionsFit
<1>6. CounterOK'
  <2>1. Cardinality(expansions') = Cardinality(expansions) + 1
    BY <1>1, <1>4, FS_AddElement DEF ExpansionsFit
  <2>2. Cardinality(expansions) \in Nat /\ Len(loads) \in Nat /\ UNCHANGED loads
    BY <1>4, FS_CardinalityType, LenProperties DEF ExpansionsFit, LoadsOK, ExpandNodeInstance
  <2> QED BY <1>1, <2>1, <2>2 DEF CounterOK
<1>7. PageOK' /\ LoadsOK' /\ NodesOK' /\ JoinsOK'
  BY DEF ExpandNodeInstance, PageOK, page, LoadsOK, NodesOK, JoinsOK
<1> QED BY <1>5, <1>6, <1>7

LEMMA AttachType ==
  ASSUME TypeInv, NEW e \in expansions, Attach(e)
  PROVE  TypeInv'
<1> USE DEF TypeInv
<1>1. /\ shown' = shown \cup (IF e.nodesLive THEN NewOf(e) ELSE {})
      /\ mapped' = mapped \cup NewOf(e)
      /\ EndExpansion(e, joins \cup JoinsOf(e))
      /\ UNCHANGED <<page, rootNodeId, typesFilter, loads, applied>>
  BY AttachParts
<1>2. ExpansionsOK' /\ CounterOK'
  BY <1>1, EndExpansionOK
<1>3. NodesOK'
  <2>1. IsFiniteSet(mapped')
    BY <1>1, NewOfFinite, FS_Union DEF NodesOK
  <2>2. \A m \in mapped' : IsNode(m)
    BY <1>1, NewOfNode DEF NodesOK
  <2>3. shown' \subseteq mapped'
    BY <1>1 DEF NodesOK
  <2> QED BY <2>1, <2>2, <2>3 DEF NodesOK
<1>4. JoinsOK'
  <2>1. IsFiniteSet(joins \cup JoinsOf(e))
    BY NewOfFinite, FS_Union DEF JoinsOK
  <2>2. \A j \in joins \cup JoinsOf(e) : \E m, n : Above(m, n) /\ Connects(j, m, n)
    BY JoinsOfShape DEF JoinsOK
  <2>3. joins' = ValidateConnections(joins \cup JoinsOf(e), mapped')
    BY <1>1 DEF EndExpansion
  <2>4. /\ IsFiniteSet(joins')
        /\ \A j \in joins' : \E m, n \in mapped' : Above(m, n) /\ Connects(j, m, n)
    BY <2>1, <2>2, <2>3, Validated
  <2> QED BY <2>4 DEF JoinsOK
<1>5. PageOK' /\ LoadsOK'
  BY <1>1 DEF PageOK, page, LoadsOK
<1> QED BY <1>2, <1>3, <1>4, <1>5

LEMMA ExpansionFailsType ==
  ASSUME TypeInv, NEW e \in expansions, ExpansionFails(e)
  PROVE  TypeInv'
<1> USE DEF TypeInv
<1>1. /\ EndExpansion(e, joins)
      /\ UNCHANGED <<page, rootNodeId, typesFilter, loads, applied, shown, mapped>>
  BY DEF ExpansionFails
<1>2. ExpansionsOK' /\ CounterOK'
  BY <1>1, EndExpansionOK
<1>3. NodesOK'
  BY <1>1 DEF NodesOK
<1>4. JoinsOK'
  <2>1. joins' = ValidateConnections(joins, mapped')
    BY <1>1 DEF EndExpansion
  <2>2. /\ IsFiniteSet(joins')
        /\ \A j \in joins' : \E m, n \in mapped' : Above(m, n) /\ Connects(j, m, n)
    BY <2>1, Validated DEF JoinsOK
  <2> QED BY <2>2 DEF JoinsOK
<1>5. PageOK' /\ LoadsOK'
  BY <1>1 DEF PageOK, page, LoadsOK
<1> QED BY <1>2, <1>3, <1>4, <1>5

LEMMA CollapseNodeInstanceType ==
  ASSUME TypeInv, NEW n, CollapseNodeInstance(n)
  PROVE  TypeInv'
<1> USE DEF TypeInv
<1> DEFINE victims == Descendants(n)
<1>1. /\ shown' = shown \ victims /\ mapped' = mapped \ (victims \cap shown)
      /\ joins' = {j \in joins : ~Touches(j, victims)}
  BY DEF CollapseNodeInstance
<1> HIDE DEF victims
<1>2. JoinsOK'
  <2>1. mapped \ victims \subseteq mapped'
    BY <1>1
  <2> QED BY <1>1, <2>1, FewerJoins
<1>3. NodesOK'
  <2>1. mapped' \subseteq mapped /\ shown' \subseteq mapped'
    BY <1>1 DEF NodesOK
  <2> QED BY <2>1, FewerNodes
<1>4. PageOK' /\ LoadsOK' /\ ExpansionsOK' /\ CounterOK'
  BY DEF CollapseNodeInstance, PageOK, page, LoadsOK, ExpansionsOK, CounterOK
<1> QED BY <1>2, <1>3, <1>4

LEMMA DeleteSelectedNodesType ==
  ASSUME TypeInv, NEW ids \in SUBSET Objects, DeleteSelectedNodes(ids)
  PROVE  TypeInv'
<1> USE DEF TypeInv
<1>1. ExpansionsOK' /\ Cardinality(expansions') = Cardinality(expansions)
  BY DetachedOK DEF DeleteSelectedNodes
<1>2. NodesOK'
  BY DEF DeleteSelectedNodes, NodesOK
<1>3. JoinsOK'
  <2>1. joins' \subseteq joins /\ UNCHANGED mapped
    BY DEF DeleteSelectedNodes
  <2> QED BY <2>1, FS_Subset DEF JoinsOK
<1>4. PageOK' /\ LoadsOK' /\ CounterOK'
  BY <1>1 DEF DeleteSelectedNodes, PageOK, page, LoadsOK, CounterOK
<1> QED BY <1>1, <1>2, <1>3, <1>4

\* What is clicked on is a node.
LEMMA ReachedNodes ==
  ASSUME TypeInv, SelectedOK, NEW n \in shown \cup Selected
  PROVE  IsNode(n)
BY DEF TypeInv, NodesOK, SelectedOK

LEMMA TypeStep == TypeInv /\ SelectedOK /\ [Next]_vars => TypeInv'
<1> SUFFICES ASSUME TypeInv, SelectedOK, [Next]_vars PROVE TypeInv'
  OBVIOUS
<1>1. CASE Answers
  BY <1>1, PaintType, LoadFailsType, AttachType, ExpansionFailsType DEF Answers
<1>2. CASE NavigationEnds \/ NavigationFails
  BY <1>2, NavigationEndsType, NavigationFailsType
<1>3. CASE Clicks
  BY <1>3, ReachedNodes, ApplyFiltersType, EditFilterFormType, SelectType, SelectAsRootNodeType,
     CollapseRootNodeType, ExpandRootNodeType, ExpandNodeInstanceType, CollapseNodeInstanceType,
     OpenSelectedObjectType, DeleteSelectedNodesType DEF Clicks
<1>4. CASE UNCHANGED vars
  BY <1>4 DEF TypeInv, PageOK, LoadsOK, NodesOK, JoinsOK, ExpansionsOK, CounterOK, vars, page, graph
<1> QED BY <1>1, <1>2, <1>3, <1>4 DEF Next

LEMMA SelectedStep == TypeInv /\ SelectedOK /\ [Next]_vars => SelectedOK'
<1> SUFFICES ASSUME TypeInv, SelectedOK, [Next]_vars PROVE SelectedOK'
  OBVIOUS
<1>1. CASE UNCHANGED selected
  BY <1>1 DEF SelectedOK, Selected
<1>2. ASSUME NEW n \in shown \cup Selected \cup {None}, SelectedIs(n) PROVE SelectedOK'
  <2>1. n \in Selected' => n # None
    BY <1>2 DEF Selected
  <2>2. Selected' \subseteq {n}
    BY <1>2 DEF SelectedIs, Selected
  <2> QED BY <2>1, <2>2, ReachedNodes DEF SelectedOK
<1>3. CASE Answers
  BY <1>1, <1>3 DEF Answers, Paint, LoadFails, Attach, ExpansionFails
<1>4. CASE NavigationEnds \/ NavigationFails
  BY <1>1, <1>4 DEF NavigationEnds, NavigationFails
<1>5. CASE Clicks
  <2>1. ASSUME NEW f \in Filters, ApplyFilters(f) \/ EditFilterForm(f) PROVE UNCHANGED selected
    BY <2>1 DEF ApplyFilters, EditFilterForm
  <2>2. ASSUME NEW n \in shown, CollapseRootNode(n) \/ ExpandRootNode(n) PROVE UNCHANGED selected
    BY <2>2 DEF CollapseRootNode, ExpandRootNode
  <2>3. ASSUME NEW n \in shown \cup Selected, ExpandNodeInstance(n) \/ CollapseNodeInstance(n)
        PROVE  UNCHANGED selected
    BY <2>3 DEF ExpandNodeInstance, CollapseNodeInstance
  <2>4. ASSUME NEW id \in Objects, OpenSelectedObject(id) PROVE UNCHANGED selected
    BY <2>4 DEF OpenSelectedObject
  <2>5. ASSUME NEW n, Select(n) \/ SelectAsRootNode(n) PROVE SelectedIs(n)
    BY <2>5 DEF Select, SelectAsRootNode
  <2>6. ASSUME NEW ids \in SUBSET Objects, DeleteSelectedNodes(ids) PROVE SelectedIs(None)
    BY <2>6 DEF DeleteSelectedNodes
  <2> QED BY <1>1, <1>2, <1>5, <2>1, <2>2, <2>3, <2>4, <2>5, <2>6 DEF Clicks
<1>6. CASE UNCHANGED vars
  BY <1>1, <1>6 DEF vars
<1> QED BY <1>3, <1>4, <1>5, <1>6 DEF Next

LEMMA TypeInvariant == Spec => [](TypeInv /\ SelectedOK)
<1>1. Init => SelectedOK
  BY DEF Init, SelectedOK, Selected
<1> QED BY <1>1, InitType, TypeStep, SelectedStep, PTL DEF Spec

\* The types are right in every state, the loader counts the requests on their
\* way, every connection has its nodes in the map, and no node is expanded by
\* two requests at once (loadingCounter, nodeInstanceMap, isLoading).
THEOREM TypeCorrect == Spec => []TypeOK
<1> QED BY TypeInvariant, TypeInvImpliesTypeOK, PTL

----------------------------------------------------------------------------
(* The graph at rest: the root chosen and the filter applied. *)

\* The last request has been answered or has failed, whatever else is on its way.
Drawn == loads = <<>> \/ Last(loads).late

\* What was asked before a late request is late.
LateDown == \A k \in 1..Len(loads) : loads[k].late => \A i \in 1..k : loads[i].late

LastAsked == loads # <<>> /\ ~Last(loads).late =>
               Last(loads).root = rootNodeId /\ Last(loads).filter = applied

RootAhead == ways \cap {"overtaken", "unresolved"} = {} =>
               IF nav = None THEN rootNodeId = chosen ELSE nav = chosen

FilterKept == "edited" \notin ways => typesFilter = applied

ShowsRoot == Drawn /\ ways \cap {"crossed", "failed", "stale"} = {} =>
               /\ \A n \in shown : n.path[1] = rootNodeId
               /\ \A e \in expansions : e.nodesLive => e.node.path[1] = rootNodeId

ShowsFiltered == Drawn /\ ways \cap {"crossed", "failed", "edited"} = {} /\ applied # {} =>
                   /\ \A n \in shown : IsRoot(n) \/ TypeOf[Id(n)] \in applied
                   /\ \A e \in expansions : e.nodesLive => e.filter = applied

PictureInv == LateDown /\ LastAsked /\ RootAhead /\ FilterKept /\ ShowsRoot /\ ShowsFiltered

LEMMA RestLast ==
  ASSUME LoadsOK, LateDown, NEW i \in DOMAIN loads, loads' = Rest(i)
  PROVE  /\ LateDown'
         /\ loads' # <<>> /\ ~Last(loads').late => loads # <<>> /\ Last(loads') = Last(loads)
         /\ Drawn' => Drawn \/ (i = Len(loads) /\ loads[i] = Last(loads))
         /\ Drawn => loads[i].late
<1>1. /\ i \in 1..Len(loads) /\ Len(loads) \in Nat /\ loads[i] \in Requested
      /\ loads' \in Seq(Requested) /\ Len(loads') = Len(loads) - 1
      /\ \A k \in 1..(Len(loads) - 1) :
           loads'[k] = IF k < i THEN [loads[k] EXCEPT !.late = TRUE] ELSE loads[k + 1]
  BY RestOK
<1>2. \A k \in 1..Len(loads) : loads[k] \in Requested
  BY LenProperties DEF LoadsOK
<1>3. \A k \in 1..Len(loads') : IF k < i THEN loads'[k].late ELSE loads'[k] = loads[k + 1]
  <2> TAKE k \in 1..Len(loads')
  <2>1. k \in 1..(Len(loads) - 1) /\ k \in 1..Len(loads)
    BY <1>1
  <2>2. loads[k] \in Requested
    BY <1>2, <2>1
  <2>3. [loads[k] EXCEPT !.late = TRUE].late
    BY <2>2 DEF Requested
  <2> QED BY <1>1, <2>1, <2>3
<1>4. LateDown'
  <2> SUFFICES ASSUME NEW k \in 1..Len(loads'), loads'[k].late, NEW j \in 1..k
               PROVE  loads'[j].late
    BY DEF LateDown
  <2>1. j \in 1..Len(loads') /\ k \in Nat /\ j \in Nat /\ i \in Nat
    BY <1>1
  <2>2. CASE j < i
    BY <1>3, <2>1, <2>2
  <2>3. CASE ~(j < i)
    <3>1. ~(k < i) /\ k + 1 \in 1..Len(loads) /\ j + 1 \in 1..(k + 1)
      BY <1>1, <2>1, <2>3
    <3>2. loads'[k] = loads[k + 1] /\ loads'[j] = loads[j + 1]
      BY <1>3, <2>1, <2>3, <3>1
    <3> QED BY <3>1, <3>2 DEF LateDown
  <2> QED BY <2>2, <2>3
<1>5. loads # <<>>
  BY <1>1
<1>6. loads' # <<>> => Len(loads') \in 1..Len(loads') /\ Len(loads') \in Nat
  BY <1>1, EmptySeq, LenProperties
<1>7. loads' # <<>> /\ i # Len(loads) => Last(loads') = Last(loads)
  <2> SUFFICES ASSUME loads' # <<>>, i # Len(loads) PROVE Last(loads') = Last(loads)
    OBVIOUS
  <2>1. ~(Len(loads') < i) /\ Len(loads') + 1 = Len(loads)
    BY <1>1
  <2>2. loads'[Len(loads')] = loads[Len(loads)]
    BY <1>3, <1>6, <2>1
  <2> QED BY <2>2 DEF Last
<1>8. loads' # <<>> /\ i = Len(loads) => Last(loads').late
  <2> SUFFICES ASSUME loads' # <<>>, i = Len(loads) PROVE Last(loads').late
    OBVIOUS
  <2>1. Len(loads') < i
    BY <1>1
  <2> QED BY <1>3, <1>6, <2>1 DEF Last
<1>9. loads' = <<>> => i = Len(loads)
  <2>1. loads' = <<>> => Len(loads') = 0
    OBVIOUS
  <2> QED BY <1>1, <2>1
<1>10. Drawn' => Drawn \/ (i = Len(loads) /\ loads[i] = Last(loads))
  BY <1>7, <1>9 DEF Drawn, Last
<1>11. Drawn => loads[i].late
  <2>1. Len(loads) \in 1..Len(loads) /\ i \in 1..Len(loads)
    BY <1>1
  <2> QED BY <1>5, <2>1 DEF Drawn, Last, LateDown
<1> QED BY <1>4, <1>5, <1>7, <1>8, <1>10, <1>11

\* Asking for the graph: its answer will be the picture from now on.
LEMMA AskLast ==
  ASSUME LoadsOK, LateDown, NEW root \in Objects, NEW filter \in Filters, Ask(root, filter),
         rootNodeId' = root
  PROVE  LateDown' /\ LastAsked' /\ ~Drawn'
<1>1. /\ LoadsOK' /\ applied' = filter
      /\ Len(loads') = Len(loads) + 1 /\ Len(loads) \in Nat
      /\ loads' # <<>>
      /\ Last(loads') = [root |-> root, filter |-> filter, late |-> FALSE]
      /\ \A i \in 1..Len(loads) : loads'[i] = loads[i]
  BY AskOK
<1>2. ~Last(loads').late /\ Last(loads').root = root /\ Last(loads').filter = filter
  BY <1>1
<1>3. ~Drawn'
  BY <1>1, <1>2 DEF Drawn
<1>4. LastAsked'
  BY <1>1, <1>2 DEF LastAsked
<1>5. LateDown'
  <2> SUFFICES ASSUME NEW k \in 1..Len(loads'), loads'[k].late, NEW i \in 1..k
               PROVE  loads'[i].late
    BY DEF LateDown
  <2>1. k # Len(loads')
    BY <1>2 DEF Last
  <2>2. k \in 1..Len(loads) /\ i \in 1..Len(loads)
    BY <1>1, <2>1
  <2>3. loads'[k] = loads[k] /\ loads'[i] = loads[i]
    BY <1>1, <2>2
  <2> QED BY <2>2, <2>3 DEF LateDown
<1> QED BY <1>3, <1>4, <1>5

LEMMA InitPicture == Init => PictureInv
<1> SUFFICES ASSUME Init PROVE PictureInv
  OBVIOUS
<1> USE DEF Init
<1> DEFINE l == [root |-> Start, filter |-> {}, late |-> FALSE]
<1>1. loads = <<l>> /\ Len(loads) = 1 /\ loads[1] = l /\ Last(loads) = l
  BY DEF Last
<1>2. LateDown
  BY <1>1 DEF LateDown
<1>3. LastAsked
  <2>1. l.root = Start /\ l.filter = {} /\ rootNodeId = Start /\ applied = {}
    OBVIOUS
  <2> HIDE DEF l
  <2> QED BY <1>1, <2>1 DEF LastAsked
<1>4. RootAhead /\ FilterKept /\ ShowsRoot /\ ShowsFiltered
  BY DEF RootAhead, FilterKept, ShowsRoot, ShowsFiltered
<1> QED BY <1>2, <1>3, <1>4 DEF PictureInv

LEMMA PaintPicture ==
  ASSUME TypeInv, PictureInv, NEW i \in DOMAIN loads, Paint(i)
  PROVE  PictureInv'
<1> USE DEF PictureInv
<1> DEFINE l == loads[i]
           nodes == AnsweredNodes(l)
<1>1. /\ loads' = Rest(i) /\ shown' = nodes /\ expansions' = Detached(TRUE)
      /\ UNCHANGED <<rootNodeId, applied, typesFilter, nav, chosen>>
      /\ l.late => "crossed" \in ways'
      /\ \A w \in {"edited", "overtaken", "unresolved"} : w \in ways' <=> w \in ways
  BY DEF Paint, page
<1>2. /\ LateDown'
      /\ loads' # <<>> /\ ~Last(loads').late => loads # <<>> /\ Last(loads') = Last(loads)
      /\ Drawn' => Drawn \/ (i = Len(loads) /\ l = Last(loads))
      /\ Drawn => l.late
  BY <1>1, RestLast DEF TypeInv
<1>3. LastAsked' /\ RootAhead' /\ FilterKept'
  BY <1>1, <1>2 DEF LastAsked, RootAhead, FilterKept
<1>4. l \in Requested /\ loads # <<>>
  <2>1. l \in Requested /\ i \in 1..Len(loads)
    BY RestOK DEF TypeInv
  <2> QED BY <2>1
<1>5. Drawn' /\ "crossed" \notin ways' => l.root = rootNodeId /\ l.filter = applied
  BY <1>1, <1>2, <1>4 DEF LastAsked
<1>6. \A e \in expansions' : ~e.nodesLive
  BY <1>1, DetachedOK DEF TypeInv
<1>7. \A n \in nodes : /\ n.path[1] = l.root
                       /\ IsRoot(n) \/ l.filter = {} \/ TypeOf[Id(n)] \in l.filter
  BY <1>4, AnswerNode, KeptFinite DEF TypeInv
<1>8. ShowsRoot'
  BY <1>1, <1>5, <1>6, <1>7 DEF ShowsRoot
<1>9. ShowsFiltered'
  BY <1>1, <1>5, <1>6, <1>7 DEF ShowsFiltered
<1> QED BY <1>2, <1>3, <1>8, <1>9

LEMMA LoadFailsPicture ==
  ASSUME TypeInv, PictureInv, NEW i \in DOMAIN loads, LoadFails(i)
  PROVE  PictureInv'
<1> USE DEF PictureInv
<1>1. /\ loads' = Rest(i)
      /\ UNCHANGED <<rootNodeId, applied, typesFilter, nav, chosen, shown, expansions>>
      /\ ways' = ways \cup (IF loads[i].late THEN {} ELSE {"failed"})
  BY DEF LoadFails, page, graph
<1>2. /\ LateDown'
      /\ loads' # <<>> /\ ~Last(loads').late => loads # <<>> /\ Last(loads') = Last(loads)
      /\ Drawn' => Drawn \/ (i = Len(loads) /\ loads[i] = Last(loads))
  BY <1>1, RestLast DEF TypeInv
<1>3. LastAsked' /\ RootAhead' /\ FilterKept'
  BY <1>1, <1>2 DEF LastAsked, RootAhead, FilterKept
<1>4. Drawn' /\ "failed" \notin ways' => Drawn
  BY <1>1, <1>2 DEF Drawn
<1>5. ShowsRoot'
  BY <1>1, <1>4 DEF ShowsRoot
<1>6. ShowsFiltered'
  BY <1>1, <1>4 DEF ShowsFiltered
<1> QED BY <1>2, <1>3, <1>5, <1>6

\* While the last request is on its way, nothing is said of the picture.
LEMMA NotDrawn ==
  ASSUME ~Drawn'
  PROVE  ShowsRoot' /\ ShowsFiltered'
BY DEF ShowsRoot, ShowsFiltered

LEMMA ApplyFiltersPicture ==
  ASSUME TypeInv, PictureInv, NEW f \in Filters, ApplyFilters(f)
  PROVE  PictureInv'
<1> USE DEF PictureInv
<1>1. Ask(rootNodeId, f) /\ rootNodeId \in Objects /\ UNCHANGED <<rootNodeId, nav, chosen>>
      /\ typesFilter' = f /\ applied' = f /\ ways' = ways \ {"edited"}
  BY DEF ApplyFilters, Ask, page, TypeInv, PageOK
<1>2. LateDown' /\ LastAsked' /\ ~Drawn'
  BY <1>1, AskLast DEF TypeInv
<1>3. RootAhead' /\ FilterKept'
  BY <1>1 DEF RootAhead, FilterKept
<1> QED BY <1>2, <1>3, NotDrawn

LEMMA EditFilterFormPicture ==
  ASSUME TypeInv, PictureInv, NEW f \in Filters, EditFilterForm(f)
  PROVE  PictureInv'
<1> USE DEF PictureInv
<1>1. /\ UNCHANGED <<rootNodeId, nav, chosen, loads, shown, expansions, applied>>
      /\ ways' = ways \cup {"edited"}
  BY DEF EditFilterForm, page, graph
<1>2. LateDown' /\ LastAsked' /\ RootAhead' /\ FilterKept'
  BY <1>1 DEF LateDown, LastAsked, RootAhead, FilterKept
<1>3. ShowsRoot' /\ ShowsFiltered'
  BY <1>1 DEF ShowsRoot, ShowsFiltered, Drawn
<1> QED BY <1>2, <1>3

LEMMA SelectAsRootNodePicture ==
  ASSUME TypeInv, PictureInv, NEW n, IsNode(n), SelectAsRootNode(n)
  PROVE  PictureInv'
<1> USE DEF PictureInv
<1>1. /\ Ask(Id(n), typesFilter) /\ rootNodeId' = Id(n) /\ chosen' = Id(n)
      /\ UNCHANGED typesFilter /\ applied' = typesFilter
      /\ ways' = (ways \ {"edited", "overtaken", "unresolved"})
                   \cup (IF nav' \in {None, Id(n)} THEN {} ELSE {"overtaken"})
  BY DEF SelectAsRootNode, Ask
<1>2. Id(n) \in Objects /\ typesFilter \in Filters
  BY NodeParts DEF TypeInv, PageOK
<1>3. LateDown' /\ LastAsked' /\ ~Drawn'
  BY <1>1, <1>2, AskLast DEF TypeInv
<1>4. RootAhead' /\ FilterKept'
  BY <1>1 DEF RootAhead, FilterKept
<1> QED BY <1>3, <1>4, NotDrawn

LEMMA OpenSelectedObjectPicture ==
  ASSUME TypeInv, PictureInv, NEW id \in Objects, OpenSelectedObject(id)
  PROVE  PictureInv'
<1> USE DEF PictureInv
<1>1. /\ UNCHANGED <<rootNodeId, loads, shown, expansions, applied, typesFilter>>
      /\ nav' = id /\ chosen' = id /\ ways' = ways \ {"overtaken", "unresolved"} /\ id # None
  BY ObjectsAssumption DEF OpenSelectedObject, graph
<1>2. LateDown' /\ LastAsked' /\ RootAhead' /\ FilterKept'
  BY <1>1 DEF LateDown, LastAsked, RootAhead, FilterKept
<1>3. ShowsRoot' /\ ShowsFiltered'
  BY <1>1 DEF ShowsRoot, ShowsFiltered, Drawn
<1> QED BY <1>2, <1>3

LEMMA NavigationEndsPicture ==
  ASSUME TypeInv, PictureInv, NavigationEnds
  PROVE  PictureInv'
<1> USE DEF PictureInv
<1>1. /\ nav # None /\ nav' = None /\ rootNodeId' = nav /\ Ask(nav, typesFilter)
      /\ UNCHANGED <<chosen, typesFilter>> /\ applied' = typesFilter /\ ways' = ways \ {"edited"}
  BY DEF NavigationEnds, TakeRoot, Ask
<1>2. nav \in Objects /\ typesFilter \in Filters
  BY <1>1 DEF TypeInv, PageOK
<1>3. LateDown' /\ LastAsked' /\ ~Drawn'
  BY <1>1, <1>2, AskLast DEF TypeInv
<1>4. RootAhead' /\ FilterKept'
  BY <1>1 DEF RootAhead, FilterKept
<1> QED BY <1>3, <1>4, NotDrawn

LEMMA NavigationFailsPicture ==
  ASSUME TypeInv, PictureInv, NavigationFails
  PROVE  PictureInv'
<1> USE DEF PictureInv
<1>1. /\ UNCHANGED <<rootNodeId, chosen, loads, shown, expansions, applied, typesFilter>>
      /\ nav # None /\ nav' = None
      /\ ways' = ways \cup (IF nav = rootNodeId THEN {} ELSE {"unresolved"})
  BY DEF NavigationFails, graph
<1>2. RootAhead'
  BY <1>1 DEF RootAhead
<1>3. LateDown' /\ LastAsked' /\ FilterKept'
  BY <1>1 DEF LateDown, LastAsked, FilterKept
<1>4. ShowsRoot' /\ ShowsFiltered'
  BY <1>1 DEF ShowsRoot, ShowsFiltered, Drawn
<1> QED BY <1>2, <1>3, <1>4

LEMMA ExpandRootNodePicture ==
  ASSUME TypeInv, PictureInv, NEW root \in shown, ExpandRootNode(root)
  PROVE  PictureInv'
<1> USE DEF PictureInv
<1>1. /\ Ask(Id(root), typesFilter) /\ rootNodeId' = Id(root) /\ UNCHANGED <<nav, typesFilter>>
      /\ chosen' = (IF nav = None THEN Id(root) ELSE chosen)
      /\ applied' = typesFilter /\ ways' = ways \ {"edited"}
  BY DEF ExpandRootNode, Ask
<1>2. Id(root) \in Objects /\ typesFilter \in Filters
  BY NodeParts DEF TypeInv, NodesOK, PageOK
<1>3. LateDown' /\ LastAsked' /\ ~Drawn'
  BY <1>1, <1>2, AskLast DEF TypeInv
<1>4. RootAhead' /\ FilterKept'
  BY <1>1 DEF RootAhead, FilterKept
<1> QED BY <1>3, <1>4, NotDrawn

\* Steps that ask for nothing: nodes shown and expansions answered come from
\* those shown before.
LEMMA SamePicture ==
  ASSUME PictureInv, UNCHANGED <<rootNodeId, nav, chosen, loads, applied, typesFilter>>,
         ways \subseteq ways',
         \A w \in {"overtaken", "unresolved", "edited"} : w \in ways' => w \in ways,
         \A n \in shown' : \/ n \in shown
                           \/ \E e \in expansions : /\ e.nodesLive /\ n.path[1] = e.node.path[1]
                                                    /\ e.filter = {} \/ TypeOf[Id(n)] \in e.filter,
         \A d \in expansions' : d.nodesLive =>
            \/ \E e \in expansions : e.nodesLive /\ d.node = e.node /\ d.filter = e.filter
            \/ (d.node \in shown \/ "stale" \in ways') /\ d.filter = typesFilter
  PROVE  PictureInv'
<1> USE DEF PictureInv
<1>1. LateDown' /\ LastAsked' /\ RootAhead' /\ FilterKept'
  BY DEF LateDown, LastAsked, RootAhead, FilterKept
<1>2. Drawn' => Drawn
  BY DEF Drawn
<1>3. ShowsRoot'
  <2> SUFFICES ASSUME Drawn, ways' \cap {"crossed", "failed", "stale"} = {}
               PROVE  /\ \A n \in shown' : n.path[1] = rootNodeId
                      /\ \A e \in expansions' : e.nodesLive => e.node.path[1] = rootNodeId
    BY <1>2 DEF ShowsRoot
  <2>1. /\ \A n \in shown : n.path[1] = rootNodeId
        /\ \A e \in expansions : e.nodesLive => e.node.path[1] = rootNodeId
    BY DEF ShowsRoot
  <2>2. \A n \in shown' : n.path[1] = rootNodeId
    BY <2>1
  <2>3. \A e \in expansions' : e.nodesLive => e.node.path[1] = rootNodeId
    BY <2>1
  <2> QED BY <2>2, <2>3
<1>4. ShowsFiltered'
  <2> SUFFICES ASSUME Drawn, ways \cap {"crossed", "failed", "edited"} = {}, applied # {}
               PROVE  /\ \A n \in shown' : IsRoot(n) \/ TypeOf[Id(n)] \in applied
                      /\ \A e \in expansions' : e.nodesLive => e.filter = applied
    BY <1>2 DEF ShowsFiltered
  <2>1. /\ \A n \in shown : IsRoot(n) \/ TypeOf[Id(n)] \in applied
        /\ \A e \in expansions : e.nodesLive => e.filter = applied
        /\ typesFilter = applied
    BY DEF ShowsFiltered, FilterKept
  <2>2. \A n \in shown' : IsRoot(n) \/ TypeOf[Id(n)] \in applied
    BY <2>1
  <2>3. \A e \in expansions' : e.nodesLive => e.filter = applied
    BY <2>1
  <2> QED BY <2>2, <2>3
<1> QED BY <1>1, <1>3, <1>4

LEMMA CollapsePicture ==
  ASSUME PictureInv, NEW n, CollapseRootNode(n) \/ CollapseNodeInstance(n)
  PROVE  PictureInv'
<1>1. /\ UNCHANGED <<rootNodeId, nav, chosen, loads, applied, typesFilter, expansions, ways>>
      /\ shown' \subseteq shown
  BY DEF CollapseRootNode, CollapseNodeInstance, page
<1> QED BY <1>1, SamePicture

LEMMA ExpandNodeInstancePicture ==
  ASSUME PictureInv, NEW n, ExpandNodeInstance(n)
  PROVE  PictureInv'
<1> DEFINE d == [node |-> n, filter |-> typesFilter, nodesLive |-> TRUE, joinsLive |-> TRUE]
<1>1. /\ UNCHANGED <<rootNodeId, nav, chosen, loads, applied, typesFilter, shown>>
      /\ expansions' = expansions \cup {d}
      /\ ways' = ways \cup (IF n \in shown THEN {} ELSE {"stale"})
  BY DEF ExpandNodeInstance, page
<1>2. d.node = n /\ d.filter = typesFilter
  OBVIOUS
<1> HIDE DEF d
<1> QED BY <1>1, <1>2, SamePicture

LEMMA AttachPicture ==
  ASSUME TypeInv, PictureInv, NEW e \in expansions, Attach(e)
  PROVE  PictureInv'
<1>1. /\ UNCHANGED <<rootNodeId, nav, chosen, loads, applied, typesFilter>>
      /\ ways' \subseteq ways \cup {"late"} /\ ways \subseteq ways'
      /\ shown' = shown \cup (IF e.nodesLive THEN NewOf(e) ELSE {})
      /\ EndExpansion(e, joins \cup JoinsOf(e))
  BY AttachParts DEF page
<1>2. \A m \in NewOf(e) : /\ m.path[1] = e.node.path[1]
                          /\ e.filter = {} \/ TypeOf[Id(m)] \in e.filter
  BY NewOfNode DEF TypeInv
<1>3. \A d \in expansions' : \E x \in expansions : /\ d.node = x.node /\ d.filter = x.filter
                                                   /\ d.nodesLive = x.nodesLive
  BY <1>1, EndExpansionOK DEF TypeInv
<1>4. \A w \in {"overtaken", "unresolved", "edited"} : w \in ways' => w \in ways
  BY <1>1
<1>6. \A n \in shown' : \/ n \in shown
                        \/ \E x \in expansions : /\ x.nodesLive /\ n.path[1] = x.node.path[1]
                                                 /\ x.filter = {} \/ TypeOf[Id(n)] \in x.filter
  BY <1>1, <1>2
<1>7. \A d \in expansions' : d.nodesLive =>
         \E x \in expansions : x.nodesLive /\ d.node = x.node /\ d.filter = x.filter
  BY <1>3
<1> QED BY <1>1, <1>4, <1>6, <1>7, SamePicture

LEMMA ExpansionFailsPicture ==
  ASSUME TypeInv, PictureInv, NEW e \in expansions, ExpansionFails(e)
  PROVE  PictureInv'
<1>1. /\ UNCHANGED <<rootNodeId, nav, chosen, loads, applied, typesFilter, ways, shown>>
      /\ EndExpansion(e, joins)
  BY DEF ExpansionFails, page
<1>2. \A d \in expansions' : \E x \in expansions : /\ d.node = x.node /\ d.filter = x.filter
                                                   /\ d.nodesLive = x.nodesLive
  BY <1>1, EndExpansionOK DEF TypeInv
<1>3. \A d \in expansions' : d.nodesLive =>
         \E x \in expansions : x.nodesLive /\ d.node = x.node /\ d.filter = x.filter
  BY <1>2
<1> QED BY <1>1, <1>3, SamePicture

LEMMA DeleteSelectedNodesPicture ==
  ASSUME TypeInv, PictureInv, NEW ids \in SUBSET Objects, DeleteSelectedNodes(ids)
  PROVE  PictureInv'
<1>1. /\ UNCHANGED <<rootNodeId, nav, chosen, loads, applied, typesFilter>>
      /\ ways' = ways \cup {"deleted"} /\ shown' \subseteq shown
      /\ expansions' = Detached(TRUE)
  BY DEF DeleteSelectedNodes, page
<1>2. \A d \in expansions' : ~d.nodesLive
  BY <1>1, DetachedOK DEF TypeInv
<1>3. \A w \in {"overtaken", "unresolved", "edited"} : w \in ways' => w \in ways
  BY <1>1
<1> QED BY <1>1, <1>2, <1>3, SamePicture

LEMMA PictureStep == TypeInv /\ SelectedOK /\ PictureInv /\ [Next]_vars => PictureInv'
<1> SUFFICES ASSUME TypeInv, SelectedOK, PictureInv, [Next]_vars PROVE PictureInv'
  OBVIOUS
<1>1. CASE Answers
  BY <1>1, PaintPicture, LoadFailsPicture, AttachPicture, ExpansionFailsPicture DEF Answers
<1>2. CASE NavigationEnds \/ NavigationFails
  BY <1>2, NavigationEndsPicture, NavigationFailsPicture
<1>3. CASE Clicks
  <2>1. ASSUME NEW n, Select(n) PROVE PictureInv'
    <3>1. UNCHANGED <<rootNodeId, nav, chosen, loads, applied, typesFilter, ways, shown, expansions>>
      BY <2>1 DEF Select, page
    <3> QED BY <3>1, SamePicture
  <2> QED BY <1>3, <2>1, ReachedNodes, ApplyFiltersPicture, EditFilterFormPicture,
          SelectAsRootNodePicture, CollapsePicture, ExpandRootNodePicture, ExpandNodeInstancePicture,
          OpenSelectedObjectPicture, DeleteSelectedNodesPicture DEF Clicks
<1>4. CASE UNCHANGED vars
  <2>1. UNCHANGED <<rootNodeId, nav, chosen, loads, applied, typesFilter, ways, shown, expansions>>
    BY <1>4 DEF vars, page, graph
  <2> QED BY <2>1, SamePicture
<1> QED BY <1>1, <1>2, <1>3, <1>4 DEF Next

LEMMA PictureInvariant == Spec => []PictureInv
<1> QED BY TypeInvariant, InitPicture, PictureStep, PTL DEF Spec

\* When no request for the graph is on its way and the page is not on its way to
\* another object, the root of the component and of every node shown is the one
\* the user chose last, but after the failures and crossings named
\* (loadInitialGraph, onRootNodeSelected, ngOnChanges).
THEOREM RootIsChosenAlways == Spec => []RootIsChosen
<1>1. PictureInv => RootIsChosen
  BY DEF PictureInv, RootIsChosen, Quiet, RootAhead, ShowsRoot, Drawn
<1> QED BY <1>1, PictureInvariant, PTL

\* At rest every node shown passes the filter that the last load was asked with,
\* also those of expansions that were asked for under another one (typesFilter).
THEOREM FilterHoldsAlways == Spec => []FilterHolds
<1>1. PictureInv => FilterHolds
  BY DEF PictureInv, FilterHolds, Quiet, ShowsFiltered, Drawn
<1> QED BY <1>1, PictureInvariant, PTL

----------------------------------------------------------------------------
(* What a collapse finds. *)

\* One step of the search: from p along a connection, away from the root.
HopsTo(p, m) == m \in mapped /\ \E j \in joins : IF p.side = "child" THEN j.up = p /\ j.down = m
                                                                  ELSE j.down = p /\ j.up = m

\* The search from n: f[k] is what has been found after k rounds.
SearchFrom(n, f) == /\ f[0] = {n}
                    /\ \A k \in 1..Cardinality(joins) : f[k] = f[k - 1] \cup Hop(f[k - 1])
                    /\ Descendants(n) = f[Cardinality(joins)] \ {n}

LEMMA HopParts ==
  ASSUME NEW S, NEW m
  PROVE  m \in Hop(S) <=> \E p \in S : HopsTo(p, m)
BY DEF Hop, HopsTo

\* The equation of the search, and that a function fulfils it.
Search(f, C, n) == f = [k \in 0..C |-> IF k = 0 THEN {n} ELSE f[k - 1] \cup Hop(f[k - 1])]

LEMMA SearchRounds ==
  ASSUME NEW C \in Nat, NEW n, NEW f, Search(f, C, n)
  PROVE  f[0] = {n} /\ \A k \in 1..C : f[k] = f[k - 1] \cup Hop(f[k - 1])
<1>1. f = [k \in 0..C |-> IF k = 0 THEN {n} ELSE f[k - 1] \cup Hop(f[k - 1])]
  BY DEF Search
<1>2. f[0] = {n}
  <2>1. 0 \in 0..C
    OBVIOUS
  <2> QED BY <1>1, <2>1
<1>3. ASSUME NEW k \in 1..C PROVE f[k] = f[k - 1] \cup Hop(f[k - 1])
  <2>1. k \in 0..C /\ k # 0
    OBVIOUS
  <2> QED BY <1>1, <2>1
<1> QED BY <1>2, <1>3

LEMMA SearchExists ==
  ASSUME NEW C \in Nat, NEW n
  PROVE  \E f : Search(f, C, n)
<1> DEFINE T == {c \in Nat : \E f : Search(f, c, n)}
<1>1. 0 \in T
  <2> DEFINE f == [k \in 0..0 |-> {n}]
  <2>1. Search(f, 0, n)
    BY DEF Search
  <2> QED BY <2>1
<1>2. \A c \in 1..C : c - 1 \in T => c \in T
  <2> SUFFICES ASSUME NEW c \in 1..C, c - 1 \in T PROVE \E g : Search(g, c, n)
    OBVIOUS
  <2>1. PICK f : Search(f, c - 1, n)
    OBVIOUS
  <2> DEFINE g == [k \in 0..c |-> IF k = c THEN f[c - 1] \cup Hop(f[c - 1]) ELSE f[k]]
  <2>2. c \in Nat /\ c # 0 /\ c - 1 \in Nat
    OBVIOUS
  <2>3. f[0] = {n} /\ \A k \in 1..(c - 1) : f[k] = f[k - 1] \cup Hop(f[k - 1])
    BY <2>1, <2>2, SearchRounds
  <2>4. g[0] = {n}
    <3>1. 0 \in 0..c /\ 0 # c
      BY <2>2
    <3>2. g[0] = f[0]
      BY <3>1
    <3> QED BY <2>3, <3>2
  <2>5. \A k \in 1..c : g[k] = g[k - 1] \cup Hop(g[k - 1])
    <3> SUFFICES ASSUME NEW k \in 1..c PROVE g[k] = g[k - 1] \cup Hop(g[k - 1])
      OBVIOUS
    <3>1. k - 1 \in 0..c /\ k - 1 # c /\ k \in 0..c
      BY <2>2
    <3>2. g[k - 1] = f[k - 1]
      BY <3>1
    <3>3. g[k] = f[k - 1] \cup Hop(f[k - 1])
      <4>1. CASE k = c
        BY <3>1, <4>1
      <4>2. CASE k # c
        <5>1. g[k] = f[k] /\ k \in 1..(c - 1)
          BY <2>2, <3>1, <4>2
        <5> QED BY <2>3, <5>1
      <4> QED BY <4>1, <4>2
    <3> HIDE DEF g
    <3> QED BY <3>2, <3>3
  <2>6. Search(g, c, n)
    <3> DEFINE h == [k \in 0..c |-> IF k = 0 THEN {n} ELSE g[k - 1] \cup Hop(g[k - 1])]
    <3>1. g = [k \in 0..c |-> g[k]]
      OBVIOUS
    <3> HIDE DEF g
    <3>2. \A k \in 0..c : g[k] = IF k = 0 THEN {n} ELSE g[k - 1] \cup Hop(g[k - 1])
      <4>1. \A k \in 0..c : k = 0 \/ k \in 1..c
        BY <2>2
      <4>2. \A k \in 1..c : k # 0
        OBVIOUS
      <4> QED BY <2>4, <2>5, <4>1, <4>2
    <3>3. g = h
      BY <3>1, <3>2
    <3> QED BY <3>3 DEF Search
  <2> QED BY <2>6
<1> HIDE DEF T
<1>3. 0..C \subseteq T
  BY <1>1, <1>2, InductionUpTo
<1>4. C \in T
  BY <1>3
<1> QED BY <1>4 DEF T

LEMMA SearchFound ==
  ASSUME IsFiniteSet(joins), NEW n
  PROVE  Cardinality(joins) \in Nat /\ \E f : SearchFrom(n, f)
<1> DEFINE C == Cardinality(joins)
           g == CHOOSE f : Search(f, C, n)
<1>1. C \in Nat
  BY FS_CardinalityType
<1>2. Descendants(n) = g[C] \ {n}
  BY DEF Descendants, Search
<1> HIDE DEF C
<1>3. Search(g, C, n)
  BY <1>1, SearchExists
<1> HIDE DEF g
<1>4. g[0] = {n} /\ \A k \in 1..C : g[k] = g[k - 1] \cup Hop(g[k - 1])
  BY <1>1, <1>3, SearchRounds
<1>5. SearchFrom(n, g)
  BY <1>2, <1>4 DEF SearchFrom, C
<1> QED BY <1>1, <1>5 DEF C

\* A step from a node leads to a node loaded from it.
LEMMA HopsAbove ==
  ASSUME JoinsOK, NodesOK, NEW p, IsNode(p), ~IsRoot(p), NEW m, HopsTo(p, m)
  PROVE  /\ p \in mapped /\ m \in mapped /\ IsNode(m) /\ ~IsRoot(m) /\ m.side = p.side
         /\ Above(p, m)
<1>1. p.side = "parent" \/ p.side = "child"
  BY DEF IsNode, IsRoot, Sides
<1>2. m \in mapped
  BY DEF HopsTo
<1>3. PICK j \in joins : IF p.side = "child" THEN j.up = p /\ j.down = m
                                             ELSE j.down = p /\ j.up = m
  BY DEF HopsTo
<1>4. PICK a \in mapped, b \in mapped : Above(a, b) /\ Connects(j, a, b)
  BY DEF JoinsOK
<1>5. a = p /\ b = m
  <2>1. CASE p.side = "child" /\ b.side = "parent"
    BY <1>3, <1>4, <2>1 DEF Connects
  <2>2. CASE p.side = "child" /\ b.side # "parent"
    BY <1>3, <1>4, <2>2 DEF Connects
  <2>3. CASE p.side = "parent" /\ b.side = "parent"
    BY <1>3, <1>4, <2>3 DEF Connects
  <2>4. CASE p.side = "parent" /\ b.side # "parent"
    BY <1>3, <1>4, <2>4 DEF Connects
  <2> QED BY <1>1, <2>1, <2>2, <2>3, <2>4
<1> QED BY <1>4, <1>5 DEF Above, NodesOK, IsRoot

LEMMA ConnectedHops ==
  ASSUME NEW j \in joins, NEW p, NEW m \in mapped, Connects(j, p, m),
         IsNode(p), ~IsRoot(p), m.side = p.side
  PROVE  HopsTo(p, m)
<1>1. p.side = "parent" \/ p.side = "child"
  BY DEF IsNode, IsRoot, Sides
<1> QED BY <1>1 DEF Connects, HopsTo

\* All that is found hangs below the node searched from.
LEMMA FoundBelow ==
  ASSUME TypeInv, NEW n, IsNode(n), ~IsRoot(n), NEW f, SearchFrom(n, f)
  PROVE  \A k \in 0..Cardinality(joins) :
           n \in f[k] /\ \A m \in f[k] : m = n \/ (m \in mapped /\ Under(m, n))
<1> DEFINE C == Cardinality(joins)
           Below(m) == m = n \/ (m \in mapped /\ Under(m, n))
           T == {k \in 0..C : n \in f[k] /\ \A m \in f[k] : Below(m)}
<1>1. C \in Nat
  BY FS_CardinalityType DEF TypeInv, JoinsOK
<1>2. IsNode(n) /\ \A m \in mapped : IsNode(m)
  BY DEF TypeInv, NodesOK
<1>3. 0 \in T
  BY <1>1 DEF SearchFrom
<1>4. \A p, m : Below(p) /\ HopsTo(p, m) => Below(m)
  <2> SUFFICES ASSUME NEW p, NEW m, Below(p), HopsTo(p, m) PROVE m \in mapped /\ Under(m, n)
    OBVIOUS
  <2>1. IsNode(p) /\ ~IsRoot(p) /\ p.side = n.side
    BY <1>2 DEF Under, IsRoot
  <2>2. m \in mapped /\ IsNode(m) /\ m.side = p.side /\ Above(p, m)
    BY <2>1, HopsAbove DEF TypeInv
  <2>3. n.path \in Seq(Objects) /\ m.path \in Seq(Objects) /\ m.path # <<>> /\ p.path = Front(m.path)
    BY <1>2, <2>2 DEF IsNode, Above
  <2>4. n.path = p.path \/ IsStrictPrefix(n.path, p.path)
    BY DEF Under
  <2>5. IsStrictPrefix(n.path, m.path)
    BY <2>3, <2>4, StrictPrefixOfFront
  <2> QED BY <2>1, <2>2, <2>5 DEF Under
<1>5. \A k \in 1..C : k - 1 \in T => k \in T
  <2> SUFFICES ASSUME NEW k \in 1..C, k - 1 \in T PROVE k \in T
    OBVIOUS
  <2>1. f[k] = f[k - 1] \cup Hop(f[k - 1]) /\ k \in 0..C
    BY <1>1 DEF SearchFrom
  <2>2. n \in f[k - 1] /\ \A m \in f[k - 1] : Below(m)
    OBVIOUS
  <2> HIDE DEF Below
  <2>3. \A m \in Hop(f[k - 1]) : Below(m)
    BY <1>4, <2>2, HopParts
  <2> QED BY <2>1, <2>2, <2>3
<1> HIDE DEF C, T, Below
<1>6. 0..C \subseteq T
  BY <1>1, <1>3, <1>5, InductionUpTo
<1> QED BY <1>6 DEF C, T, Below

\* As many rounds as there are connections are enough: each but the last one
\* finds a node by a connection of its own.
LEMMA FoundAll ==
  ASSUME TypeInv, NEW n, IsNode(n), ~IsRoot(n), NEW f, SearchFrom(n, f)
  PROVE  Hop(f[Cardinality(joins)]) \subseteq f[Cardinality(joins)]
<1> DEFINE C == Cardinality(joins)
           far == [j \in joins |-> IF n.side = "child" THEN j.down ELSE j.up]
           F == {far[j] : j \in joins}
           T == {k \in 0..C : Hop(f[k]) \subseteq f[k] \/ Cardinality(f[k] \ {n}) >= k}
<1>1. C \in Nat /\ IsFiniteSet(joins)
  BY FS_CardinalityType DEF TypeInv, JoinsOK
<1>2. IsFiniteSet(F) /\ Cardinality(F) <= C
  <2>1. DOMAIN far = joins
    OBVIOUS
  <2> HIDE DEF far
  <2> QED BY <1>1, <2>1, ImageFinite
<1>3. \A k \in 0..C : n \in f[k] /\ \A m \in f[k] : m.side = n.side
  BY FoundBelow DEF Under
<1>4. \A k \in 0..C : Hop(f[k]) \subseteq F
  <2> SUFFICES ASSUME NEW k \in 0..C, NEW m \in Hop(f[k]) PROVE m \in F
    OBVIOUS
  <2>1. PICK p \in f[k] : HopsTo(p, m)
    BY HopParts
  <2>2. p.side = n.side
    BY <1>3
  <2>3. PICK j \in joins : IF p.side = "child" THEN j.up = p /\ j.down = m
                                               ELSE j.down = p /\ j.up = m
    BY <2>1 DEF HopsTo
  <2>4. far[j] = m
    BY <2>2, <2>3
  <2> QED BY <2>4
<1>5. \A k \in 0..C : f[k] \ {n} \subseteq F
  <2> DEFINE U == {k \in 0..C : f[k] \ {n} \subseteq F}
  <2>1. 0 \in U
    BY <1>1 DEF SearchFrom
  <2>2. \A k \in 1..C : k - 1 \in U => k \in U
    <3> SUFFICES ASSUME NEW k \in 1..C, k - 1 \in U PROVE k \in U
      OBVIOUS
    <3>1. f[k] = f[k - 1] \cup Hop(f[k - 1]) /\ k \in 0..C /\ k - 1 \in 0..C
      BY <1>1 DEF SearchFrom
    <3>2. Hop(f[k - 1]) \subseteq F
      BY <1>4, <3>1
    <3> QED BY <3>1, <3>2
  <2> HIDE DEF U, C
  <2>3. 0..C \subseteq U
    BY <1>1, <2>1, <2>2, InductionUpTo
  <2> QED BY <2>3 DEF U
<1>6. \A k \in 0..C : /\ IsFiniteSet(f[k] \ {n}) /\ Cardinality(f[k] \ {n}) \in Nat
                      /\ Cardinality(f[k] \ {n}) <= Cardinality(F)
                      /\ Cardinality(F) = Cardinality(f[k] \ {n}) => F = f[k] \ {n}
  <2> HIDE DEF F
  <2> QED BY <1>2, <1>5, FS_Subset, FS_CardinalityType
<1>7. 0 \in T
  <2>1. f[0] \ {n} = {}
    BY DEF SearchFrom
  <2>2. Cardinality(f[0] \ {n}) = 0
    BY <2>1, FS_EmptySet
  <2> QED BY <1>1, <2>2
<1>8. \A k \in 1..C : k - 1 \in T => k \in T
  <2> SUFFICES ASSUME NEW k \in 1..C, k - 1 \in T PROVE k \in T
    OBVIOUS
  <2>1. f[k] = f[k - 1] \cup Hop(f[k - 1]) /\ k \in 0..C /\ k - 1 \in 0..C /\ k \in Nat
    BY <1>1 DEF SearchFrom
  <2>2. CASE Hop(f[k - 1]) \subseteq f[k - 1]
    <3>1. f[k] = f[k - 1]
      BY <2>1, <2>2
    <3> QED BY <2>1, <2>2, <3>1
  <2>3. CASE ~(Hop(f[k - 1]) \subseteq f[k - 1])
    <3>1. PICK m \in Hop(f[k - 1]) : m \notin f[k - 1]
      BY <2>3
    <3> DEFINE A == f[k - 1] \ {n}
               B == A \cup {m}
    <3>2. m # n /\ m \notin A /\ B \subseteq f[k] \ {n}
      BY <1>3, <2>1, <3>1
    <3>3. IsFiniteSet(A) /\ Cardinality(A) \in Nat /\ Cardinality(A) >= k - 1
      BY <1>6, <2>1, <2>3
    <3> HIDE DEF A
    <3>4. IsFiniteSet(B) /\ Cardinality(B) = Cardinality(A) + 1
      BY <3>2, <3>3, FS_AddElement
    <3> HIDE DEF B
    <3>5. IsFiniteSet(f[k] \ {n}) /\ Cardinality(f[k] \ {n}) \in Nat
      BY <1>6, <2>1
    <3>6. Cardinality(B) <= Cardinality(f[k] \ {n})
      BY <3>2, <3>5, FS_Subset
    <3>7. Cardinality(f[k] \ {n}) >= k
      BY <2>1, <3>3, <3>4, <3>5, <3>6
    <3> QED BY <2>1, <3>7
  <2> QED BY <2>2, <2>3
<1>9. C \in T
  <2> HIDE DEF T, C
  <2>1. 0..C \subseteq T
    BY <1>1, <1>7, <1>8, InductionUpTo
  <2> QED BY <1>1, <2>1
<1>10. CASE Hop(f[C]) \subseteq f[C]
  BY <1>10
<1>11. CASE Cardinality(f[C] \ {n}) >= C
  <2>1. C \in 0..C
    BY <1>1
  <2>2. /\ Cardinality(f[C] \ {n}) \in Nat /\ Cardinality(f[C] \ {n}) <= Cardinality(F)
        /\ Cardinality(F) = Cardinality(f[C] \ {n}) => F = f[C] \ {n}
        /\ Cardinality(F) \in Nat /\ Cardinality(F) <= C
    BY <1>2, <1>6, <2>1, FS_CardinalityType
  <2> HIDE DEF F, C
  <2>3. F = f[C] \ {n}
    BY <1>1, <1>11, <2>2
  <2>4. Hop(f[C]) \subseteq F
    BY <1>4, <2>1
  <2> QED BY <2>3, <2>4 DEF C
<1> QED BY <1>9, <1>10, <1>11

\* The search finds nodes below n only, and whatever hangs on what it finds.
LEMMA DescendantsClosed ==
  ASSUME TypeInv, NEW n, IsNode(n), ~IsRoot(n)
  PROVE  /\ \A m \in Descendants(n) : /\ m \in mapped /\ Under(m, n) /\ IsNode(m) /\ ~IsRoot(m)
                                      /\ m.side = n.side
         /\ \A p \in Descendants(n) \cup {n} : \A m : HopsTo(p, m) => m \in Descendants(n)
<1>1. PICK f : SearchFrom(n, f) /\ Cardinality(joins) \in Nat
  BY SearchFound DEF TypeInv, JoinsOK
<1> DEFINE C == Cardinality(joins)
<1>2. C \in 0..C /\ Descendants(n) = f[C] \ {n}
  BY <1>1 DEF SearchFrom
<1>3. IsNode(n) /\ \A m \in mapped : IsNode(m)
  BY DEF TypeInv, NodesOK
<1>4. n \in f[C] /\ \A m \in f[C] : m = n \/ (m \in mapped /\ Under(m, n))
  BY <1>1, <1>2, FoundBelow
<1>5. \A m \in Descendants(n) : /\ m \in mapped /\ Under(m, n) /\ IsNode(m) /\ ~IsRoot(m)
                                /\ m.side = n.side
  BY <1>2, <1>3, <1>4 DEF Under, IsRoot
<1>6. \A p \in Descendants(n) \cup {n} : \A m : HopsTo(p, m) => m \in Descendants(n)
  <2> SUFFICES ASSUME NEW p \in Descendants(n) \cup {n}, NEW m, HopsTo(p, m) PROVE m \in Descendants(n)
    OBVIOUS
  <2>1. p \in f[C]
    BY <1>2, <1>4
  <2>2. m \in f[C]
    BY <1>1, <2>1, FoundAll, HopParts
  <2>3. m # n
    <3> SUFFICES ASSUME m = n PROVE FALSE
      OBVIOUS
    <3>1. IsNode(p) /\ ~IsRoot(p)
      BY <1>3, <1>5
    <3>2. Above(p, n)
      BY <3>1, HopsAbove DEF TypeInv
    <3>3. Len(p.path) = Len(n.path) - 1 /\ Len(n.path) \in Nat
      BY <1>3, <3>2, NodeParts DEF Above
    <3>4. p # n
      BY <3>3
    <3>5. Under(p, n)
      BY <1>5, <3>4
    <3>6. Len(n.path) < Len(p.path)
      BY <1>3, <3>1, <3>5, StrictPrefixShorter DEF Under, IsNode
    <3> QED BY <3>3, <3>6
  <2> QED BY <1>2, <2>2, <2>3
<1> QED BY <1>5, <1>6

----------------------------------------------------------------------------
(* What is shown is a tree. *)

\* n hangs on a node shown; nothing shown was loaded from n.
HasParent(n) == \E m \in shown : Above(m, n) /\ \E j \in joins : Connects(j, m, n)
NoChild(n) == \A m \in shown : ~(~IsRoot(m) /\ m.side = n.side /\ Front(m.path) = n.path)

OneRoot == \A m, n \in shown : IsRoot(m) /\ IsRoot(n) => m = n
OneCopy == \A m, n \in shown : m.path = n.path /\ m.side = n.side => m = n
Hanging == \A n \in shown : ~IsRoot(n) /\ (Len(n.path) > 2 \/ "skipped" \notin ways) => HasParent(n)
Leaves == \A n \in shown \ expanded : ~IsRoot(n) => NoChild(n)
Growing == \A e \in expansions : e.node \in shown =>
             e.nodesLive /\ e.node \in expanded /\ NoChild(e.node)

TreeInv == OneRoot /\ (ways \cap {"deleted", "late"} = {} => OneCopy /\ Hanging /\ Leaves /\ Growing)

Clean == ways \cap {"deleted", "late"} = {}

LEMMA CleanTree ==
  ASSUME TreeInv, Clean
  PROVE  OneCopy /\ Hanging /\ Leaves /\ Growing
BY DEF TreeInv, Clean

\* Nodes with the same parent above them: the parents are the same node.
LEMMA OneParent ==
  ASSUME TypeInv, OneCopy, OneRoot, NEW p \in shown, NEW q \in shown, NEW n \in shown,
         Above(p, n), Above(q, n)
  PROVE  p = q
<1>1. IsNode(p) /\ IsNode(q)
  BY DEF TypeInv, NodesOK
<1>2. p.path = q.path /\ (IsRoot(p) \/ p.side = n.side) /\ (IsRoot(q) \/ q.side = n.side)
  BY DEF Above
<1>3. (IsRoot(p) <=> Len(p.path) = 1) /\ (IsRoot(q) <=> Len(q.path) = 1)
  BY <1>1 DEF IsNode
<1>4. CASE IsRoot(p)
  <2>1. IsRoot(q)
    BY <1>2, <1>3, <1>4
  <2> QED BY <1>4, <2>1 DEF OneRoot
<1>5. CASE ~IsRoot(p)
  <2>1. ~IsRoot(q)
    BY <1>2, <1>3, <1>5
  <2> QED BY <1>2, <1>5, <2>1 DEF OneCopy
<1> QED BY <1>4, <1>5

\* A node with the path that another one was loaded from, on its side, is the
\* one it hangs on.
LEMMA HangsOnFront ==
  ASSUME TypeInv, TreeInv, Clean, NEW n \in shown, ~IsRoot(n), NEW m \in shown, ~IsRoot(m),
         m.side = n.side, Front(m.path) = n.path
  PROVE  HopsTo(n, m)
<1>1. OneCopy /\ Hanging /\ OneRoot
  BY CleanTree DEF TreeInv
<1>2. IsNode(n) /\ IsNode(m) /\ m \in mapped
  BY DEF TypeInv, NodesOK
<1>3. Len(m.path) > 2
  BY <1>2, NodeParts
<1>4. PICK p \in shown : Above(p, m) /\ \E j \in joins : Connects(j, p, m)
  BY <1>1, <1>3 DEF Hanging, HasParent
<1>5. Above(n, m)
  BY DEF Above
<1>6. p = n
  BY <1>1, <1>4, <1>5, OneParent
<1> QED BY <1>2, <1>4, <1>6, ConnectedHops

\* Collapsing finds every node shown below n: the one it hangs on is n or is
\* below n too, and has a shorter path.
LEMMA DescendantsComplete ==
  ASSUME TypeInv, TreeInv, Clean, NEW n \in shown, ~IsRoot(n), NEW m \in shown, Under(m, n)
  PROVE  m \in Descendants(n)
<1> DEFINE missed == {x \in shown : Under(x, n) /\ x \notin Descendants(n)}
           T == {k \in Nat : \E x \in missed : Len(x.path) = k}
<1>1. OneCopy /\ Hanging /\ OneRoot
  BY CleanTree DEF TreeInv
<1>2. \A x \in shown : IsNode(x) /\ x \in mapped /\ Len(x.path) \in Nat
  BY NodeParts DEF TypeInv, NodesOK
<1>3. SUFFICES ASSUME missed # {} PROVE FALSE
  OBVIOUS
<1>4. PICK x \in missed : \A y \in missed : Len(x.path) <= Len(y.path)
  <2>1. T # {} /\ T \subseteq Nat
    BY <1>2, <1>3
  <2> HIDE DEF missed
  <2>2. PICK k \in T : \A i \in T : k <= i
    <3> HIDE DEF T
    <3> QED BY <2>1, LeastNumber
  <2>3. PICK x \in missed : Len(x.path) = k
    BY <2>2
  <2>4. missed \subseteq shown
    BY DEF missed
  <2>5. \A y \in missed : Len(y.path) \in T
    BY <1>2, <2>4
  <2> HIDE DEF T
  <2> QED BY <2>2, <2>3, <2>5
<1>5. x \in shown /\ Under(x, n) /\ x \notin Descendants(n)
  BY <1>4
<1>6. IsNode(x) /\ IsNode(n) /\ ~IsRoot(x) /\ x.side = n.side
  BY <1>2, <1>5 DEF Under, IsRoot
<1>7. n.path \in Seq(Objects) /\ x.path \in Seq(Objects) /\ x.path # <<>> /\ IsStrictPrefix(n.path, x.path)
  BY <1>5, <1>6 DEF IsNode, Under
<1>8. Len(n.path) >= 2 /\ Len(n.path) < Len(x.path) /\ Len(x.path) > 2
  <2>1. Len(n.path) >= 2
    BY <1>6, NodeParts
  <2>2. Len(n.path) < Len(x.path) /\ Len(n.path) \in Nat /\ Len(x.path) \in Nat
    BY <1>7, StrictPrefixShorter
  <2> QED BY <2>1, <2>2
<1>9. PICK p \in shown : Above(p, x) /\ \E j \in joins : Connects(j, p, x)
  BY <1>1, <1>5, <1>6, <1>8 DEF Hanging, HasParent
<1>10. p.path = Front(x.path) /\ Len(p.path) = Len(x.path) - 1 /\ Len(x.path) \in Nat
  BY <1>6, <1>9, NodeParts DEF Above
<1>11. ~IsRoot(p) /\ IsNode(p)
  <2>1. IsNode(p)
    BY <1>2, <1>9
  <2>2. Len(p.path) >= 2
    BY <1>8, <1>10
  <2> QED BY <2>1, <2>2, LongIsNotRoot
<1>12. p.side = n.side /\ p.side = x.side
  BY <1>6, <1>9, <1>11 DEF Above
<1>13. n.path = p.path \/ IsStrictPrefix(n.path, p.path)
  BY <1>7, <1>10, StrictPrefixOfFront
<1>14. p \in Descendants(n) \cup {n}
  <2>1. CASE n.path = p.path
    BY <1>1, <1>12, <2>1 DEF OneCopy
  <2>2. CASE IsStrictPrefix(n.path, p.path)
    <3>1. Under(p, n)
      BY <1>12, <2>2 DEF Under
    <3>2. ~(Len(x.path) <= Len(p.path))
      BY <1>10
    <3> QED BY <1>4, <3>1, <3>2
  <2> QED BY <1>13, <2>1, <2>2
<1>15. HopsTo(p, x)
  BY <1>2, <1>5, <1>9, <1>11, <1>12, ConnectedHops
<1> QED BY <1>5, <1>6, <1>14, <1>15, DescendantsClosed

LEMMA InitTree == Init => TreeInv
BY DEF Init, TreeInv, OneRoot, OneCopy, Hanging, Leaves, Growing

LEMMA EmptyTree ==
  ASSUME shown' = {}
  PROVE  TreeInv'
BY DEF TreeInv, OneRoot, OneCopy, Hanging, Leaves, Growing

LEMMA SameTree ==
  ASSUME TreeInv, UNCHANGED <<shown, joins, expansions>>,
         \A n \in shown : n \in expanded' <=> n \in expanded,
         \A w \in {"deleted", "late", "skipped"} : w \in ways' <=> w \in ways
  PROVE  TreeInv'
<1>1. (ways' \cap {"deleted", "late"} = {}) <=> (ways \cap {"deleted", "late"} = {})
  OBVIOUS
<1>2. OneRoot' <=> OneRoot
  BY DEF OneRoot
<1>3. OneCopy => OneCopy'
  BY DEF OneCopy
<1>4. Hanging => Hanging'
  BY DEF Hanging, HasParent
<1>5. Leaves => Leaves'
  BY DEF Leaves, NoChild
<1>6. Growing => Growing'
  BY DEF Growing, NoChild
<1> QED BY <1>1, <1>2, <1>3, <1>4, <1>5, <1>6 DEF TreeInv

LEMMA PaintTree ==
  ASSUME TypeInv, NEW i \in DOMAIN loads, Paint(i)
  PROVE  TreeInv'
<1> DEFINE l == loads[i]
           nodes == AnsweredNodes(l)
<1>1. /\ shown' = nodes /\ expansions' = Detached(TRUE)
      /\ joins' = ValidateConnections(AnsweredJoins(nodes), nodes)
      /\ skip => "skipped" \in ways'
  BY DEF Paint
<1>2. l \in Requested
  BY RestOK DEF TypeInv
<1>3. IsFiniteSet(Kept) /\ Loading' = Loading
  BY <1>1, KeptFinite, DetachedOK DEF TypeInv
<1>4. \A n \in nodes : /\ IsNode(n) /\ n \notin Loading
                       /\ ~IsRoot(n) => Len(n.path) = 2
  BY <1>2, <1>3, AnswerNode DEF Kept
<1>5. /\ \E r \in nodes : IsRoot(r)
      /\ \A m, n \in nodes : IsRoot(m) /\ IsRoot(n) => m = n
      /\ \A m, n \in nodes : m.path = n.path /\ m.side = n.side => m = n
  BY <1>2, <1>3, AnswerShape
<1>6. OneRoot' /\ OneCopy'
  BY <1>1, <1>5 DEF OneRoot, OneCopy
<1>7. Growing'
  <2>1. \A e \in expansions' : e.node \in Loading'
    BY DEF Loading
  <2> QED BY <1>1, <1>3, <1>4, <2>1 DEF Growing
<1>8. Leaves'
  <2> SUFFICES ASSUME NEW n \in nodes, ~IsRoot(n), NEW m \in nodes, ~IsRoot(m), Front(m.path) = n.path
               PROVE  FALSE
    BY <1>1 DEF Leaves, NoChild
  <2>1. Len(m.path) = 2 /\ Len(n.path) = 2 /\ Len(Front(m.path)) = Len(m.path) - 1
    BY <1>4, NodeParts
  <2> QED BY <2>1
<1>9. Hanging'
  <2> SUFFICES ASSUME NEW n \in nodes, ~IsRoot(n), Len(n.path) > 2 \/ "skipped" \notin ways'
               PROVE  HasParent(n)'
    BY <1>1 DEF Hanging
  <2>1. ~skip
    <3>1. Len(n.path) = 2
      BY <1>4
    <3>2. ~(Len(n.path) > 2)
      BY <3>1
    <3> QED BY <1>1, <3>2
  <2>2. PICK r \in nodes : IsRoot(r)
    BY <1>5
  <2>3. /\ IsFiniteSet(AnsweredJoins(nodes))
        /\ \A j \in AnsweredJoins(nodes) : \E a, b \in nodes : Above(a, b) /\ Connects(j, a, b)
        /\ Above(r, n) /\ \E j \in AnsweredJoins(nodes) : Connects(j, r, n)
    BY <1>2, <1>3, <2>1, <2>2, AnswerJoins
  <2> HIDE DEF nodes
  <2>4. PICK j \in AnsweredJoins(nodes) : Connects(j, r, n)
    BY <2>3
  <2>5. j \in ValidateConnections(AnsweredJoins(nodes), nodes)
    BY <2>2, <2>3, <2>4, Validated
  <2> QED BY <1>1, <2>2, <2>3, <2>4, <2>5 DEF HasParent
<1> QED BY <1>6, <1>7, <1>8, <1>9 DEF TreeInv

LEMMA CollapseRootNodeTree ==
  ASSUME TypeInv, TreeInv, NEW root \in shown, CollapseRootNode(root)
  PROVE  TreeInv'
<1>1. /\ shown' \subseteq shown /\ \A n \in shown' : IsRoot(n)
      /\ UNCHANGED <<expansions, ways>>
  BY DEF CollapseRootNode
<1>2. \A e \in expansions' : e.node \notin shown'
  BY <1>1, LoadingNodes DEF TypeInv, Loading
<1>3. OneRoot' /\ (OneCopy => OneCopy')
  BY <1>1 DEF TreeInv, OneRoot, OneCopy
<1>4. Hanging' /\ Leaves' /\ Growing'
  BY <1>1, <1>2 DEF Hanging, Leaves, Growing
<1> QED BY <1>1, <1>3, <1>4 DEF TreeInv

LEMMA ExpandNodeInstanceTree ==
  ASSUME TypeInv, TreeInv, NEW n, ExpandNodeInstance(n)
  PROVE  TreeInv'
<1> DEFINE d == [node |-> n, filter |-> typesFilter, nodesLive |-> TRUE, joinsLive |-> TRUE]
<1>1. /\ UNCHANGED <<shown, joins>> /\ expanded' = expanded \cup {n}
      /\ (ways' \cap {"deleted", "late"} = {}) <=> (ways \cap {"deleted", "late"} = {})
      /\ "skipped" \in ways' <=> "skipped" \in ways
      /\ expansions' = expansions \cup {d} /\ n \notin expanded /\ ~IsRoot(n)
  BY DEF ExpandNodeInstance
<1>2. d.node = n /\ d.nodesLive
  OBVIOUS
<1> HIDE DEF d
<1>3. OneRoot' /\ (OneCopy => OneCopy') /\ (Hanging => Hanging')
  BY <1>1 DEF TreeInv, OneRoot, OneCopy, Hanging, HasParent
<1>4. Leaves => Leaves'
  BY <1>1 DEF Leaves, NoChild
<1>5. Leaves /\ Growing => Growing'
  <2> SUFFICES ASSUME Leaves, Growing, NEW e \in expansions', e.node \in shown
               PROVE  e.nodesLive /\ e.node \in expanded' /\ NoChild(e.node)
    BY <1>1 DEF Growing, NoChild
  <2>1. CASE e = d
    BY <1>1, <1>2, <2>1 DEF Leaves
  <2>2. CASE e \in expansions
    BY <1>1, <2>2 DEF Growing
  <2> QED BY <1>1, <2>1, <2>2
<1> QED BY <1>1, <1>3, <1>4, <1>5 DEF TreeInv

LEMMA AttachTree ==
  ASSUME TypeInv, TreeInv, NEW e \in expansions, Attach(e)
  PROVE  TreeInv'
<1> DEFINE n == e.node
           new == NewOf(e)
<1>1. /\ shown' = shown \cup (IF e.nodesLive THEN new ELSE {})
      /\ mapped' = mapped \cup new
      /\ EndExpansion(e, joins \cup JoinsOf(e))
      /\ ways' = ways \cup (IF e.nodesLive /\ new # {} /\ (~e.joinsLive \/ n \notin shown)
                             THEN {"late"} ELSE {})
      /\ UNCHANGED <<loads, expanded>>
  BY AttachParts
<1>2. IsNode(n) /\ ~IsRoot(n) /\ (e.joinsLive => e.nodesLive)
  BY DEF TypeInv, ExpansionsOK, ExpansionsFit, IsExpansion
<1>3. \A m \in new : /\ IsNode(m) /\ ~IsRoot(m) /\ m \notin InUse /\ Above(n, m)
                     /\ m.side = n.side /\ Front(m.path) = n.path
                     /\ m = New(m.path, m.side, InUse)
  BY NewOfNode DEF TypeInv
<1>4. \A m \in shown : IsNode(m) /\ m \in mapped
  BY DEF TypeInv, NodesOK
<1>5. OneRoot'
  BY <1>1, <1>3 DEF TreeInv, OneRoot
<1>6. \A d \in expansions' : \E x \in expansions : /\ d.node = x.node /\ d.nodesLive = x.nodesLive
                                                   /\ x # e
  BY <1>1, EndExpansionOK DEF TypeInv
<1>7. \A x \in expansions : x # e => x.node # n
  BY DEF TypeInv, ExpansionsOK, ExpansionsFit
<1>8. joins \subseteq joins'
  <2>1. joins' = ValidateConnections(joins \cup JoinsOf(e), mapped')
    BY <1>1 DEF EndExpansion
  <2> QED BY <1>1, <2>1, JoinEnds DEF TypeInv, ValidateConnections
<1>9. SUFFICES ASSUME ways' \cap {"deleted", "late"} = {}
               PROVE  OneCopy' /\ Hanging' /\ Leaves' /\ Growing'
  BY <1>5 DEF TreeInv
<1>10. Clean /\ OneCopy /\ Hanging /\ Leaves /\ Growing
  BY <1>1, <1>9, CleanTree DEF Clean
<1>11. CASE shown' = shown
  <2>1. OneCopy'
    BY <1>10, <1>11 DEF OneCopy
  <2>2. Hanging'
    BY <1>1, <1>8, <1>10, <1>11 DEF Hanging, HasParent
  <2>3. Leaves'
    BY <1>1, <1>10, <1>11 DEF Leaves, NoChild
  <2>4. Growing'
    BY <1>1, <1>6, <1>10, <1>11 DEF Growing, NoChild
  <2> QED BY <2>1, <2>2, <2>3, <2>4
<1>12. CASE shown' # shown
  <2>1. e.nodesLive /\ new # {} /\ shown' = shown \cup new
    BY <1>1, <1>12
  <2>2. e.joinsLive /\ n \in shown
    BY <1>1, <1>9, <2>1
  <2>3. n \in expanded /\ NoChild(n)
    BY <1>10, <2>2 DEF Growing
  \* Nothing shown has the place of a new node, and none hangs below it.
  <2>4. \A m \in new, x \in shown : ~(x.path = m.path /\ x.side = m.side)
    <3> SUFFICES ASSUME NEW m \in new, NEW x \in shown, x.path = m.path, x.side = m.side PROVE FALSE
      OBVIOUS
    <3>1. ~IsRoot(x) /\ x.side = n.side /\ Front(x.path) = n.path
      BY <1>3 DEF IsRoot
    <3> QED BY <2>3, <3>1 DEF NoChild
  <2>5. \A m \in new, x \in shown : ~(~IsRoot(x) /\ x.side = m.side /\ Front(x.path) = m.path)
    <3> SUFFICES ASSUME NEW m \in new, NEW x \in shown, ~IsRoot(x), x.side = m.side,
                        Front(x.path) = m.path
                 PROVE  FALSE
      OBVIOUS
    <3>1. /\ Len(x.path) = Len(m.path) + 1 /\ Len(m.path) >= 2 /\ Len(m.path) \in Nat
      BY <1>3, <1>4, NodeParts
    <3>2. PICK p \in shown : Above(p, x)
      BY <1>10, <3>1 DEF Hanging, HasParent
    <3>3. p.path = m.path /\ IsNode(p)
      BY <1>4, <3>2 DEF Above
    <3>4. ~IsRoot(p)
      <4>1. Len(p.path) >= 2
        BY <3>1, <3>3
      <4> QED BY <3>3, <4>1, LongIsNotRoot
    <3>5. p.side = m.side
      BY <3>2, <3>4 DEF Above
    <3> QED BY <2>4, <3>3, <3>5
  <2>6. \A m, x \in new : ~(Front(x.path) = m.path)
    <3> SUFFICES ASSUME NEW m \in new, NEW x \in new, Front(x.path) = m.path PROVE FALSE
      OBVIOUS
    <3>1. /\ Len(x.path) = Len(m.path) + 1 /\ Len(m.path) \in Nat /\ Len(n.path) \in Nat
          /\ Len(x.path) = Len(n.path) + 1 /\ Len(m.path) = Len(n.path) + 1
      <4>1. IsNode(x) /\ IsNode(m) /\ Front(x.path) = n.path /\ Front(m.path) = n.path
        BY <1>3
      <4>2. /\ Len(Front(x.path)) = Len(x.path) - 1 /\ Len(Front(m.path)) = Len(m.path) - 1
            /\ Len(x.path) \in Nat /\ Len(m.path) \in Nat /\ Len(n.path) \in Nat
        BY <1>2, <4>1, NodeParts
      <4> QED BY <4>1, <4>2
    <3> QED BY <3>1
  <2>7. \A x \in shown : x.side = n.side /\ x.path = n.path => x = n
    BY <1>10, <2>2 DEF OneCopy
  \* A node shown before gets no child, but for n.
  <2>8. \A x \in shown : x # n /\ NoChild(x) => NoChild(x)'
    <3> SUFFICES ASSUME NEW x \in shown, x # n, NoChild(x), NEW m \in new,
                        m.side = x.side, Front(m.path) = x.path
                 PROVE  FALSE
      BY <2>1 DEF NoChild
    <3>1. x.side = n.side /\ x.path = n.path
      BY <1>3
    <3> QED BY <2>7, <3>1
  <2>9. OneCopy'
    <3>1. \A m, x \in new : x.path = m.path /\ x.side = m.side => x = m
      BY <1>3
    <3> QED BY <1>10, <2>1, <2>4, <3>1 DEF OneCopy
  <2>10. Hanging'
    <3> SUFFICES ASSUME NEW m \in shown', ~IsRoot(m), Len(m.path) > 2 \/ "skipped" \notin ways'
                 PROVE  HasParent(m)'
      BY DEF Hanging
    <3>1. CASE m \in shown
      <4>1. HasParent(m)
        BY <1>1, <1>10, <3>1 DEF Hanging
      <4> QED BY <1>8, <2>1, <4>1 DEF HasParent
    <3>2. CASE m \in new
      <4>1. PICK j \in JoinsOf(e) : Connects(j, n, m)
        BY <2>2, <3>2, JoinsOfShape DEF TypeInv
      <4>2. n \in mapped' /\ m \in mapped' /\ n \in shown'
        BY <1>1, <1>4, <2>1, <2>2, <3>2
      <4>3. j \in joins'
        <5>1. joins' = ValidateConnections(joins \cup JoinsOf(e), mapped')
          BY <1>1 DEF EndExpansion
        <5>2. j.up \in mapped' /\ j.down \in mapped'
          BY <4>1, <4>2 DEF Connects
        <5> QED BY <5>1, <5>2 DEF ValidateConnections
      <4>4. Above(n, m)
        BY <1>3, <3>2
      <4> QED BY <4>1, <4>2, <4>3, <4>4 DEF HasParent
    <3> QED BY <2>1, <3>1, <3>2
  <2>11. Leaves'
    <3> SUFFICES ASSUME NEW x \in shown', x \notin expanded, ~IsRoot(x)
                 PROVE  NoChild(x)'
      BY <1>1 DEF Leaves
    <3>1. CASE x \in shown
      <4>1. NoChild(x) /\ x # n
        BY <1>10, <2>3, <3>1 DEF Leaves
      <4> QED BY <2>8, <3>1, <4>1
    <3>2. CASE x \in new
      BY <2>1, <2>5, <2>6, <3>2 DEF NoChild
    <3> QED BY <2>1, <3>1, <3>2
  <2>12. Growing'
    <3> SUFFICES ASSUME NEW d \in expansions', d.node \in shown'
                 PROVE  d.nodesLive /\ d.node \in expanded /\ NoChild(d.node)'
      BY <1>1 DEF Growing, NoChild
    <3>1. PICK x \in expansions : d.node = x.node /\ d.nodesLive = x.nodesLive /\ x # e
      BY <1>6
    <3>2. x.node # n /\ x.node \in InUse
      BY <1>7, <3>1 DEF InUse, Kept, Loading
    <3>3. x.node \in shown
      BY <1>3, <2>1, <3>1, <3>2
    <3>4. x.nodesLive /\ x.node \in expanded /\ NoChild(x.node)
      BY <1>10, <3>3 DEF Growing
    <3> QED BY <2>8, <3>1, <3>2, <3>3, <3>4
  <2> QED BY <2>9, <2>10, <2>11, <2>12
<1> QED BY <1>11, <1>12

LEMMA ExpansionFailsTree ==
  ASSUME TypeInv, TreeInv, NEW e \in expansions, ExpansionFails(e)
  PROVE  TreeInv'
<1>1. /\ UNCHANGED <<shown, mapped, loads, ways>> /\ expanded' = expanded \ {e.node}
      /\ EndExpansion(e, joins)
  BY DEF ExpansionFails
<1>2. joins' = joins
  <2>1. joins' = ValidateConnections(joins, mapped)
    BY <1>1 DEF EndExpansion
  <2> QED BY <2>1, JoinEnds DEF TypeInv, ValidateConnections
<1>3. \A d \in expansions' : \E x \in expansions : /\ d.node = x.node /\ d.nodesLive = x.nodesLive
                                                   /\ x # e
  BY <1>1, EndExpansionOK DEF TypeInv
<1>4. \A x \in expansions : x # e => x.node # e.node
  BY DEF TypeInv, ExpansionsOK, ExpansionsFit
<1>5. OneRoot' /\ (OneCopy => OneCopy') /\ (Hanging => Hanging')
  BY <1>1, <1>2 DEF TreeInv, OneRoot, OneCopy, Hanging, HasParent
<1>6. Leaves /\ Growing => Leaves'
  BY <1>1 DEF Leaves, Growing, NoChild
<1>7. Growing => Growing'
  BY <1>1, <1>3, <1>4 DEF Growing, NoChild
<1> QED BY <1>1, <1>5, <1>6, <1>7 DEF TreeInv

LEMMA CollapseNodeInstanceTree ==
  ASSUME TypeInv, TreeInv, NEW n, IsNode(n), CollapseNodeInstance(n)
  PROVE  TreeInv'
<1> DEFINE victims == Descendants(n)
<1>1. /\ n \notin Loading /\ ~IsRoot(n)
      /\ shown' = shown \ victims /\ joins' = {j \in joins : ~Touches(j, victims)}
      /\ expanded \ (victims \cup {n}) \subseteq expanded' /\ UNCHANGED <<expansions, ways>>
  BY DEF CollapseNodeInstance, MayCollapse
<1>2. /\ \A m \in victims : IsNode(m) /\ ~IsRoot(m) /\ m.side = n.side
      /\ \A p \in victims \cup {n} : \A m : HopsTo(p, m) => m \in victims
  BY <1>1, DescendantsClosed
<1>3. \A m \in shown : IsNode(m) /\ m \in mapped
  BY DEF TypeInv, NodesOK
<1>4. SUFFICES ASSUME Clean PROVE TreeInv'
  BY <1>1 DEF TreeInv, OneRoot, Clean
<1>5. OneRoot /\ OneCopy /\ Hanging /\ Leaves /\ Growing
  BY <1>4, CleanTree DEF TreeInv
<1>6. \A m \in shown : HopsTo(n, m) => m \in victims
  BY <1>2
<1>7. n \in shown => NoChild(n)'
  <2> SUFFICES ASSUME n \in shown, NEW m \in shown', ~IsRoot(m), m.side = n.side, Front(m.path) = n.path
               PROVE  FALSE
    BY DEF NoChild
  <2> QED BY <1>1, <1>4, <1>6, HangsOnFront
<1> HIDE DEF victims
<1>8. OneRoot' /\ OneCopy'
  BY <1>1, <1>5 DEF OneRoot, OneCopy
<1>9. \A m : NoChild(m) => NoChild(m)'
  BY <1>1 DEF NoChild
<1>10. Leaves'
  <2> SUFFICES ASSUME NEW m \in shown', m \notin expanded', ~IsRoot(m) PROVE NoChild(m)'
    BY DEF Leaves
  <2>1. CASE m = n
    BY <1>1, <1>7, <2>1
  <2>2. CASE m # n
    BY <1>1, <1>5, <1>9, <2>2 DEF Leaves
  <2> QED BY <2>1, <2>2
<1>11. Growing'
  <2> SUFFICES ASSUME NEW e \in expansions, e.node \in shown'
               PROVE  e.nodesLive /\ e.node \in expanded' /\ NoChild(e.node)'
    BY <1>1 DEF Growing
  <2>1. e.node # n /\ e.node \in shown /\ e.node \notin victims
    BY <1>1 DEF Loading
  <2> QED BY <1>1, <1>5, <1>9, <2>1 DEF Growing
<1>12. Hanging'
  <2> SUFFICES ASSUME NEW m \in shown', ~IsRoot(m), Len(m.path) > 2 \/ "skipped" \notin ways
               PROVE  HasParent(m)'
    BY <1>1 DEF Hanging
  <2>1. m \in shown /\ m \notin victims
    BY <1>1
  <2>2. PICK p \in shown : Above(p, m) /\ \E j \in joins : Connects(j, p, m)
    BY <1>5, <2>1 DEF Hanging, HasParent
  <2>3. PICK j \in joins : Connects(j, p, m)
    BY <2>2
  <2>4. p \notin victims
    <3> SUFFICES ASSUME p \in victims PROVE FALSE
      OBVIOUS
    <3>1. IsNode(p) /\ ~IsRoot(p)
      BY <1>2
    <3>2. m.side = p.side
      BY <2>2, <3>1 DEF Above
    <3>3. HopsTo(p, m)
      BY <1>3, <2>1, <2>3, <3>1, <3>2, ConnectedHops
    <3> QED BY <1>2, <2>1, <3>3
  <2>5. ~Touches(j, victims)
    BY <2>1, <2>3, <2>4 DEF Touches, Connects
  <2>6. j \in joins' /\ p \in shown'
    BY <1>1, <2>4, <2>5
  <2> QED BY <2>2, <2>3, <2>6 DEF HasParent
<1> QED BY <1>8, <1>10, <1>11, <1>12 DEF TreeInv

LEMMA DeleteSelectedNodesTree ==
  ASSUME TreeInv, NEW ids \in SUBSET Objects, DeleteSelectedNodes(ids)
  PROVE  TreeInv'
<1>1. shown' \subseteq shown /\ "deleted" \in ways'
  BY DEF DeleteSelectedNodes
<1> QED BY <1>1 DEF TreeInv, OneRoot

LEMMA TreeStep == TypeInv /\ SelectedOK /\ TreeInv /\ [Next]_vars => TreeInv'
<1> SUFFICES ASSUME TypeInv, SelectedOK, TreeInv, [Next]_vars PROVE TreeInv'
  OBVIOUS
<1>1. CASE Answers
  <2>1. ASSUME NEW i \in DOMAIN loads, LoadFails(i) PROVE TreeInv'
    <3>1. /\ UNCHANGED <<shown, joins, expanded, expansions>>
          /\ \A w \in {"deleted", "late", "skipped"} : w \in ways' <=> w \in ways
      BY <2>1 DEF LoadFails, graph
    <3> QED BY <3>1, SameTree
  <2> QED BY <1>1, <2>1, PaintTree, AttachTree, ExpansionFailsTree DEF Answers
<1>2. CASE NavigationEnds
  BY <1>2, EmptyTree DEF NavigationEnds, EmptyGraph
<1>5. CASE NavigationFails
  <2>1. /\ UNCHANGED <<shown, joins, expanded, expansions>>
        /\ \A w \in {"deleted", "late", "skipped"} : w \in ways' <=> w \in ways
    BY <1>5 DEF NavigationFails, graph
  <2> QED BY <2>1, SameTree
<1>3. CASE Clicks
  <2>1. ASSUME NEW f \in Filters, ApplyFilters(f) PROVE TreeInv'
    BY <2>1, EmptyTree DEF ApplyFilters, EmptyGraph
  <2>2. ASSUME NEW f \in Filters, EditFilterForm(f) PROVE TreeInv'
    <3>1. /\ UNCHANGED <<shown, joins, expanded, expansions>>
          /\ \A w \in {"deleted", "late", "skipped"} : w \in ways' <=> w \in ways
      BY <2>2 DEF EditFilterForm, graph
    <3> QED BY <3>1, SameTree
  <2>3. ASSUME NEW n, Select(n) \/ SelectAsRootNode(n) PROVE TreeInv'
    <3>1. /\ UNCHANGED <<shown, joins, expansions>>
          /\ \A m \in shown : m \in expanded' <=> m \in expanded
          /\ \A w \in {"deleted", "late", "skipped"} : w \in ways' <=> w \in ways
      BY <2>3 DEF Select, SelectAsRootNode, SelectedIs
    <3> QED BY <3>1, SameTree
  <2>4. ASSUME NEW n \in shown, ExpandRootNode(n) PROVE TreeInv'
    BY <2>4, EmptyTree DEF ExpandRootNode, EmptyGraph
  <2>5. ASSUME NEW id \in Objects, OpenSelectedObject(id) PROVE TreeInv'
    <3>1. /\ UNCHANGED <<shown, joins, expanded, expansions>>
          /\ \A w \in {"deleted", "late", "skipped"} : w \in ways' <=> w \in ways
      BY <2>5 DEF OpenSelectedObject, graph
    <3> QED BY <3>1, SameTree
  <2> QED BY <1>3, <2>1, <2>2, <2>3, <2>4, <2>5, ReachedNodes, CollapseRootNodeTree, ExpandNodeInstanceTree,
          CollapseNodeInstanceTree, DeleteSelectedNodesTree DEF Clicks
<1>4. CASE UNCHANGED vars
  <2>1. UNCHANGED <<shown, joins, expanded, expansions, ways>>
    BY <1>4 DEF vars, graph
  <2> QED BY <2>1, SameTree
<1> QED BY <1>1, <1>2, <1>3, <1>4, <1>5 DEF Next

LEMMA TreeInvariant == Spec => []TreeInv
<1> QED BY TypeInvariant, InitTree, TreeStep, PTL DEF Spec

\* There is one root, every other node shown hangs on the node it was loaded
\* from and on no other, and no object is twice below one node, but after the
\* deletions, skipped connections and late answers named (mergeNodes, mergeEdges,
\* fetchAndAttach, removeNodeInstancesByUID).
THEOREM ShownIsTreeAlways == Spec => []ShownIsTree
<1>1. TypeInv /\ TreeInv => ShownIsTree
  <2> SUFFICES ASSUME TypeInv, TreeInv, ways \cap {"deleted", "skipped", "late"} = {}
               PROVE  /\ \A n \in shown : ~IsRoot(n) =>
                           \E m \in HangsOn(n) : HangsOn(n) = {m} /\ m.path = Front(n.path)
                      /\ \A m, n \in shown :
                           (IsRoot(m) /\ IsRoot(n)) \/ (m.path = n.path /\ m.side = n.side) => m = n
    BY DEF ShownIsTree
  <2>1. OneRoot /\ OneCopy /\ Hanging /\ "skipped" \notin ways
    BY DEF TreeInv
  <2>2. \A n \in shown : IsNode(n) /\ Len(n.path) \in Nat /\ Len(Front(n.path)) = Len(n.path) - 1
    BY NodeParts DEF TypeInv, NodesOK
  <2>3. ASSUME NEW n \in shown, ~IsRoot(n)
        PROVE  \E m \in HangsOn(n) : HangsOn(n) = {m} /\ m.path = Front(n.path)
    <3>1. PICK m \in shown : Above(m, n) /\ \E j \in joins : Connects(j, m, n)
      BY <2>1, <2>3 DEF Hanging, HasParent
    <3>2. m.path = Front(n.path) /\ Len(m.path) < Len(n.path)
      BY <2>2, <3>1 DEF Above
    <3>3. m \in HangsOn(n)
      <4>1. PICK j \in joins : Connects(j, m, n)
        BY <3>1
      <4>2. {j.up, j.down} = {m, n}
        BY <4>1 DEF Connects
      <4> QED BY <3>2, <4>2 DEF HangsOn
    <3>4. ASSUME NEW x \in HangsOn(n) PROVE x = m
      <4>1. x \in shown /\ Len(x.path) < Len(n.path) /\ \E j \in joins : {j.up, j.down} = {x, n}
        BY DEF HangsOn
      <4>2. PICK j \in joins : {j.up, j.down} = {x, n}
        BY <4>1
      <4>3. PICK a \in mapped, b \in mapped : Above(a, b) /\ Connects(j, a, b)
        BY DEF TypeInv, JoinsOK
      <4>4. Len(a.path) < Len(b.path) /\ Len(a.path) \in Nat /\ Len(b.path) \in Nat
        <5>1. IsNode(a) /\ IsNode(b) /\ a.path = Front(b.path)
          BY <4>3 DEF TypeInv, NodesOK, Above
        <5> QED BY <5>1, NodeParts
      <4>5. {a, b} = {x, n}
        BY <4>2, <4>3 DEF Connects
      <4>6. a = x /\ b = n
        <5>1. \/ a = x /\ b = n
              \/ a = n /\ b = x
          BY <2>3, <3>2, <4>1, <4>4, <4>5
        <5>2. ~(a = n /\ b = x)
          BY <4>1, <4>4
        <5> QED BY <5>1, <5>2
      <4> QED BY <2>1, <3>1, <4>1, <4>3, <4>6, OneParent
    <3> QED BY <3>2, <3>3, <3>4
  <2> QED BY <2>1, <2>3 DEF OneRoot, OneCopy
<1> QED BY <1>1, TypeInvariant, TreeInvariant, PTL

\* Collapsing a node takes exactly the nodes shown that were loaded from it or
\* from one of those (getDescendantInstancesFromSpecificNode).
THEOREM CollapseTakesWhatHangsBelow == Spec => CollapseIsExact
<1>1. TypeInv /\ TreeInv =>
        (ways \cap {"deleted", "late"} = {} => \A n \in shown : CollapseNodeInstance(n) =>
           shown' = {m \in shown : ~Under(m, n)})
  <2> SUFFICES ASSUME TypeInv, TreeInv, ways \cap {"deleted", "late"} = {}, NEW n \in shown,
                      CollapseNodeInstance(n)
               PROVE  shown' = {m \in shown : ~Under(m, n)}
    OBVIOUS
  <2>1. shown' = shown \ Descendants(n) /\ ~IsRoot(n) /\ IsNode(n) /\ Clean
    BY DEF CollapseNodeInstance, MayCollapse, Clean, TypeInv, NodesOK
  <2>2. \A m \in Descendants(n) : Under(m, n)
    BY <2>1, DescendantsClosed
  <2>3. \A m \in shown : Under(m, n) => m \in Descendants(n)
    BY <2>1, DescendantsComplete
  <2> QED BY <2>1, <2>2, <2>3
<1> QED BY <1>1, TypeInvariant, TreeInvariant, PTL DEF CollapseIsExact
=============================================================================

-------------------------- MODULE PublicIdsProofs --------------------------
(***************************************************************************)
(* Proofs about PublicIds for any set of clients, any ids callers may name *)
(* and any retry limit. IdInv is the inductive invariant; the bounds MaxId *)
(* and MaxBlock play no part in it.                                        *)
(***************************************************************************)
EXTENDS PublicIds, FiniteSetTheorems, TLAPS

\* The reserved block lies above the counter, within the new one.
LEMMA ReservedFacts ==
  ASSUME counter \in Nat, NEW n \in Nat
  PROVE  /\ Reserved(n) \subseteq Ids
         /\ \A i \in Reserved(n) : i > counter /\ i \in 1..(counter + n)
  BY DEF Reserved, Ids

\* One step of a reservation keeps the invariant, whoever asks and why.
LEMMA ReserveKeepsIdInv ==
  ASSUME IdInv, NEW c \in Clients, NEW n \in Nat,
         NEW label \in {"put", "putMany"},
         pc[c] \in {"idle", "failed", "retry"}, Reserve(c, n, label),
         wants' \in [Clients -> Names \cup {NoName}], nameHits' \in [Clients -> Nat]
  PROVE  IdInv'
<1> USE DEF IdInv, TypeOK
<1>1. ~callers[c]
  BY DEF CallersOnlyPut
<1>2. /\ counter' = counter + n
      /\ pc' = [pc EXCEPT ![c] = label]
      /\ todo' = [todo EXCEPT ![c] = Reserved(n)]
      /\ UNCHANGED <<stored, named, callers, attempts, callerStored>>
  BY DEF Reserve, GoTo
<1>3. TypeOK'
  BY <1>2, ReservedFacts
<1>4. /\ Held(c)' = Reserved(n)
      /\ Held(c) = {}
      /\ \A d \in Clients : d # c => Held(d)' = Held(d)
  BY <1>1, <1>2 DEF Held
<1>5. \A d \in Clients : \A i \in Held(d) : i <= counter /\ i \in Nat
  BY DEF HeldCounted
<1>6. ReservedExclusive'
  <2> SUFFICES ASSUME NEW d \in Clients, NEW e \in Clients, d # e,
                      NEW i \in Held(d)', i \in Held(e)'
               PROVE  FALSE
    BY DEF ReservedExclusive
  <2>1. CASE d # c /\ e # c
    BY <2>1, <1>4 DEF ReservedExclusive
  <2>2. CASE d = c
    BY <2>2, <1>4, <1>5, ReservedFacts
  <2>3. CASE e = c
    BY <2>3, <1>4, <1>5, ReservedFacts
  <2> QED BY <2>1, <2>2, <2>3
<1>7. CounterCoversStored'
  BY <1>2 DEF CounterCoversStored, Ids
<1>8. CollisionsComeFromCallers'
  <2> SUFFICES ASSUME NEW d \in Clients, NEW i \in Held(d)', i \in stored'
               PROVE  i \in callerStored'
    BY DEF CollisionsComeFromCallers
  <2>1. CASE d = c
    BY <2>1, <1>2, <1>4, ReservedFacts DEF CounterCoversStored
  <2>2. CASE d # c
    BY <2>2, <1>2, <1>4 DEF CollisionsComeFromCallers
  <2> QED BY <2>1, <2>2
<1>9. HeldCounted'
  <2> SUFFICES ASSUME NEW d \in Clients, NEW i \in Held(d)'
               PROVE  i \in 1..counter'
    BY DEF HeldCounted
  <2>1. CASE d = c
    BY <2>1, <1>2, <1>4, ReservedFacts
  <2>2. CASE d # c
    BY <2>2, <1>2, <1>4 DEF HeldCounted
  <2> QED BY <2>1, <2>2
<1>10. CallersOnlyPut'
  BY <1>1, <1>2 DEF CallersOnlyPut
<1>11. UpdatesKnown'
  <2> SUFFICES ASSUME NEW d \in Clients, pc'[d] = "update", NEW i \in todo'[d]
               PROVE  /\ i <= counter' \/ i \in callerStored'
                      /\ \A e \in Clients : i \in Held(e)' => i \in callerStored'
    BY DEF UpdatesKnown
  <2>1. d # c /\ pc[d] = "update" /\ i \in todo[d] /\ i \in Ids
    BY <1>2
  <2>2. i <= counter \/ i \in callerStored
    BY <2>1 DEF UpdatesKnown
  <2>3. ASSUME NEW e \in Clients, i \in Held(e)'
        PROVE  i \in callerStored
    <3>1. CASE e = c
      BY <3>1, <2>2, <2>3, <1>4, ReservedFacts
    <3>2. CASE e # c
      BY <3>2, <2>1, <2>3, <1>4 DEF UpdatesKnown
    <3> QED BY <3>1, <3>2
  <2> QED BY <2>1, <2>2, <2>3, <1>2 DEF Ids
<1> QED BY <1>3, <1>6, <1>7, <1>8, <1>9, <1>10, <1>11

\* Every other step: no request gains ids in hand, the counter stays, and a
\* document that appears is accounted for and in nobody's hand.
LEMMA ShrinkKeepsIdInv ==
  ASSUME IdInv, TypeOK', CallersOnlyPut', counter' = counter,
         callerStored \subseteq callerStored',
         \A d \in Clients : Held(d)' \subseteq Held(d),
         \A i \in stored' \ stored :
            /\ i <= counter \/ i \in callerStored'
            /\ \A d \in Clients : i \in Held(d)' => i \in callerStored',
         \A d \in Clients : pc'[d] = "update" =>
            todo'[d] \subseteq stored \/ (pc[d] = "update" /\ todo'[d] \subseteq todo[d])
  PROVE  IdInv'
<1> USE DEF IdInv
<1>1. ReservedExclusive'
  BY DEF ReservedExclusive
<1>2. CounterCoversStored'
  BY DEF CounterCoversStored
<1>3. CollisionsComeFromCallers'
  BY DEF CollisionsComeFromCallers
<1>4. HeldCounted'
  BY DEF HeldCounted
<1>5. UpdatesKnown'
  <2> SUFFICES ASSUME NEW d \in Clients, pc'[d] = "update", NEW i \in todo'[d]
               PROVE  /\ i <= counter \/ i \in callerStored'
                      /\ \A e \in Clients : i \in Held(e)' => i \in callerStored'
    BY DEF UpdatesKnown
  <2>1. CASE i \in stored
    BY <2>1 DEF CounterCoversStored, CollisionsComeFromCallers
  <2>2. CASE pc[d] = "update" /\ i \in todo[d]
    BY <2>2 DEF UpdatesKnown
  <2> QED BY <2>1, <2>2
<1> QED BY <1>1, <1>2, <1>3, <1>4, <1>5

LEMMA FinishFacts ==
  ASSUME TypeOK, CallersOnlyPut, NEW c \in Clients,
         NEW answer \in {"idle", "failed"}, Finish(c, answer)
  PROVE  /\ pc' \in [Clients -> {"idle", "retry", "put", "putMany", "update", "failed"}]
         /\ todo' \in [Clients -> SUBSET Ids]
         /\ wants' \in [Clients -> Names \cup {NoName}]
         /\ callers' \in [Clients -> BOOLEAN]
         /\ attempts' \in [Clients -> Nat]
         /\ CallersOnlyPut'
         /\ Held(c)' = {}
         /\ \A d \in Clients : d # c => Held(d)' = Held(d)
         /\ \A d \in Clients : pc'[d] = "update" => pc[d] = "update" /\ todo'[d] = todo[d]
  BY DEF TypeOK, Finish, CallersOnlyPut, Held

LEMMA AnsweredFacts ==
  ASSUME TypeOK, NEW c \in Clients, Answered(c)
  PROVE  /\ Finish(c, "idle")
         /\ nameHits' \in [Clients -> Nat]
         /\ nameHits'[c] = 0
         /\ \A d \in Clients : d # c => nameHits'[d] = nameHits[d]
  BY DEF TypeOK, Answered

LEMMA NamedFacts ==
  ASSUME TypeOK, NEW c \in Clients, NEW name \in Names \cup {NoName}, Named(c, name)
  PROVE  /\ wants' \in [Clients -> Names \cup {NoName}]
         /\ nameHits' \in [Clients -> Nat]
         /\ nameHits'[c] = 0
         /\ \A d \in Clients : d # c => nameHits'[d] = nameHits[d]
  BY DEF TypeOK, Named

\* A document that is written stands in the index under its own name only.
LEMMA IndexedFacts ==
  ASSUME TypeOK, NEW c \in Clients
  PROVE  Indexed(c) \in [Names -> SUBSET (stored \cup todo[c])]
  BY DEF TypeOK, Indexed

LEMMA PutKeepsIdInv ==
  ASSUME IdInv, NEW c \in Clients, Put(c)
  PROVE  IdInv'
<1> USE DEF IdInv
<1>1. /\ pc[c] = "put"
      /\ stored' = stored \cup todo[c]
      /\ named' = Indexed(c)
      /\ callerStored' = IF callers[c] THEN callerStored \cup todo[c] ELSE callerStored
      /\ Finish(c, "idle") /\ nameHits' \in [Clients -> Nat]
      /\ counter' = counter
  BY AnsweredFacts DEF Put
<1>2. TypeOK' /\ CallersOnlyPut'
  BY <1>1, FinishFacts, IndexedFacts DEF TypeOK
<1>3. callerStored \subseteq callerStored'
  BY <1>1
<1>4. ASSUME NEW i \in stored' \ stored
      PROVE  /\ i <= counter \/ i \in callerStored'
             /\ \A d \in Clients : i \in Held(d)' => i \in callerStored'
  <2>1. CASE callers[c]
    BY <2>1, <1>1
  <2>2. CASE ~callers[c]
    <3>1. i \in Held(c)
      BY <1>1, <2>2 DEF Held
    <3>2. \A d \in Clients : i \notin Held(d)'
      BY <1>1, <3>1, FinishFacts DEF ReservedExclusive
    <3> QED BY <3>1, <3>2 DEF HeldCounted
  <2> QED BY <2>1, <2>2
<1> QED BY <1>1, <1>2, <1>3, <1>4, FinishFacts, ShrinkKeepsIdInv

LEMMA PutManyKeepsIdInv ==
  ASSUME IdInv, NEW c \in Clients, NEW i \in todo[c], PutMany(c, i)
  PROVE  IdInv'
<1> USE DEF IdInv
<1>1. /\ pc[c] = "putMany" /\ ~callers[c]
      /\ stored' = stored \cup {i}
      /\ UNCHANGED <<named, counter, callerStored>>
  BY DEF PutMany, CallersOnlyPut
<1>2. Held(c) = todo[c] /\ i \in Held(c)
  BY <1>1 DEF Held
<1>3. /\ TypeOK' /\ CallersOnlyPut'
      /\ Held(c)' \subseteq Held(c) \ {i}
      /\ \A d \in Clients : d # c => Held(d)' = Held(d)
      /\ \A d \in Clients : pc'[d] = "update" => pc[d] = "update" /\ todo'[d] = todo[d]
  <2>1. CASE todo[c] = {i}
    BY <2>1, <1>1, FinishFacts, AnsweredFacts DEF PutMany, TypeOK
  <2>2. CASE todo[c] # {i}
    <3>1. /\ pc' = [pc EXCEPT ![c] = "putMany"]
          /\ todo' = [todo EXCEPT ![c] = todo[c] \ {i}]
          /\ UNCHANGED <<wants, callers, attempts, nameHits>>
      BY <2>2 DEF PutMany, GoTo
    <3> QED BY <3>1, <1>1, <1>2 DEF TypeOK, CallersOnlyPut, Held
  <2> QED BY <2>1, <2>2
<1>4. \A d \in Clients : i \notin Held(d)'
  BY <1>2, <1>3 DEF ReservedExclusive
<1>5. i <= counter
  BY <1>2 DEF HeldCounted
<1> QED BY <1>1, <1>3, <1>4, <1>5, ShrinkKeepsIdInv

LEMMA PutDuplicateKeepsIdInv ==
  ASSUME IdInv, NEW c \in Clients, PutDuplicate(c)
  PROVE  IdInv'
<1> USE DEF IdInv
<1>1. /\ UNCHANGED <<stored, named, counter, callerStored>>
      /\ nameHits' \in [Clients -> Nat]
  BY DEF PutDuplicate, CountNameHit, TypeOK
<1>2. /\ TypeOK' /\ CallersOnlyPut'
      /\ \A d \in Clients : Held(d)' \subseteq Held(d)
      /\ \A d \in Clients : pc'[d] = "update" => pc[d] = "update" /\ todo'[d] = todo[d]
  <2>1. CASE Finish(c, "failed")
    BY <2>1, <1>1, FinishFacts DEF TypeOK
  <2>2. CASE GoTo(c, "retry", {}) /\ callers' = [callers EXCEPT ![c] = FALSE]
                                 /\ attempts' = [attempts EXCEPT ![c] = @ + 1]
                                 /\ wants' = wants
    <3>1. /\ pc' = [pc EXCEPT ![c] = "retry"]
          /\ todo' = [todo EXCEPT ![c] = {}]
      BY <2>2 DEF GoTo
    <3> QED BY <1>1, <2>2, <3>1 DEF TypeOK, CallersOnlyPut, Held
  <2> QED BY <2>1, <2>2 DEF PutDuplicate
<1> QED BY <1>1, <1>2, ShrinkKeepsIdInv

LEMMA InsertGivenKeepsIdInv ==
  ASSUME IdInv, NEW c \in Clients, NEW i \in CallerIds,
         NEW name \in Names \cup {NoName}, InsertGiven(c, i, name)
  PROVE  IdInv'
<1> USE DEF IdInv
<1>1. /\ pc' = [pc EXCEPT ![c] = "put"]
      /\ todo' = [todo EXCEPT ![c] = {i}]
      /\ callers' = [callers EXCEPT ![c] = TRUE]
      /\ UNCHANGED <<stored, named, counter, attempts, callerStored>>
      /\ Named(c, name)
  BY DEF InsertGiven, GoTo
<1>2. i \in Ids
  BY CallerIdsAssumption DEF Ids
<1>3. TypeOK' /\ CallersOnlyPut'
  BY <1>1, <1>2, NamedFacts DEF TypeOK, CallersOnlyPut
<1>4. \A d \in Clients : Held(d)' \subseteq Held(d)
  BY <1>1 DEF Held, TypeOK
<1> QED BY <1>1, <1>3, <1>4, ShrinkKeepsIdInv DEF TypeOK

LEMMA UpdateKeepsIdInv ==
  ASSUME IdInv, NEW c \in Clients, Update(c)
  PROVE  IdInv'
<1> USE DEF IdInv
<1>1. /\ pc[c] = "update"
      /\ \/ stored' = stored \cup todo[c] /\ named' = Indexed(c)
         \/ UNCHANGED <<stored, named>>
      /\ Finish(c, "idle") /\ nameHits' \in [Clients -> Nat]
      /\ UNCHANGED <<counter, callerStored>>
  BY AnsweredFacts DEF Update
<1>2. TypeOK' /\ CallersOnlyPut'
  BY <1>1, FinishFacts, IndexedFacts DEF TypeOK
<1>3. \A d \in Clients : Held(d)' \subseteq Held(d)
  BY <1>1, FinishFacts
<1>4. \A i \in stored' \ stored :
         /\ i <= counter \/ i \in callerStored'
         /\ \A d \in Clients : i \in Held(d)' => i \in callerStored'
  BY <1>1, <1>3 DEF UpdatesKnown
<1> QED BY <1>1, <1>2, <1>3, <1>4, FinishFacts, ShrinkKeepsIdInv

\* The two steps that only read: a request reads a document it will update;
\* a worker is killed.
LEMMA ReadAndCrashKeepIdInv ==
  ASSUME IdInv, NEW c \in Clients,
         \/ \E i \in stored, name \in Names \cup {NoName} : ReadForUpdate(c, i, name)
         \/ Crash(c)
  PROVE  IdInv'
<1> USE DEF IdInv
<1>1. CASE Crash(c)
  <2>1. /\ Finish(c, "idle") /\ nameHits' \in [Clients -> Nat]
        /\ UNCHANGED <<stored, named, counter, callerStored>>
    BY <1>1, AnsweredFacts DEF Crash
  <2>2. TypeOK' /\ CallersOnlyPut'
    BY <2>1, FinishFacts DEF TypeOK
  <2> QED BY <2>1, <2>2, FinishFacts, ShrinkKeepsIdInv
<1>2. ASSUME NEW i \in stored, NEW name \in Names \cup {NoName}, ReadForUpdate(c, i, name)
      PROVE  IdInv'
  <2>1. /\ Free(c)
        /\ pc' = [pc EXCEPT ![c] = "update"]
        /\ todo' = [todo EXCEPT ![c] = {i}]
        /\ UNCHANGED <<stored, named, counter, callers, attempts, callerStored>>
        /\ Named(c, name)
    BY <1>2 DEF ReadForUpdate, GoTo
  <2>2. TypeOK' /\ CallersOnlyPut'
    BY <2>1, NamedFacts DEF TypeOK, CallersOnlyPut, Free
  <2>3. \A d \in Clients : Held(d)' \subseteq Held(d)
    BY <2>1 DEF Held, TypeOK
  <2> QED BY <2>1, <2>2, <2>3, ShrinkKeepsIdInv DEF TypeOK
<1> QED BY <1>1, <1>2

LEMMA DeleteKeepsIdInv ==
  ASSUME IdInv, NEW i, Delete(i)
  PROVE  IdInv'
<1> USE DEF IdInv
<1>1. /\ stored' = stored \ {i}
      /\ named' = [n \in Names |-> named[n] \ {i}]
      /\ UNCHANGED <<counter, pc, todo, wants, callers, attempts, callerStored, nameHits>>
  BY DEF Delete, reqVars
<1>2. TypeOK' /\ CallersOnlyPut'
  BY <1>1 DEF TypeOK, CallersOnlyPut
<1>3. \A d \in Clients : Held(d)' = Held(d)
  BY <1>1 DEF Held
<1> QED BY <1>1, <1>2, <1>3, ShrinkKeepsIdInv

\* The invariant behind all id properties holds of every behaviour.
THEOREM IdInvariant == Spec => []IdInv
<1>1. Init => IdInv
  BY DEF Init, IdInv, TypeOK, ReservedExclusive, CounterCoversStored,
         CollisionsComeFromCallers, HeldCounted, CallersOnlyPut, UpdatesKnown, Held, Ids
<1>2. IdInv /\ [Next]_vars => IdInv'
  <2> SUFFICES ASSUME IdInv, [Next]_vars
               PROVE  IdInv'
    OBVIOUS
  <2> USE DEF IdInv
  <2>1. ASSUME NEW c \in Clients, NEW name \in Names \cup {NoName}, InsertFresh(c, name)
        PROVE  IdInv'
    BY <2>1, ReserveKeepsIdInv, NamedFacts DEF InsertFresh, CanStart, Free
  <2>2. ASSUME NEW c \in Clients, NEW i \in CallerIds, NEW name \in Names \cup {NoName},
               InsertGiven(c, i, name)
        PROVE  IdInv'
    BY <2>2, InsertGivenKeepsIdInv
  <2>3. ASSUME NEW c \in Clients, NEW n \in 1..MaxBlock, ReserveMany(c, n)
        PROVE  IdInv'
    BY <2>3, ReserveKeepsIdInv, NamedFacts, BoundsAssumption DEF ReserveMany, CanStart, Free
  <2>4. ASSUME NEW c \in Clients, Retry(c)
        PROVE  IdInv'
    BY <2>4, ReserveKeepsIdInv DEF Retry, TypeOK
  <2>5. ASSUME NEW i, Delete(i)
        PROVE  IdInv'
    BY <2>5, DeleteKeepsIdInv
  <2>6. CASE UNCHANGED vars
    BY <2>6 DEF vars, reqVars, IdInv, TypeOK, ReservedExclusive, CounterCoversStored,
                CollisionsComeFromCallers, HeldCounted, CallersOnlyPut, UpdatesKnown, Held
  <2> QED
    BY <2>1, <2>2, <2>3, <2>4, <2>5, <2>6, PutKeepsIdInv, PutManyKeepsIdInv,
       PutDuplicateKeepsIdInv, UpdateKeepsIdInv, ReadAndCrashKeepIdInv
    DEF Next, Start, Step
<1> QED BY <1>1, <1>2, PTL DEF Spec

\* The properties of the run, for any constants.
THEOREM ReservedExclusiveAlways == Spec => []ReservedExclusive
  BY IdInvariant, PTL DEF IdInv

THEOREM CounterCoversStoredAlways == Spec => []CounterCoversStored
  BY IdInvariant, PTL DEF IdInv

THEOREM CollisionsComeFromCallersAlways == Spec => []CollisionsComeFromCallers
  BY IdInvariant, PTL DEF IdInv

THEOREM TypeCorrect == Spec => []TypeOK
  BY IdInvariant, PTL DEF IdInv

----------------------------------------------------------------------------
(* How many collisions an insert can meet. *)

\* Met grows with its bound and with its set, and counts an id at its end.
LEMMA MetFacts ==
  ASSUME NEW S \in SUBSET Ids, NEW T \in SUBSET Ids, S \subseteq T,
         NEW m \in Nat, NEW n \in Nat, m <= n
  PROVE  /\ Met(S, m) \in Nat
         /\ Met(T, n) \in Nat
         /\ Met(S, m) <= Met(T, n)
         /\ m < n /\ n \in T => Met(S, m) + 1 <= Met(T, n)
<1> DEFINE A == S \cap 1..m
           B == T \cap 1..n
<1>1. A \in SUBSET (1..m) /\ B \in SUBSET (1..n) /\ A \in SUBSET B
  OBVIOUS
<1>2. IsFiniteSet(1..n) /\ IsFiniteSet(1..m)
  BY FS_Interval
<1>3. IsFiniteSet(A) /\ IsFiniteSet(B)
  BY <1>1, <1>2, FS_Subset
<1>4. Cardinality(A) \in Nat /\ Cardinality(B) \in Nat
  BY <1>3, FS_CardinalityType
<1>5. Cardinality(A) <= Cardinality(B)
  BY <1>1, <1>3, FS_Subset
<1>6. ASSUME m < n, n \in T
      PROVE  Cardinality(A) + 1 <= Cardinality(B)
  <2>1. n \notin A /\ A \cup {n} \in SUBSET B
    BY <1>6
  <2>2. Cardinality(A \cup {n}) = Cardinality(A) + 1
    BY <1>3, <2>1, FS_AddElement
  <2>3. Cardinality(A \cup {n}) <= Cardinality(B)
    BY <1>3, <2>1, FS_Subset
  <2> QED BY <2>2, <2>3
<1> QED BY <1>4, <1>5, <1>6 DEF Met

\* A request that does not move keeps what it knows about its collisions.
LEMMA OthersKeepCollisionsMet ==
  ASSUME TypeOK, TypeOK', counter <= counter', callerStored \subseteq callerStored',
         NEW d \in Clients, CollisionsMet(d),
         pc'[d] = pc[d], todo'[d] = todo[d], callers'[d] = callers[d],
         attempts'[d] = attempts[d], nameHits'[d] = nameHits[d]
  PROVE  CollisionsMet(d)'
<1>1. /\ callerStored \in SUBSET Ids /\ callerStored' \in SUBSET Ids
      /\ counter \in Nat /\ counter' \in Nat
      /\ attempts[d] \in Nat /\ nameHits[d] \in Nat /\ MaxRetries \in Nat
      /\ todo[d] \in SUBSET Ids
  BY BoundsAssumption DEF TypeOK
<1>2. /\ Met(callerStored, counter) \in Nat
      /\ Met(callerStored', counter') \in Nat
      /\ Met(callerStored, counter) <= Met(callerStored', counter')
  BY <1>1, MetFacts
<1>3. ASSUME NEW i \in todo[d]
      PROVE  /\ Met(callerStored, i - 1) \in Nat
             /\ Met(callerStored', i - 1) \in Nat
             /\ Met(callerStored, i - 1) <= Met(callerStored', i - 1)
  <2>1. i - 1 \in Nat
    BY <1>1 DEF Ids
  <2> QED BY <1>1, <2>1, MetFacts
<1>4. pc'[d] = "retry" => attempts'[d] <= Met(callerStored', counter') + 1 + nameHits'[d]
  BY <1>1, <1>2 DEF CollisionsMet
<1>5. pc'[d] = "failed" => MaxRetries <= Met(callerStored', counter') + 1 + nameHits'[d]
  BY <1>1, <1>2 DEF CollisionsMet
<1>6. pc'[d] = "put" => \E i \in todo'[d] :
        /\ todo'[d] = {i}
        /\ IF callers'[d] THEN attempts'[d] = 0
           ELSE attempts'[d] <= Met(callerStored', i - 1) + 1 + nameHits'[d]
  <2> SUFFICES ASSUME pc[d] = "put"
               PROVE  \E i \in todo[d] :
                        /\ todo[d] = {i}
                        /\ IF callers[d] THEN attempts[d] = 0
                           ELSE attempts[d] <= Met(callerStored', i - 1) + 1 + nameHits[d]
    OBVIOUS
  <2>1. PICK i \in todo[d] :
          /\ todo[d] = {i}
          /\ IF callers[d] THEN attempts[d] = 0
             ELSE attempts[d] <= Met(callerStored, i - 1) + 1 + nameHits[d]
    BY DEF CollisionsMet
  <2>2. ~callers[d] => attempts[d] <= Met(callerStored', i - 1) + 1 + nameHits[d]
    BY <1>1, <1>3, <2>1
  <2> QED BY <2>1, <2>2
<1>7. pc'[d] \notin {"put", "retry"} => attempts'[d] = 0
  BY DEF CollisionsMet
<1> QED BY <1>4, <1>5, <1>6, <1>7 DEF CollisionsMet

\* The end of a request forgets its collisions.
LEMMA FinishCollisionsMet ==
  ASSUME TypeOK, NEW c \in Clients, NEW answer \in {"idle", "failed"}, Finish(c, answer),
         answer = "failed" => MaxRetries <= Met(callerStored', counter') + 1 + nameHits'[c]
  PROVE  CollisionsMet(c)'
  BY DEF TypeOK, Finish, CollisionsMet

\* A fresh id is above every id met so far.
LEMMA ReserveCollisionsMet ==
  ASSUME IdInv, NEW c \in Clients, NEW n \in Nat, NEW label \in {"put", "putMany"},
         pc[c] \in {"idle", "failed", "retry"}, Reserve(c, n, label),
         label = "put" => n = 1, label = "putMany" => pc[c] # "retry",
         nameHits'[c] \in Nat, pc[c] = "retry" => nameHits'[c] = nameHits[c],
         CollisionsMet(c)
  PROVE  CollisionsMet(c)'
<1> USE DEF IdInv, TypeOK
<1>1. /\ counter' = counter + n
      /\ pc'[c] = label
      /\ todo'[c] = Reserved(n)
      /\ UNCHANGED <<stored, callers, attempts, callerStored>>
      /\ ~callers[c]
  BY DEF Reserve, GoTo, CallersOnlyPut
<1>2. Met(callerStored, counter) \in Nat
  BY MetFacts
<1>3. attempts[c] \in Nat /\ attempts[c] <= Met(callerStored, counter) + 1 + nameHits'[c]
  BY <1>2 DEF CollisionsMet
<1>4. CASE label = "putMany"
  BY <1>1, <1>4 DEF CollisionsMet
<1>5. CASE label = "put"
  <2> DEFINE j == counter + 1
  <2>1. todo'[c] = {j} /\ j - 1 = counter
    BY <1>1, <1>5 DEF Reserved
  <2>2. attempts'[c] <= Met(callerStored', j - 1) + 1 + nameHits'[c]
    BY <1>1, <1>3, <2>1
  <2> HIDE DEF j
  <2> QED BY <1>1, <1>5, <2>1, <2>2 DEF CollisionsMet
<1> QED BY <1>4, <1>5

LEMMA PutDuplicateCollisionsMet ==
  ASSUME IdInv, NEW c \in Clients, PutDuplicate(c), CollisionsMet(c)
  PROVE  CollisionsMet(c)'
<1> USE DEF IdInv, TypeOK
<1>1. /\ UNCHANGED <<stored, counter, callerStored>>
      /\ pc[c] = "put"
      /\ nameHits'[c] = IF todo[c] \cap stored = {} THEN nameHits[c] + 1 ELSE nameHits[c]
  BY DEF PutDuplicate, CountNameHit
<1>2. PICK i \in todo[c] :
        /\ todo[c] = {i}
        /\ IF callers[c] THEN attempts[c] = 0
           ELSE attempts[c] <= Met(callerStored, i - 1) + 1 + nameHits[c]
  BY <1>1 DEF CollisionsMet
<1>3. /\ i \in Ids /\ i - 1 \in Nat
      /\ attempts[c] \in Nat /\ MaxRetries \in Nat /\ nameHits[c] \in Nat
      /\ Met(callerStored, counter) \in Nat
  BY <1>1, <1>2, MetFacts, BoundsAssumption DEF Ids
<1>4. attempts[c] + 1 <= Met(callerStored, counter) + 1 + nameHits'[c]
  <2>1. CASE callers[c]
    BY <2>1, <1>1, <1>2, <1>3
  <2>2. CASE ~callers[c]
    <3>1. i \in Held(c)
      BY <2>2, <1>1 DEF Held
    <3>2. i <= counter
      BY <3>1, <1>3 DEF HeldCounted
    <3>3. /\ Met(callerStored, i - 1) \in Nat /\ Met(callerStored, i) \in Nat
          /\ Met(callerStored, i - 1) <= Met(callerStored, i)
          /\ i \in callerStored => Met(callerStored, i - 1) + 1 <= Met(callerStored, i)
          /\ Met(callerStored, i) <= Met(callerStored, counter)
      BY <3>2, <1>3, MetFacts DEF Ids
    <3>4. attempts[c] <= Met(callerStored, i - 1) + 1 + nameHits[c]
      BY <2>2, <1>2
    <3>5. CASE i \in stored
      <4>1. i \in callerStored
        BY <3>1, <3>5 DEF CollisionsComeFromCallers
      <4>2. nameHits'[c] = nameHits[c]
        BY <3>5, <1>1, <1>2
      <4> QED BY <4>1, <4>2, <3>3, <3>4, <1>3
    <3>6. CASE i \notin stored
      <4>1. nameHits'[c] = nameHits[c] + 1
        BY <3>6, <1>1, <1>2
      <4> QED BY <4>1, <3>3, <3>4, <1>3
    <3> QED BY <3>5, <3>6
  <2> QED BY <2>1, <2>2
<1>5. CASE attempts[c] + 1 < MaxRetries /\ GoTo(c, "retry", {})
           /\ attempts' = [attempts EXCEPT ![c] = @ + 1]
  <2>1. pc'[c] = "retry" /\ attempts'[c] = attempts[c] + 1
    BY <1>5 DEF GoTo
  <2> QED BY <2>1, <1>1, <1>4 DEF CollisionsMet
<1>6. CASE attempts[c] + 1 >= MaxRetries /\ Finish(c, "failed")
  <2>1. MaxRetries <= Met(callerStored', counter') + 1 + nameHits'[c]
    BY <1>6, <1>1, <1>3, <1>4
  <2> QED BY <1>6, <2>1, FinishCollisionsMet
<1> QED BY <1>5, <1>6 DEF PutDuplicate

\* The steps of a request that leave its collisions alone or forget them.
LEMMA QuietCollisionsMet ==
  ASSUME IdInv, NEW c \in Clients, CollisionsMet(c),
         \/ \E i \in CallerIds, name \in Names \cup {NoName} : InsertGiven(c, i, name)
         \/ \E i \in stored, name \in Names \cup {NoName} : ReadForUpdate(c, i, name)
         \/ \E i \in todo[c] : PutMany(c, i)
         \/ Put(c) \/ Update(c) \/ Crash(c)
  PROVE  CollisionsMet(c)'
<1> USE DEF IdInv, TypeOK
<1>1. ASSUME NEW i \in CallerIds, NEW name \in Names \cup {NoName}, InsertGiven(c, i, name)
      PROVE  CollisionsMet(c)'
  BY <1>1 DEF InsertGiven, GoTo, CanStart, Free, CollisionsMet
<1>2. ASSUME NEW i \in stored, NEW name \in Names \cup {NoName}, ReadForUpdate(c, i, name)
      PROVE  CollisionsMet(c)'
  BY <1>2 DEF ReadForUpdate, GoTo, Free, CollisionsMet
<1>3. ASSUME NEW i \in todo[c], PutMany(c, i)
      PROVE  CollisionsMet(c)'
  <2>1. CASE todo[c] = {i}
    BY <2>1, <1>3, FinishCollisionsMet, AnsweredFacts DEF PutMany
  <2>2. CASE todo[c] # {i}
    BY <2>2, <1>3 DEF PutMany, GoTo, CollisionsMet
  <2> QED BY <2>1, <2>2
<1>4. CASE Put(c) \/ Update(c) \/ Crash(c)
  BY <1>4, FinishCollisionsMet, AnsweredFacts DEF Put, Update, Crash
<1> QED BY <1>1, <1>2, <1>3, <1>4

\* What every step leaves to the other requests.
LEMMA StepsAreLocal ==
  ASSUME IdInv, NEW c \in Clients, Start(c) \/ Step(c) \/ Crash(c)
  PROVE  /\ counter <= counter' /\ callerStored \subseteq callerStored'
         /\ \A d \in Clients : d # c =>
              /\ pc'[d] = pc[d] /\ todo'[d] = todo[d]
              /\ callers'[d] = callers[d] /\ attempts'[d] = attempts[d]
              /\ nameHits'[d] = nameHits[d]
<1> USE DEF IdInv, TypeOK, GoTo, Finish, Named, Answered
<1>1. ASSUME NEW n \in Nat, NEW label, Reserve(c, n, label)
      PROVE  /\ counter <= counter' /\ callerStored \subseteq callerStored'
             /\ \A d \in Clients : d # c =>
                  /\ pc'[d] = pc[d] /\ todo'[d] = todo[d]
                  /\ callers'[d] = callers[d] /\ attempts'[d] = attempts[d]
  BY <1>1 DEF Reserve
<1>2. CASE \/ \E name \in Names \cup {NoName} : InsertFresh(c, name)
           \/ Retry(c) \/ \E n \in 1..MaxBlock : ReserveMany(c, n)
  BY <1>1, <1>2, BoundsAssumption DEF InsertFresh, Retry, ReserveMany
<1>3. CASE \E i \in CallerIds, name \in Names \cup {NoName} : InsertGiven(c, i, name)
  BY <1>3 DEF InsertGiven
<1>4. CASE \E i \in stored, name \in Names \cup {NoName} : ReadForUpdate(c, i, name)
  BY <1>4 DEF ReadForUpdate
<1>5. CASE \E i \in todo[c] : PutMany(c, i)
  BY <1>5 DEF PutMany
<1>6. CASE Put(c)
  BY <1>6 DEF Put
<1>7. CASE PutDuplicate(c)
  BY <1>7 DEF PutDuplicate, CountNameHit
<1>8. CASE Update(c) \/ Crash(c)
  BY <1>8 DEF Update, Crash
<1> QED BY <1>2, <1>3, <1>4, <1>5, <1>6, <1>7, <1>8 DEF Start, Step

\* Only an insert_one of a caller's id adds to callerStored, one id at a time.
LEMMA CallerStoredStaysFinite ==
  ASSUME IdInv, CollisionInv, [Next]_vars
  PROVE  IsFiniteSet(callerStored')
<1> USE DEF CollisionInv
<1>1. ASSUME NEW c \in Clients, Put(c)
      PROVE  IsFiniteSet(callerStored')
  <2>1. PICK i \in todo[c] : todo[c] = {i}
    BY <1>1 DEF Put, CollisionsMet
  <2>2. callerStored' = callerStored \/ callerStored' = callerStored \cup {i}
    BY <1>1, <2>1 DEF Put
  <2>3. IsFiniteSet(callerStored \cup {i})
    BY FS_AddElement
  <2> QED BY <2>2, <2>3
<1>2. callerStored' = callerStored \/ \E c \in Clients : Put(c)
  BY DEF Next, vars, reqVars, Start, Step, Crash, Delete, InsertFresh, InsertGiven, ReserveMany,
         ReadForUpdate, Retry, PutDuplicate, PutMany, Update, Reserve
<1> QED BY <1>1, <1>2

\* The collisions an insert has met stay accounted for along every behaviour.
THEOREM CollisionInvariant == Spec => []CollisionInv
<1>1. Init => CollisionInv
  BY FS_EmptySet DEF Init, CollisionInv, CollisionsMet
<1>2. IdInv /\ IdInv' /\ CollisionInv /\ [Next]_vars => CollisionInv'
  <2> SUFFICES ASSUME IdInv, IdInv', CollisionInv, [Next]_vars, NEW d \in Clients
               PROVE  CollisionsMet(d)'
    BY CallerStoredStaysFinite DEF CollisionInv
  <2>1. CollisionsMet(d)
    BY DEF CollisionInv
  <2>2. ASSUME NEW c \in Clients, Start(c) \/ Step(c) \/ Crash(c)
        PROVE  CollisionsMet(d)'
    <3>1. CASE d # c
      BY <2>1, <2>2, <3>1, StepsAreLocal, OthersKeepCollisionsMet DEF IdInv
    <3>2. CASE d = c
      <4> USE DEF IdInv, TypeOK
      <4>1. CASE Retry(c) \/ \E name \in Names \cup {NoName} : InsertFresh(c, name)
        BY <4>1, <2>1, <3>2, ReserveCollisionsMet, NamedFacts
        DEF InsertFresh, Retry, CanStart, Free
      <4>2. ASSUME NEW n \in 1..MaxBlock, ReserveMany(c, n)
            PROVE  CollisionsMet(c)'
        <5>1. /\ n \in Nat /\ Reserve(c, n, "putMany")
              /\ pc[c] \in {"idle", "failed", "retry"} /\ pc[c] # "retry"
              /\ nameHits'[c] \in Nat
          BY <4>2, BoundsAssumption, NamedFacts DEF ReserveMany, CanStart, Free
        <5> QED BY <5>1, <2>1, <3>2, ReserveCollisionsMet
      <4>3. CASE PutDuplicate(c)
        BY <4>3, <2>1, <3>2, PutDuplicateCollisionsMet
      <4> QED BY <4>1, <4>2, <4>3, <2>1, <2>2, <3>2, QuietCollisionsMet DEF Start, Step
    <3> QED BY <3>1, <3>2
  <2>3. CASE (\E i \in stored \cup CallerIds : Delete(i)) \/ UNCHANGED vars
    <3>1. UNCHANGED <<counter, pc, todo, callers, attempts, callerStored, nameHits>>
      BY <2>3 DEF Delete, vars, reqVars
    <3> QED BY <3>1, <2>1 DEF CollisionsMet, Met
  <2> QED BY <2>2, <2>3 DEF Next
<1> QED BY <1>1, <1>2, IdInvariant, PTL DEF Spec

\* insert gives up only when callers have stored enough ids to collide with, or
\* the name was taken when the id was not.
THEOREM FailureNeedsTakenIdsAlways == Spec => []FailureNeedsTakenIds
<1>1. IdInv /\ CollisionInv => FailureNeedsTakenIds
  <2> SUFFICES ASSUME IdInv, CollisionInv, NEW c \in Clients
               PROVE  /\ attempts[c] <= Cardinality(callerStored) + 1 + nameHits[c]
                      /\ pc[c] = "failed" => MaxRetries <= Cardinality(callerStored) + 1 + nameHits[c]
    BY DEF FailureNeedsTakenIds
  <2>1. /\ counter \in Nat /\ attempts[c] \in Nat /\ nameHits[c] \in Nat /\ MaxRetries \in Nat
        /\ todo[c] \in SUBSET Ids /\ callerStored \in SUBSET Ids
        /\ IsFiniteSet(callerStored) /\ Cardinality(callerStored) \in Nat
    BY BoundsAssumption, FS_CardinalityType DEF IdInv, TypeOK, CollisionInv
  <2>2. ASSUME NEW n \in Nat
        PROVE  Met(callerStored, n) \in Nat /\ Met(callerStored, n) <= Cardinality(callerStored)
    <3>1. callerStored \cap 1..n \in SUBSET callerStored
      OBVIOUS
    <3> QED BY <3>1, <2>1, FS_Subset, FS_CardinalityType DEF Met
  <2>3. CASE pc[c] = "put"
    <3>1. PICK i \in todo[c] :
            IF callers[c] THEN attempts[c] = 0
            ELSE attempts[c] <= Met(callerStored, i - 1) + 1 + nameHits[c]
      BY <2>3 DEF CollisionInv, CollisionsMet
    <3>2. i - 1 \in Nat
      BY <2>1 DEF Ids
    <3> QED BY <2>1, <2>2, <2>3, <3>1, <3>2
  <2>4. CASE pc[c] # "put"
    BY <2>4, <2>1, <2>2 DEF CollisionInv, CollisionsMet
  <2> QED BY <2>3, <2>4
<1> QED BY <1>1, IdInvariant, CollisionInvariant, PTL

----------------------------------------------------------------------------
(* The counter and the ids in hand implement the allocator. *)

\* Every step grants a block of new ids to one request, or drops ids.
THEOREM AllocatorRefinement == Spec => ImplementsAllocator
<1> DEFINE G == 1..counter
           H == [c \in Clients |-> Held(c)]
<1>1. Init => Allocator!AllocInit
  BY DEF Init, Allocator!AllocInit, Held
<1>2. IdInv /\ [Next]_vars => [Allocator!AllocNext]_(Allocator!allocVars)
  <2> SUFFICES ASSUME IdInv, [Next]_vars
               PROVE  Allocator!AllocNext \/ (G' = G /\ H' = H)
    BY DEF Allocator!allocVars
  <2> USE DEF IdInv
  <2>1. ASSUME NEW c \in Clients, NEW n \in Nat, NEW label \in {"put", "putMany"},
               pc[c] \in {"idle", "failed", "retry"}, Reserve(c, n, label)
        PROVE  Allocator!Grant(c)
    <3>1. /\ counter' = counter + n
          /\ pc' = [pc EXCEPT ![c] = label]
          /\ todo' = [todo EXCEPT ![c] = Reserved(n)]
          /\ callers' = callers /\ ~callers[c]
      BY <2>1 DEF Reserve, GoTo, CallersOnlyPut
    <3>2. Held(c)' = Reserved(n) /\ \A d \in Clients : d # c => Held(d)' = Held(d)
      BY <3>1 DEF Held, TypeOK
    <3>3. G \subseteq G' /\ G' \subseteq Nat /\ Reserved(n) = G' \ G
      BY <3>1 DEF Reserved, TypeOK
    <3>4. H' = [H EXCEPT ![c] = G' \ G]
      BY <3>2, <3>3
    <3> QED BY <3>3, <3>4 DEF Allocator!Grant
  <2>2. ASSUME NEW c \in Clients, UNCHANGED counter, Held(c)' \subseteq Held(c),
               \A d \in Clients : d # c => Held(d)' = Held(d)
        PROVE  Allocator!Drop(c)
    <3>1. H' = [H EXCEPT ![c] = Held(c)']
      BY <2>2
    <3>2. Held(c)' \in SUBSET H[c]
      BY <2>2
    <3>3. G' = G
      BY <2>2
    <3> QED BY <3>1, <3>2, <3>3 DEF Allocator!Drop
  <2> USE DEF Answered
  <2>3. ASSUME NEW c \in Clients, Put(c) \/ PutDuplicate(c) \/ Update(c) \/ Crash(c)
        PROVE  Allocator!Drop(c)
    <3>1. UNCHANGED counter
      BY <2>3 DEF Put, PutDuplicate, Update, Crash
    <3>2. CASE Finish(c, "idle") \/ Finish(c, "failed")
      BY <2>2, <3>1, <3>2, FinishFacts
    <3>3. CASE GoTo(c, "retry", {}) /\ callers' = [callers EXCEPT ![c] = FALSE]
      BY <2>2, <3>1, <3>3 DEF GoTo, Held, TypeOK
    <3> QED BY <2>3, <3>2, <3>3 DEF Put, PutDuplicate, Update, Crash
  <2>4. ASSUME NEW c \in Clients, NEW i \in todo[c], PutMany(c, i)
        PROVE  Allocator!Drop(c)
    <3>1. UNCHANGED counter
      BY <2>4 DEF PutMany
    <3>2. CASE Finish(c, "idle")
      BY <2>2, <3>1, <3>2, FinishFacts
    <3>3. CASE GoTo(c, "putMany", todo[c] \ {i}) /\ UNCHANGED callers
      BY <2>2, <2>4, <3>1, <3>3 DEF GoTo, Held, TypeOK, PutMany
    <3> QED BY <2>4, <3>2, <3>3 DEF PutMany
  <2>5. ASSUME NEW c \in Clients, NEW i \in CallerIds, NEW name \in Names \cup {NoName},
               InsertGiven(c, i, name)
        PROVE  Allocator!Drop(c)
    BY <2>2, <2>5 DEF InsertGiven, GoTo, Held, TypeOK, CanStart, Free
  <2>6. ASSUME NEW c \in Clients, NEW i \in stored, NEW name \in Names \cup {NoName},
               ReadForUpdate(c, i, name)
        PROVE  Allocator!Drop(c)
    BY <2>2, <2>6 DEF ReadForUpdate, GoTo, Held, TypeOK, Free
  <2>7. ASSUME (\E i \in stored \cup CallerIds : Delete(i)) \/ UNCHANGED vars
        PROVE  G' = G /\ H' = H
    BY <2>7 DEF Delete, vars, reqVars, Held
  <2>8. ASSUME NEW c \in Clients,
               \/ \E name \in Names \cup {NoName} : InsertFresh(c, name)
               \/ Retry(c) \/ \E n \in 1..MaxBlock : ReserveMany(c, n)
        PROVE  Allocator!Grant(c)
    BY <2>1, <2>8, BoundsAssumption DEF InsertFresh, Retry, ReserveMany, CanStart, Free
  <2> QED BY <2>3, <2>4, <2>5, <2>6, <2>7, <2>8 DEF Next, Start, Step, Allocator!AllocNext
<1> QED BY <1>1, <1>2, IdInvariant, PTL DEF Spec, ImplementsAllocator, Allocator!AllocSpec
=============================================================================

----------------------------- MODULE PublicIds -----------------------------
(***************************************************************************)
(* One MongoDB collection and its public_id counter, as the requests of    *)
(* the REST workers use them through MongoDatabaseManager: insert with its *)
(* retry loop, reserve_public_ids followed by insert_many, update (which   *)
(* upserts, see BaseManager.update), and delete.                           *)
(*                                                                         *)
(* Every action is one call MongoDB executes atomically; between two calls *)
(* of a request any other request may run, and a worker may be killed.     *)
(* A document is reduced to what its collection has unique indexes on: its *)
(* public_id, and its name, as types, users, groups and categories have    *)
(* one; a document of another collection has no name.                      *)
(***************************************************************************)
EXTENDS Naturals, FiniteSets

CONSTANTS Clients,      \* concurrent requests
          Names,        \* names of documents; {} for collections without them
          NoName,       \* what a document without a name has instead
          CallerIds,    \* ids that callers may put in the data themselves
          MaxRetries,   \* MAX_DUPLICATE_KEY_RETRIES
          MaxBlock,     \* largest block reserved at once (bound)
          MaxId         \* new work starts only below this counter (bound)

ASSUME NamesAssumption == NoName \notin Names
ASSUME CallerIdsAssumption == CallerIds \subseteq Nat \ {0}
ASSUME BoundsAssumption == /\ MaxRetries \in Nat \ {0}
                           /\ MaxBlock \in Nat
                           /\ MaxId \in Nat

VARIABLES stored,       \* public_ids of the documents of the collection
          named,        \* the index on name: per name, the ids that have it
          counter,      \* the collection's document in datastorage.counter
          pc,           \* where each request stands
          todo,         \* ids the request is about to write
          wants,        \* name of the document the request is about to write
          callers,      \* whether todo came from the caller, not the counter
          attempts,     \* duplicate key errors in the request's insert
          callerStored, \* history: ids ever stored because a caller said so
          nameHits      \* history: of the request's duplicate key errors, those
                        \* on a taken name while its id was free

reqVars == <<pc, todo, wants, callers, attempts, nameHits>>
vars == <<stored, named, counter, callerStored, reqVars>>

Ids == Nat \ {0}

\* Not in the middle of a request. "failed" is the answer of an insert that
\* has used up its attempts; every other answer leaves the request "idle".
Free(c) == pc[c] \in {"idle", "failed"}

\* New inserts start only below MaxId; retries of running ones may go beyond.
CanStart(c) == Free(c) /\ counter < MaxId

\* The ids c took from the counter and has not written yet.
Held(c) == IF pc[c] \in {"put", "putMany"} /\ ~callers[c] THEN todo[c] ELSE {}

\* Another document than the one in c's hand has the name c is to write.
NameTaken(c) == wants[c] \in Names /\ ~(named[wants[c]] \subseteq todo[c])

\* What insert_one answers with DuplicateKeyError, whichever index it hits.
Duplicate(c) == todo[c] \cap stored # {} \/ NameTaken(c)

\* The index on name once c has written its document.
Indexed(c) == [n \in Names |-> IF n = wants[c] THEN named[n] \cup todo[c]
                                             ELSE named[n] \ todo[c]]

Init == /\ stored = {}
        /\ named = [n \in Names |-> {}]
        /\ counter = 0
        /\ pc = [c \in Clients |-> "idle"]
        /\ todo = [c \in Clients |-> {}]
        /\ wants = [c \in Clients |-> NoName]
        /\ callers = [c \in Clients |-> FALSE]
        /\ attempts = [c \in Clients |-> 0]
        /\ callerStored = {}
        /\ nameHits = [c \in Clients |-> 0]

\* The request is over, answer says how; its local variables are gone.
Finish(c, answer) == /\ pc' = [pc EXCEPT ![c] = answer]
                     /\ todo' = [todo EXCEPT ![c] = {}]
                     /\ wants' = [wants EXCEPT ![c] = NoName]
                     /\ callers' = [callers EXCEPT ![c] = FALSE]
                     /\ attempts' = [attempts EXCEPT ![c] = 0]

\* A request starts, with a document of that name, or ends other than failed:
\* the history of its predecessor, or its own, is no longer of interest.
Named(c, name) == /\ wants' = [wants EXCEPT ![c] = name]
                  /\ nameHits' = [nameHits EXCEPT ![c] = 0]
Answered(c) == Finish(c, "idle") /\ nameHits' = [nameHits EXCEPT ![c] = 0]

\* The request goes on at label, about to write ids.
GoTo(c, label, ids) == /\ pc' = [pc EXCEPT ![c] = label]
                       /\ todo' = [todo EXCEPT ![c] = ids]

----------------------------------------------------------------------------
(* The counter: one find_one_and_update with $inc, upsert and
   return_document=AFTER; the block ends at the new counter. *)

\* Mutants: the block starts one too low; starts at the old counter.
ReservedOverlap(amount) == counter .. (counter + amount)
ReservedBefore(amount) == counter .. (counter + amount - 1)

Reserved(amount) == (counter + 1) .. (counter + amount)

\* Mutant: the counter moves by one whatever the size of the block.
ReserveIncOne(c, amount, label) ==
  /\ counter' = counter + 1
  /\ GoTo(c, label, Reserved(amount))
  /\ UNCHANGED <<stored, named, callers, attempts, callerStored>>

Reserve(c, amount, label) == /\ counter' = counter + amount
                             /\ GoTo(c, label, Reserved(amount))
                             /\ UNCHANGED <<stored, named, callers, attempts, callerStored>>

(* insert: take an id unless the data has one, insert_one, and on a duplicate
   key pop the id and start over with a fresh one. *)

\* Mutant: get_next_public_id without inc_id, which only looks at the counter.
InsertPeek(c, name) ==
  /\ CanStart(c)
  /\ GoTo(c, "put", Reserved(1))
  /\ Named(c, name)
  /\ UNCHANGED <<stored, named, counter, callers, attempts, callerStored>>

\* The name may be taken already: the routes of groups and categories do not
\* look, and the one of types looks before this step.
InsertFresh(c, name) == CanStart(c) /\ Reserve(c, 1, "put") /\ Named(c, name)

\* The data has a public_id; the route has just seen that no document has it.
InsertGiven(c, i, name) ==
  /\ CanStart(c)
  /\ i \notin stored
  /\ GoTo(c, "put", {i})
  /\ Named(c, name)
  /\ callers' = [callers EXCEPT ![c] = TRUE]
  /\ UNCHANGED <<stored, named, counter, attempts, callerStored>>

\* Mutant: the retry looks at the counter instead of moving it.
RetryPeek(c) == /\ pc[c] = "retry"
                /\ GoTo(c, "put", Reserved(1))
                /\ UNCHANGED <<stored, named, counter, wants, callers, attempts,
                               callerStored, nameHits>>

\* The next round of the loop, with the same document.
Retry(c) == pc[c] = "retry" /\ Reserve(c, 1, "put") /\ UNCHANGED <<wants, nameHits>>

Put(c) == /\ pc[c] = "put"
          /\ ~Duplicate(c)
          /\ stored' = stored \cup todo[c]
          /\ named' = Indexed(c)
          /\ callerStored' = IF callers[c] THEN callerStored \cup todo[c]
                             ELSE callerStored
          /\ Answered(c)
          /\ UNCHANGED counter

\* History: whether this error is one of the name alone.
CountNameHit(c) ==
  nameHits' = [nameHits EXCEPT ![c] = IF todo[c] \cap stored = {} THEN @ + 1 ELSE @]

\* Mutants: no second attempt; the public_id is not popped and no attempt
\* is counted, so the same insert is sent again.
PutDuplicateNoRetry(c) ==
  /\ pc[c] = "put"
  /\ Duplicate(c)
  /\ CountNameHit(c)
  /\ Finish(c, "failed")
  /\ UNCHANGED <<stored, named, counter, callerStored>>
PutDuplicateNoPop(c) == pc[c] = "put" /\ Duplicate(c) /\ UNCHANGED vars

PutDuplicate(c) ==
  /\ pc[c] = "put"
  /\ Duplicate(c)
  /\ CountNameHit(c)
  /\ \/ /\ attempts[c] + 1 < MaxRetries
        /\ GoTo(c, "retry", {})
        /\ callers' = [callers EXCEPT ![c] = FALSE]
        /\ attempts' = [attempts EXCEPT ![c] = @ + 1]
        /\ UNCHANGED wants
     \/ /\ attempts[c] + 1 >= MaxRetries
        /\ Finish(c, "failed")
  /\ UNCHANGED <<stored, named, counter, callerStored>>

(* reserve_public_ids(n), then insert_many(skip_public=True, ordered=False):
   the documents go in one by one and a duplicate does not stop the others. *)

\* insert_many is used for collections without names.
ReserveMany(c, amount) ==
  CanStart(c) /\ Reserve(c, amount, "putMany") /\ Named(c, NoName)

PutMany(c, i) ==
  /\ pc[c] = "putMany"
  /\ stored' = stored \cup {i}
  /\ IF todo[c] = {i} THEN Answered(c)
     ELSE GoTo(c, "putMany", todo[c] \ {i}) /\ UNCHANGED <<wants, callers, attempts, nameHits>>
  /\ UNCHANGED <<named, counter, callerStored>>

(* update: the request has read document i and writes it back, with the name
   it has or another. The third positional argument that BaseManager.update
   hands on reaches update_one as upsert=True, so the write creates the
   document when it is gone; a taken name is an error, and nothing is tried
   again. *)

ReadForUpdate(c, i, name) ==
  /\ Free(c)
  /\ i \in stored
  /\ GoTo(c, "update", {i})
  /\ Named(c, name)
  /\ UNCHANGED <<stored, named, counter, callers, attempts, callerStored>>

Update(c) == /\ pc[c] = "update"
             /\ \/ /\ ~NameTaken(c)
                   /\ stored' = stored \cup todo[c]
                   /\ named' = Indexed(c)
                \/ NameTaken(c) /\ UNCHANGED <<stored, named>>
             /\ Answered(c)
             /\ UNCHANGED <<counter, callerStored>>

\* delete_one; it leaves the counter alone and does nothing when i is gone.
Delete(i) == /\ stored' = stored \ {i}
             /\ named' = [n \in Names |-> named[n] \ {i}]
             /\ UNCHANGED <<counter, callerStored, reqVars>>

\* The worker running the request is killed: what it had reserved is lost.
Crash(c) == /\ ~Free(c)
            /\ Answered(c)
            /\ UNCHANGED <<stored, named, counter, callerStored>>

----------------------------------------------------------------------------
Start(c) == \/ \E n \in 1..MaxBlock : ReserveMany(c, n)
            \/ \E name \in Names \cup {NoName} :
                  \/ InsertFresh(c, name)
                  \/ \E i \in CallerIds : InsertGiven(c, i, name)
                  \/ \E i \in stored : ReadForUpdate(c, i, name)

Step(c) == \/ Retry(c)
           \/ Put(c)
           \/ PutDuplicate(c)
           \/ \E i \in todo[c] : PutMany(c, i)
           \/ Update(c)

Next == \/ \E c \in Clients : Start(c) \/ Step(c) \/ Crash(c)
        \/ \E i \in stored \cup CallerIds : Delete(i)

\* A worker that is not killed goes on with the request it is serving.
Fairness == \A c \in Clients : WF_vars(Step(c))

Spec == Init /\ [][Next]_vars /\ Fairness

----------------------------------------------------------------------------
TypeOK == /\ stored \in SUBSET Ids
          /\ named \in [Names -> SUBSET stored]
          /\ counter \in Nat
          /\ pc \in [Clients -> {"idle", "retry", "put", "putMany", "update",
                                 "failed"}]
          /\ todo \in [Clients -> SUBSET Ids]
          /\ wants \in [Clients -> Names \cup {NoName}]
          /\ callers \in [Clients -> BOOLEAN]
          /\ attempts \in [Clients -> Nat]
          /\ callerStored \in SUBSET Ids
          /\ nameHits \in [Clients -> Nat]

\* No two requests ever have the same reserved id in hand, however their
\* reservations, retries and crashes interleave (reserve_public_ids).
ReservedExclusive ==
  \A c, d \in Clients : c # d => Held(c) \cap Held(d) = {}

\* A document whose id lies above the counter was put there by a caller who
\* named the id: neither retries, lost blocks, deletes nor the upserting
\* update bring the counter behind the documents it numbered.
CounterCoversStored ==
  \A i \in stored : i <= counter \/ i \in callerStored

\* An id taken from the counter collides with a stored document only if a
\* caller once stored that id: counter, deletes and upserting updates alone
\* never cause the duplicate key error that insert retries on.
CollisionsComeFromCallers ==
  \A c \in Clients : Held(c) \cap stored \subseteq callerStored

\* insert gives up only when MaxRetries attempts in a row met a taken id or,
\* the id being free, a taken name. The ids it draws from the counter are
\* distinct, so of the attempts lost to an id each needs another id that a
\* caller has stored (but for one on the caller's own id); only a taken name
\* may use up the attempts, and as many ids, without any id being taken.
FailureNeedsTakenIds ==
  \A c \in Clients :
    /\ attempts[c] <= Cardinality(callerStored) + 1 + nameHits[c]
    /\ pc[c] = "failed" => MaxRetries <= Cardinality(callerStored) + 1 + nameHits[c]

\* Every request that is writing comes to an answer: the retry loop of insert
\* ends, by success or after MaxRetries collisions.
InsertAnswers == \A c \in Clients : (pc[c] \in {"put", "retry"}) ~> Free(c)

\* What the proof of the invariants above adds to them. Reserved ids lie below
\* the counter; only a first insert_one carries a caller's id; a document that
\* is about to be upserted is known to the counter or to a caller, and is not
\* an id somebody else has in hand unless a caller stored it.
HeldCounted == \A c \in Clients : Held(c) \subseteq 1..counter
CallersOnlyPut == \A c \in Clients : callers[c] => pc[c] = "put"
UpdatesKnown ==
  \A c \in Clients : pc[c] = "update" =>
    \A i \in todo[c] :
      /\ i <= counter \/ i \in callerStored
      /\ \A d \in Clients : i \in Held(d) => i \in callerStored

IdInv == /\ TypeOK
         /\ ReservedExclusive
         /\ CounterCoversStored
         /\ CollisionsComeFromCallers
         /\ HeldCounted
         /\ CallersOnlyPut
         /\ UpdatesKnown

\* How many of the ids S an insert can have met when it has reached id n.
Met(S, n) == Cardinality(S \cap 1..n)

\* The strengthening of FailureNeedsTakenIds: the collisions on ids c has met
\* so far are on different ids below the one in hand, except perhaps the first.
CollisionsMet(c) ==
  /\ pc[c] = "retry" => attempts[c] <= Met(callerStored, counter) + 1 + nameHits[c]
  /\ pc[c] = "failed" => MaxRetries <= Met(callerStored, counter) + 1 + nameHits[c]
  /\ pc[c] = "put" => \E i \in todo[c] :
        /\ todo[c] = {i}
        /\ IF callers[c] THEN attempts[c] = 0
           ELSE attempts[c] <= Met(callerStored, i - 1) + 1 + nameHits[c]
  /\ pc[c] \notin {"put", "retry"} => attempts[c] = 0

CollisionInv == /\ IsFiniteSet(callerStored)
                /\ \A c \in Clients : CollisionsMet(c)

\* The counter and the reserved ids implement the id allocator.
Allocator == INSTANCE IdAllocator WITH given <- 1..counter,
                                       held <- [c \in Clients |-> Held(c)]
ImplementsAllocator == Allocator!AllocSpec
=============================================================================

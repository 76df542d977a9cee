---------------------------- MODULE IdAllocator ----------------------------
(***************************************************************************)
(* What the public_id counter of a collection promises, without saying how *)
(* it is kept: an id is granted to at most one request, for all time, and  *)
(* a request may forget ids it was granted but never gets them back.       *)
(***************************************************************************)
EXTENDS Naturals

CONSTANT Clients        \* the requests that ask for ids

VARIABLES given,        \* every id granted so far (or taken before the start)
          held          \* per client, the granted ids it has not used yet

allocVars == <<given, held>>

AllocInit == /\ given \in SUBSET Nat
             /\ held = [c \in Clients |-> {}]

\* New ids go to one client only. given' and held' are compared, not chosen,
\* so that TLC can evaluate the action on a step of the implementation.
Grant(c) == /\ given \subseteq given'
            /\ given' \subseteq Nat
            /\ held' = [held EXCEPT ![c] = given' \ given]

Drop(c) == /\ \E S \in SUBSET held[c] : held' = [held EXCEPT ![c] = S]
           /\ UNCHANGED given

AllocNext == \E c \in Clients : Grant(c) \/ Drop(c)

AllocSpec == AllocInit /\ [][AllocNext]_allocVars
=============================================================================

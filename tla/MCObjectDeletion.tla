-------------------------- MODULE MCObjectDeletion --------------------------
(***************************************************************************)
(* ObjectDeletion from databases in which every object has all the links   *)
(* it can have, so that a deletion has something to do at each of its      *)
(* calls; requests take links away and put them back.                      *)
(***************************************************************************)
EXTENDS ObjectDeletion, TLC

MCInit == /\ Init
          /\ group = Objs
          /\ relations = Pairs
          /\ \A o \in Objs : doc[o] \in Objs \ {o}
          /\ place \in {[o \in Objs |-> p] : p \in {"never", "root"}}
          /\ measures = {o \in Objs : Assessed(o)}
          /\ open

MCSpec == MCInit /\ [][Next]_vars

Symmetry == Permutations(Workers) \cup Permutations(Objs)
=============================================================================

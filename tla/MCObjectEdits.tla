---------------------------- MODULE MCObjectEdits ----------------------------
(***************************************************************************)
(* ObjectEdits with three fields, so that a change of one, two or three of *)
(* them counts as patch, minor and major; one of them is a reference.      *)
(***************************************************************************)
EXTENDS ObjectEdits

CONSTANTS f1, f2, f3

\* Clients set one field (the reference maybe with the active state) or all; the
\* reference that is lost beside one of the others makes it two.
Change(F, v, active) == [fields |-> [f \in F |-> v], active |-> active]
MCSends == {Change({f}, 1, NotSent) : f \in Fields} \cup {Change({f1}, 1, FALSE)}
             \cup {Change(Fields, v, NotSent) : v \in {0, 1}}

MCInit == /\ doc = [o \in Objs |-> [fields |-> [f \in Fields |-> 0], active |-> TRUE,
                                    version |-> Default]]
          /\ Init

MCSpec == MCInit /\ [][Next]_vars

Symmetry == Permutations(Workers) \cup Permutations({f2, f3}) \cup Permutations(Objs)
=============================================================================

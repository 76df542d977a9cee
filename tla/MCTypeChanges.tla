--------------------------- MODULE MCTypeChanges ---------------------------
(***************************************************************************)
(* TypeChanges from types with all their own fields, whose section has all *)
(* its fields but one at most, and databases in which one object at most   *)
(* has its data set in an order of its own.                                *)
(***************************************************************************)
EXTENDS TypeChanges

MCInit == /\ Init
          /\ type.own = OwnFields
          /\ Len(type.mds) >= Cardinality(DataFields) - 1
          /\ Cardinality({o \in Present : doc[o].mds # type.mds}) <= 1

MCSpec == MCInit /\ [][Next]_vars

Symmetry == Permutations(Workers) \cup Permutations(Objects)
              \cup Permutations(TemplateFields) \cup Permutations(DataFields)
=============================================================================

--------------------------- MODULE MCLocationTree ---------------------------
(***************************************************************************)
(* LocationTree from a tree of three levels, with a fourth location to be  *)
(* inserted.                                                               *)
(***************************************************************************)
EXTENDS LocationTree, TLC

CONSTANTS o1, o2

MCInit == /\ Init
          /\ objs = Objs
          /\ nextLoc = 4
          /\ locs[2] = [obj |-> o1, parent |-> Root]
          /\ locs[3] = [obj |-> o2, parent |-> 2]

MCSpec == MCInit /\ [][Next]_vars

WorkerSymmetry == Permutations(Workers)
=============================================================================

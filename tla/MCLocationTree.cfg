CONSTANTS
  Workers = {w1, w2}
  o1 = o1
  o2 = o2
  Objs = {o1, o2}
  None = None
  MaxLoc = 4
  MaxRequests = 3
SPECIFICATION MCSpec
SYMMETRY WorkerSymmetry
INVARIANTS TypeOK NothingLeftUnderCut CirclesNeedBlindParents
CHECK_DEADLOCK FALSE

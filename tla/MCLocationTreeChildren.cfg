CONSTANTS
  Workers = {w1, w2}
  o1 = o1
  o2 = o2
  Objs = {o1, o2}
  None = None
  MaxLoc = 4
  MaxRequests = 1
SPECIFICATION MCSpec
PROPERTY ChildObjectsDeleted
CHECK_DEADLOCK FALSE

CONSTANTS
  Workers = {w1, w2}
  Objs = {o1, o2}
  NoRef = NoRef
  Missing = Missing
  MaxRequests = 3
SPECIFICATION MCSpec
SYMMETRY Symmetry
INVARIANTS TypeOK DeletionComplete MeasuresHaveAssessment
PROPERTY TakenRelationsLogged
CHECK_DEADLOCK FALSE

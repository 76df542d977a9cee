CONSTANTS
  Workers = {w1, w2}
  Objs = {o1, o2}
  NoRef = NoRef
  Missing = Missing
  MaxRequests = 2
SPECIFICATION MCSpec
PROPERTY AssessmentsGoAfterVerifying
CHECK_DEADLOCK FALSE

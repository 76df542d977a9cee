CONSTANTS
  Workers = {w1, w2}
  Objs = {o1}
  f1 = f1
  f2 = f2
  f3 = f3
  Fields = {f1, f2, f3}
  Fragile = {f1}
  None = None
  Values = {0, 1, None}
  Sends <- MCSends
  NotSent = NotSent
  Unread = Unread
  MaxIds = 2
  MaxTurns = 3
SPECIFICATION MCSpec
SYMMETRY Symmetry
INVARIANTS TypeOK LogTellsFields VersionNamesFields
  
CHECK_DEADLOCK FALSE

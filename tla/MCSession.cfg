CONSTANTS
  t1 = t1
  u1 = u1
  Tabs = {t1, t2}
  Users = {u1, u2}
  None = None
  Life = 2
  MaxNow = 4
  MaxPosts = 2
  MaxFetches = 1
SPECIFICATION MCSpec
INVARIANTS TypeOK RightsAreOwn
PROPERTIES EndsInTime WarnedBefore ExpiredSessionEnds
CHECK_DEADLOCK FALSE

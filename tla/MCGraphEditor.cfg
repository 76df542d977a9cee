CONSTANTS
  r = r
  a = a
  b = b
  Objects = {r, a, b}
  Children <- MCChildren
  TypeOf <- MCTypeOf
  Start = r
  Filters <- MCFilters
  None = None
  MaxLoads = 2
  MaxClicks = 4
SPECIFICATION Spec
INVARIANTS TypeOK RootIsChosen FilterHolds ShownIsTree
PROPERTIES CollapseIsExact
CHECK_DEADLOCK FALSE

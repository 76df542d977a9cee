CONSTANTS
  Workers = {w1, w2}
  Objects = {o1, o2}
  OwnFields = {h}
  TemplateFields = {f}
  DataFields = {x, y, z}
  Gone = Gone
  Unused = Unused
  MaxRequests = 2
SPECIFICATION MCSpec
INVARIANTS ObjectsFitType SectionDataFits
SYMMETRY Symmetry
CHECK_DEADLOCK FALSE

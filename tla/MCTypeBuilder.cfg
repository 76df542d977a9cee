CONSTANTS
  a = a
  g = g
  s1 = s1
  s2 = s2
  Names = {a, b, t, g, l}
  TemplateName = t
  GlobalName = g
  LocationName = l
  Objects = {1, 2, 3, 4}
  SectionIds = {s1, s2, s3}
  None = None
  Base <- MCBase
  MaxSteps = 5
SPECIFICATION Spec
INVARIANTS TypeOK SectionsNameFields FieldsAreShown IdentifiersUnique TemplateListed
CHECK_DEADLOCK FALSE

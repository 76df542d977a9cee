\* Two ids a caller may name, both in reach of the retry loop; one name.
CONSTANTS
  Names = {n1}
  NoName = noName
  Clients = {c1, c2}
  CallerIds = {1, 2}
  MaxRetries = 3
  MaxBlock = 2
  MaxId = 3
SPECIFICATION Spec
INVARIANTS TypeOK ReservedExclusive CounterCoversStored CollisionsComeFromCallers FailureNeedsTakenIds
PROPERTIES InsertAnswers ImplementsAllocator

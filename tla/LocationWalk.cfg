CONSTANTS
  PublicIds = {2, 3, 4, 5, 6}
  MaxDepth = 3
SPECIFICATION WalkSpec
INVARIANTS WalkFindsAllBelow FailsOnlyOnLongChains

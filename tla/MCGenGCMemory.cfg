CONSTANTS
  r1 = r1
  r2 = r2
  c1 = c1
  NULL = NULL
  Nursery <- MCNursery
  Aging <- MCAging
  Tenured <- MCTenured
  Heaps = 2
  CardSize = 2
  CardsPerDeck = 2
  Roots = {r1, r2}
  CodeBlocks = {c1}
  Slots = {1}
  Ids <- MCIds
  MaxSteps = 7
SPECIFICATION MCSpec
CHECK_DEADLOCK FALSE
INVARIANTS
  RememberedSetHolds
PROPERTIES
  CollectorInvisible
  CollectionEnds

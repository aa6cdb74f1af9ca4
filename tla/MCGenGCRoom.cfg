CONSTANTS
  r1 = r1
  NULL = NULL
  Nursery <- MCNursery
  Aging <- MCAging
  Tenured <- MCTenured
  Heaps = 2
  CardSize = 2
  CardsPerDeck = 2
  Roots = {r1}
  CodeBlocks = {}
  Slots = {1}
  Ids <- MCIds
  MaxSteps = 12
SPECIFICATION MCSpec
CHECK_DEADLOCK FALSE
INVARIANTS
  NothingElseFails

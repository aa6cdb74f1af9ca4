CONSTANTS
  r1 = r1
  r2 = r2
  NULL = NULL
  Nursery <- MCNursery
  Aging <- MCAging
  Tenured <- MCTenured
  Heaps = 1
  CardSize = 2
  CardsPerDeck = 2
  Roots = {r1, r2}
  CodeBlocks = {}
  Slots = {1}
  Ids <- MCIds
  MaxSteps = 5
SPECIFICATION MCSpec
CHECK_DEADLOCK FALSE
SYMMETRY MCSymmetry
INVARIANTS
  NoSlotForgotten
  HeapClosed

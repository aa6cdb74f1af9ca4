CONSTANTS
  r1 = r1
  r2 = r2
  NULL = NULL
  Nursery <- MCNursery
  Aging <- MCAging
  Tenured <- MCTenured
  Heaps = 2
  CardSize = 2
  CardsPerDeck = 2
  Roots = {r1, r2}
  CodeBlocks = {}
  Slots = {1}
  Ids <- MCIds
SPECIFICATION MCSpec
SYMMETRY MCSymmetry
INVARIANTS
  TypeOK
  CardsNested
  WriteBarrierHolds
  NoSlotForgotten
  HeapClosed
  ForwardingEnds

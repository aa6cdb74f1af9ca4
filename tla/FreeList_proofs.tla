--------------------------- MODULE FreeList_proofs ---------------------------
(***************************************************************************)
(* For every size of the region and of a page: the free and the allotted    *)
(* blocks of the free_list_allocator always partition the region.           *)
(*                                                                          *)
(* allot replaces one block by pieces that partition it (SplitTiles), sweep *)
(* fills the maximal gaps between the live blocks (GapsTile), and compact   *)
(* moves each live unit to its rank among the live units (SlideTiles).      *)
(***************************************************************************)
EXTENDS FreeList, NatLemmas, FiniteSetTheorems, TLAPS

\* bs covers the units from lo up to hi and no other, without overlap.
Tiles(bs, lo, hi) ==
  /\ bs \subseteq Blocks
  /\ \A b \in bs : lo <= Addr(b) /\ End(b) <= hi
  /\ \A b, c \in bs : b # c => Disjoint(b, c)
  /\ \A a \in lo..hi - 1 : Covered(bs, a)

\* The inductive invariant.
Partition == /\ Tiles(fl.blocks \cup allotted, 0, Size)
             /\ fl.blocks \cap allotted = {}

\* A block is an address and a positive length.
LEMMA BlockType ==
  ASSUME NEW b \in Blocks
  PROVE  /\ Addr(b) \in 0..Size - 1 /\ Length(b) \in 1..Size
         /\ End(b) = Addr(b) + Length(b)
         /\ b = <<Addr(b), Length(b)>>
BY FreeListAssumption DEF Blocks, Addr, Length, End

\* The projections of a pair.
LEMMA PairType ==
  ASSUME NEW x, NEW n
  PROVE  Addr(<<x, n>>) = x /\ Length(<<x, n>>) = n /\ End(<<x, n>>) = x + n
BY DEF Addr, Length, End

\* What split_free_block does to the tiling: a block is replaced by pieces that
\* tile it.
LEMMA SplitTiles ==
  ASSUME NEW bs, Tiles(bs, 0, Size), NEW b \in bs,
         NEW P, Tiles(P, Addr(b), End(b))
  PROVE  /\ Tiles((bs \ {b}) \cup P, 0, Size)
         /\ (bs \ {b}) \cap P = {}
<1> DEFINE new == (bs \ {b}) \cup P
<1>0. b \in Blocks /\ Addr(b) \in Nat /\ End(b) \in Nat /\ End(b) <= Size /\ Size \in Nat
  BY BlockType, FreeListAssumption DEF Tiles
<1>1. ASSUME NEW c \in bs, c # b, NEW p \in P
      PROVE  Disjoint(c, p)
  <2>1. c \in Blocks /\ p \in Blocks /\ Disjoint(c, b) /\ Addr(b) <= Addr(p) /\ End(p) <= End(b)
    BY <1>1 DEF Tiles
  <2> QED
    BY <1>0, <2>1, BlockType DEF Disjoint
<1>2. ASSUME NEW c \in new
      PROVE  c \in Blocks /\ 0 <= Addr(c) /\ End(c) <= Size
  BY <1>0, <1>2, BlockType DEF Tiles
<1>3. ASSUME NEW c \in new, NEW d \in new, c # d
      PROVE  Disjoint(c, d)
  BY <1>1, <1>3 DEF Tiles, Disjoint
<1>4. ASSUME NEW a \in 0..Size - 1
      PROVE  Covered(new, a)
  <2>1. PICK c \in bs : Addr(c) <= a /\ a < End(c)
    BY <1>4 DEF Tiles, Covered
  <2>2. CASE c # b
    BY <2>1, <2>2 DEF Covered
  <2>3. CASE c = b
    <3>1. a \in Addr(b)..End(b) - 1
      BY <1>0, <2>1, <2>3
    <3> QED
      BY <3>1 DEF Tiles, Covered
  <2> QED
    BY <2>2, <2>3
<1>5. ASSUME NEW c \in bs, c # b, c \in P
      PROVE  FALSE
  <2>1. c \in Blocks /\ Disjoint(c, c)
    BY <1>1, <1>5 DEF Tiles
  <2> QED
    BY <2>1, BlockType DEF Disjoint
<1> QED
  BY <1>2, <1>3, <1>4, <1>5 DEF Tiles

\* Using the first n units of a block leaves pieces that tile the block.
LEMMA RestTiles ==
  ASSUME NEW b \in Blocks, End(b) <= Size, NEW n \in 1..Length(b)
  PROVE  /\ Tiles({<<Addr(b), n>>} \cup Rest(b, n), Addr(b), End(b))
         /\ <<Addr(b), n>> \notin Rest(b, n)
<1> DEFINE f == <<Addr(b), n>>
           r == <<Addr(b) + n, Length(b) - n>>
<1>0. /\ Addr(b) \in 0..Size - 1 /\ Length(b) \in 1..Size /\ Size \in Nat
      /\ End(b) = Addr(b) + Length(b) /\ n \in Nat
  BY BlockType, FreeListAssumption
<1>1. f \in Blocks /\ Addr(f) = Addr(b) /\ End(f) = Addr(b) + n
  BY <1>0, PairType DEF Blocks
<1>2. CASE Length(b) = n
  <2>1. Rest(b, n) = {}
    BY <1>2 DEF Rest
  <2> QED
    BY <1>0, <1>1, <1>2, <2>1 DEF Tiles, Covered
<1>3. CASE Length(b) # n
  <2>1. Rest(b, n) = {r}
    BY <1>3 DEF Rest
  <2>2. r \in Blocks /\ Addr(r) = Addr(b) + n /\ End(r) = End(b)
    BY <1>0, <1>3, PairType DEF Blocks
  <2>3. f # r
    BY <1>0, <1>1, <2>2
  <2>4. Disjoint(f, r) /\ Disjoint(r, f)
    BY <1>0, <1>1, <2>2 DEF Disjoint
  <2>5. \A a \in Addr(b)..End(b) - 1 : Covered({f, r}, a)
    BY <1>0, <1>1, <2>2 DEF Covered
  <2> HIDE DEF f, r
  <2>6. Tiles({f, r}, Addr(b), End(b))
    BY <1>0, <1>1, <2>2, <2>4, <2>5 DEF Tiles
  <2> QED
    BY <2>1, <2>3, <2>6 DEF f
<1> QED
  BY <1>2, <1>3

\* Multiples of n that differ are at least n apart.
LEMMA Multiples ==
  ASSUME NEW k \in Nat, NEW m \in Nat, k < m, NEW n \in Nat
  PROVE  k * n \in Nat /\ m * n \in Nat /\ k * n + n <= m * n
<1>1. PICK d \in Nat : m = k + 1 + d
  <2>1. m - k - 1 \in Nat /\ m = k + 1 + (m - k - 1)
    OBVIOUS
  <2> QED
    BY <2>1
<1>2. m * n = k * n + n + d * n
  BY <1>1
<1>3. k * n \in Nat /\ d * n \in Nat
  OBVIOUS
<1> QED
  BY <1>2, <1>3

\* Cutting a page into pieces of n units, and adding what is left of the block,
\* tiles the block.
LEMMA CarveTiles ==
  ASSUME NEW b \in Blocks, End(b) <= Size, NEW n \in 1..Size, Page(n) <= Length(b)
  PROVE  /\ Tiles(Rest(b, Page(n)) \cup Carved(b, n), Addr(b), End(b))
         /\ LastPiece(b, n) \in Carved(b, n)
         /\ Rest(b, Page(n)) \cap Carved(b, n) = {}
<1> DEFINE m == Pieces(n)
           x == Addr(b)
           piece(k) == <<x + k * n, n>>
<1>0. /\ x \in 0..Size - 1 /\ Length(b) \in 1..Size /\ Size \in Nat
      /\ End(b) = x + Length(b) /\ n \in Nat \ {0}
  BY BlockType, FreeListAssumption
<1>1. m \in Nat \ {0} /\ Page(n) = m * n
  BY <1>0, FreeListAssumption DEF Pieces, Page
<1> HIDE DEF m, x
<1>2. Page(n) \in 1..Length(b)
  BY <1>0, <1>1, Multiples
<1>3. ASSUME NEW k \in 0..m - 1
      PROVE  /\ k * n \in Nat /\ k * n + n <= Page(n)
             /\ piece(k) \in Blocks
             /\ Addr(piece(k)) = x + k * n /\ End(piece(k)) = x + k * n + n
  <2>1. k * n \in Nat /\ k * n + n <= Page(n)
    BY <1>0, <1>1, <1>3, Multiples
  <2> QED
    BY <1>0, <1>2, <2>1, PairType DEF Blocks
<1>4. ASSUME NEW k \in 0..m - 1, NEW j \in 0..m - 1, k # j
      PROVE  Disjoint(piece(k), piece(j))
  <2>0. k \in Nat /\ j \in Nat /\ n \in Nat /\ x \in Nat
    BY <1>0, <1>1
  <2>1. /\ Addr(piece(k)) = x + k * n /\ End(piece(k)) = x + k * n + n
        /\ Addr(piece(j)) = x + j * n /\ End(piece(j)) = x + j * n + n
    BY <1>3
  <2> HIDE DEF piece
  <2>2. CASE k < j
    <3>1. k * n + n <= j * n /\ k * n \in Nat /\ j * n \in Nat
      BY <2>0, <2>2, Multiples
    <3> QED
      BY <2>0, <2>1, <3>1 DEF Disjoint
  <2>3. CASE j < k
    <3>1. j * n + n <= k * n /\ k * n \in Nat /\ j * n \in Nat
      BY <2>0, <2>3, Multiples
    <3> QED
      BY <2>0, <2>1, <3>1 DEF Disjoint
  <2> QED
    BY <1>4, <2>0, <2>2, <2>3
<1>5. ASSUME NEW a \in x..x + Page(n) - 1
      PROVE  \E k \in 0..m - 1 : x + k * n <= a /\ a < x + k * n + n
  <2> DEFINE d == a - x
             q == d \div n
             r == d % n
  <2>1. d \in Nat /\ d < m * n /\ a = x + d
    BY <1>0, <1>1, <1>5
  <2>2. q \in Nat /\ r \in Nat /\ r < n /\ d = n * q + r
    BY <1>0, <2>1
  <2> HIDE DEF d, q, r
  <2>3. q * n = n * q /\ q * n \in Nat
    BY <1>0, <2>2
  <2>4. q < m
    <3>1. ASSUME m < q PROVE FALSE
      BY <1>0, <1>1, <2>1, <2>2, <2>3, <3>1, Multiples
    <3>2. q # m
      BY <2>1, <2>2, <2>3
    <3> QED
      BY <1>1, <2>2, <3>1, <3>2
  <2> QED
    BY <1>0, <1>1, <2>1, <2>2, <2>3, <2>4
<1>6. Carved(b, n) = {piece(k) : k \in 0..m - 1}
  BY DEF Carved, m, x
<1> HIDE DEF piece
<1>7. /\ Tiles({<<x, Page(n)>>} \cup Rest(b, Page(n)), x, End(b))
      /\ <<x, Page(n)>> \notin Rest(b, Page(n))
  BY <1>2, RestTiles DEF x
<1>8. LastPiece(b, n) = piece(m - 1)
  BY DEF LastPiece, m, x, piece
<1> DEFINE C == Carved(b, n)
           r == Rest(b, Page(n))
<1>9. ASSUME NEW c \in C
      PROVE  c \in Blocks /\ x <= Addr(c) /\ End(c) <= x + Page(n)
  BY <1>0, <1>2, <1>3, <1>6
<1>10. ASSUME NEW c \in C, NEW d \in C, c # d
       PROVE  Disjoint(c, d)
  BY <1>4, <1>6, <1>10
<1>11. ASSUME NEW c \in r
       PROVE  c \in Blocks /\ x + Page(n) <= Addr(c) /\ End(c) <= End(b)
  <2>1. c = <<x + Page(n), Length(b) - Page(n)>> /\ Length(b) # Page(n)
    BY <1>11 DEF Rest, x
  <2> QED
    BY <1>0, <1>2, <2>1, PairType DEF Blocks
<1>12. ASSUME NEW c \in r, NEW d \in r
       PROVE  c = d
  BY <1>12 DEF Rest
<1>13. ASSUME NEW c \in r, NEW d \in C
       PROVE  c # d /\ Disjoint(c, d) /\ Disjoint(d, c)
  BY <1>0, <1>2, <1>9, <1>11, BlockType DEF Disjoint
<1>14. ASSUME NEW a \in x..End(b) - 1
       PROVE  Covered(r \cup C, a)
  <2>1. CASE a < x + Page(n)
    <3>1. PICK k \in 0..m - 1 : x + k * n <= a /\ a < x + k * n + n
      BY <1>0, <1>2, <1>5, <1>14, <2>1
    <3>2. piece(k) \in C /\ Addr(piece(k)) <= a /\ a < End(piece(k))
      BY <1>3, <1>6, <3>1
    <3> QED
      BY <3>2 DEF Covered
  <2>2. CASE a >= x + Page(n)
    <3>1. PICK c \in {<<x, Page(n)>>} \cup r : Addr(c) <= a /\ a < End(c)
      BY <1>7, <1>14 DEF Tiles, Covered
    <3>2. c # <<x, Page(n)>>
      BY <1>0, <1>2, <1>14, <2>2, <3>1, PairType
    <3> QED
      BY <3>1, <3>2 DEF Covered
  <2> QED
    BY <1>0, <1>2, <1>14, <2>1, <2>2
<1>15. LastPiece(b, n) \in C
  BY <1>1, <1>6, <1>8
<1>16. Tiles(r \cup C, x, End(b))
  <2> HIDE DEF r, C
  <2>1. \A c \in r \cup C : c \in Blocks /\ x <= Addr(c) /\ End(c) <= End(b)
    BY <1>0, <1>2, <1>9, <1>11, BlockType
  <2>2. \A c, d \in r \cup C : c # d => Disjoint(c, d)
    BY <1>10, <1>12, <1>13
  <2> QED
    BY <1>14, <2>1, <2>2 DEF Tiles
<1> QED
  BY <1>13, <1>15, <1>16 DEF x

\* The maximal gaps between blocks that do not overlap fill the rest of the region.
LEMMA GapsTile ==
  ASSUME NEW live, live \subseteq Blocks,
         \A b \in live : End(b) <= Size,
         \A b, c \in live : b # c => Disjoint(b, c)
  PROVE  Tiles(live \cup Gaps(live), 0, Size) /\ live \cap Gaps(live) = {}
<1>0. Size \in Nat \ {0}
  BY FreeListAssumption
<1>1. ASSUME NEW g \in Gaps(live)
      PROVE  /\ g \in Blocks /\ End(g) <= Size
             /\ \A a \in Addr(g)..End(g) - 1 : ~Covered(live, a)
             /\ Addr(g) = 0 \/ Covered(live, Addr(g) - 1)
             /\ End(g) = Size \/ Covered(live, End(g))
  BY DEF Gaps
<1>2. ASSUME NEW g \in Gaps(live), NEW b \in live
      PROVE  g # b /\ Disjoint(g, b) /\ Disjoint(b, g)
  <2>0. /\ Addr(g) \in Nat /\ End(g) \in Nat /\ Addr(b) \in Nat /\ End(b) \in Nat
        /\ Addr(g) < End(g) /\ Addr(b) < End(b)
    BY <1>0, <1>1, BlockType
  <2>1. ~(Addr(b) <= Addr(g) /\ Addr(g) < End(b))
    BY <1>1, <2>0 DEF Covered
  <2>2. ~(Addr(g) <= Addr(b) /\ Addr(b) < End(g))
    BY <1>1, <2>0 DEF Covered
  <2> QED
    BY <2>0, <2>1, <2>2 DEF Disjoint
<1>3. ASSUME NEW g \in Gaps(live), NEW h \in Gaps(live), g # h
      PROVE  Disjoint(g, h)
  <2>1. ASSUME NEW c \in Gaps(live), NEW d \in Gaps(live)
        PROVE  /\ ~(Addr(c) < Addr(d) /\ Addr(d) < End(c))
               /\ ~(Addr(c) <= Addr(d) /\ Addr(d) < End(c) /\ End(c) < End(d))
    <3>0. /\ Addr(c) \in Nat /\ End(c) \in Nat /\ Addr(d) \in Nat /\ End(d) \in Nat
      BY <1>0, <1>1, BlockType
    <3>1. ASSUME Addr(c) < Addr(d), Addr(d) < End(c)
          PROVE  FALSE
      <4>1. Addr(d) - 1 \in Addr(c)..End(c) - 1 /\ Addr(d) # 0
        BY <3>0, <3>1
      <4> QED
        BY <1>1, <4>1
    <3>2. ASSUME Addr(c) <= Addr(d), Addr(d) < End(c), End(c) < End(d)
          PROVE  FALSE
      <4>1. End(c) \in Addr(d)..End(d) - 1 /\ End(c) # Size
        BY <1>0, <1>1, <3>0, <3>2
      <4> QED
        BY <1>1, <4>1
    <3> QED
      BY <3>1, <3>2
  <2>2. /\ Addr(g) \in Nat /\ End(g) \in Nat /\ Addr(h) \in Nat /\ End(h) \in Nat
        /\ Length(g) = End(g) - Addr(g) /\ Length(h) = End(h) - Addr(h)
        /\ g = <<Addr(g), Length(g)>> /\ h = <<Addr(h), Length(h)>>
        /\ Addr(g) < End(g) /\ Addr(h) < End(h)
    BY <1>0, <1>1, BlockType
  <2>3. Addr(g) # Addr(h) \/ End(g) # End(h)
    BY <1>3, <2>2
  <2> QED
    BY <2>1, <2>2, <2>3 DEF Disjoint
<1>4. ASSUME NEW a \in 0..Size - 1, ~Covered(live, a)
      PROVE  Covered(Gaps(live), a)
  <2> DEFINE B == {k \in Nat : k <= a /\ (a - k = 0 \/ Covered(live, a - k - 1))}
             F == {k \in Nat : a + k + 1 = Size \/ Covered(live, a + k + 1)}
  <2>1. a \in B /\ B \subseteq Nat
    BY <1>0
  <2>2. Size - 1 - a \in F /\ F \subseteq Nat
    BY <1>0
  <2>3. PICK i \in B : \A k \in B : i <= k
    <3> HIDE DEF B
    <3> QED
      BY <2>1, LeastNat
  <2>4. PICK j \in F : \A k \in F : j <= k
    <3> HIDE DEF F
    <3> QED
      BY <2>2, LeastNat
  <2>5. /\ i \in Nat /\ i <= a /\ (a - i = 0 \/ Covered(live, a - i - 1))
        /\ j \in Nat /\ (a + j + 1 = Size \/ Covered(live, a + j + 1))
        /\ j <= Size - 1 - a
    BY <2>2, <2>3, <2>4
  <2>6. ASSUME NEW y \in a - i..a
        PROVE  ~Covered(live, y)
    <3>1. CASE y = a
      BY <1>4, <3>1
    <3>2. CASE y # a
      <4> DEFINE k == a - y - 1
      <4>1. k \in Nat /\ k < i /\ k <= a /\ a - k - 1 = y
        BY <1>0, <2>5, <3>2
      <4>2. ~(i <= k)
        BY <2>5, <4>1
      <4>3. k \notin B
        BY <2>3, <4>2
      <4> HIDE DEF k
      <4> QED
        BY <4>1, <4>3
    <3> QED
      BY <3>1, <3>2
  <2>7. ASSUME NEW y \in a + 1..a + j
        PROVE  ~Covered(live, y)
    <3> DEFINE k == y - a - 1
    <3>1. k \in Nat /\ k < j /\ a + k + 1 = y
      BY <1>0, <2>5
    <3>2. ~(j <= k)
      BY <2>5, <3>1
    <3>3. k \notin F
      BY <2>4, <3>2
    <3> HIDE DEF k
    <3> QED
      BY <3>1, <3>3
  <2> DEFINE g == <<a - i, i + j + 1>>
  <2>8. /\ g \in Blocks /\ Addr(g) = a - i /\ End(g) = a + j + 1
    BY <1>0, <2>5, PairType DEF Blocks
  <2> HIDE DEF g, B, F
  <2>9. \A y \in Addr(g)..End(g) - 1 : ~Covered(live, y)
    <3>1. \A y \in a - i..a + j : y \in a - i..a \/ y \in a + 1..a + j
      BY <1>0, <2>5
    <3>2. End(g) - 1 = a + j
      BY <1>0, <2>5, <2>8
    <3> QED
      BY <2>6, <2>7, <2>8, <3>1, <3>2
  <2>10. g \in Gaps(live)
    BY <1>0, <2>5, <2>8, <2>9 DEF Gaps
  <2> QED
    BY <1>0, <2>5, <2>8, <2>10 DEF Covered
<1>5. \A b \in live \cup Gaps(live) : b \in Blocks /\ 0 <= Addr(b) /\ End(b) <= Size
  BY <1>0, <1>1, BlockType
<1>6. \A b, c \in live \cup Gaps(live) : b # c => Disjoint(b, c)
  BY <1>2, <1>3
<1>7. \A a \in 0..Size - 1 : Covered(live \cup Gaps(live), a)
  BY <1>4 DEF Covered
<1> QED
  BY <1>2, <1>5, <1>6, <1>7 DEF Tiles

\* The number of units from x up to y.
LEMMA IntervalLength ==
  ASSUME NEW x \in Nat, NEW y \in Nat, x <= y
  PROVE  IsFiniteSet(x..(y - 1)) /\ Cardinality(x..(y - 1)) = y - x
<1>1. y - 1 \in Int /\ x \in Int
  OBVIOUS
<1>2. /\ IsFiniteSet(x..(y - 1))
      /\ Cardinality(x..(y - 1)) = IF x > y - 1 THEN 0 ELSE (y - 1) - x + 1
  BY <1>1, FS_Interval
<1> QED
  BY <1>2

\* Forward, as a function of an address: the number of marked units below it.
Rank(L, x) == Cardinality({a \in L : a < x})

\* Ranks are monotonic, grow by one over each marked unit, and every number below
\* the number of marked units is the rank of one of them.
LEMMA RankProperties ==
  ASSUME NEW L, L \subseteq 0..Size - 1
  PROVE  /\ Cardinality(L) \in Nat /\ Cardinality(L) <= Size
         /\ \A x \in Nat : Rank(L, x) \in Nat /\ Rank(L, x) <= Cardinality(L)
         /\ \A x, y \in Nat : x <= y => Rank(L, x) <= Rank(L, y)
         /\ \A x, y \in Nat : x <= y /\ x..(y - 1) \subseteq L =>
              Rank(L, y) = Rank(L, x) + (y - x)
         /\ \A r \in 0..(Cardinality(L) - 1) : \E x \in L : Rank(L, x) = r
<1> DEFINE Below(x) == {a \in L : a < x}
<1>0. Size \in Nat \ {0} /\ \A a \in L : a \in Nat
  BY FreeListAssumption
<1>1. IsFiniteSet(L) /\ Cardinality(L) \in Nat /\ Cardinality(L) <= Size
  <2>1. IsFiniteSet(0..Size - 1) /\ Cardinality(0..Size - 1) = Size
    BY <1>0, FS_Interval
  <2>2. IsFiniteSet(L) /\ Cardinality(L) <= Size
    BY <2>1, FS_Subset
  <2> QED
    BY <1>0, <2>2, FS_CardinalityType
<1>2. ASSUME NEW x \in Nat
      PROVE  /\ IsFiniteSet(Below(x))
             /\ Cardinality(Below(x)) \in Nat /\ Cardinality(Below(x)) <= Cardinality(L)
             /\ Rank(L, x) = Cardinality(Below(x))
  <2>1. Below(x) \in SUBSET L
    OBVIOUS
  <2>2. Rank(L, x) = Cardinality(Below(x))
    BY DEF Rank
  <2> HIDE DEF Below
  <2>3. IsFiniteSet(Below(x)) /\ Cardinality(Below(x)) <= Cardinality(L)
    BY <1>1, <2>1, FS_Subset
  <2> QED
    BY <1>1, <2>2, <2>3, FS_CardinalityType
<1>3. ASSUME NEW x \in Nat, NEW y \in Nat, x <= y
      PROVE  Rank(L, x) <= Rank(L, y)
  <2>1. ASSUME NEW a \in Below(x) PROVE a \in Below(y)
    <3>1. a \in L /\ a \in Nat /\ a < x
      BY <1>0, <2>1
    <3>2. a < y
      BY <1>3, <3>1
    <3> QED
      BY <3>1, <3>2
  <2> HIDE DEF Below
  <2>2. Below(x) \in SUBSET Below(y)
    BY <2>1
  <2>3. Cardinality(Below(x)) <= Cardinality(Below(y))
    BY <1>2, <2>2, FS_Subset
  <2> QED
    BY <1>2, <2>3
<1>4. ASSUME NEW x \in Nat, NEW y \in Nat, x <= y, x..(y - 1) \subseteq L
      PROVE  Rank(L, y) = Rank(L, x) + (y - x)
  <2> DEFINE I == x..(y - 1)
  <2>1. ASSUME NEW a
        PROVE  /\ a \in Below(y) <=> a \in Below(x) \/ a \in I
               /\ ~(a \in Below(x) /\ a \in I)
    <3>1. a \in I <=> a \in Nat /\ x <= a /\ a < y
      OBVIOUS
    <3>2. \A z : a \in Below(z) <=> a \in L /\ a < z
      OBVIOUS
    <3>3. a \in I => a \in L
      BY <1>4
    <3> HIDE DEF I, Below
    <3>4. CASE a \in L
      <4>1. a \in Nat
        BY <1>0, <3>4
      <4>2. a < y <=> a < x \/ (x <= a /\ a < y)
        BY <1>4, <4>1
      <4>3. ~(a < x /\ x <= a)
        BY <4>1
      <4> QED
        BY <3>1, <3>2, <3>4, <4>1, <4>2, <4>3
    <3>5. CASE a \notin L
      BY <3>2, <3>3, <3>5
    <3> QED
      BY <3>4, <3>5
  <2>2. IsFiniteSet(I) /\ Cardinality(I) = y - x
    BY <1>4, IntervalLength
  <2> HIDE DEF Below, I
  <2>3. Below(y) = Below(x) \cup I /\ Below(x) \cap I = {}
    BY <2>1
  <2>4. Cardinality(Below(y)) = Cardinality(Below(x)) + Cardinality(I) - Cardinality({})
    BY <1>2, <2>2, <2>3, FS_Union
  <2> QED
    BY <1>2, <2>2, <2>4, FS_EmptySet
<1>5. ASSUME NEW x \in L
      PROVE  x \in Nat /\ x + 1 \in Nat /\ Rank(L, x + 1) = Rank(L, x) + 1
  <2>1. x \in Nat /\ x + 1 \in Nat /\ x <= x + 1 /\ (x + 1) - x = 1
    BY <1>0
  <2>2. x..((x + 1) - 1) \subseteq L
    BY <2>1
  <2>3. Rank(L, x + 1) = Rank(L, x) + ((x + 1) - x)
    BY <1>4, <2>1, <2>2
  <2> QED
    BY <2>1, <2>3
<1> DEFINE f == [x \in L |-> Rank(L, x)]
           T == 0..(Cardinality(L) - 1)
<1>6. f \in Injection(L, T)
  <2>1. ASSUME NEW x \in L PROVE Rank(L, x) \in T
    <3>1. /\ Rank(L, x) \in Nat /\ Rank(L, x + 1) \in Nat
          /\ Rank(L, x + 1) <= Cardinality(L)
      BY <1>2, <1>5
    <3> QED
      BY <1>1, <1>5, <3>1
  <2>2. ASSUME NEW x \in L, NEW y \in L, x < y
        PROVE  f[x] # f[y]
    <3>1. x \in Nat /\ y \in Nat /\ x + 1 \in Nat /\ x + 1 <= y
      BY <1>0, <2>2
    <3>2. Rank(L, x + 1) = Rank(L, x) + 1 /\ Rank(L, x + 1) <= Rank(L, y)
      BY <1>3, <1>5, <3>1
    <3>3. Rank(L, x) \in Nat /\ Rank(L, y) \in Nat
      BY <1>2, <3>1
    <3>4. f[x] = Rank(L, x) /\ f[y] = Rank(L, y)
      OBVIOUS
    <3> HIDE DEF f
    <3> QED
      BY <3>2, <3>3, <3>4
  <2>3. \A x, y \in L : x # y => x < y \/ y < x
    BY <1>0
  <2>4. f \in [L -> T]
    <3> HIDE DEF T
    <3> QED
      BY <2>1
  <2>5. \A x, y \in L : x # y => f[x] # f[y]
    <3> HIDE DEF f
    <3> QED
      BY <2>2, <2>3
  <2> HIDE DEF f, T
  <2> QED
    BY <2>4, <2>5 DEF Injection, IsInjective
<1>7. f \in Surjection(L, T)
  <2>1. IsFiniteSet(T) /\ Cardinality(T) = Cardinality(L) - 0
    BY <1>1, IntervalLength
  <2> HIDE DEF f, T
  <2> QED
    BY <1>1, <1>6, <2>1, FS_Injection
<1>8. ASSUME NEW r \in T
      PROVE  \E x \in L : Rank(L, x) = r
  BY <1>7 DEF Surjection
<1>9. \A x \in Nat : Rank(L, x) \in Nat /\ Rank(L, x) <= Cardinality(L)
  BY <1>2
<1> HIDE DEF Below
<1> QED
  BY <1>1, <1>3, <1>4, <1>8, <1>9

\* Compaction: the moved blocks tile the units below the number of marked ones.
LEMMA SlideTiles ==
  ASSUME NEW live, live \subseteq Blocks,
         \A b \in live : End(b) <= Size,
         \A b, c \in live : b # c => Disjoint(b, c)
  PROVE  /\ Cardinality(Lines(live)) \in Nat /\ Cardinality(Lines(live)) <= Size
         /\ Tiles({<<Forward(live, b), Length(b)>> : b \in live}, 0, Cardinality(Lines(live)))
<1> DEFINE L == Lines(live)
           M == Cardinality(L)
           to(b) == <<Forward(live, b), Length(b)>>
           D == {to(b) : b \in live}
<1>0. Size \in Nat \ {0}
  BY FreeListAssumption
<1>1. L \subseteq 0..Size - 1
  BY DEF Lines
<1>2. ASSUME NEW b \in live
      PROVE  /\ Addr(b) \in Nat /\ Length(b) \in Nat \ {0} /\ End(b) \in Nat
             /\ End(b) = Addr(b) + Length(b) /\ Addr(b) <= End(b)
             /\ Addr(b)..(End(b) - 1) \subseteq L
  <2>1. /\ Addr(b) \in Nat /\ Length(b) \in Nat \ {0} /\ End(b) \in Nat
        /\ End(b) = Addr(b) + Length(b) /\ Addr(b) <= End(b) /\ End(b) <= Size
    BY <1>0, BlockType
  <2>2. ASSUME NEW a \in Addr(b)..(End(b) - 1) PROVE a \in L
    <3>1. a \in 0..Size - 1 /\ Addr(b) <= a /\ a < End(b)
      BY <1>0, <2>1, <2>2
    <3> QED
      BY <3>1 DEF Lines, Covered
  <2> QED
    BY <2>1, <2>2
<1>3. ASSUME NEW b \in live
      PROVE  Forward(live, b) = Rank(L, Addr(b))
  BY DEF Forward, Rank
<1>4. /\ M \in Nat /\ M <= Size
      /\ \A x \in Nat : Rank(L, x) \in Nat /\ Rank(L, x) <= M
      /\ \A x, y \in Nat : x <= y => Rank(L, x) <= Rank(L, y)
      /\ \A x, y \in Nat : x <= y /\ x..(y - 1) \subseteq L =>
           Rank(L, y) = Rank(L, x) + (y - x)
      /\ \A r \in 0..(M - 1) : \E x \in L : Rank(L, x) = r
  <2> HIDE DEF L
  <2> QED
    BY <1>1, RankProperties
<1>5. ASSUME NEW x PROVE x \in L => x \in Nat /\ \E b \in live : Addr(b) <= x /\ x < End(b)
  BY <1>0 DEF Lines, Covered
<1> HIDE DEF L, M
<1>6. ASSUME NEW b \in live
      PROVE  /\ Addr(to(b)) = Rank(L, Addr(b)) /\ End(to(b)) = Rank(L, End(b))
             /\ Rank(L, Addr(b)) \in Nat /\ Rank(L, End(b)) \in Nat
             /\ Rank(L, End(b)) <= M
             /\ to(b) \in Blocks
  <2>1. Rank(L, End(b)) = Rank(L, Addr(b)) + (End(b) - Addr(b))
    BY <1>2, <1>4
  <2>2. /\ Rank(L, Addr(b)) \in Nat /\ Rank(L, End(b)) \in Nat /\ Rank(L, End(b)) <= M
    BY <1>2, <1>4
  <2>3. Rank(L, End(b)) = Rank(L, Addr(b)) + Length(b)
    BY <1>2, <2>1, <2>2
  <2>4. to(b) = <<Rank(L, Addr(b)), Length(b)>>
    BY <1>3
  <2>5. Rank(L, Addr(b)) \in 0..Size - 1 /\ Length(b) \in 1..Size
    BY <1>0, <1>2, <1>4, <2>2, <2>3
  <2> HIDE DEF to
  <2> QED
    BY <2>2, <2>3, <2>4, <2>5, PairType DEF Blocks
<1>7. ASSUME NEW b \in live, NEW c \in live, b # c
      PROVE  Disjoint(to(b), to(c))
  <2>1. ASSUME NEW d \in live, NEW e \in live, End(d) <= Addr(e)
        PROVE  End(to(d)) <= Addr(to(e))
    <3>1. Rank(L, End(d)) <= Rank(L, Addr(e))
      BY <1>2, <1>4, <2>1
    <3> HIDE DEF to
    <3> QED
      BY <1>6, <3>1
  <2> HIDE DEF to
  <2> QED
    BY <1>7, <2>1 DEF Disjoint
<1>8. ASSUME NEW r \in 0..(M - 1)
      PROVE  Covered(D, r)
  <2>1. PICK x \in L : Rank(L, x) = r
    BY <1>4
  <2>2. x \in Nat
    BY <1>5
  <2>3. PICK b \in live : Addr(b) <= x /\ x < End(b)
    BY <1>5
  <2>4. Addr(b)..(x - 1) \subseteq L
    <3>1. ASSUME NEW a \in Addr(b)..(x - 1) PROVE a \in Addr(b)..(End(b) - 1)
      BY <1>2, <2>2, <2>3
    <3> QED
      BY <1>2, <3>1
  <2>5. x..((x + 1) - 1) \subseteq L /\ x + 1 \in Nat /\ x <= x + 1 /\ x + 1 <= End(b)
    BY <1>2, <2>2, <2>3
  <2>6. Rank(L, x) = Rank(L, Addr(b)) + (x - Addr(b))
    BY <1>2, <1>4, <2>2, <2>3, <2>4
  <2>7. Rank(L, x + 1) = Rank(L, x) + ((x + 1) - x) /\ Rank(L, x + 1) <= Rank(L, End(b))
    BY <1>2, <1>4, <2>2, <2>5
  <2>8. Rank(L, Addr(b)) <= r /\ r < Rank(L, End(b))
    <3>1. Rank(L, x) \in Nat /\ Rank(L, Addr(b)) \in Nat /\ Rank(L, End(b)) \in Nat
      BY <1>2, <1>4, <2>2
    <3> QED
      BY <1>2, <2>1, <2>2, <2>3, <2>6, <2>7, <3>1
  <2>9. to(b) \in D
    OBVIOUS
  <2> HIDE DEF to, D
  <2> QED
    BY <1>6, <2>8, <2>9 DEF Covered
<1>9. Tiles(D, 0, M)
  <2> HIDE DEF to
  <2>1. \A d \in D : d \in Blocks /\ 0 <= Addr(d) /\ End(d) <= M
    BY <1>6
  <2>2. \A d, e \in D : d # e => Disjoint(d, e)
    BY <1>7
  <2> HIDE DEF D
  <2> QED
    BY <1>8, <2>1, <2>2 DEF Tiles
<1> QED
  BY <1>4, <1>9 DEF L, M

\* A tiling of the lower units and one block over the rest tile the region.
LEMMA InitialTiles ==
  ASSUME NEW m \in Nat, m <= Size, NEW D, Tiles(D, 0, m)
  PROVE  /\ Tiles(initial_free_list(m).blocks \cup D, 0, Size)
         /\ initial_free_list(m).blocks \cap D = {}
<1> DEFINE r == <<m, Size - m>>
<1>0. Size \in Nat \ {0}
  BY FreeListAssumption
<1>1. CASE m = Size
  <2>1. initial_free_list(m).blocks = {}
    BY <1>1 DEF initial_free_list, Empty
  <2> QED
    BY <1>1, <2>1
<1>2. CASE m # Size
  <2>1. initial_free_list(m).blocks = {r}
    BY <1>2 DEF initial_free_list, Empty, Added
  <2>2. r \in Blocks /\ Addr(r) = m /\ End(r) = Size
    BY <1>0, <1>2, PairType DEF Blocks
  <2> HIDE DEF r
  <2>3. ASSUME NEW d \in D
        PROVE  /\ d \in Blocks /\ 0 <= Addr(d) /\ End(d) <= Size
               /\ d # r /\ Disjoint(d, r) /\ Disjoint(r, d)
    <3>1. d \in Blocks /\ 0 <= Addr(d) /\ End(d) <= m
      BY DEF Tiles
    <3>2. Addr(d) \in Nat /\ End(d) \in Nat /\ Addr(d) < End(d)
      BY <1>0, <3>1, BlockType
    <3> QED
      BY <1>0, <2>2, <3>1, <3>2 DEF Disjoint
  <2>4. ASSUME NEW a \in 0..Size - 1 PROVE Covered({r} \cup D, a)
    <3>1. CASE a < m
      <4>1. a \in 0..m - 1
        BY <1>0, <2>4, <3>1
      <4> QED
        BY <4>1 DEF Tiles, Covered
    <3>2. CASE m <= a
      BY <1>0, <2>2, <3>2 DEF Covered
    <3> QED
      BY <1>0, <3>1, <3>2
  <2>5. \A d, e \in {r} \cup D : d # e => Disjoint(d, e)
    BY <2>3 DEF Tiles
  <2>6. \A d \in {r} \cup D : d \in Blocks /\ 0 <= Addr(d) /\ End(d) <= Size
    BY <1>0, <2>2, <2>3
  <2>7. Tiles({r} \cup D, 0, Size)
    BY <2>4, <2>5, <2>6 DEF Tiles
  <2> QED
    BY <2>1, <2>3, <2>7
<1> QED
  BY <1>1, <1>2

\* find_free_block takes one block out of the lists, after cutting up a page where
\* it has to, and the block it returns is large enough.
LEMMA FindTiles ==
  ASSUME Partition, NEW n \in 1..Size, NEW g \in find_free_block(fl, n)
  PROVE  /\ Tiles(g.list.blocks \cup {g.block} \cup allotted, 0, Size)
         /\ g.block \notin g.list.blocks \cup allotted
         /\ g.list.blocks \cap allotted = {}
         /\ n <= Length(g.block)
<1>0. /\ Tiles(fl.blocks \cup allotted, 0, Size) /\ fl.blocks \cap allotted = {}
      /\ fl.blocks \subseteq Blocks /\ \A b \in fl.blocks : End(b) <= Size
      /\ n \in Nat \ {0} /\ Size \in Nat \ {0}
  BY FreeListAssumption DEF Partition, Tiles
<1>1. ASSUME NEW b \in fl.blocks, n <= Length(b), g = Found(b, Removed(fl, b))
      PROVE  /\ Tiles(g.list.blocks \cup {g.block} \cup allotted, 0, Size)
             /\ g.block \notin g.list.blocks \cup allotted
             /\ g.list.blocks \cap allotted = {}
             /\ n <= Length(g.block)
  <2>1. g.block = b /\ g.list.blocks = fl.blocks \ {b}
    BY <1>1 DEF Found, Removed
  <2>2. (fl.blocks \ {b}) \cup {b} \cup allotted = fl.blocks \cup allotted
    OBVIOUS
  <2> QED
    BY <1>0, <1>1, <2>1, <2>2
<1>2. CASE ~Small(n)
  <2>1. PICK b \in BestFit(fl, n) : g = Found(b, Removed(fl, b))
    BY <1>2 DEF find_free_block
  <2>2. b \in fl.blocks /\ n <= Length(b)
    <3>1. b \in fl.blocks /\ Length(b) >= n
      BY DEF BestFit, LargeEnough
    <3> QED
      BY <1>0, <3>1, BlockType
  <2> QED
    BY <1>1, <2>1, <2>2
<1>3. CASE Small(n) /\ Bucket(fl, n) # {}
  <2>1. PICK b \in Bucket(fl, n) : g = Found(b, Removed(fl, b))
    BY <1>3 DEF find_free_block
  <2>2. b \in fl.blocks /\ n <= Length(b)
    BY <1>0 DEF Bucket
  <2> QED
    BY <1>1, <2>1, <2>2
<1>4. CASE Small(n) /\ Bucket(fl, n) = {}
  <2> DEFINE P(b) == Rest(b, Page(n)) \cup Carved(b, n)
             Cut(b) == Added(Removed(fl, b), P(b))
  <2>1. PICK b \in BestFit(fl, Page(n)) :
          g = Found(LastPiece(b, n), Removed(Cut(b), LastPiece(b, n)))
    BY <1>4 DEF find_free_block
  <2>2. b \in fl.blocks /\ Page(n) <= Length(b) /\ b \in Blocks /\ End(b) <= Size
    <3>1. b \in fl.blocks /\ Length(b) >= Page(n)
      BY DEF BestFit, LargeEnough
    <3>2. Length(b) \in Nat
      BY <1>0, <3>1, BlockType
    <3>3. Page(n) \in Int
      BY <1>0, FreeListAssumption DEF Page, Pieces
    <3> QED
      BY <1>0, <3>1, <3>2, <3>3
  <2> DEFINE p == LastPiece(b, n)
             rest == fl.blocks \ {b}
  <2>3. Tiles(P(b), Addr(b), End(b)) /\ p \in P(b)
    BY <2>2, CarveTiles
  <2>4. g.block = p /\ g.list.blocks = (rest \cup P(b)) \ {p}
    BY <2>1 DEF Found, Removed, Added
  <2>5. Length(p) = n
    BY PairType DEF LastPiece
  <2> HIDE DEF P, p
  <2>6. /\ Tiles(((fl.blocks \cup allotted) \ {b}) \cup P(b), 0, Size)
        /\ ((fl.blocks \cup allotted) \ {b}) \cap P(b) = {}
    BY <1>0, <2>2, <2>3, SplitTiles
  <2>7. ((rest \cup P(b)) \ {p}) \cup {p} \cup allotted
           = ((fl.blocks \cup allotted) \ {b}) \cup P(b)
    BY <1>0, <2>2, <2>3
  <2> QED
    BY <1>0, <2>2, <2>3, <2>4, <2>5, <2>6, <2>7
<1> QED
  BY <1>2, <1>3, <1>4

\* allot keeps the partition: the block it returns comes out of a free one.
LEMMA AllotTiles ==
  ASSUME Partition, NEW n \in 1..Size, NEW f \in allot(fl, n)
  PROVE  /\ Tiles(f.list.blocks \cup (allotted \cup {f.block}), 0, Size)
         /\ f.list.blocks \cap (allotted \cup {f.block}) = {}
<1>1. PICK g \in find_free_block(fl, n) :
        f = Found(<<Addr(g.block), n>>, Added(g.list, Rest(g.block, n)))
  BY DEF allot
<1> DEFINE b == g.block
           A == g.list.blocks
           bs == A \cup {b} \cup allotted
           h == <<Addr(b), n>>
           r == Rest(b, n)
<1>2. /\ Tiles(bs, 0, Size) /\ b \notin A \cup allotted
      /\ A \cap allotted = {} /\ n <= Length(b)
  BY FindTiles
<1>3. f.block = h /\ f.list.blocks = A \cup r
  BY <1>1 DEF Found, Added
<1>4. b \in Blocks /\ End(b) <= Size
  BY <1>2 DEF Tiles
<1>5. n \in 1..Length(b)
  BY <1>2, <1>4, BlockType, FreeListAssumption
<1>6. Tiles({h} \cup r, Addr(b), End(b)) /\ h \notin r
  BY <1>4, <1>5, RestTiles
<1> HIDE DEF b, A, h, r
<1>7. Tiles((bs \ {b}) \cup ({h} \cup r), 0, Size) /\ (bs \ {b}) \cap ({h} \cup r) = {}
  <2>1. b \in bs
    OBVIOUS
  <2> HIDE DEF bs
  <2> QED
    BY <1>2, <1>6, <2>1, SplitTiles
<1>8. (bs \ {b}) \cup ({h} \cup r) = (A \cup r) \cup (allotted \cup {h})
  BY <1>2
<1>9. (A \cup r) \cap (allotted \cup {h}) = {}
  BY <1>2, <1>6, <1>7
<1> QED
  BY <1>3, <1>7, <1>8, <1>9

\* At any time the free blocks and the blocks in use partition the region, whatever
\* is allotted, freed, swept and compacted, in any order.
THEOREM PartitionInvariant == Spec => []Partition
<1>1. Init => Partition
  <2> SUFFICES ASSUME Init PROVE Partition
    OBVIOUS
  <2>1. Tiles({}, 0, 0)
    BY DEF Tiles
  <2>2. /\ Tiles(initial_free_list(0).blocks \cup {}, 0, Size)
        /\ initial_free_list(0).blocks \cap {} = {}
    BY <2>1, InitialTiles, FreeListAssumption
  <2> QED
    BY <2>2 DEF Init, Partition
<1>2. Partition /\ [Next]_vars => Partition'
  <2> SUFFICES ASSUME Partition, [Next]_vars PROVE Partition'
    OBVIOUS
  <2>0. /\ allotted \subseteq Blocks
        /\ \A b \in allotted : End(b) <= Size
        /\ \A b, c \in allotted : b # c => Disjoint(b, c)
    BY DEF Partition, Tiles
  <2>1. ASSUME NEW n \in 1..Size, Allot(n) PROVE Partition'
    BY <2>1, AllotTiles DEF Allot, Partition
  <2>2. ASSUME NEW b \in allotted, Free(b) PROVE Partition'
    <3>1. fl'.blocks = fl.blocks \cup {b} /\ allotted' = allotted \ {b}
      BY <2>2 DEF Free, Added
    <3>2. fl'.blocks \cup allotted' = fl.blocks \cup allotted /\ fl'.blocks \cap allotted' = {}
      BY <3>1 DEF Partition
    <3> QED
      BY <3>2 DEF Partition
  <2>3. ASSUME NEW live \in SUBSET allotted, Sweep(live) PROVE Partition'
    <3>1. fl'.blocks = Gaps(live) /\ allotted' = live
      BY <2>3 DEF Sweep, Swept, Added, Empty
    <3>2. Tiles(live \cup Gaps(live), 0, Size) /\ live \cap Gaps(live) = {}
      BY <2>0, GapsTile
    <3>3. live \cup Gaps(live) = Gaps(live) \cup live
      OBVIOUS
    <3> QED
      BY <3>1, <3>2, <3>3 DEF Partition
  <2>4. ASSUME NEW live \in SUBSET allotted, Compact(live) PROVE Partition'
    <3> DEFINE m == Cardinality(Lines(live))
               D == {<<Forward(live, b), Length(b)>> : b \in live}
    <3>1. m \in Nat /\ m <= Size /\ Tiles(D, 0, m)
      BY <2>0, SlideTiles
    <3>2. fl'.blocks = initial_free_list(m).blocks /\ allotted' = D
      BY <2>4 DEF Compact
    <3> HIDE DEF m, D
    <3>3. /\ Tiles(initial_free_list(m).blocks \cup D, 0, Size)
          /\ initial_free_list(m).blocks \cap D = {}
      BY <3>1, InitialTiles
    <3> QED
      BY <3>2, <3>3 DEF Partition
  <2>5. CASE UNCHANGED vars
    BY <2>5 DEF Partition, vars, Tiles, Covered
  <2> QED
    BY <2>1, <2>2, <2>3, <2>4, <2>5 DEF Next
<1> QED
  BY <1>1, <1>2, PTL DEF Spec

\* What allot returns is never memory that something else uses.
THEOREM NoOverlapTheorem == Spec => []NoOverlap
<1>1. Partition => NoOverlap
  BY DEF Partition, Tiles, NoOverlap
<1> QED
  BY <1>1, PartitionInvariant, PTL

\* No unit of the region is ever lost.
THEOREM NoLeakTheorem == Spec => []NoLeak
<1>1. Partition => NoLeak
  BY DEF Partition, Tiles, NoLeak
<1> QED
  BY <1>1, PartitionInvariant, PTL
=============================================================================

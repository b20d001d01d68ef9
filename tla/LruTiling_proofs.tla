--------------------------- MODULE LruTiling_proofs --------------------------
(***************************************************************************)
(* The host's tiling cuts every row into non-empty tiles, without gap or   *)
(* overlap, whatever the shape and the number of cores; before that, facts *)
(* about rows, tiles and sums over tile counts.                            *)
(***************************************************************************)
EXTENDS LruTiling, FiniteSetTheorems, TLAPS

------------------------------------------------------------------------------
\* A non-empty set of natural numbers has a least element: what stands in for
\* induction in these proofs.
LEMMA Least ==
    ASSUME NEW S, S \subseteq Nat, S # {}
    PROVE  \E m \in S : \A x \in S : m <= x
<1>1. PICK m \in S : \A x \in S : ~(<<x, m>> \in OpToRel(<, Nat))
  BY WFMin, NatLessThanWellFounded
<1>2. \A x \in S : ~(x < m)
  BY <1>1 DEF OpToRel
<1> QED BY <1>2

\* n slots are a finite set of n elements.
LEMMA SlotsFinite ==
    ASSUME NEW n \in Nat
    PROVE  IsFiniteSet(Slots(n)) /\ Cardinality(Slots(n)) = n
<1>1. IsFiniteSet(0 .. n-1) /\ Cardinality(0 .. n-1) = IF 0 > n-1 THEN 0 ELSE (n-1) - 0 + 1
  BY FS_Interval
<1> QED BY <1>1 DEF Slots

------------------------------------------------------------------------------
\* Sums over tile counts.

\* f is the running sum that the recursive function of Total describes.
IsSum(f, count, lo, hi) ==
    f = [t \in lo..hi |-> IF t = lo THEN 0 ELSE f[t-1] + count[t-1]]

LEMMA SumUnique ==
    ASSUME NEW count, NEW lo \in Nat, NEW hi \in Nat, NEW f, NEW g,
           IsSum(f, count, lo, hi), IsSum(g, count, lo, hi)
    PROVE  f = g
<1> DEFINE D == {t \in lo..hi : f[t] # g[t]}
<1> SUFFICES ASSUME D # {} PROVE FALSE
  BY DEF IsSum
<1>1. PICK m \in D : \A x \in D : m <= x
  <2>1. D \subseteq Nat
    OBVIOUS
  <2> QED BY <2>1, Least
<1>2. m # lo
  BY <1>1 DEF IsSum
<1>3. m-1 \in lo..hi /\ m-1 \notin D
  BY <1>1, <1>2
<1>4. f[m] = f[m-1] + count[m-1] /\ g[m] = g[m-1] + count[m-1]
  BY <1>1, <1>2 DEF IsSum
<1> QED BY <1>1, <1>3, <1>4

\* Whatever satisfies the recursion gives the total.
LEMMA TotalIs ==
    ASSUME NEW count, NEW lo \in Nat, NEW hi \in Nat, lo <= hi, NEW f,
           IsSum(f, count, lo, hi)
    PROVE  Total(count, lo, hi) = f[hi]
<1> DEFINE s == CHOOSE g : g = [t \in lo..hi |-> IF t = lo THEN 0 ELSE g[t-1] + count[t-1]]
<1>1. s = f
  BY SumUnique DEF IsSum
<1>2. Total(count, lo, hi) = s[hi]
  BY DEF Total
<1> QED BY <1>1, <1>2

\* The recursion has a solution, an integer at every tile.
LEMMA SumExists ==
    ASSUME NEW count, NEW lo \in Nat, NEW hi \in Nat, lo <= hi,
           \A t \in lo .. hi-1 : count[t] \in Int
    PROVE  \E f \in [lo..hi -> Int] : IsSum(f, count, lo, hi)
<1> DEFINE D == {h \in lo..hi : ~ \E f \in [lo..h -> Int] : IsSum(f, count, lo, h)}
<1> SUFFICES ASSUME D # {} PROVE FALSE
  OBVIOUS
<1>1. PICK m \in D : \A x \in D : m <= x
  <2>1. D \subseteq Nat
    OBVIOUS
  <2> QED BY <2>1, Least
<1>2. CASE m = lo
  <2> DEFINE f == [t \in lo..lo |-> 0]
  <2>1. f \in [lo..lo -> Int] /\ IsSum(f, count, lo, lo)
    BY DEF IsSum
  <2> QED BY <2>1, <1>1, <1>2
<1>3. CASE m # lo
  <2>1. m-1 \in lo..hi /\ m-1 \notin D
    BY <1>1, <1>3
  <2>2. PICK f \in [lo..(m-1) -> Int] : IsSum(f, count, lo, m-1)
    BY <2>1
  <2> DEFINE g == [t \in lo..m |-> IF t = m THEN f[m-1] + count[m-1] ELSE f[t]]
  <2>3. g \in [lo..m -> Int]
    BY <2>1, <2>2
  <2>4. \A t \in lo..m : g[t] = IF t = lo THEN 0 ELSE g[t-1] + count[t-1]
    <3> TAKE t \in lo..m
    <3>1. CASE t = m
      BY <3>1, <2>1, <1>3
    <3>2. CASE t # m
      <4>1. t \in lo..(m-1) /\ (t # lo => t-1 \in lo..(m-1) /\ t-1 # m)
        BY <3>2, <2>1
      <4>2. f[t] = IF t = lo THEN 0 ELSE f[t-1] + count[t-1]
        BY <4>1, <2>2 DEF IsSum
      <4> QED BY <4>1, <4>2, <3>2
    <3> QED BY <3>1, <3>2
  <2>5. IsSum(g, count, lo, m)
    BY <2>4 DEF IsSum
  <2> QED BY <2>3, <2>5, <1>1
<1> QED BY <1>2, <1>3

\* The total of no tiles is 0, of one tile more its count more.
LEMMA TotalStep ==
    ASSUME NEW count, NEW lo \in Nat, NEW hi \in Nat, lo <= hi,
           \A t \in lo .. hi-1 : count[t] \in Int
    PROVE  /\ Total(count, lo, hi) \in Int
           /\ Total(count, lo, lo) = 0
           /\ lo < hi => Total(count, lo, hi) = Total(count, lo, hi-1) + count[hi-1]
<1>1. PICK f \in [lo..hi -> Int] : IsSum(f, count, lo, hi)
  BY SumExists
<1>2. Total(count, lo, hi) = f[hi]
  BY <1>1, TotalIs
<1>3. \A h \in lo..hi : Total(count, lo, h) = f[h]
  <2> TAKE h \in lo..hi
  <2> DEFINE g == [t \in lo..h |-> f[t]]
  <2>1. IsSum(g, count, lo, h)
    <3>1. \A t \in lo..h : g[t] = IF t = lo THEN 0 ELSE g[t-1] + count[t-1]
      <4> TAKE t \in lo..h
      <4>1. f[t] = IF t = lo THEN 0 ELSE f[t-1] + count[t-1]
        BY <1>1 DEF IsSum
      <4> QED BY <4>1
    <3> QED BY <3>1 DEF IsSum
  <2> QED BY <2>1, TotalIs
<1>4. lo < hi => f[hi] = f[hi-1] + count[hi-1]
  BY <1>1 DEF IsSum
<1>5. f[lo] = 0
  BY <1>1 DEF IsSum
<1> QED BY <1>1, <1>2, <1>3, <1>4, <1>5

------------------------------------------------------------------------------
\* Counting positions of a row.

\* The members of S to the left of p, and those to the right.
Below(S, p) == {q \in S : q < p}

Above(S, p) == {q \in S : q > p}

LEMMA SubsetOfSlots ==
    ASSUME NEW n \in Nat, NEW S, S \subseteq Slots(n)
    PROVE  /\ IsFiniteSet(S) /\ Cardinality(S) \in Nat /\ Cardinality(S) <= n
           /\ \A p \in S : p \in Nat /\ p < n
<1>1. IsFiniteSet(S) /\ Cardinality(S) \in Nat /\ Cardinality(S) <= n
  BY SlotsFinite, FS_Subset, FS_CardinalityType
<1>2. \A p \in S : p \in Nat /\ p < n
  BY DEF Slots
<1> QED BY <1>1, <1>2

LEMMA CardinalitySplit ==
    ASSUME NEW A, NEW B, IsFiniteSet(A), IsFiniteSet(B), A \cap B = {}
    PROVE  /\ IsFiniteSet(A \cup B)
           /\ Cardinality(A \cup B) = Cardinality(A) + Cardinality(B)
<1>1. Cardinality(A \cap B) = 0
  BY FS_EmptySet
<1> QED BY <1>1, FS_Union, FS_CardinalityType

\* A function between finite sets of one size that takes no value twice takes every
\* value.
LEMMA InjectionIsOnto ==
    ASSUME NEW S, NEW T, IsFiniteSet(T), Cardinality(S) = Cardinality(T),
           NEW f \in [S -> T], \A x, y \in S : f[x] = f[y] => x = y,
           NEW y \in T
    PROVE  \E x \in S : f[x] = y
<1>1. f \in Injection(S, T)
  BY DEF Injection, IsInjective
<1>2. f \in Surjection(S, T)
  BY <1>1, FS_Injection
<1> QED BY <1>2 DEF Surjection

\* Two sets of which each member of one has its partner in the other are of one size.
LEMMA SameSize ==
    ASSUME NEW S, NEW T, IsFiniteSet(T), NEW f \in [S -> T],
           \A x, y \in S : f[x] = f[y] => x = y,
           \A y \in T : \E x \in S : f[x] = y
    PROVE  IsFiniteSet(S) /\ Cardinality(S) = Cardinality(T)
<1>1. f \in Injection(S, T) /\ f \in Surjection(S, T)
  BY DEF Injection, IsInjective, Surjection
<1> QED BY <1>1, FS_Injection

\* The members of S have the ranks 0..|S|-1 from the left, each exactly one ...
LEMMA RanksBelow ==
    ASSUME NEW n \in Nat, NEW S, S \subseteq Slots(n)
    PROVE  /\ \A p \in S : Cardinality(Below(S, p)) \in Slots(Cardinality(S))
           /\ \A p, q \in S : p < q => Cardinality(Below(S, p)) < Cardinality(Below(S, q))
           /\ \A p, q \in S : Cardinality(Below(S, p)) = Cardinality(Below(S, q)) => p = q
           /\ \A r \in Slots(Cardinality(S)) : \E p \in S : Cardinality(Below(S, p)) = r
<1>1. IsFiniteSet(S) /\ Cardinality(S) \in Nat /\ \A p \in S : p \in Int
  BY SubsetOfSlots
<1>2. ASSUME NEW T, NEW U, U \subseteq S, T \subseteq U, NEW p \in U, p \notin T
      PROVE  Cardinality(T) \in Nat /\ Cardinality(U) \in Nat /\ Cardinality(T) < Cardinality(U)
  <2>1. IsFiniteSet(U)
    BY <1>1, <1>2, FS_Subset
  <2>2. IsFiniteSet(T) /\ Cardinality(T) <= Cardinality(U) /\ Cardinality(T) # Cardinality(U)
    BY <1>2, <2>1, FS_Subset
  <2>3. Cardinality(T) \in Nat /\ Cardinality(U) \in Nat
    BY <2>1, <2>2, FS_CardinalityType
  <2> QED BY <2>2, <2>3
<1>3. ASSUME NEW p \in S PROVE Cardinality(Below(S, p)) \in Slots(Cardinality(S))
  <2>1. Below(S, p) \subseteq S /\ p \notin Below(S, p)
    BY <1>1 DEF Below
  <2>2. Cardinality(Below(S, p)) \in Nat /\ Cardinality(Below(S, p)) < Cardinality(S)
    BY <1>2, <2>1
  <2> QED BY <2>2, <1>1 DEF Slots
<1>4. ASSUME NEW p \in S, NEW q \in S, p < q
      PROVE  Cardinality(Below(S, p)) < Cardinality(Below(S, q))
  <2>1. /\ Below(S, q) \subseteq S /\ Below(S, p) \subseteq Below(S, q)
        /\ p \in Below(S, q) /\ p \notin Below(S, p)
    BY <1>1, <1>4 DEF Below
  <2> QED BY <2>1, <1>2
<1>5. ASSUME NEW p \in S, NEW q \in S, Cardinality(Below(S, p)) = Cardinality(Below(S, q))
      PROVE  p = q
  <2>1. Cardinality(Below(S, p)) \in Int /\ Cardinality(Below(S, q)) \in Int
    BY <1>1, <1>3 DEF Slots
  <2>2. ~(p < q) /\ ~(q < p)
    BY <1>4, <1>5, <2>1
  <2> QED BY <2>2, <1>1
<1>6. ASSUME NEW r \in Slots(Cardinality(S)) PROVE \E p \in S : Cardinality(Below(S, p)) = r
  <2> DEFINE f == [p \in S |-> Cardinality(Below(S, p))]
  <2>1. f \in [S -> Slots(Cardinality(S))]
    BY <1>3
  <2>2. \A p, q \in S : f[p] = f[q] => p = q
    BY <1>5
  <2>3. IsFiniteSet(Slots(Cardinality(S))) /\ Cardinality(Slots(Cardinality(S))) = Cardinality(S)
    BY <1>1, SlotsFinite
  <2> HIDE DEF f
  <2>4. \E p \in S : f[p] = r
    BY <2>1, <2>2, <2>3, InjectionIsOnto
  <2> QED BY <2>4 DEF f
<1> QED BY <1>3, <1>4, <1>5, <1>6

\* ... and from the right.
LEMMA RanksAbove ==
    ASSUME NEW n \in Nat, NEW S, S \subseteq Slots(n)
    PROVE  /\ \A p \in S : /\ Cardinality(Above(S, p)) \in Slots(Cardinality(S))
                           /\ Cardinality(Above(S, p)) + Cardinality(Below(S, p)) + 1
                                  = Cardinality(S)
           /\ \A p, q \in S : p < q => Cardinality(Above(S, q)) < Cardinality(Above(S, p))
           /\ \A p, q \in S : Cardinality(Above(S, p)) = Cardinality(Above(S, q)) => p = q
           /\ \A r \in Slots(Cardinality(S)) : \E p \in S : Cardinality(Above(S, p)) = r
<1>1. IsFiniteSet(S) /\ Cardinality(S) \in Nat /\ \A p \in S : p \in Int
  BY SubsetOfSlots
<1>2. ASSUME NEW p \in S
      PROVE  /\ Cardinality(Above(S, p)) + Cardinality(Below(S, p)) + 1 = Cardinality(S)
             /\ Cardinality(Above(S, p)) \in Nat /\ Cardinality(Below(S, p)) \in Nat
  <2>1. IsFiniteSet(Above(S, p)) /\ IsFiniteSet(Below(S, p)) /\ IsFiniteSet({p})
    BY <1>1, FS_Subset, FS_Singleton DEF Above, Below
  <2>2. Above(S, p) \cap Below(S, p) = {} /\ p \notin Above(S, p) \cup Below(S, p)
    BY <1>1 DEF Above, Below
  <2>3. S = (Above(S, p) \cup Below(S, p)) \cup {p}
    BY <1>1 DEF Above, Below
  <2>4. /\ IsFiniteSet(Above(S, p) \cup Below(S, p))
        /\ Cardinality(Above(S, p) \cup Below(S, p))
              = Cardinality(Above(S, p)) + Cardinality(Below(S, p))
    BY <2>1, <2>2, CardinalitySplit
  <2>5. Cardinality(S) = Cardinality(Above(S, p) \cup Below(S, p)) + 1
    BY <2>2, <2>3, <2>4, FS_AddElement
  <2> QED BY <2>1, <2>4, <2>5, FS_CardinalityType
<1>3. ASSUME NEW p \in S, NEW q \in S
      PROVE  /\ p < q => Cardinality(Above(S, q)) < Cardinality(Above(S, p))
             /\ Cardinality(Above(S, p)) = Cardinality(Above(S, q)) => p = q
  <2>1. /\ p < q => Cardinality(Below(S, p)) < Cardinality(Below(S, q))
        /\ Cardinality(Below(S, p)) = Cardinality(Below(S, q)) => p = q
    BY RanksBelow
  <2> QED BY <1>1, <1>2, <2>1
<1>4. ASSUME NEW r \in Slots(Cardinality(S)) PROVE \E p \in S : Cardinality(Above(S, p)) = r
  <2>1. r \in Nat /\ Cardinality(S) - 1 - r \in Slots(Cardinality(S))
    BY <1>1 DEF Slots
  <2>2. PICK p \in S : Cardinality(Below(S, p)) = Cardinality(S) - 1 - r
    BY <2>1, RanksBelow
  <2> QED BY <2>1, <2>2, <1>1, <1>2
<1>5. \A p \in S : Cardinality(Above(S, p)) \in Slots(Cardinality(S))
  BY <1>1, <1>2 DEF Slots
<1> QED BY <1>2, <1>3, <1>4, <1>5

\* Compaction puts every survivor at its rank.
LEMMA CompactLeftAt ==
    ASSUME NEW n \in Nat, NEW S, S \subseteq Slots(n), NEW row, NEW p \in S
    PROVE  CompactLeft(S, row)[Cardinality(Below(S, p))] = row[p]
<1> DEFINE r == Cardinality(Below(S, p))
<1>1. r \in Slots(Cardinality(S))
  BY RanksBelow
<1>2. (CHOOSE q \in S : Cardinality({x \in S : x < q}) = r) = p
  <2>1. \A q \in S : Cardinality({x \in S : x < q}) = r <=> q = p
    <3>1. \A q \in S : Cardinality(Below(S, q)) = r <=> q = p
      BY RanksBelow
    <3> QED BY <3>1 DEF Below
  <2> QED BY <2>1
<1> QED BY <1>1, <1>2 DEF CompactLeft

LEMMA CompactRightAt ==
    ASSUME NEW n \in Nat, NEW S, S \subseteq Slots(n), NEW row, NEW p \in S
    PROVE  CompactRight(S, row)[Cardinality(Above(S, p))] = row[p]
<1> DEFINE r == Cardinality(Above(S, p))
<1>1. r \in Slots(Cardinality(S))
  BY RanksAbove
<1>2. (CHOOSE q \in S : Cardinality({x \in S : x > q}) = r) = p
  <2>1. \A q \in S : Cardinality({x \in S : x > q}) = r <=> q = p
    <3>1. \A q \in S : Cardinality(Above(S, q)) = r <=> q = p
      BY RanksAbove
    <3> QED BY <3>1 DEF Above
  <2> QED BY <2>1
<1> QED BY <1>1, <1>2 DEF CompactRight

\* Of a set whose members are ranked from the right, n have a rank below n.
LEMMA RankedBelow ==
    ASSUME NEW n \in Nat, NEW S, S \subseteq Slots(n), NEW m \in Nat, m <= Cardinality(S)
    PROVE  /\ Cardinality({p \in S : Cardinality(Above(S, p)) < m}) = m
           /\ Cardinality({p \in S : Cardinality(Above(S, p)) >= m}) = Cardinality(S) - m
<1> DEFINE low  == {p \in S : Cardinality(Above(S, p)) < m}
           high == {p \in S : Cardinality(Above(S, p)) >= m}
           f    == [p \in low |-> Cardinality(Above(S, p))]
<1>1. IsFiniteSet(S) /\ Cardinality(S) \in Nat
  BY SubsetOfSlots
<1>2. \A p \in S : Cardinality(Above(S, p)) \in Nat
  <2>1. \A p \in S : Cardinality(Above(S, p)) \in Slots(Cardinality(S))
    BY RanksAbove
  <2> QED BY <1>1, <2>1 DEF Slots
<1>3. f \in [low -> Slots(m)]
  <2>1. \A p \in low : Cardinality(Above(S, p)) \in Slots(m)
    BY <1>2 DEF Slots
  <2> QED BY <2>1
<1>4. \A p, q \in low : f[p] = f[q] => p = q
  BY RanksAbove
<1>5. \A r \in Slots(m) : \E p \in low : f[p] = r
  <2> TAKE r \in Slots(m)
  <2>1. r \in Slots(Cardinality(S)) /\ r < m
    BY <1>1 DEF Slots
  <2>2. PICK p \in S : Cardinality(Above(S, p)) = r
    BY <2>1, RanksAbove
  <2> QED BY <2>1, <2>2
<1>6. IsFiniteSet(Slots(m)) /\ Cardinality(Slots(m)) = m
  BY SlotsFinite
<1> HIDE DEF f
<1>7. Cardinality(low) = m
  BY <1>3, <1>4, <1>5, <1>6, SameSize
<1>8. low \cap high = {} /\ S = low \cup high
  BY <1>2
<1>9. IsFiniteSet(low) /\ IsFiniteSet(high)
  BY <1>1, FS_Subset
<1>10. Cardinality(high) \in Nat
  BY <1>9, FS_CardinalityType
<1> HIDE DEF low, high
<1>11. Cardinality(S) = Cardinality(low) + Cardinality(high)
  BY <1>8, <1>9, CardinalitySplit
<1>12. Cardinality(high) = Cardinality(S) - m
  BY <1>1, <1>7, <1>10, <1>11
<1> QED BY <1>7, <1>12 DEF low, high

------------------------------------------------------------------------------
\* A row of ids and the ids that slots hit.

\* The ids of an lru row are each at one position: as many positions are left as
\* there are ids that no slot hit.
LEMMA UnhitCount ==
    ASSUME NEW n \in Nat, NEW k \in Nat,
           NEW lruRow \in [Slots(n) -> Slots(n)],
           \A p, q \in Slots(n) : lruRow[p] = lruRow[q] => p = q,
           NEW hitRow, NEW hits, hits \subseteq Slots(k), \A i \in hits : hitRow[i] \in Slots(n),
           \A i, j \in hits : hitRow[i] = hitRow[j] => i = j
    PROVE  Cardinality({p \in Slots(n) : \A i \in hits : hitRow[i] # lruRow[p]})
              = n - Cardinality(hits)
<1> DEFINE free == {p \in Slots(n) : \A i \in hits : hitRow[i] # lruRow[p]}
           used == {p \in Slots(n) : \E i \in hits : hitRow[i] = lruRow[p]}
           f    == [p \in used |-> CHOOSE i \in hits : hitRow[i] = lruRow[p]]
<1>1. \A p \in used : f[p] \in hits /\ hitRow[f[p]] = lruRow[p]
  OBVIOUS
<1>2. f \in [used -> hits]
  BY <1>1
<1> HIDE DEF f
<1>3. \A p, q \in used : f[p] = f[q] => p = q
  BY <1>1
<1>4. \A i \in hits : \E p \in used : f[p] = i
  <2> TAKE i \in hits
  <2>1. hitRow[i] \in Slots(n)
    OBVIOUS
  <2>2. PICK p \in Slots(n) : lruRow[p] = hitRow[i]
    BY <2>1, SlotsFinite, InjectionIsOnto
  <2>3. p \in used
    BY <2>2
  <2> QED BY <1>1, <2>2, <2>3
<1>5. IsFiniteSet(hits) /\ Cardinality(hits) \in Nat
  BY SubsetOfSlots
<1>6. Cardinality(used) = Cardinality(hits)
  BY <1>2, <1>3, <1>4, <1>5, SameSize
<1>7. free \cap used = {} /\ Slots(n) = free \cup used
  OBVIOUS
<1>8. IsFiniteSet(free) /\ IsFiniteSet(used) /\ Cardinality(free) \in Nat
  BY SubsetOfSlots
<1> HIDE DEF free, used
<1>9. n = Cardinality(free) + Cardinality(used)
  BY <1>7, <1>8, CardinalitySplit, SlotsFinite
<1>10. Cardinality(free) = n - Cardinality(hits)
  BY <1>5, <1>6, <1>8, <1>9
<1> QED BY <1>10 DEF free

\* The positions whose id is not among the hits, those of them with at least m free
\* ids to the right, and the positions whose id is nowhere in a row.
FreeOf(n, lruRow, hitRow, hits) == {p \in Slots(n) : \A i \in hits : hitRow[i] # lruRow[p]}

Late(S, m) == {p \in S : Cardinality(Above(S, p)) >= m}

Unselected(n, k, lruRow, filled) ==
    {p \in Slots(n) : lruRow[p] \notin {filled[i] : i \in Slots(k)}}

\* A row holds no value twice; a row that fills the misses of another and agrees with
\* it at the hits, miss i with the free id that has as many to its right as i has
\* misses to its left.
Distinct(n, row) == \A p, q \in Slots(n) : row[p] = row[q] => p = q

KeepsHits(hits, filled, hitRow) == \A i \in hits : filled[i] = hitRow[i]

TakesFree(misses, free, filled, lruRow) ==
    \A i \in misses, p \in free :
        Cardinality(Above(free, p)) = Cardinality(Below(misses, i)) => filled[i] = lruRow[p]

FindsFree(misses, free, filled, lruRow) ==
    \A i \in misses : \E p \in free :
        /\ Cardinality(Above(free, p)) = Cardinality(Below(misses, i))
        /\ filled[i] = lruRow[p]

\* Misses take the free ids from the right: what stays are the free ids of rank at
\* least the number of misses.
LEMMA WhatStays ==
    ASSUME NEW n \in Nat, NEW k \in Nat,
           NEW lruRow, Distinct(n, lruRow),
           NEW hitRow, NEW hits, hits \subseteq Slots(k),
           NEW free, free = FreeOf(n, lruRow, hitRow, hits),
           NEW misses, misses = Slots(k) \ hits, Cardinality(misses) <= Cardinality(free),
           NEW filled, KeepsHits(hits, filled, hitRow), TakesFree(misses, free, filled, lruRow)
    PROVE  /\ Unselected(n, k, lruRow, filled) = Late(free, Cardinality(misses))
           /\ FindsFree(misses, free, filled, lruRow)
<1> USE DEF FreeOf, Distinct, KeepsHits, TakesFree
<1>1. /\ free \subseteq Slots(n) /\ misses \subseteq Slots(k)
      /\ Cardinality(free) \in Nat /\ Cardinality(misses) \in Nat
  BY SubsetOfSlots
<1>2. ASSUME NEW i \in misses
      PROVE  \E p \in free : /\ Cardinality(Above(free, p)) = Cardinality(Below(misses, i))
                             /\ filled[i] = lruRow[p]
  <2>1. Cardinality(Below(misses, i)) \in Slots(Cardinality(misses))
    BY ONLY k \in Nat, <1>1, RanksBelow
  <2>2. Cardinality(Below(misses, i)) \in Slots(Cardinality(free))
    BY <1>1, <2>1 DEF Slots
  <2>3. \A r \in Slots(Cardinality(free)) : \E p \in free : Cardinality(Above(free, p)) = r
    BY ONLY n \in Nat, <1>1, RanksAbove
  <2>4. PICK p \in free : Cardinality(Above(free, p)) = Cardinality(Below(misses, i))
    BY <2>2, <2>3
  <2> QED BY <2>4
<1>3. ASSUME NEW p \in free, Cardinality(Above(free, p)) < Cardinality(misses)
      PROVE  \E i \in Slots(k) : filled[i] = lruRow[p]
  <2>1. Cardinality(Above(free, p)) \in Slots(Cardinality(free))
    BY ONLY n \in Nat, <1>1, RanksAbove
  <2>2. Cardinality(Above(free, p)) \in Slots(Cardinality(misses))
    BY <1>1, <1>3, <2>1 DEF Slots
  <2>3. \A r \in Slots(Cardinality(misses)) : \E i \in misses : Cardinality(Below(misses, i)) = r
    BY ONLY k \in Nat, <1>1, RanksBelow
  <2>4. PICK i \in misses : Cardinality(Below(misses, i)) = Cardinality(Above(free, p))
    BY <2>2, <2>3
  <2> QED BY <2>4
<1>4. ASSUME NEW p \in free, NEW i \in Slots(k), filled[i] = lruRow[p]
      PROVE  Cardinality(Above(free, p)) < Cardinality(misses)
  <2>1. i \in misses
    BY <1>4
  <2>2. PICK q \in free : /\ Cardinality(Above(free, q)) = Cardinality(Below(misses, i))
                         /\ filled[i] = lruRow[q]
    BY <1>2, <2>1
  <2>3. q = p
    BY <1>4, <2>2
  <2>4. Cardinality(Below(misses, i)) \in Slots(Cardinality(misses))
    BY <1>1, <2>1, RanksBelow
  <2> QED BY <1>1, <2>2, <2>3, <2>4 DEF Slots
<1>5. ASSUME NEW p \in Slots(n), p \notin free
      PROVE  \E i \in Slots(k) : filled[i] = lruRow[p]
  BY <1>5
<1>6. \A p \in free : Cardinality(Above(free, p)) \in Nat
  <2>1. \A p \in free : Cardinality(Above(free, p)) \in Slots(Cardinality(free))
    BY ONLY n \in Nat, <1>1, RanksAbove
  <2> QED BY <1>1, <2>1 DEF Slots
<1>7. ASSUME NEW p \in Slots(n)
      PROVE  lruRow[p] \notin {filled[i] : i \in Slots(k)}
                <=> p \in free /\ Cardinality(Above(free, p)) >= Cardinality(misses)
  <2>1. CASE p \notin free
    BY <1>5, <2>1
  <2>2. CASE p \in free /\ Cardinality(Above(free, p)) < Cardinality(misses)
    <3>1. \E i \in Slots(k) : filled[i] = lruRow[p]
      BY <1>3, <2>2
    <3> QED BY <1>1, <1>6, <2>2, <3>1
  <2>3. CASE p \in free /\ ~(Cardinality(Above(free, p)) < Cardinality(misses))
    <3>1. ~ \E i \in Slots(k) : filled[i] = lruRow[p]
      BY <1>4, <2>3
    <3>2. Cardinality(Above(free, p)) >= Cardinality(misses)
      BY <1>1, <1>6, <2>3
    <3> QED BY <2>3, <3>1, <3>2
  <2> QED BY <2>1, <2>2, <2>3
<1> QED BY <1>1, <1>2, <1>7 DEF Unselected, Late, FindsFree

------------------------------------------------------------------------------
\* The tile lengths.

LEMMA AlignUpBounds ==
    ASSUME NEW value \in Nat, NEW alignment \in Nat \ {0}
    PROVE  /\ AlignUp(value, alignment) \in Nat
           /\ value <= AlignUp(value, alignment)
           /\ AlignUp(value, alignment) < value + alignment
BY DEF AlignUp

\* A tile holds at least one element and at most the largest tile's.
LEMMA TileLengthBounds ==
    ASSUME NEW length \in Nat, NEW batchSize \in Nat \ {0}, NEW coreNum \in Nat \ {0}
    PROVE  /\ MakeParallelTileLength(length, batchSize, coreNum) \in Nat \ {0}
           /\ MakeParallelTileLength(length, batchSize, coreNum) <= kMaximumTileLength
<1> DEFINE R == DesiredTilesPerRow(batchSize, coreNum)
           fitted == AlignDown(length \div R, kInt32PerDataBlock)
<1>1. R \in Nat \ {0}
  BY DEF DesiredTilesPerRow
<1>2. length \div R \in Nat
  BY <1>1
<1> HIDE DEF R
<1>3. fitted \in Int
  BY <1>2, TilingAssumption DEF AlignDown
<1> HIDE DEF fitted
<1>4. MakeParallelTileLength(length, batchSize, coreNum)
        = MinInt64(MaxInt64(fitted, kInt32PerDataBlock), kMaximumTileLength)
  BY DEF MakeParallelTileLength, fitted, R
<1> QED BY <1>3, <1>4, TilingAssumption DEF MinInt64, MaxInt64

\* A block dimension is at least one and at most the number of cores.
LEMMA BlockDimBounds ==
    ASSUME NEW taskCount \in Nat, NEW coreNum \in Nat \ {0}
    PROVE  /\ MakeBlockDim(taskCount, coreNum) \in 1..coreNum
           /\ MakeBlockDim(taskCount, coreNum) <= taskCount \/ taskCount = 0
BY DEF MakeBlockDim, MinInt64, MaxInt64

\* Position p of a row lies in tile p \div tileLength and in no other; tiles are
\* not empty; all but the last are full.
LEMMA TilesPartition ==
    ASSUME NEW length \in Nat \ {0}, NEW tileLength \in Nat \ {0}
    PROVE  LET count == TileCount(length, tileLength)
           IN  /\ count \in Nat \ {0}
               /\ length <= count * tileLength
               /\ \A t \in Slots(count) :
                     /\ t * tileLength \in Slots(length)
                     /\ Tile(length, tileLength, t)
                          = {p \in Slots(length) : t * tileLength <= p /\ p < t * tileLength + tileLength}
               /\ \A p \in Slots(length) :
                     /\ p \div tileLength \in Slots(count)
                     /\ p \in Tile(length, tileLength, p \div tileLength)
               /\ \A t, u \in Slots(count) :
                     t # u => Tile(length, tileLength, t) \cap Tile(length, tileLength, u) = {}
<1> DEFINE count == TileCount(length, tileLength)
<1>1. /\ count \in Nat \ {0} /\ length <= count * tileLength
      /\ count * tileLength < length + tileLength
  BY DEF TileCount
<1> HIDE DEF count
<1>2. ASSUME NEW t \in Slots(count)
      PROVE  /\ t * tileLength \in Slots(length)
             /\ Tile(length, tileLength, t)
                  = {p \in Slots(length) : t * tileLength <= p /\ p < t * tileLength + tileLength}
  <2> DEFINE start == t * tileLength
  <2>1. t \in Nat /\ t <= count - 1
    BY <1>1 DEF Slots
  <2>2. start \in Nat
    BY <2>1
  <2>3. t * tileLength <= (count - 1) * tileLength
    BY <2>1, <1>1
  <2>4. (count - 1) * tileLength = count * tileLength - tileLength
    BY <1>1
  <2>5. start < length
    <3> DEFINE whole == count * tileLength
    <3>1. whole \in Nat /\ whole < length + tileLength
      BY <1>1
    <3>2. start <= whole - tileLength
      BY <2>3, <2>4
    <3> HIDE DEF start, whole
    <3> QED BY <2>2, <3>1, <3>2
  <2> HIDE DEF start
  <2>6. Tile(length, tileLength, t) = start .. start + MinInt64(tileLength, length - start) - 1
    BY DEF Tile, start
  <2>7. \A p : p \in Tile(length, tileLength, t)
                 <=> p \in Slots(length) /\ start <= p /\ p < start + tileLength
    BY <2>6, <2>2, <2>5 DEF MinInt64, Slots
  <2>8. start \in Slots(length)
    BY <2>2, <2>5 DEF Slots
  <2> QED BY <2>7, <2>8 DEF start
<1>3. ASSUME NEW p \in Slots(length)
      PROVE  p \div tileLength \in Slots(count) /\ p \in Tile(length, tileLength, p \div tileLength)
  <2> DEFINE q == p \div tileLength
  <2>1. p \in Nat /\ p < length
    BY DEF Slots
  <2>2. q \in Nat /\ q * tileLength <= p /\ p < q * tileLength + tileLength
    BY <2>1
  <2> HIDE DEF q
  <2>3. q * tileLength < count * tileLength
    BY <2>1, <2>2, <1>1
  <2>4. q < count
    BY <2>3, <2>2, <1>1
  <2>5. q \in Slots(count)
    BY <2>4, <2>2, <1>1 DEF Slots
  <2> QED BY <2>5, <2>2, <1>2 DEF q
<1>4. ASSUME NEW t \in Slots(count), NEW u \in Slots(count), t < u
      PROVE  Tile(length, tileLength, t) \cap Tile(length, tileLength, u) = {}
  <2>1. t \in Nat /\ u \in Nat /\ t + 1 <= u
    BY <1>1, <1>4 DEF Slots
  <2>2. (t + 1) * tileLength <= u * tileLength
    BY <2>1
  <2>3. t * tileLength + tileLength <= u * tileLength
    BY <2>1, <2>2
  <2>4. t * tileLength \in Nat /\ u * tileLength \in Nat
    BY <2>1
  <2> QED BY <2>3, <2>4, <1>2 DEF Slots
<1>5. \A t, u \in Slots(count) :
          t # u => Tile(length, tileLength, t) \cap Tile(length, tileLength, u) = {}
  <2> TAKE t, u \in Slots(count)
  <2>1. t \in Int /\ u \in Int
    BY <1>1 DEF Slots
  <2> QED BY <2>1, <1>4
<1> QED BY <1>1, <1>2, <1>3, <1>5 DEF count

\* Task t of a kernel with `perRow' tasks in each of `rows' rows.
LEMMA TaskOfRow ==
    ASSUME NEW rows \in Nat, NEW perRow \in Nat \ {0}, NEW t \in Nat, t < rows * perRow
    PROVE  /\ t \div perRow \in Slots(rows)
           /\ t - (t \div perRow) * perRow \in Slots(perRow)
<1> DEFINE q == t \div perRow
<1>1. q \in Nat /\ q * perRow <= t /\ t < q * perRow + perRow
  OBVIOUS
<1> HIDE DEF q
<1>2. q * perRow < rows * perRow
  BY <1>1
<1>3. q < rows
  BY <1>2, <1>1
<1>4. q * perRow \in Nat
  BY <1>1
<1> QED BY <1>1, <1>3, <1>4 DEF Slots, q

\* The members of S that lie in tiles lo..hi-1.
InTiles(S, tileLength, lo, hi) == {p \in S : lo * tileLength <= p /\ p < hi * tileLength}

\* The kernels' sums: counts per tile add up to the count over a range of tiles.
LEMMA TotalOfTiles ==
    ASSUME NEW length \in Nat \ {0}, NEW tileLength \in Nat \ {0},
           NEW S, S \subseteq Slots(length), NEW count, NEW lo \in Nat, NEW hi \in Nat,
           lo <= hi, hi <= TileCount(length, tileLength),
           \A t \in lo .. hi-1 : count[t] = Cardinality(S \cap Tile(length, tileLength, t))
    PROVE  Total(count, lo, hi) = Cardinality(InTiles(S, tileLength, lo, hi))
<1> DEFINE tiles == TileCount(length, tileLength)
           upTo(h) == InTiles(S, tileLength, lo, h)
<1>1. /\ tiles \in Nat
      /\ \A t \in Slots(tiles) :
            Tile(length, tileLength, t)
               = {p \in Slots(length) : t * tileLength <= p /\ p < t * tileLength + tileLength}
  BY TilesPartition
<1> HIDE DEF tiles
<1>2. ASSUME NEW h \in Nat
      PROVE  upTo(h) \subseteq Slots(length) /\ IsFiniteSet(upTo(h)) /\ Cardinality(upTo(h)) \in Nat
  BY SubsetOfSlots DEF InTiles
<1>3. ASSUME NEW t \in lo .. hi-1
      PROVE  /\ count[t] \in Nat
             /\ Cardinality(upTo(t + 1)) = Cardinality(upTo(t)) + count[t]
  <2> DEFINE here == S \cap Tile(length, tileLength, t)
  <2>1. t \in Nat /\ t \in Slots(tiles)
    BY <1>1 DEF Slots, tiles
  <2>2. here = {p \in S : t * tileLength <= p /\ p < t * tileLength + tileLength}
    BY <1>1, <2>1
  <2>3. IsFiniteSet(here) /\ Cardinality(here) \in Nat
    BY SubsetOfSlots
  <2>4. /\ (t + 1) * tileLength = t * tileLength + tileLength
        /\ lo * tileLength <= t * tileLength
        /\ lo * tileLength \in Nat /\ t * tileLength \in Nat
    BY <2>1
  <2>5. \A p \in S : p \in Nat
    BY SubsetOfSlots
  <2> HIDE DEF here
  <2>6. upTo(t) \cap here = {}
    BY <2>2, <2>4, <2>5 DEF InTiles
  <2>7. upTo(t + 1) = upTo(t) \cup here
    BY <2>2, <2>4, <2>5 DEF InTiles
  <2>8. count[t] = Cardinality(here)
    BY DEF here
  <2> QED BY <1>2, <2>1, <2>3, <2>6, <2>7, <2>8, CardinalitySplit
<1>4. upTo(lo) = {}
  <2>1. \A p \in S : p \in Nat
    BY SubsetOfSlots
  <2>2. lo * tileLength \in Nat
    OBVIOUS
  <2> QED BY <2>1, <2>2 DEF InTiles
<1> HIDE DEF upTo
<1> DEFINE D == {h \in lo..hi : Total(count, lo, h) # Cardinality(upTo(h))}
<1> SUFFICES ASSUME D # {} PROVE FALSE
  BY DEF upTo
<1>5. PICK m \in D : \A x \in D : m <= x
  <2>1. D \subseteq Nat
    OBVIOUS
  <2> QED BY <2>1, Least
<1>6. m # lo
  <2>1. Total(count, lo, lo) = 0
    BY TotalStep, <1>3
  <2> QED BY <2>1, <1>4, <1>5, FS_EmptySet
<1>7. m-1 \in lo .. hi-1 /\ m-1 \notin D /\ m \in Nat
  BY <1>5, <1>6
<1>8. Total(count, lo, m) = Total(count, lo, m-1) + count[m-1]
  <2>1. \A t \in lo .. m-1 : count[t] \in Int
    BY <1>3, <1>7
  <2>2. m \in Nat /\ lo <= m /\ lo < m
    BY <1>7
  <2> QED BY ONLY lo \in Nat, <2>1, <2>2, TotalStep
<1>9. Total(count, lo, m-1) = Cardinality(upTo(m-1))
  BY <1>7
<1>10. Cardinality(upTo(m)) = Cardinality(upTo(m-1)) + count[m-1]
  BY <1>3, <1>7
<1> QED BY <1>5, <1>8, <1>9, <1>10
==============================================================================

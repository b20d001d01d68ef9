---------------------------- MODULE LruPlan_proofs ----------------------------
(***************************************************************************)
(* Proofs about the plan, for every k and every legal input: the returned  *)
(* order is legal again, the misses evict the oldest ids, and the plan by  *)
(* positions and ranks is what the reference's list code returns.          *)
(***************************************************************************)
EXTENDS LruPlanLists, LruTiling_proofs, SequenceTheorems

USE DEF HitSlots, LruSlots

------------------------------------------------------------------------------
\* One row: lruRow and hitRow as the caller passes them, the mask that goes with hitRow.

\* The misses, the free positions, the filled slots and the positions that stay.
LEMMA RowOfPlan ==
    ASSUME NEW lruRow, ValidLruRow(lruRow), NEW hitRow, ValidHitRow(hitRow),
           NEW maskRow, maskRow = MaskOf(hitRow)
    PROVE  LET misses == MissSlots(maskRow)
               free   == Candidates(lruRow, hitRow, maskRow)
               filled == Filled(lruRow, hitRow, maskRow)
           IN  /\ misses \subseteq Slots(k) /\ free \subseteq Slots(2 * k)
               /\ Cardinality(misses) \in Nat /\ Cardinality(free) = k + Cardinality(misses)
               /\ \A i \in HitSlots : i \notin misses => filled[i] = hitRow[i]
               /\ FindsFree(misses, free, filled, lruRow)
               /\ Remaining(lruRow, hitRow, maskRow) = Late(free, Cardinality(misses))
<1> DEFINE misses == MissSlots(maskRow)
           hits   == HitSlots \ misses
           free   == Candidates(lruRow, hitRow, maskRow)
           filled == Filled(lruRow, hitRow, maskRow)
<1>1. /\ lruRow \in [LruSlots -> LruSlots]
      /\ \A p, q \in LruSlots : lruRow[p] = lruRow[q] => p = q
      /\ hitRow \in [HitSlots -> {-1} \cup LruSlots]
      /\ \A i, j \in HitSlots : hitRow[i] = hitRow[j] /\ hitRow[i] # -1 => i = j
  BY DEF ValidLruRow, ValidHitRow
<1>2. k \in Nat /\ 2 * k \in Nat
  BY PlanAssumption
<1>3. \A i \in HitSlots : maskRow[i] <=> hitRow[i] # -1
  BY DEF MaskOf
<1>4. /\ misses \subseteq HitSlots /\ hits \subseteq HitSlots /\ misses = HitSlots \ hits
      /\ misses \cap hits = {} /\ misses \cup hits = HitSlots
      /\ \A i \in hits : maskRow[i] /\ hitRow[i] # -1
  BY <1>3 DEF MissSlots
<1>5. /\ IsFiniteSet(misses) /\ IsFiniteSet(hits)
      /\ Cardinality(misses) \in Nat /\ Cardinality(hits) \in Nat
  BY <1>2, <1>4, SubsetOfSlots
<1>6. k = Cardinality(misses) + Cardinality(hits)
  <2>1. Cardinality(HitSlots) = k
    BY <1>2, SlotsFinite
  <2> HIDE DEF misses, hits
  <2> QED BY <2>1, <1>4, <1>5, CardinalitySplit
<1>7. free = {p \in LruSlots : \A i \in hits : hitRow[i] # lruRow[p]}
  <2>1. {j \in HitSlots : maskRow[j]} = hits
    BY DEF MissSlots
  <2> QED BY <2>1 DEF Candidates, HitSet
<1>8. Cardinality(free) = 2 * k - Cardinality(hits)
  <2>1. /\ \A i \in hits : hitRow[i] \in Slots(2 * k)
        /\ \A i, j \in hits : hitRow[i] = hitRow[j] => i = j
    BY <1>1, <1>4
  <2> HIDE DEF hits, free
  <2> QED BY <1>1, <1>2, <1>4, <1>7, <2>1, UnhitCount
<1>9. /\ Cardinality(free) = k + Cardinality(misses) /\ free \subseteq LruSlots
      /\ Cardinality(misses) <= Cardinality(free)
  BY <1>2, <1>5, <1>6, <1>7, <1>8
<1>10. \A i \in hits : filled[i] = hitRow[i]
  BY <1>4 DEF Filled
<1>11. ASSUME NEW i \in misses, NEW p \in free,
              Cardinality(Above(free, p)) = Cardinality(Below(misses, i))
       PROVE  filled[i] = lruRow[p]
  <2>1. {j \in MissSlots(maskRow) : j < i} = Below(misses, i)
    BY DEF Below
  <2>2. filled[i] = CompactRight(free, lruRow)[Cardinality(Below(misses, i))]
    BY <1>4, <2>1 DEF Filled, MissSlots
  <2>3. CompactRight(free, lruRow)[Cardinality(Above(free, p))] = lruRow[p]
    BY ONLY <1>2, <1>9, <1>11, CompactRightAt
  <2> QED BY <1>11, <2>2, <2>3
<1>12. Remaining(lruRow, hitRow, maskRow) = Unselected(2 * k, k, lruRow, filled)
  BY DEF Remaining, Unselected
<1> HIDE DEF misses, hits, free, filled
<1>13. /\ Unselected(2 * k, k, lruRow, filled) = Late(free, Cardinality(misses))
       /\ FindsFree(misses, free, filled, lruRow)
  <2>1. KeepsHits(hits, filled, hitRow)
    BY <1>10 DEF KeepsHits
  <2>2. TakesFree(misses, free, filled, lruRow)
    BY <1>11 DEF TakesFree
  <2>3. /\ free = FreeOf(2 * k, lruRow, hitRow, hits) /\ Distinct(2 * k, lruRow)
        /\ misses = Slots(k) \ hits /\ hits \subseteq Slots(k)
    BY <1>1, <1>4, <1>7 DEF FreeOf, Distinct
  <2> QED BY ONLY <1>2, <1>9, <2>1, <2>2, <2>3, WhatStays
<1>14. /\ misses \subseteq Slots(k) /\ free \subseteq Slots(2 * k)
       /\ Cardinality(misses) \in Nat /\ Cardinality(free) = k + Cardinality(misses)
       /\ \A i \in HitSlots : i \notin misses => filled[i] = hitRow[i]
       /\ FindsFree(misses, free, filled, lruRow)
       /\ Remaining(lruRow, hitRow, maskRow) = Late(free, Cardinality(misses))
  BY <1>4, <1>5, <1>9, <1>10, <1>12, <1>13
<1> QED BY <1>14 DEF misses, free, filled

\* A miss and the position of the id it took.
Took(lruRow, hitRow, maskRow, i, p) ==
    /\ i \in MissSlots(maskRow) /\ p \in Candidates(lruRow, hitRow, maskRow)
    /\ Cardinality(Above(Candidates(lruRow, hitRow, maskRow), p))
          = Cardinality(Below(MissSlots(maskRow), i))
    /\ Filled(lruRow, hitRow, maskRow)[i] = lruRow[p]

\* A miss takes an id no slot hit; misses in order take ids from right to left; what
\* stays is to the left of everything taken.
LEMMA TakenInOrder ==
    ASSUME NEW lruRow, ValidLruRow(lruRow), NEW hitRow, ValidHitRow(hitRow),
           NEW maskRow, maskRow = MaskOf(hitRow)
    PROVE  /\ \A i \in MissSlots(maskRow), p \in LruSlots :
                 Filled(lruRow, hitRow, maskRow)[i] = lruRow[p]
                    => Took(lruRow, hitRow, maskRow, i, p)
           /\ \A i \in MissSlots(maskRow) : \E p \in LruSlots : Took(lruRow, hitRow, maskRow, i, p)
           /\ \A i, j, p, q : /\ Took(lruRow, hitRow, maskRow, i, p)
                              /\ Took(lruRow, hitRow, maskRow, j, q)
                              /\ j < i
                 => p < q
           /\ \A i, p : \A q \in Remaining(lruRow, hitRow, maskRow) :
                 Took(lruRow, hitRow, maskRow, i, p) => q < p
<1> DEFINE misses == MissSlots(maskRow)
           free   == Candidates(lruRow, hitRow, maskRow)
           filled == Filled(lruRow, hitRow, maskRow)
           rest   == Remaining(lruRow, hitRow, maskRow)
<1>1. /\ misses \subseteq Slots(k) /\ free \subseteq Slots(2 * k)
      /\ Cardinality(misses) \in Nat /\ FindsFree(misses, free, filled, lruRow)
      /\ rest = Late(free, Cardinality(misses))
  BY RowOfPlan
<1>2. k \in Nat /\ 2 * k \in Nat
  BY PlanAssumption
<1>3. \A p, q \in LruSlots : lruRow[p] = lruRow[q] => p = q
  BY DEF ValidLruRow
<1>4. \A i \in misses : \E p \in LruSlots : Took(lruRow, hitRow, maskRow, i, p)
  BY <1>1 DEF Took, FindsFree
<1>5. ASSUME NEW i \in misses, NEW p \in LruSlots, filled[i] = lruRow[p]
      PROVE  Took(lruRow, hitRow, maskRow, i, p)
  <2>1. PICK q \in LruSlots : Took(lruRow, hitRow, maskRow, i, q)
    BY <1>4
  <2>2. p = q
    BY <1>3, <1>5, <2>1 DEF Took
  <2> QED BY <2>1, <2>2
<1>6. ASSUME NEW p \in free, NEW q \in free, ~(p < q)
      PROVE  Cardinality(Above(free, p)) <= Cardinality(Above(free, q))
  <2> HIDE DEF free
  <2>1. p \in Int /\ q \in Int
    BY <1>1, <1>2 DEF Slots
  <2>2. \A a \in free : Cardinality(Above(free, a)) \in Slots(Cardinality(free))
    BY <1>1, <1>2, RanksAbove
  <2>3. Cardinality(Above(free, p)) \in Int /\ Cardinality(Above(free, q)) \in Int
    BY <2>2 DEF Slots
  <2>4. p = q \/ q < p
    BY <1>6, <2>1
  <2>5. q < p => Cardinality(Above(free, p)) < Cardinality(Above(free, q))
    BY <1>1, <1>2, RanksAbove
  <2> QED BY <2>3, <2>4, <2>5
<1>7. \A i \in misses : Cardinality(Below(misses, i)) \in Slots(Cardinality(misses))
  <2> HIDE DEF misses
  <2> QED BY <1>1, <1>2, RanksBelow
<1>8. ASSUME NEW i, NEW j, NEW p, NEW q, j < i,
             Took(lruRow, hitRow, maskRow, i, p), Took(lruRow, hitRow, maskRow, j, q)
      PROVE  p < q
  <2>1. /\ i \in misses /\ j \in misses /\ p \in free /\ q \in free
        /\ Cardinality(Above(free, p)) = Cardinality(Below(misses, i))
        /\ Cardinality(Above(free, q)) = Cardinality(Below(misses, j))
    BY <1>8 DEF Took
  <2> HIDE DEF misses, free
  <2>2. Cardinality(Below(misses, j)) < Cardinality(Below(misses, i))
    BY <1>1, <1>2, <1>8, <2>1, RanksBelow
  <2>3. Cardinality(Below(misses, j)) \in Int /\ Cardinality(Below(misses, i)) \in Int
    BY <1>7, <2>1 DEF Slots
  <2> QED BY <1>6, <2>1, <2>2, <2>3
<1>9. ASSUME NEW i, NEW p, NEW q \in rest, Took(lruRow, hitRow, maskRow, i, p)
      PROVE  q < p
  <2>1. /\ i \in misses /\ p \in free
        /\ Cardinality(Above(free, p)) = Cardinality(Below(misses, i))
    BY <1>9 DEF Took
  <2>2. q \in free /\ Cardinality(Above(free, q)) >= Cardinality(misses)
    BY <1>1, <1>9 DEF Late
  <2> HIDE DEF misses, free, rest
  <2>3. Cardinality(Below(misses, i)) \in Int /\ Cardinality(Below(misses, i)) < Cardinality(misses)
    BY <1>1, <1>7, <2>1 DEF Slots
  <2>4. Cardinality(Above(free, q)) \in Int
    <3>1. Cardinality(Above(free, q)) \in Slots(Cardinality(free))
      BY <1>1, <1>2, <2>2, RanksAbove
    <3> QED BY <3>1 DEF Slots
  <2> QED BY <1>1, <1>6, <2>1, <2>2, <2>3, <2>4
<1> QED BY <1>4, <1>5, <1>8, <1>9

\* The filled slots hold distinct ids.
LEMMA FilledDistinct ==
    ASSUME NEW lruRow, ValidLruRow(lruRow), NEW hitRow, ValidHitRow(hitRow),
           NEW maskRow, maskRow = MaskOf(hitRow)
    PROVE  LET filled == Filled(lruRow, hitRow, maskRow)
           IN  /\ \A i \in HitSlots : filled[i] \in LruSlots
               /\ \A i, j \in HitSlots : filled[i] = filled[j] => i = j
<1> DEFINE misses == MissSlots(maskRow)
           filled == Filled(lruRow, hitRow, maskRow)
<1>1. /\ lruRow \in [LruSlots -> LruSlots]
      /\ hitRow \in [HitSlots -> {-1} \cup LruSlots]
      /\ \A i, j \in HitSlots : hitRow[i] = hitRow[j] /\ hitRow[i] # -1 => i = j
  BY DEF ValidLruRow, ValidHitRow
<1>2. \A i \in HitSlots : i \notin misses => /\ maskRow[i] /\ hitRow[i] # -1
                                              /\ filled[i] = hitRow[i]
  BY DEF MissSlots, Filled, MaskOf
<1>3. \A i \in misses : \E p \in LruSlots : Took(lruRow, hitRow, maskRow, i, p)
  BY TakenInOrder
<1>4. \A i, p : Took(lruRow, hitRow, maskRow, i, p) =>
         /\ filled[i] = lruRow[p] /\ p \in LruSlots
         /\ lruRow[p] \notin HitSet(hitRow, maskRow)
  BY DEF Took, Candidates
<1>5. \A i \in HitSlots : i \notin misses => filled[i] \in HitSet(hitRow, maskRow)
  BY <1>2 DEF HitSet
<1>6. \A i \in HitSlots : filled[i] \in LruSlots
  BY <1>1, <1>2, <1>3, <1>4
<1>7. ASSUME NEW i \in HitSlots, NEW j \in HitSlots, filled[i] = filled[j], i # j
      PROVE  FALSE
  <2>1. i \in misses /\ j \in misses
    BY <1>1, <1>2, <1>3, <1>4, <1>5, <1>7
  <2>2. PICK p \in LruSlots : Took(lruRow, hitRow, maskRow, i, p)
    BY <1>3, <2>1
  <2>3. Took(lruRow, hitRow, maskRow, j, p)
    BY <1>4, <1>7, <2>1, <2>2, TakenInOrder
  <2>4. i < j \/ j < i
    BY <1>7 DEF Slots
  <2>5. p < p
    BY <2>2, <2>3, <2>4, TakenInOrder
  <2>6. p \in Int
    BY <2>2 DEF Slots
  <2> QED BY <2>5, <2>6
<1> QED BY <1>6, <1>7

\* Behind the k filled slots there is one place for each id that stays.
LEMMA RestOfRow ==
    ASSUME NEW lruRow, ValidLruRow(lruRow), NEW hitRow, ValidHitRow(hitRow),
           NEW maskRow, maskRow = MaskOf(hitRow)
    PROVE  LET rest == Remaining(lruRow, hitRow, maskRow)
               row  == NewLru(lruRow, hitRow, maskRow)
           IN  /\ rest \subseteq LruSlots /\ Cardinality(rest) = k
               /\ \A x \in LruSlots : x >= k =>
                     \E p \in rest : row[x] = lruRow[p] /\ Cardinality(Below(rest, p)) = x - k
<1> DEFINE misses == MissSlots(maskRow)
           free   == Candidates(lruRow, hitRow, maskRow)
           rest   == Remaining(lruRow, hitRow, maskRow)
           row    == NewLru(lruRow, hitRow, maskRow)
<1>1. /\ free \subseteq Slots(2 * k) /\ Cardinality(free) = k + Cardinality(misses)
      /\ Cardinality(misses) \in Nat /\ rest = Late(free, Cardinality(misses))
  BY RowOfPlan
<1>2. k \in Nat /\ 2 * k \in Nat
  BY PlanAssumption
<1>3. rest \subseteq Slots(2 * k) /\ Cardinality(rest) = k
  <2> HIDE DEF misses, free, rest
  <2>1. rest = {p \in free : Cardinality(Above(free, p)) >= Cardinality(misses)}
    BY <1>1 DEF Late
  <2>2. Cardinality(misses) <= Cardinality(free)
    BY <1>1, <1>2
  <2>3. Cardinality({p \in free : Cardinality(Above(free, p)) >= Cardinality(misses)})
           = Cardinality(free) - Cardinality(misses)
    BY ONLY <1>1, <1>2, <2>2, RankedBelow
  <2> QED BY <1>1, <1>2, <2>1, <2>3
<1>4. ASSUME NEW x \in LruSlots, x >= k
      PROVE  \E p \in rest : row[x] = lruRow[p] /\ Cardinality(Below(rest, p)) = x - k
  <2>1. x - k \in Slots(k) /\ ~(x < k)
    BY <1>2, <1>4 DEF Slots
  <2>2. PICK p \in rest : Cardinality(Below(rest, p)) = x - k
    <3> HIDE DEF rest
    <3> QED BY <1>2, <1>3, <2>1, RanksBelow
  <2>3. CompactLeft(rest, lruRow)[Cardinality(Below(rest, p))] = lruRow[p]
    <3> HIDE DEF rest
    <3> QED BY ONLY p \in rest, <1>2, <1>3, CompactLeftAt
  <2>4. row[x] = CompactLeft(rest, lruRow)[x - k]
    BY <2>1 DEF NewLru
  <2> QED BY <2>2, <2>3, <2>4
<1> QED BY <1>3, <1>4

LEMMA NewRowValid ==
    ASSUME NEW lruRow, ValidLruRow(lruRow), NEW hitRow, ValidHitRow(hitRow),
           NEW maskRow, maskRow = MaskOf(hitRow)
    PROVE  ValidLruRow(NewLru(lruRow, hitRow, maskRow))
<1> DEFINE filled == Filled(lruRow, hitRow, maskRow)
           rest   == Remaining(lruRow, hitRow, maskRow)
           row    == NewLru(lruRow, hitRow, maskRow)
<1>1. /\ lruRow \in [LruSlots -> LruSlots]
      /\ \A p, q \in LruSlots : lruRow[p] = lruRow[q] => p = q
  BY DEF ValidLruRow
<1>2. k \in Nat /\ \A x \in LruSlots : x \in Nat
  BY PlanAssumption DEF Slots
<1>3. \A x \in LruSlots : x < k => row[x] = filled[x] /\ x \in HitSlots
  BY <1>2 DEF NewLru, Slots
<1>4. \A x \in LruSlots : x >= k =>
         \E p \in rest : row[x] = lruRow[p] /\ Cardinality(Below(rest, p)) = x - k
  BY RestOfRow
<1>5. rest \subseteq LruSlots /\ \A p \in rest, i \in HitSlots : lruRow[p] # filled[i]
  BY DEF Remaining
<1>6. /\ \A i \in HitSlots : filled[i] \in LruSlots
      /\ \A i, j \in HitSlots : filled[i] = filled[j] => i = j
  BY FilledDistinct
<1>7. row = [x \in LruSlots |-> row[x]]
  BY DEF NewLru
<1> HIDE DEF filled, rest, row
<1>8. \A x \in LruSlots : x < k \/ x >= k
  BY <1>2
<1>9. \A x \in LruSlots : row[x] \in LruSlots
  BY <1>1, <1>3, <1>4, <1>5, <1>6, <1>8
<1>10. ASSUME NEW x \in LruSlots, NEW y \in LruSlots, row[x] = row[y]
       PROVE  x = y
  <2>1. CASE x < k /\ y < k
    BY <1>3, <1>6, <1>10, <2>1
  <2>2. CASE x >= k /\ y >= k
    <3>1. PICK p \in rest : row[x] = lruRow[p] /\ Cardinality(Below(rest, p)) = x - k
      BY <1>4, <2>2
    <3>2. PICK q \in rest : row[y] = lruRow[q] /\ Cardinality(Below(rest, q)) = y - k
      BY <1>4, <2>2
    <3>3. p = q
      BY <1>1, <1>5, <1>10, <3>1, <3>2
    <3>4. x - k = y - k
      BY <3>1, <3>2, <3>3
    <3> QED BY <1>2, <3>4
  <2>3. CASE x < k /\ y >= k
    BY <1>3, <1>4, <1>5, <1>10, <2>3
  <2>4. CASE x >= k /\ y < k
    BY <1>3, <1>4, <1>5, <1>10, <2>4
  <2> QED BY <1>8, <2>1, <2>2, <2>3, <2>4
<1>11. row \in [LruSlots -> LruSlots]
  BY <1>7, <1>9
<1>12. ValidLruRow(row)
  BY <1>10, <1>11 DEF ValidLruRow
<1> QED BY <1>12 DEF row

------------------------------------------------------------------------------
\* The reference on lists.  Each of its recursive functions is known once one function is
\* found that satisfies the recursion, since no two do.

\* f is the run of Without over the list, S being left out.
Keeps(f, list, S) ==
    f = [n \in 0..Len(list) |->
            IF n = 0 THEN <<>>
            ELSE IF list[n] \in S THEN f[n-1] ELSE Append(f[n-1], list[n])]

LEMMA KeepsUnique ==
    ASSUME NEW list, Len(list) \in Nat, NEW S, NEW f, NEW g, Keeps(f, list, S), Keeps(g, list, S)
    PROVE  f = g
<1> DEFINE D == {n \in 0..Len(list) : f[n] # g[n]}
<1> SUFFICES ASSUME D # {} PROVE FALSE
  BY DEF Keeps
<1>1. PICK m \in D : \A x \in D : m <= x
  <2>1. D \subseteq Nat
    OBVIOUS
  <2> QED BY <2>1, Least
<1>2. m # 0
  BY <1>1 DEF Keeps
<1>3. m-1 \in 0..Len(list) /\ m-1 \notin D /\ f[m-1] = g[m-1]
  BY <1>1, <1>2
<1>4. /\ f[m] = IF list[m] \in S THEN f[m-1] ELSE Append(f[m-1], list[m])
      /\ g[m] = IF list[m] \in S THEN g[m-1] ELSE Append(g[m-1], list[m])
  BY <1>1, <1>2 DEF Keeps
<1> QED BY <1>1, <1>3, <1>4

LEMMA WithoutIs ==
    ASSUME NEW list, Len(list) \in Nat, NEW S, NEW f, Keeps(f, list, S)
    PROVE  Without(list, S) = f[Len(list)]
<1> DEFINE kept == CHOOSE g : g = [n \in 0..Len(list) |->
                      IF n = 0 THEN <<>>
                      ELSE IF list[n] \in S THEN g[n-1] ELSE Append(g[n-1], list[n])]
<1>1. Keeps(kept, list, S)
  BY DEF Keeps
<1>2. kept = f
  <2> HIDE DEF kept
  <2> QED BY <1>1, KeepsUnique
<1> QED BY <1>2 DEF Without

\* A row as a list.
LEMMA ListOfRow ==
    ASSUME NEW n \in Nat, NEW V, NEW row, \A i \in Slots(n) : row[i] \in V
    PROVE  /\ ToList(row, n) \in Seq(V) /\ Len(ToList(row, n)) = n
           /\ \A i \in 1..n : ToList(row, n)[i] = row[i-1]
<1>1. ToList(row, n) \in [1..n -> V]
  BY DEF ToList, Slots
<1> QED BY <1>1 DEF ToList

\* One more value of a row.
LEMMA ListGrows ==
    ASSUME NEW n \in Nat, NEW V, NEW row, \A i \in Slots(n+1) : row[i] \in V
    PROVE  Append(ToList(row, n), row[n]) = ToList(row, n+1)
<1>1. \A i \in Slots(n) : row[i] \in V
  BY DEF Slots
<1>2. row[n] \in V
  BY DEF Slots
<1>3. /\ ToList(row, n) \in Seq(V) /\ Len(ToList(row, n)) = n
      /\ \A i \in 1..n : ToList(row, n)[i] = row[i-1]
  BY <1>1, ListOfRow
<1>4. /\ ToList(row, n+1) \in Seq(V) /\ Len(ToList(row, n+1)) = n+1
      /\ \A i \in 1..n+1 : ToList(row, n+1)[i] = row[i-1]
  <2>1. n+1 \in Nat
    OBVIOUS
  <2> QED BY ONLY <2>1, \A i \in Slots(n+1) : row[i] \in V, ListOfRow
<1> DEFINE longer == Append(ToList(row, n), row[n])
<1>5. /\ longer \in Seq(V) /\ Len(longer) = n+1 /\ longer[n+1] = row[n]
      /\ \A i \in 1..n : longer[i] = row[i-1]
  BY <1>2, <1>3, AppendProperties
<1> HIDE DEF longer
<1>6. \A i \in 1..n+1 : longer[i] = ToList(row, n+1)[i]
  <2> SUFFICES ASSUME NEW i \in 1..n+1 PROVE longer[i] = ToList(row, n+1)[i]
    OBVIOUS
  <2>1. i \in 1..n \/ i = n+1
    OBVIOUS
  <2> QED BY <1>4, <1>5, <2>1
<1>7. longer = ToList(row, n+1)
  BY ONLY <1>4, <1>5, <1>6, SeqEqual
<1> QED BY <1>7 DEF longer

\* How many members of a set of slots stand before n.
LEMMA BelowGrows ==
    ASSUME NEW n \in Nat, NEW S, S \subseteq Nat, IsFiniteSet(S)
    PROVE  /\ Cardinality(Below(S, 0)) = 0
           /\ Cardinality(Below(S, n)) \in Nat /\ Cardinality(Below(S, n)) <= Cardinality(S)
           /\ n \notin S => Below(S, n+1) = Below(S, n)
           /\ n \in S => Cardinality(Below(S, n+1)) = Cardinality(Below(S, n)) + 1
<1>0. \A q \in S : q \in Nat /\ ~(q < 0) /\ (q < n+1 <=> q < n \/ q = n)
  OBVIOUS
<1>1. Below(S, 0) = {}
  BY <1>0 DEF Below
<1>2. Below(S, n) \subseteq S /\ n \notin Below(S, n)
  BY DEF Below
<1>3. IsFiniteSet(Below(S, n)) /\ Cardinality(Below(S, n)) <= Cardinality(S)
  BY <1>2, FS_Subset
<1>4. n \notin S => Below(S, n+1) = Below(S, n)
  BY <1>0 DEF Below
<1>5. n \in S => Below(S, n+1) = Below(S, n) \cup {n}
  BY <1>0 DEF Below
<1>6. n \in S => Cardinality(Below(S, n+1)) = Cardinality(Below(S, n)) + 1
  BY <1>2, <1>3, <1>5, FS_AddElement
<1> QED BY <1>1, <1>3, <1>4, <1>6, FS_EmptySet, FS_CardinalityType

\* The list that leaves out S is the compaction of the positions that are not in S.
LEMMA WithoutCompacts ==
    ASSUME NEW N \in Nat, NEW V, NEW row, \A p \in Slots(N) : row[p] \in V, NEW S,
           NEW keep, keep = {p \in Slots(N) : row[p] \notin S}
    PROVE  Without(ToList(row, N), S) = ToList(CompactLeft(keep, row), Cardinality(keep))
<1> DEFINE list == ToList(row, N)
           C    == CompactLeft(keep, row)
           r(n) == Cardinality(Below(keep, n))
           f    == [n \in 0..N |-> ToList(C, r(n))]
<1>1. Len(list) = N /\ \A i \in 1..N : list[i] = row[i-1]
  BY ListOfRow
<1>2. keep \subseteq Slots(N) /\ keep \subseteq Nat /\ IsFiniteSet(keep) /\ Cardinality(keep) \in Nat
  <2>1. keep \subseteq Slots(N)
    OBVIOUS
  <2> QED BY <2>1, SubsetOfSlots
<1>3. \A p \in keep : C[r(p)] = row[p]
  BY <1>2, CompactLeftAt
<1>4. \A x \in Slots(Cardinality(keep)) : C[x] \in V
  <2> SUFFICES ASSUME NEW x \in Slots(Cardinality(keep)) PROVE C[x] \in V
    OBVIOUS
  <2>1. \E p \in keep : Cardinality(Below(keep, p)) = x
    BY ONLY N \in Nat, <1>2, x \in Slots(Cardinality(keep)), RanksBelow
  <2> QED BY <1>2, <1>3, <2>1
<1>5. \A n \in Nat : r(n) \in Nat /\ r(n) <= Cardinality(keep)
  BY <1>2, BelowGrows
<1>6. r(N) = Cardinality(keep)
  <2>1. Below(keep, N) = keep
    BY <1>2 DEF Below, Slots
  <2> QED BY <2>1
<1>7. ToList(C, r(0)) = <<>>
  <2>1. r(0) = 0
    BY <1>2, BelowGrows
  <2>2. ToList(C, 0) = <<>>
    BY DEF ToList
  <2> QED BY <2>1, <2>2
<1>8. ASSUME NEW n \in 0..N, n # 0
      PROVE  ToList(C, r(n)) = IF list[n] \in S THEN ToList(C, r(n-1))
                               ELSE Append(ToList(C, r(n-1)), list[n])
  <2>1. n-1 \in Slots(N) /\ n-1 \in Nat /\ (n-1)+1 = n /\ list[n] = row[n-1]
    BY <1>1, <1>8 DEF Slots
  <2>2. CASE list[n] \in S
    <3>1. n-1 \notin keep
      BY <2>1, <2>2
    <3>2. Below(keep, n) = Below(keep, n-1)
      BY <1>2, <2>1, <3>1, BelowGrows
    <3> QED BY <2>2, <3>2
  <2>3. CASE list[n] \notin S
    <3>1. n-1 \in keep
      BY <2>1, <2>3
    <3>2. r(n) = r(n-1) + 1 /\ r(n) <= Cardinality(keep) /\ r(n-1) \in Nat
      BY <1>2, <1>5, <2>1, <3>1, BelowGrows
    <3>3. C[r(n-1)] = list[n]
      BY <1>3, <2>1, <3>1
    <3>4. PICK m : m = r(n-1)
      OBVIOUS
    <3>5. \A x \in Slots(m+1) : C[x] \in V
      BY <1>2, <1>4, <3>2, <3>4 DEF Slots
    <3> HIDE DEF C
    <3>6. Append(ToList(C, m), C[m]) = ToList(C, m+1)
      BY <3>2, <3>4, <3>5, ListGrows
    <3> QED BY <2>3, <3>2, <3>3, <3>4, <3>6
  <2> QED BY <2>2, <2>3
<1>9. Keeps(f, list, S)
  <2> HIDE DEF list, C, r
  <2>1. f = [n \in 0..N |-> IF n = 0 THEN <<>>
                            ELSE IF list[n] \in S THEN f[n-1] ELSE Append(f[n-1], list[n])]
    <3>1. \A n \in 0..N : n # 0 => f[n-1] = ToList(C, r(n-1))
      OBVIOUS
    <3> QED BY <1>7, <1>8, <3>1
  <2> QED BY <1>1, <2>1 DEF Keeps
<1>10. Without(list, S) = f[N]
  <2> HIDE DEF list, f
  <2> QED BY <1>1, <1>9, WithoutIs
<1> QED BY <1>6, <1>10

\* Read backwards, a position is where its mirror image was.
Mirror(N, p) == N - 1 - p

LEMMA MirrorsSwap ==
    ASSUME NEW N \in Nat, NEW p \in Slots(N)
    PROVE  /\ Mirror(N, p) \in Slots(N) /\ Mirror(N, Mirror(N, p)) = p
           /\ \A q \in Slots(N) : /\ (Mirror(N, p) = Mirror(N, q) => p = q)
                                  /\ (q < p <=> Mirror(N, q) > Mirror(N, p))
BY DEF Mirror, Slots

\* The reversed list that leaves out S is the compaction from the right.
LEMMA ReversedCompacts ==
    ASSUME NEW N \in Nat, NEW V, NEW row, \A p \in Slots(N) : row[p] \in V, NEW S,
           NEW keep, keep = {p \in Slots(N) : row[p] \notin S}
    PROVE  Without(Reverse(ToList(row, N)), S) = ToList(CompactRight(keep, row), Cardinality(keep))
<1> DEFINE back == [p \in Slots(N) |-> row[Mirror(N, p)]]
           held == {p \in Slots(N) : back[p] \notin S}
<1>1. Len(ToList(row, N)) = N /\ \A i \in 1..N : ToList(row, N)[i] = row[i-1]
  BY ListOfRow
<1>2. Reverse(ToList(row, N)) = ToList(back, N)
  <2>1. \A i \in 1..N : ToList(row, N)[(N - i) + 1] = back[i-1]
    <3> SUFFICES ASSUME NEW i \in 1..N PROVE ToList(row, N)[(N - i) + 1] = back[i-1]
      OBVIOUS
    <3>1. (N - i) + 1 \in 1..N /\ i-1 \in Slots(N) /\ ((N - i) + 1) - 1 = Mirror(N, i-1)
      BY DEF Slots, Mirror
    <3> QED BY <1>1, <3>1
  <2> QED BY <1>1, <2>1 DEF Reverse, ToList
<1>3. \A p \in Slots(N) : back[p] \in V
  BY MirrorsSwap
<1>4. Without(ToList(back, N), S) = ToList(CompactLeft(held, back), Cardinality(held))
  <2>1. held = {p \in Slots(N) : back[p] \notin S}
    OBVIOUS
  <2> HIDE DEF held, back
  <2> QED BY <1>3, <2>1, WithoutCompacts
<1>5. /\ held \subseteq Slots(N) /\ keep \subseteq Slots(N) /\ IsFiniteSet(keep)
      /\ Cardinality(keep) \in Nat
  <2>1. keep \subseteq Slots(N) /\ held \subseteq Slots(N)
    OBVIOUS
  <2> QED BY <2>1, SubsetOfSlots
<1>6. \A p \in Slots(N) : p \in held <=> Mirror(N, p) \in keep
  BY MirrorsSwap
<1>7. \A p \in held : back[p] = row[Mirror(N, p)]
  OBVIOUS
<1> HIDE DEF back, held
<1>8. Cardinality(held) = Cardinality(keep)
  <2> DEFINE f == [p \in held |-> Mirror(N, p)]
  <2>1. f \in [held -> keep]
    BY <1>5, <1>6
  <2>2. \A x, y \in held : f[x] = f[y] => x = y
    BY <1>5, MirrorsSwap
  <2>3. \A y \in keep : \E x \in held : f[x] = y
    <3> SUFFICES ASSUME NEW y \in keep PROVE \E x \in held : f[x] = y
      OBVIOUS
    <3>1. y \in Slots(N) /\ Mirror(N, y) \in Slots(N) /\ Mirror(N, Mirror(N, y)) = y
      BY <1>5, MirrorsSwap
    <3>2. Mirror(N, y) \in held
      BY <1>6, <3>1
    <3> QED BY <3>1, <3>2
  <2> HIDE DEF f
  <2> QED BY <1>5, <2>1, <2>2, <2>3, SameSize
<1>9. ASSUME NEW p \in held
      PROVE  Cardinality(Below(held, p)) = Cardinality(Above(keep, Mirror(N, p)))
  <2> DEFINE S1 == Below(held, p)
             T1 == Above(keep, Mirror(N, p))
             f  == [q \in S1 |-> Mirror(N, q)]
  <2>1. p \in Slots(N) /\ S1 \subseteq held /\ T1 \subseteq keep
    BY <1>5 DEF Below, Above
  <2>2. \A q \in held : q \in S1 <=> Mirror(N, q) \in T1
    <3> SUFFICES ASSUME NEW q \in held PROVE q \in S1 <=> Mirror(N, q) \in T1
      OBVIOUS
    <3>1. q \in Slots(N) /\ Mirror(N, q) \in keep
      BY <1>5, <1>6
    <3>2. q < p <=> Mirror(N, q) > Mirror(N, p)
      BY <2>1, <3>1, MirrorsSwap
    <3> QED BY <3>1, <3>2 DEF Below, Above
  <2>3. f \in [S1 -> T1] /\ \A x, y \in S1 : f[x] = f[y] => x = y
    <3> HIDE DEF S1, T1
    <3>1. \A x, y \in S1 : Mirror(N, x) = Mirror(N, y) => x = y
      BY <1>5, <2>1, MirrorsSwap
    <3> QED BY <2>1, <2>2, <3>1
  <2>4. \A y \in T1 : \E x \in S1 : f[x] = y
    <3> SUFFICES ASSUME NEW y \in T1 PROVE \E x \in S1 : f[x] = y
      OBVIOUS
    <3> HIDE DEF S1, T1
    <3>1. y \in Slots(N) /\ Mirror(N, y) \in Slots(N) /\ Mirror(N, Mirror(N, y)) = y
      BY <1>5, <2>1, MirrorsSwap
    <3>2. Mirror(N, y) \in held
      BY <1>6, <2>1, <3>1
    <3>3. Mirror(N, y) \in S1
      BY <2>2, <3>1, <3>2
    <3> QED BY <3>1, <3>3
  <2>5. IsFiniteSet(T1)
    BY <1>5, <2>1, FS_Subset
  <2> HIDE DEF S1, T1, f
  <2>6. Cardinality(S1) = Cardinality(T1)
    BY <2>3, <2>4, <2>5, SameSize
  <2> QED BY <2>6 DEF S1, T1
<1>10. ASSUME NEW x \in Slots(Cardinality(keep))
       PROVE  CompactLeft(held, back)[x] = CompactRight(keep, row)[x]
  <2>1. x \in Slots(Cardinality(held))
    BY <1>8
  <2>2. PICK p \in held : Cardinality(Below(held, p)) = x
    <3>1. \E p \in held : Cardinality(Below(held, p)) = x
      BY ONLY N \in Nat, <1>5, <2>1, RanksBelow
    <3> QED BY <3>1
  <2>3. CompactLeft(held, back)[x] = back[p]
    BY <1>5, <2>2, CompactLeftAt
  <2>4. Mirror(N, p) \in keep /\ Cardinality(Above(keep, Mirror(N, p))) = x
    BY <1>5, <1>6, <1>9, <2>2
  <2>5. PICK m \in keep : m = Mirror(N, p)
    BY <2>4
  <2>6. CompactRight(keep, row)[Cardinality(Above(keep, m))] = row[m]
    BY ONLY N \in Nat, <1>5, m \in keep, CompactRightAt
  <2> QED BY <1>7, <2>3, <2>4, <2>5, <2>6
<1>11. ToList(CompactLeft(held, back), Cardinality(held))
          = ToList(CompactRight(keep, row), Cardinality(keep))
  <2>1. \A i \in 1..Cardinality(keep) : i-1 \in Slots(Cardinality(keep))
    BY <1>5 DEF Slots
  <2> QED BY <1>8, <1>10, <2>1 DEF ToList
<1> QED BY <1>2, <1>4, <1>11

\* f is the run of FilledList over the slots, missValues being handed out.
Fills(f, missValues, hitList, maskList) ==
    f = [n \in 0..k |->
            IF n = 0 THEN [filled |-> <<>>, missIter |-> missValues]
            ELSE IF maskList[n] THEN [f[n-1] EXCEPT !.filled = Append(@, hitList[n])]
            ELSE [filled   |-> Append(f[n-1].filled, Head(f[n-1].missIter)),
                  missIter |-> Tail(f[n-1].missIter)]]

LEMMA FillsUnique ==
    ASSUME NEW missValues, NEW hitList, NEW maskList, NEW f, NEW g,
           Fills(f, missValues, hitList, maskList), Fills(g, missValues, hitList, maskList)
    PROVE  f = g
<1> DEFINE D == {n \in 0..k : f[n] # g[n]}
<1> SUFFICES ASSUME D # {} PROVE FALSE
  BY DEF Fills
<1>1. PICK m \in D : \A x \in D : m <= x
  <2>1. D \subseteq Nat
    OBVIOUS
  <2> QED BY <2>1, Least
<1>2. m # 0
  BY <1>1 DEF Fills
<1>3. m-1 \in 0..k /\ m-1 \notin D /\ f[m-1] = g[m-1]
  BY <1>1, <1>2, PlanAssumption
<1>4. /\ f[m] = IF maskList[m] THEN [f[m-1] EXCEPT !.filled = Append(@, hitList[m])]
                ELSE [filled   |-> Append(f[m-1].filled, Head(f[m-1].missIter)),
                      missIter |-> Tail(f[m-1].missIter)]
      /\ g[m] = IF maskList[m] THEN [g[m-1] EXCEPT !.filled = Append(@, hitList[m])]
                ELSE [filled   |-> Append(g[m-1].filled, Head(g[m-1].missIter)),
                      missIter |-> Tail(g[m-1].missIter)]
  BY <1>1, <1>2 DEF Fills
<1> QED BY <1>1, <1>3, <1>4

LEMMA FilledListIs ==
    ASSUME NEW lruList, NEW hitList, NEW maskList, NEW f,
           Fills(f, MissValues(lruList, hitList, maskList), hitList, maskList)
    PROVE  FilledList(lruList, hitList, maskList) = f[k].filled
<1> DEFINE state == CHOOSE g : g = [n \in 0..k |->
            IF n = 0 THEN [filled |-> <<>>, missIter |-> MissValues(lruList, hitList, maskList)]
            ELSE IF maskList[n] THEN [g[n-1] EXCEPT !.filled = Append(@, hitList[n])]
            ELSE [filled   |-> Append(g[n-1].filled, Head(g[n-1].missIter)),
                  missIter |-> Tail(g[n-1].missIter)]]
<1>1. Fills(state, MissValues(lruList, hitList, maskList), hitList, maskList)
  BY DEF Fills
<1>2. state = f
  <2> HIDE DEF state
  <2> QED BY <1>1, FillsUnique
<1> QED BY <1>2 DEF FilledList

\* The misses take the miss values in turn: what stands in the slots is the rank form.
LEMMA FilledAgrees ==
    ASSUME NEW lruRow, ValidLruRow(lruRow), NEW hitRow, ValidHitRow(hitRow),
           NEW maskRow, maskRow = MaskOf(hitRow)
    PROVE  FilledList(ToList(lruRow, 2 * k), ToList(hitRow, k), ToList(maskRow, k))
              = ToList(Filled(lruRow, hitRow, maskRow), k)
<1> DEFINE misses   == MissSlots(maskRow)
           free     == Candidates(lruRow, hitRow, maskRow)
           filled   == Filled(lruRow, hitRow, maskRow)
           lruList  == ToList(lruRow, 2 * k)
           hitList  == ToList(hitRow, k)
           maskList == ToList(maskRow, k)
           C        == CompactRight(free, lruRow)
           M        == ToList(C, Cardinality(free))
           r(n)     == Cardinality(Below(misses, n))
           f        == [n \in 0..k |-> [filled   |-> ToList(filled, n),
                                        missIter |-> SubSeq(M, r(n) + 1, Cardinality(free))]]
<1>1. k \in Nat /\ 2 * k \in Nat
  BY PlanAssumption
<1>2. /\ lruRow \in [LruSlots -> LruSlots]
      /\ hitRow \in [HitSlots -> {-1} \cup LruSlots]
  BY DEF ValidLruRow, ValidHitRow
<1>3. \A i \in 1..k : i-1 \in HitSlots /\ hitList[i] = hitRow[i-1] /\ maskList[i] = maskRow[i-1]
  BY <1>1 DEF ToList, Slots
<1>4. ListHits(hitList, maskList) = HitSet(hitRow, maskRow)
  <2>1. \A i \in HitSlots : i+1 \in 1..k /\ (i+1)-1 = i
    BY <1>1 DEF Slots
  <2>2. ListHits(hitList, maskList) \subseteq HitSet(hitRow, maskRow)
    <3> HIDE DEF hitList, maskList
    <3> QED BY <1>3 DEF ListHits, HitSet
  <2>3. \A i \in HitSlots : hitList[i+1] = hitRow[i] /\ maskList[i+1] = maskRow[i]
    BY <1>3, <2>1
  <2>4. HitSet(hitRow, maskRow) \subseteq ListHits(hitList, maskList)
    <3> HIDE DEF hitList, maskList
    <3> QED BY <2>1, <2>3 DEF ListHits, HitSet
  <2> QED BY <2>2, <2>4
<1>5. MissValues(lruList, hitList, maskList) = M
  <2>1. free = {p \in Slots(2 * k) : lruRow[p] \notin HitSet(hitRow, maskRow)}
    BY DEF Candidates
  <2>2. \A p \in Slots(2 * k) : lruRow[p] \in LruSlots
    BY <1>2
  <2> HIDE DEF free
  <2>3. Without(Reverse(ToList(lruRow, 2 * k)), HitSet(hitRow, maskRow)) = M
    <3>1. PICK N, S, V, keep :
             N \in Nat /\ N = 2 * k /\ S = HitSet(hitRow, maskRow) /\ V = LruSlots /\ keep = free
      BY <1>1
    <3>2. /\ N \in Nat /\ \A p \in Slots(N) : lruRow[p] \in V
          /\ keep = {p \in Slots(N) : lruRow[p] \notin S}
      BY <2>1, <2>2, <3>1
    <3>3. Without(Reverse(ToList(lruRow, N)), S)
             = ToList(CompactRight(keep, lruRow), Cardinality(keep))
      BY ONLY <3>2, ReversedCompacts
    <3> QED BY <3>1, <3>3
  <2> QED BY <1>4, <2>3 DEF MissValues
<1>6. /\ misses \subseteq Slots(k) /\ free \subseteq Slots(2 * k)
      /\ Cardinality(misses) \in Nat /\ Cardinality(free) = k + Cardinality(misses)
      /\ Cardinality(free) \in Nat /\ Cardinality(misses) <= Cardinality(free)
  BY <1>1, RowOfPlan
<1>7. misses \subseteq Nat /\ IsFiniteSet(misses)
  <2> HIDE DEF misses
  <2> QED BY <1>1, <1>6, SubsetOfSlots
<1>8. \A n \in Nat : r(n) \in Nat /\ r(n) <= Cardinality(misses)
  <2> HIDE DEF misses
  <2> QED BY <1>7, BelowGrows
<1>9. \A x \in Slots(Cardinality(free)) : C[x] \in LruSlots
  <2> SUFFICES ASSUME NEW x \in Slots(Cardinality(free)) PROVE C[x] \in LruSlots
    OBVIOUS
  <2> HIDE DEF free
  <2>1. \E p \in free : Cardinality(Above(free, p)) = x
    BY ONLY <1>1, <1>6, x \in Slots(Cardinality(free)), RanksAbove
  <2>2. PICK p \in free : Cardinality(Above(free, p)) = x
    BY <2>1
  <2>3. C[Cardinality(Above(free, p))] = lruRow[p]
    BY ONLY <1>1, <1>6, p \in free, CompactRightAt
  <2> QED BY <1>2, <1>6, <2>2, <2>3
<1>10. /\ M \in Seq(LruSlots) /\ Len(M) = Cardinality(free)
       /\ \A i \in 1..Cardinality(free) : M[i] = C[i-1]
  <2> HIDE DEF free, C
  <2> QED BY <1>6, <1>9, ListOfRow
<1>11. \A i \in HitSlots : filled[i] \in LruSlots
  BY FilledDistinct
<1>12. \A i \in HitSlots : filled[i] = IF maskRow[i] THEN hitRow[i] ELSE C[r(i)]
  <2>1. \A i \in HitSlots : {j \in MissSlots(maskRow) : j < i} = Below(misses, i)
    BY DEF Below
  <2> QED BY <2>1 DEF Filled
<1>13. \A i \in HitSlots : i \in misses <=> ~maskRow[i]
  BY DEF MissSlots
<1> HIDE DEF misses, free, filled, lruList, hitList, maskList, C, M
<1>14. f[0] = [filled |-> <<>>, missIter |-> M]
  <2>1. r(0) = 0
    BY <1>7, BelowGrows
  <2>2. ToList(filled, 0) = <<>>
    BY DEF ToList
  <2>3. SubSeq(M, 1, Cardinality(free)) = M
    BY <1>10, SubSeqFull
  <2>4. f[0] = [filled |-> ToList(filled, 0), missIter |-> SubSeq(M, r(0) + 1, Cardinality(free))]
    BY <1>1
  <2>5. r(0) + 1 = 1
    BY <2>1
  <2> HIDE DEF f, r
  <2> QED BY <2>2, <2>3, <2>4, <2>5
<1>15. ASSUME NEW n \in 0..k, n # 0
       PROVE  f[n] = IF maskList[n] THEN [f[n-1] EXCEPT !.filled = Append(@, hitList[n])]
                     ELSE [filled   |-> Append(f[n-1].filled, Head(f[n-1].missIter)),
                           missIter |-> Tail(f[n-1].missIter)]
  <2>1. /\ n-1 \in HitSlots /\ n-1 \in Nat /\ n-1 \in 0..k /\ (n-1)+1 = n
        /\ hitList[n] = hitRow[n-1] /\ maskList[n] = maskRow[n-1]
    BY <1>1, <1>3, <1>15 DEF Slots
  <2>2. /\ f[n]   = [filled |-> ToList(filled, n),
                     missIter |-> SubSeq(M, r(n) + 1, Cardinality(free))]
        /\ f[n-1] = [filled |-> ToList(filled, n-1),
                     missIter |-> SubSeq(M, r(n-1) + 1, Cardinality(free))]
    BY <2>1
  <2>3. Append(ToList(filled, n-1), filled[n-1]) = ToList(filled, n)
    <3>1. \A i \in Slots((n-1)+1) : filled[i] \in LruSlots
      BY <1>1, <1>11, <2>1 DEF Slots
    <3>2. Append(ToList(filled, n-1), filled[n-1]) = ToList(filled, (n-1)+1)
      BY ONLY <2>1, <3>1, ListGrows
    <3> QED BY <2>1, <3>2
  <2>4. CASE maskList[n]
    <3>1. n-1 \notin misses
      BY <1>13, <2>1, <2>4
    <3>2. Below(misses, n) = Below(misses, n-1)
      BY <1>7, <2>1, <3>1, BelowGrows
    <3>3. filled[n-1] = hitList[n]
      BY <1>12, <2>1, <2>4
    <3>4. SubSeq(M, r(n) + 1, Cardinality(free)) = SubSeq(M, r(n-1) + 1, Cardinality(free))
      BY <3>2
    <3>5. PICK old, iter : old = ToList(filled, n-1) /\ iter = SubSeq(M, r(n-1) + 1, Cardinality(free))
      OBVIOUS
    <3> HIDE DEF f, r
    <3>6. f[n-1] = [filled |-> old, missIter |-> iter]
      BY <2>2, <3>5
    <3>7. [f[n-1] EXCEPT !.filled = Append(@, hitList[n])]
             = [filled |-> Append(old, hitList[n]), missIter |-> iter]
      BY <3>6
    <3>8. Append(old, hitList[n]) = ToList(filled, n)
      BY <2>3, <3>3, <3>5
    <3> QED BY <2>2, <2>4, <3>4, <3>5, <3>7, <3>8
  <2>5. CASE ~maskList[n]
    <3>1. n-1 \in misses
      BY <1>13, <2>1, <2>5
    <3>2. PICK m : m = r(n-1)
      OBVIOUS
    <3>3. m \in Nat /\ r(n) = m + 1 /\ m + 1 <= Cardinality(free)
      <4>1. r(n) = m + 1
        BY <1>7, <2>1, <3>1, <3>2, BelowGrows
      <4>2. m \in Nat /\ r(n) \in Nat /\ r(n) <= Cardinality(misses)
        BY <1>8, <2>1, <3>2
      <4> QED BY <1>6, <4>1, <4>2
    <3>4. M[m+1] = filled[n-1]
      <4>1. m+1 \in 1..Cardinality(free) /\ (m+1)-1 = m
        BY <1>6, <3>3
      <4>2. M[m+1] = C[m]
        BY <1>10, <4>1
      <4> QED BY <1>12, <2>1, <2>5, <3>2, <4>2
    <3>5. /\ Head(SubSeq(M, m+1, Cardinality(free))) = M[m+1]
          /\ Tail(SubSeq(M, m+1, Cardinality(free))) = SubSeq(M, (m+1) + 1, Cardinality(free))
      <4>1. m+1 \in 1..Len(M) /\ Cardinality(free) \in (m+1)..Len(M)
        BY <1>6, <1>10, <3>3
      <4>2. M \in Seq(LruSlots)
        BY <1>10
      <4> QED BY ONLY <4>1, <4>2, HeadTailOfSubSeq
    <3>6. PICK old, iter : old = ToList(filled, n-1) /\ iter = SubSeq(M, m + 1, Cardinality(free))
      OBVIOUS
    <3>7. r(n) + 1 = (m+1) + 1
      BY <3>3
    <3> HIDE DEF f, r
    <3>8. f[n-1].filled = old /\ f[n-1].missIter = iter
      <4>1. f[n-1] = [filled |-> old, missIter |-> iter]
        BY <2>2, <3>2, <3>6
      <4> QED BY <4>1
    <3>9. Append(old, Head(iter)) = ToList(filled, n)
      BY <2>3, <3>4, <3>5, <3>6
    <3>10. Tail(iter) = SubSeq(M, r(n) + 1, Cardinality(free))
      BY <3>5, <3>6, <3>7
    <3> QED BY <2>2, <2>5, <3>8, <3>9, <3>10
  <2> QED BY <2>4, <2>5
<1>16. Fills(f, M, hitList, maskList)
  <2>1. f = [n \in 0..k |-> f[n]]
    OBVIOUS
  <2> HIDE DEF f
  <2> QED BY <1>14, <1>15, <2>1 DEF Fills
<1>17. FilledList(lruList, hitList, maskList) = f[k].filled
  <2> HIDE DEF f
  <2> QED BY <1>5, <1>16, FilledListIs
<1>18. f[k].filled = ToList(filled, k)
  BY <1>1
<1> QED BY <1>17, <1>18 DEF filled, lruList, hitList, maskList

\* filled + remaining is the rank form as well.
LEMMA OutputAgrees ==
    ASSUME NEW lruRow, ValidLruRow(lruRow), NEW hitRow, ValidHitRow(hitRow),
           NEW maskRow, maskRow = MaskOf(hitRow)
    PROVE  OutputList(ToList(lruRow, 2 * k), ToList(hitRow, k), ToList(maskRow, k))
              = ToList(NewLru(lruRow, hitRow, maskRow), 2 * k)
<1> DEFINE filled == Filled(lruRow, hitRow, maskRow)
           rest   == Remaining(lruRow, hitRow, maskRow)
           row    == NewLru(lruRow, hitRow, maskRow)
           C      == CompactLeft(rest, lruRow)
           first  == ToList(filled, k)
           second == ToList(C, k)
<1>1. k \in Nat /\ 2 * k \in Nat
  BY PlanAssumption
<1>2. lruRow \in [LruSlots -> LruSlots] /\ \A i \in HitSlots : filled[i] \in LruSlots
  BY FilledDistinct DEF ValidLruRow
<1>3. rest \subseteq Slots(2 * k) /\ Cardinality(rest) = k
  BY RestOfRow
<1>4. ToSet(first) = {filled[i] : i \in HitSlots}
  <2>1. \A i \in HitSlots : i+1 \in 1..k /\ (i+1)-1 = i
    BY <1>1 DEF Slots
  <2>2. \A i \in 1..k : i-1 \in HitSlots
    BY <1>1 DEF Slots
  <2> HIDE DEF filled
  <2>3. ToSet(first) = {filled[i-1] : i \in 1..k}
    BY DEF ToSet, ToList
  <2> QED BY <2>1, <2>2, <2>3
<1>5. Without(ToList(lruRow, 2 * k), ToSet(first)) = second
  <2>1. PICK N, S, V, keep :
           N \in Nat /\ N = 2 * k /\ S = ToSet(first) /\ V = LruSlots /\ keep = rest
    BY <1>1
  <2>2. rest = {p \in Slots(2 * k) : lruRow[p] \notin ToSet(first)}
    BY <1>4 DEF Remaining
  <2> HIDE DEF rest, first
  <2>3. /\ N \in Nat /\ \A p \in Slots(N) : lruRow[p] \in V
        /\ keep = {p \in Slots(N) : lruRow[p] \notin S}
    BY <1>2, <2>1, <2>2
  <2>4. Without(ToList(lruRow, N), S) = ToList(CompactLeft(keep, lruRow), Cardinality(keep))
    BY ONLY <2>3, WithoutCompacts
  <2> QED BY <1>3, <2>1, <2>4
<1>6. OutputList(ToList(lruRow, 2 * k), ToList(hitRow, k), ToList(maskRow, k)) = first \o second
  BY <1>5, FilledAgrees DEF OutputList
<1>7. \A x \in Slots(k) : C[x] \in LruSlots
  <2> SUFFICES ASSUME NEW x \in Slots(k) PROVE C[x] \in LruSlots
    OBVIOUS
  <2> HIDE DEF rest
  <2>1. \E p \in rest : Cardinality(Below(rest, p)) = x
    BY ONLY <1>1, <1>3, x \in Slots(k), RanksBelow
  <2>2. PICK p \in rest : Cardinality(Below(rest, p)) = x
    BY <2>1
  <2>3. C[Cardinality(Below(rest, p))] = lruRow[p]
    BY ONLY <1>1, <1>3, p \in rest, CompactLeftAt
  <2> QED BY <1>2, <1>3, <2>2, <2>3
<1>8. \A x \in LruSlots : row[x] = IF x < k THEN filled[x] ELSE C[x - k]
  BY DEF NewLru
<1> HIDE DEF filled, rest, row, C
<1>9. /\ first \in Seq(LruSlots) /\ Len(first) = k /\ \A i \in 1..k : first[i] = filled[i-1]
      /\ second \in Seq(LruSlots) /\ Len(second) = k /\ \A i \in 1..k : second[i] = C[i-1]
  <2>1. \A i \in Slots(k) : filled[i] \in LruSlots
    BY <1>2
  <2>2. first \in Seq(LruSlots) /\ Len(first) = k /\ \A i \in 1..k : first[i] = filled[i-1]
    BY ONLY <1>1, <2>1, ListOfRow
  <2>3. second \in Seq(LruSlots) /\ Len(second) = k /\ \A i \in 1..k : second[i] = C[i-1]
    BY ONLY <1>1, <1>7, ListOfRow
  <2> QED BY <2>2, <2>3
<1>10. \A x \in LruSlots : x < k => x \in Slots(k)
  BY <1>1 DEF Slots
<1>11. \A x \in LruSlots : ~(x < k) => x - k \in Slots(k)
  BY <1>1 DEF Slots
<1>12. \A x \in Slots(2 * k) : row[x] \in LruSlots
  BY <1>2, <1>7, <1>8, <1>10, <1>11
<1>13. /\ ToList(row, 2 * k) \in Seq(LruSlots) /\ Len(ToList(row, 2 * k)) = 2 * k
       /\ \A i \in 1..2 * k : ToList(row, 2 * k)[i] = row[i-1]
  <2>1. PICK N \in Nat : N = 2 * k
    BY <1>1
  <2>2. \A x \in Slots(N) : row[x] \in LruSlots
    BY <1>12, <2>1
  <2>3. /\ ToList(row, N) \in Seq(LruSlots) /\ Len(ToList(row, N)) = N
        /\ \A i \in 1..N : ToList(row, N)[i] = row[i-1]
    BY ONLY N \in Nat, <2>2, ListOfRow
  <2> QED BY <2>1, <2>3
<1> DEFINE out == first \o second
<1> HIDE DEF first, second
<1>14. /\ out \in Seq(LruSlots) /\ Len(out) = k + k
       /\ \A i \in 1..k + k : out[i] = IF i <= k THEN first[i] ELSE second[i - k]
  <2>1. PICK V : V = LruSlots
    OBVIOUS
  <2>2. first \in Seq(V) /\ Len(first) = k /\ second \in Seq(V) /\ Len(second) = k
    BY <1>9, <2>1
  <2>3. /\ out \in Seq(V) /\ Len(out) = Len(first) + Len(second)
        /\ \A i \in 1 .. Len(first) + Len(second) :
              out[i] = IF i <= Len(first) THEN first[i] ELSE second[i - Len(first)]
    BY ONLY <2>2, ConcatProperties
  <2> QED BY <2>1, <2>2, <2>3
<1> HIDE DEF out
<1>15. \A i \in 1..2 * k : out[i] = ToList(row, 2 * k)[i]
  <2> SUFFICES ASSUME NEW i \in 1..2 * k PROVE out[i] = ToList(row, 2 * k)[i]
    OBVIOUS
  <2>1. /\ k + k = 2 * k /\ i-1 \in LruSlots /\ i \in Int /\ k \in Int
        /\ (i <= k <=> i-1 < k)
    BY <1>1 DEF Slots
  <2>2. CASE i <= k
    <3>1. i \in 1..k /\ i \in 1..k+k
      BY <1>1, <2>2
    <3>2. out[i] = filled[i-1]
      BY <1>9, <1>14, <2>2, <3>1
    <3>3. row[i-1] = filled[i-1]
      BY <1>8, <2>1, <2>2
    <3> QED BY <1>13, <3>2, <3>3
  <2>3. CASE ~(i <= k)
    <3>1. i - k \in 1..k /\ (i - k) - 1 = (i-1) - k
      BY <1>1, <2>3
    <3> QED BY <1>8, <1>9, <1>13, <1>14, <2>1, <2>3, <3>1
  <2> QED BY <2>2, <2>3
<1>16. out = ToList(row, 2 * k)
  <2>1. Len(out) = Len(ToList(row, 2 * k)) /\ Len(out) = 2 * k
    BY <1>1, <1>13, <1>14
  <2> QED BY ONLY <1>13, <1>14, <1>15, <2>1, SeqEqual
<1> QED BY <1>6, <1>16 DEF out, row

------------------------------------------------------------------------------
\* The inputs of the call stay as they are.

CallInv ==
    /\ \A b \in Rows : ValidLruRow(lru[b]) /\ ValidHitRow(hitIn[b])
    /\ hitMask = [b \in Rows |-> MaskOf(hitIn[b])]

LEMMA StepCallInv == CallInv /\ [PlanNext]_planVars => CallInv'
BY DEF CallInv, PlanNext, SettleHit, SettleNewLru, planVars

LEMMA CallInvariant == PlanSpec => []CallInv
<1>1. PlanInit => CallInv
  BY DEF PlanInit, CallInv
<1> QED BY <1>1, StepCallInv, PTL DEF PlanSpec

\* The returned order is a legal lru for the next call: it holds every id once, whatever
\* the slots hit.
THEOREM ReturnedLruIsValid == PlanSpec => []NewLruIsValid
<1>1. CallInv => NewLruIsValid
  BY NewRowValid DEF CallInv, NewLruIsValid, Settled
<1> QED BY <1>1, CallInvariant, PTL

\* The misses evict the least recently used ids that no slot hit: what a miss took was
\* older than everything that stays, and earlier misses took older ids.
THEOREM MissesEvictOldest == PlanSpec => []EvictsOldest
<1>1. CallInv => EvictsOldest
  <2> SUFFICES ASSUME CallInv, Settled, NEW b \in Rows,
                      NEW i \in MissSlots(hitMask[b]), NEW p \in LruSlots, hit[b][i] = lru[b][p]
               PROVE  /\ lru[b][p] \notin HitSet(hitIn[b], hitMask[b])
                      /\ \A q \in LruSlots :
                            lru[b][q] \in {newLru[b][j] : j \in k .. 2*k-1} => q < p
                      /\ \A j \in MissSlots(hitMask[b]), q \in LruSlots :
                            j < i /\ hit[b][j] = lru[b][q] => p < q
    BY DEF EvictsOldest
  <2> DEFINE lruRow  == lru[b]
             hitRow  == hitIn[b]
             maskRow == hitMask[b]
             filled  == Filled(lruRow, hitRow, maskRow)
             rest    == Remaining(lruRow, hitRow, maskRow)
  <2>1. /\ ValidLruRow(lruRow) /\ ValidHitRow(hitRow) /\ maskRow = MaskOf(hitRow)
        /\ hit[b] = filled /\ newLru[b] = NewLru(lruRow, hitRow, maskRow)
    BY DEF CallInv, Settled
  <2>2. Took(lruRow, hitRow, maskRow, i, p)
    BY <2>1, TakenInOrder
  <2>3. lruRow[p] \notin HitSet(hitRow, maskRow)
    BY <2>2 DEF Took, Candidates
  <2>4. ASSUME NEW q \in LruSlots, NEW j \in k .. 2*k-1, lruRow[q] = newLru[b][j]
        PROVE  q < p
    <3>1. j \in LruSlots /\ j >= k
      BY PlanAssumption DEF Slots
    <3>2. PICK r \in rest : newLru[b][j] = lruRow[r]
      BY <2>1, <3>1, RestOfRow
    <3>3. q = r
      BY <2>1, <2>4, <3>2 DEF ValidLruRow, Remaining
    <3> QED BY <2>1, <2>2, <3>3, TakenInOrder
  <2>5. ASSUME NEW j \in MissSlots(maskRow), NEW q \in LruSlots, j < i, hit[b][j] = lruRow[q]
        PROVE  p < q
    <3>1. Took(lruRow, hitRow, maskRow, j, q)
      BY <2>1, <2>5, TakenInOrder
    <3> QED BY <2>1, <2>2, <2>5, <3>1, TakenInOrder
  <2> QED BY <2>3, <2>4, <2>5
<1> QED BY <1>1, CallInvariant, PTL

\* The plan by positions and ranks, which the kernels are shown to compute, is the list that
\* the reference implementation of the tests returns (test_build_lru_plan.py 15-37).
THEOREM RanksAreTheReference == PlanSpec => []AgreesWithReference
<1>1. CallInv => AgreesWithReference
  BY FilledAgrees, OutputAgrees DEF CallInv, AgreesWithReference
<1> QED BY <1>1, CallInvariant, PTL
===============================================================================

------------------------------- MODULE LruPlan -------------------------------
(***************************************************************************)
(* What build_lru_plan promises, without kernels, tiles or workspaces.     *)
(*                                                                         *)
(* Each row has 2k block ids ordered from most to least recently used, and *)
(* k requested slots, each holding the id it hit or -1.  The misses take,  *)
(* in order, the least recently used ids that no slot hit; the new order   *)
(* is the filled slots followed by the ids not selected, in their old      *)
(* order.  This is build_lru_plan_reference of the repository's tests, on  *)
(* functions instead of lists (LruPlanLists is the list form).             *)
(*                                                                         *)
(* As a behaviour: the caller's hit rows and the fresh new_lru rows turn   *)
(* into that result in bursts of contiguous cells, in any order.  A cell   *)
(* never holds anything but its old or its final value.                    *)
(***************************************************************************)
EXTENDS TileOps

CONSTANTS batchSize, k

ASSUME PlanAssumption == k \in Nat

Rows == Slots(batchSize)

HitSlots == Slots(k)

LruSlots == Slots(2 * k)

\* hit_set: the ids the masked-in slots of a row hit.
HitSet(hitRow, maskRow) == {hitRow[i] : i \in {j \in HitSlots : maskRow[j]}}

\* The slots that miss.
MissSlots(maskRow) == {i \in HitSlots : ~maskRow[i]}

\* The LRU positions whose id may be evicted; miss_values reads them backwards.
Candidates(lruRow, hitRow, maskRow) ==
    {p \in LruSlots : lruRow[p] \notin HitSet(hitRow, maskRow)}

\* Mutant: a miss counts itself.
FilledOneTooFar(lruRow, hitRow, maskRow) ==
    LET missValues == CompactRight(Candidates(lruRow, hitRow, maskRow), lruRow)
    IN  [i \in HitSlots |->
            IF maskRow[i] THEN hitRow[i]
            ELSE missValues[Cardinality({j \in MissSlots(maskRow) : j <= i})]]

\* filled: a miss takes the candidate of the miss's own rank.
Filled(lruRow, hitRow, maskRow) ==
    LET missValues == CompactRight(Candidates(lruRow, hitRow, maskRow), lruRow)
    IN  [i \in HitSlots |->
            IF maskRow[i] THEN hitRow[i]
            ELSE missValues[Cardinality({j \in MissSlots(maskRow) : j < i})]]

\* Mutant: only the ids that misses took are removed.
RemainingWithHits(lruRow, hitRow, maskRow) ==
    LET taken == {Filled(lruRow, hitRow, maskRow)[i] : i \in MissSlots(maskRow)}
    IN  {p \in LruSlots : lruRow[p] \notin taken}

\* remaining: the LRU positions whose id is not selected.
Remaining(lruRow, hitRow, maskRow) ==
    LET selected == {Filled(lruRow, hitRow, maskRow)[i] : i \in HitSlots}
    IN  {p \in LruSlots : lruRow[p] \notin selected}

\* filled + remaining
NewLru(lruRow, hitRow, maskRow) ==
    LET filled == Filled(lruRow, hitRow, maskRow)
        rest   == CompactLeft(Remaining(lruRow, hitRow, maskRow), lruRow)
    IN  [i \in LruSlots |-> IF i < k THEN filled[i] ELSE rest[i - k]]

------------------------------------------------------------------------------
VARIABLES
    lru,      \* per row: the ids from most to least recently used
    hitMask,  \* per row: FALSE where the slot misses
    hitIn,    \* per row: hit as the caller passed it (history)
    hit,      \* per row: hit, filled in place
    newLru    \* per row: the returned tensor

planVars == <<lru, hitMask, hitIn, hit, newLru>>

\* A row is a permutation of 0..2k-1, its valid hits are distinct ids of it.
ValidLruRow(row) ==
    /\ row \in [LruSlots -> LruSlots]
    /\ \A p, q \in LruSlots : row[p] = row[q] => p = q

ValidHitRow(row) ==
    /\ row \in [HitSlots -> {-1} \cup LruSlots]
    /\ \A i, j \in HitSlots : row[i] = row[j] /\ row[i] # -1 => i = j

\* hit_mask[b, i] == false  <=>  hit[b, i] == -1
MaskOf(row) == [i \in HitSlots |-> row[i] # -1]

PlanInit ==
    /\ \A b \in Rows : ValidLruRow(lru[b]) /\ ValidHitRow(hitIn[b])
    /\ hitMask = [b \in Rows |-> MaskOf(hitIn[b])]
    /\ hit = hitIn
    /\ newLru \in [Rows -> [LruSlots -> Int]]

\* A burst settles the cells lo..hi of one row of hit ...
SettleHit(b, lo, hi) ==
    /\ hit' = [hit EXCEPT ![b] = [i \in HitSlots |->
                  IF i \in lo..hi THEN Filled(lru[b], hitIn[b], hitMask[b])[i] ELSE @[i]]]
    /\ UNCHANGED <<lru, hitMask, hitIn, newLru>>

\* ... or of one row of new_lru.
SettleNewLru(b, lo, hi) ==
    /\ newLru' = [newLru EXCEPT ![b] = [i \in LruSlots |->
                  IF i \in lo..hi THEN NewLru(lru[b], hitIn[b], hitMask[b])[i] ELSE @[i]]]
    /\ UNCHANGED <<lru, hitMask, hitIn, hit>>

PlanNext ==
    \E b \in Rows :
        \/ \E lo, hi \in HitSlots : SettleHit(b, lo, hi)
        \/ \E lo, hi \in LruSlots : SettleNewLru(b, lo, hi)

Settled ==
    \A b \in Rows :
        /\ hit[b] = Filled(lru[b], hitIn[b], hitMask[b])
        /\ newLru[b] = NewLru(lru[b], hitIn[b], hitMask[b])

PlanSpec == PlanInit /\ [][PlanNext]_planVars /\ WF_planVars(PlanNext)

------------------------------------------------------------------------------
\* Properties

\* new_lru is itself a legal lru for the next call: it holds every id once.  No
\* id is lost or doubled over any number of calls that feed new_lru back.
NewLruIsValid == Settled => \A b \in Rows : ValidLruRow(newLru[b])

\* Eviction is least recently used first: an id that a miss took was older than
\* every id that keeps its place without being hit, and of two misses the first
\* takes the older id.  An id that was hit is not evicted.
EvictsOldest ==
    Settled => \A b \in Rows :
        \A i \in MissSlots(hitMask[b]), p \in LruSlots :
            hit[b][i] = lru[b][p] =>
                /\ lru[b][p] \notin HitSet(hitIn[b], hitMask[b])
                /\ \A q \in LruSlots :
                      lru[b][q] \in {newLru[b][j] : j \in k .. 2*k-1} => q < p
                /\ \A j \in MissSlots(hitMask[b]), q \in LruSlots :
                      j < i /\ hit[b][j] = lru[b][q] => p < q
==============================================================================

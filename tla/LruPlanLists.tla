---------------------------- MODULE LruPlanLists -----------------------------
(***************************************************************************)
(* build_lru_plan_reference as the repository's tests write it, on lists.  *)
(* LruPlan states the same result by position and rank, which is the form  *)
(* the proofs use; AgreesWithReference says that they coincide.            *)
(***************************************************************************)
EXTENDS LruPlan, SequencesExt

\* A row as the list that tolist() returns.
ToList(row, length) == [i \in 1..length |-> row[i-1]]

\* hit_set
ListHits(hitList, maskList) == {hitList[i] : i \in {j \in 1..k : maskList[j]}}

\* [value for value in list if value not in S]
Without(list, S) ==
    LET kept[n \in 0..Len(list)] ==
            IF n = 0 THEN <<>>
            ELSE IF list[n] \in S THEN kept[n-1] ELSE Append(kept[n-1], list[n])
    IN  kept[Len(list)]

\* miss_values
MissValues(lruList, hitList, maskList) == Without(Reverse(lruList), ListHits(hitList, maskList))

\* A hit keeps its value; a miss takes next(miss_iter).
FilledList(lruList, hitList, maskList) ==
    LET state[n \in 0..k] ==
            IF n = 0 THEN [filled |-> <<>>, missIter |-> MissValues(lruList, hitList, maskList)]
            ELSE IF maskList[n] THEN [state[n-1] EXCEPT !.filled = Append(@, hitList[n])]
            ELSE [filled   |-> Append(state[n-1].filled, Head(state[n-1].missIter)),
                  missIter |-> Tail(state[n-1].missIter)]
    IN  state[k].filled

\* filled + remaining
OutputList(lruList, hitList, maskList) ==
    LET filled == FilledList(lruList, hitList, maskList)
    IN  filled \o Without(lruList, ToSet(filled))

------------------------------------------------------------------------------
\* The rank form computes what the list form computes.
AgreesWithReference ==
    \A b \in Rows :
        LET lruList  == ToList(lru[b], 2 * k)
            hitList  == ToList(hitIn[b], k)
            maskList == ToList(hitMask[b], k)
        IN  /\ ToList(Filled(lru[b], hitIn[b], hitMask[b]), k)
                  = FilledList(lruList, hitList, maskList)
            /\ ToList(NewLru(lru[b], hitIn[b], hitMask[b]), 2 * k)
                  = OutputList(lruList, hitList, maskList)
==============================================================================

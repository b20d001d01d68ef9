------------------------- MODULE BuildLruPlan_proofs -------------------------
(***************************************************************************)
(* Proofs about the four kernels, for every shape, every number of cores   *)
(* and every legal input.                                                  *)
(***************************************************************************)
EXTENDS BuildLruPlan, LruTiling_proofs

USE DEF Rows, HitSlots, Cores, LruSlots

------------------------------------------------------------------------------
\* Shapes.

LEMMA ShapeFacts ==
    /\ lruLength \in Nat \ {0}
    /\ lruStride \in Nat /\ lruLength <= lruStride
    /\ lruTileLength \in Nat \ {0} /\ hitTileLength \in Nat \ {0}
    /\ lruTileCount \in Nat \ {0} /\ hitTileCount \in Nat \ {0}
    /\ hitMetaStride \in Nat /\ hitTileCount <= hitMetaStride
    /\ lruMetaStride \in Nat /\ lruTileCount <= lruMetaStride
    /\ valueStride \in Nat /\ lruLength <= valueStride
    /\ tasksPerRow = hitTileCount + lruTileCount
<1>1. lruLength \in Nat \ {0} /\ k \in Nat \ {0}
  BY ShapeAssumption DEF lruLength
<1>2. lruStride \in Nat /\ lruLength <= lruStride
  BY <1>1, AlignUpBounds, TilingAssumption DEF lruStride
<1>3. lruTileLength \in Nat \ {0} /\ hitTileLength \in Nat \ {0}
  BY <1>1, ShapeAssumption, TileLengthBounds DEF lruTileLength, hitTileLength
<1>4. /\ lruTileCount \in Nat \ {0} /\ lruLength <= lruTileCount * lruTileLength
      /\ hitTileCount \in Nat \ {0}
  BY <1>1, <1>3, TilesPartition DEF lruTileCount, hitTileCount
<1>5. /\ hitMetaStride \in Nat /\ hitTileCount <= hitMetaStride
      /\ lruMetaStride \in Nat /\ lruTileCount <= lruMetaStride
  BY <1>4, AlignUpBounds, TilingAssumption DEF hitMetaStride, lruMetaStride
<1>6. valueStride \in Nat /\ lruLength <= valueStride
  BY <1>3, <1>4 DEF valueStride
<1> QED BY <1>1, <1>2, <1>3, <1>4, <1>5, <1>6 DEF tasksPerRow

\* Every task of a kernel belongs to one row, and is one of the row's tasks.
LEMMA TaskFacts ==
    ASSUME NEW n \in 1..4
    PROVE  /\ TasksOfRow(n) \in Nat \ {0}
           /\ TaskCount(n) = batchSize * TasksOfRow(n)
           /\ TaskCount(n) \in Nat \ {0}
           /\ BlockDim(n) \in 1..coreNum
           /\ \A t \in Nat : t < TaskCount(n) =>
                 RowOf(n, t) \in Rows /\ LocalTask(n, t) \in Slots(TasksOfRow(n))
<1>1. TasksOfRow(n) \in Nat \ {0}
  BY ShapeFacts DEF TasksOfRow
<1>2. TaskCount(n) = batchSize * TasksOfRow(n)
  BY ShapeAssumption, ShapeFacts DEF TaskCount, TasksOfRow
<1>3. TaskCount(n) \in Nat \ {0}
  BY <1>1, <1>2, ShapeAssumption
<1>4. BlockDim(n) \in 1..coreNum
  BY <1>3, BlockDimBounds, ShapeAssumption DEF BlockDim
<1>5. ASSUME NEW t \in Nat, t < TaskCount(n)
      PROVE  RowOf(n, t) \in Rows /\ LocalTask(n, t) \in Slots(TasksOfRow(n))
  BY <1>1, <1>2, <1>5, TaskOfRow, ShapeAssumption DEF RowOf, LocalTask
<1> QED BY <1>1, <1>2, <1>3, <1>4, <1>5

LEMMA TileFinite ==
    /\ \A lt \in Slots(lruTileCount) : IsFiniteSet(LruTile(lt)) /\ LruTile(lt) \subseteq LruSlots
    /\ \A ht \in Slots(hitTileCount) : IsFiniteSet(HitTile(ht)) /\ HitTile(ht) \subseteq HitSlots
<1>1. IsFiniteSet(LruSlots) /\ IsFiniteSet(HitSlots)
  BY SlotsFinite, ShapeFacts, ShapeAssumption
<1>2. \A lt \in Slots(lruTileCount) : LruTile(lt) \subseteq LruSlots
  BY ShapeFacts, TilesPartition DEF LruTile, lruTileCount
<1>3. \A ht \in Slots(hitTileCount) : HitTile(ht) \subseteq HitSlots
  BY ShapeFacts, ShapeAssumption, TilesPartition DEF HitTile, hitTileCount
<1> QED BY <1>1, <1>2, <1>3, FS_Subset

------------------------------------------------------------------------------
\* The type invariant.

LEMMA InitTypeOK == Init => TypeOK
<1> SUFFICES ASSUME Init PROVE TypeOK
  OBVIOUS
<1>1. TensorsOK
  <2>1. PICK g \in Garbage :
          /\ newLru = [b \in Rows |-> [i \in Slots(lruLength) |-> g]]
          /\ hitBitmap = [b \in Rows |-> [i \in Slots(lruStride) |-> g]]
          /\ hitCounts = [b \in Rows |-> [i \in Slots(hitMetaStride) |-> g]]
          /\ candidateValues = [b \in Rows |-> [i \in Slots(valueStride) |-> g]]
          /\ candidateCounts = [b \in Rows |-> [i \in Slots(lruMetaStride) |-> g]]
          /\ keepValues = [b \in Rows |-> [i \in Slots(valueStride) |-> g]]
          /\ keepCounts = [b \in Rows |-> [i \in Slots(lruMetaStride) |-> g]]
    BY DEF Init
  <2>2. g \in Int
    BY ShapeAssumption
  <2>3. /\ hitCounts \in [Rows -> [Slots(hitMetaStride) -> Int]]
        /\ candidateCounts \in [Rows -> [Slots(lruMetaStride) -> Int]]
        /\ keepCounts \in [Rows -> [Slots(lruMetaStride) -> Int]]
    BY <2>1, <2>2
  <2>4. /\ lru \in [Rows -> LruRows] /\ hitIn \in [Rows -> HitRows]
        /\ hitMask = [b \in Rows |-> [i \in HitSlots |-> hitIn[b][i] # -1]]
        /\ hit = hitIn
    BY DEF Init
  <2>5. IsTensor(hit, k)
    BY <2>4, InputAssumption DEF IsTensor, IsRow
  <2>6. /\ IsTensor(newLru, lruLength) /\ IsTensor(hitBitmap, lruStride)
        /\ IsTensor(candidateValues, valueStride) /\ IsTensor(keepValues, valueStride)
    BY <2>1 DEF IsTensor, IsRow
  <2> QED BY <2>3, <2>4, <2>5, <2>6 DEF TensorsOK
<1>2. ControlOK
  BY DEF Init, ControlOK, Labels, Slots
<1> QED BY <1>1, <1>2 DEF TypeOK

LEMMA LabelsOfTensors == \A n, t : TensorsOf(n, t) \subseteq Labels \ {"in"}
BY DEF TensorsOf, Labels

\* A core that has computed holds a result.
LEMMA ComputedOK ==
    ASSUME ControlOK, NEW c \in Cores, NEW n \in 1..4, Working(c, n), NEW result,
           IsResult(result), NEW target \in TensorsOf(n, task[c]), Computed(c, result, target)
    PROVE  ControlOK'
<1>1. UNCHANGED <<kernel, task>> /\ kernel = n
  BY DEF Computed, Working
<1>2. /\ pc' = [pc EXCEPT ![c] = target]
      /\ ub' = [ub EXCEPT ![c] = result]
  BY DEF Computed
<1>3. ASSUME NEW d \in Cores
      PROVE  IF pc'[d] = "in" THEN ub'[d] = <<>>
             ELSE /\ Working(d, kernel)' /\ IsResult(ub'[d])
                  /\ pc'[d] \in TensorsOf(kernel', task'[d])
  BY <1>1, <1>2, LabelsOfTensors DEF ControlOK, Working
<1>4. pc' \in [Cores -> Labels] /\ ub' = [d \in Cores |-> ub'[d]]
  BY <1>2, LabelsOfTensors DEF ControlOK
<1> QED BY <1>1, <1>3, <1>4 DEF ControlOK

\* So does one that goes on to its second copy-out.
LEMMA ProceedOK ==
    ASSUME ControlOK, NEW c \in Cores, pc[c] # "in",
           NEW target \in TensorsOf(kernel, task[c]), Proceed(c, target)
    PROVE  ControlOK'
<1>1. UNCHANGED <<kernel, task, ub>> /\ pc' = [pc EXCEPT ![c] = target]
  BY DEF Proceed
<1>2. ASSUME NEW d \in Cores
      PROVE  IF pc'[d] = "in" THEN ub'[d] = <<>>
             ELSE /\ Working(d, kernel)' /\ IsResult(ub'[d])
                  /\ pc'[d] \in TensorsOf(kernel', task'[d])
  BY <1>1, LabelsOfTensors DEF ControlOK, Working
<1>3. pc' \in [Cores -> Labels]
  BY <1>1, LabelsOfTensors DEF ControlOK
<1> QED BY <1>1, <1>2, <1>3 DEF ControlOK

\* A core that goes on to its next task holds none.
LEMMA NextTaskOK ==
    ASSUME ControlOK, NEW c \in Cores, kernel \in 1..4, NextTask(c)
    PROVE  ControlOK'
<1>1. /\ kernel' = kernel
      /\ task' = [task EXCEPT ![c] = @ + BlockDim(kernel)]
      /\ pc' = [pc EXCEPT ![c] = "in"]
      /\ ub' = [ub EXCEPT ![c] = <<>>]
  BY DEF NextTask
<1>2. BlockDim(kernel) \in Nat
  BY TaskFacts, ShapeAssumption
<1>3. task' \in [Cores -> Nat] /\ pc' \in [Cores -> Labels] /\ ub' = [d \in Cores |-> ub'[d]]
  BY <1>1, <1>2 DEF ControlOK, Labels
<1>4. ASSUME NEW d \in Cores
      PROVE  IF pc'[d] = "in" THEN ub'[d] = <<>>
             ELSE /\ Working(d, kernel)' /\ IsResult(ub'[d])
                  /\ pc'[d] \in TensorsOf(kernel', task'[d])
  BY <1>1 DEF ControlOK, Working
<1> QED BY <1>1, <1>3, <1>4 DEF ControlOK

\* Copying out keeps the shape of a tensor, and the integers of a tensor of counts.
LEMMA WriteValuesShape ==
    ASSUME NEW c, NEW rows, NEW n, IsTensor(rows, n)
    PROVE  IsTensor(WriteValues(c, rows), n)
BY DEF IsTensor, IsRow, WriteValues, CopyOut

LEMMA WriteCountsShape ==
    ASSUME NEW c, NEW n \in Nat, NEW rows \in [Rows -> [Slots(n) -> Int]], IsResult(ub[c])
    PROVE  WriteCounts(c, rows) \in [Rows -> [Slots(n) -> Int]]
<1>1. PICK m : ub[c].counts \in [Slots(m) -> Nat]
  BY DEF IsResult
<1>2. ASSUME NEW row \in [Slots(n) -> Int], NEW from
      PROVE  CopyOut(row, from, ub[c].counts) \in [Slots(n) -> Int]
  BY <1>1 DEF CopyOut
<1> QED BY <1>2 DEF WriteCounts

\* What a task computes is a well-formed result.
LEMMA CardinalityNat ==
    ASSUME NEW S, NEW T, S \subseteq T, IsFiniteSet(T)
    PROVE  IsFiniteSet(S) /\ Cardinality(S) \in Nat
BY FS_Subset, FS_CardinalityType

LEMMA ArrayShape ==
    ASSUME NEW n \in Nat, NEW a, a = [i \in Slots(n) |-> a[i]]
    PROVE  IsRow(a, Cardinality(DOMAIN a))
BY SlotsFinite DEF IsRow

LEMMA OneShape ==
    ASSUME NEW value \in Nat
    PROVE  \E n \in 0 .. hitMetaStride + 1 : One(value) \in [Slots(n) -> Nat]
<1>1. One(value) \in [Slots(1) -> Nat]
  BY DEF One, Slots
<1> QED BY <1>1, ShapeFacts

LEMMA NoCountsShape == \E n \in 0 .. hitMetaStride + 1 : <<>> \in [Slots(n) -> Nat]
<1>1. <<>> \in [Slots(0) -> Nat]
  BY DEF Slots
<1> QED BY <1>1, ShapeFacts

LEMMA HitLocalOK ==
    ASSUME NEW t
    PROVE  IsResult(HitLocalResult(t))
<1> DEFINE b == RowOf(1, t)
<1>1. IsRow(BitmapOf(hit[b]), Cardinality(DOMAIN BitmapOf(hit[b])))
  BY ArrayShape, ShapeFacts DEF BitmapOf
<1>2. MissCounts(hit[b]) \in [Slots(hitMetaStride) -> Nat]
  <2>1. ASSUME NEW ht \in Slots(hitMetaStride), ht < hitTileCount
        PROVE  Cardinality({i \in HitTile(ht) : hit[b][i] = -1}) \in Nat
    <3>1. ht \in Slots(hitTileCount)
      BY <2>1, ShapeFacts DEF Slots
    <3> QED BY <3>1, TileFinite, CardinalityNat
  <2> QED BY <2>1 DEF MissCounts
<1>3. hitMetaStride \in 0 .. hitMetaStride + 1
  BY ShapeFacts
<1> HIDE DEF b
<1> QED BY <1>1, <1>2, <1>3 DEF HitLocalResult, IsResult, Result, b

LEMMA CandidateOK ==
    ASSUME NEW t \in Nat, t < TaskCount(2)
    PROVE  /\ IsResult(CandidateResult(t))
           /\ IsFiniteSet(Unhit(RowOf(2, t), LocalTask(2, t)))
<1> DEFINE b  == RowOf(2, t)
           lt == LocalTask(2, t)
<1>1. lt \in Slots(lruTileCount)
  BY TaskFacts DEF TasksOfRow
<1> HIDE DEF b, lt
<1>2. IsFiniteSet(Unhit(b, lt)) /\ Cardinality(Unhit(b, lt)) \in Nat
  BY <1>1, TileFinite, CardinalityNat DEF Unhit
<1>3. IsRow(CompactRight(Unhit(b, lt), lru[b]),
            Cardinality(DOMAIN CompactRight(Unhit(b, lt), lru[b])))
  BY <1>2, ArrayShape DEF CompactRight
<1>4. lt \in Nat /\ lt * lruTileLength \in Int
  BY <1>1, ShapeFacts DEF Slots
<1> QED BY <1>2, <1>3, <1>4, OneShape DEF CandidateResult, IsResult, Result, b, lt

LEMMA FillOK ==
    ASSUME NEW t \in Nat, t < TaskCount(3), FillsHits(t)
    PROVE  IsResult(FillResult(t))
<1> DEFINE ht == LocalTask(3, t)
<1>1. ht \in Slots(hitTileCount)
  BY TaskFacts, ShapeFacts DEF FillsHits, TasksOfRow, Slots
<1> HIDE DEF ht
<1>2. Cardinality(HitTile(ht)) \in Nat
  BY <1>1, TileFinite, CardinalityNat
<1>3. ht * hitTileLength \in Int
  BY <1>1, ShapeFacts DEF Slots
<1>4. IsRow(FillResult(t).values, Cardinality(DOMAIN FillResult(t).values))
  BY <1>2, ArrayShape DEF FillResult, Result, ht
<1> QED BY <1>3, <1>4, NoCountsShape DEF FillResult, IsResult, Result, ht

LEMMA KeepTileFacts ==
    ASSUME NEW t \in Nat, t < TaskCount(3), ~FillsHits(t)
    PROVE  KeepTileOf(t) \in Slots(lruTileCount)
BY TaskFacts, ShapeFacts DEF FillsHits, KeepTileOf, TasksOfRow, Slots

LEMMA KeepOK ==
    ASSUME NEW t \in Nat, t < TaskCount(3), ~FillsHits(t)
    PROVE  IsResult(KeepResult(t))
<1> DEFINE b  == RowOf(3, t)
           lt == KeepTileOf(t)
<1>1. lt \in Slots(lruTileCount)
  BY KeepTileFacts
<1> HIDE DEF b, lt
<1>2. IsFiniteSet(Kept(b, lt)) /\ Cardinality(Kept(b, lt)) \in Nat
  BY <1>1, TileFinite, CardinalityNat DEF Kept, Unhit
<1>3. IsRow(CompactLeft(Kept(b, lt), lru[b]),
            Cardinality(DOMAIN CompactLeft(Kept(b, lt), lru[b])))
  BY <1>2, ArrayShape DEF CompactLeft
<1>4. lt \in Nat /\ lt * lruTileLength \in Int
  BY <1>1, ShapeFacts DEF Slots
<1> QED BY <1>2, <1>3, <1>4, OneShape DEF KeepResult, IsResult, Result, b, lt

LEMMA ScanOK ==
    ASSUME TensorsOK, NEW t \in Nat, t < TaskCount(4),
           keepCounts[RowOf(4, t)][LocalTask(4, t)] > 0
    PROVE  IsResult(ScanResult(t))
<1> DEFINE b  == RowOf(4, t)
           lt == LocalTask(4, t)
<1>1. b \in Rows /\ lt \in Slots(lruTileCount)
  BY TaskFacts DEF TasksOfRow
<1>2. keepCounts[b][lt] > 0
  OBVIOUS
<1> HIDE DEF b, lt
<1>3. \A i \in Slots(lruTileCount) : keepCounts[b][i] \in Int
  BY <1>1, ShapeFacts DEF TensorsOK, Slots
<1>4. keepCounts[b][lt] \in Nat
  BY <1>1, <1>2, <1>3
<1>5. Total(keepCounts[b], 0, lt) \in Int
  <2>1. lt \in Nat /\ 0 <= lt /\ \A i \in 0 .. lt-1 : i \in Slots(lruTileCount)
    BY <1>1, ShapeFacts DEF Slots
  <2>2. \A i \in 0 .. lt-1 : keepCounts[b][i] \in Int
    BY <1>3, <2>1
  <2> QED BY <2>1, <2>2, TotalStep
<1>6. IsRow(ScanResult(t).values, Cardinality(DOMAIN ScanResult(t).values))
  BY <1>4, ArrayShape DEF ScanResult, Result, CopyIn, b, lt
<1>7. KeepOffset(b, lt) \in Int
  BY <1>5, ShapeAssumption DEF KeepOffset
<1> QED BY <1>6, <1>7, NoCountsShape DEF ScanResult, IsResult, Result, b, lt

LEMMA StepTypeOK == TypeOK /\ [Next]_vars => TypeOK'
<1> SUFFICES ASSUME TypeOK, [Next]_vars PROVE TypeOK'
  OBVIOUS
<1> USE DEF TypeOK
<1>1. ASSUME NEW c \in Cores, NEW n \in 1..4, Working(c, n)
      PROVE  task[c] \in Nat /\ task[c] < TaskCount(n) /\ kernel = n
  BY <1>1 DEF ControlOK, Working
<1>2. ASSUME NEW c \in Cores, HitLocalCompute(c) PROVE TypeOK'
  <2>1. ControlOK'
    BY <1>2, ComputedOK, HitLocalOK DEF HitLocalCompute, TensorsOf, Working
  <2> QED BY <2>1, <1>2 DEF HitLocalCompute, Computed, TensorsOK, inputs, workspaces
<1>3. ASSUME NEW c \in Cores, CopyOutBitmap(c) PROVE TypeOK'
  <2>1. ControlOK'
    BY <1>3, ProceedOK DEF CopyOutBitmap, TensorsOf, ControlOK, Working
  <2> QED BY <2>1, <1>3, WriteValuesShape DEF CopyOutBitmap, TensorsOK, inputs
<1>4. ASSUME NEW c \in Cores, CopyOutHitCounts(c) PROVE TypeOK'
  <2>1. ControlOK'
    BY <1>4, NextTaskOK DEF CopyOutHitCounts, Working
  <2>2. IsResult(ub[c])
    BY <1>4 DEF CopyOutHitCounts, ControlOK
  <2> QED BY <2>1, <2>2, <1>4, WriteCountsShape, ShapeFacts DEF CopyOutHitCounts, TensorsOK, inputs
<1>5. ASSUME NEW c \in Cores, CandidateLocalCompute(c) PROVE TypeOK'
  <2>1. IsResult(CandidateResult(task[c]))
    BY <1>1, <1>5, CandidateOK DEF CandidateLocalCompute
  <2>2. ControlOK'
    BY <1>5, <2>1, ComputedOK DEF CandidateLocalCompute, TensorsOf, Working
  <2> QED BY <2>2, <1>5 DEF CandidateLocalCompute, Computed, TensorsOK, inputs, workspaces
<1>6. ASSUME NEW c \in Cores, CopyOutCandidateValues(c) PROVE TypeOK'
  <2>1. ControlOK'
    BY <1>6, ProceedOK DEF CopyOutCandidateValues, TensorsOf, ControlOK, Working
  <2> QED BY <2>1, <1>6, WriteValuesShape DEF CopyOutCandidateValues, TensorsOK, inputs
<1>7. ASSUME NEW c \in Cores, CopyOutCandidateCount(c) PROVE TypeOK'
  <2>1. ControlOK'
    BY <1>7, NextTaskOK DEF CopyOutCandidateCount, Working
  <2>2. IsResult(ub[c])
    BY <1>7 DEF CopyOutCandidateCount, ControlOK
  <2> QED BY <2>1, <2>2, <1>7, WriteCountsShape, ShapeFacts
          DEF CopyOutCandidateCount, TensorsOK, inputs
<1>8. ASSUME NEW c \in Cores, FillCompute(c) PROVE TypeOK'
  <2>1. IsResult(FillResult(task[c]))
    BY <1>1, <1>8, FillOK DEF FillCompute
  <2>2. ControlOK'
    BY <1>8, <2>1, ComputedOK DEF FillCompute, TensorsOf, Working
  <2> QED BY <2>2, <1>8 DEF FillCompute, Computed, TensorsOK, inputs, workspaces
<1>9. ASSUME NEW c \in Cores, CopyOutHit(c) PROVE TypeOK'
  <2>1. ControlOK'
    BY <1>9, ProceedOK DEF CopyOutHit, TensorsOf, ControlOK, Working
  <2> QED BY <2>1, <1>9, WriteValuesShape DEF CopyOutHit, TensorsOK, inputs, workspaces
<1>10. ASSUME NEW c \in Cores, CopyOutNewLruHead(c) PROVE TypeOK'
  <2>1. ControlOK'
    BY <1>10, NextTaskOK DEF CopyOutNewLruHead, Working
  <2> QED BY <2>1, <1>10, WriteValuesShape DEF CopyOutNewLruHead, TensorsOK, inputs, workspaces
<1>11. ASSUME NEW c \in Cores, KeepCompute(c) PROVE TypeOK'
  <2>1. IsResult(KeepResult(task[c]))
    BY <1>1, <1>11, KeepOK DEF KeepCompute
  <2>2. ControlOK'
    BY <1>11, <2>1, ComputedOK DEF KeepCompute, TensorsOf, Working
  <2> QED BY <2>2, <1>11 DEF KeepCompute, Computed, TensorsOK, inputs, workspaces
<1>12. ASSUME NEW c \in Cores, CopyOutKeepValues(c) PROVE TypeOK'
  <2>1. ControlOK'
    BY <1>12, ProceedOK DEF CopyOutKeepValues, TensorsOf, ControlOK, Working
  <2> QED BY <2>1, <1>12, WriteValuesShape DEF CopyOutKeepValues, TensorsOK, inputs
<1>13. ASSUME NEW c \in Cores, CopyOutKeepCount(c) PROVE TypeOK'
  <2>1. ControlOK'
    BY <1>13, NextTaskOK DEF CopyOutKeepCount, Working
  <2>2. IsResult(ub[c])
    BY <1>13 DEF CopyOutKeepCount, ControlOK
  <2> QED BY <2>1, <2>2, <1>13, WriteCountsShape, ShapeFacts
          DEF CopyOutKeepCount, TensorsOK, inputs
<1>14. ASSUME NEW c \in Cores, KeepScan(c) PROVE TypeOK'
  <2>1. IsResult(ScanResult(task[c]))
    BY <1>1, <1>14, ScanOK DEF KeepScan, Row
  <2>2. ControlOK'
    BY <1>14, <2>1, ComputedOK DEF KeepScan, TensorsOf, Working
  <2> QED BY <2>2, <1>14 DEF KeepScan, Computed, TensorsOK, inputs, workspaces
<1>15. ASSUME NEW c \in Cores, KeepScanSkip(c) PROVE TypeOK'
  <2>1. ControlOK'
    BY <1>15, NextTaskOK DEF KeepScanSkip, Working
  <2> QED BY <2>1, <1>15 DEF KeepScanSkip, TensorsOK, inputs, workspaces
<1>16. ASSUME NEW c \in Cores, CopyOutNewLruTail(c) PROVE TypeOK'
  <2>1. ControlOK'
    BY <1>16, NextTaskOK DEF CopyOutNewLruTail, Working
  <2> QED BY <2>1, <1>16, WriteValuesShape DEF CopyOutNewLruTail, TensorsOK, inputs, workspaces
<1>17. ASSUME LaunchNext PROVE TypeOK'
  <2>1. ControlOK'
    BY <1>17 DEF LaunchNext, ControlOK, Slots
  <2> QED BY <2>1, <1>17 DEF LaunchNext, TensorsOK, inputs, workspaces
<1>18. CASE UNCHANGED vars
  BY <1>18 DEF vars, inputs, workspaces, control, TensorsOK, ControlOK, Working
<1> QED
  BY <1>2, <1>3, <1>4, <1>5, <1>6, <1>7, <1>8, <1>9, <1>10, <1>11, <1>12, <1>13,
     <1>14, <1>15, <1>16, <1>17, <1>18 DEF Next, CoreStep, Finished

\* Shapes, integers and buffers are as TypeOK says at every step of the kernels,
\* for every shape, number of cores and legal input, whatever memory held before.
THEOREM TypeCorrect == Spec => []TypeOK
BY InitTypeOK, StepTypeOK, PTL DEF Spec

------------------------------------------------------------------------------
\* What the kernels compute, from the row of lru and the row of hit of the call.

Misses(hitRow) == {i \in HitSlots : hitRow[i] = -1}

Hits(hitRow) == HitSlots \ Misses(hitRow)

\* The positions whose id no slot hit.
Free(lruRow, hitRow) == {p \in LruSlots : \A i \in Hits(hitRow) : hitRow[i] # lruRow[p]}

\* The misses take the free ids from the right ...
Fill(lruRow, hitRow) ==
    [i \in HitSlots |->
        IF hitRow[i] # -1 THEN hitRow[i]
        ELSE CompactRight(Free(lruRow, hitRow), lruRow)[Cardinality(Below(Misses(hitRow), i))]]

\* ... and the others stay.
Stay(lruRow, hitRow) ==
    {p \in Free(lruRow, hitRow) :
        Cardinality(Above(Free(lruRow, hitRow), p)) >= Cardinality(Misses(hitRow))}

\* The row's misses and the ids no slot hit: there are k more of these, the misses
\* take one each, and k stay.
LEMMA RowFacts ==
    ASSUME NEW lruRow \in LruRows, NEW hitRow \in HitRows
    PROVE  LET misses == Misses(hitRow)
               free   == Free(lruRow, hitRow)
               fill   == Fill(lruRow, hitRow)
               stay   == Stay(lruRow, hitRow)
           IN  /\ misses \subseteq HitSlots /\ Cardinality(misses) \in Nat
               /\ free \subseteq LruSlots /\ Cardinality(free) = k + Cardinality(misses)
               /\ stay \subseteq free /\ Cardinality(stay) = k
               /\ \A i \in HitSlots : hitRow[i] # -1 => fill[i] = hitRow[i]
               /\ \A i \in misses : \E p \in free :
                     /\ Cardinality(Above(free, p)) = Cardinality(Below(misses, i))
                     /\ fill[i] = lruRow[p]
               /\ stay = {p \in LruSlots : lruRow[p] \notin {fill[i] : i \in HitSlots}}
<1> DEFINE misses == Misses(hitRow)
           hits   == Hits(hitRow)
           free   == Free(lruRow, hitRow)
           fill   == Fill(lruRow, hitRow)
           stay   == Stay(lruRow, hitRow)
<1>1. /\ lruRow \in [LruSlots -> LruSlots]
      /\ \A p, q \in LruSlots : lruRow[p] = lruRow[q] => p = q
      /\ hitRow \in [HitSlots -> {-1} \cup LruSlots]
      /\ \A i, j \in HitSlots : hitRow[i] = hitRow[j] /\ hitRow[i] # -1 => i = j
  BY InputAssumption
<1>2. k \in Nat /\ lruLength \in Nat /\ lruLength = 2 * k
  BY ShapeAssumption DEF lruLength
<1>3. /\ misses \subseteq HitSlots /\ hits \subseteq HitSlots /\ misses = HitSlots \ hits
      /\ misses \cap hits = {} /\ misses \cup hits = HitSlots
      /\ \A i \in hits : hitRow[i] # -1
  BY DEF Misses, Hits
<1>4. /\ IsFiniteSet(misses) /\ IsFiniteSet(hits)
      /\ Cardinality(misses) \in Nat /\ Cardinality(hits) \in Nat
  BY <1>2, <1>3, SubsetOfSlots
<1>5. k = Cardinality(misses) + Cardinality(hits)
  <2>1. Cardinality(HitSlots) = k
    BY <1>2, SlotsFinite
  <2> HIDE DEF misses, hits
  <2> QED BY <2>1, <1>3, <1>4, CardinalitySplit
<1>6. free = {p \in LruSlots : \A i \in hits : hitRow[i] # lruRow[p]}
  BY DEF Free
<1>7. Cardinality(free) = lruLength - Cardinality(hits)
  <2>1. /\ \A i \in hits : hitRow[i] \in Slots(lruLength)
        /\ \A i, j \in hits : hitRow[i] = hitRow[j] => i = j
    BY <1>1, <1>3
  <2> HIDE DEF hits, free
  <2> QED BY <1>1, <1>2, <1>3, <1>6, <2>1, UnhitCount
<1>8. /\ free \subseteq LruSlots /\ stay \subseteq free
      /\ Cardinality(free) = k + Cardinality(misses)
      /\ Cardinality(free) \in Nat /\ Cardinality(misses) <= Cardinality(free)
  BY <1>2, <1>4, <1>5, <1>7 DEF Free, Stay
<1>9. Cardinality(stay) = k
  <2>1. Cardinality({p \in free : Cardinality(Above(free, p)) >= Cardinality(misses)})
            = Cardinality(free) - Cardinality(misses)
    BY ONLY <1>2, <1>4, <1>8, RankedBelow
  <2> QED BY <2>1, <1>2, <1>4, <1>8 DEF Stay
<1>10. \A i \in HitSlots : hitRow[i] # -1 => fill[i] = hitRow[i]
  BY DEF Fill
<1>11. ASSUME NEW i \in misses, NEW p \in free,
              Cardinality(Above(free, p)) = Cardinality(Below(misses, i))
       PROVE  fill[i] = lruRow[p]
  <2>1. fill[i] = CompactRight(free, lruRow)[Cardinality(Below(misses, i))]
    BY <1>3 DEF Fill, Misses
  <2>2. CompactRight(free, lruRow)[Cardinality(Above(free, p))] = lruRow[p]
    BY ONLY <1>2, <1>8, <1>11, CompactRightAt
  <2> QED BY <2>1, <2>2, <1>11
<1>12. stay = {p \in free : Cardinality(Above(free, p)) >= Cardinality(misses)}
  BY DEF Stay
<1> HIDE DEF misses, hits, free, fill, stay
<1>13. /\ Unselected(lruLength, k, lruRow, fill) = Late(free, Cardinality(misses))
       /\ FindsFree(misses, free, fill, lruRow)
  <2>1. KeepsHits(hits, fill, hitRow)
    BY <1>3, <1>10 DEF KeepsHits
  <2>2. TakesFree(misses, free, fill, lruRow)
    BY <1>11 DEF TakesFree
  <2>3. /\ free = FreeOf(lruLength, lruRow, hitRow, hits)
        /\ misses = Slots(k) \ hits /\ hits \subseteq Slots(k)
        /\ Distinct(lruLength, lruRow)
        /\ lruLength \in Nat /\ k \in Nat
        /\ Cardinality(misses) <= Cardinality(free)
    BY <1>1, <1>2, <1>3, <1>6, <1>8 DEF FreeOf, Distinct
  <2> QED BY ONLY <2>1, <2>2, <2>3, WhatStays
<1>14. stay = {p \in LruSlots : lruRow[p] \notin {fill[i] : i \in HitSlots}}
  BY <1>12, <1>13 DEF Unselected, Late
<1>15. /\ misses \subseteq HitSlots /\ Cardinality(misses) \in Nat
       /\ free \subseteq LruSlots /\ Cardinality(free) = k + Cardinality(misses)
       /\ stay \subseteq free /\ Cardinality(stay) = k
       /\ \A i \in HitSlots : hitRow[i] # -1 => fill[i] = hitRow[i]
       /\ \A i \in misses : \E p \in free :
             /\ Cardinality(Above(free, p)) = Cardinality(Below(misses, i))
             /\ fill[i] = lruRow[p]
       /\ stay = {p \in LruSlots : lruRow[p] \notin {fill[i] : i \in HitSlots}}
  BY <1>3, <1>4, <1>8, <1>9, <1>10, <1>13, <1>14 DEF FindsFree
<1> QED BY <1>15 DEF misses, free, fill, stay

------------------------------------------------------------------------------
\* Tasks and tiles.

LEMMA DivUnique ==
    ASSUME NEW m \in Nat \ {0}, NEW q \in Nat, NEW r \in Nat, r < m
    PROVE  (q * m + r) \div m = q /\ (q * m + r) % m = r
<1> DEFINE t == q * m + r
           d == t \div m
<1>1. t \in Nat /\ q * m \in Nat
  OBVIOUS
<1> HIDE DEF t
<1>2. d \in Nat /\ d * m <= t /\ t < d * m + m /\ t % m = t - d * m
  BY <1>1
<1> HIDE DEF d
<1>3. ~(d < q)
  <2> SUFFICES ASSUME d < q PROVE FALSE
    OBVIOUS
  <2>1. (d + 1) * m <= q * m
    BY <1>2
  <2>2. (d + 1) * m = d * m + m /\ d * m \in Nat
    BY <1>2
  <2> QED BY <2>1, <2>2, <1>1, <1>2 DEF t
<1>4. ~(q < d)
  <2> SUFFICES ASSUME q < d PROVE FALSE
    OBVIOUS
  <2>1. (q + 1) * m <= d * m
    BY <1>2
  <2>2. (q + 1) * m = q * m + m /\ d * m \in Nat
    BY <1>2
  <2> QED BY <2>1, <2>2, <1>1, <1>2 DEF t
<1>5. d = q
  BY <1>2, <1>3, <1>4
<1> QED BY <1>1, <1>2, <1>5 DEF t, d

\* A row and one of its tasks make a task of the kernel, and only one.
LEMMA TaskAt ==
    ASSUME NEW n \in 1..4, NEW b \in Rows, NEW x \in Slots(TasksOfRow(n))
    PROVE  \E t \in Slots(TaskCount(n)) : RowOf(n, t) = b /\ LocalTask(n, t) = x
<1> DEFINE m == TasksOfRow(n)
           t == b * m + x
<1>1. m \in Nat \ {0} /\ TaskCount(n) = batchSize * m /\ batchSize \in Nat
  BY TaskFacts, ShapeAssumption
<1>2. x \in Nat /\ x < m /\ b \in Nat /\ b + 1 <= batchSize
  BY <1>1 DEF Slots
<1> HIDE DEF m
<1>3. t \div m = b
  BY <1>1, <1>2, DivUnique
<1>4. t \in Nat /\ t < batchSize * m
  <2>1. (b + 1) * m <= batchSize * m
    BY <1>1, <1>2
  <2>2. (b + 1) * m = b * m + m /\ b * m \in Nat
    BY <1>1, <1>2
  <2> QED BY <1>1, <1>2, <2>1, <2>2
<1>5. t - b * m = x
  BY <1>1, <1>2
<1>6. t \in Slots(TaskCount(n))
  BY <1>1, <1>4 DEF Slots
<1>7. RowOf(n, t) = b /\ LocalTask(n, t) = x
  BY <1>3, <1>5 DEF RowOf, LocalTask, m
<1> HIDE DEF t
<1> QED BY <1>6, <1>7

LEMMA TaskRow ==
    ASSUME NEW n \in 1..4, NEW t \in Slots(TaskCount(n))
    PROVE  /\ t \in Nat /\ t < TaskCount(n)
           /\ RowOf(n, t) \in Rows /\ LocalTask(n, t) \in Slots(TasksOfRow(n))
           /\ RowOf(n, t) * TasksOfRow(n) + LocalTask(n, t) = t
<1>1. t \in Nat /\ t < TaskCount(n)
  BY TaskFacts DEF Slots
<1>2. RowOf(n, t) \in Rows /\ LocalTask(n, t) \in Slots(TasksOfRow(n))
  BY <1>1, TaskFacts
<1>3. RowOf(n, t) * TasksOfRow(n) \in Int
  <2>1. RowOf(n, t) \in Nat /\ TasksOfRow(n) \in Nat
    BY <1>2, TaskFacts, ShapeAssumption DEF Slots
  <2> QED BY <2>1
<1>4. LocalTask(n, t) = t - RowOf(n, t) * TasksOfRow(n)
  BY DEF LocalTask
<1> QED BY <1>1, <1>2, <1>3, <1>4

LEMMA SameTask ==
    ASSUME NEW n \in 1..4, NEW t \in Slots(TaskCount(n)), NEW u \in Slots(TaskCount(n)),
           RowOf(n, t) = RowOf(n, u), LocalTask(n, t) = LocalTask(n, u)
    PROVE  t = u
BY TaskRow

\* Kernel 3's tasks of a row: first the hit tiles, then the lru tiles.
LEMMA FillTaskAt ==
    ASSUME NEW b \in Rows, NEW ht \in Slots(hitTileCount)
    PROVE  \E t \in Slots(TaskCount(3)) :
              RowOf(3, t) = b /\ FillsHits(t) /\ LocalTask(3, t) = ht
<1>1. ht \in Slots(TasksOfRow(3)) /\ ht < hitTileCount
  BY ShapeFacts DEF TasksOfRow, Slots
<1>2. PICK t \in Slots(TaskCount(3)) : RowOf(3, t) = b /\ LocalTask(3, t) = ht
  BY <1>1, TaskAt
<1> QED BY <1>1, <1>2 DEF FillsHits

LEMMA KeepTaskAt ==
    ASSUME NEW b \in Rows, NEW lt \in Slots(lruTileCount)
    PROVE  \E t \in Slots(TaskCount(3)) :
              RowOf(3, t) = b /\ ~FillsHits(t) /\ KeepTileOf(t) = lt
<1>1. /\ hitTileCount + lt \in Slots(TasksOfRow(3)) /\ ~(hitTileCount + lt < hitTileCount)
      /\ hitTileCount + lt - hitTileCount = lt
  BY ShapeFacts DEF TasksOfRow, Slots
<1>2. PICK t \in Slots(TaskCount(3)) : RowOf(3, t) = b /\ LocalTask(3, t) = hitTileCount + lt
  BY <1>1, TaskAt
<1>3. ~FillsHits(t) /\ KeepTileOf(t) = lt
  <2>1. hitTileCount \in Nat /\ lt \in Nat
    BY ShapeFacts DEF Slots
  <2> QED BY <1>2, <2>1 DEF FillsHits, KeepTileOf
<1> QED BY <1>2, <1>3

\* The tile of a hit or an lru slot.
LEMMA LruTileFacts ==
    /\ \A lt \in Slots(lruTileCount) :
          /\ LruTile(lt) = {p \in LruSlots : lt * lruTileLength <= p
                                             /\ p < lt * lruTileLength + lruTileLength}
          /\ lt \in Nat /\ lt < lruTileCount /\ lt * lruTileLength \in Nat
          /\ lt * lruTileLength \in LruSlots
          /\ (lt + 1) * lruTileLength = lt * lruTileLength + lruTileLength
    /\ \A p \in LruSlots : /\ p \div lruTileLength \in Slots(lruTileCount)
                           /\ p \in LruTile(p \div lruTileLength)
    /\ \A lt, other \in Slots(lruTileCount) :
          lt # other => LruTile(lt) \cap LruTile(other) = {}
    /\ lruLength <= lruTileCount * lruTileLength
<1>1. \A lt \in Slots(lruTileCount) :
         /\ lt \in Nat /\ lt < lruTileCount /\ lt * lruTileLength \in Nat
         /\ (lt + 1) * lruTileLength = lt * lruTileLength + lruTileLength
  BY ShapeFacts DEF Slots
<1> QED BY <1>1, ShapeFacts, TilesPartition DEF LruTile, lruTileCount

LEMMA HitTileFacts ==
    /\ \A ht \in Slots(hitTileCount) :
          /\ HitTile(ht) = {i \in HitSlots : ht * hitTileLength <= i
                                             /\ i < ht * hitTileLength + hitTileLength}
          /\ ht \in Nat /\ ht < hitTileCount /\ ht * hitTileLength \in Nat
          /\ ht * hitTileLength \in HitSlots
          /\ \A p \in Slots(Cardinality(HitTile(ht))) : ht * hitTileLength + p \in HitTile(ht)
          /\ \A i \in HitTile(ht) : i - ht * hitTileLength \in Slots(Cardinality(HitTile(ht)))
    /\ \A i \in HitSlots : /\ i \div hitTileLength \in Slots(hitTileCount)
                           /\ i \in HitTile(i \div hitTileLength)
    /\ \A ht, other \in Slots(hitTileCount) :
          ht # other => HitTile(ht) \cap HitTile(other) = {}
    /\ k <= hitTileCount * hitTileLength
<1>1. \A ht \in Slots(hitTileCount) :
         /\ ht \in Nat /\ ht < hitTileCount /\ ht * hitTileLength \in Nat
  BY ShapeFacts DEF Slots
<1>2. /\ \A ht \in Slots(hitTileCount) :
            /\ HitTile(ht) = {i \in HitSlots : ht * hitTileLength <= i
                                               /\ i < ht * hitTileLength + hitTileLength}
            /\ ht * hitTileLength \in HitSlots
      /\ \A i \in HitSlots : /\ i \div hitTileLength \in Slots(hitTileCount)
                             /\ i \in HitTile(i \div hitTileLength)
      /\ \A ht, other \in Slots(hitTileCount) :
            ht # other => HitTile(ht) \cap HitTile(other) = {}
      /\ k <= hitTileCount * hitTileLength
  BY ShapeFacts, ShapeAssumption, TilesPartition DEF HitTile, hitTileCount
<1>3. ASSUME NEW ht \in Slots(hitTileCount)
      PROVE  /\ \A p \in Slots(Cardinality(HitTile(ht))) : ht * hitTileLength + p \in HitTile(ht)
             /\ \A i \in HitTile(ht) : i - ht * hitTileLength \in Slots(Cardinality(HitTile(ht)))
  <2> DEFINE start == ht * hitTileLength
             len   == MinInt64(hitTileLength, k - start)
  <2>1. start \in Nat /\ start < k /\ k \in Nat
    BY <1>1, <1>2, ShapeAssumption DEF Slots
  <2>2. HitTile(ht) = start .. start + len - 1
    BY DEF HitTile, Tile
  <2> HIDE DEF start
  <2>3. len \in Nat \ {0}
    BY <2>1, ShapeFacts DEF MinInt64
  <2> HIDE DEF len
  <2>4. Cardinality(HitTile(ht)) = len
    <3>1. Cardinality(start .. start + len - 1)
             = IF start > start + len - 1 THEN 0 ELSE (start + len - 1) - start + 1
      BY <2>1, <2>3, FS_Interval
    <3> QED BY <2>1, <2>2, <2>3, <3>1
  <2> QED BY <2>1, <2>2, <2>3, <2>4 DEF Slots, start
<1> QED BY <1>1, <1>2, <1>3

\* The members of S from position p on.
From(S, p) == {q \in S : p <= q}

\* What the kernels' sums over tile counts amount to.
LEMMA LruTotals ==
    ASSUME NEW S, S \subseteq LruSlots, NEW count,
           \A lt \in Slots(lruTileCount) : count[lt] = Cardinality(S \cap LruTile(lt))
    PROVE  /\ \A lt \in Slots(lruTileCount) :
                 /\ Total(count, 0, lt) = Cardinality(Below(S, lt * lruTileLength))
                 /\ Total(count, lt + 1, lruTileCount)
                       = Cardinality(From(S, lt * lruTileLength + lruTileLength))
           /\ Total(count, 0, lruTileCount) = Cardinality(S)
<1>1. /\ lruLength \in Nat \ {0} /\ lruTileLength \in Nat \ {0} /\ lruTileCount \in Nat
      /\ lruTileCount = TileCount(lruLength, lruTileLength)
      /\ S \subseteq Slots(lruLength)
  BY ShapeFacts DEF lruTileCount
<1>2. ASSUME NEW lo \in Nat, NEW hi \in Nat, lo <= hi, hi <= lruTileCount
      PROVE  Total(count, lo, hi) = Cardinality(InTiles(S, lruTileLength, lo, hi))
  <2>1. \A t \in lo .. hi-1 : count[t] = Cardinality(S \cap Tile(lruLength, lruTileLength, t))
    <3>1. \A t \in lo .. hi-1 : t \in Slots(lruTileCount)
      BY <1>1, <1>2 DEF Slots
    <3> QED BY <3>1 DEF LruTile
  <2>2. hi <= TileCount(lruLength, lruTileLength)
    BY <1>1, <1>2
  <2> QED BY ONLY <1>1, <1>2, <2>1, <2>2, TotalOfTiles
<1>3. \A p \in S : p \in Nat /\ p < lruLength /\ p < lruTileCount * lruTileLength
  <2>1. \A p \in S : p \in Nat /\ p < lruLength
    BY <1>1, SubsetOfSlots
  <2>2. lruLength <= lruTileCount * lruTileLength /\ lruTileCount * lruTileLength \in Nat
    BY <1>1, LruTileFacts
  <2> QED BY <1>1, <2>1, <2>2
<1>4. ASSUME NEW lt \in Slots(lruTileCount)
      PROVE  /\ Total(count, 0, lt) = Cardinality(Below(S, lt * lruTileLength))
             /\ Total(count, lt + 1, lruTileCount)
                   = Cardinality(From(S, lt * lruTileLength + lruTileLength))
  <2>1. /\ lt \in Nat /\ lt < lruTileCount
        /\ (lt + 1) * lruTileLength = lt * lruTileLength + lruTileLength
    BY LruTileFacts
  <2>2. InTiles(S, lruTileLength, 0, lt) = Below(S, lt * lruTileLength)
    <3>1. 0 * lruTileLength = 0
      BY <1>1
    <3> QED BY <1>3, <3>1 DEF InTiles, Below
  <2>3. InTiles(S, lruTileLength, lt + 1, lruTileCount)
           = From(S, lt * lruTileLength + lruTileLength)
    BY <1>3, <2>1 DEF InTiles, From
  <2>4. Total(count, 0, lt) = Cardinality(InTiles(S, lruTileLength, 0, lt))
    BY <1>1, <1>2, <2>1
  <2>5. Total(count, lt + 1, lruTileCount)
           = Cardinality(InTiles(S, lruTileLength, lt + 1, lruTileCount))
    BY <1>1, <1>2, <2>1
  <2> QED BY <2>2, <2>3, <2>4, <2>5
<1>5. Total(count, 0, lruTileCount) = Cardinality(S)
  <2>1. InTiles(S, lruTileLength, 0, lruTileCount) = S
    <3>1. 0 * lruTileLength = 0
      BY <1>1
    <3> QED BY <1>3, <3>1 DEF InTiles
  <2>2. Total(count, 0, lruTileCount) = Cardinality(InTiles(S, lruTileLength, 0, lruTileCount))
    BY <1>1, <1>2
  <2> QED BY <2>1, <2>2
<1> QED BY <1>4, <1>5

LEMMA HitTotals ==
    ASSUME NEW S, S \subseteq HitSlots, NEW count,
           \A ht \in Slots(hitTileCount) : count[ht] = Cardinality(S \cap HitTile(ht))
    PROVE  /\ \A ht \in Slots(hitTileCount) :
                 Total(count, 0, ht) = Cardinality(Below(S, ht * hitTileLength))
           /\ Total(count, 0, hitTileCount) = Cardinality(S)
<1>1. /\ k \in Nat \ {0} /\ hitTileLength \in Nat \ {0} /\ hitTileCount \in Nat
      /\ hitTileCount = TileCount(k, hitTileLength)
      /\ S \subseteq Slots(k)
  BY ShapeFacts, ShapeAssumption DEF hitTileCount
<1>2. ASSUME NEW hi \in Nat, hi <= hitTileCount
      PROVE  Total(count, 0, hi) = Cardinality(InTiles(S, hitTileLength, 0, hi))
  <2>1. \A t \in 0 .. hi-1 : count[t] = Cardinality(S \cap Tile(k, hitTileLength, t))
    <3>1. \A t \in 0 .. hi-1 : t \in Slots(hitTileCount)
      BY <1>1, <1>2 DEF Slots
    <3> QED BY <3>1 DEF HitTile
  <2>2. hi <= TileCount(k, hitTileLength) /\ 0 \in Nat /\ 0 <= hi
    BY <1>1, <1>2
  <2> QED BY ONLY <1>1, <1>2, <2>1, <2>2, TotalOfTiles
<1>3. \A p \in S : p \in Nat /\ p < k /\ p < hitTileCount * hitTileLength
  <2>1. \A p \in S : p \in Nat /\ p < k
    BY <1>1, SubsetOfSlots
  <2>2. k <= hitTileCount * hitTileLength /\ hitTileCount * hitTileLength \in Nat
    BY <1>1, HitTileFacts
  <2> QED BY <1>1, <2>1, <2>2
<1>4. 0 * hitTileLength = 0
  BY <1>1
<1>5. ASSUME NEW ht \in Slots(hitTileCount)
      PROVE  Total(count, 0, ht) = Cardinality(Below(S, ht * hitTileLength))
  <2>1. ht \in Nat /\ ht < hitTileCount
    BY HitTileFacts
  <2>2. InTiles(S, hitTileLength, 0, ht) = Below(S, ht * hitTileLength)
    BY <1>3, <1>4 DEF InTiles, Below
  <2>3. Total(count, 0, ht) = Cardinality(InTiles(S, hitTileLength, 0, ht))
    BY <1>1, <1>2, <2>1
  <2> QED BY <2>2, <2>3
<1>6. Total(count, 0, hitTileCount) = Cardinality(S)
  <2>1. InTiles(S, hitTileLength, 0, hitTileCount) = S
    BY <1>3, <1>4 DEF InTiles
  <2>2. Total(count, 0, hitTileCount) = Cardinality(InTiles(S, hitTileLength, 0, hitTileCount))
    BY <1>1, <1>2
  <2> QED BY <2>1, <2>2
<1> QED BY <1>5, <1>6

\* The rank of p in its row: its rank in its tile after (or before) those of the
\* other tiles.
LEMMA RankInTile ==
    ASSUME NEW S, S \subseteq LruSlots, NEW lt \in Slots(lruTileCount), NEW p \in S \cap LruTile(lt)
    PROVE  LET here  == S \cap LruTile(lt)
               start == lt * lruTileLength
           IN  /\ Cardinality(Above(S, p))
                     = Cardinality(From(S, start + lruTileLength)) + Cardinality(Above(here, p))
               /\ Cardinality(Below(S, p))
                     = Cardinality(Below(S, start)) + Cardinality(Below(here, p))
               /\ Cardinality(From(S, start + lruTileLength)) \in Nat
               /\ Cardinality(Below(S, start)) \in Nat
               /\ Cardinality(Above(here, p)) \in Slots(Cardinality(here))
               /\ Cardinality(Below(here, p)) \in Slots(Cardinality(here))
               /\ Cardinality(here) = Cardinality(Above(here, p)) + Cardinality(Below(here, p)) + 1
               /\ Cardinality(here) \in Nat
<1> DEFINE here  == S \cap LruTile(lt)
           start == lt * lruTileLength
<1>1. /\ lruLength \in Nat /\ lruTileLength \in Nat \ {0}
      /\ S \subseteq Slots(lruLength) /\ here \subseteq Slots(lruLength)
  BY ShapeFacts
<1>2. \A q \in S : q \in Nat /\ (q \in here <=> start <= q /\ q < start + lruTileLength)
  BY LruTileFacts, ShapeFacts DEF Slots
<1>3. start \in Nat
  BY LruTileFacts
<1>4. p \in here /\ p \in S
  OBVIOUS
<1> HIDE DEF here, start
<1>5. /\ Above(S, p) = From(S, start + lruTileLength) \cup Above(here, p)
      /\ From(S, start + lruTileLength) \cap Above(here, p) = {}
  <2>1. here \subseteq S
    BY DEF here
  <2> QED BY <1>1, <1>2, <1>3, <1>4, <2>1 DEF Above, From
<1>6. /\ Below(S, p) = Below(S, start) \cup Below(here, p)
      /\ Below(S, start) \cap Below(here, p) = {}
  <2>1. here \subseteq S
    BY DEF here
  <2> QED BY <1>1, <1>2, <1>3, <1>4, <2>1 DEF Below
<1>7. /\ From(S, start + lruTileLength) \subseteq Slots(lruLength)
      /\ Below(S, start) \subseteq Slots(lruLength)
      /\ Above(here, p) \subseteq Slots(lruLength) /\ Below(here, p) \subseteq Slots(lruLength)
  BY <1>1 DEF From, Above, Below
<1>8. /\ IsFiniteSet(From(S, start + lruTileLength)) /\ IsFiniteSet(Below(S, start))
      /\ IsFiniteSet(Above(here, p)) /\ IsFiniteSet(Below(here, p))
      /\ Cardinality(From(S, start + lruTileLength)) \in Nat /\ Cardinality(Below(S, start)) \in Nat
      /\ Cardinality(here) \in Nat
  BY ONLY <1>1, <1>7, SubsetOfSlots
<1>9. Cardinality(Above(S, p))
         = Cardinality(From(S, start + lruTileLength)) + Cardinality(Above(here, p))
  BY ONLY <1>5, <1>8, CardinalitySplit
<1>10. Cardinality(Below(S, p)) = Cardinality(Below(S, start)) + Cardinality(Below(here, p))
  BY ONLY <1>6, <1>8, CardinalitySplit
<1>11. /\ Cardinality(Above(here, p)) \in Slots(Cardinality(here))
       /\ Cardinality(Above(here, p)) + Cardinality(Below(here, p)) + 1 = Cardinality(here)
  BY ONLY <1>1, <1>4, RanksAbove
<1>12. Cardinality(Below(here, p)) \in Slots(Cardinality(here))
  BY ONLY <1>1, <1>4, RanksBelow
<1> QED BY <1>8, <1>9, <1>10, <1>11, <1>12 DEF here, start

------------------------------------------------------------------------------
\* What a task computes once the kernels before its own are done.

MissesAt(b) == Misses(hitIn[b])

FreeAt(b) == Free(lru[b], hitIn[b])

FillAt(b) == Fill(lru[b], hitIn[b])

StayAt(b) == Stay(lru[b], hitIn[b])

\* What a kernel leaves in the workspaces of a row for the next ones.
BitmapReady(b) == \A id \in Slots(lruStride) : hitBitmap[b][id] = BitmapOf(hitIn[b])[id]

CountsReady(b) ==
    \A ht \in Slots(hitTileCount) : hitCounts[b][ht] = Cardinality(MissesAt(b) \cap HitTile(ht))

CandidatesReady(b) ==
    \A lt \in Slots(lruTileCount) :
        LET here == FreeAt(b) \cap LruTile(lt)
        IN  /\ candidateCounts[b][lt] = Cardinality(here)
            /\ \A r \in Slots(Cardinality(here)) :
                  candidateValues[b][lt * lruTileLength + r] = CompactRight(here, lru[b])[r]

KeepsReady(b) ==
    \A lt \in Slots(lruTileCount) :
        LET here == StayAt(b) \cap LruTile(lt)
        IN  /\ keepCounts[b][lt] = Cardinality(here)
            /\ \A r \in Slots(Cardinality(here)) :
                  keepValues[b][lt * lruTileLength + r] = CompactLeft(here, lru[b])[r]

LEMMA RowsOfCall ==
    ASSUME TensorsOK, NEW b \in Rows
    PROVE  /\ lru[b] \in LruRows /\ hitIn[b] \in HitRows
           /\ \A i \in HitSlots : hitMask[b][i] <=> i \notin MissesAt(b)
           /\ MissesAt(b) \subseteq HitSlots /\ Cardinality(MissesAt(b)) \in Nat
           /\ FreeAt(b) \subseteq LruSlots /\ Cardinality(FreeAt(b)) = k + Cardinality(MissesAt(b))
           /\ StayAt(b) \subseteq FreeAt(b) /\ Cardinality(StayAt(b)) = k
           /\ \A i \in HitSlots : i \notin MissesAt(b) => FillAt(b)[i] = hitIn[b][i]
           /\ \A i \in MissesAt(b) : \E p \in FreeAt(b) :
                 /\ Cardinality(Above(FreeAt(b), p)) = Cardinality(Below(MissesAt(b), i))
                 /\ FillAt(b)[i] = lru[b][p]
           /\ StayAt(b) = {p \in LruSlots : lru[b][p] \notin {FillAt(b)[i] : i \in HitSlots}}
<1>1. lru[b] \in LruRows /\ hitIn[b] \in HitRows
  BY DEF TensorsOK
<1>2. \A i \in HitSlots : hitMask[b][i] <=> i \notin MissesAt(b)
  BY DEF TensorsOK, MissesAt, Misses
<1>3. \A i \in HitSlots : i \notin MissesAt(b) => FillAt(b)[i] = hitIn[b][i]
  BY DEF MissesAt, Misses, FillAt, Fill
<1> QED BY <1>1, <1>2, <1>3, RowFacts DEF MissesAt, FreeAt, FillAt, StayAt

\* A position of a tile is unhit by the bitmap iff no slot of the row hit its id.
LEMMA UnhitIs ==
    ASSUME TensorsOK, NEW b \in Rows, NEW lt \in Slots(lruTileCount), BitmapReady(b)
    PROVE  Unhit(b, lt) = FreeAt(b) \cap LruTile(lt)
<1>1. /\ lru[b] \in [LruSlots -> LruSlots]
      /\ hitIn[b] \in [HitSlots -> {-1} \cup LruSlots]
  BY RowsOfCall, InputAssumption
<1>2. LruTile(lt) \subseteq LruSlots
  BY TileFinite
<1>3. ASSUME NEW p \in LruSlots
      PROVE  hitBitmap[b][lru[b][p]] = 0 <=> p \in FreeAt(b)
  <2>1. lru[b][p] \in LruSlots
    BY <1>1
  <2>2. \A id \in LruSlots : id \in Slots(lruStride) /\ id # -1
    BY ShapeFacts DEF LruSlots, Slots
  <2>3. hitBitmap[b][lru[b][p]]
           = IF \E i \in HitSlots : hitIn[b][i] = lru[b][p] THEN 1 ELSE 0
    BY <2>1, <2>2 DEF BitmapReady, BitmapOf
  <2>4. hitBitmap[b][lru[b][p]] = 0 <=> \A i \in HitSlots : hitIn[b][i] # lru[b][p]
    BY <2>3
  <2> QED BY <2>1, <2>2, <2>4 DEF FreeAt, Free, Hits, Misses
<1>4. FreeAt(b) \subseteq LruSlots
  BY RowsOfCall
<1> QED BY <1>2, <1>3, <1>4 DEF Unhit

\* The suffix sums count the free positions to the right of a tile.
LEMMA SuffixIs ==
    ASSUME TensorsOK, NEW b \in Rows, CandidatesReady(b)
    PROVE  /\ \A lt \in Slots(lruTileCount) :
                 SuffixOffset(b, lt)
                    = Cardinality(From(FreeAt(b), lt * lruTileLength + lruTileLength))
           /\ Total(candidateCounts[b], 0, lruTileCount) = Cardinality(FreeAt(b))
<1>1. FreeAt(b) \subseteq LruSlots
  BY RowsOfCall
<1>2. \A lt \in Slots(lruTileCount) :
         candidateCounts[b][lt] = Cardinality(FreeAt(b) \cap LruTile(lt))
  BY DEF CandidatesReady
<1> DEFINE free  == FreeAt(b)
           count == candidateCounts[b]
<1>3. /\ \A lt \in Slots(lruTileCount) :
            Total(count, lt + 1, lruTileCount)
               = Cardinality(From(free, lt * lruTileLength + lruTileLength))
      /\ Total(count, 0, lruTileCount) = Cardinality(free)
  <2> HIDE DEF free, count
  <2>1. free \subseteq LruSlots
    BY <1>1 DEF free
  <2>2. \A lt \in Slots(lruTileCount) : count[lt] = Cardinality(free \cap LruTile(lt))
    BY <1>2 DEF free, count
  <2> QED BY ONLY <2>1, <2>2, LruTotals
<1> QED BY <1>3 DEF SuffixOffset

\* The walk from the right finds the free id of a rank.
LEMMA LookupIs ==
    ASSUME TensorsOK, NEW b \in Rows, CandidatesReady(b), NEW p \in FreeAt(b), NEW otherwise
    PROVE  LookupCandidate(b, Cardinality(Above(FreeAt(b), p)), otherwise) = lru[b][p]
<1> DEFINE free == FreeAt(b)
           rank == Cardinality(Above(free, p))
           here == p \div lruTileLength
           reached == {lt \in Slots(lruTileCount) :
                          rank - SuffixOffset(b, lt) < candidateCounts[b][lt]}
           from(lt) == From(free, lt * lruTileLength + lruTileLength)
           tile(lt) == free \cap LruTile(lt)
<1>1. free \subseteq LruSlots
  BY RowsOfCall
<1>2. p \in LruSlots /\ here \in Slots(lruTileCount) /\ p \in tile(here)
  BY <1>1, LruTileFacts
<1>3. ASSUME NEW lt \in Slots(lruTileCount)
      PROVE  /\ SuffixOffset(b, lt) = Cardinality(from(lt))
             /\ candidateCounts[b][lt] = Cardinality(tile(lt))
  BY SuffixIs DEF CandidatesReady
<1>4. /\ rank = Cardinality(from(here)) + Cardinality(Above(tile(here), p))
      /\ Cardinality(from(here)) \in Nat
      /\ Cardinality(Above(tile(here), p)) \in Slots(Cardinality(tile(here)))
      /\ Cardinality(tile(here)) \in Nat
  <2> HIDE DEF here
  <2> QED BY ONLY <1>1, <1>2, RankInTile
<1>5. here \in reached
  <2> HIDE DEF rank, from, tile, here
  <2>1. rank - Cardinality(from(here)) < Cardinality(tile(here))
    BY <1>4 DEF Slots
  <2> QED BY <1>2, <1>3, <2>1
<1>6. ASSUME NEW lt \in reached PROVE lt <= here
  <2> SUFFICES ASSUME ~(lt <= here) PROVE FALSE
    OBVIOUS
  <2>1. /\ lt \in Slots(lruTileCount) /\ lt \in Nat /\ here \in Nat /\ here + 1 <= lt
        /\ lt * lruTileLength \in Nat
    BY <1>2, LruTileFacts
  <2>2. (here + 1) * lruTileLength <= lt * lruTileLength
    BY <2>1, ShapeFacts
  <2>3. p < lt * lruTileLength /\ p \in Nat
    <3>1. p < here * lruTileLength + lruTileLength
      BY <1>2, LruTileFacts
    <3>2. (here + 1) * lruTileLength = here * lruTileLength + lruTileLength
      BY <1>2, LruTileFacts
    <3>3. p \in Nat
      BY <1>2, ShapeFacts DEF Slots
    <3> HIDE DEF here
    <3>4. here * lruTileLength \in Nat /\ lruTileLength \in Nat
      BY <2>1, ShapeFacts
    <3> QED BY <2>1, <2>2, <3>1, <3>2, <3>3, <3>4
  <2> HIDE DEF here
  <2>4. tile(lt) = {q \in free : lt * lruTileLength <= q /\ q < lt * lruTileLength + lruTileLength}
    BY <1>1, <2>1, LruTileFacts
  <2>5. \A q \in free : q \in Nat
    BY <1>1, ShapeFacts DEF Slots
  <2>6. /\ from(lt) \cup tile(lt) \subseteq Above(free, p)
        /\ from(lt) \cap tile(lt) = {}
    <3>1. \A q \in from(lt) : q \in free /\ lt * lruTileLength + lruTileLength <= q
      BY DEF From
    <3>2. lruTileLength \in Nat
      BY ShapeFacts
    <3> HIDE DEF free, from, tile
    <3>3. \A q \in from(lt) : q \in free /\ p < q /\ q \notin tile(lt)
      BY <2>1, <2>3, <2>4, <2>5, <3>1, <3>2
    <3>4. \A q \in tile(lt) : q \in free /\ p < q
      BY <2>1, <2>3, <2>4, <2>5
    <3> QED BY <3>3, <3>4 DEF Above
  <2>7. /\ Above(free, p) \subseteq Slots(lruLength) /\ from(lt) \subseteq Slots(lruLength)
        /\ tile(lt) \subseteq Slots(lruLength) /\ lruLength \in Nat
    BY <1>1, ShapeFacts DEF Above, From
  <2> HIDE DEF free, from, tile
  <2>8. /\ IsFiniteSet(Above(free, p)) /\ IsFiniteSet(from(lt)) /\ IsFiniteSet(tile(lt))
        /\ Cardinality(Above(free, p)) \in Nat /\ Cardinality(from(lt)) \in Nat
        /\ Cardinality(tile(lt)) \in Nat
    BY ONLY <2>7, SubsetOfSlots
  <2>9. /\ Cardinality(from(lt) \cup tile(lt)) = Cardinality(from(lt)) + Cardinality(tile(lt))
        /\ Cardinality(from(lt) \cup tile(lt)) <= Cardinality(Above(free, p))
    BY ONLY <2>6, <2>8, CardinalitySplit, FS_Subset
  <2>10. rank - Cardinality(from(lt)) < Cardinality(tile(lt))
    BY <1>3, <2>1
  <2> QED BY <2>8, <2>9, <2>10
<1>7. (CHOOSE lt \in reached : \A other \in reached : other <= lt) = here
  <2>1. \A lt \in reached : lt \in Int
    BY LruTileFacts
  <2> HIDE DEF reached, here
  <2>2. \A lt \in reached : (\A other \in reached : other <= lt) <=> lt = here
    BY <1>5, <1>6, <2>1
  <2> QED BY <1>5, <2>2
<1>8. LookupCandidate(b, rank, otherwise)
         = candidateValues[b][here * lruTileLength + rank - SuffixOffset(b, here)]
  <2> HIDE DEF here, rank
  <2> QED BY <1>5, <1>7 DEF LookupCandidate
<1>9. here * lruTileLength + rank - SuffixOffset(b, here)
         = here * lruTileLength + Cardinality(Above(tile(here), p))
  <2>1. here * lruTileLength \in Nat
    BY <1>2, LruTileFacts
  <2> HIDE DEF rank, from, tile, here
  <2> QED BY <1>2, <1>3, <1>4, <2>1 DEF Slots
<1>10. candidateValues[b][here * lruTileLength + Cardinality(Above(tile(here), p))]
          = CompactRight(tile(here), lru[b])[Cardinality(Above(tile(here), p))]
  <2> HIDE DEF here
  <2> QED BY <1>2, <1>4 DEF CandidatesReady
<1>11. CompactRight(tile(here), lru[b])[Cardinality(Above(tile(here), p))] = lru[b][p]
  <2>1. tile(here) \subseteq Slots(lruLength) /\ lruLength \in Nat /\ p \in tile(here)
    BY <1>1, <1>2, ShapeFacts
  <2> HIDE DEF tile, here
  <2> QED BY ONLY <2>1, CompactRightAt
<1> QED BY <1>8, <1>9, <1>10, <1>11

\* The rank that a hit tile's task gives a miss is its rank in the row.
LEMMA MissRankIs ==
    ASSUME TensorsOK, NEW b \in Rows, NEW ht \in Slots(hitTileCount), CountsReady(b),
           NEW i \in HitTile(ht)
    PROVE  MissRank(b, ht, i) = Cardinality(Below(MissesAt(b), i))
<1> DEFINE misses == MissesAt(b)
           start  == ht * hitTileLength
           before == Below(misses, start)
           inTile == {j \in HitTile(ht) : j < i /\ ~hitMask[b][j]}
<1>1. misses \subseteq HitSlots /\ \A j \in HitSlots : hitMask[b][j] <=> j \notin misses
  BY RowsOfCall
<1>2. Total(hitCounts[b], 0, ht) = Cardinality(before)
  <2>1. \A t \in Slots(hitTileCount) : hitCounts[b][t] = Cardinality(misses \cap HitTile(t))
    BY DEF CountsReady
  <2>2. misses \subseteq HitSlots
    BY <1>1
  <2> HIDE DEF misses
  <2>3. \A t \in Slots(hitTileCount) :
           Total(hitCounts[b], 0, t) = Cardinality(Below(misses, t * hitTileLength))
    BY ONLY <2>1, <2>2, HitTotals
  <2> QED BY <2>3
<1>3. /\ HitTile(ht) = {j \in HitSlots : start <= j /\ j < start + hitTileLength}
      /\ start \in Nat /\ \A j \in HitSlots : j \in Nat
      /\ hitTileLength \in Nat
  <2>1. \A j \in HitSlots : j \in Nat
    BY ShapeAssumption DEF Slots
  <2> QED BY <2>1, HitTileFacts, ShapeFacts
<1> HIDE DEF misses, start
<1>4. inTile = {j \in misses : start <= j /\ j < i}
  BY <1>1, <1>3
<1>5. before \cup inTile = Below(misses, i) /\ before \cap inTile = {}
  <2>1. i \in Nat /\ start <= i
    BY <1>3
  <2>2. \A j \in misses : j \in Nat
    BY <1>1, <1>3
  <2> QED BY <1>3, <1>4, <2>1, <2>2 DEF Below
<1>6. /\ before \subseteq Slots(k) /\ inTile \subseteq Slots(k) /\ k \in Nat
  BY <1>1, <1>4, ShapeAssumption DEF Below
<1> HIDE DEF before, inTile
<1>7. Cardinality(Below(misses, i)) = Cardinality(before) + Cardinality(inTile)
  <2>1. IsFiniteSet(before) /\ IsFiniteSet(inTile)
    BY ONLY <1>6, SubsetOfSlots
  <2> QED BY ONLY <1>5, <2>1, CardinalitySplit
<1> QED BY <1>2, <1>7 DEF MissRank, misses, inTile

\* A slot that is not yet filled, or is filled already, gets its final id: the
\* result does not depend on how far the fill-in of hit has come.
LEMMA FilledIs ==
    ASSUME TensorsOK, NEW b \in Rows, NEW ht \in Slots(hitTileCount), NEW i \in HitTile(ht),
           CountsReady(b), CandidatesReady(b), hit[b][i] \in {hitIn[b][i], FillAt(b)[i]}
    PROVE  FilledSlot(b, ht, i) = FillAt(b)[i]
<1>1. i \in HitSlots
  BY TileFinite
<1>2. CASE i \notin MissesAt(b)
  <2>1. hitMask[b][i] /\ FillAt(b)[i] = hitIn[b][i]
    BY <1>1, <1>2, RowsOfCall
  <2> QED BY <2>1 DEF FilledSlot
<1>3. CASE i \in MissesAt(b)
  <2>1. ~hitMask[b][i]
    BY <1>1, <1>3, RowsOfCall
  <2>2. PICK p \in FreeAt(b) : /\ Cardinality(Above(FreeAt(b), p)) = Cardinality(Below(MissesAt(b), i))
                               /\ FillAt(b)[i] = lru[b][p]
    BY <1>3, RowsOfCall
  <2>3. MissRank(b, ht, i) = Cardinality(Above(FreeAt(b), p))
    BY <2>2, MissRankIs
  <2>4. LookupCandidate(b, MissRank(b, ht, i), hit[b][i]) = lru[b][p]
    BY <2>3, LookupIs
  <2> QED BY <2>1, <2>2, <2>4 DEF FilledSlot
<1> QED BY <1>2, <1>3

LEMMA RowMissCountIs ==
    ASSUME TensorsOK, NEW b \in Rows, CountsReady(b)
    PROVE  RowMissCount(b) = Cardinality(MissesAt(b))
<1>1. MissesAt(b) \subseteq HitSlots
  BY RowsOfCall
<1>2. \A t \in Slots(hitTileCount) : hitCounts[b][t] = Cardinality(MissesAt(b) \cap HitTile(t))
  BY DEF CountsReady
<1> QED BY <1>1, <1>2, HitTotals DEF RowMissCount

\* A tile keeps what stays of the row.
LEMMA KeptIs ==
    ASSUME TensorsOK, NEW b \in Rows, NEW lt \in Slots(lruTileCount),
           BitmapReady(b), CountsReady(b), CandidatesReady(b)
    PROVE  Kept(b, lt) = StayAt(b) \cap LruTile(lt)
<1> DEFINE free == FreeAt(b)
           here == free \cap LruTile(lt)
           from == From(free, lt * lruTileLength + lruTileLength)
<1>1. Unhit(b, lt) = here
  BY UnhitIs
<1>2. free \subseteq LruSlots /\ here \subseteq Slots(lruLength) /\ lruLength \in Nat
  BY RowsOfCall, ShapeFacts
<1>3. SuffixOffset(b, lt) = Cardinality(from) /\ candidateCounts[b][lt] = Cardinality(here)
  BY SuffixIs DEF CandidatesReady
<1>4. ASSUME NEW p \in here
      PROVE  ReverseRank(b, lt, p) = Cardinality(Above(free, p))
  <2> DEFINE upTo == {q \in here : q <= p}
  <2>1. /\ Cardinality(Above(free, p)) = Cardinality(from) + Cardinality(Above(here, p))
        /\ Cardinality(from) \in Nat
        /\ Cardinality(Above(here, p)) \in Slots(Cardinality(here))
        /\ Cardinality(Below(here, p)) \in Slots(Cardinality(here))
        /\ Cardinality(here) = Cardinality(Above(here, p)) + Cardinality(Below(here, p)) + 1
        /\ Cardinality(here) \in Nat
    BY <1>2, RankInTile
  <2> HIDE DEF here, from, free
  <2>2. \A q \in here : q \in Nat
    BY <1>2, ShapeFacts DEF Slots
  <2>3. upTo = Below(here, p) \cup {p} /\ p \notin Below(here, p)
    BY <2>2 DEF Below
  <2>4. IsFiniteSet(Below(here, p))
    <3>1. Below(here, p) \subseteq Slots(lruLength)
      BY <1>2 DEF Below
    <3> QED BY ONLY <1>2, <3>1, SubsetOfSlots
  <2>5. Cardinality(upTo) = Cardinality(Below(here, p)) + 1
    BY <2>3, <2>4, FS_AddElement
  <2>6. ReverseRank(b, lt, p) = Cardinality(from) + Cardinality(here) - Cardinality(upTo)
    BY <1>1, <1>3 DEF ReverseRank
  <2> HIDE DEF upTo
  <2> QED BY <2>1, <2>5, <2>6 DEF Slots
<1>5. RowMissCount(b) = Cardinality(MissesAt(b))
  BY RowMissCountIs
<1>6. Kept(b, lt) = {p \in here : Cardinality(Above(free, p)) >= Cardinality(MissesAt(b))}
  BY <1>1, <1>4, <1>5 DEF Kept
<1>7. StayAt(b) = {p \in free : Cardinality(Above(free, p)) >= Cardinality(MissesAt(b))}
  BY DEF StayAt, Stay, FreeAt, MissesAt
<1> HIDE DEF free
<1> QED BY <1>6, <1>7

\* A tile's survivors go behind those of the tiles to its left.
LEMMA KeepOffsetIs ==
    ASSUME TensorsOK, NEW b \in Rows, KeepsReady(b)
    PROVE  /\ \A lt \in Slots(lruTileCount) :
                 KeepOffset(b, lt) = k + Cardinality(Below(StayAt(b), lt * lruTileLength))
           /\ Total(keepCounts[b], 0, lruTileCount) = k
<1>1. StayAt(b) \subseteq LruSlots /\ Cardinality(StayAt(b)) = k
  BY RowsOfCall
<1>2. \A lt \in Slots(lruTileCount) :
         keepCounts[b][lt] = Cardinality(StayAt(b) \cap LruTile(lt))
  BY DEF KeepsReady
<1>3. /\ \A lt \in Slots(lruTileCount) :
            Total(keepCounts[b], 0, lt) = Cardinality(Below(StayAt(b), lt * lruTileLength))
      /\ Total(keepCounts[b], 0, lruTileCount) = Cardinality(StayAt(b))
  <2> DEFINE stay  == StayAt(b)
             count == keepCounts[b]
  <2>1. stay \subseteq LruSlots /\ \A lt \in Slots(lruTileCount) : count[lt] = Cardinality(stay \cap LruTile(lt))
    BY <1>1, <1>2
  <2> HIDE DEF stay, count
  <2>2. /\ \A lt \in Slots(lruTileCount) :
              Total(count, 0, lt) = Cardinality(Below(stay, lt * lruTileLength))
        /\ Total(count, 0, lruTileCount) = Cardinality(stay)
    BY ONLY <2>1, LruTotals
  <2> QED BY <2>2 DEF stay, count
<1> QED BY <1>1, <1>3 DEF KeepOffset

------------------------------------------------------------------------------
\* The final result of a task, computed from the tensors of the call.

FinalOfRow(n, t, lruRow, hitRow) ==
    LET lt   == IF n = 3 THEN KeepTileOf(t) ELSE LocalTask(n, t)
        free == Free(lruRow, hitRow) \cap LruTile(lt)
        stay == Stay(lruRow, hitRow) \cap LruTile(lt)
        ht   == LocalTask(3, t)
    IN  CASE n = 1 -> Result(BitmapOf(hitRow), 0, MissCounts(hitRow), 0)
          [] n = 2 -> Result(CompactRight(free, lruRow), lt * lruTileLength,
                             One(Cardinality(free)), lt)
          [] n = 3 /\ FillsHits(t) ->
                Result([p \in Slots(Cardinality(HitTile(ht))) |->
                           Fill(lruRow, hitRow)[ht * hitTileLength + p]],
                       ht * hitTileLength, <<>>, 0)
          [] n = 3 /\ ~FillsHits(t) ->
                Result(CompactLeft(stay, lruRow), lt * lruTileLength, One(Cardinality(stay)), lt)
          [] n = 4 ->
                Result(CompactLeft(stay, lruRow),
                       k + Cardinality(Below(Stay(lruRow, hitRow), lt * lruTileLength)), <<>>, 0)

Final(n, t) == FinalOfRow(n, t, lru[RowOf(n, t)], hitIn[RowOf(n, t)])

LEMMA FinalIs ==
    ASSUME NEW t
    PROVE  /\ LET b == RowOf(1, t)
              IN  Final(1, t) = Result(BitmapOf(hitIn[b]), 0, MissCounts(hitIn[b]), 0)
           /\ LET b    == RowOf(2, t)
                  lt   == LocalTask(2, t)
                  here == FreeAt(b) \cap LruTile(lt)
              IN  Final(2, t) = Result(CompactRight(here, lru[b]), lt * lruTileLength,
                                       One(Cardinality(here)), lt)
           /\ LET b  == RowOf(3, t)
                  ht == LocalTask(3, t)
              IN  FillsHits(t) =>
                      Final(3, t) = Result([p \in Slots(Cardinality(HitTile(ht))) |->
                                               FillAt(b)[ht * hitTileLength + p]],
                                           ht * hitTileLength, <<>>, 0)
           /\ LET b    == RowOf(3, t)
                  lt   == KeepTileOf(t)
                  here == StayAt(b) \cap LruTile(lt)
              IN  ~FillsHits(t) =>
                      Final(3, t) = Result(CompactLeft(here, lru[b]), lt * lruTileLength,
                                           One(Cardinality(here)), lt)
           /\ LET b    == RowOf(4, t)
                  lt   == LocalTask(4, t)
                  here == StayAt(b) \cap LruTile(lt)
              IN  Final(4, t) = Result(CompactLeft(here, lru[b]),
                                       k + Cardinality(Below(StayAt(b), lt * lruTileLength)),
                                       <<>>, 0)
<1> USE DEF Final, FinalOfRow, FreeAt, StayAt, FillAt
<1>1. Final(1, t) = Result(BitmapOf(hitIn[RowOf(1, t)]), 0, MissCounts(hitIn[RowOf(1, t)]), 0)
  OBVIOUS
<1>2. LET b    == RowOf(2, t)
          lt   == LocalTask(2, t)
          here == FreeAt(b) \cap LruTile(lt)
      IN  Final(2, t) = Result(CompactRight(here, lru[b]), lt * lruTileLength,
                               One(Cardinality(here)), lt)
  OBVIOUS
<1>3. LET b  == RowOf(3, t)
          ht == LocalTask(3, t)
      IN  FillsHits(t) =>
              Final(3, t) = Result([p \in Slots(Cardinality(HitTile(ht))) |->
                                       FillAt(b)[ht * hitTileLength + p]],
                                   ht * hitTileLength, <<>>, 0)
  OBVIOUS
<1>4. LET b    == RowOf(3, t)
          lt   == KeepTileOf(t)
          here == StayAt(b) \cap LruTile(lt)
      IN  ~FillsHits(t) =>
              Final(3, t) = Result(CompactLeft(here, lru[b]), lt * lruTileLength,
                                   One(Cardinality(here)), lt)
  OBVIOUS
<1>5. LET b    == RowOf(4, t)
          lt   == LocalTask(4, t)
          here == StayAt(b) \cap LruTile(lt)
      IN  Final(4, t) = Result(CompactLeft(here, lru[b]),
                               k + Cardinality(Below(StayAt(b), lt * lruTileLength)), <<>>, 0)
  OBVIOUS
<1> QED BY <1>1, <1>2, <1>3, <1>4, <1>5

------------------------------------------------------------------------------
\* The inductive invariant: global memory holds the final results of the tasks that
\* have completed, and a core's buffer the final result of its task.

\* What of a result goes to a tensor, and where.
CountLabels == {"hitCounts", "candidateCounts", "keepCounts"}

DataFor(l, result) == IF l \in CountLabels THEN result.counts ELSE result.values

PlaceFor(l, result) == IF l \in CountLabels THEN result.countOffset ELSE result.offset

\* The first of a task's two tensors.
IsFirst(l) == l \in {"hitBitmap", "candidateValues", "hit", "keepValues"}

Memory ==
    [l \in Labels \ {"in"} |->
        CASE l = "hitBitmap" -> hitBitmap
          [] l = "hitCounts" -> hitCounts
          [] l = "candidateValues" -> candidateValues
          [] l = "candidateCounts" -> candidateCounts
          [] l = "hit" -> hit
          [] l = "newLru" -> newLru
          [] l = "keepValues" -> keepValues
          [] l = "keepCounts" -> keepCounts]

\* A tensor holds what a task has for it.
Holds(n, t, l) ==
    \A i \in DOMAIN DataFor(l, Final(n, t)) :
        Memory[l][RowOf(n, t)][PlaceFor(l, Final(n, t)) + i] = DataFor(l, Final(n, t))[i]

Completed(n, t) ==
    \/ n < kernel
    \/ n = kernel /\ t < task[t % BlockDim(n)]

\* The cores take the tasks in turns.
TurnsKept ==
    kernel < 5 => \A c \in Cores : c < BlockDim(kernel) => task[c] % BlockDim(kernel) = c

\* A core that copies out has the final result of its task, and has copied out what
\* comes before.
BuffersFinal ==
    \A c \in Cores : pc[c] # "in" =>
        /\ ub[c] = Final(kernel, task[c])
        /\ pc[c] \in TensorsOf(kernel, task[c])
        /\ \A l \in TensorsOf(kernel, task[c]) : IsFirst(l) /\ ~IsFirst(pc[c])
              => Holds(kernel, task[c], l)

\* What completed tasks have copied out stays.
TasksSettled ==
    \A n \in 1..4 : \A t \in Slots(TaskCount(n)) :
        Completed(n, t) => \A l \in TensorsOf(n, t) : Holds(n, t, l)

\* A slot holds what it held at the call or its final value.
HitSettles ==
    /\ kernel < 3 => hit = hitIn
    /\ \A b \in Rows : \A i \in HitSlots : hit[b][i] \in {hitIn[b][i], FillAt(b)[i]}

PlanInv == TypeOK /\ TurnsKept /\ BuffersFinal /\ TasksSettled /\ HitSettles

LEMMA MemoryIs ==
    /\ Memory["hitBitmap"] = hitBitmap /\ Memory["hitCounts"] = hitCounts
    /\ Memory["candidateValues"] = candidateValues /\ Memory["candidateCounts"] = candidateCounts
    /\ Memory["hit"] = hit /\ Memory["newLru"] = newLru
    /\ Memory["keepValues"] = keepValues /\ Memory["keepCounts"] = keepCounts
BY DEF Memory, Labels

\* What a kernel leaves behind.
LEMMA HitLocalDone ==
    ASSUME TasksSettled, kernel \in 2..5, NEW b \in Rows
    PROVE  BitmapReady(b) /\ CountsReady(b)
<1>1. 0 \in Slots(TasksOfRow(1)) /\ 1 \in 1..4
  BY DEF TasksOfRow, Slots
<1>2. PICK t \in Slots(TaskCount(1)) : RowOf(1, t) = b
  BY <1>1, TaskAt
<1>3. Holds(1, t, "hitBitmap") /\ Holds(1, t, "hitCounts")
  <2>1. \A l \in TensorsOf(1, t) : Holds(1, t, l)
    BY <1>1, <1>2 DEF TasksSettled, Completed
  <2> QED BY <2>1 DEF TensorsOf
<1>4. Final(1, t) = Result(BitmapOf(hitIn[b]), 0, MissCounts(hitIn[b]), 0)
  BY <1>2, FinalIs
<1>5. \A i \in DOMAIN BitmapOf(hitIn[b]) : hitBitmap[b][0 + i] = BitmapOf(hitIn[b])[i]
  BY <1>2, <1>3, <1>4, MemoryIs DEF Holds, DataFor, PlaceFor, CountLabels, Result
<1>6. BitmapReady(b)
  <2>1. DOMAIN BitmapOf(hitIn[b]) = Slots(lruStride)
    BY DEF BitmapOf
  <2>2. \A id \in Slots(lruStride) : 0 + id = id
    BY ShapeFacts DEF Slots
  <2> QED BY <1>5, <2>1, <2>2 DEF BitmapReady
<1>7. \A i \in DOMAIN MissCounts(hitIn[b]) : hitCounts[b][0 + i] = MissCounts(hitIn[b])[i]
  BY <1>2, <1>3, <1>4, MemoryIs DEF Holds, DataFor, PlaceFor, CountLabels, Result
<1>8. ASSUME NEW ht \in Slots(hitTileCount)
      PROVE  hitCounts[b][ht] = Cardinality(MissesAt(b) \cap HitTile(ht))
  <2>1. ht \in Slots(hitMetaStride) /\ ht < hitTileCount /\ 0 + ht = ht
    BY ShapeFacts DEF Slots
  <2>2. MissCounts(hitIn[b])[ht] = Cardinality({i \in HitTile(ht) : hitIn[b][i] = -1})
    BY <2>1 DEF MissCounts
  <2>3. {i \in HitTile(ht) : hitIn[b][i] = -1} = MissesAt(b) \cap HitTile(ht)
    <3>1. HitTile(ht) \subseteq HitSlots
      BY TileFinite
    <3> QED BY <3>1 DEF MissesAt, Misses
  <2>4. ht \in DOMAIN MissCounts(hitIn[b])
    BY <2>1 DEF MissCounts
  <2> QED BY <1>7, <2>1, <2>2, <2>3, <2>4
<1>9. CountsReady(b)
  BY <1>8 DEF CountsReady
<1> QED BY <1>6, <1>9

LEMMA CandidateLocalDone ==
    ASSUME TasksSettled, kernel \in 3..5, NEW b \in Rows
    PROVE  CandidatesReady(b)
<1> SUFFICES ASSUME NEW lt \in Slots(lruTileCount)
             PROVE  LET here == FreeAt(b) \cap LruTile(lt)
                    IN  /\ candidateCounts[b][lt] = Cardinality(here)
                        /\ \A r \in Slots(Cardinality(here)) :
                              candidateValues[b][lt * lruTileLength + r]
                                 = CompactRight(here, lru[b])[r]
  BY DEF CandidatesReady
<1> DEFINE here == FreeAt(b) \cap LruTile(lt)
<1>1. lt \in Slots(TasksOfRow(2)) /\ 2 \in 1..4
  BY DEF TasksOfRow
<1>2. PICK t \in Slots(TaskCount(2)) : RowOf(2, t) = b /\ LocalTask(2, t) = lt
  BY <1>1, TaskAt
<1>3. Holds(2, t, "candidateValues") /\ Holds(2, t, "candidateCounts")
  <2>1. \A l \in TensorsOf(2, t) : Holds(2, t, l)
    BY <1>1, <1>2 DEF TasksSettled, Completed
  <2> QED BY <2>1 DEF TensorsOf
<1>4. Final(2, t) = Result(CompactRight(here, lru[b]), lt * lruTileLength,
                           One(Cardinality(here)), lt)
  BY <1>2, FinalIs
<1> HIDE DEF here
<1>5. \A i \in DOMAIN CompactRight(here, lru[b]) :
         candidateValues[b][lt * lruTileLength + i] = CompactRight(here, lru[b])[i]
  BY <1>2, <1>3, <1>4, MemoryIs DEF Holds, DataFor, PlaceFor, CountLabels, Result
<1>6. DOMAIN CompactRight(here, lru[b]) = Slots(Cardinality(here))
  BY DEF CompactRight
<1>7. \A i \in DOMAIN One(Cardinality(here)) :
         candidateCounts[b][lt + i] = One(Cardinality(here))[i]
  BY <1>2, <1>3, <1>4, MemoryIs DEF Holds, DataFor, PlaceFor, CountLabels, Result
<1>8. candidateCounts[b][lt] = Cardinality(here)
  <2>1. lt + 0 = lt
    BY LruTileFacts
  <2>2. candidateCounts[b][lt + 0] = Cardinality(here)
    BY <1>7 DEF One
  <2> QED BY <2>1, <2>2
<1> QED BY <1>5, <1>6, <1>8 DEF here

LEMMA MaterializeDone ==
    ASSUME TasksSettled, kernel \in 4..5, NEW b \in Rows
    PROVE  /\ KeepsReady(b)
           /\ \A i \in HitSlots : hit[b][i] = FillAt(b)[i] /\ newLru[b][i] = FillAt(b)[i]
<1>1. ASSUME NEW lt \in Slots(lruTileCount)
      PROVE  LET here == StayAt(b) \cap LruTile(lt)
             IN  /\ keepCounts[b][lt] = Cardinality(here)
                 /\ \A r \in Slots(Cardinality(here)) :
                       keepValues[b][lt * lruTileLength + r] = CompactLeft(here, lru[b])[r]
  <2> DEFINE here == StayAt(b) \cap LruTile(lt)
  <2>1. PICK t \in Slots(TaskCount(3)) : RowOf(3, t) = b /\ ~FillsHits(t) /\ KeepTileOf(t) = lt
    BY KeepTaskAt
  <2>2. Holds(3, t, "keepValues") /\ Holds(3, t, "keepCounts")
    <3>1. \A l \in TensorsOf(3, t) : Holds(3, t, l)
      BY <2>1 DEF TasksSettled, Completed
    <3> QED BY <2>1, <3>1 DEF TensorsOf
  <2>3. Final(3, t) = Result(CompactLeft(here, lru[b]), lt * lruTileLength,
                             One(Cardinality(here)), lt)
    BY <2>1, FinalIs
  <2> HIDE DEF here
  <2>4. \A i \in DOMAIN CompactLeft(here, lru[b]) :
           keepValues[b][lt * lruTileLength + i] = CompactLeft(here, lru[b])[i]
    BY <2>1, <2>2, <2>3, MemoryIs DEF Holds, DataFor, PlaceFor, CountLabels, Result
  <2>5. DOMAIN CompactLeft(here, lru[b]) = Slots(Cardinality(here))
    BY DEF CompactLeft
  <2>6. \A i \in DOMAIN One(Cardinality(here)) :
           keepCounts[b][lt + i] = One(Cardinality(here))[i]
    BY <2>1, <2>2, <2>3, MemoryIs DEF Holds, DataFor, PlaceFor, CountLabels, Result
  <2>7. keepCounts[b][lt] = Cardinality(here)
    <3>1. lt + 0 = lt
      BY LruTileFacts
    <3>2. keepCounts[b][lt + 0] = Cardinality(here)
      BY <2>6 DEF One
    <3> QED BY <3>1, <3>2
  <2> QED BY <2>4, <2>5, <2>7 DEF here
<1>2. ASSUME NEW i \in HitSlots
      PROVE  hit[b][i] = FillAt(b)[i] /\ newLru[b][i] = FillAt(b)[i]
  <2> DEFINE ht    == i \div hitTileLength
             start == ht * hitTileLength
             data  == [p \in Slots(Cardinality(HitTile(ht))) |-> FillAt(b)[start + p]]
  <2>1. ht \in Slots(hitTileCount) /\ i - start \in Slots(Cardinality(HitTile(ht)))
    BY HitTileFacts
  <2> HIDE DEF ht
  <2>2. PICK t \in Slots(TaskCount(3)) : RowOf(3, t) = b /\ FillsHits(t) /\ LocalTask(3, t) = ht
    BY <2>1, FillTaskAt
  <2>3. Holds(3, t, "hit") /\ Holds(3, t, "newLru")
    <3>1. \A l \in TensorsOf(3, t) : Holds(3, t, l)
      BY <2>2 DEF TasksSettled, Completed
    <3> QED BY <2>2, <3>1 DEF TensorsOf
  <2>4. Final(3, t) = Result(data, start, <<>>, 0)
    BY <2>2, FinalIs
  <2>5. i - start \in DOMAIN data /\ data[i - start] = FillAt(b)[start + (i - start)]
    BY <2>1
  <2> HIDE DEF data, start
  <2>6. \A p \in DOMAIN data : hit[b][start + p] = data[p] /\ newLru[b][start + p] = data[p]
    BY <2>2, <2>3, <2>4, MemoryIs DEF Holds, DataFor, PlaceFor, CountLabels, Result
  <2>7. start + (i - start) = i
    <3>1. start \in Nat /\ i \in Nat
      BY <2>1, HitTileFacts, ShapeAssumption DEF start, Slots
    <3> QED BY <3>1
  <2> QED BY <2>5, <2>6, <2>7
<1> QED BY <1>1, <1>2 DEF KeepsReady

\* What a task computes is its final result, whenever it reads its inputs.
LEMMA ResultIsFinal ==
    ASSUME TensorsOK, TasksSettled, HitSettles, kernel \in 1..4,
           NEW t \in Slots(TaskCount(kernel))
    PROVE  TaskResult(kernel, t) = Final(kernel, t)
<1> DEFINE b == RowOf(kernel, t)
<1>1. b \in Rows /\ LocalTask(kernel, t) \in Slots(TasksOfRow(kernel)) /\ t \in Nat
      /\ t < TaskCount(kernel)
  BY TaskRow
<1>2. CASE kernel = 1
  <2>1. hit = hitIn
    BY <1>2 DEF HitSettles
  <2>2. Final(1, t) = Result(BitmapOf(hitIn[RowOf(1, t)]), 0, MissCounts(hitIn[RowOf(1, t)]), 0)
    BY FinalIs
  <2> QED BY <1>2, <2>1, <2>2 DEF TaskResult, HitLocalResult
<1>3. CASE kernel = 2
  <2> DEFINE lt == LocalTask(2, t)
  <2>1. lt \in Slots(lruTileCount) /\ b = RowOf(2, t)
    BY <1>1, <1>3 DEF TasksOfRow
  <2>2. BitmapReady(b)
    <3>1. kernel \in 2..5
      BY <1>3
    <3> HIDE DEF b
    <3> QED BY <1>1, <3>1, HitLocalDone
  <2>3. Unhit(b, lt) = FreeAt(b) \cap LruTile(lt)
    BY <1>1, <2>1, <2>2, UnhitIs
  <2>4. CandidateResult(t) = Result(CompactRight(Unhit(b, lt), lru[b]), lt * lruTileLength,
                                    One(Cardinality(Unhit(b, lt))), lt)
    BY <1>3 DEF CandidateResult
  <2>5. LET here == FreeAt(b) \cap LruTile(lt)
        IN  Final(2, t) = Result(CompactRight(here, lru[b]), lt * lruTileLength,
                                 One(Cardinality(here)), lt)
    BY <2>1, FinalIs
  <2> QED BY <1>3, <2>3, <2>4, <2>5 DEF TaskResult
<1>4. CASE kernel = 3 /\ FillsHits(t)
  <2> DEFINE ht    == LocalTask(3, t)
             start == ht * hitTileLength
             len   == Cardinality(HitTile(ht))
  <2>1. ht \in Slots(hitTileCount) /\ b = RowOf(3, t)
    BY <1>1, <1>4, ShapeFacts DEF TasksOfRow, FillsHits, Slots
  <2>2. CountsReady(b) /\ CandidatesReady(b)
    <3>1. kernel \in 2..5 /\ kernel \in 3..5
      BY <1>4
    <3> HIDE DEF b
    <3> QED BY <1>1, <3>1, HitLocalDone, CandidateLocalDone
  <2>3. ASSUME NEW p \in Slots(len)
        PROVE  FilledSlot(b, ht, start + p) = FillAt(b)[start + p]
    <3>1. start + p \in HitTile(ht) /\ HitTile(ht) \subseteq HitSlots
      BY <2>1, HitTileFacts, TileFinite
    <3>2. hit[b][start + p] \in {hitIn[b][start + p], FillAt(b)[start + p]}
      BY <1>1, <3>1 DEF HitSettles
    <3> HIDE DEF ht, start, b
    <3> QED BY <1>1, <2>1, <2>2, <3>1, <3>2, FilledIs
  <2>4. FillResult(t) = Result([p \in Slots(len) |-> FilledSlot(b, ht, start + p)], start, <<>>, 0)
    BY <1>4 DEF FillResult
  <2>5. Final(3, t) = Result([p \in Slots(len) |-> FillAt(b)[start + p]], start, <<>>, 0)
    BY <1>4, FinalIs
  <2>6. [p \in Slots(len) |-> FilledSlot(b, ht, start + p)]
           = [p \in Slots(len) |-> FillAt(b)[start + p]]
    <3> HIDE DEF ht, start, b, len
    <3> QED BY <2>3
  <2> QED BY <1>4, <2>4, <2>5, <2>6 DEF TaskResult
<1>5. CASE kernel = 3 /\ ~FillsHits(t)
  <2> DEFINE lt == KeepTileOf(t)
  <2>1. lt \in Slots(lruTileCount) /\ b = RowOf(3, t)
    BY <1>1, <1>5, KeepTileFacts
  <2>2. BitmapReady(b) /\ CountsReady(b) /\ CandidatesReady(b)
    <3>1. kernel \in 2..5 /\ kernel \in 3..5
      BY <1>5
    <3> HIDE DEF b
    <3> QED BY <1>1, <3>1, HitLocalDone, CandidateLocalDone
  <2>3. Kept(b, lt) = StayAt(b) \cap LruTile(lt)
    BY <1>1, <2>1, <2>2, KeptIs
  <2>4. KeepResult(t) = Result(CompactLeft(Kept(b, lt), lru[b]), lt * lruTileLength,
                               One(Cardinality(Kept(b, lt))), lt)
    BY <1>5 DEF KeepResult
  <2>5. LET here == StayAt(b) \cap LruTile(lt)
        IN  Final(3, t) = Result(CompactLeft(here, lru[b]), lt * lruTileLength,
                                 One(Cardinality(here)), lt)
    BY <1>5, <2>1, FinalIs
  <2> QED BY <1>5, <2>3, <2>4, <2>5 DEF TaskResult
<1>6. CASE kernel = 4
  <2> DEFINE lt   == LocalTask(4, t)
             here == StayAt(b) \cap LruTile(lt)
             data == CopyIn(keepValues[b], lt * lruTileLength, keepCounts[b][lt])
  <2>1. lt \in Slots(lruTileCount) /\ b = RowOf(4, t)
    BY <1>1, <1>6 DEF TasksOfRow
  <2>2. KeepsReady(b)
    <3>1. kernel \in 4..5
      BY <1>6
    <3> HIDE DEF b
    <3> QED BY <1>1, <3>1, MaterializeDone
  <2>3. KeepOffset(b, lt) = k + Cardinality(Below(StayAt(b), lt * lruTileLength))
    BY <1>1, <2>1, <2>2, KeepOffsetIs
  <2>4. data = CompactLeft(here, lru[b])
    <3>1. keepCounts[b][lt] = Cardinality(here)
      BY <2>1, <2>2 DEF KeepsReady
    <3>2. \A r \in Slots(Cardinality(here)) :
             keepValues[b][lt * lruTileLength + r] = CompactLeft(here, lru[b])[r]
      BY <2>1, <2>2 DEF KeepsReady
    <3> HIDE DEF here, lt, b
    <3>3. CompactLeft(here, lru[b])
             = [r \in Slots(Cardinality(here)) |-> CompactLeft(here, lru[b])[r]]
      BY DEF CompactLeft
    <3>4. data = [r \in Slots(Cardinality(here)) |-> keepValues[b][lt * lruTileLength + r]]
      BY <3>1 DEF CopyIn
    <3> QED BY <3>2, <3>3, <3>4
  <2>5. ScanResult(t) = Result(data, KeepOffset(b, lt), <<>>, 0)
    BY <2>1 DEF ScanResult
  <2>6. Final(4, t) = Result(CompactLeft(here, lru[b]),
                             k + Cardinality(Below(StayAt(b), lt * lruTileLength)), <<>>, 0)
    BY <2>1, FinalIs
  <2> QED BY <1>6, <2>3, <2>4, <2>5, <2>6 DEF TaskResult
<1> QED BY <1>2, <1>3, <1>4, <1>5, <1>6

------------------------------------------------------------------------------
\* The cells that tasks write.

\* Where in its row a task writes.
Region(n, t, l) ==
    LET b == RowOf(n, t)
    IN  CASE l = "hitBitmap" -> Slots(lruStride)
          [] l = "hitCounts" -> Slots(hitMetaStride)
          [] l = "candidateValues" -> From(Below(Slots(valueStride),
                                                 (LocalTask(2, t) + 1) * lruTileLength),
                                           LocalTask(2, t) * lruTileLength)
          [] l = "candidateCounts" -> {LocalTask(2, t)}
          [] l = "hit" -> HitTile(LocalTask(3, t))
          [] l = "keepValues" -> From(Below(Slots(valueStride),
                                            (KeepTileOf(t) + 1) * lruTileLength),
                                      KeepTileOf(t) * lruTileLength)
          [] l = "keepCounts" -> {KeepTileOf(t)}
          [] l = "newLru" /\ n = 3 -> HitTile(LocalTask(3, t))
          [] l = "newLru" /\ n = 4 ->
                {k + Cardinality(Below(StayAt(b), p)) : p \in StayAt(b) \cap LruTile(LocalTask(4, t))}

\* A tile's compacted values stay within the tile's part of a workspace row.
LEMMA TileOfValues ==
    ASSUME NEW lt \in Slots(lruTileCount), NEW S,
           NEW r \in Slots(Cardinality(S \cap LruTile(lt)))
    PROVE  lt * lruTileLength + r
              \in From(Below(Slots(valueStride), (lt + 1) * lruTileLength), lt * lruTileLength)
<1>1. /\ lt \in Nat /\ lt + 1 <= lruTileCount /\ lt * lruTileLength \in Nat
      /\ (lt + 1) * lruTileLength = lt * lruTileLength + lruTileLength
  BY LruTileFacts, ShapeFacts
<1>2. /\ LruTile(lt) = {p \in LruSlots : lt * lruTileLength <= p
                                         /\ p < lt * lruTileLength + lruTileLength}
      /\ lruTileLength \in Nat /\ lruTileCount \in Nat
  BY LruTileFacts, ShapeFacts
<1>3. Cardinality(S \cap LruTile(lt)) \in Nat /\ Cardinality(S \cap LruTile(lt)) <= lruTileLength
  <2>1. S \cap LruTile(lt) \subseteq lt * lruTileLength .. lt * lruTileLength + lruTileLength - 1
    <3>1. \A p \in LruSlots : p \in Int
      BY ShapeFacts DEF Slots
    <3>2. \A p \in LruTile(lt) : /\ p \in Int /\ lt * lruTileLength <= p
                                 /\ p < lt * lruTileLength + lruTileLength
      BY <1>2, <3>1
    <3>3. \A a, n, p \in Int : a <= p /\ p < a + n => p \in a .. a + n - 1
      OBVIOUS
    <3> HIDE DEF LruTile
    <3> QED BY <1>1, <1>2, <3>2, <3>3
  <2>2. /\ IsFiniteSet(lt * lruTileLength .. lt * lruTileLength + lruTileLength - 1)
        /\ Cardinality(lt * lruTileLength .. lt * lruTileLength + lruTileLength - 1)
              = IF lt * lruTileLength > lt * lruTileLength + lruTileLength - 1 THEN 0
                ELSE (lt * lruTileLength + lruTileLength - 1) - lt * lruTileLength + 1
    <3>1. lt * lruTileLength \in Int /\ lt * lruTileLength + lruTileLength - 1 \in Int
      BY <1>1, <1>2
    <3> QED BY <3>1, FS_Interval
  <2>3. Cardinality(lt * lruTileLength .. lt * lruTileLength + lruTileLength - 1) = lruTileLength
    BY <1>1, <1>2, <2>2, ShapeFacts
  <2> QED BY <2>1, <2>2, <2>3, FS_Subset, FS_CardinalityType
<1>4. r \in Nat /\ r < lruTileLength
  BY <1>2, <1>3 DEF Slots
<1>5. (lt + 1) * lruTileLength <= valueStride /\ valueStride \in Nat
  <2>1. (lt + 1) * lruTileLength <= lruTileCount * lruTileLength
    BY <1>1, <1>2
  <2> QED BY <2>1, ShapeFacts DEF valueStride
<1> QED BY <1>1, <1>2, <1>4, <1>5 DEF From, Below, Slots

\* A survivor's place in new_lru is behind the k filled slots and the survivors to its
\* left.
LEMMA PlaceOfSurvivor ==
    ASSUME TensorsOK, NEW b \in Rows, NEW lt \in Slots(lruTileCount),
           NEW r \in Slots(Cardinality(StayAt(b) \cap LruTile(lt)))
    PROVE  \E p \in StayAt(b) \cap LruTile(lt) :
              /\ k + Cardinality(Below(StayAt(b), lt * lruTileLength)) + r
                    = k + Cardinality(Below(StayAt(b), p))
              /\ CompactLeft(StayAt(b) \cap LruTile(lt), lru[b])[r] = lru[b][p]
<1> DEFINE stay == StayAt(b)
           here == stay \cap LruTile(lt)
<1>1. stay \subseteq LruSlots /\ here \subseteq Slots(lruLength) /\ lruLength \in Nat
  BY RowsOfCall, ShapeFacts
<1>2. PICK p \in here : Cardinality(Below(here, p)) = r
  <2> HIDE DEF stay
  <2>1. \A x \in Slots(Cardinality(here)) : \E p \in here : Cardinality(Below(here, p)) = x
    <3> HIDE DEF here
    <3> QED BY ONLY <1>1, RanksBelow
  <2>2. r \in Slots(Cardinality(here))
    BY DEF stay
  <2> QED BY <2>1, <2>2
<1>3. /\ Cardinality(Below(stay, p)) = Cardinality(Below(stay, lt * lruTileLength))
                                          + Cardinality(Below(here, p))
      /\ Cardinality(Below(stay, lt * lruTileLength)) \in Nat
      /\ Cardinality(here) \in Nat
  <2> HIDE DEF stay
  <2> QED BY <1>1, RankInTile
<1>4. CompactLeft(here, lru[b])[r] = lru[b][p]
  <2>1. CompactLeft(here, lru[b])[Cardinality(Below(here, p))] = lru[b][p]
    <3> HIDE DEF here
    <3> QED BY ONLY <1>1, p \in here, CompactLeftAt
  <2> QED BY <1>2, <2>1
<1>5. k + Cardinality(Below(stay, lt * lruTileLength)) + r = k + Cardinality(Below(stay, p))
  <2> HIDE DEF here, stay
  <2> QED BY <1>2, <1>3, ShapeAssumption DEF Slots
<1> QED BY <1>4, <1>5

\* A task's tensors, one case for each pair of a kind of task and a tensor.
LEMMA TensorCases ==
    ASSUME NEW n \in 1..4, NEW t \in Slots(TaskCount(n)), NEW l \in TensorsOf(n, t)
    PROVE  \/ n = 1 /\ l \in {"hitBitmap", "hitCounts"}
           \/ /\ n = 2 /\ l \in {"candidateValues", "candidateCounts"}
              /\ LocalTask(2, t) \in Slots(lruTileCount)
           \/ /\ n = 3 /\ FillsHits(t) /\ l \in {"hit", "newLru"}
              /\ LocalTask(3, t) \in Slots(hitTileCount)
           \/ /\ n = 3 /\ ~FillsHits(t) /\ l \in {"keepValues", "keepCounts"}
              /\ KeepTileOf(t) \in Slots(lruTileCount)
           \/ n = 4 /\ l = "newLru" /\ LocalTask(4, t) \in Slots(lruTileCount)
<1>1. t \in Nat /\ t < TaskCount(n) /\ LocalTask(n, t) \in Slots(TasksOfRow(n))
  BY TaskRow
<1>2. CASE n = 1
  BY <1>2 DEF TensorsOf
<1>3. CASE n = 2
  BY <1>1, <1>3 DEF TensorsOf, TasksOfRow
<1>4. CASE n = 3 /\ FillsHits(t)
  BY <1>1, <1>4, ShapeFacts DEF TensorsOf, TasksOfRow, FillsHits, Slots
<1>5. CASE n = 3 /\ ~FillsHits(t)
  BY <1>1, <1>5, KeepTileFacts DEF TensorsOf
<1>6. CASE n = 4
  BY <1>1, <1>6 DEF TensorsOf, TasksOfRow
<1> QED BY <1>2, <1>3, <1>4, <1>5, <1>6

LEMMA CellInRegion ==
    ASSUME TensorsOK, NEW n \in 1..4, NEW t \in Slots(TaskCount(n)), NEW l \in TensorsOf(n, t),
           NEW i \in DOMAIN DataFor(l, Final(n, t))
    PROVE  PlaceFor(l, Final(n, t)) + i \in Region(n, t, l)
<1> USE DEF DataFor, PlaceFor, CountLabels, Result
<1>0. RowOf(n, t) \in Rows
  BY TaskRow
<1>1. CASE n = 1 /\ l \in {"hitBitmap", "hitCounts"}
  <2> DEFINE row == hitIn[RowOf(1, t)]
  <2>1. Final(1, t) = Result(BitmapOf(row), 0, MissCounts(row), 0)
    BY FinalIs
  <2>2. /\ DOMAIN BitmapOf(row) = Slots(lruStride) /\ DOMAIN MissCounts(row) = Slots(hitMetaStride)
    BY DEF BitmapOf, MissCounts
  <2> HIDE DEF row
  <2>3. CASE l = "hitBitmap"
    <3>1. PlaceFor(l, Final(n, t)) = 0 /\ i \in Slots(lruStride)
      BY <1>1, <2>1, <2>2, <2>3
    <3>2. 0 + i = i
      BY <3>1, ShapeFacts DEF Slots
    <3> QED BY <2>3, <3>1, <3>2 DEF Region
  <2>4. CASE l = "hitCounts"
    <3>1. PlaceFor(l, Final(n, t)) = 0 /\ i \in Slots(hitMetaStride)
      BY <1>1, <2>1, <2>2, <2>4
    <3>2. 0 + i = i
      BY <3>1, ShapeFacts DEF Slots
    <3> QED BY <2>4, <3>1, <3>2 DEF Region
  <2> QED BY <1>1, <2>3, <2>4
<1>2. CASE /\ n = 2 /\ l \in {"candidateValues", "candidateCounts"}
           /\ LocalTask(2, t) \in Slots(lruTileCount)
  <2> DEFINE lt   == LocalTask(2, t)
             row  == lru[RowOf(2, t)]
             here == FreeAt(RowOf(2, t)) \cap LruTile(lt)
  <2>1. Final(2, t) = Result(CompactRight(here, row), lt * lruTileLength, One(Cardinality(here)), lt)
    BY FinalIs
  <2>2. DOMAIN CompactRight(here, row) = Slots(Cardinality(here))
        /\ DOMAIN One(Cardinality(here)) = {0}
    BY DEF CompactRight, One
  <2> HIDE DEF row
  <2>3. CASE l = "candidateValues"
    <3>1. PlaceFor(l, Final(n, t)) = lt * lruTileLength /\ i \in Slots(Cardinality(here))
      BY <1>2, <2>1, <2>2, <2>3
    <3>2. lt * lruTileLength + i
             \in From(Below(Slots(valueStride), (lt + 1) * lruTileLength), lt * lruTileLength)
      BY <1>2, <3>1, TileOfValues
    <3> QED BY <2>3, <3>1, <3>2 DEF Region
  <2>4. CASE l = "candidateCounts"
    <3>1. PlaceFor(l, Final(n, t)) = lt /\ i = 0
      BY <1>2, <2>1, <2>2, <2>4
    <3>2. lt + i = lt
      BY <1>2, <3>1, LruTileFacts
    <3> QED BY <2>4, <3>1, <3>2 DEF Region
  <2> QED BY <1>2, <2>3, <2>4
<1>3. CASE /\ n = 3 /\ FillsHits(t) /\ l \in {"hit", "newLru"}
           /\ LocalTask(3, t) \in Slots(hitTileCount)
  <2> DEFINE ht    == LocalTask(3, t)
             start == ht * hitTileLength
             data  == [p \in Slots(Cardinality(HitTile(ht))) |-> FillAt(RowOf(3, t))[start + p]]
  <2>1. Final(3, t) = Result(data, start, <<>>, 0)
    BY <1>3, FinalIs
  <2>2. DOMAIN data = Slots(Cardinality(HitTile(ht)))
    OBVIOUS
  <2> HIDE DEF data
  <2>3. PlaceFor(l, Final(n, t)) = start /\ i \in Slots(Cardinality(HitTile(ht)))
    BY <1>3, <2>1, <2>2
  <2>4. start + i \in HitTile(ht)
    BY <1>3, <2>3, HitTileFacts
  <2> QED BY <1>3, <2>3, <2>4 DEF Region
<1>4. CASE /\ n = 3 /\ ~FillsHits(t) /\ l \in {"keepValues", "keepCounts"}
           /\ KeepTileOf(t) \in Slots(lruTileCount)
  <2> DEFINE lt   == KeepTileOf(t)
             row  == lru[RowOf(3, t)]
             here == StayAt(RowOf(3, t)) \cap LruTile(lt)
  <2>1. Final(3, t) = Result(CompactLeft(here, row), lt * lruTileLength, One(Cardinality(here)), lt)
    BY <1>4, FinalIs
  <2>2. DOMAIN CompactLeft(here, row) = Slots(Cardinality(here))
        /\ DOMAIN One(Cardinality(here)) = {0}
    BY DEF CompactLeft, One
  <2> HIDE DEF row
  <2>3. CASE l = "keepValues"
    <3>1. PlaceFor(l, Final(n, t)) = lt * lruTileLength /\ i \in Slots(Cardinality(here))
      BY <1>4, <2>1, <2>2, <2>3
    <3>2. lt * lruTileLength + i
             \in From(Below(Slots(valueStride), (lt + 1) * lruTileLength), lt * lruTileLength)
      BY <1>4, <3>1, TileOfValues
    <3> QED BY <2>3, <3>1, <3>2 DEF Region
  <2>4. CASE l = "keepCounts"
    <3>1. PlaceFor(l, Final(n, t)) = lt /\ i = 0
      BY <1>4, <2>1, <2>2, <2>4
    <3>2. lt + i = lt
      BY <1>4, <3>1, LruTileFacts
    <3> QED BY <2>4, <3>1, <3>2 DEF Region
  <2> QED BY <1>4, <2>3, <2>4
<1>5. CASE n = 4 /\ l = "newLru" /\ LocalTask(4, t) \in Slots(lruTileCount)
  <2> DEFINE b    == RowOf(4, t)
             lt   == LocalTask(4, t)
             here == StayAt(b) \cap LruTile(lt)
             from == k + Cardinality(Below(StayAt(b), lt * lruTileLength))
  <2>1. Final(4, t) = Result(CompactLeft(here, lru[b]), from, <<>>, 0)
    BY FinalIs
  <2>2. DOMAIN CompactLeft(here, lru[b]) = Slots(Cardinality(here))
    BY DEF CompactLeft
  <2>3. PlaceFor(l, Final(n, t)) = from /\ i \in Slots(Cardinality(here))
    <3> HIDE DEF b, lt, here, from
    <3> QED BY <1>5, <2>1, <2>2
  <2>4. \E p \in here : from + i = k + Cardinality(Below(StayAt(b), p))
    <3>1. b \in Rows
      BY <1>0, <1>5
    <3> QED BY <1>5, <2>3, <3>1, PlaceOfSurvivor
  <2> QED BY <1>5, <2>3, <2>4 DEF Region
<1> QED BY <1>1, <1>2, <1>3, <1>4, <1>5, TensorCases

LEMMA RowLengths ==
    /\ RowLength["hitBitmap"] = lruStride /\ RowLength["hitCounts"] = hitMetaStride
    /\ RowLength["candidateValues"] = valueStride /\ RowLength["keepValues"] = valueStride
    /\ RowLength["candidateCounts"] = lruMetaStride /\ RowLength["keepCounts"] = lruMetaStride
    /\ RowLength["hit"] = k /\ RowLength["newLru"] = lruLength
BY DEF RowLength, Labels

\* A task stays within the rows of its tensors.
LEMMA RegionInBounds ==
    ASSUME TensorsOK, NEW n \in 1..4, NEW t \in Slots(TaskCount(n)), NEW l \in TensorsOf(n, t)
    PROVE  Region(n, t, l) \subseteq Slots(RowLength[l])
<1>0. RowOf(n, t) \in Rows
  BY TaskRow
<1>1. CASE n = 1 /\ l \in {"hitBitmap", "hitCounts"}
  BY <1>1, RowLengths DEF Region
<1>2. CASE /\ n = 2 /\ l \in {"candidateValues", "candidateCounts"}
           /\ LocalTask(2, t) \in Slots(lruTileCount)
  <2>1. LocalTask(2, t) \in Slots(lruMetaStride)
    BY <1>2, ShapeFacts DEF Slots
  <2> QED BY <1>2, <2>1, RowLengths DEF Region, From, Below
<1>3. CASE /\ n = 3 /\ FillsHits(t) /\ l \in {"hit", "newLru"}
           /\ LocalTask(3, t) \in Slots(hitTileCount)
  <2>1. HitTile(LocalTask(3, t)) \subseteq HitSlots
    BY <1>3, TileFinite
  <2>2. HitSlots \subseteq LruSlots
    BY ShapeAssumption DEF Slots, lruLength
  <2>3. Region(n, t, l) = HitTile(LocalTask(3, t))
    BY <1>3 DEF Region
  <2> QED BY <1>3, <2>1, <2>2, <2>3, RowLengths
<1>4. CASE /\ n = 3 /\ ~FillsHits(t) /\ l \in {"keepValues", "keepCounts"}
           /\ KeepTileOf(t) \in Slots(lruTileCount)
  <2>1. KeepTileOf(t) \in Slots(lruMetaStride)
    BY <1>4, ShapeFacts DEF Slots
  <2> QED BY <1>4, <2>1, RowLengths DEF Region, From, Below
<1>5. CASE n = 4 /\ l = "newLru" /\ LocalTask(4, t) \in Slots(lruTileCount)
  <2> DEFINE b == RowOf(4, t)
  <2>1. b \in Rows
    BY <1>0, <1>5
  <2> HIDE DEF b
  <2>2. StayAt(b) \subseteq LruSlots /\ Cardinality(StayAt(b)) = k /\ lruLength \in Nat
    BY <2>1, RowsOfCall, ShapeFacts
  <2>3. ASSUME NEW p \in StayAt(b) PROVE k + Cardinality(Below(StayAt(b), p)) \in LruSlots
    <3>1. Cardinality(Below(StayAt(b), p)) \in Slots(Cardinality(StayAt(b)))
      BY <2>2, RanksBelow
    <3> QED BY <2>2, <3>1, ShapeAssumption DEF Slots, lruLength
  <2> QED BY <1>5, <2>3, RowLengths DEF Region, b
<1> QED BY <1>1, <1>2, <1>3, <1>4, <1>5, TensorCases

\* Two tasks never write a common cell, not even tasks of different kernels.
LEMMA RegionsApart ==
    ASSUME TensorsOK, NEW n \in 1..4, NEW t \in Slots(TaskCount(n)),
           NEW m \in 1..4, NEW u \in Slots(TaskCount(m)),
           NEW l \in TensorsOf(n, t), l \in TensorsOf(m, u), RowOf(n, t) = RowOf(m, u),
           NEW x, x \in Region(n, t, l), x \in Region(m, u, l)
    PROVE  n = m /\ t = u
<1>1. RowOf(n, t) \in Rows
  BY TaskRow
<1>2. CASE n = 1
  <2>1. m = 1 /\ l \in {"hitBitmap", "hitCounts"}
    BY <1>2, TensorCases
  <2>2. LocalTask(1, t) = 0 /\ LocalTask(1, u) = 0
    <3>1. LocalTask(1, t) \in Slots(1) /\ LocalTask(1, u) \in Slots(1)
      BY <1>2, <2>1, TaskRow DEF TasksOfRow
    <3> QED BY <3>1 DEF Slots
  <2> QED BY <1>2, <2>1, <2>2, SameTask
<1>3. ASSUME NEW lt \in Slots(lruTileCount), NEW other \in Slots(lruTileCount),
             x \in From(Below(Slots(valueStride), (lt + 1) * lruTileLength), lt * lruTileLength),
             x \in From(Below(Slots(valueStride), (other + 1) * lruTileLength),
                        other * lruTileLength)
      PROVE  lt = other
  <2>1. /\ x \in Nat /\ lt \in Nat /\ other \in Nat
        /\ lt * lruTileLength <= x /\ x < (lt + 1) * lruTileLength
        /\ other * lruTileLength <= x /\ x < (other + 1) * lruTileLength
    BY <1>3, ShapeFacts DEF From, Below, Slots
  <2>2. ASSUME NEW p \in Nat, NEW q \in Nat, p < q,
               q * lruTileLength <= x, x < (p + 1) * lruTileLength
        PROVE  FALSE
    <3>1. (p + 1) * lruTileLength <= q * lruTileLength
      BY <2>2, ShapeFacts
    <3>2. (p + 1) * lruTileLength \in Nat /\ q * lruTileLength \in Nat
      BY ShapeFacts
    <3> QED BY <2>1, <2>2, <3>1, <3>2
  <2> QED BY <2>1, <2>2
<1>4. CASE n = 2
  <2>1. /\ m = 2 /\ l \in {"candidateValues", "candidateCounts"}
        /\ LocalTask(2, t) \in Slots(lruTileCount) /\ LocalTask(2, u) \in Slots(lruTileCount)
    BY <1>4, TensorCases
  <2>2. LocalTask(2, t) = LocalTask(2, u)
    <3>1. CASE l = "candidateValues"
      BY <1>3, <2>1, <3>1 DEF Region
    <3>2. CASE l = "candidateCounts"
      BY <2>1, <3>2 DEF Region
    <3> QED BY <2>1, <3>1, <3>2
  <2> QED BY <1>4, <2>1, <2>2, SameTask
<1>5. CASE n = 3 /\ ~FillsHits(t)
  <2>1. /\ m = 3 /\ l \in {"keepValues", "keepCounts"}
        /\ KeepTileOf(t) \in Slots(lruTileCount) /\ KeepTileOf(u) \in Slots(lruTileCount)
    BY <1>5, TensorCases
  <2>2. KeepTileOf(t) = KeepTileOf(u)
    <3>1. CASE l = "keepValues"
      BY <1>3, <2>1, <3>1 DEF Region
    <3>2. CASE l = "keepCounts"
      BY <2>1, <3>2 DEF Region
    <3> QED BY <2>1, <3>1, <3>2
  <2>3. LocalTask(3, t) = LocalTask(3, u)
    <3>1. LocalTask(3, t) \in Int /\ LocalTask(3, u) \in Int
      BY <1>5, <2>1, TaskRow, TaskFacts DEF Slots
    <3> QED BY <2>2, <3>1, ShapeFacts DEF KeepTileOf
  <2> QED BY <1>5, <2>1, <2>3, SameTask
<1>6. ASSUME NEW v \in Slots(TaskCount(4)), RowOf(4, v) \in Rows,
             LocalTask(4, v) \in Slots(lruTileCount), x \in Region(4, v, "newLru")
      PROVE  \E p \in StayAt(RowOf(4, v)) \cap LruTile(LocalTask(4, v)) :
                /\ x = k + Cardinality(Below(StayAt(RowOf(4, v)), p))
                /\ Cardinality(Below(StayAt(RowOf(4, v)), p)) \in Nat
  <2> DEFINE stay == StayAt(RowOf(4, v))
  <2>1. stay \subseteq LruSlots /\ lruLength \in Nat /\ Cardinality(stay) = k
    BY <1>6, RowsOfCall, ShapeFacts
  <2>2. PICK p \in stay \cap LruTile(LocalTask(4, v)) : x = k + Cardinality(Below(stay, p))
    BY <1>6 DEF Region
  <2>3. Cardinality(Below(stay, p)) \in Nat
    <3> HIDE DEF stay
    <3>1. Cardinality(Below(stay, p)) \in Slots(Cardinality(stay))
      BY <2>1, <2>2, RanksBelow
    <3> QED BY <2>1, <3>1, ShapeAssumption DEF Slots
  <2> QED BY <2>2, <2>3
<1>7. CASE n = 3 /\ FillsHits(t)
  <2>1. l \in {"hit", "newLru"} /\ LocalTask(3, t) \in Slots(hitTileCount)
    BY <1>7, TensorCases
  <2>2. x \in HitTile(LocalTask(3, t))
    BY <1>7, <2>1 DEF Region
  <2>3. x < k /\ x \in Nat
    BY <2>1, <2>2, TileFinite, ShapeAssumption DEF Slots
  <2>4. m # 4
    <3> SUFFICES ASSUME m = 4 PROVE FALSE
      OBVIOUS
    <3>1. l = "newLru" /\ LocalTask(4, u) \in Slots(lruTileCount)
      BY TensorCases
    <3>2. PICK p : x = k + Cardinality(Below(StayAt(RowOf(4, u)), p))
                   /\ Cardinality(Below(StayAt(RowOf(4, u)), p)) \in Nat
      BY <1>1, <1>6, <3>1
    <3> QED BY <2>3, <3>2, ShapeAssumption
  <2>5. m = 3 /\ LocalTask(3, u) \in Slots(hitTileCount)
    BY <2>1, <2>4, TensorCases
  <2>6. x \in HitTile(LocalTask(3, u))
    BY <2>1, <2>5 DEF Region
  <2>7. LocalTask(3, t) = LocalTask(3, u)
    BY <2>1, <2>2, <2>5, <2>6, HitTileFacts
  <2> QED BY <1>7, <2>5, <2>7, SameTask
<1>8. CASE n = 4
  <2> DEFINE b == RowOf(4, t)
  <2>1. l = "newLru" /\ LocalTask(4, t) \in Slots(lruTileCount)
    BY <1>8, TensorCases
  <2>2. PICK p \in StayAt(b) \cap LruTile(LocalTask(4, t)) :
           x = k + Cardinality(Below(StayAt(b), p)) /\ Cardinality(Below(StayAt(b), p)) \in Nat
    BY <1>1, <1>6, <1>8, <2>1
  <2>3. m # 3
    <3> SUFFICES ASSUME m = 3 PROVE FALSE
      OBVIOUS
    <3>1. LocalTask(3, u) \in Slots(hitTileCount) /\ x \in HitTile(LocalTask(3, u))
      <4>1. LocalTask(3, u) \in Slots(hitTileCount)
        BY <2>1, TensorCases
      <4> QED BY <2>1, <4>1 DEF Region
    <3>2. x < k /\ x \in Nat
      BY <3>1, TileFinite, ShapeAssumption DEF Slots
    <3> QED BY <2>2, <3>2, ShapeAssumption
  <2>4. m = 4 /\ LocalTask(4, u) \in Slots(lruTileCount)
    BY <2>1, <2>3, TensorCases
  <2>5. PICK q \in StayAt(b) \cap LruTile(LocalTask(4, u)) :
           x = k + Cardinality(Below(StayAt(b), q)) /\ Cardinality(Below(StayAt(b), q)) \in Nat
    BY <1>1, <1>6, <1>8, <2>1, <2>4
  <2>6. p = q
    <3>1. Cardinality(Below(StayAt(b), p)) = Cardinality(Below(StayAt(b), q))
      BY <2>2, <2>5, ShapeAssumption
    <3>2. StayAt(b) \subseteq LruSlots /\ lruLength \in Nat
      BY <1>1, <1>8, RowsOfCall, ShapeFacts
    <3> HIDE DEF b
    <3> QED BY <2>2, <2>5, <3>1, <3>2, RanksBelow
  <2>7. LocalTask(4, t) = LocalTask(4, u)
    BY <2>1, <2>2, <2>4, <2>5, <2>6, LruTileFacts
  <2> QED BY <1>8, <2>4, <2>7, SameTask
<1> QED BY <1>2, <1>4, <1>5, <1>7, <1>8

------------------------------------------------------------------------------
\* The steps, as they act on the memory as a whole.

LEMMA MemoryNext ==
    /\ Memory'["hitBitmap"] = hitBitmap' /\ Memory'["hitCounts"] = hitCounts'
    /\ Memory'["candidateValues"] = candidateValues'
    /\ Memory'["candidateCounts"] = candidateCounts'
    /\ Memory'["hit"] = hit' /\ Memory'["newLru"] = newLru'
    /\ Memory'["keepValues"] = keepValues' /\ Memory'["keepCounts"] = keepCounts'
BY DEF Memory, Labels

\* A core copies its buffer out to the tensor of its pc.
Burst(c) ==
    /\ \A l \in Labels \ {"in"} : l # pc[c] => Memory'[l] = Memory[l]
    /\ Memory'[pc[c]] = [Memory[pc[c]] EXCEPT
                            ![Row(c)] = CopyOut(@, PlaceFor(pc[c], ub[c]), DataFor(pc[c], ub[c]))]

MemoryStays == UNCHANGED <<inputs, hit, newLru, workspaces>>

ComputeStep(c) ==
    /\ Working(c, kernel) /\ pc[c] = "in"
    /\ UNCHANGED <<kernel, task>> /\ MemoryStays
    /\ ub' = [ub EXCEPT ![c] = TaskResult(kernel, task[c])]
    /\ \E target \in TensorsOf(kernel, task[c]) :
          /\ pc' = [pc EXCEPT ![c] = target]
          /\ \A l \in TensorsOf(kernel, task[c]) : IsFirst(l) /\ ~IsFirst(target)
                => DOMAIN DataFor(l, TaskResult(kernel, task[c])) = {}

BurstStep(c) ==
    /\ Working(c, kernel) /\ pc[c] # "in"
    /\ Burst(c) /\ UNCHANGED inputs
    /\ IF IsFirst(pc[c])
       THEN \E target \in TensorsOf(kernel, task[c]) : ~IsFirst(target) /\ Proceed(c, target)
       ELSE NextTask(c)

SkipStep(c) ==
    /\ Working(c, kernel) /\ pc[c] = "in" /\ kernel = 4
    /\ keepCounts[Row(c)][LocalTask(4, task[c])] <= 0
    /\ NextTask(c) /\ MemoryStays

LEMMA WorkingFacts ==
    ASSUME ControlOK, NEW c \in Cores, Working(c, kernel)
    PROVE  /\ kernel \in 1..4 /\ task[c] \in Slots(TaskCount(kernel)) /\ Row(c) \in Rows
           /\ c < BlockDim(kernel)
<1>1. kernel \in 1..4
  <2>1. task[c] \in Nat /\ task[c] < TaskCount(kernel) /\ kernel \in 1..5
    BY DEF ControlOK, Working
  <2>2. kernel = 5 => TaskCount(kernel) = 0
    BY DEF TaskCount
  <2> QED BY <2>1, <2>2
<1>2. task[c] \in Slots(TaskCount(kernel))
  BY <1>1, TaskFacts DEF ControlOK, Working, Slots
<1> QED BY <1>1, <1>2, TaskRow DEF Row, Working

\* What a core that copies out is at.
LEMMA BurstFacts ==
    ASSUME TypeOK, BuffersFinal, NEW c \in Cores, pc[c] # "in"
    PROVE  /\ Working(c, kernel) /\ IsResult(ub[c])
           /\ kernel \in 1..4 /\ task[c] \in Slots(TaskCount(kernel)) /\ Row(c) \in Rows
           /\ ub[c] = Final(kernel, task[c])
           /\ pc[c] \in TensorsOf(kernel, task[c]) /\ pc[c] \in Labels \ {"in"}
           /\ \/ kernel = 1 /\ pc[c] \in {"hitBitmap", "hitCounts"}
              \/ kernel = 2 /\ pc[c] \in {"candidateValues", "candidateCounts"}
              \/ kernel = 3 /\ FillsHits(task[c]) /\ pc[c] \in {"hit", "newLru"}
              \/ kernel = 3 /\ ~FillsHits(task[c]) /\ pc[c] \in {"keepValues", "keepCounts"}
              \/ kernel = 4 /\ pc[c] = "newLru"
<1>1. Working(c, kernel) /\ IsResult(ub[c]) /\ pc[c] \in Labels
  BY DEF TypeOK, ControlOK
<1>2. kernel \in 1..4 /\ task[c] \in Slots(TaskCount(kernel)) /\ Row(c) \in Rows
  BY <1>1, WorkingFacts DEF TypeOK
<1>3. ub[c] = Final(kernel, task[c]) /\ pc[c] \in TensorsOf(kernel, task[c])
  BY DEF BuffersFinal
<1> QED BY <1>1, <1>2, <1>3, TensorCases

LEMMA TensorIs ==
    ASSUME TensorsOK, NEW l \in Labels \ {"in"}
    PROVE  IsTensor(Memory[l], RowLength[l])
<1>1. ASSUME NEW n, NEW rows \in [Rows -> [Slots(n) -> Int]]
      PROVE  IsTensor(rows, n)
  BY DEF IsTensor, IsRow
<1>2. /\ IsTensor(hitCounts, hitMetaStride) /\ IsTensor(candidateCounts, lruMetaStride)
      /\ IsTensor(keepCounts, lruMetaStride)
  BY <1>1 DEF TensorsOK
<1>3. /\ IsTensor(hit, k) /\ IsTensor(newLru, lruLength)
      /\ IsTensor(hitBitmap, lruStride)
      /\ IsTensor(candidateValues, valueStride) /\ IsTensor(keepValues, valueStride)
  BY DEF TensorsOK
<1> QED BY <1>2, <1>3, MemoryIs, RowLengths DEF Labels

\* A burst puts the buffer's values where they go, and leaves every other cell alone.
LEMMA CellAfterBurst ==
    ASSUME TensorsOK, NEW c \in Cores, pc[c] \in Labels \ {"in"}, Row(c) \in Rows, Burst(c),
           NEW l \in Labels \ {"in"}, NEW b \in Rows, NEW x \in Slots(RowLength[l])
    PROVE  Memory'[l][b][x] =
              IF l = pc[c] /\ b = Row(c) /\ x - PlaceFor(l, ub[c]) \in DOMAIN DataFor(l, ub[c])
              THEN DataFor(l, ub[c])[x - PlaceFor(l, ub[c])]
              ELSE Memory[l][b][x]
<1>1. IsTensor(Memory[l], RowLength[l])
  BY TensorIs
<1>2. CASE l # pc[c]
  BY <1>2 DEF Burst
<1>3. CASE l = pc[c]
  <2> DEFINE rows == Memory[l]
  <2>1. Memory'[l] = [rows EXCEPT ![Row(c)] = CopyOut(@, PlaceFor(l, ub[c]), DataFor(l, ub[c]))]
    BY <1>3 DEF Burst
  <2>2. DOMAIN rows = Rows /\ x \in DOMAIN rows[b]
    BY <1>1 DEF IsTensor, IsRow
  <2> HIDE DEF rows
  <2>3. CASE b = Row(c)
    <3>1. Memory'[l][b] = CopyOut(rows[b], PlaceFor(l, ub[c]), DataFor(l, ub[c]))
      BY <2>1, <2>2, <2>3
    <3>2. Memory'[l][b][x] = IF x - PlaceFor(l, ub[c]) \in DOMAIN DataFor(l, ub[c])
                             THEN DataFor(l, ub[c])[x - PlaceFor(l, ub[c])] ELSE rows[b][x]
      BY <2>2, <3>1 DEF CopyOut
    <3> QED BY <1>3, <2>3, <3>2 DEF rows
  <2>4. CASE b # Row(c)
    BY <2>1, <2>2, <2>4 DEF rows
  <2> QED BY <2>3, <2>4
<1> QED BY <1>2, <1>3

LEMMA FinalStable ==
    ASSUME UNCHANGED inputs
    PROVE  /\ \A n, t : Final(n, t)' = Final(n, t)
           /\ \A b : FillAt(b)' = FillAt(b)
BY DEF inputs, Final, FillAt

\* Results in memory survive a burst, and the burst's own is added to them.
LEMMA BurstHolds ==
    ASSUME TypeOK, BuffersFinal, NEW c \in Cores, pc[c] # "in", Burst(c), UNCHANGED inputs,
           NEW n \in 1..4, NEW t \in Slots(TaskCount(n)), NEW l \in TensorsOf(n, t),
           Holds(n, t, l) \/ (n = kernel /\ t = task[c] /\ l = pc[c])
    PROVE  Holds(n, t, l)'
<1> DEFINE result == Final(n, t)
           u      == task[c]
<1>1. Final(n, t)' = result
  BY FinalStable
<1>2. l \in Labels \ {"in"}
  BY TensorCases DEF Labels
<1> SUFFICES ASSUME NEW i \in DOMAIN DataFor(l, result)
             PROVE  Memory'[l][RowOf(n, t)][PlaceFor(l, result) + i] = DataFor(l, result)[i]
  BY <1>1 DEF Holds
<1> DEFINE x == PlaceFor(l, result) + i
           off == PlaceFor(l, ub[c])
           data == DataFor(l, ub[c])
<1>3. RowOf(n, t) \in Rows /\ x \in Region(n, t, l) /\ x \in Slots(RowLength[l])
  BY TaskRow, CellInRegion, RegionInBounds DEF TypeOK
<1>4. /\ IsResult(ub[c]) /\ kernel \in 1..4 /\ u \in Slots(TaskCount(kernel)) /\ Row(c) \in Rows
      /\ ub[c] = Final(kernel, u) /\ pc[c] \in TensorsOf(kernel, u) /\ pc[c] \in Labels \ {"in"}
  BY BurstFacts
<1>5. /\ off \in Int /\ \A j \in DOMAIN data : j \in Int
  <2>1. off \in Int
    BY <1>4 DEF IsResult, PlaceFor
  <2>2. \A j \in DOMAIN ub[c].counts : j \in Int
    BY <1>4 DEF IsResult, Slots
  <2>3. \A j \in DOMAIN ub[c].values : j \in Int
    <3>1. DOMAIN ub[c].values = Slots(Cardinality(DOMAIN ub[c].values))
      BY <1>4 DEF IsResult, IsRow
    <3>2. \A m : \A j \in Slots(m) : j \in Int
      BY DEF Slots
    <3> QED BY <3>1, <3>2
  <2> QED BY <2>1, <2>2, <2>3 DEF DataFor
<1>6. Memory'[l][RowOf(n, t)][x] =
         IF l = pc[c] /\ RowOf(n, t) = Row(c) /\ x - off \in DOMAIN data
         THEN data[x - off] ELSE Memory[l][RowOf(n, t)][x]
  <2> HIDE DEF x
  <2> QED BY <1>2, <1>3, <1>4, CellAfterBurst DEF TypeOK
<1>7. CASE l = pc[c] /\ RowOf(n, t) = Row(c) /\ x - off \in DOMAIN data
  <2>1. x \in Int
    <3> HIDE DEF x
    <3>1. RowLength[l] \in Nat
      BY <1>2, RowLengths, ShapeFacts, ShapeAssumption DEF Labels
    <3> QED BY <1>3, <3>1 DEF Slots
  <2>2. off + (x - off) = x
    <3> HIDE DEF x, off
    <3> QED BY <1>5, <2>1
  <2>3. x \in Region(kernel, u, l)
    <3>1. off + (x - off) \in Region(kernel, u, l)
      <4> DEFINE j == x - off
      <4>1. j \in DOMAIN DataFor(l, Final(kernel, u)) /\ l \in TensorsOf(kernel, u)
        BY <1>4, <1>7
      <4> HIDE DEF j
      <4>2. PlaceFor(l, Final(kernel, u)) + j \in Region(kernel, u, l)
        BY <1>4, <4>1, CellInRegion DEF TypeOK
      <4> QED BY <1>4, <4>2 DEF j
    <3> QED BY <2>2, <3>1
  <2>4. n = kernel /\ t = u
    <3> HIDE DEF x, u, off, data, result
    <3>1. RowOf(n, t) = RowOf(kernel, u)
      BY <1>7 DEF Row, u
    <3>2. l \in TensorsOf(kernel, u)
      BY <1>4, <1>7
    <3> QED BY <1>3, <1>4, <2>3, <3>1, <3>2, RegionsApart DEF TypeOK
  <2>5. off = PlaceFor(l, result) /\ data = DataFor(l, result)
    BY <1>4, <2>4
  <2>6. x - off = i
    <3>1. i \in Int
      BY <1>5, <2>5
    <3> HIDE DEF off, result
    <3> QED BY <1>5, <2>5, <3>1
  <2> HIDE DEF x, off, data, result
  <2> QED BY <1>6, <1>7, <2>5, <2>6 DEF x
<1>8. CASE ~(l = pc[c] /\ RowOf(n, t) = Row(c) /\ x - off \in DOMAIN data)
  <2>1. ~(n = kernel /\ t = u /\ l = pc[c])
    <3> SUFFICES ASSUME n = kernel, t = u, l = pc[c] PROVE FALSE
      OBVIOUS
    <3>1. RowOf(n, t) = Row(c) /\ result = ub[c]
      BY <1>4 DEF Row
    <3>2. off = PlaceFor(l, result) /\ i \in DOMAIN data
      BY <3>1
    <3>3. x - off = i
      <4>1. i \in Int
        BY <1>5, <3>2
      <4> HIDE DEF off, result
      <4> QED BY <1>5, <3>2, <4>1
    <3> QED BY <1>8, <3>1, <3>2, <3>3
  <2>2. Memory[l][RowOf(n, t)][x] = DataFor(l, result)[i]
    BY <2>1 DEF Holds
  <2> HIDE DEF x, off, data, result
  <2> QED BY <1>6, <1>8, <2>2 DEF x
<1> QED BY <1>7, <1>8

LEMMA ModFacts ==
    ASSUME NEW m \in Nat \ {0}, NEW a \in Nat
    PROVE  /\ a % m \in 0 .. m-1
           /\ (a + m) % m = a % m
           /\ a < m => a % m = a
           /\ \A t \in Nat : t % m = a % m /\ a <= t /\ t < a + m => t = a
<1> DEFINE q == a \div m
           r == a % m
<1>1. q \in Nat /\ r \in Nat /\ r < m /\ a = q * m + r
  OBVIOUS
<1>2. (a + m) % m = r
  <2>1. a + m = (q + 1) * m + r
    BY <1>1
  <2>2. ((q + 1) * m + r) % m = r
    <3>1. q + 1 \in Nat
      BY <1>1
    <3> HIDE DEF q, r
    <3> QED BY <1>1, <3>1, DivUnique
  <2> QED BY <2>1, <2>2
<1>3. ASSUME a < m PROVE r = a
  <2>1. (0 * m + a) % m = a /\ 0 * m + a = a
    BY <1>3, DivUnique
  <2> QED BY <2>1
<1>4. ASSUME NEW t \in Nat, t % m = r, a <= t, t < a + m PROVE t = a
  <2> DEFINE p == t \div m
  <2>1. p \in Nat /\ t = p * m + r
    BY <1>4
  <2> HIDE DEF p, q, r
  <2>2. ~(q < p)
    <3> SUFFICES ASSUME q < p PROVE FALSE
      OBVIOUS
    <3>1. (q + 1) * m <= p * m
      BY <1>1, <2>1
    <3>2. (q + 1) * m = q * m + m /\ q * m \in Nat /\ p * m \in Nat
      BY <1>1, <2>1
    <3> QED BY <1>1, <1>4, <2>1, <3>1, <3>2
  <2>3. ~(p < q)
    <3> SUFFICES ASSUME p < q PROVE FALSE
      OBVIOUS
    <3>1. (p + 1) * m <= q * m
      BY <1>1, <2>1
    <3>2. (p + 1) * m = p * m + m /\ q * m \in Nat /\ p * m \in Nat
      BY <1>1, <2>1
    <3> QED BY <1>1, <1>4, <2>1, <3>1, <3>2
  <2>4. p = q
    BY <1>1, <2>1, <2>2, <2>3
  <2> QED BY <1>1, <2>1, <2>4
<1> QED BY <1>1, <1>2, <1>3, <1>4

LEMMA BlockFacts ==
    ASSUME NEW n \in 1..4
    PROVE  /\ BlockDim(n) \in Nat \ {0} /\ BlockDim(n) <= coreNum
           /\ \A t \in Nat : t % BlockDim(n) \in Cores /\ t % BlockDim(n) < BlockDim(n)
<1>1. BlockDim(n) \in Nat \ {0} /\ BlockDim(n) <= coreNum /\ coreNum \in Nat
  BY TaskFacts, ShapeAssumption
<1>2. ASSUME NEW t \in Nat PROVE t % BlockDim(n) \in Cores /\ t % BlockDim(n) < BlockDim(n)
  <2>1. t % BlockDim(n) \in 0 .. BlockDim(n) - 1
    BY <1>1, ModFacts
  <2> QED BY <1>1, <2>1 DEF Slots
<1> QED BY <1>1, <1>2

\* A core that goes on to its next task completes just the one it was at.
LEMMA CompletedNext ==
    ASSUME TypeOK, TurnsKept, NEW c \in Cores, Working(c, kernel), NextTask(c),
           NEW n \in 1..4, NEW t \in Slots(TaskCount(n)), Completed(n, t)'
    PROVE  Completed(n, t) \/ (n = kernel /\ t = task[c])
<1>1. kernel \in 1..4 /\ c < BlockDim(kernel) /\ task \in [Cores -> Nat] /\ t \in Nat
  BY WorkingFacts, TaskRow DEF TypeOK, ControlOK
<1>2. kernel' = kernel /\ task' = [task EXCEPT ![c] = @ + BlockDim(kernel)]
  BY DEF NextTask
<1> SUFFICES ASSUME n = kernel, t < task'[t % BlockDim(n)], ~(t < task[t % BlockDim(n)])
             PROVE  t = task[c]
  BY <1>2 DEF Completed, BlockDim
<1>3. t % BlockDim(n) \in Cores
  BY <1>1, BlockFacts
<1>4. t % BlockDim(n) = c
  BY <1>2, <1>3
<1>5. task[c] % BlockDim(n) = c
  BY <1>1 DEF TurnsKept
<1>6. task[c] <= t /\ t < task[c] + BlockDim(n)
  BY <1>1, <1>2, <1>3, <1>4
<1>7. BlockDim(n) \in Nat \ {0} /\ task[c] \in Nat
  BY <1>1, BlockFacts
<1> QED BY <1>1, <1>4, <1>5, <1>6, <1>7, ModFacts

LEMMA TurnsNext ==
    ASSUME TypeOK, TurnsKept, NEW c \in Cores, Working(c, kernel), NextTask(c)
    PROVE  TurnsKept'
<1>1. kernel \in 1..4 /\ c < BlockDim(kernel) /\ task \in [Cores -> Nat]
  BY WorkingFacts DEF TypeOK, ControlOK
<1>2. kernel' = kernel /\ task' = [task EXCEPT ![c] = @ + BlockDim(kernel)]
  BY DEF NextTask
<1>3. BlockDim(kernel) \in Nat \ {0} /\ task[c] \in Nat
  BY <1>1, BlockFacts
<1>4. task'[c] % BlockDim(kernel) = task[c] % BlockDim(kernel)
  <2>1. (task[c] + BlockDim(kernel)) % BlockDim(kernel) = task[c] % BlockDim(kernel)
    BY <1>3, ModFacts
  <2>2. task'[c] = task[c] + BlockDim(kernel)
    BY <1>1, <1>2
  <2> QED BY <2>1, <2>2
<1>5. ASSUME NEW d \in Cores, d < BlockDim(kernel)
      PROVE  task'[d] % BlockDim(kernel) = d
  <2>1. task[d] % BlockDim(kernel) = d
    BY <1>1, <1>5 DEF TurnsKept
  <2>2. d # c => task'[d] = task[d]
    BY <1>1, <1>2
  <2> QED BY <1>4, <2>1, <2>2
<1> QED BY <1>2, <1>5 DEF TurnsKept, BlockDim, TaskCount

\* Every action of a core is one of the three kinds of step.
LEMMA StepKinds ==
    ASSUME TypeOK, BuffersFinal, NEW c \in Cores, CoreStep(c)
    PROVE  ComputeStep(c) \/ BurstStep(c) \/ SkipStep(c)
<1>0. ASSUME NEW n, Working(c, n)
      PROVE  kernel = n /\ Working(c, kernel) /\ task[c] \in Slots(TaskCount(kernel)) /\ kernel \in 1..4
  <2>1. kernel = n /\ Working(c, kernel)
    BY <1>0 DEF Working
  <2> QED BY <2>1, WorkingFacts DEF TypeOK
<1>1. ASSUME NEW target, NEW result, Computed(c, result, target), NEW n, Working(c, n),
             pc[c] = "in", result = TaskResult(kernel, task[c]), target \in TensorsOf(kernel, task[c]),
             \A l \in TensorsOf(kernel, task[c]) :
                IsFirst(l) /\ ~IsFirst(target) => DOMAIN DataFor(l, result) = {}
      PROVE  ComputeStep(c)
  BY <1>0, <1>1 DEF Computed, ComputeStep, MemoryStays, inputs, workspaces
<1>2. \A S, row : Cardinality(S) = 0 => DOMAIN CompactRight(S, row) = {} /\ DOMAIN CompactLeft(S, row) = {}
  BY DEF CompactRight, CompactLeft, Slots
<1>3. CASE HitLocalCompute(c)
  <2>1. /\ Working(c, 1) /\ pc[c] = "in"
        /\ Computed(c, HitLocalResult(task[c]), "hitBitmap")
    BY <1>3 DEF HitLocalCompute
  <2>2. HitLocalResult(task[c]) = TaskResult(kernel, task[c])
    BY <1>0, <2>1 DEF TaskResult
  <2>3. "hitBitmap" \in TensorsOf(kernel, task[c]) /\ IsFirst("hitBitmap")
    BY <1>0, <2>1 DEF TensorsOf, IsFirst
  <2> QED BY <1>1, <2>1, <2>2, <2>3
<1>4. CASE CandidateLocalCompute(c)
  <2> DEFINE result == CandidateResult(task[c])
             target == IF result.counts[0] > 0 THEN "candidateValues" ELSE "candidateCounts"
             here   == Unhit(RowOf(2, task[c]), LocalTask(2, task[c]))
  <2>1. Working(c, 2) /\ pc[c] = "in" /\ Computed(c, result, target)
    BY <1>4 DEF CandidateLocalCompute
  <2>2. result = TaskResult(kernel, task[c])
    BY <1>0, <2>1 DEF TaskResult
  <2>3. TensorsOf(kernel, task[c]) = {"candidateValues", "candidateCounts"}
    BY <1>0, <2>1 DEF TensorsOf
  <2>4. /\ result.counts[0] = Cardinality(here)
        /\ result.values = CompactRight(here, lru[RowOf(2, task[c])])
    BY DEF CandidateResult, Result, One
  <2>5. Cardinality(here) \in Nat
    <3>1. task[c] \in Nat /\ task[c] < TaskCount(2)
      BY <1>0, <2>1, TaskRow
    <3> HIDE DEF here
    <3>2. IsFiniteSet(here)
      BY <3>1, CandidateOK DEF here
    <3> QED BY <3>2, FS_CardinalityType
  <2> HIDE DEF result, here
  <2>6. \A l \in TensorsOf(kernel, task[c]) :
           IsFirst(l) /\ ~IsFirst(target) => DOMAIN DataFor(l, result) = {}
    <3>1. CASE result.counts[0] > 0
      BY <3>1 DEF IsFirst
    <3>2. CASE ~(result.counts[0] > 0)
      <4>1. DOMAIN result.values = {}
        BY <1>2, <2>4, <2>5, <3>2
      <4> QED BY <2>3, <4>1 DEF IsFirst, DataFor, CountLabels
    <3> QED BY <3>1, <3>2
  <2>7. target \in TensorsOf(kernel, task[c])
    BY <2>3
  <2> HIDE DEF target
  <2> QED BY <1>1, <2>1, <2>2, <2>6, <2>7
<1>5. CASE FillCompute(c)
  <2>1. /\ Working(c, 3) /\ pc[c] = "in" /\ FillsHits(task[c])
        /\ Computed(c, FillResult(task[c]), "hit")
    BY <1>5 DEF FillCompute
  <2>2. FillResult(task[c]) = TaskResult(kernel, task[c])
    BY <1>0, <2>1 DEF TaskResult
  <2>3. "hit" \in TensorsOf(kernel, task[c]) /\ IsFirst("hit")
    BY <1>0, <2>1 DEF TensorsOf, IsFirst
  <2> QED BY <1>1, <2>1, <2>2, <2>3
<1>6. CASE KeepCompute(c)
  <2> DEFINE result == KeepResult(task[c])
             target == IF result.counts[0] > 0 THEN "keepValues" ELSE "keepCounts"
             here   == Kept(RowOf(3, task[c]), KeepTileOf(task[c]))
  <2>1. Working(c, 3) /\ pc[c] = "in" /\ ~FillsHits(task[c]) /\ Computed(c, result, target)
    BY <1>6 DEF KeepCompute
  <2>2. result = TaskResult(kernel, task[c])
    BY <1>0, <2>1 DEF TaskResult
  <2>3. TensorsOf(kernel, task[c]) = {"keepValues", "keepCounts"}
    BY <1>0, <2>1 DEF TensorsOf
  <2>4. /\ result.counts[0] = Cardinality(here)
        /\ result.values = CompactLeft(here, lru[RowOf(3, task[c])])
    BY DEF KeepResult, Result, One
  <2>5. Cardinality(here) \in Nat
    <3>1. KeepTileOf(task[c]) \in Slots(lruTileCount)
      BY <1>0, <2>1, TaskRow, KeepTileFacts
    <3> QED BY <3>1, TileFinite, CardinalityNat DEF Kept, Unhit
  <2> HIDE DEF result, here
  <2>6. \A l \in TensorsOf(kernel, task[c]) :
           IsFirst(l) /\ ~IsFirst(target) => DOMAIN DataFor(l, result) = {}
    <3>1. CASE result.counts[0] > 0
      BY <3>1 DEF IsFirst
    <3>2. CASE ~(result.counts[0] > 0)
      <4>1. DOMAIN result.values = {}
        BY <1>2, <2>4, <2>5, <3>2
      <4> QED BY <2>3, <4>1 DEF IsFirst, DataFor, CountLabels
    <3> QED BY <3>1, <3>2
  <2>7. target \in TensorsOf(kernel, task[c])
    BY <2>3
  <2> HIDE DEF target
  <2> QED BY <1>1, <2>1, <2>2, <2>6, <2>7
<1>7. CASE KeepScan(c)
  <2>1. Working(c, 4) /\ pc[c] = "in" /\ Computed(c, ScanResult(task[c]), "newLru")
    BY <1>7 DEF KeepScan
  <2>2. ScanResult(task[c]) = TaskResult(kernel, task[c])
    BY <1>0, <2>1 DEF TaskResult
  <2>3. TensorsOf(kernel, task[c]) = {"newLru"} /\ ~IsFirst("newLru")
    BY <1>0, <2>1 DEF TensorsOf, IsFirst
  <2> QED BY <1>1, <2>1, <2>2, <2>3
<1>8. CASE KeepScanSkip(c)
  BY <1>0, <1>8 DEF KeepScanSkip, SkipStep, MemoryStays
<1>9. ASSUME pc[c] # "in"
      PROVE  /\ pc[c] \in TensorsOf(kernel, task[c])
             /\ \A rows : WriteValues(c, rows) = [rows EXCEPT
                             ![Row(c)] = CopyOut(@, ub[c].offset, ub[c].values)]
             /\ \A rows : WriteCounts(c, rows) = [rows EXCEPT
                             ![Row(c)] = CopyOut(@, ub[c].countOffset, ub[c].counts)]
  BY <1>9, BurstFacts DEF WriteValues, WriteCounts
<1>9a. ASSUME NEW l \in Labels \ {"in"}, pc[c] = l,
              \A other \in Labels \ {"in"} : other # l => Memory'[other] = Memory[other],
              Memory'[l] = IF l \in CountLabels THEN WriteCounts(c, Memory[l])
                           ELSE WriteValues(c, Memory[l])
       PROVE  Burst(c)
  BY <1>9, <1>9a DEF Burst, DataFor, PlaceFor, Labels
<1> USE DEF BurstStep, IsFirst, CountLabels
<1>10. CASE CopyOutBitmap(c)
  <2>1. Working(c, 1) /\ pc[c] = "hitBitmap" /\ Proceed(c, "hitCounts")
    BY <1>10 DEF CopyOutBitmap
  <2>2. Burst(c) /\ UNCHANGED inputs
    <3>1. /\ \A other \in Labels \ {"in"} : other # pc[c] => Memory'[other] = Memory[other]
          /\ Memory'[pc[c]] = IF pc[c] \in CountLabels THEN WriteCounts(c, Memory[pc[c]])
                              ELSE WriteValues(c, Memory[pc[c]])
          /\ pc[c] \in Labels \ {"in"}
      BY <1>10, <2>1, MemoryIs, MemoryNext DEF CopyOutBitmap, Labels, workspaces
    <3> QED BY <1>9a, <1>10, <3>1 DEF CopyOutBitmap
  <2>3. "hitCounts" \in TensorsOf(kernel, task[c])
    BY <1>0, <2>1 DEF TensorsOf
  <2> QED BY <1>0, <2>1, <2>2, <2>3
<1>11. CASE CopyOutHitCounts(c)
  <2>1. Working(c, 1) /\ pc[c] = "hitCounts" /\ NextTask(c)
    BY <1>11 DEF CopyOutHitCounts
  <2>2. Burst(c) /\ UNCHANGED inputs
    <3>1. /\ \A other \in Labels \ {"in"} : other # pc[c] => Memory'[other] = Memory[other]
          /\ Memory'[pc[c]] = IF pc[c] \in CountLabels THEN WriteCounts(c, Memory[pc[c]])
                              ELSE WriteValues(c, Memory[pc[c]])
          /\ pc[c] \in Labels \ {"in"}
      BY <1>11, <2>1, MemoryIs, MemoryNext DEF CopyOutHitCounts, Labels, workspaces
    <3> QED BY <1>9a, <1>11, <3>1 DEF CopyOutHitCounts
  <2> QED BY <1>0, <2>1, <2>2
<1>12. CASE CopyOutCandidateValues(c)
  <2>1. Working(c, 2) /\ pc[c] = "candidateValues" /\ Proceed(c, "candidateCounts")
    BY <1>12 DEF CopyOutCandidateValues
  <2>2. Burst(c) /\ UNCHANGED inputs
    <3>1. /\ \A other \in Labels \ {"in"} : other # pc[c] => Memory'[other] = Memory[other]
          /\ Memory'[pc[c]] = IF pc[c] \in CountLabels THEN WriteCounts(c, Memory[pc[c]])
                              ELSE WriteValues(c, Memory[pc[c]])
          /\ pc[c] \in Labels \ {"in"}
      BY <1>12, <2>1, MemoryIs, MemoryNext DEF CopyOutCandidateValues, Labels, workspaces
    <3> QED BY <1>9a, <1>12, <3>1 DEF CopyOutCandidateValues
  <2>3. "candidateCounts" \in TensorsOf(kernel, task[c])
    BY <1>0, <2>1 DEF TensorsOf
  <2> QED BY <1>0, <2>1, <2>2, <2>3
<1>13. CASE CopyOutCandidateCount(c)
  <2>1. Working(c, 2) /\ pc[c] = "candidateCounts" /\ NextTask(c)
    BY <1>13 DEF CopyOutCandidateCount
  <2>2. Burst(c) /\ UNCHANGED inputs
    <3>1. /\ \A other \in Labels \ {"in"} : other # pc[c] => Memory'[other] = Memory[other]
          /\ Memory'[pc[c]] = IF pc[c] \in CountLabels THEN WriteCounts(c, Memory[pc[c]])
                              ELSE WriteValues(c, Memory[pc[c]])
          /\ pc[c] \in Labels \ {"in"}
      BY <1>13, <2>1, MemoryIs, MemoryNext DEF CopyOutCandidateCount, Labels, workspaces
    <3> QED BY <1>9a, <1>13, <3>1 DEF CopyOutCandidateCount
  <2> QED BY <1>0, <2>1, <2>2
<1>14. CASE CopyOutHit(c)
  <2>1. Working(c, 3) /\ pc[c] = "hit" /\ Proceed(c, "newLru")
    BY <1>14 DEF CopyOutHit
  <2>2. Burst(c) /\ UNCHANGED inputs
    <3>1. /\ \A other \in Labels \ {"in"} : other # pc[c] => Memory'[other] = Memory[other]
          /\ Memory'[pc[c]] = IF pc[c] \in CountLabels THEN WriteCounts(c, Memory[pc[c]])
                              ELSE WriteValues(c, Memory[pc[c]])
          /\ pc[c] \in Labels \ {"in"}
      BY <1>14, <2>1, MemoryIs, MemoryNext DEF CopyOutHit, Labels, workspaces
    <3> QED BY <1>9a, <1>14, <3>1 DEF CopyOutHit
  <2>3. "newLru" \in TensorsOf(kernel, task[c])
    <3>1. kernel = 3 /\ FillsHits(task[c])
      BY <1>0, <2>1, BurstFacts
    <3> QED BY <3>1 DEF TensorsOf
  <2> QED BY <1>0, <2>1, <2>2, <2>3
<1>15. CASE CopyOutNewLruHead(c)
  <2>1. Working(c, 3) /\ pc[c] = "newLru" /\ NextTask(c)
    BY <1>15 DEF CopyOutNewLruHead
  <2>2. Burst(c) /\ UNCHANGED inputs
    <3>1. /\ \A other \in Labels \ {"in"} : other # pc[c] => Memory'[other] = Memory[other]
          /\ Memory'[pc[c]] = IF pc[c] \in CountLabels THEN WriteCounts(c, Memory[pc[c]])
                              ELSE WriteValues(c, Memory[pc[c]])
          /\ pc[c] \in Labels \ {"in"}
      BY <1>15, <2>1, MemoryIs, MemoryNext DEF CopyOutNewLruHead, Labels, workspaces
    <3> QED BY <1>9a, <1>15, <3>1 DEF CopyOutNewLruHead
  <2> QED BY <1>0, <2>1, <2>2
<1>16. CASE CopyOutKeepValues(c)
  <2>1. Working(c, 3) /\ pc[c] = "keepValues" /\ Proceed(c, "keepCounts")
    BY <1>16 DEF CopyOutKeepValues
  <2>2. Burst(c) /\ UNCHANGED inputs
    <3>1. /\ \A other \in Labels \ {"in"} : other # pc[c] => Memory'[other] = Memory[other]
          /\ Memory'[pc[c]] = IF pc[c] \in CountLabels THEN WriteCounts(c, Memory[pc[c]])
                              ELSE WriteValues(c, Memory[pc[c]])
          /\ pc[c] \in Labels \ {"in"}
      BY <1>16, <2>1, MemoryIs, MemoryNext DEF CopyOutKeepValues, Labels, workspaces
    <3> QED BY <1>9a, <1>16, <3>1 DEF CopyOutKeepValues
  <2>3. "keepCounts" \in TensorsOf(kernel, task[c])
    <3>1. kernel = 3 /\ ~FillsHits(task[c])
      BY <1>0, <2>1, BurstFacts
    <3> QED BY <3>1 DEF TensorsOf
  <2> QED BY <1>0, <2>1, <2>2, <2>3
<1>17. CASE CopyOutKeepCount(c)
  <2>1. Working(c, 3) /\ pc[c] = "keepCounts" /\ NextTask(c)
    BY <1>17 DEF CopyOutKeepCount
  <2>2. Burst(c) /\ UNCHANGED inputs
    <3>1. /\ \A other \in Labels \ {"in"} : other # pc[c] => Memory'[other] = Memory[other]
          /\ Memory'[pc[c]] = IF pc[c] \in CountLabels THEN WriteCounts(c, Memory[pc[c]])
                              ELSE WriteValues(c, Memory[pc[c]])
          /\ pc[c] \in Labels \ {"in"}
      BY <1>17, <2>1, MemoryIs, MemoryNext DEF CopyOutKeepCount, Labels, workspaces
    <3> QED BY <1>9a, <1>17, <3>1 DEF CopyOutKeepCount
  <2> QED BY <1>0, <2>1, <2>2
<1>18. CASE CopyOutNewLruTail(c)
  <2>1. Working(c, 4) /\ pc[c] = "newLru" /\ NextTask(c)
    BY <1>18 DEF CopyOutNewLruTail
  <2>2. Burst(c) /\ UNCHANGED inputs
    <3>1. /\ \A other \in Labels \ {"in"} : other # pc[c] => Memory'[other] = Memory[other]
          /\ Memory'[pc[c]] = IF pc[c] \in CountLabels THEN WriteCounts(c, Memory[pc[c]])
                              ELSE WriteValues(c, Memory[pc[c]])
          /\ pc[c] \in Labels \ {"in"}
      BY <1>18, <2>1, MemoryIs, MemoryNext DEF CopyOutNewLruTail, Labels, workspaces
    <3> QED BY <1>9a, <1>18, <3>1 DEF CopyOutNewLruTail
  <2> QED BY <1>0, <2>1, <2>2
<1> QED
  BY <1>3, <1>4, <1>5, <1>6, <1>7, <1>8, <1>10, <1>11, <1>12, <1>13, <1>14, <1>15,
     <1>16, <1>17, <1>18 DEF CoreStep

------------------------------------------------------------------------------
\* The invariant is inductive.

LEMMA InitPlanInv == Init => PlanInv
<1> SUFFICES ASSUME Init PROVE PlanInv
  OBVIOUS
<1>1. TypeOK
  BY InitTypeOK
<1>2. kernel = 1 /\ task = [c \in Cores |-> c] /\ pc = [c \in Cores |-> "in"] /\ hit = hitIn
  BY DEF Init
<1>3. TurnsKept
  <2>1. \A c \in Cores : c \in Nat
    BY ShapeAssumption DEF Slots
  <2>2. BlockDim(1) \in Nat \ {0}
    BY BlockFacts
  <2> QED BY <1>2, <2>1, <2>2, ModFacts DEF TurnsKept
<1>4. BuffersFinal
  BY <1>2 DEF BuffersFinal
<1>5. TasksSettled
  <2> SUFFICES ASSUME NEW n \in 1..4, NEW t \in Slots(TaskCount(n)), Completed(n, t) PROVE FALSE
    BY DEF TasksSettled
  <2>1. n = 1 /\ t < task[t % BlockDim(1)]
    BY <1>2 DEF Completed
  <2>2. t \in Nat /\ BlockDim(1) \in Nat \ {0}
    BY <2>1, TaskRow, BlockFacts
  <2>3. t % BlockDim(1) \in Cores /\ t % BlockDim(1) <= t
    <3>1. t % BlockDim(1) \in Cores
      BY <2>2, BlockFacts
    <3>2. t % BlockDim(1) <= t
      BY <2>2
    <3> QED BY <3>1, <3>2
  <2>4. task[t % BlockDim(1)] = t % BlockDim(1) /\ t % BlockDim(1) \in Nat
    BY <1>2, <2>3, ShapeAssumption DEF Slots
  <2> QED BY <2>1, <2>2, <2>3, <2>4
<1>6. HitSettles
  BY <1>2 DEF HitSettles
<1> QED BY <1>1, <1>3, <1>4, <1>5, <1>6 DEF PlanInv

\* Memory that stays holds what it held.
LEMMA HoldsStable ==
    ASSUME MemoryStays
    PROVE  \A n, t, l : Holds(n, t, l)' = Holds(n, t, l)
<1>1. \A n, t : Final(n, t)' = Final(n, t)
  BY FinalStable DEF MemoryStays
<1>2. Memory' = Memory
  BY DEF MemoryStays, Memory, workspaces
<1> QED BY <1>1, <1>2 DEF Holds

LEMMA HitSettlesStable ==
    ASSUME MemoryStays, HitSettles, kernel' = kernel
    PROVE  HitSettles'
<1>1. \A b : FillAt(b)' = FillAt(b)
  BY FinalStable DEF MemoryStays
<1> QED BY <1>1 DEF MemoryStays, HitSettles, inputs

LEMMA ComputeStepInv ==
    ASSUME PlanInv, NEW c \in Cores, ComputeStep(c)
    PROVE  TurnsKept' /\ BuffersFinal' /\ TasksSettled' /\ HitSettles'
<1>1. /\ kernel' = kernel /\ task' = task /\ MemoryStays
      /\ ub' = [ub EXCEPT ![c] = TaskResult(kernel, task[c])]
  BY DEF ComputeStep
<1>2. PICK target \in TensorsOf(kernel, task[c]) :
         /\ pc' = [pc EXCEPT ![c] = target]
         /\ \A l \in TensorsOf(kernel, task[c]) : IsFirst(l) /\ ~IsFirst(target)
               => DOMAIN DataFor(l, TaskResult(kernel, task[c])) = {}
  BY DEF ComputeStep
<1>3. kernel \in 1..4 /\ task[c] \in Slots(TaskCount(kernel))
  BY WorkingFacts DEF ComputeStep, PlanInv, TypeOK
<1>4. TaskResult(kernel, task[c]) = Final(kernel, task[c])
  BY <1>3, ResultIsFinal DEF PlanInv, TypeOK
<1>5. /\ \A n, t : Final(n, t)' = Final(n, t)
      /\ \A n, t, l : Holds(n, t, l)' = Holds(n, t, l)
  BY <1>1, HoldsStable, FinalStable DEF MemoryStays
<1>6. TurnsKept'
  BY <1>1 DEF PlanInv, TurnsKept, BlockDim, TaskCount
<1>7. BuffersFinal'
  <2> SUFFICES ASSUME NEW d \in Cores, pc'[d] # "in"
               PROVE  /\ ub'[d] = Final(kernel, task[d])
                      /\ pc'[d] \in TensorsOf(kernel, task[d])
                      /\ \A l \in TensorsOf(kernel, task[d]) : IsFirst(l) /\ ~IsFirst(pc'[d])
                            => Holds(kernel, task[d], l)
    BY <1>1, <1>5 DEF BuffersFinal
  <2>1. DOMAIN pc = Cores /\ DOMAIN ub = Cores
    BY DEF PlanInv, TypeOK, ControlOK
  <2>2. CASE d # c
    BY <1>1, <1>2, <2>1, <2>2 DEF PlanInv, BuffersFinal
  <2>3. CASE d = c
    <3>1. ub'[c] = Final(kernel, task[c]) /\ pc'[c] = target
      BY <1>1, <1>2, <1>4, <2>1
    <3>2. ASSUME NEW l \in TensorsOf(kernel, task[c]), IsFirst(l), ~IsFirst(target)
          PROVE  Holds(kernel, task[c], l)
      BY <1>2, <1>4, <3>2 DEF Holds
    <3> QED BY <1>2, <2>3, <3>1, <3>2
  <2> QED BY <2>2, <2>3
<1>8. TasksSettled'
  BY <1>1, <1>5 DEF PlanInv, TasksSettled, Completed
<1>9. HitSettles'
  BY <1>1, HitSettlesStable DEF PlanInv
<1> QED BY <1>6, <1>7, <1>8, <1>9

LEMMA BurstStepInv ==
    ASSUME PlanInv, NEW c \in Cores, BurstStep(c)
    PROVE  TurnsKept' /\ BuffersFinal' /\ TasksSettled' /\ HitSettles'
<1> DEFINE u == task[c]
<1>0. TypeOK /\ TurnsKept /\ BuffersFinal /\ TasksSettled /\ HitSettles
  BY DEF PlanInv
<1>1. pc[c] # "in" /\ Working(c, kernel) /\ Burst(c) /\ UNCHANGED inputs
  BY DEF BurstStep
<1>2. /\ kernel \in 1..4 /\ u \in Slots(TaskCount(kernel)) /\ Row(c) \in Rows
      /\ ub[c] = Final(kernel, u) /\ pc[c] \in TensorsOf(kernel, u) /\ pc[c] \in Labels \ {"in"}
  BY <1>0, <1>1, BurstFacts
<1>3. /\ \A n, t : Final(n, t)' = Final(n, t)
      /\ \A b : FillAt(b)' = FillAt(b)
  BY <1>1, FinalStable
<1>4. ASSUME NEW n \in 1..4, NEW t \in Slots(TaskCount(n)), NEW l \in TensorsOf(n, t),
             Holds(n, t, l) \/ (n = kernel /\ t = u /\ l = pc[c])
      PROVE  Holds(n, t, l)'
  BY <1>0, <1>1, <1>4, BurstHolds
<1>5. DOMAIN pc = Cores /\ DOMAIN ub = Cores /\ DOMAIN task = Cores
  BY <1>0 DEF TypeOK, ControlOK
<1>6. kernel' = kernel
  BY DEF BurstStep, Proceed, NextTask
<1>7. ASSUME NEW d \in Cores, d # c, pc'[d] # "in", pc'[d] = pc[d], ub'[d] = ub[d], task'[d] = task[d]
      PROVE  /\ ub'[d] = Final(kernel, task[d])'
             /\ pc'[d] \in TensorsOf(kernel, task[d])'
             /\ \A l \in TensorsOf(kernel, task[d])' : IsFirst(l) /\ ~IsFirst(pc'[d])
                   => Holds(kernel, task[d], l)'
  <2>1. /\ ub[d] = Final(kernel, task[d]) /\ pc[d] \in TensorsOf(kernel, task[d])
        /\ \A l \in TensorsOf(kernel, task[d]) : IsFirst(l) /\ ~IsFirst(pc[d])
              => Holds(kernel, task[d], l)
    BY <1>0, <1>7 DEF BuffersFinal
  <2>2. task[d] \in Slots(TaskCount(kernel))
    BY <1>0, <1>7, BurstFacts
  <2>3. \A l \in TensorsOf(kernel, task[d]) : Holds(kernel, task[d], l) => Holds(kernel, task[d], l)'
    <3> DEFINE v == task[d]
    <3>1. v \in Slots(TaskCount(kernel)) /\ kernel \in 1..4 /\ kernel' = kernel /\ task'[d] = v
      BY <1>2, <1>6, <1>7, <2>2
    <3>2. \A n \in 1..4 : \A t \in Slots(TaskCount(n)) : \A l \in TensorsOf(n, t) :
             Holds(n, t, l) => Holds(n, t, l)'
      BY <1>4
    <3>3. \A n, t, l : n = kernel /\ t = v => (Holds(kernel, task[d], l)' <=> Holds(n, t, l)')
      BY <3>1 DEF Holds, Final
    <3> QED BY <3>1, <3>2, <3>3
  <2>4. TensorsOf(kernel, task[d])' = TensorsOf(kernel, task[d])
    BY <1>6, <1>7 DEF TensorsOf, FillsHits
  <2>5. Final(kernel, task[d])' = Final(kernel, task[d])
    <3>1. \A n, t : n = kernel /\ t = task[d] => Final(kernel, task[d])' = Final(n, t)'
      BY <1>6, <1>7 DEF Final
    <3> QED BY <1>3, <3>1
  <2> QED BY <1>7, <2>1, <2>3, <2>4, <2>5
<1>8. \A n \in 1..4 : \A t \in Slots(TaskCount(n)) : \A l \in TensorsOf(n, t) :
         Holds(n, t, l) \/ (n = kernel /\ t = u /\ l = pc[c]) => Holds(n, t, l)'
  BY <1>4
<1>9. HitSettles'
  <2>1. CASE pc[c] # "hit"
    <3>1. Memory'["hit"] = Memory["hit"]
      BY <1>1, <2>1 DEF Burst, Labels
    <3>2. hit' = hit /\ hitIn' = hitIn
      BY <1>1, <3>1, MemoryIs, MemoryNext DEF inputs
    <3> QED BY <1>0, <1>3, <1>6, <3>2 DEF HitSettles
  <2>2. CASE pc[c] = "hit"
    <3>1. kernel = 3 /\ FillsHits(u)
      BY <1>0, <1>1, <2>2, BurstFacts
    <3>2. ASSUME NEW b \in Rows, NEW i \in HitSlots
          PROVE  hit'[b][i] \in {hit[b][i], FillAt(b)[i]}
      <4> DEFINE ht    == LocalTask(3, u)
                 start == ht * hitTileLength
                 data  == [p \in Slots(Cardinality(HitTile(ht))) |-> FillAt(RowOf(3, u))[start + p]]
      <4>1. ub[c] = Result(data, start, <<>>, 0) /\ Row(c) = RowOf(3, u)
        BY <1>2, <3>1, FinalIs DEF Row
      <4>2. PlaceFor("hit", ub[c]) = start /\ DataFor("hit", ub[c]) = data
        BY <4>1 DEF PlaceFor, DataFor, CountLabels, Result
      <4>3. hit'[b][i] = IF b = Row(c) /\ i - start \in DOMAIN data THEN data[i - start] ELSE hit[b][i]
        <5>1. "hit" \in Labels \ {"in"} /\ i \in Slots(RowLength["hit"])
          BY RowLengths DEF Labels
        <5>2. Memory'["hit"][b][i] =
                 IF b = Row(c) /\ i - PlaceFor("hit", ub[c]) \in DOMAIN DataFor("hit", ub[c])
                 THEN DataFor("hit", ub[c])[i - PlaceFor("hit", ub[c])]
                 ELSE Memory["hit"][b][i]
          BY <1>0, <1>1, <1>2, <2>2, <5>1, CellAfterBurst DEF TypeOK
        <5> HIDE DEF start, data
        <5> QED BY <4>2, <5>2, MemoryIs, MemoryNext
      <4>4. CASE b = Row(c) /\ i - start \in DOMAIN data
        <5>1. ht \in Slots(hitTileCount)
          <6>1. u \in Nat /\ LocalTask(3, u) \in Slots(TasksOfRow(3))
            BY <1>2, <3>1, TaskRow
          <6> QED BY <3>1, <6>1, ShapeFacts DEF FillsHits, Slots, TasksOfRow
        <5>2. start \in Nat /\ i \in Int
          <6>1. start \in Nat
            BY <5>1, HitTileFacts
          <6> QED BY <6>1, ShapeAssumption DEF Slots
        <5>3. start + (i - start) = i
          <6> HIDE DEF start
          <6> QED BY <5>2
        <5>4. data[i - start] = FillAt(RowOf(3, u))[start + (i - start)]
          BY <4>4
        <5> HIDE DEF start, data, ht
        <5> QED BY <4>1, <4>3, <4>4, <5>3, <5>4
      <4> HIDE DEF start, data, ht
      <4> QED BY <4>3, <4>4
    <3>3. ASSUME NEW b \in Rows, NEW i \in HitSlots
          PROVE  hit'[b][i] \in {hitIn'[b][i], FillAt(b)'[i]}
      <4>1. hit[b][i] \in {hitIn[b][i], FillAt(b)[i]}
        BY <1>0 DEF HitSettles
      <4>2. hitIn' = hitIn
        BY <1>1 DEF inputs
      <4> QED BY <1>3, <3>2, <4>1, <4>2
    <3>4. ~(kernel' < 3)
      BY <1>6, <3>1
    <3> QED BY <3>3, <3>4 DEF HitSettles
  <2> QED BY <2>1, <2>2
<1>10. CASE IsFirst(pc[c])
  <2>1. PICK target \in TensorsOf(kernel, u) : ~IsFirst(target) /\ Proceed(c, target)
    BY <1>10 DEF BurstStep
  <2>2. task' = task /\ ub' = ub /\ pc' = [pc EXCEPT ![c] = target]
    BY <2>1 DEF Proceed
  <2>3. TurnsKept'
    BY <1>0, <1>6, <2>2 DEF TurnsKept, BlockDim, TaskCount
  <2>4. TasksSettled'
    <3>1. \A n, t : Completed(n, t)' = Completed(n, t) /\ TensorsOf(n, t)' = TensorsOf(n, t)
                    /\ TaskCount(n)' = TaskCount(n)
      BY <1>6, <2>2 DEF Completed, TensorsOf, TaskCount, BlockDim
    <3> QED BY <1>0, <1>8, <3>1 DEF TasksSettled
  <2>5. \A l \in TensorsOf(kernel, u) : IsFirst(l) => l = pc[c]
    BY <1>2, <1>10 DEF TensorsOf, IsFirst
  <2>6. BuffersFinal'
    <3> SUFFICES ASSUME NEW d \in Cores, pc'[d] # "in"
                 PROVE  /\ ub'[d] = Final(kernel, task[d])'
                        /\ pc'[d] \in TensorsOf(kernel, task[d])'
                        /\ \A l \in TensorsOf(kernel, task[d])' : IsFirst(l) /\ ~IsFirst(pc'[d])
                              => Holds(kernel, task[d], l)'
      BY DEF BuffersFinal
    <3>1. CASE d # c
      BY <1>5, <1>7, <2>2, <3>1
    <3>2. CASE d = c
      <4>1. pc'[d] = target /\ ub'[d] = Final(kernel, u)
        BY <1>2, <1>5, <2>2, <3>2
      <4>2. TensorsOf(kernel, task[d])' = TensorsOf(kernel, u)
        BY <1>6, <2>2, <3>2 DEF TensorsOf
      <4>3. Final(kernel, task[d])' = Final(kernel, u)
        <5>1. \A n, t : n = kernel /\ t = u => Final(kernel, task[d])' = Final(n, t)'
          BY <1>6, <2>2, <3>2 DEF Final
        <5> QED BY <1>3, <5>1
      <4>4. ASSUME NEW l \in TensorsOf(kernel, u), IsFirst(l) PROVE Holds(kernel, task[d], l)'
        <5>1. \A n, t : n = kernel /\ t = u => (Holds(kernel, task[d], l)' <=> Holds(n, t, l)')
          BY <1>6, <2>2, <3>2 DEF Holds, Final
        <5>2. \A n, t : n = kernel /\ t = u => Holds(n, t, l)'
          BY <1>2, <1>8, <2>5, <4>4
        <5> QED BY <5>1, <5>2
      <4> QED BY <2>1, <3>2, <4>1, <4>2, <4>3, <4>4
    <3> QED BY <3>1, <3>2
  <2> QED BY <1>9, <2>3, <2>4, <2>6
<1>11. CASE ~IsFirst(pc[c])
  <2>1. NextTask(c)
    BY <1>11 DEF BurstStep
  <2>2. TurnsKept'
    BY <1>0, <1>1, <2>1, TurnsNext
  <2>3. TasksSettled'
    <3> SUFFICES ASSUME NEW n \in 1..4, NEW t \in Slots(TaskCount(n)), Completed(n, t)',
                        NEW l \in TensorsOf(n, t)
                 PROVE  Holds(n, t, l)'
      BY DEF TasksSettled, TaskCount, TensorsOf
    <3>1. Completed(n, t) \/ (n = kernel /\ t = u)
      BY <1>0, <1>1, <2>1, CompletedNext
    <3>2. CASE Completed(n, t)
      BY <1>0, <1>8, <3>2 DEF TasksSettled
    <3>3. CASE n = kernel /\ t = u
      <4>1. IsFirst(l) => Holds(n, t, l)
        BY <1>0, <1>1, <1>11, <3>3 DEF BuffersFinal
      <4>2. ~IsFirst(l) => l = pc[c]
        BY <1>2, <1>11, <3>3 DEF TensorsOf, IsFirst
      <4> QED BY <1>8, <3>3, <4>1, <4>2
    <3> QED BY <3>1, <3>2, <3>3
  <2>4. BuffersFinal'
    <3> SUFFICES ASSUME NEW d \in Cores, pc'[d] # "in"
                 PROVE  /\ ub'[d] = Final(kernel, task[d])'
                        /\ pc'[d] \in TensorsOf(kernel, task[d])'
                        /\ \A l \in TensorsOf(kernel, task[d])' : IsFirst(l) /\ ~IsFirst(pc'[d])
                              => Holds(kernel, task[d], l)'
      BY DEF BuffersFinal
    <3>1. d # c /\ pc'[d] = pc[d] /\ ub'[d] = ub[d] /\ task'[d] = task[d]
      BY <1>5, <2>1 DEF NextTask
    <3> QED BY <1>7, <3>1
  <2> QED BY <1>9, <2>2, <2>3, <2>4
<1> QED BY <1>10, <1>11

LEMMA SkipStepInv ==
    ASSUME PlanInv, NEW c \in Cores, SkipStep(c)
    PROVE  TurnsKept' /\ BuffersFinal' /\ TasksSettled' /\ HitSettles'
<1> DEFINE u == task[c]
<1>0. TypeOK /\ TurnsKept /\ BuffersFinal /\ TasksSettled /\ HitSettles
  BY DEF PlanInv
<1>1. /\ Working(c, kernel) /\ pc[c] = "in" /\ kernel = 4 /\ NextTask(c) /\ MemoryStays
      /\ keepCounts[Row(c)][LocalTask(4, u)] <= 0
  BY DEF SkipStep
<1>2. kernel \in 1..4 /\ u \in Slots(TaskCount(kernel)) /\ Row(c) \in Rows
  BY <1>0, <1>1, WorkingFacts DEF TypeOK
<1>3. /\ \A n, t : Final(n, t)' = Final(n, t)
      /\ \A n, t, l : Holds(n, t, l)' = Holds(n, t, l)
  BY <1>1, HoldsStable, FinalStable DEF MemoryStays
<1>4. TurnsKept'
  BY <1>0, <1>1, TurnsNext
<1>5. HitSettles'
  BY <1>0, <1>1, HitSettlesStable DEF NextTask
<1>6. Holds(4, u, "newLru")
  <2> DEFINE lt   == LocalTask(4, u)
             b    == RowOf(4, u)
             here == StayAt(b) \cap LruTile(lt)
  <2>1. b = Row(c) /\ b \in Rows /\ lt \in Slots(lruTileCount)
    BY <1>1, <1>2, TaskRow DEF Row, TasksOfRow
  <2>2. KeepsReady(b)
    <3> HIDE DEF b
    <3> QED BY <1>0, <1>1, <2>1, MaterializeDone
  <2>3. keepCounts[b][lt] = Cardinality(here)
    BY <2>1, <2>2 DEF KeepsReady
  <2>4. Cardinality(here) \in Nat
    <3>1. here \subseteq LruTile(lt) /\ IsFiniteSet(LruTile(lt))
      BY <2>1, TileFinite
    <3> HIDE DEF here
    <3> QED BY <3>1, CardinalityNat
  <2>5. Cardinality(here) = 0
    <3> HIDE DEF here, lt, b
    <3> QED BY <1>1, <2>1, <2>3, <2>4 DEF lt
  <2>6. DOMAIN CompactLeft(here, lru[b]) = {}
    <3> HIDE DEF here
    <3> QED BY <2>5 DEF CompactLeft, Slots
  <2>7. Final(4, u) = Result(CompactLeft(here, lru[b]),
                             k + Cardinality(Below(StayAt(b), lt * lruTileLength)), <<>>, 0)
    BY FinalIs
  <2>8. DOMAIN DataFor("newLru", Final(4, u)) = {}
    <3> HIDE DEF here, lt, b
    <3> QED BY <2>6, <2>7 DEF DataFor, CountLabels, Result
  <2> QED BY <2>8 DEF Holds
<1>7. TasksSettled'
  <2> SUFFICES ASSUME NEW n \in 1..4, NEW t \in Slots(TaskCount(n)), Completed(n, t)',
                      NEW l \in TensorsOf(n, t)
               PROVE  Holds(n, t, l)
    BY <1>3 DEF TasksSettled, TaskCount, TensorsOf
  <2>1. Completed(n, t) \/ (n = kernel /\ t = u)
    BY <1>0, <1>1, CompletedNext
  <2>2. CASE Completed(n, t)
    BY <1>0, <2>2 DEF TasksSettled
  <2>3. CASE n = kernel /\ t = u
    BY <1>1, <1>6, <2>3 DEF TensorsOf
  <2> QED BY <2>1, <2>2, <2>3
<1>8. BuffersFinal'
  <2> SUFFICES ASSUME NEW d \in Cores, pc'[d] # "in"
               PROVE  /\ ub'[d] = Final(kernel, task[d])'
                      /\ pc'[d] \in TensorsOf(kernel, task[d])'
                      /\ \A l \in TensorsOf(kernel, task[d])' : IsFirst(l) /\ ~IsFirst(pc'[d])
                            => Holds(kernel, task[d], l)'
    BY DEF BuffersFinal
  <2>1. DOMAIN pc = Cores /\ DOMAIN ub = Cores /\ DOMAIN task = Cores
    BY <1>0 DEF TypeOK, ControlOK
  <2>2. d # c /\ pc'[d] = pc[d] /\ ub'[d] = ub[d] /\ task'[d] = task[d] /\ kernel' = kernel
    BY <1>1, <2>1 DEF NextTask
  <2>3. Final(kernel, task[d])' = Final(kernel, task[d])
    <3>1. \A n, t : n = kernel /\ t = task[d] => Final(kernel, task[d])' = Final(n, t)'
      BY <2>2 DEF Final
    <3> QED BY <1>3, <3>1
  <2>4. TensorsOf(kernel, task[d])' = TensorsOf(kernel, task[d])
    BY <2>2 DEF TensorsOf, FillsHits
  <2>5. \A l : Holds(kernel, task[d], l)' = Holds(kernel, task[d], l)
    <3> SUFFICES ASSUME NEW l PROVE Holds(kernel, task[d], l)' = Holds(kernel, task[d], l)
      OBVIOUS
    <3>1. \A n, t : n = kernel /\ t = task[d] => Holds(kernel, task[d], l)' = Holds(n, t, l)'
      BY <2>2 DEF Holds, Final
    <3>2. Holds(kernel, task[d], l)' = Holds(kernel, task[d], l)
      BY <1>3, <3>1
    <3> QED BY <3>2
  <2>6. /\ ub[d] = Final(kernel, task[d]) /\ pc[d] \in TensorsOf(kernel, task[d])
        /\ \A l \in TensorsOf(kernel, task[d]) : IsFirst(l) /\ ~IsFirst(pc[d])
              => Holds(kernel, task[d], l)
    BY <1>0, <2>2 DEF BuffersFinal
  <2> QED BY <2>2, <2>3, <2>4, <2>5, <2>6
<1> QED BY <1>4, <1>5, <1>7, <1>8

\* The next kernel starts only when every task of the last one is completed.
LEMMA LaunchInv ==
    ASSUME PlanInv, LaunchNext
    PROVE  TurnsKept' /\ BuffersFinal' /\ TasksSettled' /\ HitSettles'
<1>0. TypeOK /\ TurnsKept /\ BuffersFinal /\ TasksSettled /\ HitSettles
  BY DEF PlanInv
<1>1. /\ kernel \in 1..4 /\ kernel' = kernel + 1 /\ task' = [c \in Cores |-> c]
      /\ pc' = pc /\ MemoryStays /\ \A c \in Cores : ~Working(c, kernel)
  BY <1>0 DEF LaunchNext, MemoryStays, TypeOK, ControlOK
<1>2. /\ \A n, t : Final(n, t)' = Final(n, t)
      /\ \A n, t, l : Holds(n, t, l)' = Holds(n, t, l)
  BY <1>1, HoldsStable, FinalStable DEF MemoryStays
<1>3. BuffersFinal'
  BY <1>0, <1>1 DEF BuffersFinal, TypeOK, ControlOK
<1>4. HitSettles'
  <2>1. \A b : FillAt(b)' = FillAt(b)
    BY <1>1, FinalStable DEF MemoryStays
  <2> QED BY <1>0, <1>1, <2>1 DEF HitSettles, MemoryStays, inputs
<1>5. TurnsKept'
  <2> SUFFICES ASSUME kernel' < 5, NEW c \in Cores, c < BlockDim(kernel')
               PROVE  task'[c] % BlockDim(kernel') = c
    BY DEF TurnsKept, BlockDim, TaskCount
  <2>1. kernel' \in 1..4 /\ c \in Nat /\ task'[c] = c
    BY <1>1, ShapeAssumption DEF Slots
  <2>2. BlockDim(kernel') \in Nat \ {0}
    BY <2>1, BlockFacts
  <2> QED BY <2>1, <2>2, ModFacts
<1>6. TasksSettled'
  <2> SUFFICES ASSUME NEW n \in 1..4, NEW t \in Slots(TaskCount(n)), Completed(n, t)',
                      NEW l \in TensorsOf(n, t)
               PROVE  Holds(n, t, l)
    BY <1>2 DEF TasksSettled, TaskCount, TensorsOf
  <2>1. /\ t \in Nat /\ t < TaskCount(n) /\ BlockDim(n) \in Nat \ {0}
        /\ t % BlockDim(n) \in Cores /\ t % BlockDim(n) < BlockDim(n)
    BY TaskRow, BlockFacts
  <2>2. n <= kernel
    <3> SUFFICES ASSUME ~(n <= kernel) PROVE FALSE
      OBVIOUS
    <3>1. n = kernel' /\ t < task'[t % BlockDim(n)]
      BY <1>1 DEF Completed, BlockDim, TaskCount
    <3>2. task'[t % BlockDim(n)] = t % BlockDim(n)
      BY <1>1, <2>1
    <3>3. t % BlockDim(n) <= t /\ t % BlockDim(n) \in Nat
      BY <2>1
    <3> QED BY <2>1, <3>1, <3>2, <3>3
  <2>3. Completed(n, t)
    <3>1. CASE n < kernel
      BY <3>1 DEF Completed
    <3>2. CASE n = kernel
      <4>1. ~Working(t % BlockDim(n), kernel)
        BY <1>1, <2>1
      <4>2. ~(task[t % BlockDim(n)] < TaskCount(n))
        BY <2>1, <3>2, <4>1 DEF Working
      <4>3. task[t % BlockDim(n)] \in Nat /\ TaskCount(n) \in Nat
        BY <1>0, <2>1, TaskFacts DEF TypeOK, ControlOK
      <4>4. t < task[t % BlockDim(n)]
        BY <2>1, <4>2, <4>3
      <4> QED BY <3>2, <4>4 DEF Completed
    <3> QED BY <1>1, <2>2, <3>1, <3>2
  <2> QED BY <1>0, <2>3 DEF TasksSettled
<1> QED BY <1>3, <1>4, <1>5, <1>6

LEMMA StepPlanInv == PlanInv /\ [Next]_vars => PlanInv'
<1> SUFFICES ASSUME PlanInv, [Next]_vars PROVE PlanInv'
  OBVIOUS
<1>1. TypeOK'
  BY StepTypeOK DEF PlanInv
<1>2. CASE UNCHANGED vars
  <2>1. MemoryStays /\ UNCHANGED <<kernel, task, pc, ub>>
    BY <1>2 DEF vars, control, MemoryStays
  <2>2. /\ \A n, t : Final(n, t)' = Final(n, t)
        /\ \A n, t, l : Holds(n, t, l)' = Holds(n, t, l)
    BY <2>1, HoldsStable, FinalStable DEF MemoryStays
  <2>3. TurnsKept'
    BY <2>1 DEF PlanInv, TurnsKept, BlockDim, TaskCount
  <2>4. BuffersFinal'
    BY <2>1, <2>2 DEF PlanInv, BuffersFinal
  <2>5. TasksSettled'
    BY <2>1, <2>2 DEF PlanInv, TasksSettled, Completed
  <2>6. HitSettles'
    BY <2>1, HitSettlesStable DEF PlanInv
  <2> QED BY <1>1, <2>3, <2>4, <2>5, <2>6 DEF PlanInv
<1>3. CASE LaunchNext
  BY <1>1, <1>3, LaunchInv DEF PlanInv
<1>4. ASSUME NEW c \in Cores, CoreStep(c) PROVE PlanInv'
  <2>1. ComputeStep(c) \/ BurstStep(c) \/ SkipStep(c)
    BY <1>4, StepKinds DEF PlanInv
  <2> QED BY <1>1, <2>1, ComputeStepInv, BurstStepInv, SkipStepInv DEF PlanInv
<1>5. CASE Finished
  BY <1>2, <1>5 DEF Finished
<1> QED BY <1>2, <1>3, <1>4, <1>5 DEF Next

\* Every core that copies out copies out the final result of its task, and every task that
\* is completed has left its final results in memory, where no later step disturbs them.
THEOREM PlanInvariant == Spec => []PlanInv
BY InitPlanInv, StepPlanInv, PTL DEF Spec

------------------------------------------------------------------------------
\* What follows from the invariant.

\* The cells a core is about to overwrite are cells of its task's region.
LEMMA PendingIs ==
    ASSUME TypeOK, BuffersFinal, NEW c \in Cores, NEW cell \in PendingCells(c)
    PROVE  /\ pc[c] # "in" /\ cell = <<pc[c], Row(c), cell[3]>>
           /\ cell[3] \in Region(kernel, task[c], pc[c])
<1>1. pc[c] # "in"
  BY DEF PendingCells
<1>2. /\ kernel \in 1..4 /\ task[c] \in Slots(TaskCount(kernel))
      /\ ub[c] = Final(kernel, task[c]) /\ pc[c] \in TensorsOf(kernel, task[c])
  BY <1>1, BurstFacts
<1>3. PICK i \in DOMAIN DataFor(pc[c], ub[c]) : cell = <<pc[c], Row(c), PlaceFor(pc[c], ub[c]) + i>>
  BY <1>1 DEF PendingCells, DataFor, PlaceFor, CountLabels
<1>4. PlaceFor(pc[c], ub[c]) + i \in Region(kernel, task[c], pc[c])
  BY <1>2, <1>3, CellInRegion DEF TypeOK
<1> QED BY <1>1, <1>3, <1>4

LEMMA InvBurstsInBounds == PlanInv => BurstsInBounds
<1> SUFFICES ASSUME PlanInv, NEW c \in Cores, NEW cell \in PendingCells(c)
             PROVE  cell[2] \in Rows /\ cell[3] \in Slots(RowLength[cell[1]])
  BY DEF BurstsInBounds
<1>1. /\ pc[c] # "in" /\ cell = <<pc[c], Row(c), cell[3]>>
      /\ cell[3] \in Region(kernel, task[c], pc[c])
  BY PendingIs DEF PlanInv
<1>2. /\ kernel \in 1..4 /\ task[c] \in Slots(TaskCount(kernel)) /\ Row(c) \in Rows
      /\ pc[c] \in TensorsOf(kernel, task[c])
  BY <1>1, BurstFacts DEF PlanInv
<1>3. cell[3] \in Slots(RowLength[pc[c]])
  BY <1>1, <1>2, RegionInBounds DEF PlanInv, TypeOK
<1>4. cell[1] = pc[c] /\ cell[2] = Row(c)
  BY <1>1
<1> QED BY <1>2, <1>3, <1>4

\* No burst leaves its row: every copy-out of every kernel lands in the row of the task
\* that makes it, whatever counts the earlier kernels have computed.
THEOREM BurstsStayInBounds == Spec => []BurstsInBounds
BY PlanInvariant, InvBurstsInBounds, PTL

LEMMA InvBurstsDisjoint == PlanInv => BurstsDisjoint
<1> SUFFICES ASSUME PlanInv, NEW c \in Cores, NEW d \in Cores,
                    NEW cell \in PendingCells(c), cell \in PendingCells(d)
             PROVE  c = d
  BY DEF BurstsDisjoint
<1>1. /\ pc[c] # "in" /\ cell = <<pc[c], Row(c), cell[3]>>
      /\ pc[d] # "in" /\ cell = <<pc[d], Row(d), cell[3]>>
      /\ cell[3] \in Region(kernel, task[c], pc[c])
      /\ cell[3] \in Region(kernel, task[d], pc[d])
  BY PendingIs DEF PlanInv
<1>2. pc[c] = pc[d] /\ Row(c) = Row(d)
  BY <1>1
<1>3. /\ kernel \in 1..4 /\ task[c] \in Slots(TaskCount(kernel)) /\ task[d] \in Slots(TaskCount(kernel))
      /\ pc[c] \in TensorsOf(kernel, task[c]) /\ pc[c] \in TensorsOf(kernel, task[d])
      /\ c < BlockDim(kernel) /\ d < BlockDim(kernel)
  BY <1>1, <1>2, BurstFacts DEF PlanInv, Working
<1>4. task[c] = task[d]
  BY <1>1, <1>2, <1>3, RegionsApart DEF PlanInv, TypeOK, Row
<1>5. task[c] % BlockDim(kernel) = c /\ task[d] % BlockDim(kernel) = d
  BY <1>3 DEF PlanInv, TurnsKept
<1> QED BY <1>4, <1>5

\* Two cores never hold bursts for a common cell, so the result of a kernel does not depend
\* on the order in which its cores write: none of them needs a barrier or an atomic.
THEOREM BurstsStayApart == Spec => []BurstsDisjoint
BY PlanInvariant, InvBurstsDisjoint, PTL

LEMMA InvCountsBalance == PlanInv => CountsBalance
<1> SUFFICES ASSUME PlanInv, NEW b \in Rows
             PROVE  /\ kernel > 2 => Total(candidateCounts[b], 0, lruTileCount) = k + RowMissCount(b)
                    /\ kernel > 3 => Total(keepCounts[b], 0, lruTileCount) = k
  BY DEF CountsBalance
<1>0. TensorsOK /\ TasksSettled /\ kernel \in 1..5
  BY DEF PlanInv, TypeOK, ControlOK
<1>1. ASSUME kernel > 2
      PROVE  Total(candidateCounts[b], 0, lruTileCount) = k + RowMissCount(b)
  <2>1. kernel \in 2..5 /\ kernel \in 3..5
    BY <1>0, <1>1
  <2>2. CountsReady(b) /\ CandidatesReady(b)
    BY <1>0, <2>1, HitLocalDone, CandidateLocalDone
  <2>3. Total(candidateCounts[b], 0, lruTileCount) = Cardinality(FreeAt(b))
    BY <1>0, <2>2, SuffixIs
  <2>4. RowMissCount(b) = Cardinality(MissesAt(b))
    BY <1>0, <2>2, RowMissCountIs
  <2>5. Cardinality(FreeAt(b)) = k + Cardinality(MissesAt(b))
    BY <1>0, RowsOfCall
  <2> QED BY <2>3, <2>4, <2>5
<1>2. ASSUME kernel > 3
      PROVE  Total(keepCounts[b], 0, lruTileCount) = k
  <2>1. kernel \in 4..5
    BY <1>0, <1>2
  <2>2. KeepsReady(b)
    BY <1>0, <2>1, MaterializeDone
  <2> QED BY <1>0, <2>2, KeepOffsetIs
<1> QED BY <1>1, <1>2

\* In every row the candidates outnumber the misses by exactly k, and exactly k ids stay.
THEOREM CountsAlwaysBalance == Spec => []CountsBalance
BY PlanInvariant, InvCountsBalance, PTL

\* Whenever a task of the running kernel reads its inputs, it computes its final result.
ResultsFinal ==
    kernel < 5 => \A t \in Slots(TaskCount(kernel)) : TaskResult(kernel, t) = Final(kernel, t)

LEMMA InvResultsFinal == PlanInv => ResultsFinal
<1> SUFFICES ASSUME PlanInv, kernel < 5, NEW t \in Slots(TaskCount(kernel))
             PROVE  TaskResult(kernel, t) = Final(kernel, t)
  BY DEF ResultsFinal
<1>1. TensorsOK /\ TasksSettled /\ HitSettles /\ kernel \in 1..4
  BY DEF PlanInv, TypeOK, ControlOK
<1> QED BY <1>1, ResultIsFinal

LEMMA InputsStay ==
    ASSUME PlanInv, [Next]_vars
    PROVE  UNCHANGED inputs
<1>1. CASE LaunchNext \/ Finished \/ UNCHANGED vars
  BY <1>1 DEF LaunchNext, Finished, vars
<1>2. ASSUME NEW c \in Cores, CoreStep(c) PROVE UNCHANGED inputs
  <2>1. ComputeStep(c) \/ BurstStep(c) \/ SkipStep(c)
    BY <1>2, StepKinds DEF PlanInv
  <2> QED BY <2>1 DEF ComputeStep, BurstStep, SkipStep, MemoryStays
<1> QED BY <1>1, <1>2 DEF Next

\* No step changes what an open task of the running kernel would compute: not the writes of
\* the tasks beside it, and not kernel 3's, which overwrite the hit tensor it reads.
THEOREM InputsOfTasksStable == Spec => TaskInputsStable
<1>1. PlanInv => ResultsFinal
  BY InvResultsFinal
<1>2. PlanInv /\ ResultsFinal /\ ResultsFinal' /\ [Next]_vars =>
        [kernel < 5 /\ kernel' = kernel =>
            \A t \in OpenTasks : TaskResult(kernel, t)' = TaskResult(kernel, t)]_vars
  <2> SUFFICES ASSUME PlanInv, ResultsFinal, ResultsFinal', [Next]_vars,
                      kernel < 5, kernel' = kernel, NEW t \in OpenTasks
               PROVE  TaskResult(kernel, t)' = TaskResult(kernel, t)
    OBVIOUS
  <2>1. t \in Slots(TaskCount(kernel))
    BY DEF OpenTasks
  <2>2. TaskResult(kernel, t) = Final(kernel, t)
    BY <2>1 DEF ResultsFinal
  <2>3. TaskResult(kernel, t)' = Final(kernel, t)'
    <3>1. \A u \in Slots(TaskCount(kernel)) : TaskResult(kernel, u)' = Final(kernel, u)'
      BY DEF ResultsFinal, TaskCount
    <3> QED BY <2>1, <3>1
  <2>4. Final(kernel, t)' = Final(kernel, t)
    <3>1. \A n, u : Final(n, u)' = Final(n, u)
      BY InputsStay, FinalStable
    <3>2. \A n : n = kernel => Final(kernel, t)' = Final(n, t)'
      BY DEF Final
    <3> QED BY <3>1, <3>2
  <2> QED BY <2>2, <2>3, <2>4
<1> QED BY <1>1, <1>2, PlanInvariant, PTL DEF Spec, TaskInputsStable

------------------------------------------------------------------------------
\* The plan: what hit and new_lru are to hold in the end.

NewLruAt(b) ==
    [i \in LruSlots |-> IF i < k THEN FillAt(b)[i] ELSE CompactLeft(StayAt(b), lru[b])[i - k]]

\* The row of a result tensor that the plan promises, and where it is kept.
PromisedRow(l, b) == IF l = "hit" THEN FillAt(b) ELSE NewLruAt(b)

\* The instance has its own copies of the operators of FiniteSets and TileOps.
LEMMA PlanOperators ==
    /\ \A n : Plan!Slots(n) = Slots(n)
    /\ \A S : Plan!Cardinality(S) = Cardinality(S)
    /\ \A S, row : Plan!CompactRight(S, row) = CompactRight(S, row)
    /\ \A S, row : Plan!CompactLeft(S, row) = CompactLeft(S, row)
<1>1. \A n : Plan!Slots(n) = Slots(n)
  BY DEF Plan!Slots, Slots
<1>2. ASSUME NEW S
      PROVE  Plan!Cardinality(S) = Cardinality(S)
  BY Zenon DEF Plan!Cardinality, Cardinality
<1>3. ASSUME NEW S, NEW row
      PROVE  Plan!CompactRight(S, row) = CompactRight(S, row)
  BY Zenon DEF Plan!CompactRight, CompactRight, Plan!Cardinality, Cardinality, Plan!Slots, Slots
<1>4. ASSUME NEW S, NEW row
      PROVE  Plan!CompactLeft(S, row) = CompactLeft(S, row)
  BY Zenon DEF Plan!CompactLeft, CompactLeft, Plan!Cardinality, Cardinality, Plan!Slots, Slots
<1> QED BY <1>1, <1>2, <1>3, <1>4

\* The abstract plan's result of a row, said with the kernels' notions.
LEMMA PlanRows ==
    ASSUME TensorsOK, NEW b \in Rows
    PROVE  /\ Plan!MissSlots(hitMask[b]) = MissesAt(b)
           /\ Plan!HitSet(hitIn[b], hitMask[b]) = {hitIn[b][i] : i \in Hits(hitIn[b])}
           /\ Plan!Candidates(lru[b], hitIn[b], hitMask[b]) = FreeAt(b)
           /\ Plan!Filled(lru[b], hitIn[b], hitMask[b]) = FillAt(b)
           /\ Plan!Remaining(lru[b], hitIn[b], hitMask[b]) = StayAt(b)
           /\ Plan!NewLru(lru[b], hitIn[b], hitMask[b]) = NewLruAt(b)
<1> DEFINE filled == Plan!Filled(lru[b], hitIn[b], hitMask[b])
<1>1. Plan!LruSlots = LruSlots /\ Plan!HitSlots = HitSlots
  BY PlanOperators DEF Plan!LruSlots, Plan!HitSlots, lruLength
<1>2. \A i \in HitSlots : hitMask[b][i] <=> hitIn[b][i] # -1
  BY DEF TensorsOK
<1>3. Plan!MissSlots(hitMask[b]) = MissesAt(b)
  BY <1>1, <1>2 DEF Plan!MissSlots, MissesAt, Misses
<1>a. Plan!HitSet(hitIn[b], hitMask[b]) = {hitIn[b][i] : i \in Hits(hitIn[b])}
  <2>1. {j \in HitSlots : hitMask[b][j]} = Hits(hitIn[b])
    BY <1>2 DEF Hits, Misses
  <2> QED BY <1>1, <2>1 DEF Plan!HitSet
<1>4. Plan!Candidates(lru[b], hitIn[b], hitMask[b]) = FreeAt(b)
  BY <1>1, <1>a DEF Plan!Candidates, FreeAt, Free
<1>5. filled = FillAt(b)
  <2>1. \A i \in HitSlots :
           {j \in Plan!MissSlots(hitMask[b]) : j < i} = Below(Misses(hitIn[b]), i)
    BY <1>3 DEF Below, MissesAt
  <2>2. filled = [i \in HitSlots |->
           IF hitMask[b][i] THEN hitIn[b][i]
           ELSE CompactRight(FreeAt(b), lru[b])[Cardinality(Below(Misses(hitIn[b]), i))]]
    BY <1>1, <1>4, <2>1, PlanOperators DEF Plan!Filled
  <2> HIDE DEF filled
  <2> QED BY <1>2, <2>2 DEF FillAt, Fill, FreeAt
<1>6. Plan!Remaining(lru[b], hitIn[b], hitMask[b]) = StayAt(b)
  <2>1. StayAt(b) = {p \in LruSlots : lru[b][p] \notin {FillAt(b)[i] : i \in HitSlots}}
    BY RowsOfCall
  <2> QED BY <1>1, <1>5, <2>1 DEF Plan!Remaining
<1>7. Plan!NewLru(lru[b], hitIn[b], hitMask[b]) = NewLruAt(b)
  BY <1>1, <1>5, <1>6, PlanOperators DEF Plan!NewLru, NewLruAt
<1> QED BY <1>3, <1>a, <1>4, <1>5, <1>6, <1>7

\* The number of cells a task copies out to a tensor.
LEMMA BurstLength ==
    ASSUME TensorsOK, NEW n \in 1..4, NEW t \in Slots(TaskCount(n)), NEW l \in TensorsOf(n, t),
           l \in {"hit", "newLru"}
    PROVE  \E len \in Nat : DOMAIN DataFor(l, Final(n, t)) = Slots(len)
<1> USE DEF DataFor, CountLabels, Result
<1>0. RowOf(n, t) \in Rows
  BY TaskRow
<1>1. CASE /\ n = 3 /\ FillsHits(t) /\ l \in {"hit", "newLru"}
           /\ LocalTask(3, t) \in Slots(hitTileCount)
  <2> DEFINE ht    == LocalTask(3, t)
             start == ht * hitTileLength
             data  == [p \in Slots(Cardinality(HitTile(ht))) |-> FillAt(RowOf(3, t))[start + p]]
  <2>1. Final(3, t) = Result(data, start, <<>>, 0)
    BY <1>1, FinalIs
  <2>2. DOMAIN data = Slots(Cardinality(HitTile(ht)))
    OBVIOUS
  <2>3. Cardinality(HitTile(ht)) \in Nat
    BY <1>1, TileFinite, FS_CardinalityType
  <2> HIDE DEF data
  <2> QED BY <1>1, <2>1, <2>2, <2>3
<1>2. CASE n = 4 /\ l = "newLru" /\ LocalTask(4, t) \in Slots(lruTileCount)
  <2> DEFINE b    == RowOf(4, t)
             lt   == LocalTask(4, t)
             here == StayAt(b) \cap LruTile(lt)
             from == k + Cardinality(Below(StayAt(b), lt * lruTileLength))
  <2>1. Final(4, t) = Result(CompactLeft(here, lru[b]), from, <<>>, 0)
    BY FinalIs
  <2>2. DOMAIN CompactLeft(here, lru[b]) = Slots(Cardinality(here))
    BY DEF CompactLeft
  <2>3. Cardinality(here) \in Nat
    <3>1. here \subseteq LruTile(lt) /\ IsFiniteSet(LruTile(lt))
      BY <1>2, TileFinite
    <3> HIDE DEF here
    <3> QED BY <3>1, CardinalityNat
  <2> HIDE DEF b, lt, here, from
  <2> QED BY <1>2, <2>1, <2>2, <2>3
<1> QED BY <1>1, <1>2, TensorCases

\* Every cell that a task copies out to hit or new_lru is the promised one.
LEMMA PromiseOfTask ==
    ASSUME TensorsOK, NEW n \in 1..4, NEW t \in Slots(TaskCount(n)), NEW l \in TensorsOf(n, t),
           l \in {"hit", "newLru"}, NEW i \in DOMAIN DataFor(l, Final(n, t))
    PROVE  DataFor(l, Final(n, t))[i] = PromisedRow(l, RowOf(n, t))[PlaceFor(l, Final(n, t)) + i]
<1> USE DEF DataFor, PlaceFor, CountLabels, Result
<1>0. RowOf(n, t) \in Rows
  BY TaskRow
<1>1. CASE /\ n = 3 /\ FillsHits(t) /\ l \in {"hit", "newLru"}
           /\ LocalTask(3, t) \in Slots(hitTileCount)
  <2> DEFINE b     == RowOf(3, t)
             ht    == LocalTask(3, t)
             start == ht * hitTileLength
             data  == [p \in Slots(Cardinality(HitTile(ht))) |-> FillAt(b)[start + p]]
  <2>1. Final(3, t) = Result(data, start, <<>>, 0)
    BY <1>1, FinalIs
  <2>2. i \in Slots(Cardinality(HitTile(ht))) /\ DataFor(l, Final(n, t)) = data
        /\ PlaceFor(l, Final(n, t)) = start
    <3>1. DOMAIN data = Slots(Cardinality(HitTile(ht)))
      OBVIOUS
    <3> HIDE DEF data, start
    <3> QED BY <1>1, <2>1, <3>1
  <2>3. data[i] = FillAt(b)[start + i]
    BY <2>2
  <2>4. start + i \in HitSlots
    BY <1>1, <2>2, HitTileFacts, TileFinite
  <2>5. start + i \in LruSlots /\ start + i < k
    <3> HIDE DEF start
    <3> QED BY <2>4, ShapeAssumption DEF Slots, lruLength
  <2>6. NewLruAt(b)[start + i] = FillAt(b)[start + i]
    BY <2>5 DEF NewLruAt
  <2> HIDE DEF data, start, ht
  <2> QED BY <1>1, <2>2, <2>3, <2>6 DEF PromisedRow
<1>2. CASE n = 4 /\ l = "newLru" /\ LocalTask(4, t) \in Slots(lruTileCount)
  <2> DEFINE b    == RowOf(4, t)
             lt   == LocalTask(4, t)
             stay == StayAt(b)
             here == stay \cap LruTile(lt)
             from == k + Cardinality(Below(stay, lt * lruTileLength))
  <2>0. b \in Rows
    BY <1>0, <1>2
  <2>1. Final(4, t) = Result(CompactLeft(here, lru[b]), from, <<>>, 0)
    BY FinalIs
  <2>2. DOMAIN CompactLeft(here, lru[b]) = Slots(Cardinality(here))
    BY DEF CompactLeft
  <2>3. /\ PlaceFor(l, Final(n, t)) = from /\ i \in Slots(Cardinality(here))
        /\ DataFor(l, Final(n, t)) = CompactLeft(here, lru[b])
    <3> HIDE DEF b, lt, here, from
    <3> QED BY <1>2, <2>1, <2>2
  <2>4. PICK p \in here : /\ from + i = k + Cardinality(Below(stay, p))
                          /\ CompactLeft(here, lru[b])[i] = lru[b][p]
    BY <1>2, <2>0, <2>3, PlaceOfSurvivor
  <2>5. stay \subseteq Slots(lruLength) /\ lruLength \in Nat /\ Cardinality(stay) = k
    BY <2>0, RowsOfCall, ShapeFacts
  <2>6. CompactLeft(stay, lru[b])[Cardinality(Below(stay, p))] = lru[b][p]
    <3>1. p \in stay
      BY <2>4
    <3> HIDE DEF stay
    <3> QED BY ONLY <2>5, <3>1, CompactLeftAt
  <2>7. Cardinality(Below(stay, p)) \in Slots(k)
    <3>1. p \in stay
      BY <2>4
    <3> HIDE DEF stay
    <3> QED BY <2>5, <3>1, RanksBelow
  <2>8. /\ from + i \in LruSlots /\ ~(from + i < k)
        /\ (from + i) - k = Cardinality(Below(stay, p))
    <3> HIDE DEF from, stay
    <3> QED BY <2>4, <2>7, ShapeAssumption DEF Slots, lruLength
  <2>9. NewLruAt(b)[from + i] = lru[b][p]
    <3> HIDE DEF from
    <3> QED BY <2>6, <2>8 DEF NewLruAt
  <2> HIDE DEF from, here, b, lt, stay
  <2> QED BY <1>2, <2>3, <2>4, <2>9 DEF PromisedRow, b
<1> QED BY <1>1, <1>2, TensorCases

\* Every place behind the filled slots is some survivor's, found through its tile.
LEMMA SurvivorAt ==
    ASSUME TensorsOK, NEW b \in Rows, NEW x \in Slots(k)
    PROVE  \E lt \in Slots(lruTileCount) :
              \E r \in Slots(Cardinality(StayAt(b) \cap LruTile(lt))) :
                 Cardinality(Below(StayAt(b), lt * lruTileLength)) + r = x
<1> DEFINE stay == StayAt(b)
<1>1. stay \subseteq Slots(lruLength) /\ lruLength \in Nat /\ Cardinality(stay) = k
  BY RowsOfCall, ShapeFacts
<1>2. PICK p \in stay : Cardinality(Below(stay, p)) = x
  <2> HIDE DEF stay
  <2> QED BY <1>1, RanksBelow
<1>3. PICK lt \in Slots(lruTileCount) : p \in LruTile(lt)
  BY <1>1, <1>2, LruTileFacts
<1> DEFINE here == stay \cap LruTile(lt)
           r    == Cardinality(Below(here, p))
<1>4. /\ Cardinality(Below(stay, p)) = Cardinality(Below(stay, lt * lruTileLength)) + r
      /\ r \in Slots(Cardinality(here))
  <2>1. p \in here /\ here \subseteq Slots(lruLength)
    BY <1>1, <1>2, <1>3
  <2>2. Cardinality(Below(stay, p)) = Cardinality(Below(stay, lt * lruTileLength)) + r
    <3> HIDE DEF stay
    <3> QED BY <1>1, <2>1, RankInTile
  <2>3. r \in Slots(Cardinality(here))
    <3> HIDE DEF here
    <3> QED BY <1>1, <2>1, RanksBelow
  <2> QED BY <2>2, <2>3
<1> HIDE DEF r, here
<1>5. Cardinality(Below(stay, lt * lruTileLength)) + r = x
  BY <1>2, <1>4
<1> QED BY <1>4, <1>5 DEF here

\* When kernel 4 is over every cell of the two results has been copied out.
LEMMA InvPlanCorrect == PlanInv => PlanCorrect
<1> SUFFICES ASSUME PlanInv, kernel = 5, NEW b \in Rows
             PROVE  /\ hit[b] = Plan!Filled(lru[b], hitIn[b], hitMask[b])
                    /\ newLru[b] = Plan!NewLru(lru[b], hitIn[b], hitMask[b])
  <2>1. Plan!Rows = Rows
    BY PlanOperators DEF Plan!Rows
  <2> QED BY <2>1 DEF PlanCorrect, Plan!Settled
<1>0. TensorsOK /\ TasksSettled
  BY DEF PlanInv, TypeOK
<1>1. \A i \in HitSlots : hit[b][i] = FillAt(b)[i] /\ newLru[b][i] = FillAt(b)[i]
  <2>1. kernel \in 4..5
    OBVIOUS
  <2> QED BY <1>0, <2>1, MaterializeDone
<1>2. /\ hit[b] = [i \in HitSlots |-> hit[b][i]]
      /\ newLru[b] = [i \in LruSlots |-> newLru[b][i]]
  BY <1>0 DEF TensorsOK, IsTensor, IsRow
<1>3. hit[b] = FillAt(b)
  <2>1. FillAt(b) = [i \in HitSlots |-> FillAt(b)[i]]
    BY DEF FillAt, Fill
  <2> QED BY <1>1, <1>2, <2>1
<1>4. ASSUME NEW x \in LruSlots, ~(x < k)
      PROVE  newLru[b][x] = NewLruAt(b)[x]
  <2> DEFINE stay == StayAt(b)
  <2>1. stay \subseteq Slots(lruLength) /\ lruLength \in Nat /\ Cardinality(stay) = k
    BY <1>0, RowsOfCall, ShapeFacts
  <2>2. x - k \in Slots(k) /\ k + (x - k) = x
    BY <1>4, ShapeAssumption DEF Slots, lruLength
  <2>3b. PICK lt \in Slots(lruTileCount) : \E r \in Slots(Cardinality(stay \cap LruTile(lt))) :
           Cardinality(Below(stay, lt * lruTileLength)) + r = x - k
    BY <1>0, <2>2, SurvivorAt
  <2>3. PICK r \in Slots(Cardinality(stay \cap LruTile(lt))) :
           Cardinality(Below(stay, lt * lruTileLength)) + r = x - k
    BY <2>3b
  <2> DEFINE here == stay \cap LruTile(lt)
             from == k + Cardinality(Below(stay, lt * lruTileLength))
  <2>4. from + r = x
    <3>1. Below(stay, lt * lruTileLength) \subseteq Slots(lruLength)
      BY <2>1 DEF Below
    <3>2. Cardinality(Below(stay, lt * lruTileLength)) \in Nat
      BY <2>1, <3>1, SubsetOfSlots
    <3> HIDE DEF stay
    <3> QED BY <2>2, <2>3, <3>2, ShapeAssumption DEF Slots
  <2>5. r \in Slots(Cardinality(here))
    BY <2>3
  <2>6. PICK t \in Slots(TaskCount(4)) : RowOf(4, t) = b /\ LocalTask(4, t) = lt
    <3>1. lt \in Slots(TasksOfRow(4))
      BY <2>3 DEF TasksOfRow
    <3> QED BY <3>1, TaskAt
  <2>7. "newLru" \in TensorsOf(4, t) /\ Holds(4, t, "newLru")
    <3>1. "newLru" \in TensorsOf(4, t) /\ Completed(4, t)
      BY DEF TensorsOf, Completed
    <3> QED BY <1>0, <3>1 DEF TasksSettled
  <2>8. /\ DataFor("newLru", Final(4, t)) = CompactLeft(here, lru[b])
        /\ PlaceFor("newLru", Final(4, t)) = from
    <3>1. LET c    == RowOf(4, t)
              ct   == LocalTask(4, t)
              kept == StayAt(c) \cap LruTile(ct)
          IN  Final(4, t) = Result(CompactLeft(kept, lru[c]),
                                   k + Cardinality(Below(StayAt(c), ct * lruTileLength)), <<>>, 0)
      BY FinalIs
    <3>2. Final(4, t) = Result(CompactLeft(here, lru[b]), from, <<>>, 0)
      BY <2>6, <3>1
    <3> HIDE DEF here, from
    <3> QED BY <3>2 DEF DataFor, PlaceFor, CountLabels, Result
  <2>9. r \in DOMAIN DataFor("newLru", Final(4, t))
    <3>1. DOMAIN CompactLeft(here, lru[b]) = Slots(Cardinality(here))
      BY DEF CompactLeft
    <3> HIDE DEF here
    <3> QED BY <2>5, <2>8, <3>1
  <2>10. newLru[b][from + r] = DataFor("newLru", Final(4, t))[r]
    <3> HIDE DEF from, here, stay
    <3> QED BY <2>6, <2>7, <2>8, <2>9, MemoryIs DEF Holds
  <2>11. DataFor("newLru", Final(4, t))[r] = NewLruAt(b)[from + r]
    <3> HIDE DEF from, here, stay
    <3> QED BY <1>0, <2>6, <2>7, <2>8, <2>9, PromiseOfTask DEF PromisedRow
  <2> HIDE DEF from
  <2> QED BY <2>4, <2>10, <2>11
<1>5. newLru[b] = NewLruAt(b)
  <2>1. \A x \in LruSlots : x < k => x \in HitSlots
    BY ShapeAssumption DEF Slots, lruLength
  <2>2. \A x \in LruSlots : newLru[b][x] = NewLruAt(b)[x]
    BY <1>1, <1>4, <2>1 DEF NewLruAt
  <2>3. NewLruAt(b) = [x \in LruSlots |-> NewLruAt(b)[x]]
    BY DEF NewLruAt
  <2> QED BY <1>2, <2>2, <2>3
<1> QED BY <1>0, <1>3, <1>5, PlanRows

\* When the last kernel is done, hit and new_lru hold in every row what the reference
\* implementation computes from the tensors the caller passed: for every shape, every
\* number of cores and every interleaving of them.
THEOREM PlanAlwaysCorrect == Spec => []PlanCorrect
BY PlanInvariant, InvPlanCorrect, PTL

------------------------------------------------------------------------------
\* What the kernels before the running one left, said with the reference's operators.
LEMMA InvEarlierKernelsComplete == PlanInv => EarlierKernelsComplete
<1> SUFFICES ASSUME PlanInv, NEW b \in Rows
             PROVE  /\ kernel > 1 =>
                          /\ \A id \in LruSlots :
                                hitBitmap[b][id] =
                                    IF id \in Plan!HitSet(hitIn[b], hitMask[b]) THEN 1 ELSE 0
                          /\ \A ht \in Slots(hitTileCount) :
                                hitCounts[b][ht] =
                                    Cardinality(Plan!MissSlots(hitMask[b]) \cap HitTile(ht))
                    /\ kernel > 2 => \A lt \in Slots(lruTileCount) :
                          TileHolds(candidateValues[b], candidateCounts[b], lt,
                                    CompactRight(FreeAt(b) \cap LruTile(lt), lru[b]))
                    /\ kernel > 3 =>
                          /\ \A lt \in Slots(lruTileCount) :
                                TileHolds(keepValues[b], keepCounts[b], lt,
                                          CompactLeft(StayAt(b) \cap LruTile(lt), lru[b]))
                          /\ \A i \in HitSlots :
                                hit[b][i] = FillAt(b)[i] /\ newLru[b][i] = FillAt(b)[i]
  <2>1. ASSUME PlanInv PROVE TensorsOK
    BY <2>1 DEF PlanInv, TypeOK
  <2> QED BY <2>1, PlanRows DEF EarlierKernelsComplete
<1>0. TensorsOK /\ TasksSettled /\ kernel \in 1..5
  BY DEF PlanInv, TypeOK, ControlOK
<1>1. ASSUME NEW S
      PROVE  /\ DOMAIN CompactRight(S, lru[b]) = Slots(Cardinality(S))
             /\ DOMAIN CompactLeft(S, lru[b]) = Slots(Cardinality(S))
  BY DEF CompactRight, CompactLeft
<1>2. ASSUME NEW lt \in Slots(lruTileCount)
      PROVE  /\ Cardinality(Slots(Cardinality(FreeAt(b) \cap LruTile(lt))))
                   = Cardinality(FreeAt(b) \cap LruTile(lt))
             /\ Cardinality(Slots(Cardinality(StayAt(b) \cap LruTile(lt))))
                   = Cardinality(StayAt(b) \cap LruTile(lt))
  <2>1. IsFiniteSet(LruTile(lt))
    BY TileFinite
  <2>2. /\ Cardinality(FreeAt(b) \cap LruTile(lt)) \in Nat
        /\ Cardinality(StayAt(b) \cap LruTile(lt)) \in Nat
    BY <2>1, FS_Subset, FS_CardinalityType
  <2>3. \A n \in Nat : Cardinality(Slots(n)) = n
    BY FS_Interval DEF Slots
  <2> QED BY <2>2, <2>3
<1>3. ASSUME kernel > 1
      PROVE  /\ \A id \in LruSlots :
                   hitBitmap[b][id] =
                       IF id \in Plan!HitSet(hitIn[b], hitMask[b]) THEN 1 ELSE 0
             /\ \A ht \in Slots(hitTileCount) :
                   hitCounts[b][ht] =
                       Cardinality(Plan!MissSlots(hitMask[b]) \cap HitTile(ht))
  <2>1. BitmapReady(b) /\ CountsReady(b)
    BY <1>0, <1>3, HitLocalDone
  <2>2. ASSUME NEW id \in LruSlots
        PROVE  hitBitmap[b][id] =
                   IF id \in Plan!HitSet(hitIn[b], hitMask[b]) THEN 1 ELSE 0
    <3>1. id \in Slots(lruStride) /\ id # -1
      BY ShapeFacts DEF Slots
    <3>2. hitBitmap[b][id] = IF \E i \in HitSlots : hitIn[b][i] = id THEN 1 ELSE 0
      BY <2>1, <3>1 DEF BitmapReady, BitmapOf
    <3>3. (\E i \in HitSlots : hitIn[b][i] = id) <=> \E i \in Hits(hitIn[b]) : hitIn[b][i] = id
      BY <3>1 DEF Hits, Misses
    <3> QED BY <1>0, <3>2, <3>3, PlanRows
  <2> QED BY <1>0, <2>1, <2>2, PlanRows DEF CountsReady
<1>4. ASSUME kernel > 2, NEW lt \in Slots(lruTileCount)
      PROVE  TileHolds(candidateValues[b], candidateCounts[b], lt,
                       CompactRight(FreeAt(b) \cap LruTile(lt), lru[b]))
  <2>1. CandidatesReady(b)
    BY <1>0, <1>4, CandidateLocalDone
  <2> QED BY <2>1, <1>1, <1>2 DEF CandidatesReady, TileHolds
<1>5. ASSUME kernel > 3, NEW lt \in Slots(lruTileCount)
      PROVE  TileHolds(keepValues[b], keepCounts[b], lt,
                       CompactLeft(StayAt(b) \cap LruTile(lt), lru[b]))
  <2>1. KeepsReady(b)
    BY <1>0, <1>5, MaterializeDone
  <2> QED BY <2>1, <1>1, <1>2 DEF KeepsReady, TileHolds
<1>6. ASSUME kernel > 3, NEW i \in HitSlots
      PROVE  hit[b][i] = FillAt(b)[i] /\ newLru[b][i] = FillAt(b)[i]
  BY <1>0, <1>6, MaterializeDone
<1> QED BY <1>3, <1>4, <1>5, <1>6

\* Whenever a kernel runs, the outputs of the kernels before it are complete, whichever core
\* wrote them, and nobody writes them any more: for every shape, number of cores and legal
\* input, the stream's order is all the kernels need.
THEOREM KernelsFindOutputsComplete == Spec => []EarlierKernelsComplete
BY PlanInvariant, InvEarlierKernelsComplete, PTL

------------------------------------------------------------------------------
\* Refinement: the kernels do nothing to hit and new_lru that the plan does not allow.

LEMMA InitRefines == Init => Plan!PlanInit
<1> SUFFICES ASSUME Init PROVE Plan!PlanInit
  OBVIOUS
<1>1. Plan!LruSlots = LruSlots /\ Plan!HitSlots = HitSlots /\ Plan!Rows = Rows
  BY PlanOperators DEF Plan!LruSlots, Plan!HitSlots, Plan!Rows, lruLength
<1>2. ASSUME NEW b \in Rows PROVE Plan!ValidLruRow(lru[b]) /\ Plan!ValidHitRow(hitIn[b])
  <2>1. lru[b] \in LruRows /\ hitIn[b] \in HitRows
    BY DEF Init
  <2> QED BY <1>1, <2>1, InputAssumption DEF Plan!ValidLruRow, Plan!ValidHitRow
<1>3. hitMask = [b \in Rows |-> Plan!MaskOf(hitIn[b])] /\ hit = hitIn
  BY <1>1 DEF Init, Plan!MaskOf
<1>4. newLru \in [Rows -> [LruSlots -> Int]]
  BY ShapeAssumption DEF Init
<1> QED BY <1>1, <1>2, <1>3, <1>4 DEF Plan!PlanInit

\* A burst to a result settles a run of cells of one row.
LEMMA BurstSettles ==
    ASSUME PlanInv, NEW c \in Cores, NEW l \in {"hit", "newLru"}, pc[c] = l, Burst(c)
    PROVE  \/ Memory'[l] = Memory[l]
           \/ \E lo, hi \in Slots(RowLength[l]) :
                 Memory'[l] = [Memory[l] EXCEPT ![Row(c)] = [i \in Slots(RowLength[l]) |->
                                  IF i \in lo..hi THEN PromisedRow(l, Row(c))[i] ELSE @[i]]]
<1> DEFINE b    == Row(c)
           u    == task[c]
           off  == PlaceFor(l, ub[c])
           data == DataFor(l, ub[c])
           rows == Memory[l]
<1>1. /\ IsResult(ub[c]) /\ kernel \in 1..4 /\ u \in Slots(TaskCount(kernel)) /\ b \in Rows
      /\ ub[c] = Final(kernel, u) /\ l \in TensorsOf(kernel, u) /\ l \in Labels \ {"in"}
      /\ b = RowOf(kernel, u) /\ TensorsOK
  BY BurstFacts DEF PlanInv, TypeOK, Row
<1>2. off \in Int
  BY <1>1 DEF IsResult, PlaceFor
<1>3. PICK len \in Nat : DOMAIN data = Slots(len)
  BY <1>1, BurstLength
<1>4. /\ DOMAIN rows = Rows /\ rows = [a \in Rows |-> rows[a]]
      /\ rows[b] = [i \in Slots(RowLength[l]) |-> rows[b][i]]
  BY <1>1, TensorIs DEF IsTensor, IsRow
<1>5. Memory'[l] = [rows EXCEPT ![b] = CopyOut(@, off, data)]
  BY DEF Burst
<1>6. \A j \in Slots(len) : /\ data[j] = PromisedRow(l, b)[off + j]
                            /\ off + j \in Slots(RowLength[l])
  <2> SUFFICES ASSUME NEW j \in DOMAIN DataFor(l, Final(kernel, u))
               PROVE  /\ data[j] = PromisedRow(l, b)[off + j]
                      /\ off + j \in Slots(RowLength[l])
    BY <1>1, <1>3
  <2>1. data[j] = PromisedRow(l, b)[off + j]
    <3> HIDE DEF u
    <3>1. DataFor(l, Final(kernel, u))[j]
             = PromisedRow(l, RowOf(kernel, u))[PlaceFor(l, Final(kernel, u)) + j]
      BY <1>1, PromiseOfTask
    <3> QED BY <1>1, <3>1
  <2>2. off + j \in Slots(RowLength[l])
    <3> HIDE DEF u
    <3>1. PlaceFor(l, Final(kernel, u)) + j \in Region(kernel, u, l)
      BY <1>1, CellInRegion
    <3> QED BY <1>1, <3>1, RegionInBounds
  <2> QED BY <2>1, <2>2
<1> HIDE DEF b, u, off, data, rows
<1>7. \A i \in Slots(RowLength[l]) : i \in Int
  BY DEF Slots
<1>8. CopyOut(rows[b], off, data)
         = [i \in Slots(RowLength[l]) |->
               IF i \in off .. off + len - 1 THEN PromisedRow(l, b)[i] ELSE rows[b][i]]
  <2>1. DOMAIN rows[b] = Slots(RowLength[l])
    BY <1>4
  <2>2. ASSUME NEW i \in Slots(RowLength[l])
        PROVE  (IF i - off \in DOMAIN data THEN data[i - off] ELSE rows[b][i])
                  = IF i \in off .. off + len - 1 THEN PromisedRow(l, b)[i] ELSE rows[b][i]
    <3>1. i \in Int
      BY <1>7
    <3>2. (i - off \in Slots(len) <=> i \in off .. off + len - 1) /\ off + (i - off) = i
      BY <1>2, <3>1 DEF Slots
    <3>3. i - off \in Slots(len) => data[i - off] = PromisedRow(l, b)[off + (i - off)]
      BY <1>6
    <3> QED BY <1>3, <3>2, <3>3
  <2> QED BY <2>1, <2>2 DEF CopyOut
<1>9. Memory'[l] = [rows EXCEPT ![b] = [i \in Slots(RowLength[l]) |->
                       IF i \in off .. off + len - 1 THEN PromisedRow(l, b)[i] ELSE @[i]]]
  BY <1>4, <1>5, <1>8
<1>10. CASE len = 0
  <2>1. off .. off + len - 1 = {}
    BY <1>2, <1>10
  <2>2. CopyOut(rows[b], off, data) = rows[b]
    BY <1>4, <1>8, <2>1
  <2>3. Memory'[l] = [rows EXCEPT ![b] = rows[b]]
    BY <1>4, <1>5, <2>2
  <2>4. Memory'[l] = rows
    BY <1>1, <1>4, <2>3
  <2> QED BY <2>4 DEF rows
<1>11. CASE len # 0
  <2>1. 0 \in Slots(len) /\ len - 1 \in Slots(len)
    BY <1>11 DEF Slots
  <2>2. off + 0 = off /\ off + (len - 1) = off + len - 1
    BY <1>2
  <2>3. off \in Slots(RowLength[l]) /\ off + len - 1 \in Slots(RowLength[l])
    BY <1>6, <2>1, <2>2
  <2> QED BY <1>9, <2>3 DEF b, rows
<1> QED BY <1>10, <1>11

LEMMA StepRefines == PlanInv /\ [Next]_vars => [Plan!PlanNext]_(Plan!planVars)
<1> SUFFICES ASSUME PlanInv, [Next]_vars, ~UNCHANGED <<lru, hitMask, hitIn, hit, newLru>>
             PROVE  Plan!PlanNext
  BY DEF Plan!planVars
<1>1. lru' = lru /\ hitMask' = hitMask /\ hitIn' = hitIn
  BY InputsStay DEF inputs
<1>2. PICK c \in Cores : BurstStep(c)
  <2>1. ~(LaunchNext \/ Finished \/ UNCHANGED vars)
    BY DEF LaunchNext, Finished, vars, inputs
  <2>2. PICK c \in Cores : CoreStep(c)
    BY <2>1 DEF Next
  <2>3. ~ComputeStep(c) /\ ~SkipStep(c)
    BY DEF ComputeStep, SkipStep, MemoryStays, inputs
  <2> QED BY <2>2, <2>3, StepKinds DEF PlanInv
<1>3. /\ Burst(c) /\ Row(c) \in Rows /\ TensorsOK
      /\ \A l \in Labels \ {"in"} : l # pc[c] => Memory'[l] = Memory[l]
  <2>1. Burst(c) /\ pc[c] # "in"
    BY <1>2 DEF BurstStep
  <2> QED BY <2>1, BurstFacts DEF PlanInv, Burst, TypeOK
<1>4. Plan!LruSlots = LruSlots /\ Plan!HitSlots = HitSlots /\ Plan!Rows = Rows
  BY PlanOperators DEF Plan!LruSlots, Plan!HitSlots, Plan!Rows, lruLength
<1>5. pc[c] # "hit" => hit' = hit
  BY <1>3, MemoryIs, MemoryNext DEF Labels
<1>6. pc[c] # "newLru" => newLru' = newLru
  BY <1>3, MemoryIs, MemoryNext DEF Labels
<1> DEFINE b == Row(c)
<1>7. CASE pc[c] = "hit"
  <2>1. newLru' = newLru /\ hit' # hit
    BY <1>1, <1>6, <1>7
  <2>2. Memory'["hit"] # Memory["hit"]
    BY <2>1, MemoryIs, MemoryNext
  <2>3. PICK lo, hi \in Slots(RowLength["hit"]) :
           Memory'["hit"] = [Memory["hit"] EXCEPT ![b] = [i \in Slots(RowLength["hit"]) |->
                                IF i \in lo..hi THEN PromisedRow("hit", b)[i] ELSE @[i]]]
    BY <1>3, <1>7, <2>2, BurstSettles
  <2>4. lo \in HitSlots /\ hi \in HitSlots
        /\ hit' = [hit EXCEPT ![b] = [i \in HitSlots |-> IF i \in lo..hi THEN FillAt(b)[i] ELSE @[i]]]
    BY <2>3, MemoryIs, MemoryNext, RowLengths DEF PromisedRow
  <2>5. Plan!SettleHit(b, lo, hi)
    BY <1>1, <1>3, <1>4, <2>1, <2>4, PlanRows DEF Plan!SettleHit
  <2> QED BY <1>3, <1>4, <2>4, <2>5 DEF Plan!PlanNext
<1>8. CASE pc[c] = "newLru"
  <2>1. hit' = hit /\ newLru' # newLru
    BY <1>1, <1>5, <1>8
  <2>2. Memory'["newLru"] # Memory["newLru"]
    BY <2>1, MemoryIs, MemoryNext
  <2>3. PICK lo, hi \in Slots(RowLength["newLru"]) :
           Memory'["newLru"] = [Memory["newLru"] EXCEPT ![b] = [i \in Slots(RowLength["newLru"]) |->
                                   IF i \in lo..hi THEN PromisedRow("newLru", b)[i] ELSE @[i]]]
    BY <1>3, <1>8, <2>2, BurstSettles
  <2>4. lo \in LruSlots /\ hi \in LruSlots
        /\ newLru' = [newLru EXCEPT ![b] = [i \in LruSlots |->
                                               IF i \in lo..hi THEN NewLruAt(b)[i] ELSE @[i]]]
    BY <2>3, MemoryIs, MemoryNext, RowLengths DEF PromisedRow
  <2>5. Plan!SettleNewLru(b, lo, hi)
    BY <1>1, <1>3, <1>4, <2>1, <2>4, PlanRows DEF Plan!SettleNewLru
  <2> QED BY <1>3, <1>4, <2>4, <2>5 DEF Plan!PlanNext
<1> QED BY <1>1, <1>5, <1>6, <1>7, <1>8

\* The kernels implement the plan, step by step: a burst to hit or new_lru settles a run of
\* cells of one row with their final values, every other step leaves both as they are.
THEOREM KernelsRefinePlan == Spec => Plan!PlanInit /\ [][Plan!PlanNext]_(Plan!planVars)
BY InitRefines, StepRefines, PlanInvariant, PTL DEF Spec
==============================================================================

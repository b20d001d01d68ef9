----------------------- MODULE BuildLruPlanHost_proofs -----------------------
(***************************************************************************)
(* What the host function launches is safe, for every shape, device and    *)
(* integer limit.  First the unified buffer: the layouts of the kernels    *)
(* fit the host's bound, and their local tensors start on data blocks and  *)
(* do not overlap.  Then the stages of the host, with an invariant that    *)
(* remembers the checks that were passed on the way to each of them.       *)
(***************************************************************************)
EXTENDS BuildLruPlanHost, LruTiling_proofs, SequenceTheorems

\* n elements are a whole number of data blocks.
Whole(n) == n \in Nat /\ n % 8 = 0

LEMMA BlockIs8 == kInt32PerDataBlock = 8
BY UbAssumption, TilingAssumption DEF Int32Bytes, DataBlockBytes

LEMMA WholeProduct ==
    ASSUME NEW q \in Nat, NEW a, Whole(a)
    PROVE  Whole(q * a)
<1>1. PICK m \in Nat : a = 8 * m
  <2>1. a = 8 * (a \div 8) /\ a \div 8 \in Nat
    BY DEF Whole
  <2> QED BY <2>1
<1> DEFINE x == q * m
<1>2. x \in Nat
  OBVIOUS
<1>3. q * a = 8 * x
  BY <1>1
<1> HIDE DEF x
<1>4. 8 * x \in Nat /\ (8 * x) % 8 = 0
  BY <1>2
<1> QED BY <1>3, <1>4 DEF Whole

LEMMA AlignUpWhole ==
    ASSUME NEW n \in Nat, NEW a, Whole(a), a > 0
    PROVE  Whole(AlignUp(n, a)) /\ n <= AlignUp(n, a)
<1>1. a \in Nat \ {0}
  BY DEF Whole
<1>2. (n + a - 1) \div a \in Nat
  BY <1>1
<1>3. Whole(AlignUp(n, a))
  BY <1>2, WholeProduct DEF AlignUp
<1> QED BY <1>1, <1>3, AlignUpBounds

\* Rounding n elements up to blocks is the least whole number of them.
LEMMA AlignUpLeast ==
    ASSUME NEW n \in Nat, NEW m, Whole(m), n <= m
    PROVE  AlignUp(n, 8) <= m
BY DEF AlignUp, Whole

LEMMA AlignUpBytes ==
    ASSUME NEW n \in Nat
    PROVE  AlignUp(4 * n, 32) = 4 * AlignUp(n, 8)
<1>1. (4 * n + 32 - 1) \div 32 = (n + 8 - 1) \div 8
  OBVIOUS
<1> QED BY <1>1 DEF AlignUp

\* What the layouts rely on.
IsTiling(t) ==
    /\ t.k \in Nat /\ t.lruLength \in Nat
    /\ \A n \in {t.lruStride, t.lruTileLength, t.hitTileLength, t.hitMetaStride,
                 t.lruMetaStride, t.valueStride} : Whole(n) /\ n > 0
    /\ t.lruLength <= t.lruStride

LEMMA TileLengthWhole ==
    ASSUME NEW length \in Nat, NEW batchSize \in Nat \ {0}, NEW coreNum \in Nat \ {0}
    PROVE  LET n == MakeParallelTileLength(length, batchSize, coreNum)
           IN  Whole(n) /\ n >= 8
<1> DEFINE R == DesiredTilesPerRow(batchSize, coreNum)
           fitted == AlignDown(length \div R, kInt32PerDataBlock)
<1>1. R \in Nat \ {0}
  BY DEF DesiredTilesPerRow
<1>2. length \div R \in Nat
  BY <1>1
<1> HIDE DEF R
<1>3. Whole(fitted)
  <2>1. (length \div R) \div 8 \in Nat /\ Whole(8)
    BY <1>2 DEF Whole
  <2> QED BY <2>1, WholeProduct, BlockIs8 DEF AlignDown
<1>4. Whole(kMaximumTileLength) /\ kMaximumTileLength >= 8
  BY BlockIs8, UbAssumption, TilingAssumption DEF Whole
<1> HIDE DEF fitted
<1>5. MakeParallelTileLength(length, batchSize, coreNum)
        = MinInt64(MaxInt64(fitted, 8), kMaximumTileLength)
  BY BlockIs8 DEF MakeParallelTileLength, fitted, R
<1> QED BY <1>3, <1>4, <1>5 DEF MinInt64, MaxInt64, Whole

LEMMA TilingIsTiling ==
    ASSUME NEW B \in Nat \ {0}, NEW K \in Nat \ {0}, NEW C \in Nat \ {0}
    PROVE  IsTiling(TilingOf(B, K, C))
<1> DEFINE L    == 2 * K
           lTL  == MakeParallelTileLength(L, B, C)
           hTL  == MakeParallelTileLength(K, B, C)
           lTC  == TileCount(L, lTL)
           hTC  == TileCount(K, hTL)
           t    == TilingOf(B, K, C)
<1>1. L \in Nat \ {0}
  OBVIOUS
<1>2. Whole(lTL) /\ lTL >= 8 /\ Whole(hTL) /\ hTL >= 8
  BY <1>1, TileLengthWhole
<1>3. lTC \in Nat \ {0} /\ hTC \in Nat \ {0}
  BY <1>1, <1>2, TilesPartition DEF Whole
<1>4. Whole(kInt32PerCacheLine) /\ kInt32PerCacheLine > 0 /\ Whole(8)
  BY BlockIs8, UbAssumption, TilingAssumption DEF Whole
<1>5. /\ t.k = K /\ t.lruLength = L /\ t.lruTileLength = lTL /\ t.hitTileLength = hTL
      /\ t.lruStride = AlignUp(L, kInt32PerCacheLine)
      /\ t.hitMetaStride = AlignUp(hTC, 8) /\ t.lruMetaStride = AlignUp(lTC, 8)
      /\ t.valueStride = lTC * lTL
  BY BlockIs8 DEF TilingOf
<1> HIDE DEF L, lTL, hTL, lTC, hTC, t
<1>6. Whole(t.lruStride) /\ L <= t.lruStride
  BY <1>1, <1>4, <1>5, AlignUpWhole
<1>7. Whole(t.hitMetaStride) /\ hTC <= t.hitMetaStride
  BY <1>3, <1>4, <1>5, AlignUpWhole
<1>8. Whole(t.lruMetaStride) /\ lTC <= t.lruMetaStride
  BY <1>3, <1>4, <1>5, AlignUpWhole
<1>9. Whole(t.valueStride) /\ t.valueStride > 0
  <2>1. Whole(t.valueStride)
    BY <1>2, <1>3, <1>5, WholeProduct
  <2>2. lTC * lTL > 0
    BY <1>2, <1>3 DEF Whole
  <2> QED BY <2>1, <2>2, <1>5
<1>10. /\ t.lruStride \in Nat \ {0} /\ t.hitMetaStride \in Nat \ {0}
       /\ t.lruMetaStride \in Nat \ {0} /\ t.lruTileLength \in Nat \ {0}
       /\ t.hitTileLength \in Nat \ {0}
  BY <1>1, <1>2, <1>3, <1>5, <1>6, <1>7, <1>8 DEF Whole
<1> QED BY <1>1, <1>2, <1>5, <1>6, <1>7, <1>8, <1>9, <1>10 DEF IsTiling, t

------------------------------------------------------------------------------
\* The layouts, one by one: t is any tiling as above.

LayoutSafe(layout, bytes) ==
    /\ \A r, s \in DOMAIN layout : r # s => Apart(layout[r], layout[s])
    /\ \A r \in DOMAIN layout :
          layout[r].from % DataBlockBytes = 0 /\ layout[r].from + layout[r].bytes <= bytes

LEMMA RegionIs ==
    ASSUME NEW base, NEW n
    PROVE  Region(base, n).from = 4 * base /\ Region(base, n).bytes = 4 * n
BY DEF Region, Int32Bytes

LEMMA CopiedInIs ==
    ASSUME NEW base, NEW n \in Nat
    PROVE  CopiedIn(base, n).from = 4 * base /\ CopiedIn(base, n).bytes = 4 * AlignUp(n, 8)
<1>1. CopiedIn(base, n).from = 4 * base /\ CopiedIn(base, n).bytes = AlignUp(4 * n, 32)
  BY DEF CopiedIn, Int32Bytes, DataBlockBytes
<1> QED BY <1>1, AlignUpBytes

LEMMA AlignUpBlocks ==
    ASSUME NEW n \in Nat
    PROVE  AlignUp(8 * n, 8) = 8 * n
<1>1. (8 * n + 8 - 1) \div 8 = n
  OBVIOUS
<1> QED BY <1>1 DEF AlignUp

\* The sizes of a tiling in data blocks.
LEMMA InBlocks ==
    ASSUME NEW t, IsTiling(t)
    PROVE  /\ \E n \in Nat : t.lruStride = 8 * n
           /\ \E n \in Nat : t.lruTileLength = 8 * n
           /\ \E n \in Nat : t.hitTileLength = 8 * n
           /\ \E n \in Nat : t.hitMetaStride = 8 * n
           /\ \E n \in Nat : t.lruMetaStride = 8 * n
           /\ \E n \in Nat : t.valueStride = 8 * n
           /\ \E n \in Nat : AlignUp(t.k, 8) = 8 * n
           /\ AlignUp(t.lruLength, 8) \in Nat /\ AlignUp(t.lruLength, 8) <= t.lruStride
<1>1. \A n : Whole(n) => \E m \in Nat : n = 8 * m
  <2> SUFFICES ASSUME NEW n, Whole(n) PROVE \E m \in Nat : n = 8 * m
    OBVIOUS
  <2>1. n \div 8 \in Nat /\ n = 8 * (n \div 8)
    BY DEF Whole
  <2> QED BY <2>1
<1>2. Whole(8)
  BY DEF Whole
<1>3. t.k \in Nat /\ t.lruLength \in Nat
  BY DEF IsTiling
<1>4. Whole(AlignUp(t.k, 8)) /\ Whole(AlignUp(t.lruLength, 8))
  BY <1>2, <1>3, AlignUpWhole
<1>5. Whole(t.lruStride) /\ t.lruLength <= t.lruStride
  BY DEF IsTiling
<1>6. AlignUp(t.lruLength, 8) \in Nat /\ AlignUp(t.lruLength, 8) <= t.lruStride
  BY <1>3, <1>4, <1>5, AlignUpLeast DEF Whole
<1> QED BY <1>1, <1>4, <1>6 DEF IsTiling

LEMMA SizesNat ==
    ASSUME NEW t, IsTiling(t)
    PROVE  /\ t.lruStride \in Nat /\ t.lruTileLength \in Nat /\ t.hitTileLength \in Nat
           /\ t.hitMetaStride \in Nat /\ t.lruMetaStride \in Nat /\ t.valueStride \in Nat
           /\ AlignUp(t.k, 8) \in Nat /\ AlignUp(t.hitTileLength, 32) \in Nat
<1>1. t.hitTileLength \in Nat /\ t.k \in Nat
  BY DEF IsTiling, Whole
<1>2. \A n \in Nat : AlignUp(n, 8) \in Nat /\ AlignUp(n, 32) \in Nat
  BY DEF AlignUp
<1> QED BY <1>1, <1>2 DEF IsTiling, Whole

LEMMA HitLocalSafe ==
    ASSUME NEW t, IsTiling(t)
    PROVE  LayoutSafe(HitLocalLayout(t), HitLocalBytes(t))
<1> DEFINE L == HitLocalLayout(t)
<1>1. PICK stride \in Nat : t.lruStride = 8 * stride
  BY InBlocks
<1>2. PICK meta \in Nat : t.hitMetaStride = 8 * meta
  BY InBlocks
<1>3. PICK hits \in Nat : AlignUp(t.k, 8) = 8 * hits
  BY InBlocks
<1>4. /\ L = [bitmapLocal |-> L.bitmapLocal, hitLocal |-> L.hitLocal, countLocal |-> L.countLocal]
      /\ L.bitmapLocal = Region(0, t.lruStride)
      /\ L.hitLocal = CopiedIn(t.lruStride, t.k)
      /\ L.countLocal = Region(t.lruStride + AlignUp(t.k, 8), t.hitMetaStride)
  BY BlockIs8 DEF HitLocalLayout
<1>5. HitLocalBytes(t) = 32 * (stride + hits + meta)
  BY <1>1, <1>2, <1>3, BlockIs8 DEF HitLocalBytes, Int32Bytes
<1> HIDE DEF L
<1>6. /\ L.bitmapLocal.from = 0 /\ L.bitmapLocal.bytes = 32 * stride
      /\ L.hitLocal.from = 32 * stride /\ L.hitLocal.bytes = 32 * hits
      /\ L.countLocal.from = 32 * (stride + hits) /\ L.countLocal.bytes = 32 * meta
  BY <1>1, <1>2, <1>3, <1>4, RegionIs, CopiedInIs DEF IsTiling
<1>7. LayoutSafe(L, HitLocalBytes(t))
  BY <1>4, <1>5, <1>6 DEF LayoutSafe, Apart, DataBlockBytes
<1> QED BY <1>7 DEF L

LEMMA CandidateLocalSafe ==
    ASSUME NEW t, IsTiling(t)
    PROVE  LayoutSafe(CandidateLocalLayout(t), CandidateLocalBytes(t))
<1> DEFINE L == CandidateLocalLayout(t)
           A == AlignUp(t.lruLength, 8)
<1>1. PICK stride \in Nat : t.lruStride = 8 * stride
  BY InBlocks
<1>2. PICK tile \in Nat : t.lruTileLength = 8 * tile
  BY InBlocks
<1>3. A \in Nat /\ A <= 8 * stride /\ AlignUp(t.lruTileLength, 8) = 8 * tile
  BY <1>1, <1>2, InBlocks, AlignUpBlocks
<1>4. /\ L = [bitmapLocal |-> L.bitmapLocal, lruLocal |-> L.lruLocal,
              valuesLocal |-> L.valuesLocal, countLocal |-> L.countLocal]
      /\ L.bitmapLocal = CopiedIn(0, t.lruLength)
      /\ L.lruLocal = CopiedIn(t.lruStride, t.lruTileLength)
      /\ L.valuesLocal = Region(t.lruStride + t.lruTileLength, t.lruTileLength)
      /\ L.countLocal = Region(t.lruStride + 2 * t.lruTileLength, 1)
  BY DEF CandidateLocalLayout
<1>5. CandidateLocalBytes(t) = 32 * (stride + 2 * tile + 1)
  BY <1>1, <1>2, BlockIs8 DEF CandidateLocalBytes, Int32Bytes
<1> HIDE DEF L
<1>6. /\ L.bitmapLocal.from = 0 /\ L.bitmapLocal.bytes = 4 * A
      /\ L.lruLocal.from = 32 * stride /\ L.lruLocal.bytes = 32 * tile
      /\ L.valuesLocal.from = 32 * (stride + tile) /\ L.valuesLocal.bytes = 32 * tile
      /\ L.countLocal.from = 32 * (stride + 2 * tile) /\ L.countLocal.bytes = 4
  BY <1>1, <1>2, <1>3, <1>4, RegionIs, CopiedInIs DEF IsTiling
<1> HIDE DEF A
<1>7. LayoutSafe(L, CandidateLocalBytes(t))
  BY <1>3, <1>4, <1>5, <1>6 DEF LayoutSafe, Apart, DataBlockBytes
<1> QED BY <1>7 DEF L

LEMMA FillSafe ==
    ASSUME NEW t, IsTiling(t)
    PROVE  LayoutSafe(FillLayout(t), MaterializeBytes(t))
<1> DEFINE L == FillLayout(t)
<1>1. PICK values \in Nat : t.valueStride = 8 * values
  BY InBlocks
<1>2. PICK tile \in Nat : t.hitTileLength = 8 * tile
  BY InBlocks
<1>3. PICK hitMeta \in Nat : t.hitMetaStride = 8 * hitMeta
  BY InBlocks
<1>4. PICK lruMeta \in Nat : t.lruMetaStride = 8 * lruMeta
  BY InBlocks
<1> DEFINE M == AlignUp(8 * tile, 32)
<1>5. M \in Nat
  BY AlignUpBounds
<1>6. /\ L = [candidateValueLocal |-> L.candidateValueLocal, hitLocal |-> L.hitLocal,
              outputLocal |-> L.outputLocal, hitCountLocal |-> L.hitCountLocal,
              candidateCountLocal |-> L.candidateCountLocal, maskLocal |-> L.maskLocal]
      /\ L.candidateValueLocal = CopiedIn(0, t.valueStride)
      /\ L.hitLocal = CopiedIn(t.valueStride, t.hitTileLength)
      /\ L.outputLocal = Region(t.valueStride + t.hitTileLength, t.hitTileLength)
      /\ L.hitCountLocal
           = CopiedIn(t.valueStride + t.hitTileLength + t.hitTileLength, t.hitMetaStride)
      /\ L.candidateCountLocal
           = CopiedIn(t.valueStride + t.hitTileLength + t.hitTileLength + t.hitMetaStride,
                      t.lruMetaStride)
      /\ L.maskLocal.from
           = 4 * (t.valueStride + t.hitTileLength + t.hitTileLength + t.hitMetaStride
                    + t.lruMetaStride + 8)
      /\ L.maskLocal.bytes = M
  BY <1>2, BlockIs8 DEF FillLayout, Int32Bytes, DataBlockBytes
<1> DEFINE fill == 32 * (values + hitMeta + lruMeta + 2 * tile + 1) + M
           keep == 4 * (t.lruStride + t.hitMetaStride + t.lruMetaStride
                          + 2 * t.lruTileLength + 8)
<1>7. keep \in Nat
  BY DEF IsTiling, Whole
<1>8. MaterializeBytes(t) = IF fill > keep THEN fill ELSE keep
  <2>1. MaterializeBytes(t)
          = LET f == 4 * (t.valueStride + (t.hitMetaStride + t.lruMetaStride)
                            + 2 * t.hitTileLength + 8) + M
                p == 4 * (t.lruStride + (t.hitMetaStride + t.lruMetaStride)
                            + 2 * t.lruTileLength + 8)
            IN  IF f > p THEN f ELSE p
    BY <1>2, BlockIs8 DEF MaterializeBytes, Int32Bytes, DataBlockBytes
  <2> HIDE DEF M
  <2>2. 4 * (t.valueStride + (t.hitMetaStride + t.lruMetaStride) + 2 * t.hitTileLength + 8) + M
          = fill
    BY <1>1, <1>2, <1>3, <1>4, <1>5
  <2>3. 4 * (t.lruStride + (t.hitMetaStride + t.lruMetaStride) + 2 * t.lruTileLength + 8) = keep
    BY DEF IsTiling, Whole
  <2> QED BY <2>1, <2>2, <2>3
<1> HIDE DEF L, M, keep
<1>9. MaterializeBytes(t) \in Nat /\ fill <= MaterializeBytes(t)
  BY <1>5, <1>7, <1>8
<1>10. /\ L.candidateValueLocal.from = 0 /\ L.candidateValueLocal.bytes = 32 * values
       /\ L.hitLocal.from = 32 * values /\ L.hitLocal.bytes = 32 * tile
       /\ L.outputLocal.from = 32 * (values + tile) /\ L.outputLocal.bytes = 32 * tile
       /\ L.hitCountLocal.from = 32 * (values + 2 * tile)
       /\ L.hitCountLocal.bytes = 32 * hitMeta
       /\ L.candidateCountLocal.from = 32 * (values + 2 * tile + hitMeta)
       /\ L.candidateCountLocal.bytes = 32 * lruMeta
       /\ L.maskLocal.from = 32 * (values + 2 * tile + hitMeta + lruMeta + 1)
       /\ L.maskLocal.bytes = M
  BY <1>1, <1>2, <1>3, <1>4, <1>6, RegionIs, CopiedInIs, AlignUpBlocks
<1>11. LayoutSafe(L, MaterializeBytes(t))
  BY <1>5, <1>6, <1>9, <1>10 DEF LayoutSafe, Apart, DataBlockBytes
<1> QED BY <1>11 DEF L

LEMMA KeepSafe ==
    ASSUME NEW t, IsTiling(t)
    PROVE  LayoutSafe(KeepLayout(t), MaterializeBytes(t))
<1> DEFINE L == KeepLayout(t)
           A == AlignUp(t.lruLength, 8)
<1>1. PICK stride \in Nat : t.lruStride = 8 * stride
  BY InBlocks
<1>2. PICK tile \in Nat : t.lruTileLength = 8 * tile
  BY InBlocks
<1>3. PICK hitMeta \in Nat : t.hitMetaStride = 8 * hitMeta
  BY InBlocks
<1>4. PICK lruMeta \in Nat : t.lruMetaStride = 8 * lruMeta
  BY InBlocks
<1>5. A \in Nat /\ A <= 8 * stride
  BY <1>1, InBlocks
<1>6. /\ L = [bitmapLocal |-> L.bitmapLocal, lruLocal |-> L.lruLocal,
              outputLocal |-> L.outputLocal, hitCountLocal |-> L.hitCountLocal,
              candidateCountLocal |-> L.candidateCountLocal, scalarLocal |-> L.scalarLocal]
      /\ L.bitmapLocal = CopiedIn(0, t.lruLength)
      /\ L.lruLocal = CopiedIn(t.lruStride, t.lruTileLength)
      /\ L.outputLocal = Region(t.lruStride + t.lruTileLength, t.lruTileLength)
      /\ L.hitCountLocal
           = CopiedIn(t.lruStride + t.lruTileLength + t.lruTileLength, t.hitMetaStride)
      /\ L.candidateCountLocal
           = CopiedIn(t.lruStride + t.lruTileLength + t.lruTileLength + t.hitMetaStride,
                      t.lruMetaStride)
      /\ L.scalarLocal
           = Region(t.lruStride + t.lruTileLength + t.lruTileLength + t.hitMetaStride
                      + t.lruMetaStride, 1)
  BY DEF KeepLayout
<1> DEFINE fill == 4 * (t.valueStride + (t.hitMetaStride + t.lruMetaStride)
                          + 2 * t.hitTileLength + 8) + AlignUp(t.hitTileLength, 32)
           keep == 32 * (stride + hitMeta + lruMeta + 2 * tile + 1)
<1>7. fill \in Nat
  BY SizesNat
<1>8. MaterializeBytes(t) = IF fill > keep THEN fill ELSE keep
  <2>1. 4 * (t.lruStride + (t.hitMetaStride + t.lruMetaStride) + 2 * t.lruTileLength + 8) = keep
    BY <1>1, <1>2, <1>3, <1>4
  <2> QED BY <2>1, BlockIs8 DEF MaterializeBytes, Int32Bytes, DataBlockBytes
<1> HIDE DEF L, A, fill
<1>9. MaterializeBytes(t) \in Nat /\ keep <= MaterializeBytes(t)
  BY <1>7, <1>8
<1>10. /\ L.bitmapLocal.from = 0 /\ L.bitmapLocal.bytes = 4 * A
       /\ L.lruLocal.from = 32 * stride /\ L.lruLocal.bytes = 32 * tile
       /\ L.outputLocal.from = 32 * (stride + tile) /\ L.outputLocal.bytes = 32 * tile
       /\ L.hitCountLocal.from = 32 * (stride + 2 * tile)
       /\ L.hitCountLocal.bytes = 32 * hitMeta
       /\ L.candidateCountLocal.from = 32 * (stride + 2 * tile + hitMeta)
       /\ L.candidateCountLocal.bytes = 32 * lruMeta
       /\ L.scalarLocal.from = 32 * (stride + 2 * tile + hitMeta + lruMeta)
       /\ L.scalarLocal.bytes = 4
  BY <1>1, <1>2, <1>3, <1>4, <1>6, RegionIs, CopiedInIs, AlignUpBlocks DEF IsTiling, A
<1>11. LayoutSafe(L, MaterializeBytes(t))
  BY <1>5, <1>6, <1>9, <1>10 DEF LayoutSafe, Apart, DataBlockBytes
<1> QED BY <1>11 DEF L

LEMMA KeepWriteSafe ==
    ASSUME NEW t, IsTiling(t)
    PROVE  LayoutSafe(KeepWriteLayout(t), KeepWriteBytes(t))
<1> DEFINE L == KeepWriteLayout(t)
<1>1. PICK meta \in Nat : t.lruMetaStride = 8 * meta
  BY InBlocks
<1>2. PICK tile \in Nat : t.lruTileLength = 8 * tile
  BY InBlocks
<1>3. /\ L = [countLocal |-> L.countLocal, valuesLocal |-> L.valuesLocal]
      /\ L.countLocal = CopiedIn(0, t.lruMetaStride)
      /\ L.valuesLocal = CopiedIn(t.lruMetaStride, t.lruTileLength)
  BY DEF KeepWriteLayout
<1>4. KeepWriteBytes(t) = 32 * (meta + tile)
  BY <1>1, <1>2 DEF KeepWriteBytes, Int32Bytes
<1> HIDE DEF L
<1>5. /\ L.countLocal.from = 0 /\ L.countLocal.bytes = 32 * meta
      /\ L.valuesLocal.from = 32 * meta /\ L.valuesLocal.bytes = 32 * tile
  BY <1>1, <1>2, <1>3, CopiedInIs, AlignUpBlocks
<1>6. LayoutSafe(L, KeepWriteBytes(t))
  BY <1>3, <1>4, <1>5 DEF LayoutSafe, Apart, DataBlockBytes
<1> QED BY <1>6 DEF L

------------------------------------------------------------------------------
\* The host's bound covers what each kernel asks for: the two files agree.
LEMMA BoundCovers ==
    ASSUME NEW t, IsTiling(t)
    PROVE  LET bound == MaximumKernelUbBytes(t)
           IN  /\ bound \in Int
               /\ HitLocalBytes(t) \in Int /\ CandidateLocalBytes(t) \in Int
               /\ MaterializeBytes(t) \in Int /\ KeepWriteBytes(t) \in Int
               /\ HitLocalBytes(t) <= bound /\ CandidateLocalBytes(t) <= bound
               /\ MaterializeBytes(t) <= bound /\ KeepWriteBytes(t) <= bound
<1> DEFINE metadata == t.hitMetaStride + t.lruMetaStride
           hitLocal == 4 * (t.lruStride + AlignUp(t.k, 8) + t.hitMetaStride)
           candidate == 4 * (t.lruStride + 2 * t.lruTileLength + 8)
           fill == 4 * (t.valueStride + metadata + 2 * t.hitTileLength + 8)
                     + AlignUp(t.hitTileLength, 32)
           keep == 4 * (t.lruStride + metadata + 2 * t.lruTileLength + 8)
           keepWrite == 4 * (t.lruMetaStride + t.lruTileLength)
           bytes == {hitLocal, candidate, fill, keep, keepWrite}
<1>1. /\ HitLocalBytes(t) = hitLocal /\ CandidateLocalBytes(t) = candidate
      /\ MaterializeBytes(t) = (IF fill > keep THEN fill ELSE keep)
      /\ KeepWriteBytes(t) = keepWrite
  BY BlockIs8 DEF HitLocalBytes, CandidateLocalBytes, MaterializeBytes, KeepWriteBytes,
                  Int32Bytes, DataBlockBytes
<1>2. MaximumKernelUbBytes(t) = CHOOSE m \in bytes : \A n \in bytes : n <= m
  BY BlockIs8 DEF MaximumKernelUbBytes, Int32Bytes, DataBlockBytes
<1>3. /\ hitLocal \in Nat /\ candidate \in Nat /\ fill \in Nat /\ keep \in Nat
      /\ keepWrite \in Nat
  BY SizesNat
<1> HIDE DEF hitLocal, candidate, fill, keep, keepWrite
<1>4. \E m \in bytes : \A n \in bytes : n <= m
  BY <1>3
<1>5. MaximumKernelUbBytes(t) \in bytes /\ \A n \in bytes : n <= MaximumKernelUbBytes(t)
  BY <1>2, <1>4
<1> QED BY <1>1, <1>3, <1>5

\* For every shape and every number of cores, a device whose buffer passes the
\* host's check is used safely by all four kernels.
THEOREM TilingIsUbSafe ==
    ASSUME NEW batchSize \in Nat \ {0}, NEW k \in Nat \ {0}, NEW coreNum \in Nat \ {0},
           NEW ubBytes \in Int, MaximumKernelUbBytes(TilingOf(batchSize, k, coreNum)) <= ubBytes
    PROVE  UbSafe(TilingOf(batchSize, k, coreNum), ubBytes)
<1> DEFINE t == TilingOf(batchSize, k, coreNum)
<1>1. IsTiling(t)
  BY TilingIsTiling
<1> HIDE DEF t
<1>2. \A layout \in Layouts(t) : LayoutSafe(layout[1], layout[2])
  BY <1>1, HitLocalSafe, CandidateLocalSafe, FillSafe, KeepSafe, KeepWriteSafe DEF Layouts
<1>3. \A layout \in Layouts(t) : layout[2] <= ubBytes
  <2>1. MaximumKernelUbBytes(t) <= ubBytes
    BY DEF t
  <2> QED BY <1>1, <2>1, BoundCovers DEF Layouts
<1>4. UbSafe(t, ubBytes)
  BY <1>2, <1>3 DEF UbSafe, LayoutSafe
<1> QED BY <1>4 DEF t

------------------------------------------------------------------------------

Stages == {"arguments", "output", "platform", "sizes", "workspaces", "kernels",
           "returned", "raised"}

Names == {"hitBitmap", "hitCounts", "candidateCounts", "candidateValues", "keepCounts",
          "keepValues"}

LEMMA NamesFacts ==
    /\ WorkspaceNames \in Seq(Names) /\ Len(WorkspaceNames) = 6
    /\ \A i \in 1..6 : WorkspaceNames[i] \in Names
<1>1. WorkspaceNames \in Seq(Names) /\ Len(WorkspaceNames) = 6
  BY DEF WorkspaceNames, Names
<1>2. \A s \in Seq(Names) : \A i \in 1..Len(s) : s[i] \in Names
  OBVIOUS
<1> QED BY <1>1, <1>2

\* The workspaces allocated so far are the first ones of the list.
AllocatedInOrder ==
    /\ workspaces \in Seq(Names) /\ Len(workspaces) <= 6
    /\ \A i \in 1..Len(workspaces) : workspaces[i] = WorkspaceNames[i]

\* The block dimensions of the kernels launched so far.
LaunchedInOrder ==
    /\ launched \in Seq(1..platform.coreNum) /\ Len(launched) <= 4
    /\ \A n \in 1..Len(launched) :
          launched[n] = MakeBlockDim(TaskCountOf(n, tiling), platform.coreNum)

\* What a stage can rely on.
HostInv ==
    /\ call \in Calls /\ platform \in Platforms /\ stage \in Stages
    /\ AllocatedInOrder
    /\ LaunchedInOrder
    /\ stage \in Stages \ {"arguments", "raised"} => ArgumentsValid
    /\ stage \in {"sizes", "workspaces", "kernels", "returned"} =>
          PlatformValid /\ tiling = TilingOf(call.batchSize, call.k, platform.coreNum)
    /\ stage \in {"workspaces", "kernels", "returned"} => SizesValid
    /\ stage \in {"kernels", "returned"} => Len(workspaces) = 6
    /\ launched # <<>> => stage \in {"kernels", "returned"}
    /\ stage = "returned" => Len(launched) = 4

LEMMA HostInit_Inv == HostInit => HostInv
BY DEF HostInit, HostInv, Stages, AllocatedInOrder, LaunchedInOrder

LEMMA AppendFacts ==
    ASSUME NEW S, NEW s \in Seq(S), NEW e \in S
    PROVE  /\ Append(s, e) \in Seq(S) /\ Len(Append(s, e)) = Len(s) + 1
           /\ Append(s, e)[Len(s) + 1] = e /\ Append(s, e) # <<>>
           /\ \A i \in 1..Len(s) : Append(s, e)[i] = s[i]
OBVIOUS

\* The shape facts of a tiling that passed the checks.
LEMMA TaskCountNat ==
    ASSUME NEW B \in Nat \ {0}, NEW K \in Nat \ {0}, NEW C \in Nat \ {0}, NEW n \in 1..4
    PROVE  TaskCountOf(n, TilingOf(B, K, C)) \in Nat \ {0}
<1> DEFINE t == TilingOf(B, K, C)
<1>1. /\ t.batchSize = B
      /\ t.hitTileCount = TileCount(K, MakeParallelTileLength(K, B, C))
      /\ t.lruTileCount = TileCount(2 * K, MakeParallelTileLength(2 * K, B, C))
  BY DEF TilingOf
<1> HIDE DEF t
<1>2. 2 * K \in Nat \ {0}
  OBVIOUS
<1>3. t.hitTileCount \in Nat \ {0} /\ t.lruTileCount \in Nat \ {0}
  <2>1. \A m \in Nat \ {0} : MakeParallelTileLength(m, B, C) \in Nat \ {0}
    BY TileLengthBounds
  <2>2. \A m, tl \in Nat \ {0} : TileCount(m, tl) \in Nat \ {0}
    BY TilesPartition
  <2> QED BY <1>1, <1>2, <2>1, <2>2
<1>4. /\ B * t.lruTileCount \in Nat \ {0}
      /\ B * (t.hitTileCount + t.lruTileCount) \in Nat \ {0}
  <2>1. \A m \in Nat \ {0} : B * m \in Nat \ {0}
    OBVIOUS
  <2>2. t.hitTileCount + t.lruTileCount \in Nat \ {0}
    BY <1>3
  <2> QED BY <2>1, <2>2, <1>3
<1>5. TaskCountOf(n, t) \in Nat \ {0}
  BY <1>1, <1>4 DEF TaskCountOf
<1> QED BY <1>5 DEF t

LEMMA HostNext_Inv == HostInv /\ [HostNext]_hostVars => HostInv'
<1> SUFFICES ASSUME HostInv, [HostNext]_hostVars PROVE HostInv'
  OBVIOUS
<1> USE DEF HostInv, Stages
<1>1. CASE AcceptArguments
  BY <1>1 DEF AcceptArguments, GoOn, ArgumentsValid, AllocatedInOrder, LaunchedInOrder
<1>2. CASE AllocateOutput
  BY <1>2 DEF AllocateOutput, GoOn, ArgumentsValid, AllocatedInOrder, LaunchedInOrder
<1>3. CASE \/ RejectArguments \/ RejectPlatform \/ RejectSizes \/ OutOfMemory
  BY <1>3 DEF RejectArguments, RejectPlatform, RejectSizes, OutOfMemory, Raise, GoOn,
              AllocatedInOrder, LaunchedInOrder
<1>4. CASE CutIntoTiles
  <2>1. /\ stage = "platform" /\ stage' = "sizes" /\ PlatformValid
        /\ tiling' = TilingOf(call.batchSize, call.k, platform.coreNum)
        /\ UNCHANGED <<call, platform, workspaces, launched>>
    BY <1>4 DEF CutIntoTiles, GoOn
  <2>2. launched = <<>>
    BY <2>1
  <2> QED BY <2>1, <2>2 DEF ArgumentsValid, PlatformValid, AllocatedInOrder, LaunchedInOrder
<1>5. CASE AcceptSizes
  BY <1>5 DEF AcceptSizes, GoOn, ArgumentsValid, PlatformValid, SizesValid,
              AllocatedInOrder, LaunchedInOrder
<1>6. CASE AllocateWorkspace
  <2> DEFINE w == WorkspaceNames[Len(workspaces) + 1]
  <2>1. /\ stage = "workspaces" /\ Len(workspaces) < 6
        /\ workspaces' = Append(workspaces, w)
        /\ stage' = IF Len(workspaces') = 6 THEN "kernels" ELSE stage
        /\ UNCHANGED <<call, platform, tiling, launched>>
    BY <1>6 DEF AllocateWorkspace, WorkspaceNames
  <2>2. Len(workspaces) \in Nat /\ w \in Names
    <3>1. Len(workspaces) + 1 \in 1..6
      BY <2>1 DEF AllocatedInOrder
    <3>2. \A i \in 1..6 : WorkspaceNames[i] \in Names
      BY NamesFacts
    <3> QED BY <3>1, <3>2 DEF AllocatedInOrder
  <2> HIDE DEF w
  <2>3. AllocatedInOrder'
    <3>1. /\ workspaces' \in Seq(Names) /\ Len(workspaces') = Len(workspaces) + 1
          /\ workspaces'[Len(workspaces) + 1] = w
          /\ \A i \in 1..Len(workspaces) : workspaces'[i] = workspaces[i]
      BY <2>1, <2>2, AppendFacts DEF AllocatedInOrder
    <3>2. \A i \in 1 .. Len(workspaces) + 1 : workspaces'[i] = WorkspaceNames[i]
      BY <3>1, <2>2 DEF AllocatedInOrder, w
    <3> QED BY <3>1, <3>2, <2>1 DEF AllocatedInOrder
  <2>4. launched = <<>> /\ launched' = <<>>
    BY <2>1
  <2> QED BY <2>1, <2>3, <2>4 DEF ArgumentsValid, PlatformValid, SizesValid, LaunchedInOrder
<1>7. CASE LaunchKernel
  <2> DEFINE n == Len(launched) + 1
             dim == MakeBlockDim(TaskCountOf(n, tiling), platform.coreNum)
  <2>1. /\ stage = "kernels" /\ n <= 4
        /\ launched' = Append(launched, dim)
        /\ stage' = IF n = 4 THEN "returned" ELSE stage
        /\ UNCHANGED <<call, platform, tiling, workspaces>>
    BY <1>7 DEF LaunchKernel
  <2>2. n \in 1..4
    BY <2>1 DEF LaunchedInOrder
  <2>3. dim \in 1..platform.coreNum
    <3>1. /\ call.batchSize \in Nat \ {0} /\ call.k \in Nat \ {0}
          /\ platform.coreNum \in Nat \ {0}
      BY <2>1, HostAssumption DEF ArgumentsValid, PlatformValid
    <3>2. TaskCountOf(n, tiling) \in Nat
      BY <2>1, <2>2, <3>1, TaskCountNat
    <3> QED BY <3>1, <3>2, BlockDimBounds
  <2> HIDE DEF dim
  <2>4. LaunchedInOrder'
    <3>1. /\ launched' \in Seq(1..platform.coreNum) /\ Len(launched') = n
          /\ launched'[n] = dim /\ \A i \in 1..Len(launched) : launched'[i] = launched[i]
      BY <2>1, <2>3, AppendFacts DEF LaunchedInOrder
    <3>2. \A i \in 1..n : launched'[i] = MakeBlockDim(TaskCountOf(i, tiling), platform.coreNum)
      <4> TAKE i \in 1..n
      <4>1. Len(launched) \in Nat
        BY DEF LaunchedInOrder
      <4>2. i = n \/ i \in 1..Len(launched)
        BY <4>1
      <4> QED BY <3>1, <4>2 DEF LaunchedInOrder, dim
    <3> QED BY <3>1, <3>2, <2>1, <2>2 DEF LaunchedInOrder
  <2>5. Len(launched') = n
    BY <2>1, <2>3, AppendFacts DEF LaunchedInOrder
  <2> QED BY <2>1, <2>4, <2>5 DEF ArgumentsValid, PlatformValid, SizesValid, AllocatedInOrder
<1>8. CASE UNCHANGED hostVars
  BY <1>8 DEF hostVars, ArgumentsValid, PlatformValid, SizesValid, AllocatedInOrder,
              LaunchedInOrder
<1> QED BY <1>1, <1>2, <1>3, <1>4, <1>5, <1>6, <1>7, <1>8 DEF HostNext, Ended

THEOREM HostInvariant == HostSpec => []HostInv
BY HostInit_Inv, HostNext_Inv, PTL DEF HostSpec

------------------------------------------------------------------------------
\* The launched call is one that the checks let through.
LEMMA LaunchedFacts ==
    ASSUME HostInv, launched # <<>>
    PROVE  /\ call.batchSize \in Nat \ {0} /\ call.k \in Nat \ {0}
           /\ platform.coreNum \in Nat \ {0}
           /\ tiling = TilingOf(call.batchSize, call.k, platform.coreNum)
           /\ SizesValid
BY HostAssumption DEF HostInv, ArgumentsValid, PlatformValid

\* The host function's state is well-formed: the workspaces are allocated in
\* order, no kernel is launched on more blocks than there are cores.
THEOREM HostTypeCorrect == HostSpec => []HostTypeOK
<1>1. HostInv => HostTypeOK
  <2> SUFFICES ASSUME HostInv PROVE HostTypeOK
    OBVIOUS
  <2> DEFINE n == Len(workspaces)
  <2>1. /\ workspaces \in Seq(Names) /\ n <= 6
        /\ \A i \in 1..n : workspaces[i] = WorkspaceNames[i]
    BY DEF HostInv, AllocatedInOrder
  <2>2. n \in Nat
    BY <2>1, LenProperties
  <2> HIDE DEF n
  <2>3. \A i \in 1..n : WorkspaceNames[i] \in Names
    BY <2>1, <2>2, NamesFacts
  <2>4. /\ SubSeq(WorkspaceNames, 1, n) \in Seq(Names)
        /\ Len(SubSeq(WorkspaceNames, 1, n)) = IF 1 <= n THEN n-1+1 ELSE 0
        /\ \A i \in 1 .. n-1+1 : SubSeq(WorkspaceNames, 1, n)[i] = WorkspaceNames[1+i-1]
    <3>1. 1 \in Int /\ n \in Int
      BY <2>2
    <3> QED BY <3>1, <2>3, SubSeqProperties
  <2>5. /\ Len(SubSeq(WorkspaceNames, 1, n)) = n
        /\ \A i \in 1..n : SubSeq(WorkspaceNames, 1, n)[i] = WorkspaceNames[i]
    BY <2>2, <2>4
  <2>6. workspaces = SubSeq(WorkspaceNames, 1, n)
    BY <2>1, <2>4, <2>5, SeqEqual DEF n
  <2> QED BY <2>6 DEF HostInv, HostTypeOK, Stages, LaunchedInOrder, n
<1> QED BY <1>1, HostInvariant, PTL

\* For every shape and device, kernels only run in a buffer that fits them.
THEOREM LaunchesSafe == HostSpec => []LaunchesAreUbSafe
<1>1. HostInv => LaunchesAreUbSafe
  <2> SUFFICES ASSUME HostInv, launched # <<>>
               PROVE  UbSafe(tiling, platform.ubSizeBytes - kUbReserveBytes)
    BY DEF LaunchesAreUbSafe
  <2>1. platform.ubSizeBytes \in Nat /\ kUbReserveBytes \in Nat
    BY HostAssumption DEF HostInv
  <2>2. IsTiling(tiling)
    BY LaunchedFacts, TilingIsTiling
  <2>3. MaximumKernelUbBytes(tiling) \in Int
    BY <2>2, BoundCovers
  <2>4. MaximumKernelUbBytes(tiling) <= platform.ubSizeBytes - kUbReserveBytes
    BY <2>1, <2>3, LaunchedFacts DEF SizesValid
  <2> QED BY <2>1, <2>4, LaunchedFacts, TilingIsUbSafe
<1> QED BY <1>1, HostInvariant, PTL

\* A call that raises has launched nothing; kernels find every workspace.
THEOREM RaisedTouchNothing == HostSpec => []RaisedCallsTouchNothing
<1>1. HostInv => RaisedCallsTouchNothing
  <2> SUFFICES ASSUME HostInv PROVE RaisedCallsTouchNothing
    OBVIOUS
  <2>1. stage = "raised" => launched = <<>>
    BY DEF HostInv
  <2>2. ASSUME launched # <<>> PROVE workspaces = WorkspaceNames
    <3>1. /\ workspaces \in Seq(Names) /\ Len(workspaces) = 6
          /\ \A i \in 1..Len(workspaces) : workspaces[i] = WorkspaceNames[i]
      BY <2>2 DEF HostInv, AllocatedInOrder
    <3>2. WorkspaceNames \in Seq(Names) /\ Len(WorkspaceNames) = 6
      BY NamesFacts
    <3> QED BY <3>1, <3>2, SeqEqual
  <2> QED BY <2>1, <2>2 DEF RaisedCallsTouchNothing
<1> QED BY <1>1, HostInvariant, PTL

------------------------------------------------------------------------------
\* Tiles cut a row exactly, and a metadata row has room for their counts.
LEMMA Cuts ==
    ASSUME NEW length \in Nat \ {0}, NEW tileLength \in Nat \ {0}
    PROVE  LET count == TileCount(length, tileLength)
           IN  CutsExactly(length, tileLength, count, AlignUp(count, kInt32PerDataBlock))
<1> DEFINE count == TileCount(length, tileLength)
<1>1. /\ count \in Nat \ {0}
      /\ \A t \in Slots(count) :
            /\ t * tileLength \in Slots(length)
            /\ Tile(length, tileLength, t)
                 = {p \in Slots(length) : t * tileLength <= p /\ p < t * tileLength + tileLength}
      /\ \A p \in Slots(length) :
            /\ p \div tileLength \in Slots(count)
            /\ p \in Tile(length, tileLength, p \div tileLength)
      /\ \A t, u \in Slots(count) :
            t # u => Tile(length, tileLength, t) \cap Tile(length, tileLength, u) = {}
  BY TilesPartition
<1> HIDE DEF count
<1>2. \A t \in Slots(count) : Tile(length, tileLength, t) # {}
  <2> TAKE t \in Slots(count)
  <2> DEFINE start == t * tileLength
  <2>1. start \in Slots(length)
    BY <1>1
  <2>2. Tile(length, tileLength, t)
          = {p \in Slots(length) : start <= p /\ p < start + tileLength}
    BY <1>1
  <2> HIDE DEF start
  <2>3. start \in Int /\ start <= start /\ start < start + tileLength
    BY <2>1 DEF Slots
  <2>4. start \in Tile(length, tileLength, t)
    BY <2>1, <2>2, <2>3
  <2> QED BY <2>4
<1>3. UNION {Tile(length, tileLength, t) : t \in Slots(count)} = Slots(length)
  BY <1>1
<1>4. count <= AlignUp(count, kInt32PerDataBlock)
  BY <1>1, AlignUpBounds, TilingAssumption
<1> QED BY <1>1, <1>2, <1>3, <1>4 DEF CutsExactly, count

\* For every shape and number of cores, the tiles of a launched call cover its rows.
THEOREM TilesCover == HostSpec => []TilesCoverRows
<1>1. HostInv => TilesCoverRows
  <2> SUFFICES ASSUME HostInv, launched # <<>> PROVE TilesCoverRows
    BY DEF TilesCoverRows
  <2> DEFINE B == call.batchSize
             K == call.k
             C == platform.coreNum
             hTL == MakeParallelTileLength(K, B, C)
             lTL == MakeParallelTileLength(2 * K, B, C)
  <2>1. B \in Nat \ {0} /\ K \in Nat \ {0} /\ C \in Nat \ {0} /\ 2 * K \in Nat \ {0}
    BY LaunchedFacts
  <2>2. tiling = TilingOf(B, K, C)
    BY LaunchedFacts
  <2>3. /\ tiling.k = K /\ tiling.lruLength = 2 * K
        /\ tiling.hitTileLength = hTL /\ tiling.lruTileLength = lTL
        /\ tiling.hitTileCount = TileCount(K, hTL)
        /\ tiling.lruTileCount = TileCount(2 * K, lTL)
        /\ tiling.hitMetaStride = AlignUp(TileCount(K, hTL), kInt32PerDataBlock)
        /\ tiling.lruMetaStride = AlignUp(TileCount(2 * K, lTL), kInt32PerDataBlock)
        /\ tiling.valueStride = TileCount(2 * K, lTL) * lTL
    BY <2>2 DEF TilingOf
  <2> HIDE DEF B, K, C, hTL, lTL
  <2>4. hTL \in Nat \ {0} /\ lTL \in Nat \ {0}
    BY <2>1, TileLengthBounds DEF hTL, lTL
  <2>5. /\ CutsExactly(K, hTL, TileCount(K, hTL), AlignUp(TileCount(K, hTL), kInt32PerDataBlock))
        /\ CutsExactly(2 * K, lTL, TileCount(2 * K, lTL),
                       AlignUp(TileCount(2 * K, lTL), kInt32PerDataBlock))
    BY <2>1, <2>4, Cuts
  <2>6. 2 * K <= TileCount(2 * K, lTL) * lTL
    BY <2>1, <2>4, TilesPartition
  <2> QED BY <2>3, <2>5, <2>6 DEF TilesCoverRows
<1> QED BY <1>1, HostInvariant, PTL

LEMMA DivisionBound ==
    ASSUME NEW b \in Nat, NEW s \in Nat \ {0}, NEW m \in Nat, b <= m \div s
    PROVE  b * s <= m
<1> DEFINE q == m \div s
<1>1. q \in Nat /\ q * s <= m
  OBVIOUS
<1> HIDE DEF q
<1>2. b <= q
  BY DEF q
<1>3. b * s <= q * s
  BY <1>1, <1>2
<1>4. b * s \in Nat /\ q * s \in Nat
  BY <1>1
<1> QED BY <1>1, <1>3, <1>4

\* A row has no more tiles, of both kinds together, than elements in a value row.
LEMMA FewTiles ==
    ASSUME NEW K \in Nat \ {0}, NEW hTL \in Nat, NEW lTL \in Nat, hTL >= 8, lTL >= 8
    PROVE  TileCount(K, hTL) + TileCount(2 * K, lTL) <= TileCount(2 * K, lTL) * lTL
<1> DEFINE h == TileCount(K, hTL)
           l == TileCount(2 * K, lTL)
           v == l * lTL
<1>1. h \in Nat \ {0} /\ h * hTL < K + hTL
  BY DEF TileCount
<1>2. l \in Nat \ {0} /\ 2 * K <= v /\ v \in Nat
  BY TilesPartition
<1> HIDE DEF h, l
<1>3. 8 * (h - 1) < K
  <2>1. (h - 1) * 8 <= (h - 1) * hTL
    BY <1>1
  <2>2. (h - 1) * hTL = h * hTL - hTL
    BY <1>1
  <2> QED BY <1>1, <2>1, <2>2
<1>4. 8 * l <= v
  BY <1>2
<1> HIDE DEF v
<1>5. h + l <= v
  BY <1>1, <1>2, <1>3, <1>4
<1> QED BY <1>5 DEF h, l, v

\* For every shape, device and limits: the host's checks cover every product.
THEOREM ProductsFit == HostSpec => []NoOverflow
<1>1. HostInv => NoOverflow
  <2> SUFFICES ASSUME HostInv, launched # <<>> PROVE NoOverflow
    BY DEF NoOverflow
  <2> DEFINE B == call.batchSize
             K == call.k
             C == platform.coreNum
             hTL == MakeParallelTileLength(K, B, C)
             lTL == MakeParallelTileLength(2 * K, B, C)
             t == tiling
  <2>1. B \in Nat \ {0} /\ K \in Nat \ {0} /\ C \in Nat \ {0} /\ 2 * K \in Nat \ {0}
    BY LaunchedFacts
  <2>2. t = TilingOf(B, K, C) /\ IsTiling(t)
    BY <2>1, LaunchedFacts, TilingIsTiling
  <2>3. /\ t.batchSize = B
        /\ t.hitTileCount = TileCount(K, hTL) /\ t.lruTileCount = TileCount(2 * K, lTL)
        /\ t.valueStride = TileCount(2 * K, lTL) * lTL
    BY <2>2 DEF TilingOf
  <2>4. \A stride \in {t.lruStride, t.valueStride, t.hitMetaStride, t.lruMetaStride} :
            stride \in Nat \ {0} /\ B <= kInt64Max \div stride
    BY <2>2, LaunchedFacts DEF SizesValid, IsTiling, Whole
  <2> HIDE DEF B, K, C, hTL, lTL, t
  <2>5. \A stride \in {t.lruStride, t.valueStride, t.hitMetaStride, t.lruMetaStride} :
            B * stride <= kInt64Max
    BY <2>1, <2>4, DivisionBound, HostAssumption
  <2>6. /\ hTL \in Nat /\ hTL >= 8 /\ lTL \in Nat /\ lTL >= 8
    BY <2>1, TileLengthWhole DEF hTL, lTL, Whole
  <2>7. t.hitTileCount \in Nat \ {0} /\ t.lruTileCount \in Nat \ {0}
    <3>1. \A m, n \in Nat \ {0} : TileCount(m, n) \in Nat \ {0}
      BY TilesPartition
    <3>2. hTL \in Nat \ {0} /\ lTL \in Nat \ {0}
      BY <2>6
    <3> QED BY <2>1, <2>3, <3>1, <3>2
  <2>8. t.hitTileCount + t.lruTileCount <= t.valueStride
    BY <2>1, <2>3, <2>6, FewTiles
  <2>9. \A n \in 1..4 : TaskCountOf(n, t) <= kInt64Max
    <3>1. \A m \in Nat : m <= t.valueStride => B * m <= B * t.valueStride
      BY <2>1, <2>4
    <3>2. B * t.valueStride <= kInt64Max /\ B * t.valueStride \in Nat
      BY <2>1, <2>4, <2>5
    <3>3. \A m \in Nat : m <= t.valueStride => B * m <= kInt64Max
      <4> TAKE m \in Nat
      <4> HAVE m <= t.valueStride
      <4>1. B * m \in Nat
        BY <2>1
      <4> QED BY <4>1, <3>1, <3>2, HostAssumption
    <3>4. /\ 1 \in Nat /\ 1 <= t.valueStride
          /\ t.lruTileCount \in Nat /\ t.lruTileCount <= t.valueStride
          /\ t.hitTileCount + t.lruTileCount \in Nat
      BY <2>4, <2>7, <2>8
    <3>5. B * 1 <= kInt64Max /\ B * t.lruTileCount <= kInt64Max
          /\ B * (t.hitTileCount + t.lruTileCount) <= kInt64Max
      BY <3>3, <3>4, <2>8
    <3>6. B * 1 = B
      BY <2>1
    <3> QED BY <3>5, <3>6, <2>3 DEF TaskCountOf
  <2> QED BY <2>3, <2>5, <2>9 DEF NoOverflow, t
<1> QED BY <1>1, HostInvariant, PTL

LEMMA ManyTiles ==
    ASSUME NEW length \in Nat \ {0}, NEW R \in Nat \ {0}, NEW tileLength \in Nat \ {0},
           tileLength <= length \div R
    PROVE  R <= TileCount(length, tileLength)
<1> DEFINE q == length \div R
           n == TileCount(length, tileLength)
<1>1. q \in Nat /\ q * R <= length
  OBVIOUS
<1>2. n \in Nat \ {0} /\ length <= n * tileLength
  BY TilesPartition
<1> HIDE DEF n
<1>3. tileLength <= q
  OBVIOUS
<1> HIDE DEF q
<1>4. SUFFICES ASSUME n < R PROVE FALSE
  BY <1>2 DEF n
<1>5. n * tileLength < R * tileLength
  BY <1>2, <1>4
<1>6. R * tileLength <= R * q
  BY <1>1, <1>3
<1>7. R * q = q * R /\ n * tileLength \in Nat /\ R * tileLength \in Nat /\ q * R \in Nat
  BY <1>1, <1>2
<1> QED BY <1>1, <1>2, <1>5, <1>6, <1>7

\* For every shape and device: a row with a data block for each of the tiles that
\* the cores ask for is cut into that many, so kernels 2, 3 and 4 use every core.
THEOREM CoresBusy == HostSpec => []CoresAreBusy
<1>1. HostInv => CoresAreBusy
  <2> DEFINE B == call.batchSize
             K == call.k
             C == platform.coreNum
             R == DesiredTilesPerRow(B, C)
             lTL == MakeParallelTileLength(2 * K, B, C)
             l == TileCount(2 * K, lTL)
             t == tiling
  <2> SUFFICES ASSUME HostInv, stage = "returned", t.lruLength \div R >= kInt32PerDataBlock
               PROVE  \A n \in 2..4 : launched[n] = C
    BY DEF CoresAreBusy
  <2>1. Len(launched) = 4 /\ launched # <<>>
    <3>1. Len(launched) = 4
      BY DEF HostInv
    <3>2. launched = <<>> => Len(launched) = 0
      OBVIOUS
    <3> QED BY <3>1, <3>2
  <2>2. B \in Nat \ {0} /\ K \in Nat \ {0} /\ C \in Nat \ {0} /\ 2 * K \in Nat \ {0}
    BY <2>1, LaunchedFacts
  <2>3. t = TilingOf(B, K, C)
    BY <2>1, LaunchedFacts
  <2>4. /\ t.batchSize = B /\ t.lruLength = 2 * K /\ t.lruTileCount = l
        /\ t.hitTileCount = TileCount(K, MakeParallelTileLength(K, B, C))
    BY <2>3 DEF TilingOf
  <2>5. \A n \in 1..4 : launched[n] = MakeBlockDim(TaskCountOf(n, t), C)
    BY <2>1 DEF HostInv, LaunchedInOrder
  <2>6. R \in Nat \ {0} /\ C <= B * R
    <3>1. \A b, c \in Nat \ {0} : (c + b - 1) \div b \in Nat \ {0} /\ c <= b * ((c + b - 1) \div b)
      OBVIOUS
    <3> QED BY <2>2, <3>1 DEF DesiredTilesPerRow
  <2> DEFINE share == (2 * K) \div R
  <2>7. share \in Nat /\ share >= 8
    BY <2>2, <2>4, <2>6, BlockIs8
  <2>8. lTL \in Nat \ {0} /\ lTL <= share
    <3> HIDE DEF R, share
    <3>1. lTL = MinInt64(MaxInt64(AlignDown(share, 8), 8), kMaximumTileLength)
      BY BlockIs8 DEF MakeParallelTileLength, R, share
    <3>2. AlignDown(share, 8) \in Nat /\ AlignDown(share, 8) <= share
      BY <2>7 DEF AlignDown
    <3> HIDE DEF lTL
    <3> QED BY <3>1, <3>2, <2>7, TilingAssumption DEF MinInt64, MaxInt64
  <2> HIDE DEF R, lTL, B, K, C, t
  <2>9. l \in Nat \ {0} /\ R <= l
    BY <2>2, <2>6, <2>8, ManyTiles, TilesPartition
  <2>10. t.hitTileCount \in Nat
    <3>1. MakeParallelTileLength(K, B, C) \in Nat \ {0}
      BY <2>2, TileLengthBounds
    <3> QED BY <2>2, <2>4, <3>1, TilesPartition
  <2> HIDE DEF l
  <2>11. \A n \in 2..4 : TaskCountOf(n, t) \in Nat /\ C <= TaskCountOf(n, t)
    <3>1. B * R <= B * l /\ B * l <= B * (t.hitTileCount + l)
      BY <2>2, <2>6, <2>9, <2>10
    <3>2. B * R \in Nat /\ B * l \in Nat /\ B * (t.hitTileCount + l) \in Nat
      BY <2>2, <2>6, <2>9, <2>10
    <3>3. C <= B * l /\ C <= B * (t.hitTileCount + l)
      BY <2>2, <2>6, <3>1, <3>2
    <3> QED BY <3>2, <3>3, <2>4 DEF TaskCountOf
  <2>12. \A m \in Nat : C <= m => MakeBlockDim(m, C) = C
    BY <2>2 DEF MakeBlockDim, MinInt64, MaxInt64
  <2> QED BY <2>5, <2>11, <2>12
<1> QED BY <1>1, HostInvariant, PTL
==============================================================================

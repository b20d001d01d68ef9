------------------------------- MODULE UbLayout ------------------------------
(***************************************************************************)
(* The unified buffer (UB) of a core: how each build_lru_plan kernel cuts  *)
(* its one work buffer into regions, and the host's upper bound of what    *)
(* the four kernels need.  The host and each kernel write these sums down  *)
(* separately; UbSafe says that they fit together.                         *)
(*                                                                         *)
(* A layout gives each local tensor its region: a byte offset and the      *)
(* bytes that are accessed from there on.                                  *)
(***************************************************************************)
EXTENDS LruTiling

Int32Bytes == 4
DataBlockBytes == 32

\* A data block holds a whole number of elements; cache line and largest tile are
\* whole numbers of data blocks.
ASSUME UbAssumption ==
    /\ Int32Bytes * kInt32PerDataBlock = DataBlockBytes
    /\ kInt32PerCacheLine % kInt32PerDataBlock = 0
    /\ kMaximumTileLength % kInt32PerDataBlock = 0

\* The host's tiling of a call with `batchSize' rows of k slots on coreNum cores.
TilingOf(batchSize, k, coreNum) ==
    LET lruLength     == 2 * k
        lruTileLength == MakeParallelTileLength(lruLength, batchSize, coreNum)
        hitTileLength == MakeParallelTileLength(k, batchSize, coreNum)
        lruTileCount  == TileCount(lruLength, lruTileLength)
        hitTileCount  == TileCount(k, hitTileLength)
    IN  [batchSize     |-> batchSize,
         k             |-> k,
         coreNum       |-> coreNum,
         lruLength     |-> lruLength,
         lruStride     |-> AlignUp(lruLength, kInt32PerCacheLine),
         lruTileLength |-> lruTileLength,
         hitTileLength |-> hitTileLength,
         lruTileCount  |-> lruTileCount,
         hitTileCount  |-> hitTileCount,
         hitMetaStride |-> AlignUp(hitTileCount, kInt32PerDataBlock),
         lruMetaStride |-> AlignUp(lruTileCount, kInt32PerDataBlock),
         valueStride   |-> lruTileCount * lruTileLength]

\* The host's bound, in bytes: the largest of the five layouts.
MaximumKernelUbBytes(t) ==
    LET hitLocal       == t.lruStride + AlignUp(t.k, kInt32PerDataBlock) + t.hitMetaStride
        candidateLocal == t.lruStride + 2 * t.lruTileLength + kInt32PerDataBlock
        metadata       == t.hitMetaStride + t.lruMetaStride
        fillHits       == t.valueStride + metadata + 2 * t.hitTileLength + kInt32PerDataBlock
        keepLru        == t.lruStride + metadata + 2 * t.lruTileLength + kInt32PerDataBlock
        keepWrite      == t.lruMetaStride + t.lruTileLength
        bytes          == {Int32Bytes * hitLocal, Int32Bytes * candidateLocal,
                           Int32Bytes * fillHits + AlignUp(t.hitTileLength, DataBlockBytes),
                           Int32Bytes * keepLru, Int32Bytes * keepWrite}
    IN  CHOOSE m \in bytes : \A n \in bytes : n <= m

------------------------------------------------------------------------------
\* A region accessed by the scalar or the vector unit, or copied out: exactly
\* `elements' int32 or float values from element `base' on.
Region(base, elements) == [from |-> Int32Bytes * base, bytes |-> Int32Bytes * elements]

\* A region copied into: DataCopyPad fills whole 32-byte blocks of the buffer.
CopiedIn(base, elements) ==
    [from |-> Int32Bytes * base, bytes |-> AlignUp(Int32Bytes * elements, DataBlockBytes)]

\* Mutant: the counts start right behind the hit row, inside its last data block.
HitLocalLayoutPacked(t) ==
    [bitmapLocal |-> Region(0, t.lruStride),
     hitLocal    |-> CopiedIn(t.lruStride, t.k),
     countLocal  |-> Region(t.lruStride + t.k, t.hitMetaStride)]

\* Kernel 1.
HitLocalLayout(t) ==
    LET hitLocalStride == AlignUp(t.k, kInt32PerDataBlock)
    IN  [bitmapLocal |-> Region(0, t.lruStride),
         hitLocal    |-> CopiedIn(t.lruStride, t.k),
         countLocal  |-> Region(t.lruStride + hitLocalStride, t.hitMetaStride)]

HitLocalBytes(t) ==
    Int32Bytes * (t.lruStride + AlignUp(t.k, kInt32PerDataBlock) + t.hitMetaStride)

\* Kernel 2.
CandidateLocalLayout(t) ==
    [bitmapLocal |-> CopiedIn(0, t.lruLength),
     lruLocal    |-> CopiedIn(t.lruStride, t.lruTileLength),
     valuesLocal |-> Region(t.lruStride + t.lruTileLength, t.lruTileLength),
     countLocal  |-> Region(t.lruStride + 2 * t.lruTileLength, 1)]

CandidateLocalBytes(t) ==
    Int32Bytes * (t.lruStride + 2 * t.lruTileLength + kInt32PerDataBlock)

\* Kernel 3, filling: behind the counts one data block stays unused.
FillLayout(t) ==
    LET outputBase         == t.valueStride + t.hitTileLength
        hitCountBase       == outputBase + t.hitTileLength
        candidateCountBase == hitCountBase + t.hitMetaStride
        scalarBase         == candidateCountBase + t.lruMetaStride
    IN  [candidateValueLocal |-> CopiedIn(0, t.valueStride),
         hitLocal            |-> CopiedIn(t.valueStride, t.hitTileLength),
         outputLocal         |-> Region(outputBase, t.hitTileLength),
         hitCountLocal       |-> CopiedIn(hitCountBase, t.hitMetaStride),
         candidateCountLocal |-> CopiedIn(candidateCountBase, t.lruMetaStride),
         maskLocal |-> [from  |-> Int32Bytes * (scalarBase + kInt32PerDataBlock),
                        bytes |-> AlignUp(t.hitTileLength, DataBlockBytes)]]

\* Kernel 3, keeping.
KeepLayout(t) ==
    LET outputBase         == t.lruStride + t.lruTileLength
        hitCountBase       == outputBase + t.lruTileLength
        candidateCountBase == hitCountBase + t.hitMetaStride
    IN  [bitmapLocal         |-> CopiedIn(0, t.lruLength),
         lruLocal            |-> CopiedIn(t.lruStride, t.lruTileLength),
         outputLocal         |-> Region(outputBase, t.lruTileLength),
         hitCountLocal       |-> CopiedIn(hitCountBase, t.hitMetaStride),
         candidateCountLocal |-> CopiedIn(candidateCountBase, t.lruMetaStride),
         scalarLocal         |-> Region(candidateCountBase + t.lruMetaStride, 1)]

\* The buffer of kernel 3 is large enough for either kind of task.
MaterializeBytes(t) ==
    LET metadata == t.hitMetaStride + t.lruMetaStride
        fill     == Int32Bytes * (t.valueStride + metadata + 2 * t.hitTileLength
                                      + kInt32PerDataBlock)
                        + AlignUp(t.hitTileLength, DataBlockBytes)
        keep     == Int32Bytes * (t.lruStride + metadata + 2 * t.lruTileLength
                                      + kInt32PerDataBlock)
    IN  IF fill > keep THEN fill ELSE keep

\* Kernel 4.
KeepWriteLayout(t) ==
    [countLocal  |-> CopiedIn(0, t.lruMetaStride),
     valuesLocal |-> CopiedIn(t.lruMetaStride, t.lruTileLength)]

KeepWriteBytes(t) == Int32Bytes * (t.lruMetaStride + t.lruTileLength)

------------------------------------------------------------------------------
Layouts(t) ==
    {<<HitLocalLayout(t), HitLocalBytes(t)>>, <<CandidateLocalLayout(t), CandidateLocalBytes(t)>>,
     <<FillLayout(t), MaterializeBytes(t)>>, <<KeepLayout(t), MaterializeBytes(t)>>,
     <<KeepWriteLayout(t), KeepWriteBytes(t)>>}

Apart(r, s) == r.from + r.bytes <= s.from \/ s.from + s.bytes <= r.from

\* A kernel's regions do not overlap, start on a 32-byte boundary, lie in the
\* buffer the kernel asks for, and the host's bound covers that buffer.
UbSafe(t, ubBytes) ==
    \A layout \in Layouts(t) :
        /\ \A r, s \in DOMAIN layout[1] : r # s => Apart(layout[1][r], layout[1][s])
        /\ \A r \in DOMAIN layout[1] :
              /\ layout[1][r].from % DataBlockBytes = 0
              /\ layout[1][r].from + layout[1][r].bytes <= layout[2]
        /\ layout[2] <= ubBytes
==============================================================================

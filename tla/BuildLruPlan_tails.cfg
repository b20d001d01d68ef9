\* The constants of the source: a row of 9 slots and 18 ids on 2 cores has 2 hit
\* tiles and 3 lru tiles, the last of them short, and padded strides.
CONSTANTS
    kInt32PerDataBlock = 8
    kInt32PerCacheLine = 128
    kMaximumTileLength = 256
    batchSize = 1
    k = 9
    coreNum = 2
    LruRows <- RotatedLruRows
    HitRows <- TailHitRows
    Garbage = {7}
SPECIFICATION Spec
INVARIANTS PlanCorrect

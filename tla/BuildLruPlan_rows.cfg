\* Two rows of 2 slots and 4 ids on 3 cores: kernels mix tasks of both rows.
CONSTANTS
    kInt32PerDataBlock = 1
    kInt32PerCacheLine = 4
    kMaximumTileLength = 4
    batchSize = 2
    k = 2
    coreNum = 3
    LruRows <- RotatedLruRows
    HitRows <- SomeHitRows
    Garbage = {1, 9}
SPECIFICATION FairSpec
PROPERTIES Refines Terminates

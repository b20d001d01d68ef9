\* One row of 3 slots and 6 ids: 3 hit tiles and 3 lru tiles of 2 on 3 cores.
CONSTANTS
    kInt32PerDataBlock = 1
    kInt32PerCacheLine = 4
    kMaximumTileLength = 4
    batchSize = 1
    k = 3
    coreNum = 3
    LruRows <- RotatedLruRows
    HitRows <- AllHitRows
    Garbage = {7}
SPECIFICATION Spec
INVARIANTS TypeOK BurstsInBounds BurstsDisjoint EarlierKernelsComplete CountsBalance
           PlanCorrect
PROPERTY TaskInputsStable

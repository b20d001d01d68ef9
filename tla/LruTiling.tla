------------------------------ MODULE LruTiling ------------------------------
(***************************************************************************)
(* The host's two-level tiling of build_lru_plan: how many elements a tile *)
(* holds, how many tiles a row has, the strides of the workspaces, and how *)
(* many cores a kernel is launched on.  The three hardware constants are   *)
(* 8, 128 and 256 in the source; they are parameters here so that small    *)
(* rows can be cut into several tiles.                                     *)
(***************************************************************************)
EXTENDS TileOps

CONSTANTS
    kInt32PerDataBlock,   \* int32 elements of one 32-byte data block
    kInt32PerCacheLine,   \* alignment of a bitmap row, in elements
    kMaximumTileLength    \* upper bound of a tile, in elements

ASSUME TilingAssumption ==
    /\ kInt32PerDataBlock \in Nat \ {0}
    /\ kInt32PerCacheLine \in Nat \ {0}
    /\ kMaximumTileLength \in Nat \ {0}

\* int64 division of non-negative values truncates, as \div does.
AlignUp(value, alignment) == ((value + alignment - 1) \div alignment) * alignment

AlignDown(value, alignment) == (value \div alignment) * alignment

\* Mutant: rounded down, some cores stay without a task.
DesiredTilesRoundedDown(batchSize, coreNum) == MaxInt64(coreNum \div batchSize, 1)

\* The number of tiles a row needs so that all cores have a task.
DesiredTilesPerRow(batchSize, coreNum) == (coreNum + batchSize - 1) \div batchSize

MakeParallelTileLength(logicalLength, batchSize, coreNum) ==
    LET fitted == AlignDown(logicalLength \div DesiredTilesPerRow(batchSize, coreNum),
                            kInt32PerDataBlock)
    IN  MinInt64(MaxInt64(fitted, kInt32PerDataBlock), kMaximumTileLength)

\* Mutant: the tail of the row is left out.
FullTileCount(length, tileLength) == MaxInt64(length \div tileLength, 1)

TileCount(length, tileLength) == (length + tileLength - 1) \div tileLength

\* Mutant: more blocks than cores.
BlockPerTask(taskCount, coreNum) == MaxInt64(taskCount, 1)

MakeBlockDim(taskCount, coreNum) == MaxInt64(MinInt64(taskCount, coreNum), 1)
==============================================================================

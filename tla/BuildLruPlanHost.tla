--------------------------- MODULE BuildLruPlanHost --------------------------
(***************************************************************************)
(* The host function build_lru_plan: it checks its arguments, queries the  *)
(* platform, cuts the rows into tiles, checks that the kernels fit into    *)
(* the unified buffer, allocates the workspaces and launches the kernels.  *)
(*                                                                         *)
(* A call is the shape of its tensors and the set of its other faults      *)
(* (device, type, rank, contiguity, overlap).  What the kernels then do is *)
(* BuildLruPlan; UbLayout is the buffer they work in.                      *)
(***************************************************************************)
EXTENDS UbLayout, Sequences

CONSTANTS
    Calls,            \* arguments: [faults, batchSize, k, lruColumns]
    Platforms,        \* devices: [coreNum, ubSizeBytes]
    kUbReserveBytes,  \* unified buffer the kernels leave alone
    kInt32Max,        \* 2^31 - 1, and
    kInt64Max         \* 2^63 - 1 in the source

ASSUME HostAssumption ==
    /\ kUbReserveBytes \in Nat /\ kInt32Max \in Nat /\ kInt64Max \in Nat
    /\ \A c \in Calls : c.batchSize \in Nat /\ c.k \in Nat /\ c.lruColumns \in Nat
    /\ \A p \in Platforms : p.coreNum \in Nat /\ p.ubSizeBytes \in Nat

VARIABLES
    call, platform,
    stage,      \* where the host function stands
    tiling,     \* the tile lengths, counts and strides, once computed
    workspaces, \* the workspaces allocated so far, in order
    launched    \* the kernels launched so far, with their block dimension

hostVars == <<call, platform, stage, tiling, workspaces, launched>>

WorkspaceNames == <<"hitBitmap", "hitCounts", "candidateCounts", "candidateValues",
                    "keepCounts", "keepValues">>

HostInit ==
    /\ call \in Calls
    /\ platform \in Platforms
    /\ stage = "arguments"
    /\ tiling = <<>>
    /\ workspaces = <<>>
    /\ launched = <<>>

GoOn(next) ==
    /\ stage' = next
    /\ UNCHANGED <<call, platform, workspaces, launched>>

Raise == GoOn("raised") /\ UNCHANGED tiling

\* TORCH_CHECKs on the arguments.
ArgumentsValid ==
    /\ call.faults = {}
    /\ call.batchSize > 0 /\ call.k > 0
    /\ call.k <= kInt32Max \div 2
    /\ call.lruColumns = 2 * call.k

AcceptArguments ==
    /\ stage = "arguments" /\ ArgumentsValid
    /\ GoOn("output") /\ UNCHANGED tiling

RejectArguments == stage = "arguments" /\ ~ArgumentsValid /\ Raise

\* lru.contiguous(), hitMask.contiguous() and new_lru = empty_like(lru).
AllocateOutput == stage = "output" /\ GoOn("platform") /\ UNCHANGED tiling

PlatformValid == platform.coreNum > 0 /\ platform.ubSizeBytes > kUbReserveBytes

RejectPlatform == stage = "platform" /\ ~PlatformValid /\ Raise

CutIntoTiles ==
    /\ stage = "platform" /\ PlatformValid
    /\ tiling' = TilingOf(call.batchSize, call.k, platform.coreNum)
    /\ GoOn("sizes")

\* Mutant: the workspace sizes are not checked.
BufferValid == MaximumKernelUbBytes(tiling) + kUbReserveBytes <= platform.ubSizeBytes

\* The kernels fit into the buffer and the workspace sizes into int64.
SizesValid ==
    /\ MaximumKernelUbBytes(tiling) + kUbReserveBytes <= platform.ubSizeBytes
    /\ \A stride \in {tiling.lruStride, tiling.valueStride,
                      tiling.hitMetaStride, tiling.lruMetaStride} :
          call.batchSize <= kInt64Max \div stride

RejectSizes == stage = "sizes" /\ ~SizesValid /\ Raise

AcceptSizes == stage = "sizes" /\ SizesValid /\ GoOn("workspaces") /\ UNCHANGED tiling

AllocateWorkspace ==
    /\ stage = "workspaces" /\ Len(workspaces) < Len(WorkspaceNames)
    /\ workspaces' = Append(workspaces, WorkspaceNames[Len(workspaces) + 1])
    /\ stage' = IF Len(workspaces') = Len(WorkspaceNames) THEN "kernels" ELSE stage
    /\ UNCHANGED <<call, platform, tiling, launched>>

\* The allocator has no memory left for the output or a workspace.
OutOfMemory == stage \in {"output", "workspaces"} /\ Raise

\* The number of tasks of the n-th kernel.
TaskCountOf(n, t) ==
    CASE n = 1 -> t.batchSize
      [] n = 3 -> t.batchSize * (t.hitTileCount + t.lruTileCount)
      [] OTHER -> t.batchSize * t.lruTileCount

\* Mutant: the first kernel is launched while workspaces are still missing.
LaunchKernelEarly ==
    LET n == Len(launched) + 1
    IN  /\ stage = "workspaces" \/ stage = "kernels"
        /\ n <= 4
        /\ launched' = Append(launched, MakeBlockDim(TaskCountOf(n, tiling), platform.coreNum))
        /\ stage' = IF n = 4 THEN "returned" ELSE stage
        /\ UNCHANGED <<call, platform, tiling, workspaces>>

LaunchKernel ==
    LET n == Len(launched) + 1
    IN  /\ stage = "kernels" /\ n <= 4
        /\ launched' = Append(launched, MakeBlockDim(TaskCountOf(n, tiling), platform.coreNum))
        /\ stage' = IF n = 4 THEN "returned" ELSE stage
        /\ UNCHANGED <<call, platform, tiling, workspaces>>

Ended == stage \in {"returned", "raised"} /\ UNCHANGED hostVars

HostNext ==
    \/ AcceptArguments \/ RejectArguments
    \/ AllocateOutput
    \/ RejectPlatform \/ CutIntoTiles
    \/ RejectSizes \/ AcceptSizes
    \/ AllocateWorkspace \/ OutOfMemory
    \/ LaunchKernel
    \/ Ended

HostSpec == HostInit /\ [][HostNext]_hostVars

------------------------------------------------------------------------------
\* Properties

HostTypeOK ==
    /\ call \in Calls /\ platform \in Platforms
    /\ stage \in {"arguments", "output", "platform", "sizes", "workspaces", "kernels",
                  "returned", "raised"}
    /\ workspaces = SubSeq(WorkspaceNames, 1, Len(workspaces))
    /\ launched \in Seq(1..platform.coreNum)

\* A kernel runs only in a buffer that its layout fits: whatever the shape, the
\* host's bound covers the buffer each kernel asks for, no two local tensors of a
\* kernel overlap, rounded-up copy-ins included, and the reserve is left alone.
LaunchesAreUbSafe ==
    launched # <<>> => UbSafe(tiling, platform.ubSizeBytes - kUbReserveBytes)

\* Tiles cut a row of `length' into `count' non-empty pieces, without gap or overlap,
\* and there is room for one int32 of metadata per tile.
CutsExactly(length, tileLength, count, metaStride) ==
    /\ \A t \in Slots(count) : Tile(length, tileLength, t) # {}
    /\ UNION {Tile(length, tileLength, t) : t \in Slots(count)} = Slots(length)
    /\ \A t, u \in Slots(count) :
          t # u => Tile(length, tileLength, t) \cap Tile(length, tileLength, u) = {}
    /\ count <= metaStride

\* The tiles of a launched call cover the rows exactly.
TilesCoverRows ==
    launched # <<>> =>
        /\ CutsExactly(tiling.k, tiling.hitTileLength, tiling.hitTileCount,
                       tiling.hitMetaStride)
        /\ CutsExactly(tiling.lruLength, tiling.lruTileLength, tiling.lruTileCount,
                       tiling.lruMetaStride)
        /\ tiling.lruLength <= tiling.valueStride

\* The reason for the tiling: once each of the R = ceil(C/B) tiles per row that keep
\* all cores busy can be given a data block, kernels 2, 3 and 4 run on all cores.
CoresAreBusy ==
    LET R == DesiredTilesPerRow(call.batchSize, platform.coreNum)
    IN  (stage = "returned" /\ tiling.lruLength \div R >= kInt32PerDataBlock) =>
            \A n \in 2..4 : launched[n] = platform.coreNum

\* Every product the host computes for a launched call fits into int64.
NoOverflow ==
    launched # <<>> =>
        /\ \A stride \in {tiling.lruStride, tiling.valueStride,
                          tiling.hitMetaStride, tiling.lruMetaStride} :
              tiling.batchSize * stride <= kInt64Max
        /\ \A n \in 1..4 : TaskCountOf(n, tiling) <= kInt64Max

\* A call that raises has not launched anything: hit is as the caller passed it.
\* A kernel is launched only once every workspace exists.
RaisedCallsTouchNothing ==
    /\ stage = "raised" => launched = <<>>
    /\ launched # <<>> => workspaces = WorkspaceNames
==============================================================================

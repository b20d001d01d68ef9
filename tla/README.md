# Verification of `ascend-kernel`

TLA+ models of the custom torch operators in `src/ascend-kernel/`, model-checked
with TLC and, in part, proved with TLAPS. The operator that carries the
repository's own logic is **`build_lru_plan`**: four Ascend NPU kernels that
match the misses of a paged cache with the least recently used blocks and
produce the next LRU order. The core of this project is about it.

Paths below are relative to `src/ascend-kernel/`.

1. [Inventory](#1-inventory)
2. [Modules](#2-modules-and-how-they-correspond-to-the-code)
3. [Runs](#3-what-is-model-checked)
4. [Proofs](#4-what-is-proved)
5. [Modelling decisions](#5-modelling-decisions)
6. [Plan](#6-plan)
7. [Running it](#7-running-it)

## 1. Inventory

### 1.1 `build_lru_plan`

`hit` (B x k, int32), `hit_mask` (B x k, bool) and `lru` (B x 2k, int32) come in.
Each row of `lru` is a permutation of the block ids `0..2k-1` from most to least
recently used; `hit[b][i]` is the id that slot `i` found, or -1. Afterwards every
miss holds an evicted id (`hit` is changed *in place*), and the returned
`new_lru` is the filled slots followed by the ids not selected, in their old
order.

| part | state | operations | interacts with |
|---|---|---|---|
| host function, `csrc/ops/build_lru_plan/op_host/build_lru_plan.cpp` | tile lengths, tile counts, strides, six workspaces | argument checks, platform query, tiling, buffer and size checks, allocations, four launches | dispatcher (caller), allocator, launch helper |
| tiling, same file 25-61 | none | tile length, tile count, block dimension | host; every kernel receives the results as arguments |
| unified-buffer (UB) layout, op_host 63-93 and each kernel's `Process` | byte offsets in one work buffer per core | the host bounds what five layouts in another file need | host check 172-178, kernels' `InitBuffer` |
| K1 `hit_local`, `op_kernel/build_lru_plan.cpp` 129-187 | `hitBitmap`, `hitCounts` | per row: bitmap of hit ids, misses per hit tile | reads `hit`; feeds K2, K3 |
| K2 `candidate_local`, 190-255 | `candidateValues`, `candidateCounts` | per lru tile: ids not hit, compacted from the right | reads bitmap, `lru`; feeds K3 |
| K3 `materialize`, 259-443 | `hit`, `new_lru[0..k)`, `keepValues`, `keepCounts` | per hit tile: fill the misses; per lru tile: compact the ids that stay | reads everything before it, **overwrites `hit`** |
| K4 `keep_scan_write`, 446-497 | `new_lru[k..2k)` | per lru tile: place the survivors behind those of the tiles to the left | reads `keepValues`, `keepCounts` |
| inside one core, op_kernel 94-124 and uses | the unified buffer, the queues of four engines (scalar, vector, copy-in, copy-out), event flags between them | issue, operate, `SetFlag`, `WaitFlag` | global memory |

How the parts interact. The host launches the four kernels on one stream; a
kernel runs on `blockDim` cores and core `c` takes the tasks `c`, `c + blockDim`,
`c + 2 blockDim`, .... There is no barrier and no atomic *inside* a kernel: what
keeps cores apart is that no two tasks write the same cell, and what makes
results visible is that a stream starts a kernel when the one before it is done.

What is hard about it:

* **Interleaving.** Cores write into common rows, common 32-byte blocks
  (`candidateCounts`, one int32 per task), and K3 overwrites a tensor that it
  also reads. K4's offsets are sums of counts that other cores computed two
  kernels earlier. The repository's tests simulate the stages on the CPU, one
  task after another (`tests/test_build_lru_plan.py` 62-294), and so see one
  order only.
* **Ordering.** Nothing but stream order separates the kernels.
* **Engines.** Inside a core, the scalar unit issues copies and vector
  operations that run later; only event flags order them. Kernel 3 lays out the
  same buffer in two ways, task by task. The CPU simulation has no engines.
* **Boundaries.** Three granularities (8, 128, 256 elements), rounding up in one
  place and down in another, short last tiles, rows with fewer elements than
  cores.
* **Stale memory.** `at::empty` gives workspaces and `new_lru` whatever the
  allocator's block held.
* **Repetition in two files.** The UB bound on the host and the layouts in the
  kernels must agree.

What makes it correct: a kernel starts on the complete results of those before it
(`EarlierKernelsComplete`); bursts stay in their row and never meet (`BurstsInBounds`,
`BurstsDisjoint`); delaying a task never changes its result (`TaskInputsStable`);
the counts add up (`CountsBalance`); the result is the reference's
(`PlanCorrect`), and no output cell ever holds a third value (`Refines`); the
call ends (`Terminates`); a legal `lru` stays legal over any number of calls
(`NewLruIsValid`) and eviction is oldest first (`EvictsOldest`); what is launched
fits the buffer (`LaunchesAreUbSafe`), covers the rows (`TilesCoverRows`), uses
the cores (`CoresAreBusy`), and no product overflows (`NoOverflow`); a refused
call leaves `hit` alone (`RaisedCallsTouchNothing`). Inside a core, what an engine
reads is what the program put there last (`ReadsInProgramOrder`), no two engines
work on one region (`EnginesApart`), flags come in pairs (`FlagsPaired`), tasks
copy out in order and one after the other (`CopiesOutInOrder`), and no engine waits
for ever (`KernelEnds`).

### 1.2 What launches it: runtime, launch helper, aclnn helper

| part | state | operations | interacts with |
|---|---|---|---|
| launch helper, `csrc/utils/torch_kernel_helper.h` | a lambda with raw addresses in a task queue | `EXEC_KERNEL_CMD`: current stream, addresses of the arguments, queue the launch; the lambda returns 0 in any case | `build_lru_plan`, `helloworld`; the queue's consumer |
| aclnn helper, `csrc/utils/torch_aclnn_helper.h` | symbol cache, converted parameters, thread-local huge memory, workspace | `EXEC_NPU_CMD`: resolve, convert, size, allocate, queue, execute, release | `avg_pool3d`; library, consumer |
| runtime (external) | caching allocator, one task queue with a consumer per stream, the streams of the device | allocate, drop, submit, launch, run | all operators |

Three actors touch one call: the thread that makes it, the consumer that launches
it, the device that runs it. The thread is usually gone, and its workspaces are
free, before the device begins. What is hard:

* **Blocks are handed on while kernels still use them.** That is sound as long as
  the next owner's kernels are queued behind them on the same stream; nothing in
  the code says so, and `EXEC_NPU_CMD` breaks it (section 3, findings).
* **Errors arrive late or never.** A launch that fails is not reported
  (torch_kernel_helper.h 75-76); a library call that fails does so in the
  consumer.
* **Two sides of a life time.** Parameters are made by the thread and released by
  the consumer; huge memory is opened and closed by the thread, with three exits
  in between.

What makes it correct: a kernel finds in its blocks what its own call has written,
or the call that made its lru (`KernelsSeeTheirCall`); kernels on two streams do
not touch each other's blocks (`KernelsApart`); results stay whole
(`ResultsSurvive`); parameters live until their call, and longer only if it failed or the library cannot
destroy them (`ObjectsLiveForTheirCall`);
with the library functions to open and close huge memory both there, exactly the calls
that raised in between leave it open, and what is open is known whichever is missing
(`HugeMemOpenAfterRaise`). That every call comes back needs no property of its own: nothing in
the code waits or retries, and a state in which nobody can go on before all is done would
be reported as a deadlock.

### 1.3 The other components

| part | state | operations | hard | correct if |
|---|---|---|---|---|
| `avg_pool3d`, `csrc/aclnn/avg_pool3d.cpp` | none | checks, output size, one aclnn call | truncating division, of negative numbers for windows longer than the padded input; the correction of `ceil_mode`; lists of one, three or other lengths | the size counts the places of the window (`SizesCountPlaces`; for the long windows it does not, `SizesAreExact`), no window is all padding (`NoEmptyAverage`), `ceil_mode` reaches the whole input (`CeilReachesAll`) |
| `helloworld`, `csrc/ops/helloworld/` | double-buffered queues, block and tile length | split over blocks, copy in, add, copy out | reuse of buffers by three engines; lengths without a remainder path; a 32-bit product | tiles are sums of their own inputs (`SumsOfOneTile`) and split the tensor (`TilesSplitTheTensor`); the engines do not lock up (`PipelineEnds`) |
| registration, `csrc/register.cpp`, `csrc/ops.h` | none | static registration of three operators | - | - |
| build, packaging, benchmark | none at run time | - | - | - |

## 2. Modules and how they correspond to the code

```
 TileOps ── LruTiling ──┬── BuildLruPlan ── MCBuildLruPlan        (runs core, rows, tails)
    │                   │        └ INSTANCE LruPlan (refinement)
    │                   └── UbLayout ── BuildLruPlanHost ── MCBuildLruPlanHost   (run host)
    └── LruPlan ── LruPlanLists ── MCLruPlan                      (run calls)

 AiCorePipes ── MCAiCorePipes                                     (run pipes)
    └ INSTANCE CoreTasks (refinement)

 NpuRuntime ──┬── LaunchQueue ──┬── Operators ── MCOperators      (runs operators, shared_stream)
              └── AclnnCall ────┘

 AvgPool3dShape ── MCAvgPool3dShape                              (runs avg_pool, avg_pool_long, avg_pool_tuple)
 HelloWorldPipeline ── MCHelloWorldPipeline                       (run helloworld)

 LruTiling_proofs ──┬── BuildLruPlan_proofs
  (and TileOps)     ├── BuildLruPlanHost_proofs   (with the layouts)
                    └── LruPlan_proofs            (with LruPlanLists)
 AiCorePipes_proofs    Operators_proofs    AvgPool3dShape_proofs    HelloWorldPipeline_proofs
```

`PROJECT.json` maps every definition to its lines.

**`TileOps`** - the operators the kernels are made of. A row of n values is a
function on `0..n-1`. A counting loop becomes `Cardinality`, a compaction loop
`CompactRight` / `CompactLeft` (each survivor at its rank), a loop over tile
counts `Total`, a `DataCopyPad` to global memory `CopyOut` (exactly the logical
elements), one from it `CopyIn`.

**`LruTiling`** - `AlignUp`, `AlignDown`, `MakeParallelTileLength`, `TileCount`,
`MakeBlockDim` of the host (op_host 25-61). The source's constants 8, 128 and 256
are parameters.

**`LruPlan`** - the abstract specification: what a call promises, with no
kernel, tile or workspace. `Filled` and `NewLru` are the tests' reference
function; `PlanSpec` lets the cells of `hit` and `new_lru` turn from their old
into their final value in bursts of contiguous cells, in any order. **`LruPlanLists`**
is the reference as the tests write it, on lists with an iterator; its comprehensions and
its loop are recursive functions over the length of the list.

**`BuildLruPlan`** - the four kernels.

| model | code |
|---|---|
| `lru`, `hitMask`, `hit`, `newLru` | the caller's tensors and the returned one; one function per row |
| `hitIn` | history: `hit` as passed, needed because it is changed in place |
| `hitBitmap` ... `keepCounts` | the six workspaces with their padded strides |
| `kernel` | which kernel the stream is at; `LaunchNext` is the stream |
| `task[c]` | the loop variable `task` of core `c`, `task += blockNum` in `NextTask` |
| `pc[c]` | `"in"`: about to copy in; otherwise the tensor to copy out to next |
| `ub[c]` | the results waiting in the core's unified buffer; forgotten after the last copy-out, since the next task's copy-in and compute overwrite what it ships |
| `HitLocalCompute`, `CandidateLocalCompute`, `FillCompute`, `KeepCompute`, `KeepScan` | a task from its copy-ins to the end of its scalar loop |
| `CopyOut...` | one action for each copy-out, in the code's order |
| `KeepScanSkip` | the tile without survivors, which fails K4's `if (count > 0)` |

Conditional copy-outs (`if (count > 0)`) are the choice of the next `pc`.

**`UbLayout`** - the five UB layouts, as regions with a byte offset and the bytes
accessed, and the host's bound `MaximumKernelUbBytes`. **`BuildLruPlanHost`** - the
host function as a state machine: `stage` walks through checks, output
allocation, platform, tiling, sizes, allocations, launches; every `TORCH_CHECK` is a guard with
a `Reject...` action, and an allocation may fail. Device, type, rank, contiguity and
overlap faults are one set `faults` of a call.

**`AiCorePipes`** - one core. `queue` and `running` are what the scalar unit has
issued to an engine and what the engine is doing; an operation has a beginning
(`Begin`: it reads from then on) and an end (`End`: its writes are there).
`HitLocalProgram` ... `ScanProgram` are the bodies of the task loops as sequences
of instructions: copies, vector fills, scalar loops, `SetFlag`, `WaitFlag`, with the
conditional copy-outs and K4's branch as variants. A value is modelled by
its origin: `ub` says which instruction of which task wrote a region last.
**`CoreTasks`** is the same core seen from global memory: compute, copy out
tensor by tensor, next task. `BuildLruPlan`'s `pc[c]` is the head of `outs`.

**`NpuRuntime`** - what all operators run on, as the code uses it (external).

| model | code |
|---|---|
| `scenario` | which operators each thread calls on which stream, how much memory there is, what the libraries lack, what may fail |
| `stage[t]`, `calls[t]` | where a thread stands in its call, and how many it has made |
| `tensors[t]`, `kept[t]` | the references that keep a block from being given away: those of the call, and the results the caller keeps |
| `pool` | the stream a block was first given to; it never leaves it |
| `memory` | per block: the call that wrote it last, and with which of its kernels |
| `tasks`, `launched`, `running` | submitted, launched, and running kernels of each stream |
| `failed` | calls of which a part failed; needed to say what a failure may spoil |

**`LaunchQueue`** is `build_lru_plan` on it: four allocations in the host's order
(workspaces that one kernel fills are one), four `EXEC_KERNEL_CMD`s, the return
that drops the workspaces and the caller's old lru. A task holds addresses, and,
as history, what its kernel has to find there. `LaunchKernel` is the lambda with
its launch that may fail silently. **`AclnnCall`** is `avg_pool3d`'s
`EXEC_NPU_CMD`, step by step: `GetOpApiFuncAddr` looks in the custom library first,
the huge memory is opened if its function was found, parameters are converted in
any order (the order in which the arguments of `make_tuple` are evaluated is not
specified), the workspace's address outlives its tensor, the consumer releases what the
thread converted. A parameter is of one of two types (`AclType`); if the libraries lack
`aclCreate...` for it, it becomes `nullptr` and no object, and if they lack
`aclDestroy...`, releasing it does nothing. `raised` is history: which calls raised, and at
which stage. **`Operators`** puts threads, consumers and streams together.

**`AvgPool3dShape`** - `Generalized` is the indexing of the three lists, which finds
`Junk` behind their end; `TruncDiv` and `CeilDiv` are the integers of C++;
one action per group of checks.

**`HelloWorldPipeline`** - one block of the kernel, any of them: three engines that
start and end a tile each, and the states of the buffers in three queues between
them. `TQue` is external: `AllocTensor` holds its engine up until the buffer is
free, `DeQue` until it is full.

**`..._proofs`** hold the theorems. Operators whose comment starts with `Mutant:`
are not part of any specification: each is a definition of the model changed the
way a plausible bug would change it, and `PROJECT.json` says which property
notices it.

## 3. What is model-checked

| run | instance | states | shows |
|---|---|---|---|
| `core` | B=1, k=3, 3 cores, alignments 1/4/4: 3 hit tiles, 3 lru tiles of 2; all 34 legal hit rows | 90k | `TypeOK`, `BurstsInBounds`, `BurstsDisjoint`, `EarlierKernelsComplete`, `CountsBalance`, `PlanCorrect`, `TaskInputsStable` under every interleaving |
| `rows` | B=2, k=2, 3 cores; two contents of fresh memory | 25k | `Refines`: the kernels implement `LruPlan`; `Terminates` |
| `tails` | the source's 8/128/256, k=9, 2 cores: tiles of 8 with short last ones, padded strides | 2.7k | `PlanCorrect` |
| `calls` | the plan alone, k=3, all legal hit rows | 24k | `NewLruIsValid`, `EvictsOldest`, `AgreesWithReference` |
| `pipes` | one core, all sequences of three tasks of each kernel | 1.6k | `TypeOK`, `EnginesApart`, `FlagsPaired`, `ReadsInProgramOrder`, `KernelEnds`; `CopiesOutInOrder`: the engines implement `CoreTasks` |
| `host` | 74 calls, 8 devices | 9k | `HostTypeOK`, `LaunchesAreUbSafe`, `TilesCoverRows`, `CoresAreBusy`, `NoOverflow`, `RaisedCallsTouchNothing` |
| `operators` | two threads, up to two calls each, two streams; eight scenarios of calls, faults and missing library symbols with 4 to 8 blocks, and two calls of `build_lru_plan` with 10, on one stream and on two | 2.4M | `RuntimeTypeOK`, `KernelsSeeTheirCall`, `KernelsApart`, `ResultsSurvive`, `ObjectsLiveForTheirCall`, `HugeMemOpenAfterRaise` |
| `shared_stream` | `build_lru_plan` and `avg_pool3d`, two threads, one stream | - | **violates** `KernelsSeeTheirCall` |
| `avg_pool` | 4480 cubes and 288 lists of all lengths | 21k | `ShapeTypeOK`, `SizesCountPlaces`, `NoEmptyAverage`, `CeilReachesAll` |
| `avg_pool_long` | the same | - | **violates** `SizesAreExact` |
| `avg_pool_tuple` | the same | - | **violates** `KernelIsOneOrThree` |
| `helloworld` | 68 shapes, 2 blocks of 2 x 2 tiles, counts that wrap at 32 | 12k | `PipelineTypeOK`, `SumsOfOneTile`, `TilesSplitTheTensor`, `PipelineEnds` |

Every property has a mutant of a mapped definition under which the same run
fails, so none of them holds for a reason unrelated to the code.

### Findings

* **A workspace is given away before its task is queued** (`shared_stream`).
  `EXEC_NPU_CMD` drops its workspace at torch_aclnn_helper.h:546 and queues the
  task that writes to it at 562. In between, another thread on the same stream
  (the default stream, unless threads choose their own; operators called from
  Python run without the interpreter's lock) may be given the block. Its kernels
  are then queued *first*. In the counterexample `build_lru_plan` gets it as its
  bitmap, queues K1, and the late library call overwrites what K1 wrote before K2
  reads it: the plan evicts ids that were hit. `design.md` 512 says that stream
  order protects the data between K1 and K4.
* **A window longer than its input gets an output** (`avg_pool_long`). For a window
  that exceeds the padded input the quotients at avg_pool3d.cpp:48-53 are of a
  negative number: `/` rounds it up to 0 if it is larger than minus the stride, and
  `CeilDiv` (28) rounds it up and then adds one for the remainder. The size is one more than
  the window has places, and as it is positive, the check `kernel_d has to be positive`
  (54) lets it pass: a window of 2 over one element, with the default stride, has size 1. In
  ceil mode the clipping (58-70) takes the surplus away if it starts behind the input. The
  tests compare shapes with PyTorch's own operator (test_avg_pool3d.py:6-7, 86), which
  counts places, but only for windows that fit.
  `SizesCountPlaces` says exactly when this happens. Whether the library then refuses the
  call is not known from this repository.
* **`kernel_size` of two elements** (`avg_pool_tuple`). The check at
  avg_pool3d.cpp:87-89 says "either be a single int, or a tuple of three ints", and
  tests that the list is not empty. Two elements pass; the third is read behind the
  list.

`operators` keeps to scenarios without the first: there, `avg_pool3d` shares its
stream with no other thread. Calls of one thread may share a stream whatever they
are, since a thread queues its task before it allocates again.

### Bounds, and why they are enough

* *One lru row.* Renaming ids in `lru` and `hit` alike permutes bitmap cells and
  renames the result; nothing else in the kernels looks at the value of an id. So
  all hit rows against one lru row cover all pairs up to renaming. The row is
  rotated so that no id stands at its own position: confusing ids and positions
  shows (mutant `UnhitByPosition`).
* *k=3, three cores.* Small enough for every interleaving of copy-outs, large
  enough for a miss's rank to cross tiles, for a tile without candidates or
  survivors, for a walk over two tiles, and for cores that take two tasks. Two
  rows (`rows`) make a core change row between tasks and mix rows in one kernel.
* *Small alignments.* With 8/128/256 a row must have 9 slots to have two tiles.
  `core` and `rows` use 1/4/4, keeping tile length above the block size possible
  and strides padded; `tails` uses the source's own constants on selected hit
  rows.
* *Garbage.* One value per fresh memory that is not an id, or (`rows`) one that is
  and one that is not: a stale cell that reaches the result is visible either way.
* *Host.* The shapes lie on both sides of each alignment (8, 128, 256 and twice
  these) and include the tests' shapes. `kInt32Max` and `kInt64Max` are lowered so
  that the overflow checks are met by shapes TLC can enumerate.
* *Two threads, two streams.* A block changes hands between two owners. Both may be
  calls of one thread, of two threads on one stream, or sit on two streams: the
  scenarios have each. Two calls of one thread bring the lru that the next call reads and
  the block of the old lru that it gives back.
* *Blocks.* All calls at once would need ten; with 4 to 8, calls run out of memory,
  raise, and reuse each other's blocks as early as the allocator permits. With
  ten, the launches of two calls interleave freely. The allocator takes the lowest free block of its stream, so that what was
  dropped is what is reused.
* *Pooling shapes.* Dimensions are independent, so cubes cover them; inputs 0..6,
  windows -1..6, strides -1..5 and paddings -1..3 lie on both sides of every
  comparison, with negative and zero values that the checks let through.
* *Tiles of helloworld.* Four tiles on two buffers make each buffer wait twice for
  each neighbour; shapes have 0 to 72 elements, remainders of every kind, and
  products behind the limit.
* *Three tasks on a core.* What one task leaves behind (a copy-out under way, a
  flag, another layout) meets the next one at once, and a third task finds a core
  that is not fresh. Every kind of task of a kernel is before and after every
  other.

### Fairness

`FairSpec` assumes weak fairness of `LaunchNext` and of each core's steps. The
device runs the blocks of a launched kernel to completion independently of each
other, and no step of a core waits for another core, so a core with work is
always enabled until it steps. A stream starts the next queued kernel once the
previous one is done. Nothing is assumed about relative speeds. `Terminates` is the only liveness
property of the kernels; `PlanSpec`'s own fairness is discharged in `Refines`.

`AiCorePipes` assumes that the scalar unit goes on with its program and that each
engine carries out what it was given (`EngineStep`): weak fairness, since an
engine's next step stays enabled until it takes it. A raised flag in particular
is not taken away by anybody but its waiter.

`HelloWorldPipeline` assumes the same of its three engines.

The host function of `build_lru_plan`, `EXEC_NPU_CMD` and the shape arithmetic have no
loop and wait for nobody; no liveness is claimed for them.

The end of a call is an explicit stuttering action (`Finished`, `Ended`,
`KernelEnd`, `Done`) and deadlock is checked, except in `helloworld`: the pipeline
stops when it is through, and `PipelineEnds` says that it is through.

## 4. What is proved

Theorems hold for every value of the constants, under the named assumptions of the
modules, which TLC evaluates on every run:

* `ShapeAssumption`, `InputAssumption`, `TilingAssumption`, `UbAssumption`, `HostAssumption`,
  `PlanAssumption`: positive sizes and numbers of cores, alignments that are positive
  and, for the layouts, whole data blocks, legal input rows (the callers' contract);
* `CallsAssumption`, `JunkAssumption`: sizes and lists are integers, a five-dimensional
  or unbatched input;
* `TaskLimitAssumption`: a core has at least one task;
* `HelloWorldAssumption`: at least one block, tile and buffer;
* `RuntimeAssumption`: addresses are not 0, each thread starts with an lru of its own,
  and calls one of the two operators on one stream;
* `ParamAssumption`: each parameter of the aclnn call has one of the two types of objects.

Nothing is assumed about the symbols the aclnn libraries have: the code looks each up on
its own (GET_OP_API_FUNC), and so does the model.

| theorem | module | says |
|---|---|---|
| `PlanAlwaysCorrect` | `BuildLruPlan_proofs` | `Spec => []PlanCorrect`: for every B, k, number of cores, alignments, legal rows and contents of fresh memory, and every interleaving of the cores, the four kernels return what the reference implementation of the tests computes |
| `KernelsRefinePlan` | same | step by step: `Plan!PlanInit`, and every step settles a run of cells of one row of `hit` or `new_lru` or leaves both (the safety part of `Refines`) |
| `KernelsFindOutputsComplete` | same | while a kernel runs, everything that those before it had to write is in memory (`EarlierKernelsComplete`) |
| `InputsOfTasksStable` | same | no step changes what an open task would compute (`TaskInputsStable`, an action property) |
| `BurstsStayApart`, `BurstsStayInBounds` | same | cores never hold bursts for a common cell; no burst leaves its row |
| `CountsAlwaysBalance` | same | a row has k more candidates than misses, and k survivors |
| `PlanInvariant`, `TypeCorrect` | same | the inductive invariant of the kernels, and its type part |
| `ReturnedLruIsValid` | `LruPlan_proofs` | `PlanSpec => []NewLruIsValid`: the returned order holds every id once, so it is legal for the next call |
| `MissesEvictOldest` | same | a miss takes an id that nobody hit, older than all unhit ids that stay |
| `RanksAreTheReference` | same | `PlanSpec => []AgreesWithReference`: the plan by ranks is what the list code of the reference returns, so `PlanAlwaysCorrect` is about that code |
| `TilingIsUbSafe` | `BuildLruPlanHost_proofs` | a buffer that passes the host's bound holds all five layouts without overlap, aligned, inside what the kernel asks for |
| `HostTypeCorrect` | same | workspaces come in order; a launch has at least one block and no more than cores |
| `LaunchesSafe` | same | what is launched fits the unified buffer |
| `TilesCover` | same | tiles are non-empty, disjoint, cover the rows, and have room for their counts |
| `ProductsFit` | same | the host's checks cover the products it does not check |
| `CoresBusy` | same | rows long enough are cut into enough tiles for every core |
| `RaisedTouchNothing` | same | a call that raises has launched nothing |
| `PipesRefineTasks` | `AiCorePipes_proofs` | step by step: seen from global memory a core of any kernel computes, then copies out in the order of the program, and completes its tasks, however its engines interleave (the safety part of `CopiesOutInOrder`) |
| `EnginesStayApart` | same | no two engines are ever at work on overlapping regions if one of them writes |
| `ReadsKeepOrder` | same | an operation finds in its regions what the program order says (`ReadsInProgramOrder`, an action property) |
| `FlagsArePaired` | same | an event is lowered before it is raised again, and none stays raised at the end |
| `PipesInvariant`, `PipesTypeCorrect` | same | the inductive invariant of the engines, and its type part; all for every number of tasks and every sequence of their kinds |
| `KernelsStayApart` | `Operators_proofs` | kernels that run at once on two streams share no block, for every number of threads, streams and blocks and every failure |
| `ObjectsOutliveTheQueue` | same | a queued aclnn call finds an object for each parameter the libraries can create; what stays behind is of a call that failed or is going on, or cannot be destroyed |
| `HugeMemStaysCounted` | same | the exact balance of huge memory between calls, for every combination of symbols: with both, it is open once for each call that raised after opening it |
| `RuntimeTypeCorrect` | same | tensors and results have blocks of their own, of the stream of their thread |
| `KernelsFindTheirBlocks` | same | if `PoolsAlone`, every kernel finds in its blocks what its own call wrote |
| `KeptResultsSurvive` | same | if `PoolsAlone`, results the caller keeps stay whole |
| `OperatorsInvariant` | same | the inductive invariant the six build on |
| `TilesAreTheirSums` | `HelloWorldPipeline_proofs` | every tile copied out is the sum of its own inputs, for every number of tiles and buffers |
| `TilesAreTheTensor` | same | whatever count wraps around, no tile of any block lies outside the tensors and no two share an element; if the elements are a multiple of all tiles and fit 32 bits, the tiles are all of them |
| `PipelineTypeCorrect` | same | no engine gets ahead of its data, nor further ahead than there are buffers |
| `EnginesNeverStuck` | same | until the block is through one engine can go on (the safety part of `PipelineEnds`) |
| `ShapeTypeCorrect` | `AvgPool3dShape_proofs` | sizes are integers, strides not zero, padding at most half the kernel, whatever lists are given and read behind their end |
| `SizesAreCounts` | same | for every shape, window, stride and padding the size is the number of places of the window, and one more exactly if the window is longer than the padded input and the size is not clipped |
| `AveragesAreOfInput` | same | no window lies in the padding alone, long ones included |
| `CeilModeReachesAll` | same | in `ceil_mode`, windows without gaps reach the whole input |

How the arguments go:

* **Sums without induction.** Counts are sums over tiles (`Total`). The provers
  cannot instantiate the induction
  theorems of the library, so `LruTiling_proofs` takes the least counterexample
  instead (`Least`): were there a length without a sum, the one before the smallest
  of them has a sum, and one more term makes it a sum of the next (`SumExists`,
  `SumUnique`, `TotalIs`). In the same way the totals of a row's per-tile counts are
  cardinalities of unions of tiles, and each rank below the size of a finite set of
  naturals is taken by exactly one of its elements.
* **Tiles.** `LruTiling_proofs` shows that ceiling division yields tiles that
  are non-empty and cover the row, whatever the length; `TilesCover`, the
  layouts and the kernels build on it.
* **The kernels.** None of the properties is inductive: that a kernel computes the
  right thing rests on what *all* tasks of the kernels before it have left. `PlanInv`
  says it of every task. `Final(n, t)` is what task `t` of kernel `n` has to deliver, in terms
  of the caller's tensors alone. `BuffersFinal`: a core that copies out holds the final result of
  its task. `TasksSettled`: every completed task has left its final results in
  memory. `HitSettles`: a slot of `hit` holds its old or its final value, which is why
  kernel 3 may overwrite it while other cores read. `TurnsKept`: a core's tasks
  are those of its residue, so no task belongs to two cores. The proof is by
  the kind of step: a step that computes needs the results of the earlier kernels (all
  completed, since the stream goes on only then); a burst must not touch the cells of
  any other task, completed or open, where the compacted runs of kernels 3 and 4 need the sums. `EarlierKernelsComplete` puts
  `TasksSettled` of all tasks of a kernel together. The
  properties follow from `PlanInv`, and the refinement from the fact that
  each burst to `hit` or `new_lru` is a run of cells with final values.
* **The plan.** Ranks make the reference's iterator a bijection: the misses take the
  first candidates in order (`TakenInOrder`), the rest stay (`RestOfRow`), and
  `NewLru` is a permutation because it puts the ids of `Filled` behind all others.
  That this is the reference's own list code (`RanksAreTheReference`) needs no induction
  either: its loops are recursive functions, no two functions satisfy one recursion
  (`KeepsUnique`, `FillsUnique`: the least place where they differ), and the rank form, cut off at
  each length, satisfies it (`WithoutCompacts`, `FilledAgrees`). `Mirror` turns the reversed list's ranks from
  the left into ranks from the right (`ReversedCompacts`).
* **Layouts.** Regions are measured in data blocks of 8 elements
  (`PICK` the quotient), which makes alignment and disjointness linear facts. The
  theorem needs no bound on sizes: the host's formula and the kernels' offsets
  agree term by term.
* **The host.** None of the six properties is inductive. `HostInv` remembers at
  each stage which checks the call has passed and that the tiling is the one
  computed from its shape; the properties follow from it. `ProductsFit` needs one
  more idea: task counts are never checked, but `FewTiles` bounds tiles per row by
  the padded row length, so their product is below a workspace size that is checked.
* **One core.** The argument never looks at a position of a program. `Sound` says what a
  program promises: sets and waits stand in pairs (`Paired`), a flag that is used twice
  is one the scalar unit waits for (`Reused`), operations of two engines that clash have a flag
  of the first between them and a copy out has one behind everything before it
  (`Ordered`), whatever leaves the scalar unit, and every scalar store, is followed by a flag
  (`Closed`), and what is read was written before (`Sourced`). `ProgramsInTurn` shows
  it for the eight kinds of task; all but the empty scan of kernel 4 are a body closed by
  the same two waits (`Completed`). `PipesInv` then says of any such program that a queue
  holds the last instructions its engine was given, in order (`QueuesInOrder`), that an engine is at work on the last it
  has taken (`WorkInOrder`), that a flag is up exactly between its set and its wait
  (`FlagsInOrder`), and that a region holds what the last ended operation wrote to it
  (`RegionsHold`). `AwaitedIsOver` is the step that matters: a wait that was passed means that the
  set was taken, so everything before it on that engine has ended. There is one
  exception to "a task is over when the next begins": in kernel 4 the loop over the counts
  of a tile without survivors is not waited for by anybody, so it may lag into the next
  task (`LagsBehind`); it writes nothing, which is why that is harmless.
* **The runtime.** `BaseInv` has four parts. `Shapes` is the type of
  everything, with the tensors that a call holds at each stage. `CallsInTurn`: a thread
  inside a call has made one, and nothing in the system mentions a call that was not made yet. `BlocksInHand`: every block somebody refers to belongs to
  that thread's stream, and no two references share one. `LinesInOrder`: what stands in
  the line of a stream (submitted, launched, running) was submitted by a thread of that
  stream, with the addresses and expectations of its call. `KernelsApart` follows:
  blocks never change their stream. Huge memory and aclnn objects each need
  one more invariant per stage of `EXEC_NPU_CMD` (`HugeMemInHand`, `ObjectsInHand`), both of
  which follow the symbols one by one.
* **Blocks that are handed on.** `KernelsSeeTheirCall` speaks of the kernel at work, but what
  it finds depends on all that stand before it in the line. `WillFind` says
  of every kernel in line that each block it expects something of holds it when its turn
  comes: memory or a kernel before it in line supplies what it expects, and nothing of another
  call is written over that meanwhile (`Holds`; what failed calls owe is left open). The same is said of every tensor and result a thread still
  refers to, at the end of the line. A new task goes to the end of the line, and a
  block may be given away only when nobody refers to it, so its next writer is
  behind all who expect its contents. The one step this fails for is the submission of
  an aclnn call whose workspace tensor was dropped before (torch_aclnn_helper.h:546): its
  address may be somebody else's by then. `PoolsAlone`, the hypothesis of the two
  theorems, excludes exactly this: no thread that calls `avg_pool3d` shares its
  stream with another thread. The instance of the run `operators` satisfies it; the run
  `shared_stream` shows that without it the property fails.
* **helloworld.** `PipelineInv` lists what every buffer holds while a tile is under way:
  tiles `Done("Compute") .. Done("CopyIn") - 1` are in the input queues, tile `i` in buffer
  `i % BUFFER_NUM`, and the same between the other two engines. An engine ahead by
  more than `BUFFER_NUM` tiles would need a buffer that is not free. `TilesAreTheTensor` rests on
  two facts. The element count and its 32-bit counterpart are running products over
  the same list, so the least counterexample serves again (`ProductsExist`, `ProductsUnique`):
  wrapping around never adds, and changes nothing below the limit (`Lengths`). And a place in parts
  of one length has one number of its part and one place in it (`PlaceIn`, `PlaceIsOne`,
  `PlaceIsSome`), which is used for the blocks and again for their tiles.
* **Pooling sizes.** The invariant adds to `ShapeTypeOK` that a size that was given is
  `PooledSize`. `FloorWindows` and `CeilWindows` turn "the window has a place there"
  into an inequality between multiples of the stride: below the floor quotient in
  one mode, below the ceiling *and* before the end of the input in the other, where
  the clipping takes away the one place that satisfies the first and not the second.
  Counting, meeting the input, and reaching all of it follow; the check on
  padding enters as `2p <= k`. The invariant also keeps what the
  check for positive sizes has shown, `Unclipped > 0`. It leaves a window longer than the padded
  input few cases: size 1 without a place, or, in ceil mode and with a slack above minus the
  stride, size 2 and one place, where clipping may take the surplus (`LongWindow`, `LongWindowPlaces`).

What is only model-checked:

* liveness (`Terminates`, `KernelEnds`, `PipelineEnds`), and of the refinements `Refines` and
  `CopiesOutInOrder` the fairness of their right-hand sides: the provers have no
  rule for either;
* `KernelIsOneOrThree` and `SizesAreExact`, which the code violates.

## 5. Modelling decisions

* **Copy-in and compute are one step.** A task reads its inputs by several
  `DataCopyPad`s and scalar loops. `TaskInputsStable` says that no step of any
  core changes what an open task would compute, so spreading the reads over time
  makes no difference; the one-step form loses no behaviour. This is a checked
  property and not an assumption: mutant `MissRankFromHit` (take the rank from the
  tensor that K3 is overwriting) breaks it.
* **Copy-outs are separate steps** in program order, one per burst. A burst
  itself is one step; `BurstsDisjoint` justifies it, since nobody else writes
  those cells, and readers of the same kernel do not see them
  (`TaskInputsStable`).
* **A function per row** instead of one flat tensor: `BurstsInBounds` shows that
  no burst leaves its row, which is what the flat form would need.
* **DMA.** `DataCopyPad` is a library function. From its use here: a copy out
  writes exactly the logical bytes (K2 and K3 rely on it to write single int32
  counts next to each other); a copy in fills whole 32-byte blocks of the UB
  (`CopiedIn`), which is why the layouts are aligned.
* **Inside one core** `BuildLruPlan` has tasks that compute and then copy out, one
  burst after the other. `CopiesOutInOrder` and `PipesRefineTasks` show that the engines do that. The
  engines are external; their rules are those the code's use of them relies on: an engine works
  in the order it was given, `SetFlag` takes effect when its engine is done with
  everything before it, `WaitFlag` holds up its engine alone, the scalar unit's
  loads are synchronous and its stores may lag behind until a flag. Regions of
  one layout are disjoint (`LaunchesAreUbSafe`); those of two layouts are taken
  to overlap everywhere.
* **The stream** is assumed to run kernels in launch order, to completion. That the
  workspaces of the four kernels are theirs meanwhile, which `BuildLruPlan` takes for
  granted, is `KernelsSeeTheirCall`.
* **The runtime** is modelled from its use. With the task queue switched off the
  consumer is the calling thread; as long as no call fails, those are the behaviours in
  which it takes each task at once. A library call that fails would then raise in the
  thread at torch_aclnn_helper.h:562 and skip 563-565, so that huge memory stays open;
  that exit is not modelled. The allocator is the caching one: blocks belong to the stream they
  were first given to; it does not return cached blocks of another stream when memory
  runs out, it raises. A consumer goes on after a failed call. A kernel's writes
  are there when it ends; while it runs nobody may touch its blocks (`KernelsApart`).
* **`avg_pool3d` on the runtime** is one kernel that writes its result and its
  workspace. `hit` and the pooled input belong to the caller and are left out: nobody
  else is given their blocks.
* **aclnn objects.** Of `avg_pool3d`'s five parameters that become objects (two tensors,
  three lists) one of each type stands for all in the runs; the theorems hold for any
  number.
* **Failed calls.** A failed launch leaves its call's result, and all results computed
  from it, undefined; `from` carries that along, and the properties are claimed for
  the rest.
* **Shapes of `avg_pool3d`** are small: the narrowing of a size to `int` (44-46) and the
  product of strides (41) do not overflow. The properties are about proper windows
  (something to average, positive kernel and stride), whether they fit the padded input or not; what
  the library makes of a zero or negative kernel or stride is left open.
* **helloworld**: `y` is taken to have the shape of `x`, which the code does not
  check; the 32-byte granularity of `DataCopy` and the size of the unified buffer,
  which the code does not bound tileLength by, are left out.
* **Callers** respect the contract: lru rows are permutations, valid hits are
  distinct ids, the mask says exactly which slots hit (design.md 59-81; the
  contract is not checked at run time by the code).
* **Integers** in the kernels are bounded by 2k <= 2^31 - 1 (op_host 132); the
  model uses unbounded ones there, and `NoOverflow` covers the host's products.

Not modelled: formatting of errors, profiling, registration, build and packaging
(no state), the benchmark; of the aclnn helper the hash buffer (96-102, 480-511)
and the copies of wrapped numbers (143-198), which no registered operator reaches,
and `ReleaseHugeMem` (553-556), whose effect is inside the library; of the
launch helper the copies to the device (27-38), which nobody calls.

## 6. Plan

In the order of importance; done items are marked.

1. [x] `TileOps`, `LruTiling`, `LruPlan`, `LruPlanLists`, `BuildLruPlan`,
   `UbLayout`, `BuildLruPlanHost` with their runs.
2. [x] Type correctness of `BuildLruPlan`; arithmetic of the tiling; the host's
   safety.
3. [x] `CoreTasks`, `AiCorePipes`: one core and its engines.
4. [x] `NpuRuntime`, `LaunchQueue`, `AclnnCall`, `Operators`: the calls of threads,
   the task queues, the streams and the allocator.
5. [x] `AvgPool3dShape`, `HelloWorldPipeline`.
6. [x] Theorems about `BuildLruPlan` (all its invariants, `TaskInputsStable`, the safety part of
   `Refines`), `LruPlan` and its list form, `HelloWorldPipeline` with the split of the tensor, and
   `Operators`.
7. [x] Theorems about `AiCorePipes`: all its invariants, `ReadsInProgramOrder` and the safety
   part of `CopiesOutInOrder`, for every number of tasks.

## 7. Running it

```
tlc -workers 2 -config BuildLruPlan_core.cfg MCBuildLruPlan.tla
tlc -workers 2 -config BuildLruPlan_rows.cfg MCBuildLruPlan.tla
tlc -workers 2 -config BuildLruPlan_tails.cfg MCBuildLruPlan.tla
tlc -workers 2 -config LruPlan_calls.cfg MCLruPlan.tla
tlc -workers 2 -config BuildLruPlanHost.cfg MCBuildLruPlanHost.tla
tlc -workers 2 -config AiCorePipes.cfg MCAiCorePipes.tla
tlc -workers 2 -config Operators_separate.cfg MCOperators.tla
tlc -workers 2 -config Operators_shared.cfg MCOperators.tla              # violation
tlc -workers 2 -config AvgPool3dShape.cfg MCAvgPool3dShape.tla
tlc -workers 2 -config AvgPool3dShape_long.cfg MCAvgPool3dShape.tla      # violation
tlc -workers 2 -config AvgPool3dShape_tuple.cfg MCAvgPool3dShape.tla     # violation
tlc -workers 2 -config HelloWorldPipeline.cfg MCHelloWorldPipeline.tla
tlapm BuildLruPlan_proofs.tla     # and the other *_proofs modules
```

The longest run takes a minute and a half (`operators`), the longest proofs two
(`BuildLruPlan_proofs`), three (`AiCorePipes_proofs`) and four (`Operators_proofs`).

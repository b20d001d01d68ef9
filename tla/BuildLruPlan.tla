---------------------------- MODULE BuildLruPlan -----------------------------
(***************************************************************************)
(* The four build_lru_plan kernels at work on global memory.               *)
(*                                                                         *)
(* The kernels run one after the other on the caller's stream; there is no *)
(* barrier inside a kernel.  A kernel is launched on BlockDim cores, and   *)
(* core c takes the tasks c, c + BlockDim, c + 2 BlockDim, ...  A task     *)
(* copies tiles of global memory into the core's buffer, computes, and     *)
(* copies results out in one or two bursts; cores interleave between the   *)
(* copy-in and every copy-out.  What happens inside one core between its   *)
(* engines is not modelled here.                                           *)
(*                                                                         *)
(* Global memory is one row per batch element.  Workspaces and new_lru     *)
(* come from at::empty, so they start with whatever the memory held.       *)
(***************************************************************************)
EXTENDS LruTiling

CONSTANTS
    batchSize, k,   \* shape of hit
    coreNum,        \* AIV cores of the device
    LruRows,        \* the lru rows and ...
    HitRows,        \* ... the hit rows that callers pass
    Garbage         \* what uninitialised memory may hold

ASSUME ShapeAssumption ==
    /\ batchSize \in Nat \ {0}
    /\ k \in Nat \ {0}
    /\ coreNum \in Nat \ {0}
    /\ Garbage \subseteq Int

Rows == Slots(batchSize)
HitSlots == Slots(k)
Cores == Slots(coreNum)

lruLength == 2 * k
LruSlots == Slots(lruLength)

lruStride == AlignUp(lruLength, kInt32PerCacheLine)
lruTileLength == MakeParallelTileLength(lruLength, batchSize, coreNum)
hitTileLength == MakeParallelTileLength(k, batchSize, coreNum)
lruTileCount == TileCount(lruLength, lruTileLength)
hitTileCount == TileCount(k, hitTileLength)
hitMetaStride == AlignUp(hitTileCount, kInt32PerDataBlock)
lruMetaStride == AlignUp(lruTileCount, kInt32PerDataBlock)
valueStride == lruTileCount * lruTileLength

HitTile(ht) == Tile(k, hitTileLength, ht)
LruTile(lt) == Tile(lruLength, lruTileLength, lt)

\* The caller's contract: lru rows are permutations of the ids, the valid hits
\* of a row are distinct ids.
ASSUME InputAssumption ==
    /\ LruRows \subseteq [LruSlots -> LruSlots]
    /\ \A row \in LruRows : \A p, q \in LruSlots : row[p] = row[q] => p = q
    /\ HitRows \subseteq [HitSlots -> {-1} \cup LruSlots]
    /\ \A row \in HitRows : \A i, j \in HitSlots :
          row[i] = row[j] /\ row[i] # -1 => i = j

------------------------------------------------------------------------------
VARIABLES
    \* tensors of the caller
    lru, hitMask, hit,
    hitIn,             \* hit as passed (history)
    newLru,
    \* workspaces
    hitBitmap, hitCounts, candidateValues, candidateCounts, keepValues, keepCounts,
    \* execution
    kernel,            \* 1..4: the running kernel of the stream, 5: all done
    task,              \* per core: the task it works on
    pc,                \* per core: "in", or the tensor it copies out to next
    ub                 \* per core: results waiting to be copied out

inputs == <<lru, hitMask, hitIn>>
workspaces == <<hitBitmap, hitCounts, candidateValues, candidateCounts,
                keepValues, keepCounts>>
control == <<kernel, task, pc, ub>>
vars == <<inputs, hit, newLru, workspaces, control>>

tasksPerRow == hitTileCount + lruTileCount

TaskCount(n) ==
    CASE n = 1 -> batchSize
      [] n = 2 -> batchSize * lruTileCount
      [] n = 3 -> batchSize * tasksPerRow
      [] n = 4 -> batchSize * lruTileCount
      [] OTHER -> 0

BlockDim(n) == MakeBlockDim(TaskCount(n), coreNum)

\* Core c is one of the blocks of kernel n and has task[c] still to do.
Working(c, n) == kernel = n /\ c < BlockDim(n) /\ task[c] < TaskCount(n)

\* The row of a task, and which of the row's tasks it is.
TasksOfRow(n) == CASE n = 1 -> 1 [] n = 3 -> tasksPerRow [] OTHER -> lruTileCount

RowOf(n, t) == t \div TasksOfRow(n)

LocalTask(n, t) == t - RowOf(n, t) * TasksOfRow(n)

\* Kernel 3 has two kinds of task.
FillsHits(t) == LocalTask(3, t) < hitTileCount

KeepTileOf(t) == LocalTask(3, t) - hitTileCount

------------------------------------------------------------------------------
Init ==
    /\ lru \in [Rows -> LruRows]
    /\ hitIn \in [Rows -> HitRows]
    /\ hitMask = [b \in Rows |-> [i \in HitSlots |-> hitIn[b][i] # -1]]
    /\ hit = hitIn
    /\ \E g \in Garbage :
          LET Empty(n) == [b \in Rows |-> [i \in Slots(n) |-> g]]
          IN  /\ newLru = Empty(lruLength)
              /\ hitBitmap = Empty(lruStride)
              /\ hitCounts = Empty(hitMetaStride)
              /\ candidateValues = Empty(valueStride)
              /\ candidateCounts = Empty(lruMetaStride)
              /\ keepValues = Empty(valueStride)
              /\ keepCounts = Empty(lruMetaStride)
    /\ kernel = 1
    /\ task = [c \in Cores |-> c]
    /\ pc = [c \in Cores |-> "in"]
    /\ ub = [c \in Cores |-> <<>>]

\* What a task leaves in its buffer: the values to copy out and where they go in
\* their row, the counts to copy out and where they go in theirs.
Result(values, offset, counts, countOffset) ==
    [values |-> values, offset |-> offset, counts |-> counts, countOffset |-> countOffset]

One(value) == [i \in {0} |-> value]

\* A core has copied in and computed; it copies out to `target' next.
Computed(c, result, target) ==
    /\ pc' = [pc EXCEPT ![c] = target]
    /\ ub' = [ub EXCEPT ![c] = result]
    /\ UNCHANGED <<kernel, task, inputs, hit, newLru, workspaces>>

\* A core has copied out; it copies out to `target' next ...
Proceed(c, target) ==
    /\ pc' = [pc EXCEPT ![c] = target]
    /\ UNCHANGED <<kernel, task, ub>>

\* ... or goes on to its next task (task += blockNum).  What the buffer still holds is
\* overwritten before anything is copied out again, and is forgotten here.
NextTask(c) ==
    /\ task' = [task EXCEPT ![c] = @ + BlockDim(kernel)]
    /\ pc' = [pc EXCEPT ![c] = "in"]
    /\ ub' = [ub EXCEPT ![c] = <<>>]
    /\ UNCHANGED kernel

Row(c) == RowOf(kernel, task[c])

WriteValues(c, rows) ==
    [rows EXCEPT ![Row(c)] = CopyOut(@, ub[c].offset, ub[c].values)]

WriteCounts(c, rows) ==
    [rows EXCEPT ![Row(c)] = CopyOut(@, ub[c].countOffset, ub[c].counts)]

------------------------------------------------------------------------------
\* Kernel 1, build_lru_plan_hit_local: a task owns a row.

\* bitmapLocal, zeroed and then set at every hit id.
BitmapOf(hitRow) ==
    [id \in Slots(lruStride) |-> IF \E i \in HitSlots : hitRow[i] = id THEN 1 ELSE 0]

\* countLocal: one miss count per hit tile, the rest of the metadata row is 0.
MissCounts(hitRow) ==
    [ht \in Slots(hitMetaStride) |->
        IF ht < hitTileCount THEN Cardinality({i \in HitTile(ht) : hitRow[i] = -1}) ELSE 0]

HitLocalResult(t) ==
    LET b == RowOf(1, t)
    IN  Result(BitmapOf(hit[b]), 0, MissCounts(hit[b]), 0)

HitLocalCompute(c) ==
    /\ Working(c, 1) /\ pc[c] = "in"
    /\ Computed(c, HitLocalResult(task[c]), "hitBitmap")

CopyOutBitmap(c) ==
    /\ Working(c, 1) /\ pc[c] = "hitBitmap"
    /\ hitBitmap' = WriteValues(c, hitBitmap)
    /\ Proceed(c, "hitCounts")
    /\ UNCHANGED <<inputs, hit, newLru, hitCounts, candidateValues, candidateCounts,
                   keepValues, keepCounts>>

CopyOutHitCounts(c) ==
    /\ Working(c, 1) /\ pc[c] = "hitCounts"
    /\ hitCounts' = WriteCounts(c, hitCounts)
    /\ NextTask(c)
    /\ UNCHANGED <<inputs, hit, newLru, hitBitmap, candidateValues, candidateCounts,
                   keepValues, keepCounts>>

------------------------------------------------------------------------------
\* Kernel 2, build_lru_plan_candidate_local: a task owns an lru tile.

\* Mutant: the bitmap is read at the position instead of the id.
UnhitByPosition(b, lt) == {p \in LruTile(lt) : hitBitmap[b][p] = 0}

\* The positions of a tile whose id no slot hit.
Unhit(b, lt) == {p \in LruTile(lt) : hitBitmap[b][lru[b][p]] = 0}

CandidateResult(t) ==
    LET b  == RowOf(2, t)
        lt == LocalTask(2, t)
    IN  Result(CompactRight(Unhit(b, lt), lru[b]), lt * lruTileLength,
               One(Cardinality(Unhit(b, lt))), lt)

\* Values are copied out only if there are any.
CandidateLocalCompute(c) ==
    LET result == CandidateResult(task[c])
    IN  /\ Working(c, 2) /\ pc[c] = "in"
        /\ Computed(c, result,
                    IF result.counts[0] > 0 THEN "candidateValues" ELSE "candidateCounts")

CopyOutCandidateValues(c) ==
    /\ Working(c, 2) /\ pc[c] = "candidateValues"
    /\ candidateValues' = WriteValues(c, candidateValues)
    /\ Proceed(c, "candidateCounts")
    /\ UNCHANGED <<inputs, hit, newLru, hitBitmap, hitCounts, candidateCounts,
                   keepValues, keepCounts>>

CopyOutCandidateCount(c) ==
    /\ Working(c, 2) /\ pc[c] = "candidateCounts"
    /\ candidateCounts' = WriteCounts(c, candidateCounts)
    /\ NextTask(c)
    /\ UNCHANGED <<inputs, hit, newLru, hitBitmap, hitCounts, candidateValues,
                   keepValues, keepCounts>>

------------------------------------------------------------------------------
\* Kernel 3, build_lru_plan_materialize: a task fills one hit tile in place ...

\* Mutant: the suffix includes the tile itself.
SuffixOffsetInclusive(b, lt) == Total(candidateCounts[b], lt, lruTileCount)

\* Candidates in the tiles to the right of tile lt.
SuffixOffset(b, lt) == Total(candidateCounts[b], lt + 1, lruTileCount)

\* The walk over the tiles from the right stops at the first one whose count
\* exceeds what is left of the rank, and leaves the slot as it is if none does.
LookupCandidate(b, rank, otherwise) ==
    LET reached == {lt \in Slots(lruTileCount) :
                       rank - SuffixOffset(b, lt) < candidateCounts[b][lt]}
        lt      == CHOOSE lt \in reached : \A other \in reached : other <= lt
    IN  IF reached = {} THEN otherwise
        ELSE candidateValues[b][lt * lruTileLength + rank - SuffixOffset(b, lt)]

\* Mutant: every hit tile counts its misses from 0.
MissRankInTile(b, ht, i) == Cardinality({j \in HitTile(ht) : j < i /\ ~hitMask[b][j]})

\* Mutant: the rank is recounted from hit, which other tasks are filling in.
MissRankFromHit(b, ht, i) == Cardinality({j \in HitSlots : j < i /\ hit[b][j] = -1})

\* The rank of a miss among the misses of its row: missBase + localMissRank.
MissRank(b, ht, i) ==
    Total(hitCounts[b], 0, ht) + Cardinality({j \in HitTile(ht) : j < i /\ ~hitMask[b][j]})

FilledSlot(b, ht, i) ==
    IF hitMask[b][i] THEN hit[b][i]
    ELSE LookupCandidate(b, MissRank(b, ht, i), hit[b][i])

FillResult(t) ==
    LET b     == RowOf(3, t)
        ht    == LocalTask(3, t)
        start == ht * hitTileLength
    IN  Result([p \in Slots(Cardinality(HitTile(ht))) |-> FilledSlot(b, ht, start + p)],
               start, <<>>, 0)

FillCompute(c) ==
    /\ Working(c, 3) /\ pc[c] = "in" /\ FillsHits(task[c])
    /\ Computed(c, FillResult(task[c]), "hit")

CopyOutHit(c) ==
    /\ Working(c, 3) /\ pc[c] = "hit"
    /\ hit' = WriteValues(c, hit)
    /\ Proceed(c, "newLru")
    /\ UNCHANGED <<inputs, newLru, workspaces>>

CopyOutNewLruHead(c) ==
    /\ Working(c, 3) /\ pc[c] = "newLru"
    /\ newLru' = WriteValues(c, newLru)
    /\ NextTask(c)
    /\ UNCHANGED <<inputs, hit, workspaces>>

\* ... or compacts the ids of one lru tile that stay.
RowMissCount(b) == Total(hitCounts[b], 0, hitTileCount)

\* Candidates of the row to the right of p, p in tile lt: suffixOffset plus
\* withinReverse, which has been decremented once per candidate up to p.
ReverseRank(b, lt, p) ==
    SuffixOffset(b, lt) + candidateCounts[b][lt]
        - Cardinality({q \in Unhit(b, lt) : q <= p})

\* Mutant: the id of rank RowMissCount is dropped as well.
KeptStrictly(b, lt) == {p \in Unhit(b, lt) : ReverseRank(b, lt, p) > RowMissCount(b)}

Kept(b, lt) == {p \in Unhit(b, lt) : ReverseRank(b, lt, p) >= RowMissCount(b)}

KeepResult(t) ==
    LET b  == RowOf(3, t)
        lt == KeepTileOf(t)
    IN  Result(CompactLeft(Kept(b, lt), lru[b]), lt * lruTileLength,
               One(Cardinality(Kept(b, lt))), lt)

KeepCompute(c) ==
    LET result == KeepResult(task[c])
    IN  /\ Working(c, 3) /\ pc[c] = "in" /\ ~FillsHits(task[c])
        /\ Computed(c, result, IF result.counts[0] > 0 THEN "keepValues" ELSE "keepCounts")

CopyOutKeepValues(c) ==
    /\ Working(c, 3) /\ pc[c] = "keepValues"
    /\ keepValues' = WriteValues(c, keepValues)
    /\ Proceed(c, "keepCounts")
    /\ UNCHANGED <<inputs, hit, newLru, hitBitmap, hitCounts, candidateValues,
                   candidateCounts, keepCounts>>

CopyOutKeepCount(c) ==
    /\ Working(c, 3) /\ pc[c] = "keepCounts"
    /\ keepCounts' = WriteCounts(c, keepCounts)
    /\ NextTask(c)
    /\ UNCHANGED <<inputs, hit, newLru, hitBitmap, hitCounts, candidateValues,
                   candidateCounts, keepValues>>

------------------------------------------------------------------------------
\* Kernel 4, build_lru_plan_keep_scan_write: a task places one tile's survivors
\* behind the filled slots and the survivors of the tiles to its left.

\* Mutants: the scan includes the tile itself, or stops one tile early.
KeepOffsetInclusive(b, lt) == k + Total(keepCounts[b], 0, lt + 1)

KeepOffsetShort(b, lt) == k + (IF lt = 0 THEN 0 ELSE Total(keepCounts[b], 0, lt - 1))

KeepOffset(b, lt) == k + Total(keepCounts[b], 0, lt)

ScanResult(t) ==
    LET b  == RowOf(4, t)
        lt == LocalTask(4, t)
    IN  Result(CopyIn(keepValues[b], lt * lruTileLength, keepCounts[b][lt]),
               KeepOffset(b, lt), <<>>, 0)

KeepScan(c) ==
    /\ Working(c, 4) /\ pc[c] = "in"
    /\ keepCounts[Row(c)][LocalTask(4, task[c])] > 0
    /\ Computed(c, ScanResult(task[c]), "newLru")

\* Mutant: the loop does not advance past a tile without survivors.
KeepScanStuck(c) ==
    /\ Working(c, 4) /\ pc[c] = "in"
    /\ keepCounts[Row(c)][LocalTask(4, task[c])] <= 0
    /\ UNCHANGED vars

\* A tile without survivors is skipped.
KeepScanSkip(c) ==
    /\ Working(c, 4) /\ pc[c] = "in"
    /\ keepCounts[Row(c)][LocalTask(4, task[c])] <= 0
    /\ NextTask(c)
    /\ UNCHANGED <<inputs, hit, newLru, workspaces>>

CopyOutNewLruTail(c) ==
    /\ Working(c, 4) /\ pc[c] = "newLru"
    /\ newLru' = WriteValues(c, newLru)
    /\ NextTask(c)
    /\ UNCHANGED <<inputs, hit, workspaces>>

------------------------------------------------------------------------------
\* Mutant: the next kernel waits for the first block only.
LaunchNextEarly ==
    /\ kernel < 5
    /\ ~Working(0, kernel)
    /\ kernel' = kernel + 1
    /\ task' = [c \in Cores |-> c]
    /\ UNCHANGED <<inputs, hit, newLru, workspaces, pc, ub>>

\* The stream starts the next kernel when no block of the running one has work.
LaunchNext ==
    /\ kernel < 5
    /\ \A c \in Cores : ~Working(c, kernel)
    /\ kernel' = kernel + 1
    /\ task' = [c \in Cores |-> c]
    /\ UNCHANGED <<inputs, hit, newLru, workspaces, pc, ub>>

CoreStep(c) ==
    \/ HitLocalCompute(c) \/ CopyOutBitmap(c) \/ CopyOutHitCounts(c)
    \/ CandidateLocalCompute(c) \/ CopyOutCandidateValues(c) \/ CopyOutCandidateCount(c)
    \/ FillCompute(c) \/ CopyOutHit(c) \/ CopyOutNewLruHead(c)
    \/ KeepCompute(c) \/ CopyOutKeepValues(c) \/ CopyOutKeepCount(c)
    \/ KeepScan(c) \/ KeepScanSkip(c) \/ CopyOutNewLruTail(c)

\* The call is over.
Finished == kernel = 5 /\ UNCHANGED vars

Next == LaunchNext \/ (\E c \in Cores : CoreStep(c)) \/ Finished

Spec == Init /\ [][Next]_vars

\* The stream's engine and every core keep going.
FairSpec == Spec /\ WF_vars(LaunchNext) /\ \A c \in Cores : WF_vars(CoreStep(c))

------------------------------------------------------------------------------
\* Properties

Plan == INSTANCE LruPlan

Labels == {"in", "hitBitmap", "hitCounts", "candidateValues", "candidateCounts",
           "hit", "newLru", "keepValues", "keepCounts"}

\* An array of n cells, of whatever content.
IsRow(a, n) == a = [i \in Slots(n) |-> a[i]]

IsTensor(rows, n) == rows = [b \in Rows |-> rows[b]] /\ \A b \in Rows : IsRow(rows[b], n)

IsResult(r) ==
    /\ r = Result(r.values, r.offset, r.counts, r.countOffset)
    /\ IsRow(r.values, Cardinality(DOMAIN r.values))
    /\ \E n \in 0 .. hitMetaStride + 1 : r.counts \in [Slots(n) -> Nat]
    /\ r.offset \in Int /\ r.countOffset \in Nat

\* Tensors keep their shape whatever is written into them; counts stay integers.
TensorsOK ==
    /\ lru \in [Rows -> LruRows] /\ hitIn \in [Rows -> HitRows]
    /\ hitMask = [b \in Rows |-> [i \in HitSlots |-> hitIn[b][i] # -1]]
    /\ IsTensor(hit, k) /\ IsTensor(newLru, lruLength)
    /\ IsTensor(hitBitmap, lruStride)
    /\ IsTensor(candidateValues, valueStride) /\ IsTensor(keepValues, valueStride)
    /\ hitCounts \in [Rows -> [Slots(hitMetaStride) -> Int]]
    /\ candidateCounts \in [Rows -> [Slots(lruMetaStride) -> Int]]
    /\ keepCounts \in [Rows -> [Slots(lruMetaStride) -> Int]]

\* The tensors a task copies out to.
TensorsOf(n, t) ==
    CASE n = 1 -> {"hitBitmap", "hitCounts"}
      [] n = 2 -> {"candidateValues", "candidateCounts"}
      [] n = 3 -> IF FillsHits(t) THEN {"hit", "newLru"} ELSE {"keepValues", "keepCounts"}
      [] n = 4 -> {"newLru"}
      [] OTHER -> {}

\* What waits to be copied out is the result of a task of the running kernel, for one of
\* that task's own tensors.
ControlOK ==
    /\ kernel \in 1..5
    /\ task \in [Cores -> Nat]
    /\ pc \in [Cores -> Labels]
    /\ ub = [c \in Cores |-> ub[c]]
    /\ \A c \in Cores :
          IF pc[c] = "in" THEN ub[c] = <<>>
          ELSE Working(c, kernel) /\ pc[c] \in TensorsOf(kernel, task[c]) /\ IsResult(ub[c])

\* The type invariant: at every step of every core the tensors have the shape the
\* host gave them, and no copy-out of one kernel is outstanding when the next one runs.
TypeOK == TensorsOK /\ ControlOK

\* The cells a core is about to overwrite: a tensor, a row and a position.
PendingCells(c) ==
    IF pc[c] = "in" THEN {}
    ELSE IF pc[c] \in {"hitCounts", "candidateCounts", "keepCounts"}
    THEN {<<pc[c], Row(c), ub[c].countOffset + i>> : i \in DOMAIN ub[c].counts}
    ELSE {<<pc[c], Row(c), ub[c].offset + i>> : i \in DOMAIN ub[c].values}

RowLength ==
    [target \in Labels \ {"in"} |->
        CASE target = "hitBitmap" -> lruStride
          [] target = "hitCounts" -> hitMetaStride
          [] target \in {"candidateValues", "keepValues"} -> valueStride
          [] target \in {"candidateCounts", "keepCounts"} -> lruMetaStride
          [] target = "hit" -> k
          [] OTHER -> lruLength]

\* No copy-out leaves its row: a burst past the end of a row of the flat tensor
\* would land in the next row, or behind the tensor.  The last kernel's bursts
\* start at k plus a sum of counts that earlier kernels computed.
BurstsInBounds ==
    \A c \in Cores : \A cell \in PendingCells(c) :
        cell[2] \in Rows /\ cell[3] \in Slots(RowLength[cell[1]])

\* Two cores never hold bursts for a common cell.  There is no barrier and no
\* atomic inside a kernel: nothing else keeps their writes apart.
BurstsDisjoint ==
    \A c, d \in Cores : c # d => PendingCells(c) \cap PendingCells(d) = {}

\* The counts that place the results add up: once the candidates are known there
\* are k more of them than misses, so every miss finds one; once they are thinned
\* out exactly k ids stay, so the rest of new_lru is filled without a gap.
CountsBalance ==
    \A b \in Rows :
        /\ kernel > 2 => Total(candidateCounts[b], 0, lruTileCount) = k + RowMissCount(b)
        /\ kernel > 3 => Total(keepCounts[b], 0, lruTileCount) = k

\* A compacted tile: its count and, from the tile's place on, its values.
TileHolds(values, counts, lt, compacted) ==
    /\ counts[lt] = Cardinality(DOMAIN compacted)
    /\ \A r \in DOMAIN compacted : values[lt * lruTileLength + r] = compacted[r]

\* Whenever a kernel runs, what the kernels before it were to write is all there and no
\* later write has touched it: the bitmap and the miss counts (212-215), the candidates of
\* every tile (217-220), the survivors of every tile and the filled slots (222-230), as
\* the reference has them for the caller's tensors.  No core asks whether another has
\* finished; the stream's order is all there is.
EarlierKernelsComplete ==
    \A b \in Rows :
        LET candidates == Plan!Candidates(lru[b], hitIn[b], hitMask[b])
            remaining  == Plan!Remaining(lru[b], hitIn[b], hitMask[b])
            filled     == Plan!Filled(lru[b], hitIn[b], hitMask[b])
        IN  /\ kernel > 1 =>
                  /\ \A id \in LruSlots :
                        hitBitmap[b][id] = IF id \in Plan!HitSet(hitIn[b], hitMask[b]) THEN 1 ELSE 0
                  /\ \A ht \in Slots(hitTileCount) :
                        hitCounts[b][ht] = Cardinality(Plan!MissSlots(hitMask[b]) \cap HitTile(ht))
            /\ kernel > 2 => \A lt \in Slots(lruTileCount) :
                  TileHolds(candidateValues[b], candidateCounts[b], lt,
                            CompactRight(candidates \cap LruTile(lt), lru[b]))
            /\ kernel > 3 =>
                  /\ \A lt \in Slots(lruTileCount) :
                        TileHolds(keepValues[b], keepCounts[b], lt,
                                  CompactLeft(remaining \cap LruTile(lt), lru[b]))
                  /\ \A i \in HitSlots : hit[b][i] = filled[i] /\ newLru[b][i] = filled[i]

\* When the last kernel is done, hit and new_lru hold what the reference
\* implementation computes from the tensors the caller passed.
PlanCorrect == kernel = 5 => Plan!Settled

\* The tasks of the running kernel that some core has not completed.
OpenTasks ==
    {t \in Slots(TaskCount(kernel)) :
        \E c \in Slots(BlockDim(kernel)) :
            t >= task[c] /\ (t - task[c]) % BlockDim(kernel) = 0}

TaskResult(n, t) ==
    CASE n = 1 -> HitLocalResult(t)
      [] n = 2 -> CandidateResult(t)
      [] n = 3 -> IF FillsHits(t) THEN FillResult(t) ELSE KeepResult(t)
      [] n = 4 -> ScanResult(t)

\* No step of a kernel changes what a task that is still open would compute from
\* global memory: a task may be delayed, or its copy-ins spread out, without any
\* effect on its result.  Kernel 3 reads hit and overwrites it in place.
TaskInputsStable ==
    [][kernel < 5 /\ kernel' = kernel =>
          \A t \in OpenTasks : TaskResult(kernel, t)' = TaskResult(kernel, t)]_vars

\* The kernels implement the plan: until the end, no cell of hit and new_lru ever
\* holds anything but what it held at the call or its final value.
Refines == Plan!PlanSpec

\* The call returns: every task gets its turn and all four kernels end.
Terminates == <>(kernel = 5)
==============================================================================

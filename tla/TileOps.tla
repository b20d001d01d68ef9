------------------------------- MODULE TileOps -------------------------------
(***************************************************************************)
(* The operations on rows of int32 values that the four build_lru_plan     *)
(* kernels are made of.  A row of n values is a function on 0..n-1; a tile *)
(* is an interval of row positions.  The kernels' scalar loops are given   *)
(* by what they compute: a counting loop is a Cardinality, a compaction    *)
(* loop places each survivor at its rank, a scan over tile counts is Total.*)
(***************************************************************************)
EXTENDS Integers, FiniteSets

\* MinInt64 of the kernel, std::min / std::max of the host.
MinInt64(lhs, rhs) == IF lhs < rhs THEN lhs ELSE rhs

MaxInt64(lhs, rhs) == IF lhs < rhs THEN rhs ELSE lhs

\* The positions 0..n-1 of an array of n elements.
Slots(n) == 0 .. n-1

\* The positions of tile t when a row of `length' values is cut into tiles of
\* `tileLength': start, and validLen = MinInt64(tileLength, length - start).
Tile(length, tileLength, t) ==
    LET start == t * tileLength
    IN  start .. start + MinInt64(tileLength, length - start) - 1

\* Sum of count[t] for lo <= t < hi: the kernels' loops over tile counts.
Total(count, lo, hi) ==
    LET sum[t \in lo..hi] == IF t = lo THEN 0 ELSE sum[t-1] + count[t-1]
    IN  sum[hi]

\* Mutant: the candidates are collected from the left.
CompactRightFromLeft(S, row) ==
    [r \in Slots(Cardinality(S)) |->
        row[CHOOSE p \in S : Cardinality({q \in S : q < p}) = r]]

\* Compaction that scans S from the right (candidates, in eviction order) ...
CompactRight(S, row) ==
    [r \in Slots(Cardinality(S)) |->
        row[CHOOSE p \in S : Cardinality({q \in S : q > p}) = r]]

\* ... and from the left (survivors, in most-recently-used order).
CompactLeft(S, row) ==
    [r \in Slots(Cardinality(S)) |->
        row[CHOOSE p \in S : Cardinality({q \in S : q < p}) = r]]

\* CopyOutInt32 / CopyOutFloat: DataCopyPad writes exactly the logical elements
\* of the local buffer, without padding, from `offset' on in the row.
CopyOut(row, offset, local) ==
    [i \in DOMAIN row |-> IF i - offset \in DOMAIN local THEN local[i - offset] ELSE row[i]]

\* CopyInInt32 / CopyInFloat: `length' elements of a row from offset on.
CopyIn(row, offset, length) == [i \in Slots(length) |-> row[offset + i]]
==============================================================================

-------------------------- MODULE MCBuildLruPlanHost -------------------------
(***************************************************************************)
(* Calls and devices for model checking BuildLruPlanHost: shapes on either *)
(* side of the data block, the cache line and the largest tile, the        *)
(* shapes of the repository's tests, and calls that are refused.           *)
(***************************************************************************)
EXTENDS BuildLruPlanHost

MCBatchSizes == {1, 2, 3, 16, 41}

MCSlots == {1, 3, 7, 8, 9, 31, 64, 65, 127, 128, 129, 257, 1030, 2048}

LegalCalls ==
    {[faults |-> {}, batchSize |-> b, k |-> s, lruColumns |-> 2 * s] :
        b \in MCBatchSizes, s \in MCSlots}

RefusedCalls ==
    {[faults |-> {"hitNotContiguous"}, batchSize |-> 1, k |-> 3, lruColumns |-> 6],
     [faults |-> {}, batchSize |-> 0, k |-> 3, lruColumns |-> 6],
     [faults |-> {}, batchSize |-> 1, k |-> 0, lruColumns |-> 0],
     [faults |-> {}, batchSize |-> 1, k |-> 3, lruColumns |-> 7],
     [faults |-> {}, batchSize |-> 1, k |-> 4000, lruColumns |-> 8000]}

MCCalls == LegalCalls \cup RefusedCalls

\* Unified buffers large enough for all, for some and for none of the calls.
MCPlatforms ==
    {[coreNum |-> c, ubSizeBytes |-> u] : c \in {1, 8, 40}, u \in {196608, 12288}}
        \cup {[coreNum |-> 0, ubSizeBytes |-> 196608], [coreNum |-> 8, ubSizeBytes |-> 8192]}
==============================================================================

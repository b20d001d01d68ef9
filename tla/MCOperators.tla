---------------------------- MODULE MCOperators ----------------------------
EXTENDS Operators

MCThreads == {1, 2}
MCStreams == {"s1", "s2"}
MCBlocks == 1..10
MCFirstLru == <<1, 2>>
MCParams == {"self", "kernel_size"}
MCAclType == [p \in MCParams |-> IF p = "self" THEN "aclTensor" ELSE "aclIntArray"]

Caller(stream, operators) == [stream |-> stream, operators |-> operators]

Plan == "build_lru_plan"
Pool == "avg_pool3d"

Api == {"aclnnAvgPool3d", "aclnnAvgPool3dGetWorkspaceSize"}
InitMem == "InitHugeMemThreadLocal"
UnInitMem == "UnInitHugeMemThreadLocal"
Creators == {"aclCreateTensor", "aclCreateIntArray"}
Destroyers == {"aclDestroyTensor", "aclDestroyIntArray"}
Rest == {InitMem, UnInitMem} \cup Creators \cup Destroyers

Scenario(first, second, blocks, custom, opapi, faults) ==
    [threads |-> <<first, second>>, blocks |-> blocks, custom |-> custom, opapi |-> opapi,
     faults |-> faults]

\* build_lru_plan shares a stream with itself, avg_pool3d with its own thread's calls.
\* There are fewer blocks than all calls need at once; libraries have all symbols, half of
\* the api, the api only, or the api and some of the others: they can open the huge
\* memory but not close it, or the reverse, and cannot create or destroy some objects.
Apart == {
    Scenario(Caller("s1", <<Plan, Plan>>), Caller("s1", <<>>), 7, {}, {}, {"launch"}),
    Scenario(Caller("s1", <<Plan>>), Caller("s1", <<Plan>>), 8, {}, {}, {}),
    Scenario(Caller("s2", <<Plan, Pool>>), Caller("s1", <<Plan>>), 8, {}, Api \cup Rest, {}),
    Scenario(Caller("s1", <<Pool, Plan>>), Caller("s2", <<Pool>>), 8, Api, Rest,
             {"api", "size", "convert"}),
    Scenario(Caller("s1", <<Pool>>), Caller("s2", <<Pool>>), 6, {}, Api, {"convert"}),
    Scenario(Caller("s1", <<Pool>>), Caller("s2", <<Pool>>), 6, {"aclnnAvgPool3d"}, Rest, {}),
    Scenario(Caller("s1", <<Pool, Pool>>), Caller("s2", <<Pool>>), 4, Api,
             {InitMem, "aclDestroyTensor"} \cup Creators, {"api", "size", "convert"}),
    Scenario(Caller("s1", <<Pool, Pool>>), Caller("s2", <<Pool>>), 4, {UnInitMem, "aclCreateTensor"},
             Api \cup Destroyers, {"api", "size", "convert"})}

\* Blocks for both calls at once: their launches interleave.
Roomy == {
    Scenario(Caller("s1", <<Plan>>), Caller("s1", <<Plan>>), 10, {}, {}, {}),
    Scenario(Caller("s1", <<Plan>>), Caller("s2", <<Plan>>), 10, {}, {}, {})}

Separate == Apart \cup Roomy

\* Both operators on one stream, from two threads.
Shared == {
    Scenario(Caller("s1", <<Plan>>), Caller("s1", <<Pool>>), 8, {}, Api \cup Rest, {})}
==============================================================================

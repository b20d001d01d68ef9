---------------------------- MODULE LaunchQueue ----------------------------
(***************************************************************************)
(* build_lru_plan on the runtime: its tensors, its four EXEC_KERNEL_CMDs   *)
(* and what becomes of them.  Checks and tiling are BuildLruPlanHost, the  *)
(* kernels' work is BuildLruPlan.                                          *)
(*                                                                         *)
(* The tensor `hit', which stays with the caller, is left out; the         *)
(* workspaces that one kernel fills are one.                               *)
(***************************************************************************)
EXTENDS NpuRuntime

PlanTensors == <<"newLru", "hitWorkspace", "candidateWorkspace", "keepWorkspace">>

\* What the kernels read and write, by the tensors' addresses.
PlanReads(t, kernel) ==
    LET at == tensors[t]
        lru == Extended(<<>>, kept[t].lru.block, Written(kept[t].lru.call, WholePlan))
        lruAndHits == Extended(lru, at.hitWorkspace, Written(Call(t), {"hit_local"}))
    IN  CASE kernel = "hit_local"       -> <<>>
          [] kernel = "candidate_local" -> lruAndHits
          [] kernel = "materialize"     ->
                Extended(lruAndHits, at.candidateWorkspace, Written(Call(t), {"candidate_local"}))
          [] kernel = "keep_scan_write" ->
                Extended(<<>>, at.keepWorkspace, Written(Call(t), {"materialize"}))

PlanWrites(t, kernel) ==
    LET at == tensors[t]
    IN  CASE kernel = "hit_local"       -> {at.hitWorkspace}
          [] kernel = "candidate_local" -> {at.candidateWorkspace}
          [] kernel = "materialize"     -> {at.keepWorkspace, at.newLru}
          [] kernel = "keep_scan_write" -> {at.newLru}

PlanKernel(t, kernel) ==
    [call |-> Call(t), from |-> kept[t].lru.from \cup {Call(t)}, kernel |-> kernel,
     reads |-> PlanReads(t, kernel), writes |-> PlanWrites(t, kernel)]

CallBuildLruPlan(t) == CallOperator(t, "build_lru_plan", "newLru")

\* Mutant: calls on one stream share their tensors.
AllocateShared(t) ==
    \E n \in 1..4 :
        LET others == {u \in Threads : StreamOf(u) = StreamOf(t) /\ PlanTensors[n] \in DOMAIN tensors[u]}
        IN  /\ stage[t] = PlanTensors[n]
            /\ \E b \in IF others = {} THEN Available(t) ELSE {tensors[u][PlanTensors[n]] : u \in others} :
                  tensors' = [tensors EXCEPT ![t] = Extended(@, PlanTensors[n], b)] /\ Take(t, b)
            /\ GoTo(t, IF n = 4 THEN "hit_local" ELSE PlanTensors[n + 1])
            /\ UNCHANGED <<scenario, calls, kept, memory, queueVars, failed>>

AllocatePlanTensor(t) ==
    \E n \in 1..4 :
        /\ stage[t] = PlanTensors[n]
        /\ Allocate(t, PlanTensors[n], IF n = 4 THEN "hit_local" ELSE PlanTensors[n + 1])

PlanOutOfMemory(t) ==
    /\ \E n \in 1..4 : stage[t] = PlanTensors[n]
    /\ Available(t) = {}
    /\ Raise(t)

\* Mutant: every kernel goes to the default stream.
DefaultStream(t) == CHOOSE s \in Streams : TRUE

\* getCurrentNPUStream().
CurrentStream(t) == StreamOf(t)

\* EXEC_KERNEL_CMD: the addresses are in the task, the tensors are not.
ExecKernelCmd(t) ==
    \E n \in 1..4 :
        /\ stage[t] = PlanKernels[n]
        /\ Submit(CurrentStream(t), PlanKernel(t, PlanKernels[n]))
        /\ GoTo(t, IF n = 4 THEN "return" ELSE PlanKernels[n + 1])
        /\ UNCHANGED <<scenario, calls, tensors, kept, pool, memory, launched, running, failed>>

ReturnPlan(t) == stage[t] = "return" /\ Return(t, "newLru", "lru", kept[t].lru.from)

PlanStep(t) ==
    \/ CallBuildLruPlan(t) \/ AllocatePlanTensor(t) \/ PlanOutOfMemory(t)
    \/ ExecKernelCmd(t) \/ ReturnPlan(t)

\* The consumer runs the lambda, which returns 0 although the launch may have failed.
LaunchKernel(s) ==
    /\ tasks[s] # <<>> /\ Head(tasks[s]).kernel # "aclnnAvgPool3d"
    /\ tasks' = [tasks EXCEPT ![s] = Tail(@)]
    /\ \/ /\ launched' = [launched EXCEPT ![s] = Append(@, Head(tasks[s]))]
          /\ UNCHANGED failed
       \/ /\ MayFail("launch")
          /\ failed' = failed \cup {Head(tasks[s]).call}
          /\ UNCHANGED launched
    /\ UNCHANGED <<scenario, hostVars, pool, memory, running>>
==============================================================================

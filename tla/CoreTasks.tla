------------------------------ MODULE CoreTasks ------------------------------
(***************************************************************************)
(* One core in a kernel of build_lru_plan, seen from global memory: task   *)
(* after task it copies in and computes, then copies out the tensors of    *)
(* that kind of task, one by one and in the order of the program, and only *)
(* then turns to the next task.  BuildLruPlan's cores work this way (their *)
(* pc is the head of outs); AiCorePipes shows that the engines of a core   *)
(* do, although they run asynchronously.                                   *)
(***************************************************************************)
EXTENDS Naturals, Sequences

CONSTANT TaskLimit   \* tasks of the core

VARIABLES
    kernel,  \* 1..4
    done,    \* tasks completed
    outs     \* <<"in">>, or what is left to copy out

coreTaskVars == <<kernel, done, outs>>

\* What the tasks of a kernel copy out: values only if there are any.
OutsOf(n) ==
    CASE n = 1 -> {<<"hitBitmap", "hitCounts">>}
      [] n = 2 -> {<<"candidateValues", "candidateCounts">>, <<"candidateCounts">>}
      [] n = 3 -> {<<"hit", "newLru">>, <<"keepValues", "keepCounts">>, <<"keepCounts">>}
      [] n = 4 -> {<<"newLru">>, <<>>}

CoreTasksInit == kernel \in 1..4 /\ done = 0 /\ outs = <<"in">>

\* The task is over once nothing is left.
Leave(rest) ==
    IF rest = <<>> THEN done' = done + 1 /\ outs' = <<"in">>
    ELSE outs' = rest /\ UNCHANGED done

Compute ==
    /\ done < TaskLimit /\ outs = <<"in">>
    /\ \E tensors \in OutsOf(kernel) : Leave(tensors)
    /\ UNCHANGED kernel

CopyOutNext ==
    /\ outs # <<"in">>
    /\ Leave(Tail(outs))
    /\ UNCHANGED kernel

CoreTasksSpec ==
    /\ CoreTasksInit
    /\ [][Compute \/ CopyOutNext]_coreTaskVars
    /\ WF_coreTaskVars(Compute \/ CopyOutNext)
==============================================================================

----------------------------- MODULE Operators -----------------------------
(***************************************************************************)
(* Threads that call build_lru_plan and avg_pool3d, on streams of their    *)
(* own or on one stream, with the task queues and the device behind them.  *)
(***************************************************************************)
EXTENDS LaunchQueue, AclnnCall

vars == <<runtimeVars, aclnnVars>>

OperatorsInit == Init /\ AclnnInit

Thread(t) == (PlanStep(t) /\ UNCHANGED aclnnVars) \/ PoolStep(t)

Consumer(s) == (LaunchKernel(s) /\ UNCHANGED aclnnVars) \/ CallOpApi(s)

Device(s) == (Begin(s) \/ End(s)) /\ UNCHANGED aclnnVars

Done == Quiet /\ UNCHANGED vars

Next ==
    \/ \E t \in Threads : Thread(t)
    \/ \E s \in Streams : Consumer(s) \/ Device(s)
    \/ Done

Spec == OperatorsInit /\ [][Next]_vars

------------------------------------------------------------------------------
\* Every tensor and every result has a block of its own thread's stream, every queue
\* holds kernels of calls that were made, and no huge memory is closed that is not open,
\* unless the libraries can only close it.
RuntimeTypeOK ==
    /\ \A t \in Threads :
          /\ calls[t] \in 0..Len(scenario.threads[t].operators)
          /\ \A name \in DOMAIN tensors[t] : pool[tensors[t][name]] = StreamOf(t)
          /\ pool[kept[t].lru.block] = StreamOf(t)
          /\ workspace[t] \in Blocks \cup {0}
          /\ hugeMem[t] \in Int
          /\ Found("InitHugeMemThreadLocal") => hugeMem[t] \in Nat
    /\ \A o \in objects : \E t \in Threads : o[1] \in {t} \X (1..calls[t]) /\ o[2] \in Params
    /\ \A s \in Streams : \A i \in 1..Len(tasks[s]) : tasks[s][i].call[2] \in 1..calls[tasks[s][i].call[1]]

Sound(calls_) == calls_ \cap failed = {}

\* design.md 458-459 and 512: a kernel finds in its blocks what its own call, or the call
\* that made its lru, has written: the addresses in the launch lambda (torch_kernel_helper.h
\* 68-69) still mean those tensors, long after the host dropped them.  A launch that
\* fails (75-76) spoils only what is computed from its own call.
KernelsSeeTheirCall ==
    \A s \in Streams :
        LET kernel == running[s]
        IN  Sound(kernel.from) => \A b \in DOMAIN kernel.reads : memory[b] = kernel.reads[b]

\* Kernels that run at the same time on two streams do not touch each other's blocks.
KernelsApart ==
    \A r, s \in Streams :
        r # s => running[r].writes \cap (running[s].writes \cup DOMAIN running[s].reads) = {}

Pending(call) ==
    \E s \in Streams :
        \/ running[s].call = call
        \/ \E i \in 1..Len(tasks[s]) : tasks[s][i].call = call
        \/ \E i \in 1..Len(launched[s]) : launched[s][i].call = call

\* A result that the caller keeps is whole once the kernels of its call have run, and no
\* later call's workspace or result is laid over it.
ResultsSurvive ==
    \A t \in Threads :
        LET lru == kept[t].lru  pooled == kept[t].pooled
        IN  /\ Sound(lru.from) /\ ~ Pending(lru.call) => memory[lru.block] = Written(lru.call, WholePlan)
            /\ pooled.block # 0 /\ Sound(pooled.from) /\ ~ Pending(pooled.call) =>
                   memory[pooled.block] = Written(pooled.call, {"aclnnAvgPool3d"})

HasObjects(call) == \A p \in Params : Found(aclCreate(p)) => <<call, p>> \in objects

\* Every queued call of EXEC_NPU_CMD still has an object for each parameter whose type the
\* libraries can create (torch_aclnn_helper.h 547-552; for the others it has nullptr).  An
\* object that stays behind belongs to a call that failed, or is of a type the
\* libraries cannot destroy (397-399, 415-417): no other call leaves one.
ObjectsLiveForTheirCall ==
    /\ \A s \in Streams : \A i \in 1..Len(tasks[s]) :
          tasks[s][i].kernel = "aclnnAvgPool3d" => HasObjects(tasks[s][i].call)
    /\ \A o \in objects :
          \/ o[1] \in failed
          \/ o[1] = Call(o[1][1]) /\ stage[o[1][1]] # "caller"
          \/ \E s \in Streams : \E i \in 1..Len(tasks[s]) : tasks[s][i].call = o[1]
          \/ ~ Found(aclDestroy(o[2]))

RaisedAt(call, stages) == \E at \in stages : <<call, at>> \in raised

PoolCalls(t) == {n \in 1..calls[t] : Operator(<<t, n>>) = "avg_pool3d"}

\* Calls that raised behind InitHugeMemThreadLocal, and calls that returned.
LeftOpen(t) == {n \in PoolCalls(t) : RaisedAt(<<t, n>>, {"convert", "size", "workspace"})}

Returned(t) ==
    {n \in PoolCalls(t) :
        ~ RaisedAt(<<t, n>>, {"result", "resolve", "convert", "size", "workspace"})}

\* Between calls, a thread's huge memory has been opened once by every call that came as far
\* as InitHugeMemThreadLocal (533-535) and closed once by every call that returned
\* (563-565), each where the libraries have the function: with both, it is open
\* once for every call that raised in between, and never for one that returned.
HugeMemOpenAfterRaise ==
    \A t \in Threads :
        stage[t] = "caller" =>
            hugeMem[t] =
                (IF Found("InitHugeMemThreadLocal")
                 THEN Cardinality(LeftOpen(t)) + Cardinality(Returned(t)) ELSE 0)
              - (IF Found("UnInitHugeMemThreadLocal") THEN Cardinality(Returned(t)) ELSE 0)
==============================================================================

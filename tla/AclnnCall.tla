----------------------------- MODULE AclnnCall -----------------------------
(***************************************************************************)
(* avg_pool3d on the runtime: one EXEC_NPU_CMD, which resolves the library *)
(* symbols, opens the thread's huge memory, converts the parameters into   *)
(* objects of the library, asks for the workspace size, takes a workspace, *)
(* and queues a call that releases the objects once the library succeeded. *)
(* The output size is AvgPool3dShape.                                      *)
(*                                                                         *)
(* Its input, which stays with the caller, is left out; the library's call *)
(* is one kernel.                                                          *)
(***************************************************************************)
EXTENDS NpuRuntime

CONSTANTS
    Params,    \* the parameters that become objects
    AclType    \* the type of each

ASSUME ParamAssumption == AclType \in [Params -> {"aclTensor", "aclIntArray"}]

VARIABLES
    converted,  \* per thread: parameters its call has converted
    objects,    \* live objects: <<call, parameter>>
    hugeMem,    \* per thread: huge memory opened less huge memory closed
    workspace,  \* per thread: the address of its call's workspace, or 0
    raised      \* history: the calls of avg_pool3d that raised, and where

aclnnVars == <<converted, objects, hugeMem, workspace, raised>>

AclnnInit ==
    /\ converted = [t \in Threads |-> {}]
    /\ objects = {}
    /\ hugeMem = [t \in Threads |-> 0]
    /\ workspace = [t \in Threads |-> 0]
    /\ raised = {}

\* A symbol of the custom library comes before its namesake in the other.
GetOpApiFuncAddr(name) ==
    CASE name \in scenario.custom                           -> "libcust_opapi.so"
      [] name \in scenario.opapi \ scenario.custom          -> "libopapi.so"
      [] name \notin scenario.opapi \cup scenario.custom     -> "nullptr"

Found(name) == GetOpApiFuncAddr(name) # "nullptr"

ApiFound == Found("aclnnAvgPool3d") /\ Found("aclnnAvgPool3dGetWorkspaceSize")

CallAvgPool3d(t) ==
    /\ CallOperator(t, "avg_pool3d", "result")
    /\ converted' = [converted EXCEPT ![t] = {}]
    /\ workspace' = [workspace EXCEPT ![t] = 0]
    /\ UNCHANGED <<objects, hugeMem, raised>>

\* The last of the macro's parameters.
AllocateResult(t) ==
    /\ stage[t] = "result"
    /\ Allocate(t, "result", "resolve")
    /\ UNCHANGED aclnnVars

\* Mutant: every way out closes the huge memory.
PoolRaisesClosing(t) ==
    /\ \/ stage[t] \in {"result", "workspace"} /\ Available(t) = {}
       \/ stage[t] = "resolve" /\ ~ ApiFound
       \/ stage[t] = "size" /\ MayFail("size")
    /\ Raise(t)
    /\ raised' = raised \cup {<<Call(t), stage[t]>>}
    /\ hugeMem' = [hugeMem EXCEPT ![t] = @ - 1]
    /\ UNCHANGED <<converted, objects, workspace>>

\* No block for the result, the library or one of the api's symbols missing, the library
\* refusing the parameters, or no block for its workspace.
PoolRaises(t) ==
    /\ \/ stage[t] \in {"result", "workspace"} /\ Available(t) = {}
       \/ stage[t] = "resolve" /\ ~ ApiFound
       \/ stage[t] = "size" /\ MayFail("size")
    /\ Raise(t)
    /\ raised' = raised \cup {<<Call(t), stage[t]>>}
    /\ UNCHANGED <<converted, objects, hugeMem, workspace>>

InitHugeMem(t) ==
    /\ stage[t] = "resolve" /\ ApiFound
    /\ hugeMem' = IF Found("InitHugeMemThreadLocal") THEN [hugeMem EXCEPT ![t] = @ + 1] ELSE hugeMem
    /\ GoTo(t, "convert")
    /\ UNCHANGED <<scenario, calls, tensors, kept, pool, memory, queueVars, failed,
                   converted, objects, workspace, raised>>

aclCreate(p) == IF AclType[p] = "aclTensor" THEN "aclCreateTensor" ELSE "aclCreateIntArray"

aclDestroy(p) == IF AclType[p] = "aclTensor" THEN "aclDestroyTensor" ELSE "aclDestroyIntArray"

\* The arguments of make_tuple are converted in no particular order; a parameter
\* whose type the libraries cannot create becomes nullptr.
ConvertType(t) ==
    /\ stage[t] = "convert"
    /\ \E p \in Params \ converted[t] :
          /\ converted' = [converted EXCEPT ![t] = @ \cup {p}]
          /\ objects' = IF Found(aclCreate(p)) THEN objects \cup {<<Call(t), p>>} ELSE objects
    /\ UNCHANGED <<runtimeVars, hugeMem, workspace, raised>>

\* A tensor of a data type the library does not know.
ConvertTypeRaises(t) ==
    /\ stage[t] = "convert" /\ MayFail("convert")
    /\ \E p \in Params \ converted[t] : AclType[p] = "aclTensor" /\ Found(aclCreate(p))
    /\ Raise(t)
    /\ raised' = raised \cup {<<Call(t), stage[t]>>}
    /\ UNCHANGED <<converted, objects, hugeMem, workspace>>

GetWorkspaceSize(t) ==
    /\ stage[t] = "convert" /\ converted[t] = Params
    /\ GoTo(t, "size")
    /\ UNCHANGED <<scenario, calls, tensors, kept, pool, memory, queueVars, failed, aclnnVars>>

NoWorkspace(t) ==
    /\ stage[t] = "size"
    /\ GoTo(t, "submit")
    /\ UNCHANGED <<scenario, calls, tensors, kept, pool, memory, queueVars, failed, aclnnVars>>

NeedsWorkspace(t) ==
    /\ stage[t] = "size"
    /\ GoTo(t, "workspace")
    /\ UNCHANGED <<scenario, calls, tensors, kept, pool, memory, queueVars, failed, aclnnVars>>

\* The tensor is dropped where its block of code ends: its address is all that stays.
AllocateWorkspace(t) ==
    /\ stage[t] = "workspace"
    /\ \E b \in Available(t) :
          /\ Take(t, b)
          /\ workspace' = [workspace EXCEPT ![t] = b]
    /\ GoTo(t, "submit")
    /\ UNCHANGED <<scenario, calls, tensors, kept, memory, queueVars, failed,
                   converted, objects, hugeMem, raised>>

Run(t) ==
    /\ stage[t] = "submit"
    /\ Submit(StreamOf(t),
           [call |-> Call(t), from |-> {Call(t)}, kernel |-> "aclnnAvgPool3d", reads |-> <<>>,
            writes |-> {tensors[t].result} \cup ({workspace[t]} \ {0})])
    /\ GoTo(t, "unInit")
    /\ UNCHANGED <<scenario, calls, tensors, kept, pool, memory, launched, running, failed,
                   aclnnVars>>

\* Mutant: huge memory stays open.
UnInitHugeMemMissing(t) ==
    /\ stage[t] = "unInit"
    /\ Return(t, "result", "pooled", {})
    /\ UNCHANGED aclnnVars

\* What ReleaseConvertTypes leaves: objects of other calls, and those of a type that the
\* libraries cannot destroy.
Released(call) == {o \in objects : o[1] = call => ~ Found(aclDestroy(o[2]))}

\* Mutant: the thread releases the objects once its task is queued.
UnInitHugeMemReleasing(t) ==
    /\ stage[t] = "unInit"
    /\ objects' = Released(Call(t))
    /\ Return(t, "result", "pooled", {})
    /\ UNCHANGED <<converted, hugeMem, workspace, raised>>

\* ... and avg_pool3d returns its result.
UnInitHugeMem(t) ==
    /\ stage[t] = "unInit"
    /\ hugeMem' = IF Found("UnInitHugeMemThreadLocal") THEN [hugeMem EXCEPT ![t] = @ - 1] ELSE hugeMem
    /\ Return(t, "result", "pooled", {})
    /\ UNCHANGED <<converted, objects, workspace, raised>>

PoolStep(t) ==
    \/ CallAvgPool3d(t) \/ AllocateResult(t) \/ PoolRaises(t) \/ InitHugeMem(t)
    \/ ConvertType(t) \/ ConvertTypeRaises(t) \/ GetWorkspaceSize(t)
    \/ NoWorkspace(t) \/ NeedsWorkspace(t) \/ AllocateWorkspace(t) \/ Run(t) \/ UnInitHugeMem(t)

\* The consumer calls the library and, if that succeeded, releases the objects.
CallOpApi(s) ==
    /\ tasks[s] # <<>> /\ Head(tasks[s]).kernel = "aclnnAvgPool3d"
    /\ tasks' = [tasks EXCEPT ![s] = Tail(@)]
    /\ \/ /\ launched' = [launched EXCEPT ![s] = Append(@, Head(tasks[s]))]
          /\ objects' = Released(Head(tasks[s]).call)
          /\ UNCHANGED failed
       \/ /\ MayFail("api")
          /\ failed' = failed \cup {Head(tasks[s]).call}
          /\ UNCHANGED <<launched, objects>>
    /\ UNCHANGED <<scenario, hostVars, pool, memory, running, converted, hugeMem, workspace, raised>>
==============================================================================

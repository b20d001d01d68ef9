----------------------------- MODULE NpuRuntime -----------------------------
(***************************************************************************)
(* What the operators' host functions run on: threads that call operators, *)
(* the caching allocator, a task queue with its consumer per stream, and   *)
(* the device, which runs the kernels of a stream one after the other.     *)
(*                                                                         *)
(* The allocator gives a block that nobody refers to any more to the next  *)
(* who asks on the same stream, whether or not the kernels it was made for *)
(* have run.  A block's contents are modelled by who wrote them.           *)
(***************************************************************************)
EXTENDS Integers, Sequences, FiniteSets

CONSTANTS
    Threads, Streams,
    Blocks,      \* device memory, by address
    FirstLru,    \* per thread: the block of the lru it starts with
    Scenarios    \* [threads : per thread its stream and the operators it calls,
                 \*  blocks : how many of the blocks exist,
                 \*  custom, opapi : the symbols of the two libraries,
                 \*  faults : what may fail]

ASSUME RuntimeAssumption ==
    /\ Blocks \subseteq Nat /\ 0 \notin Blocks
    /\ FirstLru \in [Threads -> Blocks]
    /\ \A t, u \in Threads : FirstLru[t] = FirstLru[u] => t = u
    /\ "device" \notin Streams
    /\ \A s \in Scenarios : \A t \in Threads :
          /\ s.threads[t].stream \in Streams
          /\ s.threads[t].operators \in Seq({"build_lru_plan", "avg_pool3d"})

VARIABLES
    scenario,
    calls,     \* per thread: calls made, the current one included
    stage,     \* per thread: where it stands in its call, or "caller"
    tensors,   \* per thread: the tensors its current call refers to, by name
    kept,      \* per thread: the results its caller refers to, the call that made each,
               \*   and all calls it goes back to
    pool,      \* per block: the stream it belongs to, or "device"
    memory,    \* per block: the call that wrote it last, and which of its kernels did
    tasks,     \* per stream: tasks submitted, not taken by the consumer
    launched,  \* per stream: kernels launched, not begun
    running,   \* per stream: the kernel at work, or None
    failed     \* calls of which something failed

hostVars == <<calls, stage, tensors, kept>>

queueVars == <<tasks, launched, running>>

runtimeVars == <<scenario, hostVars, pool, memory, queueVars, failed>>

None == [call |-> <<>>, from |-> {}, kernel |-> "none", reads |-> <<>>, writes |-> {}]

\* What a kernel finds in the blocks of one call's results.
Written(call, kernels) == [call |-> call, by |-> kernels]

Result(block, call, from) == [block |-> block, call |-> call, from |-> from \cup {call}]

PlanKernels == <<"hit_local", "candidate_local", "materialize", "keep_scan_write">>

WholePlan == {"materialize", "keep_scan_write"}

StreamOf(t) == scenario.threads[t].stream

Call(t) == <<t, calls[t]>>

Operator(call) == scenario.threads[call[1]].operators[call[2]]

MayFail(what) == what \in scenario.faults

Init ==
    /\ scenario \in Scenarios
    /\ calls = [t \in Threads |-> 0]
    /\ stage = [t \in Threads |-> "caller"]
    /\ tensors = [t \in Threads |-> <<>>]
    /\ kept = [t \in Threads |-> [lru    |-> Result(FirstLru[t], <<t, 0>>, {}),
                                  pooled |-> Result(0, <<t, 0>>, {})]]
    /\ pool = [b \in Blocks |-> IF \E t \in Threads : FirstLru[t] = b
                                THEN StreamOf(CHOOSE t \in Threads : FirstLru[t] = b)
                                ELSE "device"]
    /\ memory = [b \in Blocks |-> IF \E t \in Threads : FirstLru[t] = b
                                  THEN Written(<<CHOOSE t \in Threads : FirstLru[t] = b, 0>>, WholePlan)
                                  ELSE Written(<<>>, {})]
    /\ tasks = [s \in Streams |-> <<>>]
    /\ launched = [s \in Streams |-> <<>>]
    /\ running = [s \in Streams |-> None]
    /\ failed = {}

------------------------------------------------------------------------------
\* The caching allocator.

Held ==
    UNION {{tensors[t][name] : name \in DOMAIN tensors[t]}
               \cup {kept[t].lru.block, kept[t].pooled.block} : t \in Threads}

\* What at::empty can return: the lowest free block of the stream, or a new one.
Available(t) ==
    LET free == Blocks \ Held
        own  == {b \in free : pool[b] = StreamOf(t)}
        new  == {b \in free : pool[b] = "device" /\ b <= scenario.blocks}
        from == IF own # {} THEN own ELSE new
    IN  {b \in from : \A c \in from : b <= c}

\* A function that maps x to y, too.
Extended(f, x, y) == [z \in DOMAIN f \cup {x} |-> IF z = x THEN y ELSE f[z]]

Take(t, b) == pool' = [pool EXCEPT ![b] = StreamOf(t)]

------------------------------------------------------------------------------
\* Threads.

GoTo(t, next) == stage' = [stage EXCEPT ![t] = next]

\* The caller calls its next operator, which starts with `first'.
CallOperator(t, operator, first) ==
    /\ stage[t] = "caller" /\ calls[t] < Len(scenario.threads[t].operators)
    /\ scenario.threads[t].operators[calls[t] + 1] = operator
    /\ calls' = [calls EXCEPT ![t] = @ + 1]
    /\ GoTo(t, first)
    /\ UNCHANGED <<scenario, tensors, kept, pool, memory, queueVars, failed>>

\* A tensor of the current call.
Allocate(t, name, next) ==
    /\ \E b \in Available(t) :
          /\ tensors' = [tensors EXCEPT ![t] = Extended(@, name, b)]
          /\ Take(t, b)
    /\ GoTo(t, next)
    /\ UNCHANGED <<scenario, calls, kept, memory, queueVars, failed>>

\* The call raises: its tensors are dropped.
Raise(t) ==
    /\ GoTo(t, "caller")
    /\ tensors' = [tensors EXCEPT ![t] = <<>>]
    /\ failed' = failed \cup {Call(t)}
    /\ UNCHANGED <<scenario, calls, kept, pool, memory, queueVars>>

\* The call returns `result', which the caller keeps in place of an earlier one; all
\* its other tensors are dropped.
Return(t, result, as, from) ==
    /\ GoTo(t, "caller")
    /\ kept' = [kept EXCEPT ![t][as] = Result(tensors[t][result], Call(t), from)]
    /\ tensors' = [tensors EXCEPT ![t] = <<>>]
    /\ UNCHANGED <<scenario, calls, pool, memory, queueVars, failed>>

Submit(s, task) == tasks' = [tasks EXCEPT ![s] = Append(@, task)]

------------------------------------------------------------------------------
\* The device.

Begin(s) ==
    /\ running[s] = None /\ launched[s] # <<>>
    /\ running' = [running EXCEPT ![s] = Head(launched[s])]
    /\ launched' = [launched EXCEPT ![s] = Tail(@)]
    /\ UNCHANGED <<scenario, hostVars, pool, memory, tasks, failed>>

End(s) ==
    LET kernel == running[s]
    IN  /\ kernel # None
        /\ running' = [running EXCEPT ![s] = None]
        /\ memory' = [b \in Blocks |->
                         IF b \notin kernel.writes THEN memory[b]
                         ELSE Written(kernel.call,
                                  {kernel.kernel} \cup IF memory[b].call = kernel.call
                                                       THEN memory[b].by ELSE {})]
        /\ UNCHANGED <<scenario, hostVars, pool, tasks, launched, failed>>

\* Every call is made and every kernel has run.
Quiet ==
    /\ \A t \in Threads : stage[t] = "caller" /\ calls[t] = Len(scenario.threads[t].operators)
    /\ \A s \in Streams : tasks[s] = <<>> /\ launched[s] = <<>> /\ running[s] = None
==============================================================================

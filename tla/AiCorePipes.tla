----------------------------- MODULE AiCorePipes -----------------------------
(***************************************************************************)
(* One core inside a kernel of build_lru_plan.                             *)
(*                                                                         *)
(* Four engines share the core's buffer: the scalar unit S runs the        *)
(* kernel's program and issues vector operations (V), copies in (MTE2) and *)
(* copies out (MTE3), which their engines carry out later, each in its own *)
(* order.  Event flags are all that orders engines among each other:       *)
(* SetFlag<A_B> is raised by A behind what A was given before, WaitFlag    *)
(* holds B up until then.                                                  *)
(*                                                                         *)
(* A value is modelled by where it comes from: a region of the buffer      *)
(* holds the task and the instruction that wrote it last.                  *)
(***************************************************************************)
EXTENDS Naturals, Sequences, FiniteSets

CONSTANT TaskLimit   \* tasks the core takes one after the other

ASSUME TaskLimitAssumption == TaskLimit \in Nat \ {0}

Engines == {"S", "V", "MTE2", "MTE3"}

Flags == {"MTE2_S", "V_S", "S_MTE3", "MTE3_S"}

Raiser == [MTE2_S |-> "MTE2", V_S |-> "V", S_MTE3 |-> "S", MTE3_S |-> "MTE3"]

Waiter == [MTE2_S |-> "S", V_S |-> "S", S_MTE3 |-> "MTE3", MTE3_S |-> "S"]

------------------------------------------------------------------------------
\* Instructions.  An operation reads and writes regions of the buffer; a copy out
\* names its tensor of global memory.

Operation(engine, reads, writes, tensor) ==
    [engine |-> engine, does |-> "operate", reads |-> reads, writes |-> writes,
     tensor |-> tensor, flag |-> "none"]

OnFlag(engine, does, flag) ==
    [engine |-> engine, does |-> does, reads |-> {}, writes |-> {}, tensor |-> "none",
     flag |-> flag]

Duplicate(region) == Operation("V", {}, {region}, "none")
CopyIn(region) == Operation("MTE2", {}, {region}, "none")
CopyOut(tensor, region) == Operation("MTE3", {region}, {}, tensor)

\* The scalar loops of a task, from the first GetValue to the last SetValue.
Loops(reads, writes) == Operation("S", reads, writes, "none")

SetFlag(flag) == OnFlag(Raiser[flag], "set", flag)
WaitFlag(flag) == OnFlag(Waiter[flag], "wait", flag)

\* Mutants: an engine is not waited for, or its flag is raised and left.
NoWait == <<>>
SetOnly == <<SetFlag("MTE2_S")>>

WaitMte2ToScalar == <<SetFlag("MTE2_S"), WaitFlag("MTE2_S")>>
WaitVectorToScalar == <<SetFlag("V_S"), WaitFlag("V_S")>>
WaitScalarToMte3 == <<SetFlag("S_MTE3"), WaitFlag("S_MTE3")>>
WaitMte3ToScalar == <<SetFlag("MTE3_S"), WaitFlag("MTE3_S")>>

------------------------------------------------------------------------------
\* The programs: what one task issues.

\* Kernel 1.
HitLocalProgram ==
    <<Duplicate("bitmapLocal"), Duplicate("countLocal"), CopyIn("hitLocal")>>
    \o WaitMte2ToScalar \o WaitVectorToScalar
    \o <<Loops({"hitLocal", "bitmapLocal", "countLocal"}, {"bitmapLocal", "countLocal"})>>
    \o WaitScalarToMte3
    \o <<CopyOut("hitBitmap", "bitmapLocal"), CopyOut("hitCounts", "countLocal")>>
    \o WaitMte3ToScalar

\* What a task copies out if its values are `any' or none.
Values(any, tensor, region) == IF any THEN <<CopyOut(tensor, region)>> ELSE <<>>

\* Kernel 2.
CandidateLocalProgram(any) ==
    <<CopyIn("bitmapLocal"), CopyIn("lruLocal")>>
    \o WaitMte2ToScalar
    \o <<Loops({"bitmapLocal", "lruLocal"}, {"valuesLocal", "countLocal"})>>
    \o WaitScalarToMte3
    \o Values(any, "candidateValues", "valuesLocal")
    \o <<CopyOut("candidateCounts", "countLocal")>>
    \o WaitMte3ToScalar

\* Kernel 3, hit tile.
FillProgram ==
    LET inputs == <<"hitLocal", "maskLocal", "hitCountLocal", "candidateCountLocal",
                    "candidateValueLocal">>
    IN  [i \in 1..Len(inputs) |-> CopyIn(inputs[i])]
        \o WaitMte2ToScalar
        \o <<Loops({inputs[i] : i \in 1..Len(inputs)}, {"outputLocal"})>>
        \o WaitScalarToMte3
        \o <<CopyOut("hit", "outputLocal"), CopyOut("newLru", "outputLocal")>>
        \o WaitMte3ToScalar

\* Kernel 3, lru tile.
KeepProgram(any) ==
    LET inputs == <<"bitmapLocal", "lruLocal", "hitCountLocal", "candidateCountLocal">>
    IN  [i \in 1..Len(inputs) |-> CopyIn(inputs[i])]
        \o WaitMte2ToScalar
        \o <<Loops({inputs[i] : i \in 1..Len(inputs)}, {"outputLocal", "scalarLocal"})>>
        \o WaitScalarToMte3
        \o Values(any, "keepValues", "outputLocal")
        \o <<CopyOut("keepCounts", "scalarLocal")>>
        \o WaitMte3ToScalar

\* Kernel 4: a tile without survivors issues nothing behind the loop.
ScanProgram(any) ==
    <<CopyIn("countLocal")>>
    \o WaitMte2ToScalar
    \o <<Loops({"countLocal"}, {})>>
    \o (IF ~any THEN <<>>
        ELSE <<CopyIn("valuesLocal")>>
             \o WaitMte2ToScalar
             \o WaitScalarToMte3
             \o <<CopyOut("newLru", "valuesLocal")>>
             \o WaitMte3ToScalar)

\* The kinds of task of a kernel.
Kinds(n) ==
    CASE n = 1 -> {[layout |-> "hitLocal", any |-> TRUE]}
      [] n = 2 -> [layout : {"candidateLocal"}, any : BOOLEAN]
      [] n = 3 -> {[layout |-> "fill", any |-> TRUE]} \cup [layout : {"keep"}, any : BOOLEAN]
      [] n = 4 -> [layout : {"keepWrite"}, any : BOOLEAN]

Program(kind) ==
    CASE kind.layout = "hitLocal"       -> HitLocalProgram
      [] kind.layout = "candidateLocal" -> CandidateLocalProgram(kind.any)
      [] kind.layout = "fill"           -> FillProgram
      [] kind.layout = "keep"           -> KeepProgram(kind.any)
      [] kind.layout = "keepWrite"      -> ScanProgram(kind.any)

------------------------------------------------------------------------------
VARIABLES
    kernel,   \* the kernel the core runs
    task,     \* the task of the scalar unit, 1..TaskLimit
    kind,     \* its kind
    pc,       \* the next instruction of its program to issue
    queue,    \* per engine but S: instructions issued and not begun
    running,  \* per engine: the operation it carries out, or None
    flags,    \* per flag: how often it is raised
    ub,       \* per region: the task and instruction that wrote it last
    retired   \* operations of the current task that have ended

vars == <<kernel, task, kind, pc, queue, running, flags, ub, retired>>

None == [task |-> 0, kind |-> [layout |-> "none", any |-> FALSE], at |-> 0]

\* An instruction of a task.
Instruction(entry) == Program(entry.kind)[entry.at]

\* The regions a layout names are disjoint (UbSafe of UbLayout); two layouts
\* of kernel 3 use the same buffer and are taken to overlap everywhere.
Region(entry, names) == {<<entry.kind.layout, name>> : name \in names}

Reads(entry) == Region(entry, Instruction(entry).reads)

Writes(entry) == Region(entry, Instruction(entry).writes)

Overlap(r, s) == r = s \/ r[1] # s[1]

Regions ==
    LET AllKinds == UNION {Kinds(n) : n \in 1..4}
    IN  UNION {UNION {Reads(entry) \cup Writes(entry) :
                   entry \in {[task |-> 1, kind |-> d, at |-> i] : i \in 1..Len(Program(d))}} :
                   d \in AllKinds}

Junk == <<0, 0>>

Init ==
    /\ kernel \in 1..4
    /\ task = 1
    /\ kind \in Kinds(kernel)
    /\ pc = 1
    /\ queue = [e \in Engines \ {"S"} |-> <<>>]
    /\ running = [e \in Engines |-> None]
    /\ flags = [f \in Flags |-> 0]
    /\ ub = [r \in Regions |-> Junk]
    /\ retired = {}

Current == [task |-> task, kind |-> kind, at |-> pc]

HasIssue == task <= TaskLimit /\ pc <= Len(Program(kind))

\* S hands an instruction to its engine.
Issue ==
    /\ HasIssue
    /\ LET engine == Instruction(Current).engine
       IN  /\ engine # "S"
           /\ queue' = [queue EXCEPT ![engine] = Append(@, Current)]
    /\ pc' = pc + 1
    /\ UNCHANGED <<kernel, task, kind, running, flags, ub, retired>>

\* The instruction an engine is to carry out next.
HasNext(e) ==
    IF e = "S" THEN HasIssue /\ Instruction(Current).engine = "S" ELSE queue[e] # <<>>

NextOf(e) == IF e = "S" THEN Current ELSE Head(queue[e])

Advance(e) ==
    IF e = "S" THEN pc' = pc + 1 /\ UNCHANGED queue
    ELSE queue' = [queue EXCEPT ![e] = Tail(@)] /\ UNCHANGED pc

Begin(e) ==
    /\ HasNext(e) /\ running[e] = None
    /\ Instruction(NextOf(e)).does = "operate"
    /\ running' = [running EXCEPT ![e] = NextOf(e)]
    /\ Advance(e)
    /\ UNCHANGED <<kernel, task, kind, flags, ub, retired>>

\* What an operation writes is there when it ends; whatever else was in that part
\* of the buffer is gone.
End(e) ==
    LET entry == running[e]
    IN  /\ entry # None
        /\ ub' = [r \in Regions |->
                     IF r \in Writes(entry) THEN <<entry.task, entry.at>>
                     ELSE IF \E w \in Writes(entry) : Overlap(w, r) THEN Junk ELSE ub[r]]
        /\ retired' = IF entry.task = task THEN retired \cup {entry.at} ELSE retired
        /\ running' = [running EXCEPT ![e] = None]
        /\ UNCHANGED <<kernel, task, kind, pc, queue, flags>>

\* A flag is raised once everything before it is done, the scalar unit's SetValues
\* included, which may otherwise lag behind its program.
Raise(e) ==
    /\ HasNext(e) /\ running[e] = None
    /\ Instruction(NextOf(e)).does = "set"
    /\ flags' = [flags EXCEPT ![Instruction(NextOf(e)).flag] = @ + 1]
    /\ Advance(e)
    /\ UNCHANGED <<kernel, task, kind, running, ub, retired>>

Wait(e) ==
    /\ HasNext(e) /\ (e = "S" \/ running[e] = None)
    /\ Instruction(NextOf(e)).does = "wait"
    /\ flags[Instruction(NextOf(e)).flag] > 0
    /\ flags' = [flags EXCEPT ![Instruction(NextOf(e)).flag] = @ - 1]
    /\ Advance(e)
    /\ UNCHANGED <<kernel, task, kind, running, ub, retired>>

TurnTo(next) ==
    /\ task <= TaskLimit /\ pc > Len(Program(kind))
    /\ task' = next
    /\ kind' \in Kinds(kernel)
    /\ pc' = 1
    /\ retired' = {}
    /\ UNCHANGED <<kernel, queue, running, flags, ub>>

\* Mutants: the loop over tasks does not advance, or advances twice.
NextTaskStuck == TurnTo(task)
NextTaskTwice == TurnTo(task + 2)

\* The loop over tasks.
NextTask == TurnTo(task + 1)

Idle ==
    /\ task > TaskLimit
    /\ \A e \in Engines \ {"S"} : queue[e] = <<>>
    /\ \A e \in Engines : running[e] = None

EngineStep(e) == Begin(e) \/ End(e) \/ Raise(e) \/ Wait(e)

\* The kernel ends on this core.
KernelEnd == Idle /\ UNCHANGED vars

Next == Issue \/ NextTask \/ (\E e \in Engines : EngineStep(e)) \/ KernelEnd

Spec ==
    /\ Init /\ [][Next]_vars
    /\ WF_vars(Issue \/ NextTask)
    /\ \A e \in Engines : WF_vars(EngineStep(e))

------------------------------------------------------------------------------
\* Properties

TypeOK ==
    /\ kernel \in 1..4 /\ task \in 1 .. TaskLimit + 1 /\ kind \in Kinds(kernel)
    /\ pc \in 1 .. Len(Program(kind)) + 1
    /\ \A e \in Engines \ {"S"} : \A i \in 1..Len(queue[e]) :
          Instruction(queue[e][i]).engine = e
    /\ \A e \in Engines : running[e] # None =>
          Instruction(running[e]).engine = e /\ Instruction(running[e]).does = "operate"
    /\ flags \in [Flags -> Nat]
    /\ \A r \in Regions : ub[r][1] \in 0..TaskLimit
    /\ retired \subseteq 1..Len(Program(kind))

\* Who wrote a region last before an instruction, by the order of the program.
LastWriter(entry, r) ==
    LET writers == {i \in 1 .. entry.at - 1 : r \in Writes([entry EXCEPT !.at = i])}
    IN  <<entry.task, CHOOSE i \in writers : \A j \in writers : j <= i>>

\* An operation that begins finds in its regions what the program order says: no copy
\* or scalar loop reads what an earlier task, or an engine that is late or early, has
\* left there.
ReadsInProgramOrder ==
    [][\A e \in Engines : running'[e] # running[e] /\ running'[e] # None =>
          \A r \in Reads(running'[e]) : ub[r] = LastWriter(running'[e], r)]_vars

\* The scalar unit has read by the time it goes on; its writes may be pending.
Touches(e) ==
    IF e = "S" THEN Writes(running[e]) ELSE Reads(running[e]) \cup Writes(running[e])

\* No two engines are ever at work on overlapping regions if one of them writes.
EnginesApart ==
    \A e, f \in Engines :
        e # f /\ running[e] # None /\ running[f] # None =>
            \A w \in Writes(running[e]), r \in Touches(f) : ~Overlap(w, r)

\* A flag is lowered before it is raised again, and none is left raised for the next
\* kernel on the core: FetchEventID returns the same event every time.
FlagsPaired ==
    /\ \A f \in Flags : flags[f] <= 1
    /\ Idle => \A f \in Flags : flags[f] = 0

\* The operations of the current task's program.
OperationsOf(d) == {i \in 1..Len(Program(d)) : Program(d)[i].does = "operate"}

CopyOutsOf(d) == {i \in OperationsOf(d) : Program(d)[i].tensor # "none"}

\* What global memory sees of the current task.
LeftToCopyOut ==
    LET left == CopyOutsOf(kind) \ retired
    IN  IF retired = OperationsOf(kind) \/ ~ (OperationsOf(kind) \ CopyOutsOf(kind)) \subseteq retired
        THEN <<"in">>
        ELSE [n \in 1..Cardinality(left) |->
                 Program(kind)[CHOOSE i \in left : Cardinality({j \in left : j < i}) = n-1].tensor]

TasksDone == IF task <= TaskLimit /\ retired = OperationsOf(kind) THEN task ELSE task - 1

Tasks == INSTANCE CoreTasks WITH done <- TasksDone, outs <- LeftToCopyOut

\* Seen from global memory the core works task by task, copies out after it has
\* computed, in the order of the program, and completes its tasks: what BuildLruPlan
\* takes for granted.
CopiesOutInOrder == Tasks!CoreTasksSpec

\* The core gets through its tasks: no engine waits for a flag that does not come.
KernelEnds == <>Idle
==============================================================================

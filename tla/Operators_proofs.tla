--------------------------- MODULE Operators_proofs ---------------------------
(***************************************************************************)
(* What the calls of any number of threads on any number of streams find   *)
(* in their blocks, although the allocator hands blocks on before the      *)
(* kernels that use them have run.                                         *)
(***************************************************************************)
EXTENDS Operators, FiniteSetTheorems, SequenceTheorems, TLAPS

------------------------------------------------------------------------------
\* Stages of a call.

PlanNames == {"newLru", "hitWorkspace", "candidateWorkspace", "keepWorkspace"}

KernelNames == {"hit_local", "candidate_local", "materialize", "keep_scan_write"}

\* Before the first kernel of the call is submitted ...
PlanBefore == PlanNames \cup {"hit_local"}

PoolBefore == {"result", "resolve", "convert", "size", "workspace", "submit"}

Before == PlanBefore \cup PoolBefore

\* ... and behind it.
PlanBehind == {"candidate_local", "materialize", "keep_scan_write", "return"}

Stages == {"caller"} \cup Before \cup PlanBehind \cup {"unInit"}

PoolStages == PoolBefore \cup {"unInit"}

\* The tensors a call has at a stage.
TensorsAt(at) ==
    CASE at \in {"caller", "newLru", "result"} -> {}
      [] at = "hitWorkspace"                   -> {"newLru"}
      [] at = "candidateWorkspace"             -> {"newLru", "hitWorkspace"}
      [] at = "keepWorkspace"                  -> {"newLru", "hitWorkspace", "candidateWorkspace"}
      [] at \in KernelNames \cup {"return"}    -> PlanNames
      [] at \in PoolStages \ {"result"}        -> {"result"}

\* The kernels it has submitted.
Submitted(at) ==
    CASE at \in Before \cup {"caller"} -> {}
      [] at = "candidate_local"        -> {"hit_local"}
      [] at = "materialize"            -> {"hit_local", "candidate_local"}
      [] at = "keep_scan_write"        -> {"hit_local", "candidate_local", "materialize"}
      [] at = "return"                 -> KernelNames
      [] at = "unInit"                 -> {"aclnnAvgPool3d"}

\* The kernels that write a tensor.
WritersOf(name) ==
    CASE name = "newLru"             -> WholePlan
      [] name = "hitWorkspace"       -> {"hit_local"}
      [] name = "candidateWorkspace" -> {"candidate_local"}
      [] name = "keepWorkspace"      -> {"materialize"}
      [] name = "result"             -> {"aclnnAvgPool3d"}

------------------------------------------------------------------------------
\* A stream's kernels, from the one at work to the one submitted last.

Begun(atWork) == IF atWork = None THEN <<>> ELSE <<atWork>>

LineOf(atWork, begins, waits) == Begun(atWork) \o begins \o waits

Line(s) == LineOf(running[s], launched[s], tasks[s])

Calls == Threads \X Nat

Contents == [call : Calls \cup {<<>>}, by : SUBSET (KernelNames \cup {"aclnnAvgPool3d"})]

Kernels == [call : Calls, from : SUBSET Calls, kernel : KernelNames \cup {"aclnnAvgPool3d"},
            reads : UNION {[D -> Contents] : D \in SUBSET Blocks}, writes : SUBSET Blocks]

Results == [block : Blocks \cup {0}, call : Calls, from : SUBSET Calls]

\* What a block holds for call c, once the first i - 1 kernels of a line have run, as far
\* as they belong to calls that did not fail: the kernels K of c have written it, and no
\* other kernel of c or, since then, of another call has.
OnlyBy(line, i, mem, b, c, K) ==
    /\ \A j \in 1 .. i - 1 : b \in line[j].writes /\ line[j].call = c => line[j].kernel \in K
    /\ mem[b].call = c => mem[b].by \subseteq K

NoOther(line, j, i, b, c) == \A h \in j .. i - 1 : b \in line[h].writes => line[h].call = c

LeftBy(line, i, mem, b, c, name) ==
    \/ \E j \in 1 .. i - 1 : /\ b \in line[j].writes /\ line[j].call = c /\ line[j].kernel = name
                             /\ NoOther(line, j, i, b, c)
    \/ mem[b].call = c /\ name \in mem[b].by /\ NoOther(line, 1, i, b, c)

Holds(line, i, mem, bad, b, c, K) ==
    /\ OnlyBy(line, i, mem, b, c, K)
    /\ c \notin bad => \A name \in K : LeftBy(line, i, mem, b, c, name)

WillHold(s, i, b, c, K) == Holds(Line(s), i, memory, failed, b, c, K)

------------------------------------------------------------------------------
\* The invariant, in parts.

Shapes ==
    /\ scenario \in Scenarios
    /\ calls \in [Threads -> Nat] /\ \A t \in Threads : calls[t] <= Len(scenario.threads[t].operators)
    /\ stage \in [Threads -> Stages]
    /\ tensors = [t \in Threads |-> tensors[t]] /\ \A t \in Threads : tensors[t] \in [TensorsAt(stage[t]) -> Blocks]
    /\ kept \in [Threads -> [lru : Results, pooled : Results]]
    /\ pool \in [Blocks -> Streams \cup {"device"}]
    /\ memory \in [Blocks -> Contents]
    /\ tasks \in [Streams -> Seq(Kernels)]
    /\ launched \in [Streams -> Seq(Kernels)]
    /\ running \in [Streams -> Kernels \cup {None}]
    /\ failed \subseteq Calls /\ IsFiniteSet(failed)
    /\ workspace \in [Threads -> Blocks \cup {0}]

\* Nothing has been heard of a call.
Elements(line) == {line[i] : i \in 1..Len(line)}

InLine(s) == Elements(Line(s))

Unheard(c) ==
    /\ c \notin failed
    /\ \A b \in Blocks : memory[b].call # c
    /\ \A s \in Streams : \A kernel \in InLine(s) : kernel.call # c

\* A thread in a call has made it; calls to come are not heard of, nor is the current one
\* before its first kernel is submitted.
ToCome(t, n) == n > calls[t] \/ (n = calls[t] /\ stage[t] \in Before)

InTurn(t) ==
    /\ stage[t] # "caller" => calls[t] >= 1
    /\ stage[t] \in PoolStages => Operator(Call(t)) = "avg_pool3d"

CallsInTurn ==
    /\ \A t \in Threads : InTurn(t)
    /\ \A t \in Threads : \A n \in Nat : ToCome(t, n) => Unheard(<<t, n>>)

\* Who refers to which block: all are different, and of the thread's stream.
Names(t) ==
    TensorsAt(stage[t]) \cup {"lru"} \cup IF kept[t].pooled.block = 0 THEN {} ELSE {"pooled"}

BlockAt(t, name) ==
    CASE name = "lru"                -> kept[t].lru.block
      [] name = "pooled"             -> kept[t].pooled.block
      [] name \notin {"lru", "pooled"} -> tensors[t][name]

Apart ==
    \A t, u \in Threads : \A name \in Names(t), other \in Names(u) :
        BlockAt(t, name) = BlockAt(u, other) => t = u /\ name = other

OwnBlocks ==
    \A t \in Threads : \A name \in Names(t) :
        BlockAt(t, name) \in Blocks /\ pool[BlockAt(t, name)] = StreamOf(t)

OwnWorkspace(t) ==
    /\ stage[t] \in PoolBefore \ {"submit"} => workspace[t] = 0
    /\ stage[t] = "submit" /\ workspace[t] # 0 => pool[workspace[t]] = StreamOf(t)

KeptWell(t) ==
    /\ kept[t].lru.block # 0 /\ kept[t].lru.call \in kept[t].lru.from
    /\ kept[t].pooled.call \in kept[t].pooled.from

BlocksInHand ==
    Apart /\ OwnBlocks /\ \A t \in Threads : OwnWorkspace(t) /\ KeptWell(t)

\* A kernel belongs to a call of its stream, uses blocks of its stream, and expects what
\* calls in its `from' have written.
Made(s, kernel) == StreamOf(kernel.call[1]) = s /\ kernel.call[2] \in 1..calls[kernel.call[1]]

OnStream(s, kernel) == \A b \in kernel.writes \cup DOMAIN kernel.reads : pool[b] = s

Expects(kernel) == \A b \in DOMAIN kernel.reads : kernel.reads[b].call \in kernel.from /\ kernel.reads[b].by # {}

LinesInOrder ==
    \A s \in Streams : \A kernel \in InLine(s) : Made(s, kernel) /\ OnStream(s, kernel) /\ Expects(kernel)

\* What a kernel expects in the blocks it reads is what it will find when its turn comes.
Finds(s, i, kernel) ==
    \A b \in DOMAIN kernel.reads : WillHold(s, i, b, kernel.reads[b].call, kernel.reads[b].by)

KernelsWillFind == \A s \in Streams : \A i \in 1..Len(Line(s)) : Finds(s, i, Line(s)[i])

\* Behind all that is submitted, a thread's block holds what its call, or the call that
\* returned it, has submitted.
CallAt(t, name) ==
    CASE name = "lru"                -> kept[t].lru.call
      [] name = "pooled"             -> kept[t].pooled.call
      [] name \notin {"lru", "pooled"} -> Call(t)

ByAt(t, name) ==
    CASE name = "lru"                -> WholePlan
      [] name = "pooled"             -> {"aclnnAvgPool3d"}
      [] name \notin {"lru", "pooled"} -> WritersOf(name) \cap Submitted(stage[t])

NameHolds(t, name) ==
    WillHold(StreamOf(t), Len(Line(StreamOf(t))) + 1, BlockAt(t, name), CallAt(t, name), ByAt(t, name))

NamesWillHold == \A t \in Threads : \A name \in Names(t) : NameHolds(t, name)

\* The workspace that avg_pool3d has given up is none of its thread's blocks when it is
\* submitted.
WorkspaceApart(t) == stage[t] = "submit" => \A name \in Names(t) : BlockAt(t, name) # workspace[t]

\* Objects belong to calls that were made ...
ObjectsOfCalls == \A o \in objects : \E t \in Threads : o[1] \in {t} \X (1..calls[t]) /\ o[2] \in Params

\* ... and wait, all that the libraries can create, for the one task that releases them.
PoolTask(task) == task.kernel = "aclnnAvgPool3d"

Once(queue) ==
    \A i, j \in 1..Len(queue) :
        PoolTask(queue[i]) /\ PoolTask(queue[j]) /\ queue[i].call = queue[j].call => i = j

QueuedPools(s) == {task \in Elements(tasks[s]) : PoolTask(task)}

QueuedConverted ==
    \A s \in Streams : Once(tasks[s]) /\ \A task \in QueuedPools(s) : HasObjects(task.call)

ConvertedSo(t) == \A p \in converted[t] : Found(aclCreate(p)) => <<Call(t), p>> \in objects

ConvertedAt(t) ==
    /\ stage[t] \in {"result", "resolve"} => converted[t] = {}
    /\ stage[t] = "convert" => ConvertedSo(t)
    /\ stage[t] \in {"size", "workspace", "submit"} => HasObjects(Call(t))

Expected(c) ==
    \/ c \in failed
    \/ \E t \in Threads : c = Call(t) /\ stage[t] \in {"convert", "size", "workspace", "submit"}
    \/ \E s \in Streams : \E task \in QueuedPools(s) : task.call = c

ObjectsInHand ==
    /\ ObjectsOfCalls /\ QueuedConverted /\ converted \in [Threads -> SUBSET Params]
    /\ \A t \in Threads : ConvertedAt(t)
    /\ \A o \in objects : Expected(o[1]) \/ ~ Found(aclDestroy(o[2]))

BaseInv ==
    Shapes /\ CallsInTurn /\ BlocksInHand /\ LinesInOrder

WillFind == KernelsWillFind /\ NamesWillHold

\* No thread that pools shares its stream.
PoolsAlone ==
    \A s \in Scenarios : \A t, u \in Threads :
        t # u /\ s.threads[t].stream = s.threads[u].stream =>
            \A n \in 1..Len(s.threads[t].operators) : s.threads[t].operators[n] # "avg_pool3d"

------------------------------------------------------------------------------
\* How what a block will hold changes with the line.

\* Nothing that is submitted later or happens elsewhere matters ...
LEMMA HoldsBefore ==
    ASSUME NEW line, NEW longer, NEW i \in Nat, NEW mem, NEW mem2, NEW bad, NEW worse, NEW b, NEW c, NEW K,
           \A j \in 1 .. i - 1 : longer[j] = line[j], mem2[b] = mem[b], bad \subseteq worse,
           Holds(line, i, mem, bad, b, c, K)
    PROVE  Holds(longer, i, mem2, worse, b, c, K)
<1>1. ASSUME NEW j \in 1 .. i, NoOther(line, j, i, b, c) PROVE NoOther(longer, j, i, b, c)
  BY <1>1 DEF NoOther
<1>2. OnlyBy(longer, i, mem2, b, c, K)
  BY DEF Holds, OnlyBy
<1>3. ASSUME NEW name, LeftBy(line, i, mem, b, c, name) PROVE LeftBy(longer, i, mem2, b, c, name)
  <2>1. CASE \E j \in 1 .. i - 1 : /\ b \in line[j].writes /\ line[j].call = c /\ line[j].kernel = name
                                 /\ NoOther(line, j, i, b, c)
    BY <1>1, <2>1 DEF LeftBy
  <2>2. CASE mem[b].call = c /\ name \in mem[b].by /\ NoOther(line, 1, i, b, c)
    <3>1. NoOther(longer, 1, i, b, c)
      BY <2>2 DEF NoOther
    <3> QED BY <2>2, <3>1 DEF LeftBy
  <2> QED BY <1>3, <2>1, <2>2 DEF LeftBy
<1>4. c \notin worse => c \notin bad
  OBVIOUS
<1> QED BY <1>2, <1>3, <1>4 DEF Holds

\* ... unless it writes the block: not if it does not, ...
LEMMA HoldsBehindOther ==
    ASSUME NEW line, NEW longer, NEW i \in Nat \ {0}, NEW mem, NEW bad, NEW b, NEW c, NEW K,
           \A j \in 1 .. i - 1 : longer[j] = line[j],
           b \notin longer[i].writes,
           Holds(line, i, mem, bad, b, c, K)
    PROVE  Holds(longer, i + 1, mem, bad, b, c, K)
<1>0. \A j : j \in 1 .. i + 1 - 1 <=> j \in 1 .. i - 1 \/ j = i
  OBVIOUS
<1>1. ASSUME NEW j \in 1 .. i, NoOther(line, j, i, b, c) PROVE NoOther(longer, j, i + 1, b, c)
  <2>1. \A h \in j .. i + 1 - 1 : h \in j .. i - 1 \/ h = i
    OBVIOUS
  <2>2. \A h \in j .. i - 1 : h \in 1 .. i - 1
    OBVIOUS
  <2> QED BY <1>1, <2>1, <2>2 DEF NoOther
<1>2. OnlyBy(longer, i + 1, mem, b, c, K)
  BY <1>0 DEF Holds, OnlyBy
<1>3. ASSUME NEW name, LeftBy(line, i, mem, b, c, name) PROVE LeftBy(longer, i + 1, mem, b, c, name)
  <2>1. CASE \E j \in 1 .. i - 1 : /\ b \in line[j].writes /\ line[j].call = c /\ line[j].kernel = name
                                 /\ NoOther(line, j, i, b, c)
    <3>1. PICK j \in 1 .. i - 1 : /\ b \in line[j].writes /\ line[j].call = c /\ line[j].kernel = name
                                 /\ NoOther(line, j, i, b, c)
      BY <2>1
    <3>2. NoOther(longer, j, i + 1, b, c)
      BY <1>1, <3>1
    <3> QED BY <1>0, <3>1, <3>2 DEF LeftBy
  <2>2. CASE mem[b].call = c /\ name \in mem[b].by /\ NoOther(line, 1, i, b, c)
    BY <1>1, <2>2 DEF LeftBy
  <2> QED BY <1>3, <2>1, <2>2 DEF LeftBy
<1> QED BY <1>2, <1>3 DEF Holds

\* ... and if it is of the same call, it has written the block, too.
LEMMA HoldsBehindOwn ==
    ASSUME NEW line, NEW longer, NEW i \in Nat \ {0}, NEW mem, NEW bad, NEW b, NEW c, NEW K,
           \A j \in 1 .. i - 1 : longer[j] = line[j],
           b \in longer[i].writes, longer[i].call = c,
           Holds(line, i, mem, bad, b, c, K)
    PROVE  Holds(longer, i + 1, mem, bad, b, c, K \cup {longer[i].kernel})
<1>0. \A j : j \in 1 .. i + 1 - 1 <=> j \in 1 .. i - 1 \/ j = i
  OBVIOUS
<1>1. ASSUME NEW j \in 1 .. i, NoOther(line, j, i, b, c) PROVE NoOther(longer, j, i + 1, b, c)
  <2>1. \A h \in j .. i + 1 - 1 : h \in j .. i - 1 \/ h = i
    OBVIOUS
  <2>2. \A h \in j .. i - 1 : h \in 1 .. i - 1
    OBVIOUS
  <2> QED BY <1>1, <2>1, <2>2 DEF NoOther
<1>2. OnlyBy(longer, i + 1, mem, b, c, K \cup {longer[i].kernel})
  BY <1>0 DEF Holds, OnlyBy
<1>3. ASSUME NEW name, LeftBy(line, i, mem, b, c, name) PROVE LeftBy(longer, i + 1, mem, b, c, name)
  <2>1. CASE \E j \in 1 .. i - 1 : /\ b \in line[j].writes /\ line[j].call = c /\ line[j].kernel = name
                                 /\ NoOther(line, j, i, b, c)
    <3>1. PICK j \in 1 .. i - 1 : /\ b \in line[j].writes /\ line[j].call = c /\ line[j].kernel = name
                                 /\ NoOther(line, j, i, b, c)
      BY <2>1
    <3>2. NoOther(longer, j, i + 1, b, c)
      BY <1>1, <3>1
    <3> QED BY <1>0, <3>1, <3>2 DEF LeftBy
  <2>2. CASE mem[b].call = c /\ name \in mem[b].by /\ NoOther(line, 1, i, b, c)
    BY <1>1, <2>2 DEF LeftBy
  <2> QED BY <1>3, <2>1, <2>2 DEF LeftBy
<1>4. LeftBy(longer, i + 1, mem, b, c, longer[i].kernel)
  <2>1. i \in 1 .. i + 1 - 1 /\ NoOther(longer, i, i + 1, b, c)
    BY DEF NoOther
  <2> QED BY <2>1 DEF LeftBy
<1> QED BY <1>2, <1>3, <1>4 DEF Holds

\* A kernel at the head of the line is done: it has written its blocks.
LEMMA HoldsBehindHead ==
    ASSUME NEW line, NEW rest, NEW i \in Nat, i >= 2, NEW mem, NEW mem2, NEW bad, NEW b, NEW c, NEW K,
           \A j \in 1 .. i - 2 : rest[j] = line[j + 1],
           b \notin line[1].writes => mem2[b] = mem[b],
           b \in line[1].writes =>
               /\ mem2[b].call = line[1].call
               /\ mem2[b].by = {line[1].kernel} \cup IF mem[b].call = line[1].call THEN mem[b].by ELSE {},
           Holds(line, i, mem, bad, b, c, K)
    PROVE  Holds(rest, i - 1, mem2, bad, b, c, K)
<1>0. 1 \in 1 .. i - 1 /\ i - 1 - 1 = i - 2
  OBVIOUS
<1>1. OnlyBy(rest, i - 1, mem2, b, c, K)
  <2>1. ASSUME NEW j \in 1 .. i - 2, b \in rest[j].writes, rest[j].call = c PROVE rest[j].kernel \in K
    <3>1. j + 1 \in 1 .. i - 1
      OBVIOUS
    <3> QED BY <2>1, <3>1 DEF Holds, OnlyBy
  <2>2. mem2[b].call = c => mem2[b].by \subseteq K
    BY <1>0 DEF Holds, OnlyBy
  <2> QED BY <1>0, <2>1, <2>2 DEF OnlyBy
<1>2. ASSUME NEW j \in 1 .. i - 1, NoOther(line, j + 1, i, b, c) PROVE NoOther(rest, j, i - 1, b, c)
  <2> SUFFICES ASSUME NEW h \in j .. i - 2, b \in rest[h].writes PROVE rest[h].call = c
    BY <1>0 DEF NoOther
  <2>1. h + 1 \in j + 1 .. i - 1 /\ h \in 1 .. i - 2
    OBVIOUS
  <2> QED BY <1>2, <2>1 DEF NoOther
<1>3. ASSUME NoOther(line, 1, i, b, c) PROVE NoOther(line, 2, i, b, c) /\ (b \in line[1].writes => line[1].call = c)
  BY <1>0, <1>3 DEF NoOther
<1>4. ASSUME NEW name, LeftBy(line, i, mem, b, c, name) PROVE LeftBy(rest, i - 1, mem2, b, c, name)
  <2>1. CASE \E j \in 1 .. i - 1 : /\ b \in line[j].writes /\ line[j].call = c /\ line[j].kernel = name
                                 /\ NoOther(line, j, i, b, c)
    <3>1. PICK j \in 1 .. i - 1 : /\ b \in line[j].writes /\ line[j].call = c /\ line[j].kernel = name
                                 /\ NoOther(line, j, i, b, c)
      BY <2>1
    <3>2. CASE j = 1
      <4>1. NoOther(rest, 1, i - 1, b, c)
        BY <1>0, <1>2, <1>3, <3>1, <3>2
      <4> QED BY <3>1, <3>2, <4>1 DEF LeftBy
    <3>3. CASE j # 1
      <4>1. j - 1 \in 1 .. i - 2 /\ j - 1 \in 1 .. i - 1 /\ (j - 1) + 1 = j
        BY <3>3
      <4>2. NoOther(rest, j - 1, i - 1, b, c)
        BY <1>2, <3>1, <4>1
      <4> QED BY <1>0, <3>1, <4>1, <4>2 DEF LeftBy
    <3> QED BY <3>2, <3>3
  <2>2. CASE mem[b].call = c /\ name \in mem[b].by /\ NoOther(line, 1, i, b, c)
    <3>1. NoOther(rest, 1, i - 1, b, c)
      BY <1>0, <1>2, <1>3, <2>2
    <3>2. mem2[b].call = c /\ name \in mem2[b].by
      BY <1>3, <2>2
    <3> QED BY <3>1, <3>2 DEF LeftBy
  <2> QED BY <1>4, <2>1, <2>2 DEF LeftBy
<1> QED BY <1>1, <1>4 DEF Holds

\* A kernel p is gone without having run, and its call is bad.
LEMMA HoldsWithout ==
    ASSUME NEW line, NEW rest, NEW i \in Nat \ {0}, NEW n \in Nat \ {0}, NEW p \in Nat \ {0},
           NEW mem, NEW bad, NEW worse, NEW b, NEW c, NEW K,
           n = IF p < i THEN i - 1 ELSE i,
           \A j \in 1 .. n - 1 : rest[j] = IF j < p THEN line[j] ELSE line[j + 1],
           bad \subseteq worse, line[p].call \in worse,
           Holds(line, i, mem, bad, b, c, K)
    PROVE  Holds(rest, n, mem, worse, b, c, K)
<1> DEFINE old(j) == IF j < p THEN j ELSE j + 1
<1>0. /\ \A j \in 1 .. n - 1 : rest[j] = line[old(j)] /\ old(j) \in 1 .. i - 1
      /\ \A j, h \in Nat : j <= h => old(j) <= old(h)
      /\ \A j \in Nat : old(j) \in Nat /\ j <= old(j)
  <2>1. ASSUME NEW j \in 1 .. n - 1 PROVE rest[j] = line[old(j)] /\ old(j) \in 1 .. i - 1
    BY p < i \/ i <= p
  <2> QED BY <2>1
<1>1. ASSUME NEW j \in 1 .. i - 1, j # p
      PROVE  \E h \in 1 .. n - 1 : old(h) = j
  <2>1. CASE j < p
    BY <2>1
  <2>2. CASE p < j
    <3>1. j - 1 \in 1 .. n - 1 /\ old(j - 1) = j
      BY <2>2
    <3> QED BY <3>1
  <2> QED BY <1>1, <2>1, <2>2
<1> HIDE DEF old
<1>2. OnlyBy(rest, n, mem, b, c, K)
  BY <1>0 DEF Holds, OnlyBy
<1>3. ASSUME NEW j \in 1 .. n, NEW h \in Nat, h <= old(j), NoOther(line, h, i, b, c)
      PROVE  NoOther(rest, j, n, b, c)
  <2> SUFFICES ASSUME NEW g \in j .. n - 1, b \in rest[g].writes PROVE rest[g].call = c
    BY DEF NoOther
  <2>1. g \in 1 .. n - 1 /\ j <= g /\ g \in Nat /\ j \in Nat
    OBVIOUS
  <2>2. rest[g] = line[old(g)] /\ old(g) \in 1 .. i - 1 /\ old(j) <= old(g) /\ old(j) \in Nat
    BY <1>0, <2>1
  <2>3. old(g) \in h .. i - 1
    BY <1>3, <2>2
  <2> QED BY <1>3, <2>2, <2>3 DEF NoOther
<1>4. ASSUME c \notin worse, NEW name, LeftBy(line, i, mem, b, c, name)
      PROVE  LeftBy(rest, n, mem, b, c, name)
  <2>1. CASE \E j \in 1 .. i - 1 : /\ b \in line[j].writes /\ line[j].call = c /\ line[j].kernel = name
                                 /\ NoOther(line, j, i, b, c)
    <3>1. PICK j \in 1 .. i - 1 : /\ b \in line[j].writes /\ line[j].call = c /\ line[j].kernel = name
                                 /\ NoOther(line, j, i, b, c)
      BY <2>1
    <3>2. j # p
      BY <1>4, <3>1
    <3>3. PICK h \in 1 .. n - 1 : old(h) = j
      BY <1>1, <3>2
    <3>4. h \in 1 .. n /\ j \in Nat /\ j <= old(h)
      BY <3>3
    <3>5. NoOther(rest, h, n, b, c)
      BY <1>3, <3>1, <3>4
    <3> QED BY <1>0, <3>1, <3>3, <3>5 DEF LeftBy
  <2>2. CASE mem[b].call = c /\ name \in mem[b].by /\ NoOther(line, 1, i, b, c)
    <3>1. 1 \in 1 .. n /\ 1 <= old(1)
      BY <1>0
    <3>2. NoOther(rest, 1, n, b, c)
      BY <1>3, <2>2, <3>1
    <3> QED BY <2>2, <3>2 DEF LeftBy
  <2> QED BY <1>4, <2>1, <2>2 DEF LeftBy
<1>5. c \notin worse => c \notin bad
  OBVIOUS
<1> QED BY <1>2, <1>4, <1>5 DEF Holds

\* Once nothing of its call is ahead, the block holds what was expected.
LEMMA HoldsNow ==
    ASSUME NEW line, NEW i \in Nat, NEW mem, NEW bad, NEW b, NEW c, NEW K,
           Holds(line, i, mem, bad, b, c, K), c \notin bad, K # {},
           \A j \in 1 .. i - 1 : line[j].call # c
    PROVE  mem[b].call = c /\ mem[b].by = K
<1>1. \A name \in K : mem[b].call = c /\ name \in mem[b].by
  BY DEF Holds, LeftBy
<1> QED BY <1>1 DEF Holds, OnlyBy

------------------------------------------------------------------------------
\* Lines.

LEMMA NoneIsNoKernel == None \notin Kernels
<1>1. None.call = <<>>
  BY DEF None
<1>2. <<>> \notin Calls
  BY DEF Calls
<1> QED BY <1>1, <1>2 DEF Kernels

LEMMA LineIs ==
    ASSUME NEW r \in Kernels \cup {None}, NEW l \in Seq(Kernels), NEW q \in Seq(Kernels)
    PROVE  LET n == IF r = None THEN 0 ELSE 1
           IN  /\ LineOf(r, l, q) \in Seq(Kernels)
               /\ Len(LineOf(r, l, q)) = n + Len(l) + Len(q)
               /\ r # None => LineOf(r, l, q)[1] = r
               /\ \A i \in 1..Len(l) : LineOf(r, l, q)[n + i] = l[i]
               /\ \A i \in 1..Len(q) : LineOf(r, l, q)[n + Len(l) + i] = q[i]
<1> DEFINE n == IF r = None THEN 0 ELSE 1
           p == Begun(r)
           first == p \o l
           line == first \o q
<1>1. p \in Seq(Kernels) /\ Len(p) = n /\ (r # None => p[1] = r) /\ n \in {0, 1} /\ (r # None => n = 1)
  BY DEF Begun
<1>2. Len(l) \in Nat /\ Len(q) \in Nat
  BY LenProperties
<1>3. LineOf(r, l, q) = line
  BY DEF LineOf
<1> HIDE DEF n, p
<1>4. /\ first \in Seq(Kernels) /\ Len(first) = n + Len(l)
      /\ \A i \in 1 .. Len(p) + Len(l) : first[i] = IF i <= Len(p) THEN p[i] ELSE l[i - Len(p)]
  BY <1>1, ConcatProperties
<1>5. \A i \in 1 .. n + Len(l) : first[i] = IF i <= n THEN p[i] ELSE l[i - n]
  BY <1>1, <1>4
<1> HIDE DEF first
<1>6. /\ line \in Seq(Kernels) /\ Len(line) = Len(first) + Len(q)
      /\ \A i \in 1 .. Len(first) + Len(q) :
            line[i] = IF i <= Len(first) THEN first[i] ELSE q[i - Len(first)]
  <2>1. first \in Seq(Kernels)
    BY <1>4
  <2> QED BY ONLY <2>1, q \in Seq(Kernels), ConcatProperties DEF line
<1>7. \A i \in 1 .. n + Len(l) + Len(q) : line[i] = IF i <= n + Len(l) THEN first[i] ELSE q[i - (n + Len(l))]
  BY <1>4, <1>6
<1> HIDE DEF line
<1>8. r # None => line[1] = r
  BY <1>1, <1>2, <1>5, <1>7
<1>9. ASSUME NEW i \in 1..Len(l) PROVE line[n + i] = l[i]
  <2>1. n + i \in 1 .. n + Len(l) /\ n + i \in 1 .. n + Len(l) + Len(q) /\ ~ (n + i <= n) /\ (n + i) - n = i
        /\ n + i <= n + Len(l)
    BY <1>1, <1>2
  <2> QED BY <1>5, <1>7, <2>1
<1>10. ASSUME NEW i \in 1..Len(q) PROVE line[n + Len(l) + i] = q[i]
  <2>1. /\ n + Len(l) + i \in 1 .. n + Len(l) + Len(q) /\ ~ (n + Len(l) + i <= n + Len(l))
        /\ (n + Len(l) + i) - (n + Len(l)) = i
    BY <1>1, <1>2
  <2> QED BY <1>7, <2>1
<1> QED BY <1>3, <1>4, <1>6, <1>8, <1>9, <1>10 DEF n

\* Lines are equal if their parts are.
LEMMA LineWithout ==
    ASSUME NEW line \in Seq(Kernels), NEW r \in Kernels \cup {None}, NEW l \in Seq(Kernels), NEW q \in Seq(Kernels),
           Len(line) = (IF r = None THEN 0 ELSE 1) + Len(l) + Len(q),
           r # None => line[1] = r,
           \A i \in 1..Len(l) : line[(IF r = None THEN 0 ELSE 1) + i] = l[i],
           \A i \in 1..Len(q) : line[(IF r = None THEN 0 ELSE 1) + Len(l) + i] = q[i]
    PROVE  line = LineOf(r, l, q)
<1> DEFINE n == IF r = None THEN 0 ELSE 1
           other == LineOf(r, l, q)
<1>1. /\ other \in Seq(Kernels) /\ Len(other) = n + Len(l) + Len(q)
      /\ r # None => other[1] = r
      /\ \A i \in 1..Len(l) : other[n + i] = l[i]
      /\ \A i \in 1..Len(q) : other[n + Len(l) + i] = q[i]
  BY LineIs
<1>2. Len(l) \in Nat /\ Len(q) \in Nat /\ n \in {0, 1} /\ (n = 1 => r # None)
  BY LenProperties
<1>3. /\ Len(line) = n + Len(l) + Len(q)
      /\ \A i \in 1..Len(l) : line[n + i] = l[i]
      /\ \A i \in 1..Len(q) : line[n + Len(l) + i] = q[i]
  OBVIOUS
<1> HIDE DEF n, other
<1>4. ASSUME NEW i \in 1..Len(line) PROVE line[i] = other[i]
  <2>1. CASE i <= n
    BY <1>1, <1>2, <2>1
  <2>2. CASE n < i /\ i <= n + Len(l)
    <3>1. i - n \in 1..Len(l) /\ n + (i - n) = i
      BY <1>2, <2>2
    <3> QED BY <1>1, <1>3, <3>1
  <2>3. CASE n + Len(l) < i
    <3>1. i - (n + Len(l)) \in 1..Len(q) /\ n + Len(l) + (i - (n + Len(l))) = i
      BY <1>2, <1>3, <2>3
    <3> QED BY <1>1, <1>3, <3>1
  <2> QED BY <1>2, <2>1, <2>2, <2>3
<1>5. line = other
  BY <1>1, <1>3, <1>4, SeqEqual
<1> QED BY <1>5 DEF other

\* A kernel begins: the line stays.
LEMMA LineBegins ==
    ASSUME NEW l \in Seq(Kernels), NEW q \in Seq(Kernels), l # <<>>
    PROVE  LineOf(Head(l), Tail(l), q) = LineOf(None, l, q)
<1> DEFINE line == LineOf(None, l, q)
<1>1. /\ line \in Seq(Kernels) /\ Len(line) = 0 + Len(l) + Len(q)
      /\ \A i \in 1..Len(l) : line[0 + i] = l[i]
      /\ \A i \in 1..Len(q) : line[0 + Len(l) + i] = q[i]
  <2>1. None \in Kernels \cup {None} /\ (IF None = None THEN 0 ELSE 1) = 0
    OBVIOUS
  <2> QED BY <2>1, LineIs
<1>2. /\ Head(l) \in Kernels /\ Tail(l) \in Seq(Kernels) /\ Len(Tail(l)) = Len(l) - 1
      /\ \A i \in 1..Len(Tail(l)) : Tail(l)[i] = l[i + 1]
      /\ Len(l) \in Nat /\ Len(l) >= 1 /\ Len(q) \in Nat /\ Head(l) = l[1]
  BY HeadTailProperties, LenProperties, EmptySeq
<1>3. Head(l) # None
  BY <1>2, NoneIsNoKernel
<1> HIDE DEF line
<1>4. /\ Len(line) = 1 + Len(Tail(l)) + Len(q) /\ line[1] = Head(l)
      /\ \A i \in 1..Len(Tail(l)) : line[1 + i] = Tail(l)[i]
      /\ \A i \in 1..Len(q) : line[1 + Len(Tail(l)) + i] = q[i]
  <2>1. Len(line) = 1 + Len(Tail(l)) + Len(q) /\ line[1] = Head(l)
    BY <1>1, <1>2
  <2>2. ASSUME NEW i \in 1..Len(Tail(l)) PROVE line[1 + i] = Tail(l)[i]
    <3>1. 1 + i \in 1..Len(l) /\ 0 + (1 + i) = 1 + i /\ i + 1 = 1 + i
      BY <1>2
    <3> QED BY <1>1, <1>2, <3>1
  <2>3. ASSUME NEW i \in 1..Len(q) PROVE line[1 + Len(Tail(l)) + i] = q[i]
    <3>1. 1 + Len(Tail(l)) + i = 0 + Len(l) + i
      BY <1>2
    <3> QED BY <1>1, <3>1
  <2> QED BY <2>1, <2>2, <2>3
<1> DEFINE r == Head(l)  t == Tail(l)
<1>5. /\ r \in Kernels \cup {None} /\ r # None /\ t \in Seq(Kernels) /\ line \in Seq(Kernels)
      /\ (IF r = None THEN 0 ELSE 1) = 1
  BY <1>1, <1>2, <1>3
<1> HIDE DEF r, t
<1>6. line = LineOf(r, t, q)
  BY <1>4, <1>5, LineWithout DEF r, t
<1> QED BY <1>6 DEF line, r, t

\* A kernel is launched: the line stays.
LEMMA LineLaunched ==
    ASSUME NEW r \in Kernels \cup {None}, NEW l \in Seq(Kernels), NEW q \in Seq(Kernels), q # <<>>
    PROVE  LineOf(r, Append(l, Head(q)), Tail(q)) = LineOf(r, l, q)
<1> DEFINE line == LineOf(r, l, q)
           n == IF r = None THEN 0 ELSE 1
<1>1. /\ line \in Seq(Kernels) /\ Len(line) = n + Len(l) + Len(q)
      /\ r # None => line[1] = r
      /\ \A i \in 1..Len(l) : line[n + i] = l[i]
      /\ \A i \in 1..Len(q) : line[n + Len(l) + i] = q[i]
  BY LineIs
<1>2. /\ Head(q) \in Kernels /\ Tail(q) \in Seq(Kernels) /\ Len(Tail(q)) = Len(q) - 1
      /\ \A i \in 1..Len(Tail(q)) : Tail(q)[i] = q[i + 1]
      /\ Len(l) \in Nat /\ Len(q) \in Nat /\ Len(q) >= 1 /\ Head(q) = q[1] /\ n \in {0, 1}
  BY HeadTailProperties, LenProperties, EmptySeq
<1> DEFINE more == Append(l, Head(q))
<1>3. /\ more \in Seq(Kernels) /\ Len(more) = Len(l) + 1
      /\ \A i \in 1..Len(l) : more[i] = l[i]
      /\ more[Len(l) + 1] = Head(q)
  BY <1>2
<1> HIDE DEF line, more
<1>4. Len(line) = n + Len(more) + Len(Tail(q))
  <2> HIDE DEF n
  <2> QED BY <1>1, <1>2, <1>3
<1>5. ASSUME NEW i \in 1..Len(more) PROVE line[n + i] = more[i]
  <2>1. CASE i <= Len(l)
    BY <1>1, <1>2, <1>3, <2>1
  <2>2. CASE i = Len(l) + 1
    <3>1. n + i = n + Len(l) + 1 /\ 1 \in 1..Len(q)
      BY <1>2, <2>2
    <3> HIDE DEF n
    <3> QED BY <1>1, <1>2, <1>3, <2>2, <3>1
  <2> QED BY <1>2, <1>3, <2>1, <2>2
<1>6. ASSUME NEW i \in 1..Len(Tail(q)) PROVE line[n + Len(more) + i] = Tail(q)[i]
  <2>0. n \in Nat /\ Len(l) \in Nat /\ Len(q) \in Nat /\ Len(Tail(q)) = Len(q) - 1 /\ Len(more) = Len(l) + 1
    BY <1>2, <1>3
  <2> HIDE DEF n
  <2>1. n + Len(more) + i = n + Len(l) + (i + 1) /\ i + 1 \in 1..Len(q)
    BY <2>0
  <2> QED BY <1>1, <1>2, <2>1
<1>7. line = LineOf(r, more, Tail(q))
  BY <1>1, <1>2, <1>3, <1>4, <1>5, <1>6, LineWithout
<1> QED BY <1>7 DEF line, more

\* A kernel is submitted.
Grows(line, longer, kernel) ==
    /\ Len(longer) = Len(line) + 1
    /\ \A i \in 1..Len(line) : longer[i] = line[i]
    /\ longer[Len(line) + 1] = kernel

LEMMA LineSubmitted ==
    ASSUME NEW r \in Kernels \cup {None}, NEW l \in Seq(Kernels), NEW q \in Seq(Kernels), NEW k \in Kernels,
           NEW more \in Seq(Kernels), Grows(q, more, k)
    PROVE  Grows(LineOf(r, l, q), LineOf(r, l, more), k)
<1> DEFINE line == LineOf(r, l, q)
           n == IF r = None THEN 0 ELSE 1
           longer == LineOf(r, l, more)
<1>1. /\ line \in Seq(Kernels) /\ Len(line) = n + Len(l) + Len(q)
      /\ r # None => line[1] = r
      /\ \A i \in 1..Len(l) : line[n + i] = l[i]
      /\ \A i \in 1..Len(q) : line[n + Len(l) + i] = q[i]
  BY LineIs
<1>2. /\ more \in Seq(Kernels) /\ Len(more) = Len(q) + 1
      /\ \A i \in 1..Len(q) : more[i] = q[i]
      /\ more[Len(q) + 1] = k
  BY DEF Grows
<1>3. /\ Len(longer) = n + Len(l) + Len(more)
      /\ r # None => longer[1] = r
      /\ \A i \in 1..Len(l) : longer[n + i] = l[i]
      /\ \A i \in 1..Len(more) : longer[n + Len(l) + i] = more[i]
  BY <1>2, LineIs
<1>4. Len(l) \in Nat /\ Len(q) \in Nat /\ n \in {0, 1} /\ (n = 1 => r # None)
  BY LenProperties
<1> HIDE DEF n, line, longer
<1>5. ASSUME NEW i \in 1..Len(line) PROVE longer[i] = line[i]
  <2>1. CASE i <= n
    BY <1>1, <1>3, <1>4, <2>1
  <2>2. CASE n < i /\ i <= n + Len(l)
    <3>1. i - n \in 1..Len(l) /\ n + (i - n) = i
      BY <1>4, <2>2
    <3> QED BY <1>1, <1>3, <3>1
  <2>3. CASE n + Len(l) < i
    <3>1. /\ i - (n + Len(l)) \in 1..Len(q) /\ n + Len(l) + (i - (n + Len(l))) = i
          /\ i - (n + Len(l)) \in 1..Len(more)
      BY <1>1, <1>2, <1>4, <2>3
    <3> QED BY <1>1, <1>2, <1>3, <3>1
  <2> QED BY <1>4, <2>1, <2>2, <2>3
<1>6. longer[Len(line) + 1] = k
  <2>1. Len(line) + 1 = n + Len(l) + (Len(q) + 1) /\ Len(q) + 1 \in 1..Len(more)
    BY <1>1, <1>2, <1>4
  <2> QED BY <1>2, <1>3, <2>1
<1>7. Len(line) \in Nat /\ Len(longer) = Len(line) + 1
  BY <1>1, <1>2, <1>3, <1>4
<1> QED BY <1>5, <1>6, <1>7 DEF line, longer, Grows

\* A kernel is taken out of the queue and not launched.
LEMMA LineFailed ==
    ASSUME NEW r \in Kernels \cup {None}, NEW l \in Seq(Kernels), NEW q \in Seq(Kernels), q # <<>>
    PROVE  LET line == LineOf(r, l, q)  rest == LineOf(r, l, Tail(q))
           IN  \E p \in 1..Len(line) :
                  /\ Len(line) \in Nat /\ Len(rest) = Len(line) - 1 /\ line[p] = Head(q)
                  /\ \A i \in 1..Len(rest) : rest[i] = IF i < p THEN line[i] ELSE line[i + 1]
<1> DEFINE line == LineOf(r, l, q)
           n == IF r = None THEN 0 ELSE 1
           fewer == Tail(q)
           rest == LineOf(r, l, fewer)
           p == n + Len(l) + 1
<1>1. /\ line \in Seq(Kernels) /\ Len(line) = n + Len(l) + Len(q)
      /\ r # None => line[1] = r
      /\ \A i \in 1..Len(l) : line[n + i] = l[i]
      /\ \A i \in 1..Len(q) : line[n + Len(l) + i] = q[i]
  BY LineIs
<1>2. /\ fewer \in Seq(Kernels) /\ Len(fewer) = Len(q) - 1
      /\ \A i \in 1..Len(fewer) : fewer[i] = q[i + 1]
      /\ Len(q) \in Nat /\ Len(q) >= 1 /\ Head(q) = q[1]
  BY HeadTailProperties, LenProperties, EmptySeq
<1> HIDE DEF fewer
<1>3. /\ Len(rest) = n + Len(l) + Len(fewer)
      /\ r # None => rest[1] = r
      /\ \A i \in 1..Len(l) : rest[n + i] = l[i]
      /\ \A i \in 1..Len(fewer) : rest[n + Len(l) + i] = fewer[i]
  BY <1>2, LineIs
<1>4. Len(l) \in Nat /\ n \in {0, 1} /\ (n = 1 => r # None)
  BY LenProperties
<1> HIDE DEF n, line, rest
<1>5. p \in 1..Len(line) /\ Len(line) \in Nat /\ Len(rest) = Len(line) - 1
  BY <1>1, <1>2, <1>3, <1>4
<1>6. line[p] = Head(q)
  <2>1. 1 \in 1..Len(q)
    BY <1>2
  <2> QED BY <1>1, <1>2, <2>1
<1>7. ASSUME NEW i \in 1..Len(rest) PROVE rest[i] = IF i < p THEN line[i] ELSE line[i + 1]
  <2>1. CASE i <= n
    BY <1>1, <1>3, <1>4, <2>1
  <2>2. CASE n < i /\ i <= n + Len(l)
    <3>1. i - n \in 1..Len(l) /\ n + (i - n) = i /\ i < p
      BY <1>4, <2>2
    <3> QED BY <1>1, <1>3, <3>1
  <2>3. CASE n + Len(l) < i
    <3> DEFINE j == i - (n + Len(l))
    <3>0. /\ n \in Nat /\ Len(l) \in Nat /\ Len(q) \in Nat /\ Len(fewer) = Len(q) - 1
          /\ i \in Nat /\ i <= n + Len(l) + Len(fewer)
      BY <1>2, <1>3, <1>4
    <3>1. /\ j \in 1..Len(fewer) /\ n + Len(l) + j = i /\ ~ (i < p)
          /\ j + 1 \in 1..Len(q) /\ n + Len(l) + (j + 1) = i + 1
      BY ONLY <3>0, <2>3
    <3> HIDE DEF j, p
    <3>2. rest[n + Len(l) + j] = fewer[j] /\ fewer[j] = q[j + 1] /\ line[n + Len(l) + (j + 1)] = q[j + 1]
      BY <1>1, <1>2, <1>3, <3>1
    <3>3. rest[i] = line[i + 1]
      BY ONLY <3>1, <3>2
    <3> QED BY <3>1, <3>3
  <2> QED BY <1>4, <2>1, <2>2, <2>3
<1> HIDE DEF p
<1> QED BY <1>5, <1>6, <1>7 DEF line, rest, fewer

\* The kernel at work ends.
LEMMA LineEnds ==
    ASSUME NEW r \in Kernels, NEW l \in Seq(Kernels), NEW q \in Seq(Kernels)
    PROVE  LET line == LineOf(r, l, q)  rest == LineOf(None, l, q)
           IN  /\ Len(rest) \in Nat /\ Len(line) = Len(rest) + 1 /\ line[1] = r
               /\ \A i \in 1..Len(rest) : rest[i] = line[i + 1]
<1> DEFINE line == LineOf(r, l, q)
           rest == LineOf(None, l, q)
<1>1. r # None /\ (IF r = None THEN 0 ELSE 1) = 1 /\ r \in Kernels \cup {None}
  BY NoneIsNoKernel
<1>2. /\ line \in Seq(Kernels) /\ Len(line) = 1 + Len(l) + Len(q)
      /\ line[1] = r
      /\ \A i \in 1..Len(l) : line[1 + i] = l[i]
      /\ \A i \in 1..Len(q) : line[1 + Len(l) + i] = q[i]
  BY <1>1, LineIs
<1>3. /\ rest \in Seq(Kernels) /\ Len(rest) = 0 + Len(l) + Len(q)
      /\ \A i \in 1..Len(l) : rest[0 + i] = l[i]
      /\ \A i \in 1..Len(q) : rest[0 + Len(l) + i] = q[i]
  <2>1. None \in Kernels \cup {None} /\ (IF None = None THEN 0 ELSE 1) = 0
    OBVIOUS
  <2> QED BY <2>1, LineIs
<1>4. Len(l) \in Nat /\ Len(q) \in Nat
  BY LenProperties
<1> HIDE DEF line, rest
<1>5. ASSUME NEW i \in 1..Len(rest) PROVE rest[i] = line[i + 1]
  <2>1. CASE i <= Len(l)
    <3>1. i \in 1..Len(l) /\ 0 + i = i /\ 1 + i = i + 1
      BY <1>4, <2>1
    <3> QED BY <1>2, <1>3, <3>1
  <2>2. CASE Len(l) < i
    <3>0. i \in Nat /\ i <= 0 + Len(l) + Len(q)
      BY <1>3, <1>4
    <3>1. i - Len(l) \in 1..Len(q) /\ 0 + Len(l) + (i - Len(l)) = i /\ 1 + Len(l) + (i - Len(l)) = i + 1
      BY ONLY <3>0, <1>4, <2>2
    <3> DEFINE j == i - Len(l)
    <3>2. rest[0 + Len(l) + j] = q[j] /\ line[1 + Len(l) + j] = q[j]
      BY <1>2, <1>3, <3>1
    <3> QED BY <3>1, <3>2
  <2> QED BY <1>4, <2>1, <2>2
<1>6. Len(rest) \in Nat /\ Len(line) = Len(rest) + 1
  BY <1>2, <1>3, <1>4
<1> QED BY <1>2, <1>5, <1>6 DEF line, rest

LEMMA LineHas ==
    ASSUME NEW r \in Kernels \cup {None}, NEW l \in Seq(Kernels), NEW q \in Seq(Kernels)
    PROVE  LET line == LineOf(r, l, q)
           IN  /\ line \in Seq(Kernels) /\ Len(line) \in Nat /\ \A i \in 1..Len(line) : line[i] \in Kernels
               /\ \A i \in 1..Len(q) : \E j \in 1..Len(line) : line[j] = q[i]
               /\ r # None => 1 \in 1..Len(line) /\ line[1] = r
<1> DEFINE line == LineOf(r, l, q)
           n == IF r = None THEN 0 ELSE 1
<1>1. /\ line \in Seq(Kernels)
      /\ Len(line) = n + Len(l) + Len(q)
      /\ r # None => line[1] = r
      /\ \A i \in 1..Len(q) : line[n + Len(l) + i] = q[i]
  BY LineIs
<1>2. Len(l) \in Nat /\ Len(q) \in Nat /\ n \in {0, 1} /\ (r # None => n = 1)
  BY LenProperties
<1> HIDE DEF line, n
<1>3. Len(line) \in Nat
  BY <1>1, LenProperties
<1>4. \A i \in 1..Len(line) : line[i] \in Kernels
  BY <1>1, ElementOfSeq
<1>5. ASSUME NEW i \in 1..Len(q) PROVE \E j \in 1..Len(line) : line[j] = q[i]
  <2>1. n + Len(l) + i \in 1..Len(line)
    BY <1>1, <1>2
  <2> QED BY <1>1, <2>1
<1>6. r # None => 1 \in 1..Len(line)
  BY <1>1, <1>2
<1> QED BY <1>1, <1>3, <1>4, <1>5, <1>6 DEF line

\* The kernels that are queued, launched or at work are the line's.
LEMMA InLineIs ==
    ASSUME Shapes, NEW s \in Streams
    PROVE  /\ Line(s) \in Seq(Kernels) /\ Len(Line(s)) \in Nat /\ InLine(s) \subseteq Kernels
           /\ \A i \in 1..Len(tasks[s]) : tasks[s][i] \in InLine(s)
           /\ running[s] # None => 1 \in 1..Len(Line(s)) /\ Line(s)[1] = running[s] /\ running[s] \in InLine(s)
<1>1. running[s] \in Kernels \cup {None} /\ launched[s] \in Seq(Kernels) /\ tasks[s] \in Seq(Kernels)
  BY DEF Shapes
<1>2. /\ Line(s) \in Seq(Kernels) /\ Len(Line(s)) \in Nat
      /\ \A i \in 1..Len(Line(s)) : Line(s)[i] \in Kernels
      /\ \A i \in 1..Len(tasks[s]) : \E j \in 1..Len(Line(s)) : Line(s)[j] = tasks[s][i]
      /\ running[s] # None => 1 \in 1..Len(Line(s)) /\ Line(s)[1] = running[s]
  BY <1>1, LineHas DEF Line
<1> QED BY <1>2 DEF InLine, Elements

LinesHaveLengths == \A s \in Streams : Len(Line(s)) \in Nat

LEMMA LineLengths == (Shapes => LinesHaveLengths) /\ (Shapes' => LinesHaveLengths')
<1>1. Shapes => LinesHaveLengths
  BY InLineIs DEF LinesHaveLengths
<1> QED BY <1>1, PTL

\* A kernel is submitted.
NewInLine(s, kernel) == Grows(Line(s), Line(s)', kernel)

\* A kernel is lost at a launch.
LostFromLine(s, p) ==
    /\ p \in 1..Len(Line(s)) /\ Len(Line(s)') = Len(Line(s)) - 1
    /\ Line(s)[p].call \in failed'
    /\ \A i \in 1..Len(Line(s)') : Line(s)'[i] = IF i < p THEN Line(s)[i] ELSE Line(s)[i + 1]

\* A kernel ends.
EndedInLine(s) ==
    /\ running[s] \in Kernels
    /\ Len(Line(s)) = Len(Line(s)') + 1 /\ Line(s)[1] = running[s]
    /\ \A i \in 1..Len(Line(s)') : Line(s)'[i] = Line(s)[i + 1]

LineStays(s) == Line(s)' = Line(s)

LinesStay == \A s \in Streams : LineStays(s)

OtherLinesStay(s) == \A r \in Streams \ {s} : LineStays(r)

LEMMA WhenQueuesStay ==
    ASSUME UNCHANGED queueVars
    PROVE  LinesStay
BY DEF queueVars, LinesStay, LineStays, Line

LEMMA WhenSubmitted ==
    ASSUME Shapes, NEW s \in Streams, NEW kernel \in Kernels, Submit(s, kernel), UNCHANGED <<launched, running>>
    PROVE  NewInLine(s, kernel) /\ OtherLinesStay(s) /\ tasks' \in [Streams -> Seq(Kernels)]
<1>1. running[s] \in Kernels \cup {None} /\ launched[s] \in Seq(Kernels) /\ tasks[s] \in Seq(Kernels)
      /\ tasks \in [Streams -> Seq(Kernels)]
  BY DEF Shapes
<1>2. /\ tasks' = [tasks EXCEPT ![s] = Append(tasks[s], kernel)] /\ tasks'[s] = Append(tasks[s], kernel)
      /\ launched' = launched /\ running' = running
  BY <1>1 DEF Submit
<1>3. tasks'[s] \in Seq(Kernels) /\ Grows(tasks[s], tasks'[s], kernel)
  BY <1>1, <1>2 DEF Grows
<1>4. NewInLine(s, kernel)
  <2>1. Line(s)' = LineOf(running[s], launched[s], tasks'[s])
    BY <1>2 DEF Line
  <2> QED BY <1>1, <1>3, <2>1, LineSubmitted DEF Line, NewInLine
<1>5. OtherLinesStay(s)
  BY <1>1, <1>2 DEF OtherLinesStay, LineStays, Line
<1>6. Append(tasks[s], kernel) \in Seq(Kernels)
  BY <1>1
<1> QED BY <1>1, <1>2, <1>4, <1>5, <1>6

LEMMA WhenLaunched ==
    ASSUME Shapes, NEW s \in Streams, tasks[s] # <<>>,
           tasks' = [tasks EXCEPT ![s] = Tail(@)], launched' = [launched EXCEPT ![s] = Append(@, Head(tasks[s]))],
           UNCHANGED running
    PROVE  LinesStay /\ tasks' \in [Streams -> Seq(Kernels)] /\ launched' \in [Streams -> Seq(Kernels)]
<1>1. /\ running[s] \in Kernels \cup {None} /\ launched[s] \in Seq(Kernels) /\ tasks[s] \in Seq(Kernels)
      /\ tasks \in [Streams -> Seq(Kernels)] /\ launched \in [Streams -> Seq(Kernels)]
  BY DEF Shapes
<1>2. Head(tasks[s]) \in Kernels /\ Tail(tasks[s]) \in Seq(Kernels)
  BY <1>1, HeadTailProperties, EmptySeq
<1>3. Append(launched[s], Head(tasks[s])) \in Seq(Kernels)
  BY <1>1, <1>2
<1>4. tasks'[s] = Tail(tasks[s]) /\ launched'[s] = Append(launched[s], Head(tasks[s])) /\ running' = running
  BY <1>1
<1>5. LineStays(s)
  <2>1. Line(s)' = LineOf(running[s], Append(launched[s], Head(tasks[s])), Tail(tasks[s]))
    BY <1>4 DEF Line
  <2> QED BY <1>1, <2>1, LineLaunched DEF LineStays, Line
<1>6. ASSUME NEW r \in Streams, r # s PROVE LineStays(r)
  BY <1>1, <1>4, <1>6 DEF LineStays, Line
<1> QED BY <1>1, <1>2, <1>3, <1>5, <1>6 DEF LinesStay

LEMMA WhenLost ==
    ASSUME Shapes, NEW s \in Streams, tasks[s] # <<>>,
           tasks' = [tasks EXCEPT ![s] = Tail(@)], UNCHANGED <<launched, running>>,
           Head(tasks[s]).call \in failed'
    PROVE  /\ Head(tasks[s]) \in InLine(s)
           /\ \E p \in Nat : LostFromLine(s, p)
           /\ OtherLinesStay(s) /\ tasks' \in [Streams -> Seq(Kernels)]
<1>1. /\ running[s] \in Kernels \cup {None} /\ launched[s] \in Seq(Kernels) /\ tasks[s] \in Seq(Kernels)
      /\ tasks \in [Streams -> Seq(Kernels)]
  BY DEF Shapes
<1>2. Tail(tasks[s]) \in Seq(Kernels) /\ Head(tasks[s]) = tasks[s][1] /\ 1 \in 1..Len(tasks[s])
  BY <1>1, HeadTailProperties, EmptySeq, LenProperties
<1>3. tasks'[s] = Tail(tasks[s]) /\ launched' = launched /\ running' = running
  BY <1>1
<1>4. Line(s)' = LineOf(running[s], launched[s], Tail(tasks[s]))
  BY <1>3 DEF Line
<1>5. PICK p \in 1..Len(Line(s)) :
        /\ Len(Line(s)) \in Nat /\ Len(Line(s)') = Len(Line(s)) - 1 /\ Line(s)[p] = Head(tasks[s])
        /\ \A i \in 1..Len(Line(s)') : Line(s)'[i] = IF i < p THEN Line(s)[i] ELSE Line(s)[i + 1]
  BY <1>1, <1>4, LineFailed DEF Line
<1>6. LostFromLine(s, p) /\ p \in Nat
  BY <1>5 DEF LostFromLine
<1>7. OtherLinesStay(s)
  BY <1>1, <1>3 DEF OtherLinesStay, LineStays, Line
<1>8. Head(tasks[s]) \in InLine(s)
  BY <1>2, InLineIs
<1> QED BY <1>1, <1>2, <1>6, <1>7, <1>8

LEMMA WhenBegun ==
    ASSUME Shapes, NEW s \in Streams, Begin(s)
    PROVE  LinesStay /\ launched' \in [Streams -> Seq(Kernels)] /\ running' \in [Streams -> Kernels \cup {None}]
<1>1. /\ running \in [Streams -> Kernels \cup {None}] /\ launched[s] \in Seq(Kernels) /\ tasks[s] \in Seq(Kernels)
      /\ launched \in [Streams -> Seq(Kernels)]
  BY DEF Shapes
<1>2. /\ running[s] = None /\ launched[s] # <<>> /\ running' = [running EXCEPT ![s] = Head(launched[s])]
      /\ launched' = [launched EXCEPT ![s] = Tail(@)] /\ tasks' = tasks
  BY DEF Begin
<1>3. Head(launched[s]) \in Kernels /\ Tail(launched[s]) \in Seq(Kernels)
  BY <1>1, <1>2, HeadTailProperties, EmptySeq
<1>4. running'[s] = Head(launched[s]) /\ launched'[s] = Tail(launched[s])
  BY <1>1, <1>2
<1>5. LineStays(s)
  <2>1. Line(s)' = LineOf(Head(launched[s]), Tail(launched[s]), tasks[s])
    BY <1>2, <1>4 DEF Line
  <2> QED BY <1>1, <1>2, <2>1, LineBegins DEF LineStays, Line
<1>6. ASSUME NEW r \in Streams, r # s PROVE LineStays(r)
  BY <1>1, <1>2, <1>6 DEF LineStays, Line
<1> QED BY <1>1, <1>2, <1>3, <1>5, <1>6 DEF LinesStay

LEMMA WhenEnded ==
    ASSUME Shapes, NEW s \in Streams, End(s)
    PROVE  EndedInLine(s) /\ OtherLinesStay(s) /\ running' \in [Streams -> Kernels \cup {None}]
<1>1. /\ running \in [Streams -> Kernels \cup {None}] /\ launched[s] \in Seq(Kernels) /\ tasks[s] \in Seq(Kernels)
  BY DEF Shapes
<1>2. running[s] \in Kernels /\ running' = [running EXCEPT ![s] = None] /\ launched' = launched /\ tasks' = tasks
  BY <1>1 DEF End
<1>3. Line(s)' = LineOf(None, launched[s], tasks[s])
  BY <1>1, <1>2 DEF Line
<1>4. /\ Len(Line(s)) = Len(Line(s)') + 1 /\ Line(s)[1] = running[s]
      /\ \A i \in 1..Len(Line(s)') : Line(s)'[i] = Line(s)[i + 1]
  BY <1>1, <1>2, <1>3, LineEnds DEF Line
<1>5. OtherLinesStay(s)
  BY <1>1, <1>2 DEF OtherLinesStay, LineStays, Line
<1> QED BY <1>1, <1>2, <1>4, <1>5 DEF EndedInLine

\* Only a kernel that is submitted is new.
NothingNew(s) == InLine(s)' \subseteq InLine(s)

LEMMA NewOnlyWhenSubmitted ==
    ASSUME Shapes, NEW s \in Streams, NEW kernel
    PROVE  /\ LineStays(s) => NothingNew(s)
           /\ NewInLine(s, kernel) => InLine(s)' = InLine(s) \cup {kernel}
           /\ (\E p \in Nat : LostFromLine(s, p)) => NothingNew(s)
           /\ EndedInLine(s) => NothingNew(s)
<1>1. Len(Line(s)) \in Nat
  BY InLineIs
<1>2. LineStays(s) => NothingNew(s)
  BY DEF LineStays, NothingNew, InLine
<1>3. ASSUME NewInLine(s, kernel) PROVE InLine(s)' = InLine(s) \cup {kernel}
  <2>1. \A i : i \in 1 .. Len(Line(s)) + 1 <=> i \in 1..Len(Line(s)) \/ i = Len(Line(s)) + 1
    BY <1>1
  <2> QED BY <1>3, <2>1 DEF NewInLine, Grows, InLine, Elements
<1>4. ASSUME NEW p \in Nat, LostFromLine(s, p) PROVE NothingNew(s)
  <2>1. ASSUME NEW i \in 1..Len(Line(s)') PROVE i \in 1..Len(Line(s)) /\ i + 1 \in 1..Len(Line(s))
    BY <1>1, <1>4 DEF LostFromLine
  <2> QED BY <1>4, <2>1 DEF LostFromLine, NothingNew, InLine, Elements
<1>5. ASSUME EndedInLine(s) PROVE NothingNew(s)
  <2>0. Len(Line(s)') = Len(Line(s)) - 1
    BY <1>1, <1>5 DEF EndedInLine
  <2>1. ASSUME NEW i \in 1..Len(Line(s)') PROVE i + 1 \in 1..Len(Line(s))
    BY <1>1, <2>0
  <2> QED BY <1>5, <2>1 DEF EndedInLine, NothingNew, InLine, Elements
<1> QED BY <1>2, <1>3, <1>4, <1>5

------------------------------------------------------------------------------
\* The kinds of steps.

NewCall(t) ==
    /\ stage[t] = "caller" /\ calls[t] < Len(scenario.threads[t].operators)
    /\ calls' = [calls EXCEPT ![t] = @ + 1]
    /\ \E first \in {"newLru", "result"} :
          /\ GoTo(t, first)
          /\ first = "result" => scenario.threads[t].operators[calls[t] + 1] = "avg_pool3d"
    /\ UNCHANGED <<scenario, tensors, kept, pool, memory, queueVars, failed>>
    /\ workspace' = workspace \/ (stage'[t] = "result" /\ workspace' = [workspace EXCEPT ![t] = 0])
    /\ stage'[t] = "result" => workspace'[t] = 0

NewTensor(t, name, next) ==
    /\ <<stage[t], name, next>> \in
          {<<"newLru", "newLru", "hitWorkspace">>,
           <<"hitWorkspace", "hitWorkspace", "candidateWorkspace">>,
           <<"candidateWorkspace", "candidateWorkspace", "keepWorkspace">>,
           <<"keepWorkspace", "keepWorkspace", "hit_local">>, <<"result", "result", "resolve">>}
    /\ Allocate(t, name, next) /\ UNCHANGED workspace

Error(t) == stage[t] \in Before /\ Raise(t) /\ UNCHANGED workspace

NewKernel(t, kernel, next) ==
    /\ <<stage[t], next>> \in
          {<<"hit_local", "candidate_local">>, <<"candidate_local", "materialize">>,
           <<"materialize", "keep_scan_write">>, <<"keep_scan_write", "return">>, <<"submit", "unInit">>}
    /\ kernel = IF stage[t] # "submit" THEN PlanKernel(t, stage[t])
                ELSE [call |-> Call(t), from |-> {Call(t)}, kernel |-> "aclnnAvgPool3d", reads |-> <<>>,
                      writes |-> {tensors[t].result} \cup ({workspace[t]} \ {0})]
    /\ Submit(StreamOf(t), kernel) /\ GoTo(t, next)
    /\ UNCHANGED <<scenario, calls, tensors, kept, pool, memory, launched, running, failed, workspace>>

NewResult(t) ==
    /\ \/ stage[t] = "return" /\ Return(t, "newLru", "lru", kept[t].lru.from)
       \/ stage[t] = "unInit" /\ Return(t, "result", "pooled", {})
    /\ UNCHANGED workspace

Proceed(t) ==
    /\ \E next \in {"convert", "size", "submit", "workspace"} :
          /\ <<stage[t], next>> \in {<<"resolve", "convert">>, <<"convert", "convert">>,
                                     <<"convert", "size">>, <<"size", "submit">>, <<"size", "workspace">>}
          /\ GoTo(t, next)
    /\ UNCHANGED <<scenario, calls, tensors, kept, pool, memory, queueVars, failed, workspace>>

NewWorkspace(t) ==
    /\ stage[t] = "workspace"
    /\ \E b \in Available(t) : Take(t, b) /\ workspace' = [workspace EXCEPT ![t] = b]
    /\ GoTo(t, "submit")
    /\ UNCHANGED <<scenario, calls, tensors, kept, memory, queueVars, failed>>

HostStep(t) ==
    \/ NewCall(t) \/ Error(t) \/ NewResult(t) \/ Proceed(t) \/ NewWorkspace(t)
    \/ \E name, next : NewTensor(t, name, next)
    \/ \E kernel, next : NewKernel(t, kernel, next)

Passed(s) ==
    /\ tasks[s] # <<>> /\ tasks' = [tasks EXCEPT ![s] = Tail(@)]
    /\ launched' = [launched EXCEPT ![s] = Append(@, Head(tasks[s]))]
    /\ UNCHANGED <<scenario, hostVars, pool, memory, running, failed, workspace>>

Lost(s) ==
    /\ tasks[s] # <<>> /\ tasks' = [tasks EXCEPT ![s] = Tail(@)]
    /\ failed' = failed \cup {Head(tasks[s]).call}
    /\ UNCHANGED <<scenario, hostVars, pool, memory, launched, running, workspace>>

QueueStep(s) == Passed(s) \/ Lost(s) \/ ((Begin(s) \/ End(s)) /\ UNCHANGED workspace)

LEMMA PlanStepKinds ==
    ASSUME NEW t \in Threads, PlanStep(t), UNCHANGED workspace
    PROVE  HostStep(t)
<1>1. CASE CallBuildLruPlan(t)
  <2>1. GoTo(t, "newLru") /\ "newLru" # "result"
    BY <1>1 DEF CallBuildLruPlan, CallOperator
  <2> QED BY <1>1, <2>1 DEF CallBuildLruPlan, CallOperator, NewCall, HostStep, GoTo
<1>2. CASE AllocatePlanTensor(t)
  <2>1. PICK n \in 1..4 : /\ stage[t] = PlanTensors[n]
                          /\ Allocate(t, PlanTensors[n], IF n = 4 THEN "hit_local" ELSE PlanTensors[n + 1])
    BY <1>2 DEF AllocatePlanTensor
  <2>2. n = 1 \/ n = 2 \/ n = 3 \/ n = 4
    OBVIOUS
  <2>3. NewTensor(t, PlanTensors[n], IF n = 4 THEN "hit_local" ELSE PlanTensors[n + 1])
    BY <2>1, <2>2 DEF PlanTensors, NewTensor
  <2> QED BY <2>3 DEF HostStep
<1>3. CASE PlanOutOfMemory(t)
  <2>1. PICK n \in 1..4 : stage[t] = PlanTensors[n]
    BY <1>3 DEF PlanOutOfMemory
  <2>2. n = 1 \/ n = 2 \/ n = 3 \/ n = 4
    OBVIOUS
  <2>3. stage[t] \in Before
    BY <2>1, <2>2 DEF PlanTensors, Before, PlanBefore, PlanNames
  <2> QED BY <1>3, <2>3 DEF PlanOutOfMemory, Error, HostStep
<1>4. CASE ExecKernelCmd(t)
  <2>1. PICK n \in 1..4 :
            /\ stage[t] = PlanKernels[n]
            /\ Submit(CurrentStream(t), PlanKernel(t, PlanKernels[n]))
            /\ GoTo(t, IF n = 4 THEN "return" ELSE PlanKernels[n + 1])
            /\ UNCHANGED <<scenario, calls, tensors, kept, pool, memory, launched, running, failed>>
    BY <1>4 DEF ExecKernelCmd
  <2>2. n = 1 \/ n = 2 \/ n = 3 \/ n = 4
    OBVIOUS
  <2>3. <<stage[t], IF n = 4 THEN "return" ELSE PlanKernels[n + 1]>> \in
          {<<"hit_local", "candidate_local">>, <<"candidate_local", "materialize">>,
           <<"materialize", "keep_scan_write">>, <<"keep_scan_write", "return">>, <<"submit", "unInit">>}
        /\ stage[t] # "submit"
    BY <2>1, <2>2 DEF PlanKernels
  <2>4. NewKernel(t, PlanKernel(t, stage[t]), IF n = 4 THEN "return" ELSE PlanKernels[n + 1])
    BY <2>1, <2>3 DEF NewKernel, CurrentStream
  <2> QED BY <2>4 DEF HostStep
<1>5. CASE ReturnPlan(t)
  BY <1>5 DEF ReturnPlan, NewResult, HostStep
<1> QED BY <1>1, <1>2, <1>3, <1>4, <1>5 DEF PlanStep

LEMMA PoolStepKinds ==
    ASSUME Shapes, NEW t \in Threads, PoolStep(t)
    PROVE  HostStep(t)
<1> USE DEF HostStep, aclnnVars
<1>1. CASE CallAvgPool3d(t)
  <2>1. workspace \in [Threads -> Blocks \cup {0}] /\ stage \in [Threads -> Stages]
    BY DEF Shapes
  <2> QED BY <1>1, <2>1 DEF CallAvgPool3d, CallOperator, NewCall, GoTo
<1>2. CASE AllocateResult(t)
  BY <1>2 DEF AllocateResult, NewTensor
<1>3. CASE PoolRaises(t)
  BY <1>3 DEF PoolRaises, Error, Before, PoolBefore
<1>4. CASE InitHugeMem(t)
  BY <1>4 DEF InitHugeMem, Proceed
<1>5. CASE ConvertType(t)
  <2>1. stage[t] = "convert" /\ stage' = [stage EXCEPT ![t] = "convert"]
    BY <1>5 DEF ConvertType, runtimeVars, hostVars, Shapes
  <2> QED BY <1>5, <2>1 DEF ConvertType, runtimeVars, hostVars, Proceed, GoTo
<1>6. CASE ConvertTypeRaises(t)
  BY <1>6 DEF ConvertTypeRaises, Error, Before, PoolBefore
<1>7. CASE GetWorkspaceSize(t)
  BY <1>7 DEF GetWorkspaceSize, Proceed
<1>8. CASE NoWorkspace(t)
  BY <1>8 DEF NoWorkspace, Proceed
<1>9. CASE NeedsWorkspace(t)
  BY <1>9 DEF NeedsWorkspace, Proceed
<1>10. CASE AllocateWorkspace(t)
  BY <1>10 DEF AllocateWorkspace, NewWorkspace
<1>11. CASE Run(t)
  BY <1>11 DEF Run, NewKernel
<1>12. CASE UnInitHugeMem(t)
  BY <1>12 DEF UnInitHugeMem, NewResult
<1> QED BY <1>1, <1>2, <1>3, <1>4, <1>5, <1>6, <1>7, <1>8, <1>9, <1>10, <1>11, <1>12 DEF PoolStep

LEMMA StepKinds ==
    ASSUME Shapes, [Next]_vars
    PROVE  \/ \E t \in Threads : HostStep(t)
           \/ \E s \in Streams : QueueStep(s)
           \/ UNCHANGED vars
<1>1. ASSUME NEW t \in Threads, Thread(t) PROVE HostStep(t)
  BY <1>1, PlanStepKinds, PoolStepKinds DEF Thread, aclnnVars
<1>2. ASSUME NEW s \in Streams, LaunchKernel(s), UNCHANGED aclnnVars PROVE QueueStep(s)
  BY <1>2 DEF LaunchKernel, aclnnVars, QueueStep, Passed, Lost
<1>3. ASSUME NEW s \in Streams, CallOpApi(s) PROVE QueueStep(s)
  BY <1>3 DEF CallOpApi, QueueStep, Passed, Lost
<1>4. ASSUME NEW s \in Streams, Device(s) PROVE QueueStep(s)
  BY <1>4 DEF Device, aclnnVars, QueueStep
<1> QED BY <1>1, <1>2, <1>3, <1>4 DEF Next, Consumer, Done

------------------------------------------------------------------------------
\* What a call's kernel writes and reads.

Own(t, b) == \E name \in TensorsAt(stage[t]) : b = tensors[t][name]

WritesOwn(t, kernel) ==
    \A b \in kernel.writes : Own(t, b) \/ (stage[t] = "submit" /\ workspace[t] # 0 /\ b = workspace[t])

ReadsLru(t, kernel, b) ==
    /\ b = kept[t].lru.block /\ kept[t].lru.call \in kernel.from
    /\ kernel.reads[b] = Written(kept[t].lru.call, WholePlan)

ReadsOwn(t, kernel, b) ==
    \E name \in TensorsAt(stage[t]) :
        /\ b = tensors[t][name] /\ Call(t) \in kernel.from
        /\ kernel.reads[b] = Written(Call(t), WritersOf(name) \cap Submitted(stage[t]))
        /\ WritersOf(name) \cap Submitted(stage[t]) # {}

Fits(t, kernel) ==
    /\ kernel \in Kernels /\ kernel.call = Call(t)
    /\ kernel.kernel = IF stage[t] = "submit" THEN "aclnnAvgPool3d" ELSE stage[t]
    /\ WritesOwn(t, kernel)
    /\ \A b \in DOMAIN kernel.reads : ReadsLru(t, kernel, b) \/ ReadsOwn(t, kernel, b)

LEMMA TensorsAtIs ==
    ASSUME NEW at
    PROVE  /\ at \in {"caller", "newLru", "result"} => TensorsAt(at) = {}
           /\ at = "hitWorkspace" => TensorsAt(at) = {"newLru"}
           /\ at = "candidateWorkspace" => TensorsAt(at) = {"newLru", "hitWorkspace"}
           /\ at = "keepWorkspace" => TensorsAt(at) = {"newLru", "hitWorkspace", "candidateWorkspace"}
           /\ at \in KernelNames \cup {"return"} => TensorsAt(at) = PlanNames
           /\ at \in PoolStages \ {"result"} => TensorsAt(at) = {"result"}
BY DEF TensorsAt, KernelNames, PlanNames, PoolStages, PoolBefore

LEMMA CallIs == ASSUME Shapes, NEW t \in Threads PROVE Call(t) \in Calls
BY DEF Shapes, Call, Calls

LEMMA WrittenIs ==
    ASSUME NEW c \in Calls, NEW K \in SUBSET (KernelNames \cup {"aclnnAvgPool3d"})
    PROVE  Written(c, K) \in Contents
BY DEF Written, Contents

LEMMA PlanKernelFits ==
    ASSUME Shapes, NEW t \in Threads, KeptWell(t), stage[t] \in KernelNames
    PROVE  Fits(t, PlanKernel(t, stage[t]))
<1> DEFINE at == stage[t]
           kernel == PlanKernel(t, at)
           names == {"newLru", "hitWorkspace", "candidateWorkspace", "keepWorkspace"}
<1>1. /\ at \in {"hit_local", "candidate_local", "materialize", "keep_scan_write"}
      /\ TensorsAt(at) = names /\ tensors[t] \in [names -> Blocks]
  <2>1. at \in {"hit_local", "candidate_local", "materialize", "keep_scan_write"}
    BY DEF KernelNames
  <2>2. TensorsAt(at) = names
    BY TensorsAtIs DEF PlanNames
  <2>3. tensors[t] \in [TensorsAt(at) -> Blocks]
    BY DEF Shapes
  <2> QED BY <2>1, <2>2, <2>3
<1>2. /\ kept[t].lru \in Results /\ kept[t].lru.block \in Blocks /\ kept[t].lru.call \in Calls
      /\ kept[t].lru.from \subseteq Calls /\ kept[t].lru.call \in kept[t].lru.from
  BY DEF Shapes, Results, KeptWell
<1>3. Call(t) \in Calls
  BY CallIs
<1>4. /\ tensors[t].newLru = tensors[t]["newLru"] /\ tensors[t].newLru \in Blocks
      /\ tensors[t].hitWorkspace = tensors[t]["hitWorkspace"] /\ tensors[t].hitWorkspace \in Blocks
      /\ tensors[t].candidateWorkspace = tensors[t]["candidateWorkspace"] /\ tensors[t].candidateWorkspace \in Blocks
      /\ tensors[t].keepWorkspace = tensors[t]["keepWorkspace"] /\ tensors[t].keepWorkspace \in Blocks
  BY <1>1
<1> DEFINE lruC == Written(kept[t].lru.call, WholePlan)
           hitC == Written(Call(t), {"hit_local"})
           candC == Written(Call(t), {"candidate_local"})
           keepC == Written(Call(t), {"materialize"})
<1>5. lruC \in Contents /\ hitC \in Contents /\ candC \in Contents /\ keepC \in Contents
  BY <1>2, <1>3, WrittenIs DEF WholePlan, KernelNames
<1>6. /\ kernel.call = Call(t) /\ kernel.kernel = at /\ kernel.from = kept[t].lru.from \cup {Call(t)}
      /\ kernel = [call |-> kernel.call, from |-> kernel.from, kernel |-> kernel.kernel,
                   reads |-> kernel.reads, writes |-> kernel.writes]
  BY DEF PlanKernel
<1> DEFINE reads == PlanReads(t, at)
<1>0. kernel.reads = reads /\ kernel.writes = PlanWrites(t, at)
  BY DEF PlanKernel
<1>7. \A b \in kernel.writes : b \in Blocks /\ \E name \in names : b = tensors[t][name]
  <2> HIDE DEF kernel
  <2>1. PlanWrites(t, at) \subseteq
           {tensors[t].newLru, tensors[t].hitWorkspace, tensors[t].candidateWorkspace, tensors[t].keepWorkspace}
    BY <1>1 DEF PlanWrites
  <2> QED BY <1>0, <1>4, <2>1
<1>8. \A b \in DOMAIN kernel.reads :
         \/ b = kept[t].lru.block /\ kernel.reads[b] = lruC
         \/ at \in {"candidate_local", "materialize"} /\ b = tensors[t]["hitWorkspace"] /\ kernel.reads[b] = hitC
         \/ at = "materialize" /\ b = tensors[t]["candidateWorkspace"] /\ kernel.reads[b] = candC
         \/ at = "keep_scan_write" /\ b = tensors[t]["keepWorkspace"] /\ kernel.reads[b] = keepC
  <2> HIDE DEF kernel
  <2>1. CASE at = "hit_local"
    <3>1. reads = <<>>
      BY <2>1 DEF PlanReads
    <3> QED BY <1>0, <3>1
  <2>2. CASE at = "candidate_local"
    <3>1. reads = Extended(Extended(<<>>, kept[t].lru.block, lruC), tensors[t].hitWorkspace, hitC)
      BY <2>2 DEF PlanReads
    <3> QED BY <1>0, <1>4, <2>2, <3>1 DEF Extended
  <2>3. CASE at = "materialize"
    <3>1. reads = Extended(Extended(Extended(<<>>, kept[t].lru.block, lruC), tensors[t].hitWorkspace, hitC),
                           tensors[t].candidateWorkspace, candC)
      BY <2>3 DEF PlanReads
    <3> QED BY <1>0, <1>4, <2>3, <3>1 DEF Extended
  <2>4. CASE at = "keep_scan_write"
    <3>1. reads = Extended(<<>>, tensors[t].keepWorkspace, keepC)
      BY <2>4 DEF PlanReads
    <3> QED BY <1>0, <1>4, <2>4, <3>1 DEF Extended
  <2> QED BY <1>1, <2>1, <2>2, <2>3, <2>4
<1>9. kernel.reads = [b \in DOMAIN kernel.reads |-> kernel.reads[b]]
  <2> HIDE DEF kernel
  <2>1. CASE at = "hit_local"
    <3>1. reads = <<>>
      BY <2>1 DEF PlanReads
    <3> QED BY <1>0, <3>1
  <2>2. CASE at # "hit_local"
    <3>1. \E f, x, y : reads = Extended(f, x, y)
      BY <1>1, <2>2 DEF PlanReads
    <3> QED BY <1>0, <3>1 DEF Extended
  <2> QED BY <2>1, <2>2
<1> HIDE DEF kernel, lruC, hitC, candC, keepC
<1>10. kernel.reads \in [DOMAIN kernel.reads -> Contents] /\ DOMAIN kernel.reads \subseteq Blocks
  BY <1>1, <1>2, <1>4, <1>5, <1>8, <1>9
<1>11. kernel \in Kernels
  <2>1. kernel.call \in Calls /\ kernel.from \in SUBSET Calls /\ kernel.kernel \in KernelNames /\ kernel.writes \in SUBSET Blocks
    BY <1>1, <1>2, <1>3, <1>6, <1>7 DEF KernelNames
  <2>2. kernel.reads \in UNION {[D -> Contents] : D \in SUBSET Blocks}
    BY <1>10
  <2> QED BY <1>6, <2>1, <2>2 DEF Kernels
<1>12. ASSUME NEW b \in DOMAIN kernel.reads PROVE ReadsLru(t, kernel, b) \/ ReadsOwn(t, kernel, b)
  <2>1. CASE b = kept[t].lru.block /\ kernel.reads[b] = lruC
    BY <1>2, <1>6, <2>1 DEF ReadsLru, lruC
  <2>2. CASE at \in {"candidate_local", "materialize"} /\ b = tensors[t]["hitWorkspace"] /\ kernel.reads[b] = hitC
    <3>1. WritersOf("hitWorkspace") \cap Submitted(stage[t]) = {"hit_local"}
      BY <2>2 DEF WritersOf, Submitted, Before, PlanBefore, PoolBefore, PlanNames
    <3> QED BY <1>1, <1>6, <2>2, <3>1 DEF ReadsOwn, hitC
  <2>3. CASE at = "materialize" /\ b = tensors[t]["candidateWorkspace"] /\ kernel.reads[b] = candC
    <3>1. WritersOf("candidateWorkspace") \cap Submitted(stage[t]) = {"candidate_local"}
      BY <2>3 DEF WritersOf, Submitted, Before, PlanBefore, PoolBefore, PlanNames
    <3> QED BY <1>1, <1>6, <2>3, <3>1 DEF ReadsOwn, candC
  <2>4. CASE at = "keep_scan_write" /\ b = tensors[t]["keepWorkspace"] /\ kernel.reads[b] = keepC
    <3>1. WritersOf("keepWorkspace") \cap Submitted(stage[t]) = {"materialize"}
      BY <2>4 DEF WritersOf, Submitted, Before, PlanBefore, PoolBefore, PlanNames
    <3> QED BY <1>1, <1>6, <2>4, <3>1 DEF ReadsOwn, keepC
  <2> QED BY <1>8, <2>1, <2>2, <2>3, <2>4
<1>13. WritesOwn(t, kernel)
  BY <1>1, <1>7 DEF WritesOwn, Own
<1> QED BY <1>1, <1>6, <1>11, <1>12, <1>13 DEF Fits, kernel

LEMMA KernelFits ==
    ASSUME Shapes, NEW t \in Threads, KeptWell(t), NEW kernel, NEW next, NewKernel(t, kernel, next)
    PROVE  Fits(t, kernel)
<1>1. CASE stage[t] # "submit"
  <2>1. stage[t] \in KernelNames /\ kernel = PlanKernel(t, stage[t])
    BY <1>1 DEF NewKernel, KernelNames
  <2> QED BY <2>1, PlanKernelFits
<1>2. CASE stage[t] = "submit"
  <2>1. kernel = [call |-> Call(t), from |-> {Call(t)}, kernel |-> "aclnnAvgPool3d", reads |-> <<>>,
                  writes |-> {tensors[t].result} \cup ({workspace[t]} \ {0})]
    BY <1>2 DEF NewKernel
  <2>2. TensorsAt(stage[t]) = {"result"} /\ tensors[t] \in [{"result"} -> Blocks] /\ workspace[t] \in Blocks \cup {0}
    BY <1>2 DEF Shapes, TensorsAt, KernelNames, PlanNames, PoolStages, PoolBefore
  <2>3. tensors[t].result = tensors[t]["result"] /\ tensors[t]["result"] \in Blocks
    BY <2>2
  <2>4. kernel.writes \in SUBSET Blocks /\ WritesOwn(t, kernel)
    BY <1>2, <2>1, <2>2, <2>3 DEF WritesOwn, Own
  <2>5. DOMAIN kernel.reads = {} /\ kernel.reads \in [{} -> Contents]
    BY <2>1
  <2>6. kernel \in Kernels
    <3>1. Call(t) \in Calls
      BY CallIs
    <3>2. {} \in SUBSET Blocks
      OBVIOUS
    <3>3. kernel.reads \in UNION {[D -> Contents] : D \in SUBSET Blocks}
      BY <2>5, <3>2
    <3> QED BY <2>1, <2>4, <3>1, <3>3 DEF Kernels
  <2> QED BY <1>2, <2>1, <2>4, <2>5, <2>6 DEF Fits
<1> QED BY <1>1, <1>2

------------------------------------------------------------------------------
\* Types are kept.

\* A thread goes to its next stage.
LEMMA ThreadShapes ==
    ASSUME Shapes, NEW t \in Threads, NEW next \in Stages, NEW f \in [TensorsAt(next) -> Blocks],
           stage' = [stage EXCEPT ![t] = next], tensors' = [tensors EXCEPT ![t] = f],
           UNCHANGED scenario,
           calls' \in [Threads -> Nat], \A u \in Threads : calls'[u] <= Len(scenario.threads[u].operators),
           kept' \in [Threads -> [lru : Results, pooled : Results]],
           pool' \in [Blocks -> Streams \cup {"device"}], UNCHANGED <<memory, launched, running>>,
           tasks' \in [Streams -> Seq(Kernels)], failed' \subseteq Calls /\ IsFiniteSet(failed'),
           workspace' \in [Threads -> Blocks \cup {0}]
    PROVE  Shapes'
<1>1. stage' \in [Threads -> Stages]
  BY DEF Shapes
<1>2. tensors' = [u \in Threads |-> tensors'[u]]
  BY DEF Shapes
<1>3. ASSUME NEW u \in Threads PROVE tensors'[u] \in [TensorsAt(stage'[u]) -> Blocks]
  <2>1. stage'[u] = (IF u = t THEN next ELSE stage[u]) /\ tensors'[u] = IF u = t THEN f ELSE tensors[u]
    BY DEF Shapes
  <2>2. tensors[u] \in [TensorsAt(stage[u]) -> Blocks]
    BY DEF Shapes
  <2> QED BY <2>1, <2>2
<1>4. /\ scenario' \in Scenarios /\ memory' \in [Blocks -> Contents]
      /\ launched' \in [Streams -> Seq(Kernels)] /\ running' \in [Streams -> Kernels \cup {None}]
      /\ \A u \in Threads : calls'[u] <= Len(scenario'.threads[u].operators)
  BY DEF Shapes
<1> QED BY <1>1, <1>2, <1>3, <1>4 DEF Shapes

\* What the other variables are.
OtherShapes ==
    /\ calls \in [Threads -> Nat] /\ \A u \in Threads : calls[u] <= Len(scenario.threads[u].operators)
    /\ kept \in [Threads -> [lru : Results, pooled : Results]]
    /\ pool \in [Blocks -> Streams \cup {"device"}]
    /\ tasks \in [Streams -> Seq(Kernels)]
    /\ failed \subseteq Calls /\ IsFiniteSet(failed)
    /\ workspace \in [Threads -> Blocks \cup {0}]
    /\ stage \in [Threads -> Stages] /\ tensors = [u \in Threads |-> tensors[u]]

LEMMA OthersAre == Shapes => OtherShapes
BY DEF Shapes, OtherShapes

LEMMA StreamIs == ASSUME Shapes, NEW t \in Threads PROVE StreamOf(t) \in Streams
BY RuntimeAssumption DEF Shapes, StreamOf

LEMMA FreeBlock ==
    ASSUME Shapes, NEW t \in Threads, NEW b \in Available(t), Take(t, b)
    PROVE  /\ b \in Blocks /\ b \notin Held /\ pool[b] \in {StreamOf(t), "device"}
           /\ pool' \in [Blocks -> Streams \cup {"device"}]
           /\ pool'[b] = StreamOf(t) /\ \A x \in Blocks \ {b} : pool'[x] = pool[x]
<1>1. b \in Blocks /\ b \notin Held /\ pool[b] \in {StreamOf(t), "device"}
  BY DEF Available
<1> QED BY <1>1, StreamIs DEF Take, Shapes

LEMMA HostShapes ==
    ASSUME Shapes, NEW t \in Threads, KeptWell(t), HostStep(t)
    PROVE  Shapes'
<1>0. OtherShapes /\ tensors[t] \in [TensorsAt(stage[t]) -> Blocks] /\ stage[t] \in Stages
  BY OthersAre DEF Shapes
<1>1. tensors = [tensors EXCEPT ![t] = tensors[t]]
  BY <1>0 DEF OtherShapes
<1>2. CASE NewCall(t)
  <2>1. PICK first \in {"newLru", "result"} : GoTo(t, first)
    BY <1>2 DEF NewCall
  <2>2. first \in Stages /\ TensorsAt(first) = {} /\ TensorsAt(stage[t]) = {}
    BY <1>2, TensorsAtIs DEF NewCall, Stages, Before, PlanBefore, PlanNames, PoolBefore
  <2>3. calls' \in [Threads -> Nat] /\ \A u \in Threads : calls'[u] <= Len(scenario.threads[u].operators)
    <3>1. calls[t] + 1 <= Len(scenario.threads[t].operators)
      <4>1. Len(scenario.threads[t].operators) \in Nat
        BY RuntimeAssumption, LenProperties DEF Shapes
      <4> QED BY <1>0, <1>2, <4>1 DEF NewCall, OtherShapes
    <3> QED BY <1>0, <1>2, <3>1 DEF NewCall, OtherShapes
  <2>4. workspace' \in [Threads -> Blocks \cup {0}]
    BY <1>0, <1>2 DEF NewCall, OtherShapes
  <2>5. tensors[t] \in [TensorsAt(first) -> Blocks] /\ tensors' = [tensors EXCEPT ![t] = tensors[t]]
    BY <1>0, <1>1, <1>2, <2>2 DEF NewCall
  <2>6. stage' = [stage EXCEPT ![t] = first] /\ UNCHANGED <<scenario, kept, pool, memory, queueVars, failed>>
    BY <1>2, <2>1 DEF NewCall, GoTo
  <2> QED BY <1>0, <2>2, <2>3, <2>4, <2>5, <2>6, ThreadShapes DEF OtherShapes, queueVars
<1>3. CASE Error(t)
  <2>1. TensorsAt("caller") = {} /\ "caller" \in Stages
    BY TensorsAtIs DEF Stages
  <2>2. <<>> \in [{} -> Blocks]
    OBVIOUS
  <2>3. failed' \subseteq Calls /\ IsFiniteSet(failed')
    BY <1>0, <1>3, CallIs, FS_AddElement DEF Error, Raise, OtherShapes
  <2> QED BY <1>0, <1>3, <2>1, <2>2, <2>3, ThreadShapes DEF Error, Raise, GoTo, OtherShapes, queueVars
<1>4. CASE NewResult(t)
  <2>1. TensorsAt("caller") = {} /\ "caller" \in Stages
    BY TensorsAtIs DEF Stages
  <2>2. <<>> \in [{} -> Blocks]
    OBVIOUS
  <2>3. kept' \in [Threads -> [lru : Results, pooled : Results]]
    <3>1. ASSUME NEW b \in Blocks, NEW from \in SUBSET Calls PROVE Result(b, Call(t), from) \in Results
      BY CallIs DEF Result, Results
    <3>2. CASE stage[t] = "return" /\ Return(t, "newLru", "lru", kept[t].lru.from)
      <4>1. tensors[t]["newLru"] \in Blocks
        BY <1>0, <3>2, TensorsAtIs DEF PlanNames
      <4>2. kept[t].lru.from \in SUBSET Calls
        BY <1>0 DEF OtherShapes, Results
      <4> QED BY <1>0, <3>1, <3>2, <4>1, <4>2 DEF Return, OtherShapes
    <3>3. CASE stage[t] = "unInit" /\ Return(t, "result", "pooled", {})
      <4>1. tensors[t]["result"] \in Blocks
        BY <1>0, <3>3, TensorsAtIs DEF PoolStages
      <4>2. {} \in SUBSET Calls
        OBVIOUS
      <4> QED BY <1>0, <3>1, <3>3, <4>1, <4>2 DEF Return, OtherShapes
    <3> QED BY <1>4, <3>2, <3>3 DEF NewResult
  <2>4. /\ GoTo(t, "caller") /\ tensors' = [tensors EXCEPT ![t] = <<>>]
        /\ UNCHANGED <<scenario, calls, pool, memory, queueVars, failed, workspace>>
    BY <1>4 DEF NewResult, Return
  <2> QED BY <1>0, <2>1, <2>2, <2>3, <2>4, ThreadShapes DEF GoTo, OtherShapes, queueVars
<1>5. CASE Proceed(t)
  <2>1. PICK next \in {"convert", "size", "submit", "workspace"} : GoTo(t, next)
    BY <1>5 DEF Proceed
  <2>2. stage[t] \in {"resolve", "convert", "size"}
    BY <1>5 DEF Proceed
  <2>3. next \in Stages /\ TensorsAt(next) = {"result"} /\ TensorsAt(stage[t]) = {"result"}
    BY <2>2, TensorsAtIs DEF Stages, Before, PoolBefore, PoolStages
  <2> QED BY <1>0, <1>1, <1>5, <2>1, <2>3, ThreadShapes DEF Proceed, GoTo, OtherShapes, queueVars
<1>6. CASE NewWorkspace(t)
  <2>1. PICK b \in Available(t) : Take(t, b) /\ workspace' = [workspace EXCEPT ![t] = b]
    BY <1>6 DEF NewWorkspace
  <2>2. b \in Blocks /\ pool' \in [Blocks -> Streams \cup {"device"}]
    BY <2>1, FreeBlock
  <2>3. "submit" \in Stages /\ TensorsAt("submit") = {"result"} /\ TensorsAt(stage[t]) = {"result"}
    BY <1>6, TensorsAtIs DEF NewWorkspace, Stages, Before, PoolBefore, PoolStages
  <2>4. workspace' \in [Threads -> Blocks \cup {0}]
    BY <1>0, <2>1, <2>2 DEF OtherShapes
  <2> QED BY <1>0, <1>1, <1>6, <2>2, <2>3, <2>4, ThreadShapes DEF NewWorkspace, GoTo, OtherShapes, queueVars
<1>7. ASSUME NEW name, NEW next, NewTensor(t, name, next) PROVE Shapes'
  <2>1. PICK b \in Available(t) : tensors' = [tensors EXCEPT ![t] = Extended(tensors[t], name, b)] /\ Take(t, b)
    BY <1>0, <1>7 DEF NewTensor, Allocate, OtherShapes
  <2>2. b \in Blocks /\ pool' \in [Blocks -> Streams \cup {"device"}]
    BY <2>1, FreeBlock
  <2>3. next \in Stages /\ TensorsAt(next) = TensorsAt(stage[t]) \cup {name}
    BY <1>7, TensorsAtIs DEF NewTensor, Stages, Before, PlanBefore, PlanNames, PoolBefore, PoolStages, KernelNames
  <2>4. Extended(tensors[t], name, b) \in [TensorsAt(next) -> Blocks]
    BY <1>0, <2>2, <2>3 DEF Extended
  <2> QED BY <1>0, <1>7, <2>1, <2>2, <2>3, <2>4, ThreadShapes DEF NewTensor, Allocate, GoTo, OtherShapes, queueVars
<1>8. ASSUME NEW kernel, NEW next, NewKernel(t, kernel, next) PROVE Shapes'
  <2>1. kernel \in Kernels
    BY <1>8, KernelFits DEF Fits
  <2>2. tasks' \in [Streams -> Seq(Kernels)]
    BY <1>8, <2>1, StreamIs, WhenSubmitted DEF NewKernel
  <2>3. next \in Stages /\ TensorsAt(next) = TensorsAt(stage[t])
    BY <1>8, TensorsAtIs DEF NewKernel, Stages, PlanBehind, PoolStages, PoolBefore, KernelNames
  <2> QED BY <1>0, <1>1, <1>8, <2>2, <2>3, ThreadShapes DEF NewKernel, GoTo, OtherShapes
<1> QED BY <1>2, <1>3, <1>4, <1>5, <1>6, <1>7, <1>8 DEF HostStep

LEMMA QueueShapes ==
    ASSUME Shapes, NEW s \in Streams, QueueStep(s)
    PROVE  Shapes'
<1>1. CASE Passed(s)
  <2>1. tasks' \in [Streams -> Seq(Kernels)] /\ launched' \in [Streams -> Seq(Kernels)]
    BY <1>1, WhenLaunched DEF Passed
  <2> QED BY <1>1, <2>1 DEF Passed, Shapes, hostVars
<1>2. CASE Lost(s)
  <2>1. Head(tasks[s]).call \in failed'
    BY <1>2 DEF Lost
  <2>2. tasks' \in [Streams -> Seq(Kernels)] /\ Head(tasks[s]) \in InLine(s)
    BY <1>2, <2>1, WhenLost DEF Lost
  <2>3. Head(tasks[s]).call \in Calls
    BY <2>2, InLineIs DEF Kernels
  <2>4. failed' \subseteq Calls /\ IsFiniteSet(failed')
    BY <1>2, <2>3, FS_AddElement DEF Lost, Shapes
  <2> QED BY <1>2, <2>2, <2>4 DEF Lost, Shapes, hostVars
<1>3. CASE Begin(s) /\ UNCHANGED workspace
  <2>1. launched' \in [Streams -> Seq(Kernels)] /\ running' \in [Streams -> Kernels \cup {None}]
    BY <1>3, WhenBegun
  <2> QED BY <1>3, <2>1 DEF Begin, Shapes, hostVars
<1>4. CASE End(s) /\ UNCHANGED workspace
  <2>1. running' \in [Streams -> Kernels \cup {None}] /\ running[s] \in Kernels
    BY <1>4, WhenEnded DEF EndedInLine
  <2>2. memory' \in [Blocks -> Contents]
    <3>1. memory' = [b \in Blocks |->
                         IF b \notin running[s].writes THEN memory[b]
                         ELSE Written(running[s].call,
                                  {running[s].kernel} \cup IF memory[b].call = running[s].call
                                                           THEN memory[b].by ELSE {})]
      BY <1>4 DEF End
    <3>2. memory \in [Blocks -> Contents]
      BY DEF Shapes
    <3>3. ASSUME NEW b \in Blocks, b \in running[s].writes PROVE memory'[b] \in Contents
      <4>1. memory[b].by \in SUBSET (KernelNames \cup {"aclnnAvgPool3d"})
        BY <3>2 DEF Contents
      <4>2. running[s].call \in Calls /\ running[s].kernel \in KernelNames \cup {"aclnnAvgPool3d"}
        BY <2>1 DEF Kernels
      <4> DEFINE by == {running[s].kernel} \cup IF memory[b].call = running[s].call THEN memory[b].by ELSE {}
      <4>3. by \in SUBSET (KernelNames \cup {"aclnnAvgPool3d"})
        BY <4>1, <4>2
      <4>4. memory'[b] = Written(running[s].call, by)
        BY <3>1, <3>3
      <4> QED BY <4>2, <4>3, <4>4, WrittenIs
    <3>4. ASSUME NEW b \in Blocks, b \notin running[s].writes PROVE memory'[b] \in Contents
      BY <3>1, <3>2, <3>4
    <3> QED BY <3>1, <3>3, <3>4
  <2> QED BY <1>4, <2>1, <2>2 DEF End, Shapes, hostVars
<1> QED BY <1>1, <1>2, <1>3, <1>4 DEF QueueStep

LEMMA ShapesNext ==
    ASSUME Shapes, BlocksInHand, [Next]_vars
    PROVE  Shapes'
<1>1. ASSUME NEW t \in Threads, HostStep(t) PROVE Shapes'
  BY <1>1, HostShapes DEF BlocksInHand
<1>2. ASSUME NEW s \in Streams, QueueStep(s) PROVE Shapes'
  BY <1>2, QueueShapes
<1>3. CASE UNCHANGED vars
  BY <1>3 DEF vars, runtimeVars, hostVars, queueVars, aclnnVars, Shapes
<1> QED BY <1>1, <1>2, <1>3, StepKinds

------------------------------------------------------------------------------
\* Lines, step by step.

LEMMA HostLines ==
    ASSUME Shapes, BlocksInHand, NEW t \in Threads, HostStep(t)
    PROVE  \/ LinesStay
           \/ \E kernel, next : /\ NewKernel(t, kernel, next) /\ Fits(t, kernel)
                                /\ NewInLine(StreamOf(t), kernel) /\ OtherLinesStay(StreamOf(t))
<1>1. ASSUME NEW kernel, NEW next, NewKernel(t, kernel, next)
      PROVE  Fits(t, kernel) /\ NewInLine(StreamOf(t), kernel) /\ OtherLinesStay(StreamOf(t))
  <2>1. Fits(t, kernel)
    BY <1>1, KernelFits DEF BlocksInHand
  <2> QED BY <1>1, <2>1, StreamIs, WhenSubmitted DEF Fits, NewKernel
<1>2. ASSUME ~ \E kernel, next : NewKernel(t, kernel, next) PROVE UNCHANGED queueVars
  BY <1>2 DEF HostStep, NewCall, Error, Raise, NewResult, Return, Proceed, NewWorkspace, NewTensor, Allocate
<1> QED BY <1>1, <1>2, WhenQueuesStay

LEMMA QueueLines ==
    ASSUME Shapes, NEW s \in Streams, QueueStep(s)
    PROVE  /\ UNCHANGED <<scenario, calls, stage, tensors, kept, pool, workspace>>
           /\ OtherLinesStay(s)
           /\ \A r \in Streams : NothingNew(r)
           /\ \/ LineStays(s) /\ UNCHANGED <<memory, failed>>
              \/ (\E p \in Nat : LostFromLine(s, p)) /\ Lost(s) /\ Head(tasks[s]) \in InLine(s)
              \/ EndedInLine(s) /\ End(s)
<1>1. UNCHANGED <<scenario, calls, stage, tensors, kept, pool, workspace>>
  BY DEF QueueStep, Passed, Lost, Begin, End, hostVars
<1>2. /\ OtherLinesStay(s)
      /\ \/ LineStays(s) /\ UNCHANGED <<memory, failed>>
         \/ (\E p \in Nat : LostFromLine(s, p)) /\ Lost(s) /\ Head(tasks[s]) \in InLine(s)
         \/ EndedInLine(s) /\ End(s)
  <2>1. CASE Passed(s)
    BY <2>1, WhenLaunched DEF Passed, LinesStay, OtherLinesStay
  <2>2. CASE Lost(s)
    <3>1. Head(tasks[s]).call \in failed'
      BY <2>2 DEF Lost
    <3> QED BY <2>2, <3>1, WhenLost DEF Lost
  <2>3. CASE Begin(s)
    BY <2>3, WhenBegun DEF Begin, LinesStay, OtherLinesStay
  <2>4. CASE End(s)
    BY <2>4, WhenEnded
  <2> QED BY <2>1, <2>2, <2>3, <2>4 DEF QueueStep
<1>3. ASSUME NEW r \in Streams PROVE NothingNew(r)
  BY <1>2, NewOnlyWhenSubmitted DEF OtherLinesStay
<1> QED BY <1>1, <1>2, <1>3

------------------------------------------------------------------------------
\* Calls and pools, step by step.

LEMMA OthersUnmoved ==
    ASSUME Shapes, NEW t \in Threads, HostStep(t)
    PROVE  /\ \A u \in Threads \ {t} : /\ stage'[u] = stage[u] /\ calls'[u] = calls[u]
                                       /\ tensors'[u] = tensors[u] /\ kept'[u] = kept[u]
                                       /\ workspace'[u] = workspace[u]
           /\ UNCHANGED <<scenario, memory>>
<1>1. OtherShapes
  BY OthersAre
<1>2. CASE NewCall(t)
  BY <1>1, <1>2 DEF NewCall, GoTo, OtherShapes
<1>3. CASE Error(t)
  BY <1>1, <1>3 DEF Error, Raise, GoTo, OtherShapes
<1>4. CASE NewResult(t)
  BY <1>1, <1>4 DEF NewResult, Return, GoTo, OtherShapes
<1>5. CASE Proceed(t)
  BY <1>1, <1>5 DEF Proceed, GoTo, OtherShapes
<1>6. CASE NewWorkspace(t)
  BY <1>1, <1>6 DEF NewWorkspace, GoTo, OtherShapes
<1>7. ASSUME NEW name, NEW next, NewTensor(t, name, next)
      PROVE  /\ \A u \in Threads \ {t} : /\ stage'[u] = stage[u] /\ calls'[u] = calls[u]
                                         /\ tensors'[u] = tensors[u] /\ kept'[u] = kept[u]
                                         /\ workspace'[u] = workspace[u]
             /\ UNCHANGED <<scenario, memory>>
  BY <1>1, <1>7 DEF NewTensor, Allocate, GoTo, OtherShapes
<1>8. ASSUME NEW kernel, NEW next, NewKernel(t, kernel, next)
      PROVE  /\ \A u \in Threads \ {t} : /\ stage'[u] = stage[u] /\ calls'[u] = calls[u]
                                         /\ tensors'[u] = tensors[u] /\ kept'[u] = kept[u]
                                         /\ workspace'[u] = workspace[u]
             /\ UNCHANGED <<scenario, memory>>
  BY <1>1, <1>8 DEF NewKernel, GoTo, OtherShapes
<1> QED BY <1>2, <1>3, <1>4, <1>5, <1>6, <1>7, <1>8 DEF HostStep

\* Where the thread itself goes.
LEMMA StageIs ==
    ASSUME Shapes, NEW t \in Threads
    PROVE  /\ NewCall(t) => /\ stage[t] = "caller" /\ stage'[t] \in {"newLru", "result"}
                            /\ calls'[t] = calls[t] + 1
                            /\ stage'[t] = "result" => scenario.threads[t].operators[calls[t] + 1] = "avg_pool3d"
           /\ Error(t) => stage[t] \in Before /\ stage'[t] = "caller" /\ calls'[t] = calls[t]
           /\ NewResult(t) => stage[t] \in {"return", "unInit"} /\ stage'[t] = "caller" /\ calls'[t] = calls[t]
           /\ Proceed(t) => /\ calls'[t] = calls[t] /\ stage[t] \in {"resolve", "convert", "size"}
                            /\ stage'[t] \in {"convert", "size", "submit", "workspace"}
           /\ NewWorkspace(t) => stage[t] = "workspace" /\ stage'[t] = "submit" /\ calls'[t] = calls[t]
           /\ \A name, next : NewTensor(t, name, next) =>
                 /\ calls'[t] = calls[t] /\ stage'[t] = next
                 /\ <<stage[t], next>> \in {<<"newLru", "hitWorkspace">>, <<"hitWorkspace", "candidateWorkspace">>,
                        <<"candidateWorkspace", "keepWorkspace">>, <<"keepWorkspace", "hit_local">>,
                        <<"result", "resolve">>}
           /\ \A kernel, next : NewKernel(t, kernel, next) =>
                 /\ calls'[t] = calls[t] /\ stage'[t] = next
                 /\ <<stage[t], next>> \in {<<"hit_local", "candidate_local">>, <<"candidate_local", "materialize">>,
                        <<"materialize", "keep_scan_write">>, <<"keep_scan_write", "return">>,
                        <<"submit", "unInit">>}
<1>1. OtherShapes
  BY OthersAre
<1>2. ASSUME NewCall(t)
      PROVE  /\ stage[t] = "caller" /\ stage'[t] \in {"newLru", "result"}
             /\ calls'[t] = calls[t] + 1
             /\ stage'[t] = "result" => scenario.threads[t].operators[calls[t] + 1] = "avg_pool3d"
  BY <1>1, <1>2 DEF NewCall, GoTo, OtherShapes
<1>3. Error(t) => stage[t] \in Before /\ stage'[t] = "caller" /\ calls'[t] = calls[t]
  BY <1>1 DEF Error, Raise, GoTo, OtherShapes
<1>4. NewResult(t) => stage[t] \in {"return", "unInit"} /\ stage'[t] = "caller" /\ calls'[t] = calls[t]
  BY <1>1 DEF NewResult, Return, GoTo, OtherShapes
<1>5. ASSUME Proceed(t)
      PROVE  /\ calls'[t] = calls[t] /\ stage[t] \in {"resolve", "convert", "size"}
             /\ stage'[t] \in {"convert", "size", "submit", "workspace"}
  BY <1>1, <1>5 DEF Proceed, GoTo, OtherShapes
<1>6. NewWorkspace(t) => stage[t] = "workspace" /\ stage'[t] = "submit" /\ calls'[t] = calls[t]
  BY <1>1 DEF NewWorkspace, GoTo, OtherShapes
<1>7. ASSUME NEW name, NEW next, NewTensor(t, name, next)
      PROVE  /\ calls'[t] = calls[t] /\ stage'[t] = next
             /\ <<stage[t], next>> \in {<<"newLru", "hitWorkspace">>, <<"hitWorkspace", "candidateWorkspace">>,
                    <<"candidateWorkspace", "keepWorkspace">>, <<"keepWorkspace", "hit_local">>,
                    <<"result", "resolve">>}
  BY <1>1, <1>7 DEF NewTensor, Allocate, GoTo, OtherShapes
<1>8. ASSUME NEW kernel, NEW next, NewKernel(t, kernel, next)
      PROVE  /\ calls'[t] = calls[t] /\ stage'[t] = next
             /\ <<stage[t], next>> \in {<<"hit_local", "candidate_local">>, <<"candidate_local", "materialize">>,
                    <<"materialize", "keep_scan_write">>, <<"keep_scan_write", "return">>,
                    <<"submit", "unInit">>}
  BY <1>1, <1>8 DEF NewKernel, GoTo, OtherShapes
<1> QED BY <1>2, <1>3, <1>4, <1>5, <1>6, <1>7, <1>8

\* A call that is to come was to come.
LEMMA ToComeBefore ==
    ASSUME Shapes, NEW t \in Threads, HostStep(t), NEW u \in Threads, NEW n \in Nat, ToCome(u, n)'
    PROVE  ToCome(u, n)
<1>1. calls[u] \in Nat
  BY DEF Shapes
<1>2. CASE u # t
  BY <1>2, OthersUnmoved DEF ToCome
<1>3. CASE u = t
  <2> USE DEF Before, PlanBefore, PoolBefore, PlanNames
  <2>1. CASE NewCall(t)
    BY <1>1, <1>3, <2>1, StageIs DEF ToCome
  <2>2. CASE Error(t) \/ NewResult(t)
    BY <1>1, <1>3, <2>2, StageIs DEF ToCome
  <2>3. CASE Proceed(t) \/ NewWorkspace(t)
    BY <1>1, <1>3, <2>3, StageIs DEF ToCome
  <2>4. CASE \E name, next : NewTensor(t, name, next)
    BY <1>1, <1>3, <2>4, StageIs DEF ToCome
  <2>5. CASE \E kernel, next : NewKernel(t, kernel, next)
    BY <1>1, <1>3, <2>5, StageIs DEF ToCome
  <2> QED BY <2>1, <2>2, <2>3, <2>4, <2>5 DEF HostStep
<1> QED BY <1>2, <1>3

\* A call of which something is heard is not to come any more.
LEMMA HeardOf ==
    ASSUME Shapes, NEW t \in Threads, Error(t) \/ \E kernel, next : NewKernel(t, kernel, next),
           NEW u \in Threads, NEW n \in Nat, ToCome(u, n)'
    PROVE  <<u, n>> # Call(t)
<1>1. calls[t] \in Nat
  BY DEF Shapes
<1>2. stage'[t] \notin Before /\ calls'[t] = calls[t]
  BY StageIs DEF Before, PlanBefore, PoolBefore, PlanNames
<1>3. SUFFICES ASSUME u = t, n = calls[t] PROVE FALSE
  BY DEF Call
<1> QED BY <1>1, <1>2, <1>3 DEF ToCome

LEMMA InTurnKept ==
    ASSUME Shapes, NEW t \in Threads, HostStep(t), NEW u \in Threads, InTurn(u)
    PROVE  InTurn(u)'
<1>1. calls[u] \in Nat /\ scenario' = scenario
  BY OthersUnmoved DEF Shapes
<1>2. CASE u # t
  BY <1>1, <1>2, OthersUnmoved DEF InTurn, Operator, Call
<1>3. CASE u = t
  <2> USE DEF Before, PlanBefore, PoolBefore, PlanNames, PoolStages
  <2>1. CASE NewCall(t)
    BY <1>1, <1>3, <2>1, StageIs DEF InTurn, Operator, Call
  <2>2. CASE Error(t) \/ NewResult(t)
    BY <1>1, <1>3, <2>2, StageIs DEF InTurn, Operator, Call
  <2>3. CASE Proceed(t) \/ NewWorkspace(t)
    BY <1>1, <1>3, <2>3, StageIs DEF InTurn, Operator, Call
  <2>4. CASE \E name, next : NewTensor(t, name, next)
    BY <1>1, <1>3, <2>4, StageIs DEF InTurn, Operator, Call
  <2>5. CASE \E kernel, next : NewKernel(t, kernel, next)
    BY <1>1, <1>3, <2>5, StageIs DEF InTurn, Operator, Call
  <2> QED BY <2>1, <2>2, <2>3, <2>4, <2>5 DEF HostStep
<1> QED BY <1>2, <1>3

\* A block stays with its stream.
LEMMA PoolKept ==
    ASSUME Shapes, NEW t \in Threads, HostStep(t), NEW b \in Blocks, pool[b] \in Streams
    PROVE  pool'[b] = pool[b]
<1>1. ASSUME NEW x \in Available(t), Take(t, x) PROVE pool'[b] = pool[b]
  BY <1>1, FreeBlock, RuntimeAssumption
<1>2. CASE NewCall(t) \/ Error(t) \/ NewResult(t) \/ Proceed(t)
  BY <1>2 DEF NewCall, Error, Raise, NewResult, Return, Proceed
<1>3. CASE NewWorkspace(t)
  BY <1>1, <1>3 DEF NewWorkspace
<1>4. CASE \E name, next : NewTensor(t, name, next)
  BY <1>1, <1>4 DEF NewTensor, Allocate
<1>5. CASE \E kernel, next : NewKernel(t, kernel, next)
  BY <1>5 DEF NewKernel
<1> QED BY <1>2, <1>3, <1>4, <1>5 DEF HostStep

LEMMA HostCallsInTurn ==
    ASSUME Shapes, BlocksInHand, CallsInTurn, NEW t \in Threads, HostStep(t)
    PROVE  CallsInTurn'
<1>1. \A u \in Threads : InTurn(u)'
  BY InTurnKept DEF CallsInTurn
<1>2. ASSUME NEW u \in Threads, NEW n \in Nat, ToCome(u, n)' PROVE Unheard(<<u, n>>)'
  <2>1. Unheard(<<u, n>>)
    BY <1>2, ToComeBefore DEF CallsInTurn
  <2>2. <<u, n>> \notin failed'
    <3>1. CASE Error(t)
      BY <1>2, <2>1, <3>1, HeardOf DEF Error, Raise, Unheard
    <3>2. CASE ~ Error(t)
      <4>1. failed' = failed
        BY <3>2 DEF HostStep, NewCall, NewResult, Return, Proceed, NewWorkspace, NewTensor, Allocate, NewKernel
      <4> QED BY <2>1, <4>1 DEF Unheard
    <3> QED BY <3>1, <3>2
  <2>3. \A b \in Blocks : memory'[b].call # <<u, n>>
    BY <2>1, OthersUnmoved DEF Unheard
  <2>4. ASSUME NEW s \in Streams, NEW kernel \in InLine(s)' PROVE kernel.call # <<u, n>>
    <3>1. CASE LinesStay
      BY <2>1, <2>4, <3>1 DEF LinesStay, LineStays, InLine, Unheard
    <3>2. ASSUME NEW k, NEW next, NewKernel(t, k, next), Fits(t, k), NewInLine(StreamOf(t), k),
                 OtherLinesStay(StreamOf(t))
          PROVE  kernel.call # <<u, n>>
      <4>1. k.call # <<u, n>>
        BY <1>2, <3>2, HeardOf DEF Fits
      <4>2. kernel \in InLine(s) \/ kernel = k
        BY <2>4, <3>2, NewOnlyWhenSubmitted, StreamIs DEF OtherLinesStay, NothingNew
      <4> QED BY <2>1, <4>1, <4>2 DEF Unheard
    <3> QED BY <3>1, <3>2, HostLines
  <2> QED BY <2>2, <2>3, <2>4 DEF Unheard
<1> QED BY <1>1, <1>2 DEF CallsInTurn

LEMMA QueueCallsInTurn ==
    ASSUME Shapes, CallsInTurn, NEW s \in Streams, QueueStep(s)
    PROVE  CallsInTurn'
<1>0. /\ UNCHANGED <<scenario, calls, stage>>
      /\ \A r \in Streams : NothingNew(r)
      /\ \/ UNCHANGED <<memory, failed>>
         \/ Lost(s) /\ Head(tasks[s]) \in InLine(s)
         \/ End(s) /\ running[s] \in InLine(s) /\ running[s] # None
  <2>1. End(s) => running[s] \in InLine(s) /\ running[s] # None
    BY InLineIs DEF End
  <2> QED BY <2>1, QueueLines
<1>1. \A u \in Threads : InTurn(u)'
  BY <1>0 DEF CallsInTurn, InTurn, Operator, Call
<1>2. ASSUME NEW u \in Threads, NEW n \in Nat, ToCome(u, n)' PROVE Unheard(<<u, n>>)'
  <2>1. Unheard(<<u, n>>)
    BY <1>0, <1>2 DEF CallsInTurn, ToCome
  <2>2. \A r \in Streams : \A kernel \in InLine(r)' : kernel.call # <<u, n>>
    BY <1>0, <2>1 DEF NothingNew, Unheard
  <2>3. CASE UNCHANGED <<memory, failed>>
    BY <2>1, <2>2, <2>3 DEF Unheard
  <2>4. CASE Lost(s) /\ Head(tasks[s]) \in InLine(s)
    BY <2>1, <2>2, <2>4 DEF Unheard, Lost
  <2>5. CASE End(s) /\ running[s] \in InLine(s) /\ running[s] # None
    <3>1. running[s].call # <<u, n>>
      BY <2>1, <2>5 DEF Unheard
    <3>2. ASSUME NEW b \in Blocks PROVE memory'[b].call \in {memory[b].call, running[s].call}
      BY <2>5 DEF End, Written
    <3>3. failed' = failed
      BY <2>5 DEF End
    <3> QED BY <2>1, <2>2, <3>1, <3>2, <3>3 DEF Unheard
  <2> QED BY <1>0, <2>3, <2>4, <2>5
<1> QED BY <1>1, <1>2 DEF CallsInTurn

\* A thread's own blocks are blocks of its stream.
LEMMA OwnBlocksAre ==
    ASSUME Shapes, BlocksInHand, NEW t \in Threads
    PROVE  /\ \A name \in TensorsAt(stage[t]) :
                 /\ name \in Names(t) /\ name \notin {"lru", "pooled"} /\ BlockAt(t, name) = tensors[t][name]
                 /\ tensors[t][name] \in Blocks /\ pool[tensors[t][name]] = StreamOf(t)
           /\ "lru" \in Names(t) /\ BlockAt(t, "lru") = kept[t].lru.block
           /\ kept[t].lru.block \in Blocks /\ pool[kept[t].lru.block] = StreamOf(t)
           /\ kept[t].pooled.block # 0 =>
                 /\ "pooled" \in Names(t) /\ BlockAt(t, "pooled") = kept[t].pooled.block
                 /\ kept[t].pooled.block \in Blocks /\ pool[kept[t].pooled.block] = StreamOf(t)
<1>1. \A name \in Names(t) : BlockAt(t, name) \in Blocks /\ pool[BlockAt(t, name)] = StreamOf(t)
  BY DEF BlocksInHand, OwnBlocks
<1>2. ASSUME NEW name \in TensorsAt(stage[t])
      PROVE  name \in Names(t) /\ name \notin {"lru", "pooled"} /\ BlockAt(t, name) = tensors[t][name]
  <2>1. name \in Names(t)
    BY DEF Names
  <2>2. name \notin {"lru", "pooled"}
    <3>1. stage[t] \in Stages
      BY DEF Shapes
    <3> QED BY <3>1, TensorsAtIs DEF Stages, Before, PlanBefore, PoolBefore, PlanBehind, PlanNames, PoolStages,
                                   KernelNames
  <2> QED BY <2>1, <2>2 DEF BlockAt
<1>3. "lru" \in Names(t) /\ BlockAt(t, "lru") = kept[t].lru.block
  BY DEF Names, BlockAt
<1>4. kept[t].pooled.block # 0 => "pooled" \in Names(t) /\ BlockAt(t, "pooled") = kept[t].pooled.block
  BY DEF Names, BlockAt
<1> QED BY <1>1, <1>2, <1>3, <1>4

\* A new kernel is of the thread's stream.
LEMMA NewKernelInOrder ==
    ASSUME Shapes, BlocksInHand, CallsInTurn, NEW t \in Threads, NEW kernel, Fits(t, kernel), stage[t] # "caller"
    PROVE  Made(StreamOf(t), kernel) /\ OnStream(StreamOf(t), kernel) /\ Expects(kernel)
<1>1. Made(StreamOf(t), kernel)
  <2>1. calls[t] \in Nat /\ calls[t] >= 1
    BY DEF Shapes, CallsInTurn, InTurn
  <2> QED BY <2>1 DEF Fits, Made, Call
<1>2. ASSUME NEW b \in kernel.writes PROVE pool[b] = StreamOf(t)
  BY OwnBlocksAre DEF Fits, WritesOwn, Own, BlocksInHand, OwnWorkspace
<1>3. ASSUME NEW b \in DOMAIN kernel.reads
      PROVE  pool[b] = StreamOf(t) /\ kernel.reads[b].call \in kernel.from /\ kernel.reads[b].by # {}
  <2>1. CASE ReadsLru(t, kernel, b)
    BY <2>1, OwnBlocksAre DEF ReadsLru, Written, WholePlan
  <2>2. CASE ReadsOwn(t, kernel, b)
    BY <2>2, OwnBlocksAre DEF ReadsOwn, Written
  <2> QED BY <2>1, <2>2 DEF Fits
<1> QED BY <1>1, <1>2, <1>3 DEF OnStream, Expects

LEMMA HostLinesInOrder ==
    ASSUME Shapes, BlocksInHand, CallsInTurn, LinesInOrder, NEW t \in Threads, HostStep(t)
    PROVE  LinesInOrder'
<1>1. ASSUME NEW s \in Streams, NEW kernel \in Kernels, Made(s, kernel), OnStream(s, kernel)
      PROVE  Made(s, kernel)' /\ OnStream(s, kernel)'
  <2>1. kernel.call[1] \in Threads /\ kernel.writes \subseteq Blocks /\ DOMAIN kernel.reads \subseteq Blocks
    BY DEF Kernels, Calls
  <2>2. scenario' = scenario
    BY OthersUnmoved
  <2>3. calls[kernel.call[1]] <= calls'[kernel.call[1]] /\ calls'[kernel.call[1]] \in Nat
    <3>1. calls \in [Threads -> Nat]
      BY DEF Shapes
    <3>2. calls' = calls \/ calls' = [calls EXCEPT ![t] = @ + 1]
      BY DEF HostStep, NewCall, Error, Raise, NewResult, Return, Proceed, NewWorkspace, NewTensor, Allocate, NewKernel
    <3> QED BY <2>1, <3>1, <3>2
  <2>4. calls[kernel.call[1]] \in Nat
    BY <2>1 DEF Shapes
  <2>5. Made(s, kernel)'
    BY <1>1, <2>2, <2>3, <2>4 DEF Made, StreamOf
  <2>6. OnStream(s, kernel)'
    BY <1>1, <2>1, PoolKept DEF OnStream
  <2> QED BY <2>5, <2>6
<1>2. ASSUME NEW s \in Streams, NEW kernel \in InLine(s)'
      PROVE  kernel \in Kernels /\ Made(s, kernel) /\ OnStream(s, kernel) /\ Expects(kernel)
  <2>1. CASE LinesStay
    BY <1>2, <2>1, InLineIs DEF LinesStay, LineStays, InLine, LinesInOrder
  <2>2. ASSUME NEW k, NEW next, NewKernel(t, k, next), Fits(t, k), NewInLine(StreamOf(t), k),
               OtherLinesStay(StreamOf(t))
        PROVE  kernel \in Kernels /\ Made(s, kernel) /\ OnStream(s, kernel) /\ Expects(kernel)
    <3>1. kernel \in InLine(s) \/ (s = StreamOf(t) /\ kernel = k)
      BY <1>2, <2>2, NewOnlyWhenSubmitted, StreamIs DEF OtherLinesStay, NothingNew
    <3>2. stage[t] # "caller"
      BY <2>2 DEF NewKernel
    <3> QED BY <2>2, <3>1, <3>2, InLineIs, NewKernelInOrder DEF LinesInOrder, Fits
  <2> QED BY <2>1, <2>2, HostLines
<1> QED BY <1>1, <1>2 DEF LinesInOrder, Expects

LEMMA QueueLinesInOrder ==
    ASSUME Shapes, LinesInOrder, NEW s \in Streams, QueueStep(s)
    PROVE  LinesInOrder'
<1>1. UNCHANGED <<scenario, calls, pool>> /\ \A r \in Streams : NothingNew(r)
  BY QueueLines
<1>2. ASSUME NEW r \in Streams, NEW kernel \in InLine(r)' PROVE (Made(r, kernel) /\ OnStream(r, kernel) /\ Expects(kernel))'
  <2>1. Made(r, kernel) /\ OnStream(r, kernel) /\ Expects(kernel)
    BY <1>1, <1>2 DEF NothingNew, LinesInOrder
  <2> QED BY <1>1, <2>1 DEF Made, StreamOf, OnStream, Expects
<1> QED BY <1>2 DEF LinesInOrder

------------------------------------------------------------------------------
\* Blocks, step by step.

\* A name stands for the block it stood for.
Stands(u, name) == name \in Names(u) /\ BlockAt(u, name)' = BlockAt(u, name)

\* A result is kept under a new name.
Moved(t, as, from) ==
    /\ as \in {"lru", "pooled"} /\ from \in Names(t) \ {"lru", "pooled"}
    /\ BlockAt(t, as)' = BlockAt(t, from)
    /\ \A name \in Names(t)' : name \in {"lru", "pooled"} /\ (name # as => Stands(t, name))

\* A name stands for a block that was free.
Added(t, new, b) ==
    /\ b \in Blocks /\ b \notin Held /\ pool'[b] = StreamOf(t)
    /\ BlockAt(t, new)' = b /\ \A name \in Names(t)' \ {new} : Stands(t, name)

LEMMA OthersStand ==
    ASSUME Shapes, NEW t \in Threads, HostStep(t), NEW u \in Threads, u # t
    PROVE  \A name \in Names(u)' : Stands(u, name)
BY OthersUnmoved DEF Stands, Names, BlockAt

\* How the names change if the thread keeps its tensors, or drops them.
LEMMA NamesStand ==
    ASSUME NEW t \in Threads, tensors'[t] = tensors[t] \/ TensorsAt(stage'[t]) = {},
           TensorsAt(stage'[t]) \subseteq TensorsAt(stage[t]), kept'[t] = kept[t]
    PROVE  \A name \in Names(t)' : Stands(t, name)
BY DEF Stands, Names, BlockAt

LEMMA TensorAdded ==
    ASSUME Shapes, NEW t \in Threads, NEW new, NEW next, NewTensor(t, new, next)
    PROVE  \E b : Added(t, new, b)
<1>0. OtherShapes
  BY OthersAre
<1>1. PICK b \in Available(t) : tensors' = [tensors EXCEPT ![t] = Extended(tensors[t], new, b)] /\ Take(t, b)
  BY <1>0 DEF NewTensor, Allocate, OtherShapes
<1>2. b \in Blocks /\ b \notin Held /\ pool'[b] = StreamOf(t)
  BY <1>1, FreeBlock
<1>3. TensorsAt(stage'[t]) = TensorsAt(stage[t]) \cup {new} /\ new \notin {"lru", "pooled"}
  <2>1. stage'[t] = next
    BY StageIs
  <2> QED BY <2>1, TensorsAtIs DEF NewTensor, PlanNames, PoolStages, PoolBefore, KernelNames
<1>4. tensors'[t] = Extended(tensors[t], new, b) /\ kept' = kept
  BY <1>0, <1>1 DEF OtherShapes, NewTensor, Allocate
<1>5. DOMAIN tensors[t] = TensorsAt(stage[t])
  BY DEF Shapes
<1>6. BlockAt(t, new)' = b
  BY <1>3, <1>4 DEF BlockAt, Extended
<1>7. \A name \in Names(t)' \ {new} : Stands(t, name)
  BY <1>3, <1>4, <1>5 DEF Names, Stands, BlockAt, Extended
<1> QED BY <1>2, <1>6, <1>7 DEF Added
LEMMA NewKernelStands ==
    ASSUME Shapes, NEW t \in Threads, NEW kernel, NEW next, NewKernel(t, kernel, next)
    PROVE  \A name \in Names(t)' : Stands(t, name)
<1>1. TensorsAt(stage'[t]) = TensorsAt(stage[t])
  BY StageIs, TensorsAtIs DEF PoolStages, PoolBefore, KernelNames
<1> QED BY <1>1, NamesStand DEF NewKernel

LEMMA HostNames ==
    ASSUME Shapes, BlocksInHand, NEW t \in Threads, HostStep(t)
    PROVE  \/ \A name \in Names(t)' : Stands(t, name)
           \/ NewResult(t) /\ \E as, from : Moved(t, as, from)
           \/ \E new, b, next : NewTensor(t, new, next) /\ Added(t, new, b)
<1>1. OtherShapes
  BY OthersAre
<1>2. CASE NewCall(t)
  <2>1. TensorsAt(stage'[t]) = {}
    BY <1>2, StageIs, TensorsAtIs
  <2> QED BY <1>2, <2>1, NamesStand DEF NewCall
<1>3. CASE Error(t)
  <2>1. TensorsAt(stage'[t]) = {} /\ kept' = kept
    BY <1>3, StageIs, TensorsAtIs DEF Error, Raise
  <2> QED BY <2>1, NamesStand
<1>4. CASE Proceed(t) \/ NewWorkspace(t)
  <2>1. TensorsAt(stage'[t]) = {"result"} /\ TensorsAt(stage[t]) = {"result"}
    BY <1>4, StageIs, TensorsAtIs DEF PoolStages, PoolBefore
  <2> QED BY <1>4, <2>1, NamesStand DEF Proceed, NewWorkspace
<1>5. ASSUME NEW kernel, NEW next, NewKernel(t, kernel, next) PROVE \A name \in Names(t)' : Stands(t, name)
  BY <1>5, NewKernelStands
<1>6. CASE NewResult(t)
  <2>1. TensorsAt(stage'[t]) = {}
    BY <1>6, StageIs, TensorsAtIs
  <2>2. \A name \in Names(t)' : name \in {"lru", "pooled"}
    BY <2>1 DEF Names
  <2>3. CASE stage[t] = "return" /\ Return(t, "newLru", "lru", kept[t].lru.from)
    <3>1. kept'[t].lru.block = tensors[t]["newLru"] /\ kept'[t].pooled = kept[t].pooled
      BY <1>1, <2>3 DEF Return, OtherShapes, Result
    <3>2. "newLru" \in Names(t) /\ "newLru" \notin {"lru", "pooled"} /\ BlockAt(t, "newLru") = tensors[t]["newLru"]
      <4>1. "newLru" \in TensorsAt(stage[t])
        BY <2>3, TensorsAtIs DEF PlanNames
      <4> QED BY <4>1 DEF Names, BlockAt
    <3>3. BlockAt(t, "lru")' = BlockAt(t, "newLru")
      BY <3>1, <3>2 DEF BlockAt
    <3>4. ASSUME NEW name \in Names(t)', name # "lru" PROVE Stands(t, name)
      <4>1. name = "pooled"
        BY <2>2, <3>4
      <4>2. kept'[t].pooled.block # 0
        BY <2>1, <3>4, <4>1 DEF Names
      <4>3. "pooled" \in Names(t)
        BY <3>1, <4>2 DEF Names
      <4> QED BY <3>1, <4>1, <4>3 DEF Stands, BlockAt
    <3>5. Moved(t, "lru", "newLru")
      BY <2>2, <3>2, <3>3, <3>4 DEF Moved
    <3> QED BY <1>6, <3>5
  <2>4. CASE stage[t] = "unInit" /\ Return(t, "result", "pooled", {})
    <3>1. kept'[t].pooled.block = tensors[t]["result"] /\ kept'[t].lru = kept[t].lru
      BY <1>1, <2>4 DEF Return, OtherShapes, Result
    <3>2. "result" \in Names(t) /\ "result" \notin {"lru", "pooled"} /\ BlockAt(t, "result") = tensors[t]["result"]
      <4>1. "result" \in TensorsAt(stage[t])
        BY <2>4, TensorsAtIs DEF PoolStages
      <4> QED BY <4>1 DEF Names, BlockAt
    <3>3. BlockAt(t, "pooled")' = BlockAt(t, "result")
      BY <3>1, <3>2 DEF BlockAt
    <3>4. \A name \in Names(t)' : name # "pooled" => Stands(t, name)
      BY <2>2, <3>1 DEF Names, Stands, BlockAt
    <3>5. Moved(t, "pooled", "result")
      BY <2>2, <3>2, <3>3, <3>4 DEF Moved
    <3> QED BY <1>6, <3>5
  <2> QED BY <1>6, <2>3, <2>4 DEF NewResult
<1>7. ASSUME NEW new, NEW next, NewTensor(t, new, next) PROVE \E b : Added(t, new, b)
  BY <1>7, TensorAdded
<1> QED BY <1>2, <1>3, <1>4, <1>5, <1>6, <1>7 DEF HostStep

LEMMA NamesHeld ==
    ASSUME Shapes, BlocksInHand, NEW t \in Threads, NEW name \in Names(t)
    PROVE  BlockAt(t, name) \in Held
<1>1. CASE name = "lru" \/ name = "pooled"
  BY <1>1 DEF BlockAt, Held
<1>2. CASE name \notin {"lru", "pooled"}
  <2>1. name \in TensorsAt(stage[t]) /\ DOMAIN tensors[t] = TensorsAt(stage[t])
    BY <1>2 DEF Names, Shapes
  <2> QED BY <1>2, <2>1 DEF BlockAt, Held
<1> QED BY <1>1, <1>2

LEMMA HostApart ==
    ASSUME Shapes, BlocksInHand, NEW t \in Threads, HostStep(t)
    PROVE  Apart'
<1> SUFFICES ASSUME NEW u \in Threads, NEW v \in Threads, NEW name \in Names(u)', NEW other \in Names(v)',
                    BlockAt(u, name)' = BlockAt(v, other)'
             PROVE  u = v /\ name = other
  BY DEF Apart
<1>1. ASSUME NEW a \in Names(u), NEW b \in Names(v), BlockAt(u, a) = BlockAt(v, b) PROVE u = v /\ a = b
  BY <1>1 DEF BlocksInHand, Apart
<1>2. (u # t => Stands(u, name)) /\ (v # t => Stands(v, other))
  BY OthersStand
<1>3. CASE \A a \in Names(t)' : Stands(t, a)
  BY <1>1, <1>2, <1>3 DEF Stands
<1>4. ASSUME NEW as, NEW from, Moved(t, as, from) PROVE u = v /\ name = other
  <2>1. CASE u = t /\ name = as
    BY <1>1, <1>2, <1>4, <2>1 DEF Moved, Stands
  <2>2. CASE v = t /\ other = as
    BY <1>1, <1>2, <1>4, <2>2 DEF Moved, Stands
  <2>3. CASE ~ (u = t /\ name = as) /\ ~ (v = t /\ other = as)
    BY <1>1, <1>2, <1>4, <2>3 DEF Moved, Stands
  <2> QED BY <2>1, <2>2, <2>3
<1>5. ASSUME NEW new, NEW b, Added(t, new, b) PROVE u = v /\ name = other
  <2>1. CASE (u = t /\ name = new) /\ (v = t /\ other = new)
    BY <2>1
  <2>2. CASE (u = t /\ name = new) /\ ~ (v = t /\ other = new)
    BY <1>2, <1>5, <2>2, NamesHeld DEF Added, Stands
  <2>3. CASE ~ (u = t /\ name = new) /\ (v = t /\ other = new)
    BY <1>2, <1>5, <2>3, NamesHeld DEF Added, Stands
  <2>4. CASE ~ (u = t /\ name = new) /\ ~ (v = t /\ other = new)
    BY <1>1, <1>2, <1>5, <2>4 DEF Added, Stands
  <2> QED BY <2>1, <2>2, <2>3, <2>4
<1> QED BY <1>3, <1>4, <1>5, HostNames

LEMMA HostOwnBlocks ==
    ASSUME Shapes, BlocksInHand, NEW t \in Threads, HostStep(t)
    PROVE  OwnBlocks'
<1> SUFFICES ASSUME NEW u \in Threads, NEW name \in Names(u)'
             PROVE  BlockAt(u, name)' \in Blocks /\ pool'[BlockAt(u, name)'] = StreamOf(u)'
  BY DEF OwnBlocks
<1>1. StreamOf(u)' = StreamOf(u) /\ StreamOf(u) \in Streams
  BY OthersUnmoved, StreamIs DEF StreamOf
<1>2. ASSUME NEW a \in Names(u), BlockAt(u, name)' = BlockAt(u, a)
      PROVE  BlockAt(u, name)' \in Blocks /\ pool'[BlockAt(u, name)'] = StreamOf(u)'
  <2>1. BlockAt(u, a) \in Blocks /\ pool[BlockAt(u, a)] = StreamOf(u)
    BY DEF BlocksInHand, OwnBlocks
  <2> QED BY <1>1, <1>2, <2>1, PoolKept
<1>3. CASE Stands(u, name)
  BY <1>2, <1>3 DEF Stands
<1>4. ASSUME u = t, NEW as, NEW from, Moved(t, as, from), ~ Stands(u, name)
      PROVE  BlockAt(u, name)' \in Blocks /\ pool'[BlockAt(u, name)'] = StreamOf(u)'
  BY <1>2, <1>4 DEF Moved
<1>5. ASSUME u = t, NEW new, NEW b, Added(t, new, b), ~ Stands(u, name)
      PROVE  BlockAt(u, name)' \in Blocks /\ pool'[BlockAt(u, name)'] = StreamOf(u)'
  BY <1>1, <1>5 DEF Added
<1> QED BY <1>3, <1>4, <1>5, OthersStand, HostNames

LEMMA HostWorkspace ==
    ASSUME Shapes, BlocksInHand, NEW t \in Threads, HostStep(t), NEW u \in Threads
    PROVE  OwnWorkspace(u)'
<1>0. OtherShapes /\ scenario' = scenario
  BY OthersAre, OthersUnmoved
<1>1. OwnWorkspace(u) /\ workspace[u] \in Blocks \cup {0} /\ StreamOf(u) \in Streams /\ StreamOf(u)' = StreamOf(u)
  BY <1>0, StreamIs DEF BlocksInHand, OtherShapes, StreamOf
<1>2. CASE u # t
  BY <1>1, <1>2, OthersUnmoved, PoolKept DEF OwnWorkspace
<1>3. CASE u = t
  <2> USE DEF PoolBefore
  <2>1. CASE NewCall(t)
    BY <1>3, <2>1, StageIs DEF OwnWorkspace, NewCall
  <2>2. CASE Error(t) \/ NewResult(t)
    BY <1>3, <2>2, StageIs DEF OwnWorkspace
  <2>3. CASE Proceed(t)
    BY <1>1, <1>3, <2>3, StageIs DEF OwnWorkspace, Proceed
  <2>4. CASE NewWorkspace(t)
    <3>1. PICK b \in Available(t) : Take(t, b) /\ workspace' = [workspace EXCEPT ![t] = b]
      BY <2>4 DEF NewWorkspace
    <3>2. workspace'[t] = b /\ pool'[b] = StreamOf(t)
      BY <1>0, <3>1, FreeBlock DEF OtherShapes
    <3> QED BY <1>1, <1>3, <2>4, <3>2, StageIs DEF OwnWorkspace
  <2>5. CASE \E name, next : NewTensor(t, name, next)
    BY <1>1, <1>3, <2>5, StageIs DEF OwnWorkspace, NewTensor
  <2>6. CASE \E kernel, next : NewKernel(t, kernel, next)
    BY <1>1, <1>3, <2>6, StageIs DEF OwnWorkspace
  <2> QED BY <2>1, <2>2, <2>3, <2>4, <2>5, <2>6 DEF HostStep
<1> QED BY <1>2, <1>3

LEMMA HostKeptWell ==
    ASSUME Shapes, BlocksInHand, NEW t \in Threads, HostStep(t), NEW u \in Threads
    PROVE  KeptWell(u)'
<1>1. KeptWell(u) /\ OtherShapes
  BY OthersAre DEF BlocksInHand
<1>2. CASE u # t
  BY <1>1, <1>2, OthersUnmoved DEF KeptWell
<1>3. CASE u = t /\ ~ NewResult(t)
  <2>1. kept' = kept
    BY <1>3 DEF HostStep, NewCall, Error, Raise, Proceed, NewWorkspace, NewTensor, Allocate, NewKernel
  <2> QED BY <1>1, <2>1 DEF KeptWell
<1>4. CASE u = t /\ NewResult(t)
  <2>1. CASE stage[t] = "return" /\ Return(t, "newLru", "lru", kept[t].lru.from)
    <3>1. tensors[t]["newLru"] \in Blocks
      BY <2>1, OwnBlocksAre, TensorsAtIs DEF PlanNames
    <3>2. kept'[t].lru = Result(tensors[t]["newLru"], Call(t), kept[t].lru.from) /\ kept'[t].pooled = kept[t].pooled
      BY <1>1, <2>1 DEF Return, OtherShapes
    <3> QED BY <1>1, <1>4, <3>1, <3>2, RuntimeAssumption DEF KeptWell, Result
  <2>2. CASE stage[t] = "unInit" /\ Return(t, "result", "pooled", {})
    <3>1. kept'[t].pooled = Result(tensors[t]["result"], Call(t), {}) /\ kept'[t].lru = kept[t].lru
      BY <1>1, <2>2 DEF Return, OtherShapes
    <3> QED BY <1>1, <1>4, <3>1 DEF KeptWell, Result
  <2> QED BY <1>4, <2>1, <2>2 DEF NewResult
<1> QED BY <1>2, <1>3, <1>4

LEMMA QueueBlocks ==
    ASSUME BlocksInHand, UNCHANGED <<scenario, stage, tensors, kept, pool, workspace>>
    PROVE  BlocksInHand'
<1>1. /\ \A t \in Threads : Names(t)' = Names(t) /\ StreamOf(t)' = StreamOf(t)
      /\ \A t \in Threads : \A name : BlockAt(t, name)' = BlockAt(t, name)
  BY DEF Names, StreamOf, BlockAt
<1>2. Apart' /\ OwnBlocks'
  BY <1>1 DEF BlocksInHand, Apart, OwnBlocks
<1>3. ASSUME NEW t \in Threads PROVE OwnWorkspace(t)' /\ KeptWell(t)'
  BY <1>1 DEF BlocksInHand, OwnWorkspace, KeptWell
<1> QED BY <1>2, <1>3 DEF BlocksInHand

LEMMA StutterCallsInTurn ==
    ASSUME CallsInTurn, UNCHANGED <<scenario, calls, stage, memory, failed>>,
           \A s \in Streams : InLine(s)' = InLine(s)
    PROVE  CallsInTurn'
<1>1. ASSUME NEW t \in Threads PROVE InTurn(t)'
  BY DEF CallsInTurn, InTurn, Operator, Call
<1>2. ASSUME NEW t \in Threads, NEW n \in Nat, ToCome(t, n)' PROVE Unheard(<<t, n>>)'
  <2>1. Unheard(<<t, n>>)
    BY <1>2 DEF CallsInTurn, ToCome
  <2>2. \A s \in Streams : \A kernel \in InLine(s)' : kernel.call # <<t, n>>
    BY <2>1 DEF Unheard
  <2> QED BY <2>1, <2>2 DEF Unheard
<1> QED BY <1>1, <1>2 DEF CallsInTurn

LEMMA StutterBase ==
    ASSUME BaseInv, UNCHANGED runtimeVars, UNCHANGED workspace
    PROVE  CallsInTurn' /\ BlocksInHand' /\ LinesInOrder'
<1>1. UNCHANGED <<scenario, calls, stage, tensors, kept, pool, memory, failed, workspace>> /\ UNCHANGED queueVars
  BY DEF runtimeVars, hostVars
<1>2. \A s \in Streams : InLine(s)' = InLine(s)
  BY <1>1, WhenQueuesStay DEF InLine, LinesStay, LineStays
<1>3. CallsInTurn'
  BY <1>1, <1>2, StutterCallsInTurn DEF BaseInv
<1>4. BlocksInHand'
  BY <1>1, QueueBlocks DEF BaseInv
<1>5. LinesInOrder'
  BY <1>1, <1>2 DEF BaseInv, LinesInOrder, Made, OnStream, Expects, StreamOf
<1> QED BY <1>3, <1>4, <1>5

LEMMA BaseNext ==
    ASSUME BaseInv, [Next]_vars
    PROVE  BaseInv'
<1>0. Shapes /\ CallsInTurn /\ BlocksInHand /\ LinesInOrder
  BY DEF BaseInv
<1>1. Shapes'
  BY <1>0, ShapesNext
<1>2. ASSUME NEW t \in Threads, HostStep(t) PROVE CallsInTurn' /\ BlocksInHand' /\ LinesInOrder'
  <2>1. BlocksInHand'
    BY <1>0, <1>2, HostApart, HostOwnBlocks, HostWorkspace, HostKeptWell DEF BlocksInHand
  <2> QED BY <1>0, <1>2, <2>1, HostCallsInTurn, HostLinesInOrder
<1>3. ASSUME NEW s \in Streams, QueueStep(s) PROVE CallsInTurn' /\ BlocksInHand' /\ LinesInOrder'
  BY <1>0, <1>3, QueueCallsInTurn, QueueLinesInOrder, QueueBlocks, QueueLines
<1>4. CASE UNCHANGED vars
  <2>1. UNCHANGED runtimeVars /\ UNCHANGED workspace
    BY <1>4 DEF vars, aclnnVars
  <2> QED BY <1>1, <2>1, StutterBase DEF BaseInv
<1> QED BY <1>0, <1>1, <1>2, <1>3, <1>4, StepKinds DEF BaseInv

LEMMA BaseInit ==
    ASSUME OperatorsInit
    PROVE  BaseInv
<1> USE DEF OperatorsInit, Init, AclnnInit
<1>1. scenario \in Scenarios
  OBVIOUS
<1>2. ASSUME NEW t \in Threads
      PROVE  /\ StreamOf(t) \in Streams /\ Len(scenario.threads[t].operators) \in Nat
             /\ FirstLru[t] \in Blocks /\ FirstLru[t] # 0
  BY <1>1, RuntimeAssumption, LenProperties DEF StreamOf
<1>3. \A t \in Threads : TensorsAt(stage[t]) = {} /\ calls[t] = 0 /\ stage[t] = "caller" /\ stage[t] \notin PoolStages
         /\ stage[t] \notin Before
  BY TensorsAtIs DEF PoolStages, PoolBefore, Before, PlanBefore, PlanNames
<1>4. ASSUME NEW t \in Threads
      PROVE  /\ kept[t].lru = [block |-> FirstLru[t], call |-> <<t, 0>>, from |-> {<<t, 0>>}]
             /\ kept[t].pooled = [block |-> 0, call |-> <<t, 0>>, from |-> {<<t, 0>>}]
             /\ kept[t] \in [lru : Results, pooled : Results]
             /\ kept[t].lru.block = FirstLru[t] /\ kept[t].pooled.block = 0
             /\ kept[t].lru.call \in kept[t].lru.from /\ kept[t].pooled.call \in kept[t].pooled.from
  <2>1. <<t, 0>> \in Calls
    BY DEF Calls
  <2>2. kept[t] = [lru |-> Result(FirstLru[t], <<t, 0>>, {}), pooled |-> Result(0, <<t, 0>>, {})]
    OBVIOUS
  <2>3. /\ Result(FirstLru[t], <<t, 0>>, {}) = [block |-> FirstLru[t], call |-> <<t, 0>>, from |-> {<<t, 0>>}]
        /\ Result(0, <<t, 0>>, {}) = [block |-> 0, call |-> <<t, 0>>, from |-> {<<t, 0>>}]
    BY DEF Result
  <2>4. Result(FirstLru[t], <<t, 0>>, {}) \in Results /\ Result(0, <<t, 0>>, {}) \in Results
    <3>1. {<<t, 0>>} \in SUBSET Calls /\ FirstLru[t] \in Blocks \cup {0} /\ 0 \in Blocks \cup {0}
      BY <1>2, <2>1
    <3> QED BY <2>1, <2>3, <3>1 DEF Results
  <2>5. /\ kept[t].lru = Result(FirstLru[t], <<t, 0>>, {}) /\ kept[t].pooled = Result(0, <<t, 0>>, {})
        /\ kept[t] \in [lru : Results, pooled : Results]
    BY <2>2, <2>4
  <2> QED BY ONLY <2>3, <2>5
<1>5. ASSUME NEW t \in Threads PROVE pool[FirstLru[t]] = StreamOf(t)
  <2>1. \A u \in Threads : FirstLru[u] = FirstLru[t] => u = t
    BY RuntimeAssumption
  <2>2. (CHOOSE u \in Threads : FirstLru[u] = FirstLru[t]) = t
    BY <2>1
  <2> QED BY <1>2, <2>2
<1>6. Shapes
  <2>1. calls \in [Threads -> Nat] /\ \A t \in Threads : calls[t] <= Len(scenario.threads[t].operators)
    BY <1>2
  <2>2. stage \in [Threads -> Stages]
    BY DEF Stages
  <2>3. tensors = [t \in Threads |-> tensors[t]] /\ \A t \in Threads : tensors[t] \in [TensorsAt(stage[t]) -> Blocks]
    BY <1>3
  <2>4. kept \in [Threads -> [lru : Results, pooled : Results]]
    BY <1>4
  <2>5. pool \in [Blocks -> Streams \cup {"device"}]
    <3>1. ASSUME NEW b \in Blocks, NEW t \in Threads, FirstLru[t] = b PROVE pool[b] \in Streams
      BY <1>2, <1>5, <3>1
    <3>2. ASSUME NEW b \in Blocks PROVE pool[b] \in Streams \cup {"device"}
      BY <3>1
    <3> QED BY <3>2
  <2>6. memory \in [Blocks -> Contents]
    <3>1. ASSUME NEW t \in Threads PROVE Written(<<t, 0>>, WholePlan) \in Contents
      BY WrittenIs DEF Calls, WholePlan, KernelNames
    <3>2. Written(<<>>, {}) \in Contents
      BY DEF Written, Contents
    <3>3. ASSUME NEW b \in Blocks PROVE memory[b] \in Contents
      BY <3>1, <3>2
    <3> QED BY <3>3
  <2>7. tasks \in [Streams -> Seq(Kernels)] /\ launched \in [Streams -> Seq(Kernels)]
        /\ running \in [Streams -> Kernels \cup {None}]
    OBVIOUS
  <2>8. failed \subseteq Calls /\ IsFiniteSet(failed)
    BY FS_EmptySet
  <2>9. workspace \in [Threads -> Blocks \cup {0}]
    OBVIOUS
  <2> QED BY <1>1, <2>1, <2>2, <2>3, <2>4, <2>5, <2>6, <2>7, <2>8, <2>9 DEF Shapes
<1>7. \A s \in Streams : InLine(s) = {}
  <2>1. \A s \in Streams : Line(s) = <<>>
    BY DEF Line, LineOf, Begun
  <2> QED BY <2>1 DEF InLine, Elements
<1>8. CallsInTurn
  <2>1. ASSUME NEW t \in Threads, NEW n \in Nat, ToCome(t, n) PROVE Unheard(<<t, n>>)
    <3>1. n > 0
      BY <1>3, <2>1 DEF ToCome
    <3>2. ASSUME NEW b \in Blocks PROVE memory[b].call # <<t, n>>
      <4>1. memory[b].call = <<>> \/ \E u \in Threads : memory[b].call = <<u, 0>>
        BY DEF Written
      <4> QED BY <3>1, <4>1
    <3> QED BY <1>7, <3>2 DEF Unheard
  <2> QED BY <1>3, <2>1 DEF CallsInTurn, InTurn
<1>9. BlocksInHand
  <2>1. ASSUME NEW t \in Threads PROVE Names(t) = {"lru"} /\ BlockAt(t, "lru") = FirstLru[t]
    <3>1. /\ TensorsAt(stage[t]) = {} /\ kept[t].pooled.block = 0 /\ kept[t].lru.block = FirstLru[t]
      BY ONLY <1>3, <1>4, t \in Threads
    <3> QED BY ONLY <3>1 DEF Names, BlockAt
  <2>2. Apart
    BY <2>1, RuntimeAssumption DEF Apart
  <2>3. OwnBlocks
    BY <1>2, <1>5, <2>1 DEF OwnBlocks
  <2>4. ASSUME NEW t \in Threads PROVE OwnWorkspace(t) /\ KeptWell(t)
    <3>1. /\ kept[t].lru.block # 0 /\ kept[t].lru.call \in kept[t].lru.from
          /\ kept[t].pooled.call \in kept[t].pooled.from
      BY ONLY <1>2, <1>4, t \in Threads
    <3>2. stage[t] \notin PoolBefore
      BY <1>3 DEF PoolStages
    <3> QED BY <1>3, <3>1, <3>2 DEF OwnWorkspace, KeptWell, PoolBefore
  <2> QED BY <2>2, <2>3, <2>4 DEF BlocksInHand
<1>10. LinesInOrder
  BY <1>7 DEF LinesInOrder
<1> QED BY <1>6, <1>8, <1>9, <1>10 DEF BaseInv

\* The stages, streams, tensors and kernels of all calls stay in order.
THEOREM OperatorsInvariant == Spec => []BaseInv
<1>1. OperatorsInit => BaseInv
  BY BaseInit
<1>2. BaseInv /\ [Next]_vars => BaseInv'
  BY BaseNext
<1> QED BY <1>1, <1>2, PTL DEF Spec

\* Kernels that run at the same time on two streams do not touch each other's blocks,
\* although blocks are handed on before the kernels that use them have run: the
\* allocator keeps a block with the stream it was first made for.
THEOREM KernelsStayApart == Spec => []KernelsApart
<1>1. ASSUME BaseInv PROVE KernelsApart
  <2>0. Shapes
    BY <1>1 DEF BaseInv
  <2>1. ASSUME NEW s \in Streams, NEW b \in running[s].writes \cup DOMAIN running[s].reads PROVE pool[b] = s
    <3>1. CASE running[s] = None
      BY <2>1, <3>1 DEF None
    <3>2. CASE running[s] # None
      BY <1>1, <2>0, <2>1, <3>2, InLineIs DEF BaseInv, LinesInOrder, OnStream
    <3> QED BY <3>1, <3>2
  <2> QED BY <2>1 DEF KernelsApart
<1> QED BY <1>1, OperatorsInvariant, PTL

------------------------------------------------------------------------------
\* Huge memory.

OpenStages == {"convert", "size", "workspace", "submit", "unInit"}

PlanStages == PlanNames \cup KernelNames \cup {"return"}

RaiseStages == {"result", "resolve", "convert", "size", "workspace"}

\* Calls of avg_pool3d that came back without an error.
Back(t) == {n \in Returned(t) : n = calls[t] => stage[t] = "caller"}

OpenNow(t) == IF stage[t] \in OpenStages THEN 1 ELSE 0

Balance(left, back, now) ==
    (IF Found("InitHugeMemThreadLocal") THEN left + back + now ELSE 0)
  - (IF Found("UnInitHugeMemThreadLocal") THEN back ELSE 0)

\* Huge memory is open once for the current call, if that has come so far, and for every
\* earlier one that left it so.
AsOpen(t) == hugeMem[t] = Balance(Cardinality(LeftOpen(t)), Cardinality(Back(t)), OpenNow(t))

\* A call that has not come back has not raised.
RaisedBefore(t) ==
    \A n \in Nat : n > calls[t] \/ (n = calls[t] /\ stage[t] # "caller") =>
        \A at \in RaiseStages : <<<<t, n>>, at>> \notin raised

AtPlan(t) == stage[t] \in PlanStages => Operator(Call(t)) # "avg_pool3d"

HugeMemInHand ==
    /\ hugeMem \in [Threads -> Int]
    /\ \A t \in Threads : AsOpen(t) /\ RaisedBefore(t) /\ AtPlan(t)

LEMMA CallsCounted ==
    ASSUME NEW t \in Threads, calls[t] \in Nat
    PROVE  /\ IsFiniteSet(LeftOpen(t)) /\ Cardinality(LeftOpen(t)) \in Nat
           /\ IsFiniteSet(Back(t)) /\ Cardinality(Back(t)) \in Nat
<1>1. IsFiniteSet(1..calls[t])
  BY FS_Interval
<1>2. LeftOpen(t) \subseteq 1..calls[t] /\ Back(t) \subseteq 1..calls[t]
  BY DEF LeftOpen, Back, Returned, PoolCalls
<1> QED BY <1>1, <1>2, FS_Subset, FS_CardinalityType

LEMMA FoundStays == ASSUME UNCHANGED scenario, NEW name PROVE Found(name)' = Found(name)
BY DEF Found, GetOpApiFuncAddr

\* A thread whose calls came and went as before has open what it had.
LEMMA OpenStays ==
    ASSUME UNCHANGED scenario, NEW u \in Threads, hugeMem'[u] = hugeMem[u], OpenNow(u)' = OpenNow(u),
           LeftOpen(u)' = LeftOpen(u), Back(u)' = Back(u), AsOpen(u)
    PROVE  AsOpen(u)'
<1>1. /\ Found("InitHugeMemThreadLocal")' = Found("InitHugeMemThreadLocal")
      /\ Found("UnInitHugeMemThreadLocal")' = Found("UnInitHugeMemThreadLocal")
  BY FoundStays
<1> HIDE DEF OpenNow, LeftOpen, Back, Found
<1>2. Balance(Cardinality(LeftOpen(u)), Cardinality(Back(u)), OpenNow(u))'
          = Balance(Cardinality(LeftOpen(u)), Cardinality(Back(u)), OpenNow(u))
  BY <1>1 DEF Balance
<1> QED BY <1>2 DEF AsOpen

\* A thread that nothing happens to, or that goes from stage to stage.
LEMMA OpenElsewhere ==
    ASSUME UNCHANGED scenario, NEW u \in Threads, hugeMem'[u] = hugeMem[u], calls'[u] = calls[u], calls[u] \in Nat,
           stage'[u] \in OpenStages <=> stage[u] \in OpenStages, stage'[u] = "caller" <=> stage[u] = "caller",
           stage'[u] \in PlanStages <=> stage[u] \in PlanStages,
           \A n, at : <<<<u, n>>, at>> \in raised' <=> <<<<u, n>>, at>> \in raised,
           AsOpen(u), RaisedBefore(u), AtPlan(u)
    PROVE  AsOpen(u)' /\ RaisedBefore(u)' /\ AtPlan(u)'
<1>1. ASSUME NEW n, NEW stages PROVE RaisedAt(<<u, n>>, stages)' <=> RaisedAt(<<u, n>>, stages)
  BY DEF RaisedAt
<1>2. PoolCalls(u)' = PoolCalls(u)
  BY DEF PoolCalls, Operator
<1>3. LeftOpen(u)' = LeftOpen(u) /\ Returned(u)' = Returned(u)
  BY <1>1, <1>2 DEF LeftOpen, Returned
<1>4. Back(u)' = Back(u) /\ OpenNow(u)' = OpenNow(u)
  BY <1>3 DEF Back, OpenNow
<1>5. RaisedBefore(u)' /\ AtPlan(u)'
  BY DEF RaisedBefore, AtPlan, Operator, Call
<1> QED BY <1>3, <1>4, <1>5, OpenStays

\* A thread that makes a call.
LEMMA OpenCalled ==
    ASSUME UNCHANGED <<scenario, raised>>, NEW t \in Threads, hugeMem'[t] = hugeMem[t], calls[t] \in Nat,
           calls'[t] = calls[t] + 1, stage[t] = "caller", stage'[t] \in {"newLru", "result"},
           stage'[t] = "newLru" => Operator(Call(t))' # "avg_pool3d", AsOpen(t), RaisedBefore(t)
    PROVE  AsOpen(t)' /\ RaisedBefore(t)' /\ AtPlan(t)'
<1>1. ASSUME NEW n, NEW stages PROVE RaisedAt(<<t, n>>, stages)' <=> RaisedAt(<<t, n>>, stages)
  BY DEF RaisedAt
<1>2. /\ 1..calls'[t] = 1..calls[t] \cup {calls[t] + 1} /\ calls[t] + 1 \notin 1..calls[t]
      /\ \A n \in 1..calls[t] : n # calls'[t]
  OBVIOUS
<1>3. ~ RaisedAt(<<t, calls[t] + 1>>, RaiseStages)
  <2>1. calls[t] + 1 \in Nat /\ calls[t] + 1 > calls[t]
    OBVIOUS
  <2> QED BY <2>1 DEF RaisedBefore, RaisedAt
<1>4. ~ RaisedAt(<<t, calls[t] + 1>>, {"convert", "size", "workspace"})
  BY <1>3 DEF RaisedAt, RaiseStages
<1>5. LeftOpen(t)' = LeftOpen(t)
  BY <1>1, <1>2, <1>4 DEF LeftOpen, PoolCalls, Operator
<1>6. Back(t)' = Back(t)
  BY <1>1, <1>2 DEF Back, Returned, PoolCalls, Operator
<1>7. OpenNow(t)' = OpenNow(t)
  BY DEF OpenNow, OpenStages
<1>8. RaisedBefore(t)'
  <2> SUFFICES ASSUME NEW n \in Nat, n > calls'[t] \/ n = calls'[t], NEW at \in RaiseStages
               PROVE  <<<<t, n>>, at>> \notin raised
    BY DEF RaisedBefore
  <2>1. n > calls[t]
    OBVIOUS
  <2> QED BY <2>1 DEF RaisedBefore
<1>9. AtPlan(t)'
  BY DEF AtPlan, PlanStages, PlanNames, KernelNames
<1> QED BY <1>5, <1>6, <1>7, <1>8, <1>9, OpenStays

\* A thread whose call of the other operator ends.
LEMMA OpenPlanEnds ==
    ASSUME UNCHANGED <<scenario, raised>>, NEW t \in Threads, hugeMem'[t] = hugeMem[t], calls[t] \in Nat,
           calls'[t] = calls[t], stage[t] \in PlanStages, stage'[t] = "caller",
           AsOpen(t), RaisedBefore(t), AtPlan(t)
    PROVE  AsOpen(t)' /\ RaisedBefore(t)' /\ AtPlan(t)'
<1>1. ASSUME NEW n, NEW stages PROVE RaisedAt(<<t, n>>, stages)' <=> RaisedAt(<<t, n>>, stages)
  BY DEF RaisedAt
<1>2. PoolCalls(t)' = PoolCalls(t) /\ calls[t] \notin PoolCalls(t)
  BY DEF PoolCalls, Operator, AtPlan, Call
<1>3. LeftOpen(t)' = LeftOpen(t) /\ Returned(t)' = Returned(t) /\ calls[t] \notin Returned(t)
  BY <1>1, <1>2 DEF LeftOpen, Returned
<1>4. Back(t)' = Back(t)
  BY <1>3 DEF Back
<1>5. OpenNow(t)' = OpenNow(t)
  BY DEF OpenNow, OpenStages, PlanStages, PlanNames, KernelNames
<1>6. RaisedBefore(t)' /\ AtPlan(t)'
  BY DEF RaisedBefore, AtPlan, PlanStages, PlanNames, KernelNames
<1> QED BY <1>3, <1>4, <1>5, <1>6, OpenStays

\* The current call of a thread that raises was counted nowhere; behind
\* InitHugeMemThreadLocal it is counted from now on.
LEMMA OpenRaised ==
    ASSUME UNCHANGED scenario, NEW t \in Threads, hugeMem'[t] = hugeMem[t], calls[t] \in Nat \ {0},
           calls'[t] = calls[t], stage[t] \in RaiseStages, stage'[t] = "caller",
           raised' = raised \cup {<<Call(t), stage[t]>>}, Operator(Call(t)) = "avg_pool3d",
           AsOpen(t), RaisedBefore(t)
    PROVE  AsOpen(t)' /\ RaisedBefore(t)' /\ AtPlan(t)'
<1>1. ASSUME NEW n \in 1..calls[t], NEW stages
      PROVE  RaisedAt(<<t, n>>, stages)' <=> RaisedAt(<<t, n>>, stages) \/ (n = calls[t] /\ stage[t] \in stages)
  BY DEF RaisedAt, Call
<1>2. PoolCalls(t)' = PoolCalls(t) /\ calls[t] \in PoolCalls(t) /\ PoolCalls(t) \subseteq 1..calls[t]
  BY DEF PoolCalls, Operator, Call
<1>3. ~ RaisedAt(<<t, calls[t]>>, {"convert", "size", "workspace"})
  BY DEF RaisedBefore, RaisedAt, RaiseStages
<1>4. Back(t)' = Back(t)
  BY <1>1, <1>2 DEF Back, Returned, RaiseStages
<1>5. LeftOpen(t)' = LeftOpen(t) \cup (IF stage[t] \in OpenStages THEN {calls[t]} ELSE {}) /\ calls[t] \notin LeftOpen(t)
  BY <1>1, <1>2, <1>3 DEF LeftOpen, RaiseStages, OpenStages
<1>6. RaisedBefore(t)'
  <2> SUFFICES ASSUME NEW n \in Nat, n > calls[t], NEW at \in RaiseStages PROVE <<<<t, n>>, at>> \notin raised'
    BY DEF RaisedBefore
  <2> QED BY DEF RaisedBefore, Call
<1>7. AtPlan(t)'
  BY DEF AtPlan, PlanStages, PlanNames, KernelNames
<1>8. OpenNow(t)' = 0 /\ OpenNow(t) = IF stage[t] \in OpenStages THEN 1 ELSE 0
  BY DEF OpenNow, OpenStages
<1>9. AsOpen(t)'
  <2>1. CASE stage[t] \in OpenStages
    <3>1. /\ IsFiniteSet(LeftOpen(t)) /\ Cardinality(LeftOpen(t)) \in Nat
          /\ Cardinality(Back(t)) \in Nat
      BY CallsCounted
    <3>2. Cardinality(LeftOpen(t)') = Cardinality(LeftOpen(t)) + 1
      <4>1. LeftOpen(t)' = LeftOpen(t) \cup {calls[t]}
        BY <1>5, <2>1
      <4>2. ASSUME NEW S, IsFiniteSet(S), NEW e, e \notin S PROVE Cardinality(S \cup {e}) = Cardinality(S) + 1
        BY ONLY <4>2, FS_AddElement
      <4> HIDE DEF LeftOpen
      <4> QED BY ONLY <1>5, <3>1, <4>1, <4>2
    <3>3. /\ Found("InitHugeMemThreadLocal")' = Found("InitHugeMemThreadLocal")
          /\ Found("UnInitHugeMemThreadLocal")' = Found("UnInitHugeMemThreadLocal")
      BY FoundStays
    <3>4. OpenNow(t) = 1
      BY <1>8, <2>1
    <3> HIDE DEF LeftOpen, Back, Found, OpenNow
    <3>5. hugeMem[t] = Balance(Cardinality(LeftOpen(t)), Cardinality(Back(t)), 1)
      BY <3>4 DEF AsOpen
    <3>6. Balance(Cardinality(LeftOpen(t)), Cardinality(Back(t)), OpenNow(t))' = hugeMem[t]
      BY <1>4, <1>8, <3>1, <3>2, <3>3, <3>5 DEF Balance
    <3> QED BY <3>6 DEF AsOpen
  <2>2. CASE stage[t] \notin OpenStages
    BY <1>4, <1>5, <1>8, <2>2, OpenStays
  <2> QED BY <2>1, <2>2
<1> QED BY <1>6, <1>7, <1>9

LEMMA InitOpens ==
    ASSUME Shapes, HugeMemInHand, NEW t \in Threads, InitHugeMem(t)
    PROVE  /\ AsOpen(t)' /\ RaisedBefore(t)' /\ AtPlan(t)' /\ hugeMem' \in [Threads -> Int]
           /\ \A u \in Threads \ {t} : hugeMem'[u] = hugeMem[u]
<1>1. /\ hugeMem \in [Threads -> Int] /\ AsOpen(t) /\ RaisedBefore(t)
      /\ stage \in [Threads -> Stages] /\ calls[t] \in Nat
  BY DEF Shapes, HugeMemInHand
<1>2. /\ stage[t] = "resolve" /\ stage'[t] = "convert" /\ UNCHANGED <<scenario, calls, raised>>
      /\ hugeMem' = IF Found("InitHugeMemThreadLocal") THEN [hugeMem EXCEPT ![t] = @ + 1] ELSE hugeMem
  BY <1>1 DEF InitHugeMem, GoTo
<1>3. /\ Found("InitHugeMemThreadLocal")' = Found("InitHugeMemThreadLocal")
      /\ Found("UnInitHugeMemThreadLocal")' = Found("UnInitHugeMemThreadLocal")
  BY <1>2, FoundStays
<1>4. LeftOpen(t)' = LeftOpen(t) /\ Back(t)' = Back(t)
  BY <1>2 DEF LeftOpen, Back, Returned, PoolCalls, RaisedAt, Operator
<1>5. OpenNow(t) = 0 /\ OpenNow(t)' = 1
  BY <1>2 DEF OpenNow, OpenStages
<1>6. Cardinality(LeftOpen(t)) \in Nat /\ Cardinality(Back(t)) \in Nat
  BY <1>1, CallsCounted
<1>7. RaisedBefore(t)' /\ AtPlan(t)'
  BY <1>1, <1>2 DEF RaisedBefore, AtPlan, PlanStages, PlanNames, KernelNames
<1>8. hugeMem'[t] = (IF Found("InitHugeMemThreadLocal") THEN hugeMem[t] + 1 ELSE hugeMem[t])
  BY <1>1, <1>2
<1>9. AsOpen(t)'
  <2> HIDE DEF LeftOpen, Back, Found, OpenNow
  <2>1. hugeMem[t] = Balance(Cardinality(LeftOpen(t)), Cardinality(Back(t)), 0)
    BY <1>1, <1>5 DEF AsOpen
  <2>2. Balance(Cardinality(LeftOpen(t)), Cardinality(Back(t)), OpenNow(t))' = hugeMem'[t]
    BY <1>3, <1>4, <1>5, <1>6, <1>8, <2>1 DEF Balance
  <2> QED BY <2>2 DEF AsOpen
<1>10. hugeMem' \in [Threads -> Int] /\ \A u \in Threads \ {t} : hugeMem'[u] = hugeMem[u]
  BY <1>1, <1>2
<1> QED BY <1>7, <1>9, <1>10

LEMMA UnInitCloses ==
    ASSUME Shapes, HugeMemInHand, NEW t \in Threads, InTurn(t), UnInitHugeMem(t)
    PROVE  /\ AsOpen(t)' /\ RaisedBefore(t)' /\ AtPlan(t)' /\ hugeMem' \in [Threads -> Int]
           /\ \A u \in Threads \ {t} : hugeMem'[u] = hugeMem[u]
<1>1. /\ hugeMem \in [Threads -> Int] /\ AsOpen(t) /\ RaisedBefore(t)
      /\ stage \in [Threads -> Stages] /\ calls[t] \in Nat
  BY DEF Shapes, HugeMemInHand
<1>2. /\ stage[t] = "unInit" /\ stage'[t] = "caller" /\ UNCHANGED <<scenario, calls, raised>>
      /\ hugeMem' = IF Found("UnInitHugeMemThreadLocal") THEN [hugeMem EXCEPT ![t] = @ - 1] ELSE hugeMem
  BY <1>1 DEF UnInitHugeMem, Return, GoTo
<1>3. /\ Found("InitHugeMemThreadLocal")' = Found("InitHugeMemThreadLocal")
      /\ Found("UnInitHugeMemThreadLocal")' = Found("UnInitHugeMemThreadLocal")
  BY <1>2, FoundStays
<1>4. calls[t] \in PoolCalls(t)
  BY <1>1, <1>2 DEF InTurn, PoolStages, PoolCalls, Call
<1>5. ~ RaisedAt(<<t, calls[t]>>, RaiseStages)
  BY <1>1, <1>2 DEF RaisedBefore, RaisedAt
<1>6. LeftOpen(t)' = LeftOpen(t) /\ Returned(t)' = Returned(t) /\ calls[t] \in Returned(t)
  BY <1>2, <1>4, <1>5 DEF LeftOpen, Returned, PoolCalls, RaisedAt, Operator, RaiseStages
<1>7. Back(t)' = Back(t) \cup {calls[t]} /\ calls[t] \notin Back(t)
  BY <1>2, <1>6 DEF Back
<1>8. /\ IsFiniteSet(Back(t)) /\ Cardinality(LeftOpen(t)) \in Nat /\ Cardinality(Back(t)) \in Nat
      /\ Cardinality(Back(t)') = Cardinality(Back(t)) + 1
  BY <1>1, <1>7, CallsCounted, FS_AddElement
<1>9. OpenNow(t) = 1 /\ OpenNow(t)' = 0
  BY <1>2 DEF OpenNow, OpenStages
<1>10. RaisedBefore(t)' /\ AtPlan(t)'
  BY <1>1, <1>2 DEF RaisedBefore, AtPlan, PlanStages, PlanNames, KernelNames
<1>11. hugeMem'[t] = (IF Found("UnInitHugeMemThreadLocal") THEN hugeMem[t] - 1 ELSE hugeMem[t])
  BY <1>1, <1>2
<1>12. AsOpen(t)'
  <2> HIDE DEF LeftOpen, Back, Found, OpenNow
  <2>1. hugeMem[t] = Balance(Cardinality(LeftOpen(t)), Cardinality(Back(t)), 1)
    BY <1>1, <1>9 DEF AsOpen
  <2>2. Balance(Cardinality(LeftOpen(t)), Cardinality(Back(t)), OpenNow(t))' = hugeMem'[t]
    BY <1>3, <1>6, <1>8, <1>9, <1>11, <2>1 DEF Balance
  <2> QED BY <2>2 DEF AsOpen
<1>13. hugeMem' \in [Threads -> Int] /\ \A u \in Threads \ {t} : hugeMem'[u] = hugeMem[u]
  BY <1>1, <1>2
<1> QED BY <1>10, <1>12, <1>13

\* Where the operators' steps lead.
LEMMA PlanStepIs ==
    ASSUME Shapes, NEW t \in Threads, PlanStep(t)
    PROVE  \/ /\ stage[t] = "caller" /\ stage'[t] = "newLru" /\ calls'[t] = calls[t] + 1
              /\ scenario.threads[t].operators[calls[t] + 1] = "build_lru_plan"
           \/ stage[t] \in PlanStages /\ stage'[t] \in PlanStages \cup {"caller"} /\ calls'[t] = calls[t]
<1>1. stage \in [Threads -> Stages] /\ calls \in [Threads -> Nat]
  BY DEF Shapes
<1> USE DEF PlanStages, PlanNames, KernelNames, GoTo
<1>2. CASE CallBuildLruPlan(t)
  BY <1>1, <1>2 DEF CallBuildLruPlan, CallOperator
<1>3. CASE AllocatePlanTensor(t)
  <2>1. PICK n \in 1..4 : /\ stage[t] = PlanTensors[n] /\ calls' = calls
                          /\ stage' = [stage EXCEPT ![t] = IF n = 4 THEN "hit_local" ELSE PlanTensors[n + 1]]
    BY <1>3 DEF AllocatePlanTensor, Allocate
  <2>2. n = 1 \/ n = 2 \/ n = 3 \/ n = 4
    OBVIOUS
  <2> QED BY <1>1, <2>1, <2>2 DEF PlanTensors
<1>4. CASE PlanOutOfMemory(t)
  <2>1. PICK n \in 1..4 : stage[t] = PlanTensors[n] /\ stage' = [stage EXCEPT ![t] = "caller"] /\ calls' = calls
    BY <1>4 DEF PlanOutOfMemory, Raise
  <2>2. n = 1 \/ n = 2 \/ n = 3 \/ n = 4
    OBVIOUS
  <2> QED BY <1>1, <2>1, <2>2 DEF PlanTensors
<1>5. CASE ExecKernelCmd(t)
  <2>1. PICK n \in 1..4 : /\ stage[t] = PlanKernels[n] /\ calls' = calls
                          /\ stage' = [stage EXCEPT ![t] = IF n = 4 THEN "return" ELSE PlanKernels[n + 1]]
    BY <1>5 DEF ExecKernelCmd
  <2>2. n = 1 \/ n = 2 \/ n = 3 \/ n = 4
    OBVIOUS
  <2> QED BY <1>1, <2>1, <2>2 DEF PlanKernels
<1>6. CASE ReturnPlan(t)
  BY <1>1, <1>6 DEF ReturnPlan, Return
<1> QED BY <1>2, <1>3, <1>4, <1>5, <1>6 DEF PlanStep

PoolRaised(t) ==
    /\ stage[t] \in RaiseStages /\ stage'[t] = "caller" /\ calls'[t] = calls[t]
    /\ raised' = raised \cup {<<Call(t), stage[t]>>}

LEMMA PoolStepIs ==
    ASSUME Shapes, NEW t \in Threads, PoolStep(t), ~ InitHugeMem(t), ~ UnInitHugeMem(t)
    PROVE  /\ hugeMem' = hugeMem
           /\ \/ stage[t] = "caller" /\ stage'[t] = "result" /\ calls'[t] = calls[t] + 1 /\ raised' = raised
              \/ PoolRaised(t)
              \/ /\ stage[t] \in PoolStages /\ stage'[t] \in PoolStages /\ calls'[t] = calls[t] /\ raised' = raised
                 /\ stage'[t] \in OpenStages <=> stage[t] \in OpenStages
<1>1. stage \in [Threads -> Stages] /\ calls \in [Threads -> Nat]
  BY DEF Shapes
<1> USE DEF PoolStages, PoolBefore, OpenStages, RaiseStages, GoTo, aclnnVars
<1>2. CASE CallAvgPool3d(t)
  BY <1>1, <1>2 DEF CallAvgPool3d, CallOperator
<1>3. CASE AllocateResult(t)
  BY <1>1, <1>3 DEF AllocateResult, Allocate
<1>4. CASE PoolRaises(t)
  BY <1>1, <1>4 DEF PoolRaises, Raise, PoolRaised
<1>5. CASE ConvertTypeRaises(t)
  BY <1>1, <1>5 DEF ConvertTypeRaises, Raise, PoolRaised
<1>6. CASE ConvertType(t)
  BY <1>1, <1>6 DEF ConvertType, runtimeVars, hostVars
<1>7. CASE GetWorkspaceSize(t) \/ NoWorkspace(t) \/ NeedsWorkspace(t)
  BY <1>1, <1>7 DEF GetWorkspaceSize, NoWorkspace, NeedsWorkspace
<1>8. CASE AllocateWorkspace(t) \/ Run(t)
  BY <1>1, <1>8 DEF AllocateWorkspace, Run
<1> QED BY <1>2, <1>3, <1>4, <1>5, <1>6, <1>7, <1>8 DEF PoolStep

LEMMA HugeMemNext ==
    ASSUME BaseInv, BaseInv', HugeMemInHand, [Next]_vars
    PROVE  HugeMemInHand'
<1>1. /\ Shapes /\ hugeMem \in [Threads -> Int] /\ stage \in [Threads -> Stages]
      /\ \A u \in Threads : calls[u] \in Nat /\ AsOpen(u) /\ RaisedBefore(u) /\ AtPlan(u) /\ InTurn(u)
  BY DEF BaseInv, Shapes, HugeMemInHand, CallsInTurn
<1>2. ASSUME NEW t \in Threads, HostStep(t), NEW u \in Threads \ {t}, hugeMem'[u] = hugeMem[u],
             raised' = raised \/ PoolRaised(t)
      PROVE  AsOpen(u)' /\ RaisedBefore(u)' /\ AtPlan(u)'
  <2>1. UNCHANGED scenario /\ stage'[u] = stage[u] /\ calls'[u] = calls[u]
    BY <1>1, <1>2, OthersUnmoved
  <2>2. \A n, at : <<<<u, n>>, at>> \in raised' <=> <<<<u, n>>, at>> \in raised
    BY <1>2 DEF PoolRaised, Call
  <2> QED BY <1>1, <1>2, <2>1, <2>2, OpenElsewhere
<1>3. ASSUME NEW t \in Threads, PlanStep(t), UNCHANGED aclnnVars PROVE HugeMemInHand'
  <2>1. HostStep(t) /\ hugeMem' = hugeMem /\ raised' = raised /\ hugeMem' \in [Threads -> Int]
    BY <1>1, <1>3, PlanStepKinds DEF aclnnVars
  <2>2. UNCHANGED scenario
    BY <1>1, <2>1, OthersUnmoved
  <2>3. AsOpen(t)' /\ RaisedBefore(t)' /\ AtPlan(t)'
    <3>1. CASE /\ stage[t] = "caller" /\ stage'[t] = "newLru" /\ calls'[t] = calls[t] + 1
               /\ scenario.threads[t].operators[calls[t] + 1] = "build_lru_plan"
      <4>1. Operator(Call(t))' # "avg_pool3d"
        BY <2>2, <3>1 DEF Operator, Call
      <4> QED BY <1>1, <2>1, <2>2, <3>1, <4>1, OpenCalled
    <3>2. CASE stage[t] \in PlanStages /\ stage'[t] = "caller" /\ calls'[t] = calls[t]
      BY <1>1, <2>1, <2>2, <3>2, OpenPlanEnds
    <3>3. CASE stage[t] \in PlanStages /\ stage'[t] \in PlanStages /\ calls'[t] = calls[t]
      BY <1>1, <2>1, <2>2, <3>3, OpenElsewhere DEF PlanStages, PlanNames, KernelNames, OpenStages
    <3> QED BY <1>1, <1>3, <3>1, <3>2, <3>3, PlanStepIs
  <2> QED BY <1>2, <2>1, <2>3 DEF HugeMemInHand
<1>4. ASSUME NEW t \in Threads, PoolStep(t) PROVE HugeMemInHand'
  <2>1. HostStep(t)
    BY <1>1, <1>4, PoolStepKinds
  <2>2. UNCHANGED scenario
    BY <1>1, <2>1, OthersUnmoved
  <2>3. CASE InitHugeMem(t)
    <3>1. raised' = raised
      BY <2>3 DEF InitHugeMem
    <3> QED BY <1>1, <1>2, <2>1, <2>3, <3>1, InitOpens DEF HugeMemInHand
  <2>4. CASE UnInitHugeMem(t)
    <3>1. raised' = raised
      BY <2>4 DEF UnInitHugeMem
    <3> QED BY <1>1, <1>2, <2>1, <2>4, <3>1, UnInitCloses DEF HugeMemInHand
  <2>5. CASE ~ InitHugeMem(t) /\ ~ UnInitHugeMem(t)
    <3>0. hugeMem' = hugeMem /\ hugeMem' \in [Threads -> Int]
      BY <1>1, <1>4, <2>5, PoolStepIs
    <3>1. CASE stage[t] = "caller" /\ stage'[t] = "result" /\ calls'[t] = calls[t] + 1 /\ raised' = raised
      <4>1. AsOpen(t)' /\ RaisedBefore(t)' /\ AtPlan(t)'
        BY <1>1, <2>2, <3>0, <3>1, OpenCalled
      <4> QED BY <1>2, <2>1, <3>0, <3>1, <4>1 DEF HugeMemInHand
    <3>2. CASE PoolRaised(t)
      <4>1. calls[t] >= 1 /\ Operator(Call(t)) = "avg_pool3d"
        BY <1>1, <3>2 DEF InTurn, PoolRaised, RaiseStages, PoolStages, PoolBefore
      <4>2. calls[t] \in Nat \ {0}
        BY <1>1, <4>1
      <4>3. AsOpen(t)' /\ RaisedBefore(t)' /\ AtPlan(t)'
        BY <1>1, <2>2, <3>0, <3>2, <4>1, <4>2, OpenRaised DEF PoolRaised
      <4> QED BY <1>2, <2>1, <3>0, <3>2, <4>3 DEF HugeMemInHand
    <3>3. CASE /\ stage[t] \in PoolStages /\ stage'[t] \in PoolStages /\ calls'[t] = calls[t] /\ raised' = raised
               /\ stage'[t] \in OpenStages <=> stage[t] \in OpenStages
      <4>1. AsOpen(t)' /\ RaisedBefore(t)' /\ AtPlan(t)'
        BY <1>1, <2>2, <3>0, <3>3, OpenElsewhere DEF PoolStages, PoolBefore, PlanStages, PlanNames, KernelNames
      <4> QED BY <1>2, <2>1, <3>0, <3>3, <4>1 DEF HugeMemInHand
    <3> QED BY <1>1, <1>4, <2>5, <3>1, <3>2, <3>3, PoolStepIs
  <2> QED BY <2>3, <2>4, <2>5
<1>5. ASSUME UNCHANGED <<scenario, calls, stage, hugeMem, raised>> PROVE HugeMemInHand'
  BY <1>1, <1>5, OpenElsewhere DEF HugeMemInHand
<1>6. ASSUME NEW s \in Streams, Consumer(s) \/ Device(s) PROVE UNCHANGED <<scenario, calls, stage, hugeMem, raised>>
  BY <1>6 DEF Consumer, Device, LaunchKernel, CallOpApi, Begin, End, hostVars, aclnnVars
<1>7. CASE UNCHANGED vars
  BY <1>5, <1>7 DEF vars, runtimeVars, hostVars, aclnnVars
<1> QED BY <1>3, <1>4, <1>5, <1>6, <1>7 DEF Next, Thread, Done

LEMMA HugeMemInvariant == Spec => []HugeMemInHand
<1>1. OperatorsInit => HugeMemInHand
  <2> SUFFICES ASSUME OperatorsInit PROVE HugeMemInHand
    OBVIOUS
  <2>1. hugeMem \in [Threads -> Int]
    BY DEF OperatorsInit, AclnnInit
  <2>2. Cardinality({}) = 0
    BY FS_EmptySet
  <2>3. ASSUME NEW t \in Threads PROVE AsOpen(t)
    <3>1. LeftOpen(t) = {} /\ Back(t) = {}
      BY DEF OperatorsInit, Init, LeftOpen, Back, Returned, PoolCalls
    <3>2. OpenNow(t) = 0 /\ hugeMem[t] = 0
      BY DEF OperatorsInit, Init, AclnnInit, OpenNow, OpenStages
    <3>3. Balance(Cardinality(LeftOpen(t)), Cardinality(Back(t)), OpenNow(t)) = 0
      BY ONLY <2>2, <3>1, <3>2 DEF Balance
    <3> QED BY ONLY <3>2, <3>3 DEF AsOpen
  <2>4. ASSUME NEW t \in Threads PROVE RaisedBefore(t) /\ AtPlan(t)
    BY DEF OperatorsInit, Init, AclnnInit, RaisedBefore, AtPlan, PlanStages, PlanNames, KernelNames
  <2> QED BY <2>1, <2>3, <2>4 DEF HugeMemInHand
<1>2. BaseInv /\ BaseInv' /\ HugeMemInHand /\ [Next]_vars => HugeMemInHand'
  BY HugeMemNext
<1> QED BY <1>1, <1>2, OperatorsInvariant, PTL DEF Spec

\* Between two calls a thread's huge memory has been opened by exactly the calls that came
\* as far as InitHugeMemThreadLocal and closed by exactly those that returned, whichever
\* of the two functions the libraries have: with both, every call that raised in
\* between has left it open once more.
THEOREM HugeMemStaysCounted == Spec => []HugeMemOpenAfterRaise
<1>1. ASSUME BaseInv, HugeMemInHand PROVE HugeMemOpenAfterRaise
  <2> SUFFICES ASSUME NEW t \in Threads, stage[t] = "caller"
               PROVE  hugeMem[t] =
                          (IF Found("InitHugeMemThreadLocal")
                           THEN Cardinality(LeftOpen(t)) + Cardinality(Returned(t)) ELSE 0)
                        - (IF Found("UnInitHugeMemThreadLocal") THEN Cardinality(Returned(t)) ELSE 0)
    BY DEF HugeMemOpenAfterRaise
  <2>1. OpenNow(t) = 0 /\ Back(t) = Returned(t)
    BY DEF OpenNow, OpenStages, Back
  <2>2. Cardinality(LeftOpen(t)) \in Nat /\ Cardinality(Back(t)) \in Nat
    BY <1>1, CallsCounted DEF BaseInv, Shapes
  <2> HIDE DEF LeftOpen, Returned, Back, Found, OpenNow
  <2>3. hugeMem[t] = Balance(Cardinality(LeftOpen(t)), Cardinality(Back(t)), 0)
    BY <1>1, <2>1 DEF HugeMemInHand, AsOpen
  <2> QED BY <2>1, <2>2, <2>3 DEF Balance
<1> QED BY <1>1, OperatorsInvariant, HugeMemInvariant, PTL

\* What can be opened is never closed more often than it was opened.
LEMMA OpenIsCounted ==
    ASSUME BaseInv, HugeMemInHand, NEW t \in Threads
    PROVE  hugeMem[t] \in Int /\ (Found("InitHugeMemThreadLocal") => hugeMem[t] \in Nat)
<1>1. hugeMem[t] \in Int /\ hugeMem[t] = Balance(Cardinality(LeftOpen(t)), Cardinality(Back(t)), OpenNow(t))
  BY DEF HugeMemInHand, AsOpen
<1>2. Cardinality(LeftOpen(t)) \in Nat /\ Cardinality(Back(t)) \in Nat
  BY CallsCounted DEF BaseInv, Shapes
<1>3. OpenNow(t) \in Nat
  BY DEF OpenNow
<1> HIDE DEF LeftOpen, Back, Found, OpenNow
<1> QED BY <1>1, <1>2, <1>3 DEF Balance

------------------------------------------------------------------------------
\* Objects.

\* What taking a task from a queue and adding one to it does to its elements.
LEMMA QueueTaken ==
    ASSUME NEW queue \in Seq(Kernels), queue # <<>>, Once(queue)
    PROVE  /\ Once(Tail(queue))
           /\ Elements(queue) = Elements(Tail(queue)) \cup {Head(queue)}
           /\ PoolTask(Head(queue)) =>
                  \A task \in Elements(Tail(queue)) : PoolTask(task) => task.call # Head(queue).call
<1>1. /\ Len(queue) \in Nat \ {0} /\ Len(Tail(queue)) = Len(queue) - 1 /\ Head(queue) = queue[1]
      /\ \A i \in 1..Len(queue) - 1 : Tail(queue)[i] = queue[i + 1]
  OBVIOUS
<1>2. Elements(queue) = Elements(Tail(queue)) \cup {Head(queue)}
  <2>1. ASSUME NEW i \in 1..Len(queue) PROVE queue[i] \in Elements(Tail(queue)) \cup {Head(queue)}
    <3>1. CASE i = 1
      BY <1>1, <3>1
    <3>2. CASE i # 1
      <4>1. i - 1 \in 1..Len(queue) - 1 /\ (i - 1) + 1 = i
        BY <1>1, <3>2
      <4>2. Tail(queue)[i - 1] = queue[i]
        BY <1>1, <4>1
      <4> QED BY <1>1, <4>1, <4>2 DEF Elements
    <3> QED BY <3>1, <3>2
  <2>2. ASSUME NEW i \in 1..Len(Tail(queue)) PROVE Tail(queue)[i] \in Elements(queue)
    <3>1. i + 1 \in 1..Len(queue) /\ Tail(queue)[i] = queue[i + 1]
      BY <1>1
    <3> QED BY <3>1 DEF Elements
  <2>3. Head(queue) \in Elements(queue)
    BY <1>1 DEF Elements
  <2> QED BY ONLY <2>1, <2>2, <2>3 DEF Elements
<1>3. Once(Tail(queue))
  <2> SUFFICES ASSUME NEW i \in 1..Len(Tail(queue)), NEW j \in 1..Len(Tail(queue)),
                      PoolTask(Tail(queue)[i]), PoolTask(Tail(queue)[j]), Tail(queue)[i].call = Tail(queue)[j].call
               PROVE  i = j
    BY DEF Once
  <2>1. /\ i + 1 \in 1..Len(queue) /\ j + 1 \in 1..Len(queue)
        /\ Tail(queue)[i] = queue[i + 1] /\ Tail(queue)[j] = queue[j + 1]
    BY <1>1
  <2>2. i + 1 = j + 1
    BY <2>1 DEF Once
  <2> QED BY <2>2
<1>4. ASSUME PoolTask(Head(queue)), NEW i \in 1..Len(Tail(queue)), PoolTask(Tail(queue)[i]) 
      PROVE  Tail(queue)[i].call # Head(queue).call
  <2>1. i + 1 \in 1..Len(queue) /\ Tail(queue)[i] = queue[i + 1] /\ 1 \in 1..Len(queue) /\ i + 1 # 1
    BY <1>1
  <2> QED BY <1>1, <1>4, <2>1 DEF Once
<1> QED BY <1>2, <1>3, <1>4 DEF Elements

LEMMA QueueAdded ==
    ASSUME NEW queue, Len(queue) \in Nat, NEW more, NEW kernel, Grows(queue, more, kernel), Once(queue),
           PoolTask(kernel) => \A task \in Elements(queue) : task.call # kernel.call
    PROVE  Once(more) /\ Elements(more) = Elements(queue) \cup {kernel}
<1>1. /\ \A i \in 1..Len(more) : i \in 1..Len(queue) \/ i = Len(queue) + 1
      /\ \A i \in 1..Len(queue) : i \in 1..Len(more) /\ more[i] = queue[i]
      /\ Len(queue) + 1 \in 1..Len(more) /\ more[Len(queue) + 1] = kernel
  BY DEF Grows
<1>2. Elements(more) = Elements(queue) \cup {kernel}
  BY ONLY <1>1 DEF Elements
<1>3. Once(more)
  BY ONLY <1>1, Once(queue), PoolTask(kernel) => \A task \in Elements(queue) : task.call # kernel.call
     DEF Once, Elements
<1> QED BY <1>2, <1>3

\* Calls that are still converting, and calls whose task is queued, are not the same.
LEMMA PoolStagesAre ==
    ASSUME BaseInv, NEW t \in Threads, stage[t] \in PoolBefore
    PROVE  Unheard(Call(t)) /\ calls[t] >= 1 /\ \A s \in Streams : \A task \in Elements(tasks[s]) : task.call # Call(t)
<1>1. Shapes /\ calls[t] \in Nat
  BY DEF BaseInv, Shapes
<1>2. Unheard(Call(t)) /\ calls[t] >= 1
  BY <1>1 DEF BaseInv, CallsInTurn, ToCome, InTurn, Before, PoolBefore, Call
<1>3. ASSUME NEW s \in Streams, NEW task \in Elements(tasks[s]) PROVE task.call # Call(t)
  BY <1>1, <1>2, <1>3, InLineIs DEF Unheard, Elements
<1> QED BY <1>2, <1>3

\* A host step that leaves the objects alone.
LEMMA HostObjects ==
    ASSUME BaseInv, ObjectsInHand, NEW t \in Threads, HostStep(t), objects' = objects, ConvertedAt(t)',
           converted' \in [Threads -> SUBSET Params], \A u \in Threads \ {t} : converted'[u] = converted[u]
    PROVE  ObjectsInHand'
<1>1. Shapes /\ calls \in [Threads -> Nat] /\ BlocksInHand
  BY DEF BaseInv, Shapes
<1>2. /\ \A u \in Threads \ {t} : stage'[u] = stage[u] /\ calls'[u] = calls[u]
      /\ UNCHANGED scenario
  BY <1>1, OthersUnmoved
<1>3. calls'[t] \in {calls[t], calls[t] + 1} /\ calls[t] \in Nat
  BY <1>1, StageIs DEF HostStep
<1>4. ObjectsOfCalls'
  <2>1. ASSUME NEW u \in Threads PROVE 1..calls[u] \subseteq 1..calls'[u]
    BY <1>1, <1>2, <1>3
  <2> QED BY <2>1 DEF ObjectsInHand, ObjectsOfCalls
<1>0. ASSUME NEW name PROVE Found(name)' = Found(name)
  BY <1>2, FoundStays
<1>5. ASSUME NEW c PROVE HasObjects(c)' <=> HasObjects(c)
  BY <1>0 DEF HasObjects, aclCreate
<1>6. ASSUME NEW u \in Threads PROVE ConvertedAt(u)'
  <2>1. CASE u # t
    BY <1>0, <1>2, <1>5, <2>1 DEF ObjectsInHand, ConvertedAt, ConvertedSo, Call, aclCreate
  <2> QED BY <2>1
<1>7. ASSUME ~ \E kernel, next : NewKernel(t, kernel, next) PROVE UNCHANGED tasks
  BY <1>7 DEF HostStep, NewCall, Error, Raise, NewResult, Return, Proceed, NewWorkspace, NewTensor, Allocate, queueVars
<1>8. ASSUME NEW kernel, NEW next, NewKernel(t, kernel, next)
      PROVE  /\ QueuedConverted' /\ \A s \in Streams : QueuedPools(s) \subseteq QueuedPools(s)'
             /\ stage[t] = "submit" => \E task \in QueuedPools(StreamOf(t))' : task.call = Call(t)
  <2> DEFINE s == StreamOf(t)
  <2>1. Fits(t, kernel)
    BY <1>1, <1>8, KernelFits DEF BlocksInHand
  <2>2. tasks \in [Streams -> Seq(Kernels)] /\ s \in Streams /\ kernel \in Kernels
    BY <1>1, <2>1, StreamIs DEF Shapes, Fits
  <2>3. tasks' = [tasks EXCEPT ![s] = Append(@, kernel)] /\ stage[t] # "caller"
    BY <1>8 DEF NewKernel, Submit
  <2>4. Grows(tasks[s], tasks'[s], kernel) /\ Len(tasks[s]) \in Nat /\ \A r \in Streams \ {s} : tasks'[r] = tasks[r]
    BY <2>2, <2>3 DEF Grows
  <2>5. PoolTask(kernel) => stage[t] = "submit"
    BY <1>1, <1>8, <2>1, StageIs DEF Fits, PoolTask
  <2>6. PoolTask(kernel) => /\ HasObjects(kernel.call)
                            /\ \A task \in Elements(tasks[s]) : task.call # kernel.call
    BY <2>1, <2>2, <2>5, PoolStagesAre DEF ObjectsInHand, ConvertedAt, Fits, PoolBefore
  <2>7. Once(tasks'[s]) /\ Elements(tasks'[s]) = Elements(tasks[s]) \cup {kernel}
    <3>1. Once(tasks[s])
      BY <2>2 DEF ObjectsInHand, QueuedConverted
    <3> HIDE DEF s
    <3> QED BY ONLY <2>4, <2>6, <3>1, QueueAdded
  <2>8. ASSUME NEW r \in Streams
        PROVE  /\ Once(tasks'[r])
               /\ QueuedPools(r)' = QueuedPools(r) \cup (IF r = s /\ PoolTask(kernel) THEN {kernel} ELSE {})
    <3>1. CASE r = s
      BY <2>7, <3>1 DEF QueuedPools
    <3>2. CASE r # s
      BY <2>4, <3>2 DEF QueuedPools, ObjectsInHand, QueuedConverted
    <3> QED BY <3>1, <3>2
  <2>9. QueuedConverted'
    BY <1>5, <2>6, <2>8 DEF QueuedConverted, ObjectsInHand
  <2>10. s' = s
    BY <1>2 DEF StreamOf
  <2>11. ASSUME stage[t] = "submit" PROVE kernel \in QueuedPools(s)' /\ kernel.call = Call(t)
    <3>1. PoolTask(kernel) /\ kernel.call = Call(t)
      BY <2>1, <2>11 DEF Fits, PoolTask
    <3>2. kernel \in Elements(tasks'[s])
      BY <2>7
    <3> HIDE DEF s
    <3> QED BY ONLY <2>10, <3>1, <3>2 DEF QueuedPools
  <2> QED BY <2>8, <2>9, <2>11
<1>9. QueuedConverted' /\ \A s \in Streams : QueuedPools(s) \subseteq QueuedPools(s)'
  BY <1>5, <1>7, <1>8 DEF QueuedConverted, QueuedPools, ObjectsInHand
<1>10. ASSUME NEW c, Expected(c) PROVE Expected(c)'
  <2>1. CASE c \in failed
    <3>1. failed \subseteq failed'
      BY DEF HostStep, NewCall, Error, Raise, NewResult, Return, Proceed, NewWorkspace, NewTensor, Allocate, NewKernel
    <3> QED BY <2>1, <3>1 DEF Expected
  <2>2. CASE \E s \in Streams : \E task \in QueuedPools(s) : task.call = c
    BY <1>9, <2>2 DEF Expected
  <2>3. ASSUME NEW u \in Threads \ {t}, c = Call(u), stage[u] \in {"convert", "size", "workspace", "submit"}
        PROVE  Expected(c)'
    BY <1>2, <2>3 DEF Expected, Call
  <2>4. CASE c = Call(t) /\ stage[t] \in {"convert", "size", "workspace", "submit"}
    <3>1. CASE Error(t)
      BY <2>4, <3>1 DEF Error, Raise, Expected
    <3>2. CASE Proceed(t) \/ NewWorkspace(t)
      BY <1>1, <2>4, <3>2, StageIs DEF Expected, Call
    <3>3. ASSUME NEW kernel, NEW next, NewKernel(t, kernel, next) PROVE Expected(c)'
      <4>1. stage[t] = "submit" /\ StreamOf(t)' \in Streams
        BY <1>1, <1>2, <2>4, <3>3, StageIs, StreamIs DEF StreamOf
      <4> QED BY <1>1, <1>8, <2>4, <3>3, <4>1, StreamIs DEF Expected
    <3> QED BY <1>1, <2>4, <3>1, <3>2, <3>3, StageIs DEF HostStep
  <2> QED BY <1>10, <2>1, <2>2, <2>3, <2>4 DEF Expected
<1>11. ASSUME NEW o \in objects' PROVE (Expected(o[1]) \/ ~ Found(aclDestroy(o[2])))'
  BY <1>0, <1>10 DEF ObjectsInHand, aclDestroy
<1> QED BY <1>4, <1>6, <1>9, <1>11 DEF ObjectsInHand

\* A parameter is converted.
LEMMA ConvertObjects ==
    ASSUME BaseInv, ObjectsInHand, NEW t \in Threads, ConvertType(t)
    PROVE  ObjectsInHand'
<1>1. PICK p \in Params \ converted[t] :
          /\ converted' = [converted EXCEPT ![t] = @ \cup {p}]
          /\ objects' = IF Found(aclCreate(p)) THEN objects \cup {<<Call(t), p>>} ELSE objects
  BY DEF ConvertType
<1>2. stage[t] = "convert" /\ UNCHANGED <<scenario, calls, stage, tasks, failed>>
  BY DEF ConvertType, runtimeVars, hostVars, queueVars
<1>3. calls[t] \in Nat /\ calls[t] >= 1
  BY <1>2, PoolStagesAre DEF PoolBefore, BaseInv, Shapes
<1>4. ObjectsOfCalls'
  <2>1. Call(t) \in {t} \X (1..calls[t])
    BY <1>3 DEF Call
  <2> QED BY <1>1, <1>2, <2>1 DEF ObjectsInHand, ObjectsOfCalls
<1>5. objects \subseteq objects' /\ \A o \in objects' : o \in objects \/ o = <<Call(t), p>>
  BY <1>1
<1>6. ASSUME NEW name PROVE Found(name)' = Found(name)
  BY <1>2, FoundStays
<1>7. ASSUME NEW c, HasObjects(c) PROVE HasObjects(c)'
  BY <1>5, <1>6, <1>7 DEF HasObjects, aclCreate
<1>8. /\ converted' \in [Threads -> SUBSET Params] /\ converted'[t] = converted[t] \cup {p}
      /\ \A u \in Threads \ {t} : converted'[u] = converted[u]
  BY <1>1 DEF ObjectsInHand
<1>9. ASSUME NEW u \in Threads PROVE ConvertedAt(u)'
  <2>1. ConvertedAt(u) /\ Call(u)' = Call(u) /\ stage'[u] = stage[u]
    BY <1>2 DEF ObjectsInHand, Call
  <2>2. CASE u # t
    BY <1>5, <1>6, <1>7, <1>8, <2>1, <2>2 DEF ConvertedAt, ConvertedSo, aclCreate
  <2>3. CASE u = t
    <3>1. Found(aclCreate(p)) => <<Call(t), p>> \in objects'
      BY <1>1
    <3>2. ConvertedSo(t)'
      BY <1>2, <1>5, <1>6, <1>8, <2>1, <2>3, <3>1 DEF ConvertedAt, ConvertedSo, aclCreate
    <3> QED BY <1>2, <2>1, <2>3, <3>2 DEF ConvertedAt
  <2> QED BY <2>2, <2>3
<1>10. QueuedConverted'
  BY <1>2, <1>7 DEF ObjectsInHand, QueuedConverted, QueuedPools
<1>11. ASSUME NEW o \in objects' PROVE (Expected(o[1]) \/ ~ Found(aclDestroy(o[2])))'
  <2>1. CASE o \in objects
    BY <1>2, <1>6, <2>1 DEF ObjectsInHand, Expected, QueuedPools, Call, aclDestroy
  <2>2. CASE o = <<Call(t), p>>
    BY <1>2, <2>2 DEF Expected, Call
  <2> QED BY <1>5, <2>1, <2>2
<1> QED BY <1>4, <1>8, <1>9, <1>10, <1>11 DEF ObjectsInHand

\* A task leaves its queue.
LEMMA ConsumerObjects ==
    ASSUME BaseInv, ObjectsInHand, NEW s \in Streams, Consumer(s)
    PROVE  ObjectsInHand'
<1> DEFINE task == Head(tasks[s])
<1>1. Shapes /\ LinesInOrder /\ tasks \in [Streams -> Seq(Kernels)]
  BY DEF BaseInv, Shapes
<1>2. /\ tasks[s] # <<>> /\ tasks' = [tasks EXCEPT ![s] = Tail(@)] /\ UNCHANGED <<scenario, calls, stage, converted>>
      /\ failed \subseteq failed'
      /\ \/ objects' = objects /\ (PoolTask(task) => task.call \in failed')
         \/ objects' = Released(task.call) /\ PoolTask(task)
  BY DEF Consumer, LaunchKernel, CallOpApi, PoolTask, hostVars, aclnnVars
<1>3. /\ Once(tasks'[s])
      /\ Elements(tasks[s]) = Elements(tasks'[s]) \cup {task}
      /\ PoolTask(task) => \A other \in Elements(tasks'[s]) : PoolTask(other) => other.call # task.call
  <2>1. Once(tasks[s])
    BY DEF ObjectsInHand, QueuedConverted
  <2>2. tasks[s] \in Seq(Kernels) /\ tasks'[s] = Tail(tasks[s])
    BY <1>1, <1>2
  <2> QED BY <1>2, <2>1, <2>2, QueueTaken
<1>4. \A r \in Streams \ {s} : tasks'[r] = tasks[r]
  BY <1>1, <1>2
<1>5. task \in InLine(s) /\ task \in Elements(tasks[s])
  <2>1. task \in Elements(tasks[s])
    BY <1>3
  <2> HIDE DEF task
  <2>2. PICK i \in 1..Len(tasks[s]) : task = tasks[s][i]
    BY <2>1 DEF Elements
  <2> QED BY <1>1, <2>1, <2>2, InLineIs
<1> HIDE DEF task
<1>6. ASSUME NEW r \in Streams, NEW other \in QueuedPools(r)', PoolTask(task) PROVE other.call # task.call
  <2>1. CASE r = s
    BY <1>3, <1>6, <2>1 DEF QueuedPools
  <2>2. CASE r # s
    <3>1. other \in InLine(r)
      BY <1>1, <1>4, <1>6, <2>2, InLineIs DEF QueuedPools, Elements
    <3> QED BY <1>1, <1>5, <2>2, <3>1 DEF LinesInOrder, Made
  <2> QED BY <2>1, <2>2
<1>0. ASSUME NEW name PROVE Found(name)' = Found(name)
  BY <1>2, FoundStays
<1>7. ASSUME NEW c, objects' = objects \/ c # task.call, NEW p
      PROVE  <<c, p>> \in objects' <=> <<c, p>> \in objects
  BY <1>2, <1>7 DEF Released
<1>8. ObjectsOfCalls' /\ objects' \subseteq objects
  BY <1>2 DEF ObjectsInHand, ObjectsOfCalls, Released
<1>9. QueuedConverted'
  <2>1. ASSUME NEW r \in Streams PROVE Once(tasks'[r]) /\ QueuedPools(r)' \subseteq QueuedPools(r)
    BY <1>3, <1>4 DEF QueuedPools, ObjectsInHand, QueuedConverted
  <2>2. ASSUME NEW r \in Streams, NEW other \in QueuedPools(r)' PROVE HasObjects(other.call)'
    BY <1>0, <1>2, <1>6, <1>7, <2>1, <2>2 DEF ObjectsInHand, QueuedConverted, HasObjects, aclCreate
  <2> QED BY <2>1, <2>2 DEF QueuedConverted
<1>10. ASSUME NEW t \in Threads PROVE ConvertedAt(t)'
  <2>1. Call(t)' = Call(t) /\ stage'[t] = stage[t] /\ converted'[t] = converted[t] /\ ConvertedAt(t)
    BY <1>2 DEF Call, ObjectsInHand
  <2>2. CASE stage[t] \in PoolBefore
    <3>1. Call(t) # task.call
      BY <1>5, <2>2, PoolStagesAre
    <3>2. ASSUME NEW p PROVE <<Call(t), p>> \in objects' <=> <<Call(t), p>> \in objects
      BY <1>7, <3>1
    <3> QED BY <1>0, <2>1, <3>2 DEF ConvertedAt, ConvertedSo, HasObjects, aclCreate
  <2>3. CASE stage[t] \notin PoolBefore
    BY <2>1, <2>3 DEF ConvertedAt, PoolBefore
  <2> QED BY <2>2, <2>3
<1>11. ASSUME NEW o \in objects', Found(aclDestroy(o[2])) PROVE Expected(o[1])'
  <2>1. Expected(o[1]) /\ (PoolTask(task) => task.call \in failed' \/ o[1] # task.call)
    BY <1>2, <1>8, <1>11 DEF ObjectsInHand, Released
  <2>2. ASSUME NEW r \in Streams, NEW other \in QueuedPools(r), other.call = o[1] PROVE Expected(o[1])'
    <3>1. CASE other \in QueuedPools(r)'
      BY <2>2, <3>1 DEF Expected
    <3>2. CASE other \notin QueuedPools(r)'
      <4>1. other = task /\ PoolTask(task)
        <5>1. PoolTask(other) /\ other \in Elements(tasks[r]) /\ other \notin Elements(tasks'[r])
          BY <2>2, <3>2 DEF QueuedPools
        <5>2. r = s
          BY <1>4, <5>1
        <5> QED BY <1>3, <5>1, <5>2
      <4> QED BY <1>2, <2>1, <2>2, <4>1 DEF Expected
    <3> QED BY <3>1, <3>2
  <2> QED BY <1>2, <2>1, <2>2 DEF Expected, Call
<1>12. ASSUME NEW o \in objects' PROVE (Expected(o[1]) \/ ~ Found(aclDestroy(o[2])))'
  BY <1>0, <1>11 DEF aclDestroy
<1>13. converted' \in [Threads -> SUBSET Params]
  BY <1>2 DEF ObjectsInHand
<1> QED BY <1>8, <1>9, <1>10, <1>12, <1>13 DEF ObjectsInHand

LEMMA ObjectsNext ==
    ASSUME BaseInv, ObjectsInHand, [Next]_vars
    PROVE  ObjectsInHand'
<1>1. /\ Shapes /\ calls \in [Threads -> Nat] /\ stage \in [Threads -> Stages]
      /\ converted \in [Threads -> SUBSET Params] /\ \A t \in Threads : ConvertedAt(t)
  BY DEF BaseInv, Shapes, ObjectsInHand
<1>2. ASSUME NEW t \in Threads, PlanStep(t), UNCHANGED aclnnVars PROVE ObjectsInHand'
  <2>1. HostStep(t) /\ UNCHANGED <<objects, converted>>
    BY <1>2, PlanStepKinds DEF aclnnVars
  <2>2. ConvertedAt(t)'
    BY <1>1, <1>2, PlanStepIs DEF PlanStages, PlanNames, KernelNames, ConvertedAt
  <2> QED BY <1>1, <2>1, <2>2, HostObjects
<1>3. ASSUME NEW t \in Threads, PoolStep(t), ~ ConvertType(t) PROVE ObjectsInHand'
  <2>1. HostStep(t)
    BY <1>1, <1>3, PoolStepKinds
  <2>2. UNCHANGED scenario
    BY <1>1, <2>1, OthersUnmoved
  <2>3. objects' = objects /\ (CallAvgPool3d(t) \/ converted' = converted)
    BY <1>3 DEF PoolStep, CallAvgPool3d, AllocateResult, PoolRaises, InitHugeMem, ConvertTypeRaises,
                GetWorkspaceSize, NoWorkspace, NeedsWorkspace, AllocateWorkspace, Run, UnInitHugeMem, aclnnVars
  <2>4. converted' \in [Threads -> SUBSET Params] /\ \A u \in Threads \ {t} : converted'[u] = converted[u]
    BY <1>1, <2>3 DEF CallAvgPool3d
  <2>5. ASSUME NEW name PROVE Found(name)' = Found(name)
    BY <2>2, FoundStays
  <2>6. ConvertedAt(t)'
    <3>1. CASE CallAvgPool3d(t)
      BY <1>1, <3>1 DEF CallAvgPool3d, CallOperator, GoTo, ConvertedAt
    <3>2. CASE AllocateResult(t)
      BY <1>1, <3>2 DEF AllocateResult, Allocate, GoTo, aclnnVars, ConvertedAt
    <3>3. CASE PoolRaises(t) \/ ConvertTypeRaises(t) \/ UnInitHugeMem(t)
      BY <1>1, <3>3 DEF PoolRaises, ConvertTypeRaises, Raise, UnInitHugeMem, Return, GoTo, ConvertedAt
    <3>4. CASE InitHugeMem(t)
      BY <1>1, <3>4 DEF InitHugeMem, GoTo, ConvertedAt, ConvertedSo
    <3>5. CASE GetWorkspaceSize(t)
      <4>1. stage[t] = "convert" /\ stage'[t] = "size" /\ Call(t)' = Call(t) /\ converted[t] = Params
        BY <1>1, <3>5 DEF GetWorkspaceSize, GoTo, Call
      <4>2. HasObjects(Call(t))
        BY <1>1, <4>1 DEF ConvertedAt, ConvertedSo, HasObjects
      <4>3. HasObjects(Call(t))'
        BY <2>3, <2>5, <4>1, <4>2 DEF HasObjects, aclCreate
      <4> QED BY <4>1, <4>3 DEF ConvertedAt
    <3>6. CASE NoWorkspace(t) \/ NeedsWorkspace(t) \/ AllocateWorkspace(t) \/ Run(t)
      <4>1. /\ stage[t] \in {"size", "workspace", "submit"} /\ stage'[t] \in {"workspace", "submit", "unInit"}
            /\ Call(t)' = Call(t)
        BY <1>1, <3>6 DEF NoWorkspace, NeedsWorkspace, AllocateWorkspace, Run, GoTo, Call
      <4>2. HasObjects(Call(t))
        BY <1>1, <4>1 DEF ConvertedAt
      <4>3. HasObjects(Call(t))'
        BY <2>3, <2>5, <4>1, <4>2 DEF HasObjects, aclCreate
      <4> QED BY <4>1, <4>3 DEF ConvertedAt
    <3> QED BY <1>3, <3>1, <3>2, <3>3, <3>4, <3>5, <3>6 DEF PoolStep
  <2> QED BY <2>1, <2>3, <2>4, <2>6, HostObjects
<1>4. ASSUME UNCHANGED <<objects, converted, calls, stage, tasks, failed, scenario>> PROVE ObjectsInHand'
  <2>1. ASSUME NEW name PROVE Found(name)' = Found(name)
    BY <1>4, FoundStays
  <2> QED BY <1>4, <2>1 DEF ObjectsInHand, ObjectsOfCalls, QueuedConverted, QueuedPools, ConvertedAt, ConvertedSo,
                            Expected, HasObjects, Call, aclCreate, aclDestroy
<1>5. ASSUME NEW s \in Streams, Device(s) PROVE ObjectsInHand'
  BY <1>4, <1>5 DEF Device, Begin, End, hostVars, aclnnVars
<1>6. CASE UNCHANGED vars
  BY <1>4, <1>6 DEF vars, runtimeVars, hostVars, queueVars, aclnnVars
<1> QED BY <1>2, <1>3, <1>5, <1>6, ConvertObjects, ConsumerObjects DEF Next, Thread, Done

LEMMA ObjectsInvariant == Spec => []ObjectsInHand
<1>1. OperatorsInit => ObjectsInHand
  <2> SUFFICES ASSUME OperatorsInit PROVE ObjectsInHand
    OBVIOUS
  <2>1. /\ objects = {} /\ (\A t \in Threads : stage[t] = "caller") /\ \A s \in Streams : tasks[s] = <<>>
        /\ converted \in [Threads -> SUBSET Params]
    BY DEF OperatorsInit, Init, AclnnInit
  <2> QED BY <2>1 DEF ObjectsInHand, ObjectsOfCalls, QueuedConverted, QueuedPools, Once, Elements, ConvertedAt
<1>2. BaseInv /\ ObjectsInHand /\ [Next]_vars => ObjectsInHand'
  BY ObjectsNext
<1> QED BY <1>1, <1>2, OperatorsInvariant, PTL DEF Spec

\* The task of avg_pool3d finds an object for every parameter whose type the libraries can
\* create when the consumer comes to it, whatever other calls have released by then; an
\* object that stays behind belongs to a call that failed or is still on its way, or is
\* of a type that the libraries cannot destroy.
THEOREM ObjectsOutliveTheQueue == Spec => []ObjectsLiveForTheirCall
<1>1. ASSUME BaseInv, ObjectsInHand PROVE ObjectsLiveForTheirCall
  <2>1. ASSUME NEW s \in Streams, NEW i \in 1..Len(tasks[s]), tasks[s][i].kernel = "aclnnAvgPool3d"
        PROVE  HasObjects(tasks[s][i].call)
    <3>1. tasks[s][i] \in QueuedPools(s)
      BY <2>1 DEF QueuedPools, Elements, PoolTask
    <3> QED BY <1>1, <3>1 DEF ObjectsInHand, QueuedConverted
  <2>2. ASSUME NEW o \in objects, Found(aclDestroy(o[2]))
        PROVE  \/ o[1] \in failed
               \/ o[1] = Call(o[1][1]) /\ stage[o[1][1]] # "caller"
               \/ \E s \in Streams : \E i \in 1..Len(tasks[s]) : tasks[s][i].call = o[1]
    <3>1. Expected(o[1])
      BY <1>1, <2>2 DEF ObjectsInHand
    <3>2. ASSUME NEW t \in Threads, o[1] = Call(t) PROVE o[1][1] = t
      BY <3>2 DEF Call
    <3> QED BY <3>1, <3>2 DEF Expected, QueuedPools, Elements
  <2> QED BY <2>1, <2>2 DEF ObjectsLiveForTheirCall
<1> QED BY <1>1, OperatorsInvariant, ObjectsInvariant, PTL

\* Every tensor and result of every call has a block of its own thread's stream, all that is
\* queued belongs to calls that were made, and no huge memory is closed that is not open,
\* unless the libraries can only close it.
THEOREM RuntimeTypeCorrect == Spec => []RuntimeTypeOK
<1>1. ASSUME BaseInv, HugeMemInHand, ObjectsInHand PROVE RuntimeTypeOK
  <2>1. Shapes /\ BlocksInHand /\ LinesInOrder
    BY <1>1 DEF BaseInv
  <2>2. ASSUME NEW t \in Threads
        PROVE  /\ calls[t] \in 0..Len(scenario.threads[t].operators)
               /\ \A name \in DOMAIN tensors[t] : pool[tensors[t][name]] = StreamOf(t)
               /\ pool[kept[t].lru.block] = StreamOf(t)
               /\ workspace[t] \in Blocks \cup {0}
               /\ hugeMem[t] \in Int
               /\ Found("InitHugeMemThreadLocal") => hugeMem[t] \in Nat
    <3>1. calls[t] \in 0..Len(scenario.threads[t].operators)
      <4>1. calls[t] \in Nat /\ calls[t] <= Len(scenario.threads[t].operators)
        BY <2>1 DEF Shapes
      <4>2. Len(scenario.threads[t].operators) \in Nat
        BY <2>1, RuntimeAssumption DEF Shapes
      <4> QED BY <4>1, <4>2
    <3>2. DOMAIN tensors[t] = TensorsAt(stage[t])
      BY <2>1 DEF Shapes
    <3> QED BY <1>1, <2>1, <3>1, <3>2, OwnBlocksAre, OpenIsCounted DEF Shapes
  <2>3. ASSUME NEW s \in Streams, NEW i \in 1..Len(tasks[s])
        PROVE  tasks[s][i].call[2] \in 1..calls[tasks[s][i].call[1]]
    <3>1. tasks[s][i] \in InLine(s)
      BY <2>1, InLineIs
    <3> QED BY <2>1, <3>1 DEF LinesInOrder, Made
  <2> QED BY <1>1, <2>2, <2>3 DEF RuntimeTypeOK, ObjectsInHand, ObjectsOfCalls
<1> QED BY <1>1, OperatorsInvariant, HugeMemInvariant, ObjectsInvariant, PTL

------------------------------------------------------------------------------
\* What will be found, step by step.

\* What is so for a block of stream r at place i is so at place j once the step is taken.
Carries(r, i, j) ==
    \A b \in Blocks : \A c, K : pool[b] = r /\ WillHold(r, i, b, c, K) => WillHold(r, j, b, c, K)'

\* Nothing but the end of the line changes.
LEMMA HoldsOn ==
    ASSUME NEW r, NEW i \in Nat, \A j \in 1 .. i - 1 : Line(r)'[j] = Line(r)[j], failed \subseteq failed',
           \A b \in Blocks : pool[b] = r => memory'[b] = memory[b]
    PROVE  Carries(r, i, i)
<1> SUFFICES ASSUME NEW b \in Blocks, NEW c, NEW K, pool[b] = r, WillHold(r, i, b, c, K)
             PROVE  WillHold(r, i, b, c, K)'
  BY DEF Carries
<1>1. memory'[b] = memory[b] /\ Holds(Line(r), i, memory, failed, b, c, K)
  BY DEF WillHold
<1>2. Holds(Line(r)', i, memory', failed', b, c, K)
  BY <1>1, HoldsBefore
<1> QED BY <1>2 DEF WillHold

LEMMA LostHolds ==
    ASSUME NEW r, NEW i \in Nat \ {0}, NEW p \in Nat, LostFromLine(r, p), Len(Line(r)) \in Nat, i <= Len(Line(r)) + 1,
           NEW n, n = IF p < i THEN i - 1 ELSE i, memory' = memory, failed \subseteq failed'
    PROVE  Carries(r, i, n)
<1> SUFFICES ASSUME NEW b \in Blocks, NEW c, NEW K, WillHold(r, i, b, c, K)
             PROVE  WillHold(r, n, b, c, K)'
  BY DEF Carries
<1>1. /\ n \in Nat \ {0} /\ p \in Nat \ {0}
      /\ \A j \in 1 .. n - 1 : Line(r)'[j] = IF j < p THEN Line(r)[j] ELSE Line(r)[j + 1]
      /\ Line(r)[p].call \in failed'
  BY DEF LostFromLine
<1>2. Holds(Line(r), i, memory, failed, b, c, K)
  BY DEF WillHold
<1>3. Holds(Line(r)', n, memory, failed', b, c, K)
  BY ONLY <1>1, <1>2, HoldsWithout, i \in Nat \ {0}, p \in Nat, n = IF p < i THEN i - 1 ELSE i, failed \subseteq failed'
<1> QED BY <1>3 DEF WillHold

LEMMA EndedHolds ==
    ASSUME NEW r \in Streams, NEW i \in Nat, i >= 2, EndedInLine(r), End(r), Len(Line(r)') \in Nat, i <= Len(Line(r)) + 1
    PROVE  Carries(r, i, i - 1)
<1> SUFFICES ASSUME NEW b \in Blocks, NEW c, NEW K, WillHold(r, i, b, c, K)
             PROVE  WillHold(r, i - 1, b, c, K)'
  BY DEF Carries
<1>1. \A j \in 1 .. i - 2 : Line(r)'[j] = Line(r)[j + 1]
  BY DEF EndedInLine
<1>2. /\ b \notin running[r].writes => memory'[b] = memory[b]
      /\ b \in running[r].writes =>
             /\ memory'[b].call = running[r].call
             /\ memory'[b].by = {running[r].kernel} \cup IF memory[b].call = running[r].call THEN memory[b].by ELSE {}
      /\ failed' = failed
  BY DEF End, Written
<1>3. Line(r)[1] = running[r]
  BY DEF EndedInLine
<1>4. Holds(Line(r), i, memory, failed, b, c, K)
  BY DEF WillHold
<1>5. Holds(Line(r)', i - 1, memory', failed, b, c, K)
  BY <1>1, <1>2, <1>3, <1>4, HoldsBehindHead
<1> QED BY <1>2, <1>5 DEF WillHold

EndCarried(r) == \A i, j \in Nat : i = Len(Line(r)) + 1 /\ j = Len(Line(r)') + 1 => Carries(r, i, j)

KernelsCarried(r) ==
    \A j \in 1..Len(Line(r)') : \E i \in 1..Len(Line(r)) : Line(r)'[j] = Line(r)[i] /\ Carries(r, i, j)

LEMMA StayCarries ==
    ASSUME NEW r, LineStays(r), Len(Line(r)) \in Nat, failed \subseteq failed',
           \A b \in Blocks : pool[b] = r => memory'[b] = memory[b]
    PROVE  EndCarried(r) /\ KernelsCarried(r)
<1>1. ASSUME NEW i \in Nat PROVE Carries(r, i, i)
  BY HoldsOn DEF LineStays
<1>2. Line(r)' = Line(r)
  BY DEF LineStays
<1> QED BY <1>1, <1>2 DEF EndCarried, KernelsCarried

LEMMA LostCarries ==
    ASSUME NEW r, NEW p \in Nat, LostFromLine(r, p), Len(Line(r)) \in Nat, memory' = memory, failed \subseteq failed'
    PROVE  EndCarried(r) /\ KernelsCarried(r)
<1>1. ASSUME NEW i \in Nat \ {0}, i <= Len(Line(r)) + 1, NEW j, j = IF p < i THEN i - 1 ELSE i PROVE Carries(r, i, j)
  BY <1>1, LostHolds
<1>2. p \in 1..Len(Line(r)) /\ Len(Line(r)') = Len(Line(r)) - 1
  BY DEF LostFromLine
<1>3. ASSUME NEW i \in Nat, NEW j \in Nat, i = Len(Line(r)) + 1, j = Len(Line(r)') + 1 PROVE Carries(r, i, j)
  <2>1. i \in Nat \ {0} /\ i <= Len(Line(r)) + 1 /\ j = IF p < i THEN i - 1 ELSE i
    BY <1>2, <1>3
  <2> QED BY ONLY <1>1, <2>1
<1>4. ASSUME NEW j \in 1..Len(Line(r)')
      PROVE  \E i \in 1..Len(Line(r)) : Line(r)'[j] = Line(r)[i] /\ Carries(r, i, j)
  <2> DEFINE i == IF j < p THEN j ELSE j + 1
  <2>1. Line(r)'[j] = Line(r)[i]
    BY DEF LostFromLine
  <2>2. i \in 1..Len(Line(r)) /\ i \in Nat \ {0} /\ i <= Len(Line(r)) + 1 /\ j = IF p < i THEN i - 1 ELSE i
    BY <1>2
  <2> HIDE DEF i
  <2> QED BY ONLY <1>1, <2>1, <2>2
<1> QED BY <1>3, <1>4 DEF EndCarried, KernelsCarried

LEMMA EndedCarries ==
    ASSUME NEW r \in Streams, EndedInLine(r), End(r), Len(Line(r)') \in Nat
    PROVE  EndCarried(r) /\ KernelsCarried(r)
<1>1. Len(Line(r)) = Len(Line(r)') + 1 /\ \A j \in 1..Len(Line(r)') : Line(r)'[j] = Line(r)[j + 1]
  BY DEF EndedInLine
<1>2. ASSUME NEW i \in Nat, NEW j \in Nat \ {0}, i = j + 1, j <= Len(Line(r)') + 1 PROVE Carries(r, i, j)
  <2>1. i >= 2 /\ i <= Len(Line(r)) + 1 /\ i - 1 = j
    BY <1>1, <1>2
  <2>2. Carries(r, i, i - 1)
    BY <2>1, EndedHolds
  <2> QED BY <2>1, <2>2
<1>3. ASSUME NEW i \in Nat, NEW j \in Nat, i = Len(Line(r)) + 1, j = Len(Line(r)') + 1 PROVE Carries(r, i, j)
  BY <1>1, <1>2, <1>3
<1>4. ASSUME NEW j \in 1..Len(Line(r)')
      PROVE  Line(r)'[j] = Line(r)[j + 1] /\ Carries(r, j + 1, j) /\ j + 1 \in 1..Len(Line(r))
  BY <1>1, <1>2
<1> QED BY <1>3, <1>4 DEF EndCarried, KernelsCarried

\* A step of a queue or of the device carries every kernel and the end of every line.
LEMMA QueueCarries ==
    ASSUME Shapes, Shapes', LinesInOrder, NEW s \in Streams, QueueStep(s), NEW r \in Streams
    PROVE  EndCarried(r) /\ KernelsCarried(r)
<1>1. Len(Line(r)) \in Nat /\ Len(Line(r)') \in Nat
  BY LineLengths DEF LinesHaveLengths
<1>2. failed \subseteq failed'
  BY DEF QueueStep, Passed, Lost, Begin, End
<1>3. CASE LineStays(r) /\ UNCHANGED memory
  BY <1>1, <1>2, <1>3, StayCarries
<1>4. ASSUME NEW p \in Nat, LostFromLine(s, p), Lost(s), r = s PROVE EndCarried(r) /\ KernelsCarried(r)
  <2>1. memory' = memory
    BY <1>4 DEF Lost
  <2> QED BY <1>1, <1>2, <1>4, <2>1, LostCarries
<1>5. CASE EndedInLine(s) /\ End(s) /\ r = s
  BY <1>1, <1>5, EndedCarries
<1>6. CASE End(s) /\ r # s
  <2>1. running[s] \in InLine(s)
    BY <1>6, InLineIs DEF End
  <2>2. ASSUME NEW b \in Blocks, pool[b] = r PROVE memory'[b] = memory[b]
    <3>1. b \notin running[s].writes
      BY <1>6, <2>1, <2>2 DEF LinesInOrder, OnStream
    <3> QED BY <1>6, <3>1 DEF End
  <2>3. LineStays(r)
    BY <1>6, QueueLines DEF OtherLinesStay
  <2> QED BY <1>1, <1>2, <2>2, <2>3, StayCarries
<1>7. CASE Lost(s) /\ r # s
  BY <1>1, <1>2, <1>7, StayCarries, QueueLines DEF OtherLinesStay, Lost
<1>8. CASE LineStays(s) /\ UNCHANGED memory
  BY <1>3, <1>8, QueueLines DEF OtherLinesStay
<1> QED BY <1>3, <1>4, <1>5, <1>6, <1>7, <1>8, QueueLines

LEMMA SubmittedIs ==
    ASSUME NEW at
    PROVE  /\ at \in Before \cup {"caller"} => Submitted(at) = {}
           /\ at = "candidate_local" => Submitted(at) = {"hit_local"}
           /\ at = "materialize" => Submitted(at) = {"hit_local", "candidate_local"}
           /\ at = "keep_scan_write" => Submitted(at) = {"hit_local", "candidate_local", "materialize"}
           /\ at = "return" => Submitted(at) = KernelNames
           /\ at = "unInit" => Submitted(at) = {"aclnnAvgPool3d"}
BY DEF Submitted, Before, PlanBefore, PoolBefore, PlanNames, KernelNames

\* A name takes over what another stood for, or keeps it.
Inherits(t, name, from) ==
    /\ from \in Names(t) /\ BlockAt(t, name)' = BlockAt(t, from)
    /\ CallAt(t, name)' = CallAt(t, from) /\ ByAt(t, name)' = ByAt(t, from)

LEMMA NameCarried ==
    ASSUME Shapes, Shapes', BlocksInHand, NEW u \in Threads, NEW name, NEW from, Inherits(u, name, from),
           UNCHANGED scenario, EndCarried(StreamOf(u)), NameHolds(u, from)
    PROVE  NameHolds(u, name)'
<1>1. PICK r \in Streams : r = StreamOf(u)
  BY StreamIs
<1>2. r = StreamOf(u)'
  BY <1>1 DEF StreamOf
<1>3. PICK b \in Blocks : b = BlockAt(u, from)
  BY DEF BlocksInHand, OwnBlocks, Inherits
<1>4. pool[b] = r
  BY <1>1, <1>3 DEF BlocksInHand, OwnBlocks, Inherits
<1>5. PICK i \in Nat : i = Len(Line(r)) + 1
  BY LineLengths DEF LinesHaveLengths
<1>6. PICK j \in Nat : j = Len(Line(r)') + 1
  BY LineLengths DEF LinesHaveLengths
<1>7. PICK c : c = CallAt(u, from)
  OBVIOUS
<1>8. PICK K : K = ByAt(u, from)
  OBVIOUS
<1>9. WillHold(r, i, b, c, K)
  BY <1>1, <1>3, <1>5, <1>7, <1>8 DEF NameHolds
<1>10. Carries(r, i, j)
  <2>1. Line(StreamOf(u))' = Line(r)'
    BY <1>2 DEF Line
  <2> QED BY <1>1, <1>5, <1>6, <2>1 DEF EndCarried
<1>11. WillHold(r, j, b, c, K)'
  BY <1>4, <1>9, <1>10 DEF Carries
<1>12. b = BlockAt(u, name)' /\ c = CallAt(u, name)' /\ K = ByAt(u, name)'
  BY <1>3, <1>7, <1>8 DEF Inherits
<1> QED BY <1>2, <1>6, <1>11, <1>12 DEF NameHolds, WillHold, Line

LEMMA InheritsElsewhere ==
    ASSUME Shapes, NEW t \in Threads, HostStep(t), NEW u \in Threads \ {t}, NEW name \in Names(u)'
    PROVE  Inherits(u, name, name)
BY OthersUnmoved DEF Inherits, Names, BlockAt, CallAt, ByAt, Call

LEMMA TensorNames ==
    ASSUME NEW at \in Stages
    PROVE  "lru" \notin TensorsAt(at) /\ "pooled" \notin TensorsAt(at)
BY TensorsAtIs DEF Stages, Before, PlanBefore, PlanBehind, PlanNames, KernelNames, PoolStages, PoolBefore

LEMMA InheritsKept ==
    ASSUME Shapes', NEW t \in Threads, kept'[t] = kept[t], NEW name \in Names(t)', name \in {"lru", "pooled"}
    PROVE  Inherits(t, name, name)
<1>1. name \notin TensorsAt(stage'[t])
  BY TensorNames DEF Shapes
<1> QED BY <1>1 DEF Inherits, Names, BlockAt, CallAt, ByAt

LEMMA InheritsTensor ==
    ASSUME NEW t \in Threads, NEW name \in TensorsAt(stage[t]), Stands(t, name), name \notin {"lru", "pooled"},
           calls'[t] = calls[t], Submitted(stage'[t]) = Submitted(stage[t])
    PROVE  Inherits(t, name, name)
BY DEF Inherits, Stands, CallAt, ByAt, Call

LEMMA InheritsResult ==
    ASSUME Shapes, NEW t \in Threads, NewResult(t), NEW name \in Names(t)'
    PROVE  \E from : Inherits(t, name, from)
<1>1. OtherShapes
  BY OthersAre
<1>2. name \in {"lru", "pooled"} /\ calls'[t] = calls[t] /\ (name = "pooled" => kept'[t].pooled.block # 0)
  BY StageIs, TensorsAtIs DEF Names
<1>3. CASE stage[t] = "return" /\ Return(t, "newLru", "lru", kept[t].lru.from)
  <2>1. /\ kept'[t].lru.block = tensors[t]["newLru"] /\ kept'[t].lru.call = Call(t)
        /\ kept'[t].pooled = kept[t].pooled
    BY <1>1, <1>3 DEF Return, OtherShapes, Result
  <2>2. CASE name = "lru"
    <3>1. "newLru" \in Names(t)
      BY <1>3, TensorsAtIs DEF PlanNames, Names
    <3>2. WritersOf("newLru") \cap Submitted(stage[t]) = WholePlan
      BY <1>3, SubmittedIs DEF WritersOf, KernelNames, WholePlan
    <3>3. Inherits(t, "lru", "newLru")
      BY <2>1, <3>1, <3>2 DEF Inherits, BlockAt, CallAt, ByAt
    <3> QED BY <2>2, <3>3
  <2>3. CASE name = "pooled"
    BY <1>2, <2>1, <2>3 DEF Inherits, Names, BlockAt, CallAt, ByAt
  <2> QED BY <1>2, <2>2, <2>3
<1>4. CASE stage[t] = "unInit" /\ Return(t, "result", "pooled", {})
  <2>1. /\ kept'[t].pooled.block = tensors[t]["result"] /\ kept'[t].pooled.call = Call(t)
        /\ kept'[t].lru = kept[t].lru
    BY <1>1, <1>4 DEF Return, OtherShapes, Result
  <2>2. CASE name = "pooled"
    <3>1. "result" \in Names(t)
      BY <1>4, TensorsAtIs DEF PoolStages, Names
    <3>2. WritersOf("result") \cap Submitted(stage[t]) = {"aclnnAvgPool3d"}
      BY <1>4, SubmittedIs DEF WritersOf
    <3>3. Inherits(t, "pooled", "result")
      BY <2>1, <3>1, <3>2 DEF Inherits, BlockAt, CallAt, ByAt
    <3> QED BY <2>2, <3>3
  <2>3. CASE name = "lru"
    BY <2>1, <2>3 DEF Inherits, Names, BlockAt, CallAt, ByAt
  <2> QED BY <1>2, <2>2, <2>3
<1> QED BY <1>3, <1>4 DEF NewResult

\* Without a new kernel, every name inherits or is new.
LEMMA HostInherits ==
    ASSUME Shapes, Shapes', BlocksInHand, NEW t \in Threads, HostStep(t),
           ~ \E kernel, next : NewKernel(t, kernel, next), NEW name \in Names(t)'
    PROVE  \/ \E from : Inherits(t, name, from)
           \/ \E b, next : NewTensor(t, name, next) /\ Added(t, name, b)
<1>1. CASE NewResult(t)
  BY <1>1, InheritsResult
<1>2. CASE NewCall(t) \/ Error(t)
  <2>1. name \in {"lru", "pooled"} /\ kept' = kept
    BY <1>2, StageIs, TensorsAtIs DEF Names, NewCall, Error, Raise
  <2> QED BY <2>1, InheritsKept
<1>3. CASE Proceed(t) \/ NewWorkspace(t)
  <2>1. /\ TensorsAt(stage'[t]) = {"result"} /\ TensorsAt(stage[t]) = {"result"}
        /\ Submitted(stage'[t]) = {} /\ Submitted(stage[t]) = {}
    BY <1>3, StageIs, TensorsAtIs, SubmittedIs DEF PoolStages, PoolBefore, Before
  <2>2. kept' = kept /\ tensors' = tensors /\ calls' = calls
    BY <1>3 DEF Proceed, NewWorkspace
  <2>3. CASE name \in {"lru", "pooled"}
    BY <2>2, <2>3, InheritsKept
  <2>4. CASE name \notin {"lru", "pooled"}
    <3>1. name = "result"
      BY <2>1, <2>4 DEF Names
    <3>2. Stands(t, "result")
      BY <2>1, <2>2 DEF Stands, Names, BlockAt
    <3> QED BY <2>1, <2>2, <3>1, <3>2, InheritsTensor
  <2> QED BY <2>3, <2>4
<1>4. ASSUME NEW new, NEW next, NewTensor(t, new, next)
      PROVE  \/ \E from : Inherits(t, name, from)
             \/ \E b : NewTensor(t, name, next) /\ Added(t, name, b)
  <2>1. /\ Submitted(stage'[t]) = {} /\ Submitted(stage[t]) = {}
        /\ kept' = kept /\ calls' = calls
    <3>1. stage[t] \in Before /\ stage'[t] \in Before
      BY <1>4, StageIs DEF Before, PlanBefore, PoolBefore, PlanNames
    <3> QED BY <1>4, <3>1, SubmittedIs DEF NewTensor, Allocate
  <2>2. PICK b : Added(t, new, b)
    BY <1>4, TensorAdded
  <2>3. CASE name = new
    BY <1>4, <2>2, <2>3
  <2>4. CASE name \in {"lru", "pooled"}
    BY <2>1, <2>4, InheritsKept
  <2>5. CASE name # new /\ name \notin {"lru", "pooled"}
    <3>1. Stands(t, name)
      BY <2>2, <2>5 DEF Added
    <3>2. name \in TensorsAt(stage[t])
      BY <2>5, <3>1 DEF Stands, Names
    <3> QED BY <2>1, <2>5, <3>1, <3>2, InheritsTensor
  <2> QED BY <2>3, <2>4, <2>5
<1> QED BY <1>1, <1>2, <1>3, <1>4 DEF HostStep

\* Nobody has written the block for a call that is not heard of.
LEMMA NewNameHolds ==
    ASSUME BaseInv, BaseInv', NEW t \in Threads, HostStep(t), NEW name, NEW next, NewTensor(t, name, next),
           NEW b, Added(t, name, b), LineStays(StreamOf(t)), name \notin {"lru", "pooled"}
    PROVE  NameHolds(t, name)'
<1>1. Shapes /\ Shapes' /\ CallsInTurn
  BY DEF BaseInv
<1>2. PICK r \in Streams : r = StreamOf(t)
  BY <1>1, StreamIs
<1>3. PICK c : c = Call(t)
  OBVIOUS
<1>4. Line(r)' = Line(r) /\ memory' = memory /\ r = StreamOf(t)'
  BY <1>1, <1>2, OthersUnmoved DEF LineStays, StreamOf
<1>5. stage[t] \in Before /\ stage'[t] \in Before /\ calls'[t] = calls[t]
  BY <1>1, StageIs DEF Before, PlanBefore, PoolBefore, PlanNames
<1>6. BlockAt(t, name)' = b /\ CallAt(t, name)' = c /\ ByAt(t, name)' = {} /\ b \in Blocks
  <2>1. Submitted(stage'[t]) = {}
    BY <1>5, SubmittedIs
  <2> QED BY <1>3, <1>5, <2>1 DEF CallAt, ByAt, Call, Added
<1>7. Unheard(c)
  BY <1>1, <1>3, <1>5 DEF CallsInTurn, ToCome, Call, Shapes
<1>8. memory[b].call # c /\ \A k \in 1..Len(Line(r)) : Line(r)[k].call # c
  BY <1>2, <1>6, <1>7 DEF Unheard, InLine, Elements
<1>9. PICK n \in Nat : n = Len(Line(r))
  BY <1>1, LineLengths DEF LinesHaveLengths
<1>10. Holds(Line(r)', n + 1, memory', failed', b, c, {})
  <2>1. 1 .. (n + 1) - 1 = 1 .. n
    OBVIOUS
  <2> QED BY <1>4, <1>8, <1>9, <2>1 DEF Holds, OnlyBy
<1>11. WillHold(r, n + 1, b, c, {})'
  BY <1>10 DEF WillHold
<1> QED BY <1>4, <1>6, <1>9, <1>11 DEF NameHolds, WillHold, Line

\* Every host step that submits no kernel.
LEMMA HostHolds ==
    ASSUME BaseInv, BaseInv', NamesWillHold, NEW t \in Threads, HostStep(t),
           ~ \E kernel, next : NewKernel(t, kernel, next)
    PROVE  /\ NamesWillHold'
           /\ \A r \in Streams : EndCarried(r) /\ KernelsCarried(r)
<1>1. Shapes /\ Shapes' /\ BlocksInHand /\ BlocksInHand'
  BY DEF BaseInv
<1>2. LinesStay
  BY <1>1, HostLines
<1>3. UNCHANGED <<scenario, memory>> /\ failed \subseteq failed'
  <2>1. failed \subseteq failed'
    BY DEF HostStep, NewCall, Error, Raise, NewResult, Return, Proceed, NewWorkspace, NewTensor, Allocate
  <2> QED BY <1>1, <2>1, OthersUnmoved
<1>4. ASSUME NEW r \in Streams PROVE EndCarried(r) /\ KernelsCarried(r)
  BY <1>1, <1>2, <1>3, StayCarries, LineLengths DEF LinesHaveLengths, LinesStay
<1>5. ASSUME NEW u \in Threads, NEW name, NEW from, Inherits(u, name, from) PROVE NameHolds(u, name)'
  <2>1. EndCarried(StreamOf(u))
    BY <1>1, <1>4, StreamIs
  <2>2. NameHolds(u, from)
    BY <1>5 DEF NamesWillHold, Inherits
  <2> QED BY <1>1, <1>3, <1>5, <2>1, <2>2, NameCarried
<1>6. ASSUME NEW u \in Threads \ {t}, NEW name \in Names(u)' PROVE NameHolds(u, name)'
  BY <1>1, <1>5, InheritsElsewhere
<1>7. ASSUME NEW name \in Names(t)' PROVE NameHolds(t, name)'
  <2>1. ASSUME NEW b, NEW next, NewTensor(t, name, next), Added(t, name, b) PROVE NameHolds(t, name)'
    <3>1. LineStays(StreamOf(t)) /\ name \notin {"lru", "pooled"}
      BY <1>1, <1>2, <2>1, StreamIs DEF LinesStay, NewTensor
    <3> QED BY <2>1, <3>1, NewNameHolds
  <2> QED BY <1>1, <1>5, <1>7, <2>1, HostInherits
<1> QED BY <1>4, <1>6, <1>7 DEF NamesWillHold

------------------------------------------------------------------------------
\* What will be found when a kernel is submitted.

\* A kernel writes exactly those tensors of its call that it is a writer of.
LEMMA KernelWrites ==
    ASSUME Shapes, BlocksInHand, NEW t \in Threads, NEW kernel, NEW next, NewKernel(t, kernel, next),
           NEW name \in TensorsAt(stage[t])
    PROVE  /\ tensors[t][name] \in kernel.writes <=> kernel.kernel \in WritersOf(name)
           /\ WritersOf(name) \cap Submitted(next) =
                 (WritersOf(name) \cap Submitted(stage[t]))
                     \cup (IF kernel.kernel \in WritersOf(name) THEN {kernel.kernel} ELSE {})
<1>1. CASE stage[t] = "submit"
  <2>1. name = "result" /\ next = "unInit"
    BY <1>1, TensorsAtIs DEF PoolStages, PoolBefore, NewKernel
  <2>2. kernel.kernel = "aclnnAvgPool3d" /\ tensors[t].result \in kernel.writes
    BY <1>1 DEF NewKernel
  <2>3. Submitted(next) = {"aclnnAvgPool3d"} /\ Submitted(stage[t]) = {} /\ WritersOf(name) = {"aclnnAvgPool3d"}
    BY <1>1, <2>1, SubmittedIs DEF Before, PoolBefore, WritersOf
  <2> QED BY <2>1, <2>2, <2>3
<1>2. CASE stage[t] # "submit"
  <2>1. /\ kernel.kernel = stage[t] /\ kernel.writes = PlanWrites(t, stage[t])
        /\ <<stage[t], next>> \in {<<"hit_local", "candidate_local">>, <<"candidate_local", "materialize">>,
                                   <<"materialize", "keep_scan_write">>, <<"keep_scan_write", "return">>}
    BY <1>2 DEF NewKernel, PlanKernel
  <2>2. TensorsAt(stage[t]) = PlanNames
    BY <2>1, TensorsAtIs DEF KernelNames
  <2>3. ASSUME NEW x \in PlanNames, NEW y \in PlanNames, tensors[t][x] = tensors[t][y] PROVE x = y
    <3>1. /\ x \in Names(t) /\ y \in Names(t)
          /\ BlockAt(t, x) = tensors[t][x] /\ BlockAt(t, y) = tensors[t][y]
      BY <2>2, OwnBlocksAre
    <3> QED BY <2>3, <3>1 DEF BlocksInHand, Apart
  <2>4. /\ tensors[t].newLru = tensors[t]["newLru"]
        /\ tensors[t].hitWorkspace = tensors[t]["hitWorkspace"]
        /\ tensors[t].candidateWorkspace = tensors[t]["candidateWorkspace"]
        /\ tensors[t].keepWorkspace = tensors[t]["keepWorkspace"]
    OBVIOUS
  <2>5. /\ stage[t] = "hit_local" => kernel.writes = {tensors[t]["hitWorkspace"]}
        /\ stage[t] = "candidate_local" => kernel.writes = {tensors[t]["candidateWorkspace"]}
        /\ stage[t] = "materialize" => kernel.writes = {tensors[t]["keepWorkspace"], tensors[t]["newLru"]}
        /\ stage[t] = "keep_scan_write" => kernel.writes = {tensors[t]["newLru"]}
    BY <2>1, <2>4 DEF PlanWrites
  <2>6. /\ WritersOf("newLru") = {"materialize", "keep_scan_write"} /\ WritersOf("hitWorkspace") = {"hit_local"}
        /\ WritersOf("candidateWorkspace") = {"candidate_local"} /\ WritersOf("keepWorkspace") = {"materialize"}
    BY DEF WritersOf, WholePlan
  <2>7. name \in {"newLru", "hitWorkspace", "candidateWorkspace", "keepWorkspace"}
    BY <2>2 DEF PlanNames
  <2>8. /\ Submitted("hit_local") = {} /\ Submitted("candidate_local") = {"hit_local"}
        /\ Submitted("materialize") = {"hit_local", "candidate_local"}
        /\ Submitted("keep_scan_write") = {"hit_local", "candidate_local", "materialize"}
        /\ Submitted("return") = {"hit_local", "candidate_local", "materialize", "keep_scan_write"}
    BY SubmittedIs DEF Before, PlanBefore, KernelNames
  <2>9. tensors[t][name] \in kernel.writes <=> kernel.kernel \in WritersOf(name)
    <3>1. \A x, y \in {"newLru", "hitWorkspace", "candidateWorkspace", "keepWorkspace"} :
             tensors[t][x] = tensors[t][y] => x = y
      BY <2>3 DEF PlanNames
    <3> QED BY ONLY <2>1, <2>5, <2>6, <2>7, <3>1
  <2>10. WritersOf(name) \cap Submitted(next) =
            (WritersOf(name) \cap Submitted(stage[t]))
                \cup (IF kernel.kernel \in WritersOf(name) THEN {kernel.kernel} ELSE {})
    BY ONLY <2>1, <2>6, <2>7, <2>8
  <2> QED BY <2>9, <2>10
<1> QED BY <1>1, <1>2

\* No other block that anybody refers to is written: here it matters that a thread that
\* calls avg_pool3d has its stream to itself.
LEMMA KernelSpares ==
    ASSUME PoolsAlone, BaseInv, NEW t \in Threads, WorkspaceApart(t), NEW kernel, NEW next, NewKernel(t, kernel, next),
           NEW u \in Threads, StreamOf(u) = StreamOf(t), NEW name \in Names(u), BlockAt(u, name) \in kernel.writes
    PROVE  u = t /\ name \in TensorsAt(stage[t])
<1>1. Shapes /\ BlocksInHand /\ CallsInTurn
  BY DEF BaseInv
<1>2. Fits(t, kernel)
  BY <1>1, KernelFits DEF BlocksInHand
<1>3. ASSUME NEW other \in TensorsAt(stage[t]), BlockAt(u, name) = tensors[t][other] PROVE u = t /\ name \in TensorsAt(stage[t])
  <2>1. other \in Names(t) /\ BlockAt(t, other) = tensors[t][other]
    BY <1>1, OwnBlocksAre
  <2> QED BY <1>1, <1>3, <2>1 DEF BlocksInHand, Apart
<1>4. CASE stage[t] = "submit" /\ BlockAt(u, name) = workspace[t]
  <2>1. u = t
    <3>1. calls[t] \in 1..Len(scenario.threads[t].operators) /\ scenario \in Scenarios
      <4>1. calls[t] \in Nat /\ calls[t] <= Len(scenario.threads[t].operators) /\ scenario \in Scenarios
        BY <1>1 DEF Shapes
      <4>2. Len(scenario.threads[t].operators) \in Nat
        BY <4>1, RuntimeAssumption
      <4>3. calls[t] >= 1
        BY <1>1, <1>4 DEF CallsInTurn, InTurn
      <4> QED BY <4>1, <4>2, <4>3
    <3>2. scenario.threads[t].operators[calls[t]] = "avg_pool3d"
      BY <1>1, <1>4 DEF CallsInTurn, InTurn, PoolStages, PoolBefore, Operator, Call
    <3> QED BY <3>1, <3>2 DEF PoolsAlone, StreamOf
  <2> QED BY <1>4, <2>1 DEF WorkspaceApart
<1> QED BY <1>2, <1>3, <1>4 DEF Fits, WritesOwn, Own

\* Behind the new kernel, at the new end of its line.
LEMMA KernelNameHolds ==
    ASSUME PoolsAlone, BaseInv, BaseInv', NamesWillHold, NEW t \in Threads, WorkspaceApart(t), HostStep(t),
           NEW kernel, NEW next, NewKernel(t, kernel, next), Fits(t, kernel), NewInLine(StreamOf(t), kernel),
           NEW u \in Threads, StreamOf(u) = StreamOf(t), NEW name \in Names(u)'
    PROVE  NameHolds(u, name)'
<1>1. Shapes /\ Shapes' /\ BlocksInHand /\ UNCHANGED <<scenario, memory, failed, calls, tensors, kept>>
  BY OthersUnmoved DEF BaseInv, NewKernel
<1>2. PICK r \in Streams : r = StreamOf(u)
  BY <1>1, StreamIs
<1>3. PICK n \in Nat : n = Len(Line(r))
  BY <1>1, LineLengths DEF LinesHaveLengths
<1>4. /\ r = StreamOf(u)' /\ Len(Line(r)') = n + 1
      /\ \A j \in 1..n : Line(r)'[j] = Line(r)[j]
      /\ Line(r)'[n + 1] = kernel
  BY <1>1, <1>2, <1>3 DEF StreamOf, NewInLine, Grows
<1>5. name \in Names(u) /\ BlockAt(u, name)' = BlockAt(u, name) /\ CallAt(u, name)' = CallAt(u, name)
  <2>1. Stands(u, name)
    <3>1. CASE u # t
      BY <1>1, <3>1, OthersStand
    <3>2. CASE u = t
      BY <1>1, <3>2, NewKernelStands
    <3> QED BY <3>1, <3>2
  <2> QED BY <1>1, <2>1 DEF Stands, CallAt, Call
<1>6. PICK b : b = BlockAt(u, name)
  OBVIOUS
<1>7. PICK c : c = CallAt(u, name)
  OBVIOUS
<1>8. PICK K : K = ByAt(u, name)
  OBVIOUS
<1>9. Holds(Line(r), n + 1, memory, failed, b, c, K)
  BY <1>2, <1>3, <1>5, <1>6, <1>7, <1>8 DEF NamesWillHold, NameHolds, WillHold
<1>10. ASSUME NEW L, L = ByAt(u, name)', Holds(Line(r)', n + 2, memory, failed, b, c, L) PROVE NameHolds(u, name)'
  <2>1. WillHold(r, n + 2, b, c, L)'
    BY <1>1, <1>10 DEF WillHold
  <2>2. b = BlockAt(u, name)' /\ c = CallAt(u, name)' /\ Len(Line(r)') + 1 = n + 2
    BY <1>4, <1>5, <1>6, <1>7
  <2> QED BY <1>4, <1>10, <2>1, <2>2 DEF NameHolds, WillHold, Line
<1>11. (n + 1) + 1 = n + 2 /\ n + 1 \in Nat \ {0} /\ \A j \in 1 .. (n + 1) - 1 : Line(r)'[j] = Line(r)[j]
  BY <1>4
<1>12. CASE b \notin kernel.writes
  <2>1. ByAt(u, name)' = K
    <3>1. CASE u # t \/ name \in {"lru", "pooled"}
      BY <1>1, <1>8, <3>1, OthersUnmoved DEF ByAt
    <3>2. CASE u = t /\ name \notin {"lru", "pooled"}
      <4>1. name \in TensorsAt(stage[t]) /\ b = tensors[t][name]
        BY <1>5, <1>6, <3>2 DEF Names, BlockAt
      <4>2. WritersOf(name) \cap Submitted(next) = WritersOf(name) \cap Submitted(stage[t])
        BY <1>1, <1>12, <4>1, KernelWrites
      <4>3. stage'[t] = next
        BY <1>1, StageIs
      <4> QED BY <1>8, <3>2, <4>2, <4>3 DEF ByAt
    <3> QED BY <3>1, <3>2
  <2>2. Holds(Line(r)', n + 2, memory, failed, b, c, K)
    BY <1>4, <1>9, <1>11, <1>12, HoldsBehindOther
  <2> QED BY <1>10, <2>1, <2>2
<1>13. CASE b \in kernel.writes
  <2>1. u = t /\ name \in TensorsAt(stage[t])
    BY <1>5, <1>6, <1>13, KernelSpares
  <2>2. /\ name \notin {"lru", "pooled"} /\ b = tensors[t][name] /\ c = Call(t)
        /\ K = WritersOf(name) \cap Submitted(stage[t]) /\ stage'[t] = next
    BY <1>1, <1>6, <1>7, <1>8, <2>1, StageIs, OwnBlocksAre DEF CallAt, ByAt
  <2>3. ByAt(u, name)' = K \cup {kernel.kernel}
    BY <1>1, <1>13, <2>1, <2>2, KernelWrites DEF ByAt
  <2>4. kernel.call = c
    BY <2>2 DEF Fits
  <2>5. Holds(Line(r)', n + 2, memory, failed, b, c, K \cup {kernel.kernel})
    BY <1>4, <1>9, <1>11, <1>13, <2>4, HoldsBehindOwn
  <2> QED BY <1>10, <2>3, <2>5
<1> QED BY <1>12, <1>13

\* A kernel in line still finds what it expects.
LEMMA FindsCarried ==
    ASSUME Shapes, LinesInOrder, NEW r \in Streams, NEW i \in 1..Len(Line(r)), NEW j, NEW kernel,
           kernel = Line(r)[i], Carries(r, i, j), Finds(r, i, kernel)
    PROVE  Finds(r, j, kernel)'
<1>1. kernel \in InLine(r) /\ kernel \in Kernels
  BY InLineIs DEF InLine, Elements
<1>2. ASSUME NEW b \in DOMAIN kernel.reads
      PROVE  WillHold(r, j, b, kernel.reads[b].call, kernel.reads[b].by)'
  <2>1. b \in Blocks /\ pool[b] = r
    BY <1>1 DEF Kernels, LinesInOrder, OnStream
  <2>2. WillHold(r, i, b, kernel.reads[b].call, kernel.reads[b].by)
    BY DEF Finds
  <2> QED BY <2>1, <2>2 DEF Carries
<1> QED BY <1>2 DEF Finds

LEMMA KernelsFindCarried ==
    ASSUME Shapes, LinesInOrder, NEW r \in Streams, KernelsCarried(r), \A i \in 1..Len(Line(r)) : Finds(r, i, Line(r)[i]),
           NEW j \in 1..Len(Line(r)'), NEW kernel, kernel = Line(r)'[j]
    PROVE  Finds(r, j, kernel)'
<1>1. PICK i \in 1..Len(Line(r)) : kernel = Line(r)[i] /\ Carries(r, i, j)
  BY DEF KernelsCarried
<1>2. Finds(r, i, kernel)
  BY <1>1
<1> QED BY <1>1, <1>2, FindsCarried

\* The next state's kernels, one by one.
LEMMA KernelsFindNext ==
    ASSUME \A r \in Streams : \A j \in 1..Len(Line(r)') : \A kernel : kernel = Line(r)'[j] => Finds(r, j, kernel)'
    PROVE  KernelsWillFind'
<1> SUFFICES ASSUME NEW r \in Streams, NEW j \in 1..Len(Line(r)') PROVE Finds(r, j, Line(r)[j])'
  BY DEF KernelsWillFind
<1>1. PICK kernel : kernel = Line(r)'[j]
  OBVIOUS
<1>2. Finds(r, j, kernel)'
  BY <1>1
<1> QED BY <1>1, <1>2 DEF Finds, WillHold

LEMMA QueueFinds ==
    ASSUME BaseInv, BaseInv', WillFind, NEW s \in Streams, QueueStep(s)
    PROVE  WillFind'
<1>1. Shapes /\ Shapes' /\ LinesInOrder /\ BlocksInHand
  BY DEF BaseInv
<1>2. \A r \in Streams : EndCarried(r) /\ KernelsCarried(r)
  BY <1>1, QueueCarries
<1>3. ASSUME NEW r \in Streams, NEW j \in 1..Len(Line(r)'), NEW kernel, kernel = Line(r)'[j] PROVE Finds(r, j, kernel)'
  BY <1>1, <1>2, <1>3, KernelsFindCarried DEF WillFind, KernelsWillFind
<1>4. ASSUME NEW u \in Threads, NEW name \in Names(u)' PROVE NameHolds(u, name)'
  <2>1. UNCHANGED <<scenario, calls, stage, tensors, kept>>
    BY <1>1, QueueLines
  <2>2. Inherits(u, name, name)
    BY <1>4, <2>1 DEF Inherits, Names, BlockAt, CallAt, ByAt, Call
  <2>3. NameHolds(u, name)
    BY <2>2 DEF Inherits, WillFind, NamesWillHold
  <2> QED BY <1>1, <1>2, <2>1, <2>2, <2>3, StreamIs, NameCarried
<1> QED BY <1>3, <1>4, KernelsFindNext DEF WillFind, NamesWillHold

\* The new kernel itself.
LEMMA NewKernelFinds ==
    ASSUME BaseInv, NamesWillHold, NEW t \in Threads, NEW kernel, Fits(t, kernel), NEW i, i = Len(Line(StreamOf(t))) + 1
    PROVE  Finds(StreamOf(t), i, kernel)
<1>1. Shapes /\ BlocksInHand
  BY DEF BaseInv
<1> SUFFICES ASSUME NEW b \in DOMAIN kernel.reads
             PROVE  WillHold(StreamOf(t), i, b, kernel.reads[b].call, kernel.reads[b].by)
  BY DEF Finds
<1>2. CASE ReadsLru(t, kernel, b)
  <2>1. NameHolds(t, "lru") /\ BlockAt(t, "lru") = kept[t].lru.block
    BY <1>1, OwnBlocksAre DEF NamesWillHold
  <2>2. CallAt(t, "lru") = kept[t].lru.call /\ ByAt(t, "lru") = WholePlan
    BY DEF CallAt, ByAt
  <2>3. kernel.reads[b].call = kept[t].lru.call /\ kernel.reads[b].by = WholePlan /\ b = kept[t].lru.block
    BY <1>2 DEF ReadsLru, Written
  <2> QED BY <2>1, <2>2, <2>3 DEF NameHolds
<1>3. CASE ReadsOwn(t, kernel, b)
  <2>1. PICK name \in TensorsAt(stage[t]) :
           /\ b = tensors[t][name]
           /\ kernel.reads[b] = Written(Call(t), WritersOf(name) \cap Submitted(stage[t]))
    BY <1>3 DEF ReadsOwn
  <2>2. NameHolds(t, name) /\ BlockAt(t, name) = tensors[t][name] /\ name \notin {"lru", "pooled"}
    BY <1>1, OwnBlocksAre DEF NamesWillHold
  <2>3. CallAt(t, name) = Call(t) /\ ByAt(t, name) = WritersOf(name) \cap Submitted(stage[t])
    BY <2>2 DEF CallAt, ByAt
  <2>4. kernel.reads[b].call = Call(t) /\ kernel.reads[b].by = WritersOf(name) \cap Submitted(stage[t])
    BY <2>1 DEF Written
  <2> QED BY <2>1, <2>2, <2>3, <2>4 DEF NameHolds
<1> QED BY <1>2, <1>3 DEF Fits

LEMMA SubmitFinds ==
    ASSUME PoolsAlone, BaseInv, BaseInv', WillFind, NEW t \in Threads, WorkspaceApart(t), HostStep(t),
           NEW kernel, NEW next, NewKernel(t, kernel, next)
    PROVE  WillFind'
<1>1. Shapes /\ Shapes' /\ LinesInOrder /\ BlocksInHand /\ UNCHANGED <<scenario, memory, failed>>
  BY OthersUnmoved DEF BaseInv, NewKernel
<1>2. PICK s \in Streams : s = StreamOf(t)
  BY <1>1, StreamIs
<1>3. Fits(t, kernel) /\ NewInLine(s, kernel) /\ NewInLine(StreamOf(t), kernel)
      /\ \A r \in Streams \ {s} : LineStays(r)
  <2>1. Fits(t, kernel)
    BY <1>1, KernelFits DEF BlocksInHand
  <2>2. kernel \in Kernels /\ Submit(s, kernel) /\ Submit(StreamOf(t), kernel) /\ UNCHANGED <<launched, running>>
    BY <1>2, <2>1 DEF Fits, NewKernel
  <2>3. NewInLine(s, kernel) /\ OtherLinesStay(s)
    BY <1>1, <2>2, WhenSubmitted
  <2>4. NewInLine(StreamOf(t), kernel)
    BY <1>1, <2>2, StreamIs, WhenSubmitted
  <2> QED BY <2>1, <2>3, <2>4 DEF OtherLinesStay
<1>4. ASSUME NEW r \in Streams \ {s} PROVE EndCarried(r) /\ KernelsCarried(r)
  BY <1>1, <1>3, StayCarries, LineLengths DEF LinesHaveLengths
<1>5. PICK n \in Nat : n = Len(Line(s))
  BY <1>1, LineLengths DEF LinesHaveLengths
<1>6. Len(Line(s)') = n + 1 /\ (\A j \in 1..n : Line(s)'[j] = Line(s)[j]) /\ Line(s)'[n + 1] = kernel
  BY <1>3, <1>5 DEF NewInLine, Grows
<1>7. ASSUME NEW i \in Nat, i <= n + 1 PROVE Carries(s, i, i)
  <2>1. \A j \in 1 .. i - 1 : Line(s)'[j] = Line(s)[j]
    BY <1>6, <1>7
  <2> QED BY <1>1, <2>1, HoldsOn
<1>8. ASSUME NEW j \in 1..n, NEW other, other = Line(s)'[j] PROVE Finds(s, j, other)'
  <2>1. other = Line(s)[j] /\ j \in 1..Len(Line(s)) /\ Carries(s, j, j)
    BY <1>5, <1>6, <1>7, <1>8
  <2>2. Finds(s, j, other)
    BY <2>1 DEF WillFind, KernelsWillFind
  <2> QED BY <1>1, <2>1, <2>2, FindsCarried
<1>9. Finds(s, n + 1, kernel)'
  <2>1. Finds(s, n + 1, kernel)
    BY <1>2, <1>3, <1>5, NewKernelFinds DEF WillFind
  <2>2. Carries(s, n + 1, n + 1)
    BY <1>7
  <2>3. \A b \in DOMAIN kernel.reads : b \in Blocks /\ pool[b] = s
    <3>1. OnStream(StreamOf(t), kernel)
      BY <1>3, NewKernelInOrder DEF BaseInv, NewKernel
    <3> QED BY <1>2, <1>3, <3>1 DEF OnStream, Fits, Kernels
  <2> QED BY <2>1, <2>2, <2>3 DEF Finds, Carries
<1>10. ASSUME NEW r \in Streams, NEW j \in 1..Len(Line(r)'), NEW other, other = Line(r)'[j] PROVE Finds(r, j, other)'
  <2>1. CASE r # s
    BY <1>1, <1>4, <1>10, <2>1, KernelsFindCarried DEF WillFind, KernelsWillFind
  <2>2. CASE r = s
    <3>1. j \in 1..n \/ j = n + 1
      BY <1>6, <2>2
    <3> QED BY <1>6, <1>8, <1>9, <1>10, <2>2, <3>1
  <2> QED BY <2>1, <2>2
<1>11. ASSUME NEW u \in Threads, NEW name \in Names(u)' PROVE NameHolds(u, name)'
  <2>1. CASE StreamOf(u) = StreamOf(t)
    BY <1>3, <1>11, <2>1, KernelNameHolds DEF WillFind
  <2>2. CASE StreamOf(u) # StreamOf(t)
    <3>1. Inherits(u, name, name)
      BY <1>1, <1>11, <2>2, InheritsElsewhere
    <3>2. EndCarried(StreamOf(u))
      BY <1>1, <1>2, <1>4, <2>2, StreamIs
    <3>3. NameHolds(u, name)
      BY <3>1 DEF Inherits, WillFind, NamesWillHold
    <3> QED BY <1>1, <3>1, <3>2, <3>3, NameCarried
  <2> QED BY <2>1, <2>2
<1> QED BY <1>10, <1>11, KernelsFindNext DEF WillFind, NamesWillHold

LEMMA WillFindNext ==
    ASSUME PoolsAlone, BaseInv, BaseInv', WillFind, \A t \in Threads : WorkspaceApart(t), [Next]_vars
    PROVE  WillFind'
<1>1. Shapes /\ Shapes' /\ LinesInOrder
  BY DEF BaseInv
<1>2. ASSUME NEW t \in Threads, HostStep(t), ~ \E kernel, next : NewKernel(t, kernel, next) PROVE WillFind'
  <2>1. NamesWillHold' /\ \A r \in Streams : EndCarried(r) /\ KernelsCarried(r)
    BY <1>2, HostHolds DEF WillFind
  <2>2. ASSUME NEW r \in Streams, NEW j \in 1..Len(Line(r)'), NEW kernel, kernel = Line(r)'[j] PROVE Finds(r, j, kernel)'
    BY <1>1, <2>1, <2>2, KernelsFindCarried DEF WillFind, KernelsWillFind
  <2> QED BY <2>1, <2>2, KernelsFindNext DEF WillFind
<1>3. CASE UNCHANGED vars
  BY <1>3 DEF vars, runtimeVars, hostVars, queueVars, WillFind, KernelsWillFind, NamesWillHold, Finds, NameHolds,
              WillHold, Line, Names, BlockAt, CallAt, ByAt, Call, StreamOf
<1> QED BY <1>1, <1>2, <1>3, SubmitFinds, QueueFinds, StepKinds

LEMMA WorkspaceNext ==
    ASSUME BaseInv, BaseInv', NEW t \in Threads, WorkspaceApart(t), [Next]_vars
    PROVE  WorkspaceApart(t)'
<1>1. Shapes /\ BlocksInHand /\ BlocksInHand'
  BY DEF BaseInv
<1>2. ASSUME UNCHANGED <<stage, workspace, tensors, kept>> PROVE WorkspaceApart(t)'
  BY <1>2 DEF WorkspaceApart, Names, BlockAt
<1>3. ASSUME NEW u \in Threads, HostStep(u), u # t PROVE WorkspaceApart(t)'
  BY <1>1, <1>3, OthersUnmoved DEF WorkspaceApart, Names, BlockAt
<1>4. ASSUME HostStep(t) PROVE WorkspaceApart(t)'
  <2> SUFFICES ASSUME stage'[t] = "submit", NEW name \in Names(t)' PROVE BlockAt(t, name)' # workspace'[t]
    BY DEF WorkspaceApart
  <2>1. Proceed(t) \/ NewWorkspace(t)
    BY <1>1, <1>4, StageIs DEF HostStep
  <2>2. CASE Proceed(t)
    <3>1. workspace'[t] = workspace[t] /\ stage[t] = "size"
      BY <1>1, <2>2, OthersAre DEF Proceed, GoTo, OtherShapes
    <3>2. workspace[t] = 0
      BY <1>1, <3>1 DEF BlocksInHand, OwnWorkspace, PoolBefore
    <3>3. BlockAt(t, name)' \in Blocks
      BY <1>1 DEF BlocksInHand, OwnBlocks
    <3> QED BY <3>1, <3>2, <3>3, RuntimeAssumption
  <2>3. CASE NewWorkspace(t)
    <3>1. PICK b \in Available(t) : Take(t, b) /\ workspace' = [workspace EXCEPT ![t] = b]
      BY <2>3 DEF NewWorkspace
    <3>2. b \notin Held /\ workspace'[t] = b
      BY <1>1, <3>1, FreeBlock DEF Shapes
    <3>3. Stands(t, name)
      <4>1. TensorsAt(stage'[t]) = {"result"} /\ TensorsAt(stage[t]) = {"result"}
        BY <1>1, <2>3, StageIs, TensorsAtIs DEF PoolStages, PoolBefore
      <4> QED BY <2>3, <4>1, NamesStand DEF NewWorkspace
    <3> QED BY <1>1, <3>2, <3>3, NamesHeld DEF Stands
  <2> QED BY <2>1, <2>2, <2>3
<1>5. ASSUME NEW s \in Streams, QueueStep(s) PROVE WorkspaceApart(t)'
  BY <1>1, <1>2, <1>5, QueueLines
<1>6. CASE UNCHANGED vars
  BY <1>2, <1>6 DEF vars, runtimeVars, hostVars, aclnnVars
<1> QED BY <1>1, <1>3, <1>4, <1>5, <1>6, StepKinds

LEMMA WillFindInit ==
    ASSUME OperatorsInit
    PROVE  WillFind /\ \A t \in Threads : WorkspaceApart(t)
<1>1. ASSUME NEW s \in Streams PROVE Line(s) = <<>>
  BY DEF OperatorsInit, Init, Line, LineOf, Begun
<1>2. KernelsWillFind
  BY <1>1 DEF KernelsWillFind
<1>3. ASSUME NEW t \in Threads
      PROVE  /\ stage[t] = "caller" /\ kept[t].lru.block = FirstLru[t] /\ kept[t].lru.call = <<t, 0>>
             /\ kept[t].pooled.block = 0
             /\ memory[FirstLru[t]] = Written(<<t, 0>>, WholePlan)
  <2>1. (CHOOSE u \in Threads : FirstLru[u] = FirstLru[t]) = t /\ FirstLru[t] \in Blocks
    BY RuntimeAssumption
  <2> QED BY <2>1 DEF OperatorsInit, Init, Result
<1>4. ASSUME NEW t \in Threads, NEW name \in Names(t) PROVE NameHolds(t, name)
  <2>1. name = "lru"
    BY <1>3, <1>4, TensorsAtIs DEF Names
  <2>2. BlockAt(t, name) = FirstLru[t] /\ CallAt(t, name) = <<t, 0>> /\ ByAt(t, name) = WholePlan
    BY <1>3, <2>1 DEF BlockAt, CallAt, ByAt
  <2>3. Line(StreamOf(t)) = <<>>
    BY <1>1, BaseInit, StreamIs DEF BaseInv
  <2>4. memory[FirstLru[t]].call = <<t, 0>> /\ memory[FirstLru[t]].by = WholePlan
    <3>1. memory[FirstLru[t]] = Written(<<t, 0>>, WholePlan)
      BY <1>3
    <3> QED BY ONLY <3>1 DEF Written
  <2>5. Len(Line(StreamOf(t))) + 1 = 1 /\ 1 .. 1 - 1 = {}
    BY <2>3
  <2>6. Holds(Line(StreamOf(t)), 1, memory, failed, FirstLru[t], <<t, 0>>, WholePlan)
    BY <2>4, <2>5 DEF Holds, OnlyBy, LeftBy, NoOther
  <2> QED BY <2>2, <2>5, <2>6 DEF NameHolds, WillHold
<1>5. ASSUME NEW t \in Threads PROVE WorkspaceApart(t)
  BY <1>3 DEF WorkspaceApart
<1> QED BY <1>2, <1>4, <1>5 DEF WillFind, NamesWillHold

WorkspacesApart == \A t \in Threads : WorkspaceApart(t)

LEMMA WillFindInvariant ==
    ASSUME PoolsAlone
    PROVE  Spec => []WillFind
<1>1. OperatorsInit => WillFind /\ WorkspacesApart
  BY WillFindInit DEF WorkspacesApart
<1>2. BaseInv /\ BaseInv' /\ WillFind /\ WorkspacesApart /\ [Next]_vars => WillFind' /\ WorkspacesApart'
  BY WorkspaceNext, WillFindNext DEF WorkspacesApart
<1> QED BY <1>1, <1>2, OperatorsInvariant, PTL DEF Spec

\* What is in line is pending.
LEMMA LineIsPending ==
    ASSUME Shapes, NEW s \in Streams, NEW j \in 1..Len(Line(s))
    PROVE  Pending(Line(s)[j].call)
<1> DEFINE m == IF running[s] = None THEN 0 ELSE 1
<1>1. running[s] \in Kernels \cup {None} /\ launched[s] \in Seq(Kernels) /\ tasks[s] \in Seq(Kernels)
  BY DEF Shapes
<1>2. /\ Len(Line(s)) = m + Len(launched[s]) + Len(tasks[s])
      /\ running[s] # None => Line(s)[1] = running[s]
      /\ \A i \in 1..Len(launched[s]) : Line(s)[m + i] = launched[s][i]
      /\ \A i \in 1..Len(tasks[s]) : Line(s)[m + Len(launched[s]) + i] = tasks[s][i]
  BY <1>1, LineIs DEF Line
<1>3. PICK n \in Nat : n = m
  OBVIOUS
<1>4. PICK l \in Nat : l = Len(launched[s])
  BY <1>1
<1>5. PICK q \in Nat : q = Len(tasks[s])
  BY <1>1
<1>6. n = 0 \/ (n = 1 /\ running[s] # None)
  BY <1>3
<1> HIDE DEF m
<1>7. /\ Len(Line(s)) = n + l + q
      /\ \A i \in 1..l : Line(s)[n + i] = launched[s][i]
      /\ \A i \in 1..q : Line(s)[n + l + i] = tasks[s][i]
  BY <1>2, <1>3, <1>4, <1>5
<1>8. j \in 1 .. n + l + q
  BY <1>7
<1>9. CASE j > n + l
  <2>1. PICK i \in 1..q : n + l + i = j
    <3>1. j - (n + l) \in 1..q /\ n + l + (j - (n + l)) = j
      BY ONLY <1>8, <1>9, n \in Nat, l \in Nat, q \in Nat
    <3> QED BY <3>1
  <2>2. Line(s)[j] = tasks[s][i]
    BY <1>7, <2>1
  <2> QED BY <1>5, <2>2 DEF Pending
<1>10. CASE j > n /\ j <= n + l
  <2>1. PICK i \in 1..l : n + i = j
    <3>1. j - n \in 1..l /\ n + (j - n) = j
      BY ONLY <1>8, <1>10, n \in Nat, l \in Nat, q \in Nat
    <3> QED BY <3>1
  <2>2. Line(s)[j] = launched[s][i]
    BY <1>7, <2>1
  <2> QED BY <1>4, <2>2 DEF Pending
<1>11. CASE j = 1 /\ running[s] # None
  BY <1>2, <1>11 DEF Pending
<1>12. j > n + l \/ (j > n /\ j <= n + l) \/ (j = 1 /\ running[s] # None)
  BY ONLY <1>6, <1>8, n \in Nat, l \in Nat, q \in Nat
<1> QED BY ONLY <1>9, <1>10, <1>11, <1>12

\* A block is as its kernels left it.
LEMMA ContentsAre ==
    ASSUME Shapes, NEW b \in Blocks, NEW c, NEW K, memory[b].call = c, memory[b].by = K
    PROVE  memory[b] = Written(c, K)
<1>1. memory[b] \in Contents
  BY DEF Shapes
<1> QED BY <1>1 DEF Contents, Written

\* Every kernel finds in the blocks whose addresses it was given what its own call, or the call
\* that made its lru, has written, however the host runs ahead of the device and whatever
\* it hands on meanwhile: provided that no thread that calls avg_pool3d shares its stream
\* (if one does, the workspace that EXEC_NPU_CMD drops before it submits may be lost).
THEOREM KernelsFindTheirBlocks ==
    ASSUME PoolsAlone
    PROVE  Spec => []KernelsSeeTheirCall
<1>1. ASSUME BaseInv, WillFind PROVE KernelsSeeTheirCall
  <2>0. Shapes /\ LinesInOrder
    BY <1>1 DEF BaseInv
  <2> SUFFICES ASSUME NEW s \in Streams, Sound(running[s].from), NEW b \in DOMAIN running[s].reads
               PROVE  memory[b] = running[s].reads[b]
    BY DEF KernelsSeeTheirCall
  <2>1. running[s] # None
    BY DEF None
  <2>2. /\ running[s] \in Kernels /\ running[s] \in InLine(s) /\ 1 \in 1..Len(Line(s)) /\ Line(s)[1] = running[s]
    BY <2>0, <2>1, InLineIs
  <2>3. b \in Blocks /\ running[s].reads[b] \in Contents
    BY <2>2 DEF Kernels
  <2>c. PICK c : c = running[s].reads[b].call
    OBVIOUS
  <2>k. PICK K : K = running[s].reads[b].by
    OBVIOUS
  <2>4. Holds(Line(s), 1, memory, failed, b, c, K)
    BY <1>1, <2>2, <2>c, <2>k DEF WillFind, KernelsWillFind, Finds, WillHold
  <2>5. c \notin failed /\ K # {}
    BY <2>0, <2>2, <2>c, <2>k DEF LinesInOrder, Expects, Sound
  <2>6. running[s].reads[b] = Written(c, K)
    BY <2>3, <2>c, <2>k DEF Contents, Written
  <2>7. memory[b].call = c /\ memory[b].by = K
    <3>1. \A name \in K : LeftBy(Line(s), 1, memory, b, c, name)
      BY <2>4, <2>5 DEF Holds
    <3>2. \A name \in K : memory[b].call = c /\ name \in memory[b].by
      BY <3>1 DEF LeftBy
    <3>3. memory[b].call = c => memory[b].by \subseteq K
      BY <2>4 DEF Holds, OnlyBy
    <3> QED BY ONLY <2>5, <3>2, <3>3
  <2> QED BY <2>0, <2>3, <2>6, <2>7, ContentsAre
<1> QED BY <1>1, OperatorsInvariant, WillFindInvariant, PTL

\* Once the kernels of its call have run, a result that the caller keeps is whole, and stays
\* so: no later call's tensor or workspace is laid over it, under the same proviso.
THEOREM KeptResultsSurvive ==
    ASSUME PoolsAlone
    PROVE  Spec => []ResultsSurvive
<1>1. ASSUME BaseInv, WillFind PROVE ResultsSurvive
  <2>0. Shapes /\ BlocksInHand
    BY <1>1 DEF BaseInv
  <2>1. ASSUME NEW t \in Threads, NEW name \in Names(t), CallAt(t, name) \notin failed, ~ Pending(CallAt(t, name)),
               ByAt(t, name) # {}
        PROVE  memory[BlockAt(t, name)] = Written(CallAt(t, name), ByAt(t, name))
    <3> DEFINE s == StreamOf(t)
               b == BlockAt(t, name)
               c == CallAt(t, name)
               K == ByAt(t, name)
               n == Len(Line(s)) + 1
    <3>1. s \in Streams /\ b \in Blocks /\ n \in Nat /\ Len(Line(s)) \in Nat
      BY <2>0, StreamIs, LineLengths DEF LinesHaveLengths, BlocksInHand, OwnBlocks
    <3>2. Holds(Line(s), n, memory, failed, b, c, K)
      BY <1>1, <2>1 DEF WillFind, NamesWillHold, NameHolds, WillHold
    <3>3. \A j \in 1 .. n - 1 : Line(s)[j].call # c
      BY <2>0, <2>1, <3>1, LineIsPending
    <3>4. c \notin failed /\ K # {}
      BY <2>1
    <3> HIDE DEF s, b, c, K, n
    <3>5. memory[b].call = c /\ memory[b].by = K
      BY ONLY <3>1, <3>2, <3>3, <3>4, HoldsNow
    <3>6. memory[b] = Written(c, K)
      BY <2>0, <3>1, <3>5, ContentsAre
    <3> QED BY <3>6 DEF b, c, K
  <2>2. ASSUME NEW t \in Threads, Sound(kept[t].lru.from), ~ Pending(kept[t].lru.call)
        PROVE  memory[kept[t].lru.block] = Written(kept[t].lru.call, WholePlan)
    <3>1. "lru" \in Names(t) /\ BlockAt(t, "lru") = kept[t].lru.block
      BY <2>0, OwnBlocksAre
    <3>2. CallAt(t, "lru") = kept[t].lru.call /\ ByAt(t, "lru") = WholePlan /\ WholePlan # {}
      BY DEF CallAt, ByAt, WholePlan
    <3>3. kept[t].lru.call \notin failed
      BY <2>0, <2>2 DEF BlocksInHand, KeptWell, Sound
    <3> QED BY <2>1, <2>2, <3>1, <3>2, <3>3
  <2>3. ASSUME NEW t \in Threads, kept[t].pooled.block # 0, Sound(kept[t].pooled.from), ~ Pending(kept[t].pooled.call)
        PROVE  memory[kept[t].pooled.block] = Written(kept[t].pooled.call, {"aclnnAvgPool3d"})
    <3>1. "pooled" \in Names(t) /\ BlockAt(t, "pooled") = kept[t].pooled.block
      BY <2>0, <2>3, OwnBlocksAre
    <3>2. CallAt(t, "pooled") = kept[t].pooled.call /\ ByAt(t, "pooled") = {"aclnnAvgPool3d"}
      BY DEF CallAt, ByAt
    <3>3. kept[t].pooled.call \notin failed
      BY <2>0, <2>3 DEF BlocksInHand, KeptWell, Sound
    <3> QED BY <2>1, <2>3, <3>1, <3>2, <3>3
  <2> QED BY <2>2, <2>3 DEF ResultsSurvive
<1> QED BY <1>1, OperatorsInvariant, WillFindInvariant, PTL

===============================================================================

------------------------ MODULE HelloWorldPipeline ------------------------
(***************************************************************************)
(* helloworld: the host counts the elements of x in 32 bits and launches   *)
(* a kernel whose blocks each add a part of x and y, tile by tile, with    *)
(* two buffers per queue.  The block's three engines run one behind the    *)
(* other: TQue holds each of them up until the buffer it needs has been    *)
(* filled, or freed, by its neighbour.                                     *)
(*                                                                         *)
(* A buffer is modelled by the tile it holds.                              *)
(***************************************************************************)
EXTENDS Integers, Sequences

CONSTANTS
    Shapes,       \* x.sizes()
    blockDim, tileNum, BUFFER_NUM,
    UintLimit     \* 2^32

ASSUME HelloWorldAssumption ==
    /\ blockDim \in Nat \ {0} /\ tileNum \in Nat \ {0} /\ BUFFER_NUM \in Nat \ {0}
    /\ UintLimit \in Nat \ {0}
    /\ \A s \in Shapes : s \in Seq(Nat)

VARIABLES
    sizes, block,
    engine,   \* per engine: tiles it has done, and whether it is at work on the next
    queue,    \* per queue and buffer: "free", "taken" or "full"
    local,    \* per queue and buffer: the tiles its values are from
    z         \* per tile of the block: the tiles of x and y it is the sum of

vars == <<sizes, block, engine, queue, local, z>>

\* What x has.
elementCount ==
    LET product[n \in 0..Len(sizes)] == IF n = 0 THEN 1 ELSE product[n-1] * sizes[n]
    IN  product[Len(sizes)]

\* The host's loop, which wraps around.
totalLength ==
    LET product[n \in 0..Len(sizes)] ==
            IF n = 0 THEN 1 ELSE (product[n-1] * (sizes[n] % UintLimit)) % UintLimit
    IN  product[Len(sizes)]

blockLength == totalLength \div blockDim

\* Mutant: the quotient is rounded up.
TileLengthUp == (blockLength \div tileNum + BUFFER_NUM - 1) \div BUFFER_NUM

tileLength == (blockLength \div tileNum) \div BUFFER_NUM

loopCount == tileNum * BUFFER_NUM

Buffers == 0..BUFFER_NUM - 1

Queues == {"inQueueX", "inQueueY", "outQueueZ"}

Engines == {"CopyIn", "Compute", "CopyOut"}

Init ==
    /\ sizes \in Shapes /\ block \in 0..blockDim - 1
    /\ engine = [e \in Engines |-> [done |-> 0, busy |-> FALSE]]
    /\ queue = [q \in Queues |-> [b \in Buffers |-> "free"]]
    /\ local = [q \in Queues |-> [b \in Buffers |-> {}]]
    /\ z = [i \in 0..loopCount - 1 |-> {}]

------------------------------------------------------------------------------
\* The buffer an engine is at.
At(e) == engine[e].done % BUFFER_NUM

Ready(e, qs, state) ==
    /\ ~ engine[e].busy /\ engine[e].done < loopCount
    /\ \A q \in qs : queue[q][At(e)] = state

Starts(e) == engine' = [engine EXCEPT ![e].busy = TRUE]

Ends(e) == engine' = [engine EXCEPT ![e] = [done |-> @.done + 1, busy |-> FALSE]]

In == {"inQueueX", "inQueueY"}

\* queue and local with buffer b of the queues qs changed.
Set(f, qs, b, value) == [q \in Queues |-> IF q \in qs THEN [f[q] EXCEPT ![b] = value] ELSE f[q]]

\* AllocTensor and DataCopy from global memory ...
CopyInStarts ==
    /\ Ready("CopyIn", In, "free")
    /\ queue' = Set(queue, In, At("CopyIn"), "taken")
    /\ local' = Set(local, In, At("CopyIn"), {})
    /\ Starts("CopyIn")
    /\ UNCHANGED <<sizes, block, z>>

\* ... and EnQue, behind which the tiles are in.
CopyInEnds ==
    /\ engine["CopyIn"].busy
    /\ local' = [q \in Queues |->
                   IF q \in In THEN [local[q] EXCEPT ![At("CopyIn")] = {<<q, engine["CopyIn"].done>>}]
                   ELSE local[q]]
    /\ queue' = Set(queue, In, At("CopyIn"), "full")
    /\ Ends("CopyIn")
    /\ UNCHANGED <<sizes, block, z>>

\* Mutant: the inputs are freed before the sum is computed.
ComputeFreesFirst ==
    /\ Ready("Compute", In, "full") /\ queue["outQueueZ"][At("Compute")] = "free"
    /\ queue' = [Set(queue, In, At("Compute"), "free") EXCEPT !["outQueueZ"][At("Compute")] = "taken"]
    /\ local' = Set(local, {"outQueueZ"}, At("Compute"), {})
    /\ Starts("Compute")
    /\ UNCHANGED <<sizes, block, z>>

\* Mutant: the sum has one buffer, whatever BUFFER_NUM is.
ComputeTakesAny ==
    /\ Ready("Compute", In, "full")
    /\ queue' = Set(queue, {"outQueueZ"}, At("Compute"), "taken")
    /\ local' = Set(local, {"outQueueZ"}, At("Compute"), {})
    /\ Starts("Compute")
    /\ UNCHANGED <<sizes, block, z>>

\* DeQue twice, AllocTensor, Add ...
ComputeStarts ==
    /\ Ready("Compute", In, "full") /\ queue["outQueueZ"][At("Compute")] = "free"
    /\ queue' = Set(queue, {"outQueueZ"}, At("Compute"), "taken")
    /\ local' = Set(local, {"outQueueZ"}, At("Compute"), {})
    /\ Starts("Compute")
    /\ UNCHANGED <<sizes, block, z>>

\* Mutant: FreeTensor is left out.
ComputeKeeps ==
    /\ engine["Compute"].busy
    /\ local' = Set(local, {"outQueueZ"}, At("Compute"),
                    local["inQueueX"][At("Compute")] \cup local["inQueueY"][At("Compute")])
    /\ queue' = Set(queue, {"outQueueZ"}, At("Compute"), "full")
    /\ Ends("Compute")
    /\ UNCHANGED <<sizes, block, z>>

\* ... EnQue, and FreeTensor twice.
ComputeEnds ==
    /\ engine["Compute"].busy
    /\ local' = Set(local, {"outQueueZ"}, At("Compute"),
                    local["inQueueX"][At("Compute")] \cup local["inQueueY"][At("Compute")])
    /\ queue' = [Set(queue, In, At("Compute"), "free") EXCEPT !["outQueueZ"][At("Compute")] = "full"]
    /\ Ends("Compute")
    /\ UNCHANGED <<sizes, block, z>>

\* DeQue and DataCopy to global memory ...
CopyOutStarts ==
    /\ Ready("CopyOut", {"outQueueZ"}, "full")
    /\ queue' = Set(queue, {"outQueueZ"}, At("CopyOut"), "taken")
    /\ Starts("CopyOut")
    /\ UNCHANGED <<sizes, block, local, z>>

\* ... and FreeTensor.
CopyOutEnds ==
    /\ engine["CopyOut"].busy
    /\ z' = [z EXCEPT ![engine["CopyOut"].done] = local["outQueueZ"][At("CopyOut")]]
    /\ queue' = Set(queue, {"outQueueZ"}, At("CopyOut"), "free")
    /\ Ends("CopyOut")
    /\ UNCHANGED <<sizes, block, local>>

Complete == \A e \in Engines : engine[e].done = loopCount

Next ==
    \/ CopyInStarts \/ CopyInEnds \/ ComputeStarts \/ ComputeEnds
    \/ CopyOutStarts \/ CopyOutEnds

\* Every engine goes on with what it was given.
Fairness ==
    /\ WF_vars(CopyInStarts \/ CopyInEnds)
    /\ WF_vars(ComputeStarts \/ ComputeEnds)
    /\ WF_vars(CopyOutStarts \/ CopyOutEnds)

Spec == Init /\ [][Next]_vars /\ Fairness

------------------------------------------------------------------------------
\* The engines go through the tiles in order, none ahead of what it needs and none more
\* than the buffers of its queue ahead of who comes behind.
PipelineTypeOK ==
    /\ sizes \in Shapes /\ block \in 0..blockDim - 1
    /\ engine \in [Engines -> [done : 0..loopCount, busy : BOOLEAN]]
    /\ queue \in [Queues -> [Buffers -> {"free", "taken", "full"}]]
    /\ engine["CopyOut"].done <= engine["Compute"].done
    /\ engine["Compute"].done <= engine["CopyIn"].done
    /\ engine["CopyIn"].done <= engine["Compute"].done + BUFFER_NUM
    /\ engine["Compute"].done <= engine["CopyOut"].done + BUFFER_NUM

\* kernel_helloworld.cpp 46-72: tile i of z is tile i of x plus tile i of y, although
\* the buffers are refilled while the engines behind still work.
SumsOfOneTile ==
    \A i \in 0..engine["CopyOut"].done - 1 : z[i] = {<<"inQueueX", i>>, <<"inQueueY", i>>}

\* The elements of x, y and z that tile i of block b is.
Elements(b, i) == {b * blockLength + i * tileLength + e : e \in 0..tileLength - 1}

\* kernel_helloworld.cpp 24-29, 50-51, 70: whatever the count of elements wraps to, no
\* tile reads or writes behind the tensors and no two tiles write one element; and if
\* the elements are a multiple of all tiles, fewer than 2^32, the tiles are all there is.
TilesSplitTheTensor ==
    /\ \A i \in 0..loopCount - 1 :
          /\ \A p \in Elements(block, i) : p < elementCount
          /\ \A b \in 0..blockDim - 1, j \in 0..loopCount - 1 :
                <<b, j>> # <<block, i>> => Elements(block, i) \cap Elements(b, j) = {}
    /\ elementCount < UintLimit /\ elementCount % (blockDim * loopCount) = 0 =>
          UNION {Elements(b, i) : b \in 0..blockDim - 1, i \in 0..loopCount - 1} = 0..elementCount - 1

\* The three engines never wait for each other in a circle.
PipelineEnds == <>Complete
==============================================================================

--------------------------- MODULE AvgPool3dShape ---------------------------
(***************************************************************************)
(* The shape arithmetic of avg_pool3d: kernel, stride and padding, given   *)
(* as lists, are generalised to three dimensions, checked, and turned into *)
(* the output size, all in integers that divide by truncation.             *)
(*                                                                         *)
(* Shapes are small: int and int64_t do not overflow.                      *)
(***************************************************************************)
EXTENDS Integers, Sequences, FiniteSets

CONSTANTS
    Calls,   \* [self : sizes, kernel_size, stride, padding : lists, ceil_mode : BOOLEAN]
    Junk     \* what may be found behind the end of a list

ASSUME CallsAssumption == \A c \in Calls :
    /\ c.self \in Seq(Nat) /\ Len(c.self) > 2 /\ c.ceil_mode \in BOOLEAN
    /\ c.kernel_size \in Seq(Int) /\ c.stride \in Seq(Int) /\ c.padding \in Seq(Int)

ASSUME JunkAssumption == Junk \subseteq Int

VARIABLES
    call, stage, kernels, strides, paddings,
    output_size   \* the three pooled sizes

vars == <<call, stage, kernels, strides, paddings, output_size>>

Dims == 1..3

Triple(x) == <<x, x, x>>

Init ==
    /\ call \in Calls
    /\ stage = "kernels"
    /\ kernels = Triple(0) /\ strides = Triple(0) /\ paddings = Triple(0)
    /\ output_size = Triple(0)

------------------------------------------------------------------------------
\* Integers of C++.

Abs(a) == IF a < 0 THEN -a ELSE a

TruncDiv(a, b) ==
    IF a < 0 <=> b < 0 THEN Abs(a) \div Abs(b) ELSE -(Abs(a) \div Abs(b))

\* Mutant: no quotient is rounded up.
CeilDivDown(value, factor) == IF factor = 0 THEN 0 ELSE TruncDiv(value, factor)

CeilDiv(value, factor) ==
    CASE factor = 0 -> 0
      [] factor # 0 /\ Abs(value) % Abs(factor) = 0 -> TruncDiv(value, factor)
      [] factor # 0 /\ Abs(value) % Abs(factor) # 0 -> TruncDiv(value, factor) + 1

\* list[i - 1] for every dimension: one element stands for all, and nothing stops a
\* read behind the end.
Generalized(list) ==
    IF Len(list) = 1 THEN {Triple(list[1])}
    ELSE {g \in [Dims -> {list[i] : i \in DOMAIN list} \cup Junk] :
             \A i \in Dims : IF i <= Len(list) THEN g[i] = list[i] ELSE g[i] \in Junk}

------------------------------------------------------------------------------
Raise ==
    /\ stage' = "raised"
    /\ UNCHANGED <<call, kernels, strides, paddings, output_size>>

GeneralizeKernel ==
    /\ stage = "kernels" /\ call.kernel_size # <<>>
    /\ kernels' \in Generalized(call.kernel_size)
    /\ stage' = "strides"
    /\ UNCHANGED <<call, strides, paddings, output_size>>

KernelRaises == stage = "kernels" /\ call.kernel_size = <<>> /\ Raise

GeneralizeStride ==
    /\ stage = "strides"
    /\ strides' \in IF call.stride = <<>> THEN {kernels} ELSE Generalized(call.stride)
    /\ stage' = IF \E i \in Dims : strides'[i] = 0 THEN "raised" ELSE "paddings"
    /\ UNCHANGED <<call, kernels, paddings, output_size>>

\* Mutant: padding is not held against the kernel.
PaddingUnchecked ==
    /\ stage = "paddings"
    /\ paddings' \in Generalized(call.padding)
    /\ stage' = IF \A i \in Dims : paddings'[i] >= 0 THEN "output" ELSE "raised"
    /\ UNCHANGED <<call, kernels, strides, output_size>>

GeneralizePadding ==
    /\ stage = "paddings"
    /\ paddings' \in Generalized(call.padding)
    /\ stage' = IF \A i \in Dims : paddings'[i] >= 0 /\ paddings'[i] <= TruncDiv(kernels[i], 2)
                THEN "output" ELSE "raised"
    /\ UNCHANGED <<call, kernels, strides, output_size>>

Size(i) == call.self[Len(call.self) - 3 + i]

\* What the windows of dimension i can be moved by.
Slack(i) == Size(i) + 2 * paddings[i] - kernels[i]

Unclipped(i) ==
    1 + IF call.ceil_mode THEN CeilDiv(Slack(i), strides[i]) ELSE TruncDiv(Slack(i), strides[i])

\* In ceil mode, the last window must not start in the padding behind the input.
Clipped(i) == call.ceil_mode /\ (Unclipped(i) - 1) * strides[i] >= Size(i) + paddings[i]

\* Mutant: no window is taken away.
PooledSizeUnclipped(i) == Unclipped(i)

PooledSize(i) == IF Clipped(i) THEN Unclipped(i) - 1 ELSE Unclipped(i)

OutputSize ==
    /\ stage = "output"
    /\ Len(call.self) \in {4, 5} /\ \A i \in Dims : Unclipped(i) > 0
    /\ output_size' = <<PooledSize(1), PooledSize(2), PooledSize(3)>>
    /\ stage' = "sized"
    /\ UNCHANGED <<call, kernels, strides, paddings>>

OutputRaises ==
    /\ stage = "output"
    /\ Len(call.self) \notin {4, 5} \/ \E i \in Dims : Unclipped(i) <= 0
    /\ Raise

Finished == stage \in {"raised", "sized"} /\ UNCHANGED vars

Next ==
    \/ GeneralizeKernel \/ KernelRaises \/ GeneralizeStride \/ GeneralizePadding
    \/ OutputSize \/ OutputRaises \/ Finished

Spec == Init /\ [][Next]_vars

------------------------------------------------------------------------------
\* Sizes are integers, and none is given before every check has passed.
ShapeTypeOK ==
    /\ call \in Calls
    /\ stage \in {"kernels", "strides", "paddings", "output", "sized", "raised"}
    /\ kernels \in [Dims -> Int] /\ strides \in [Dims -> Int] /\ paddings \in [Dims -> Int]
    /\ output_size \in [Dims -> Int]
    /\ stage \in {"paddings", "output", "sized"} => \A i \in Dims : strides[i] # 0
    /\ stage \in {"output", "sized"} =>
          \A i \in Dims : paddings[i] >= 0 /\ paddings[i] <= TruncDiv(kernels[i], 2)

\* Windows that are windows: something to average, and a step forward.  A window may be
\* longer than the padded input.
Proper(i) == Size(i) > 0 /\ kernels[i] > 0 /\ strides[i] > 0

\* Where window w of dimension i starts and ends, in positions of the input.
First(i, w) == w * strides[i] - paddings[i]

Last(i, w) == First(i, w) + kernels[i] - 1

\* The places of a window in the padded input, in ceil mode also the one from which it
\* sticks out, unless that lies behind the input.
Places(i) ==
    LET end == Size(i) + paddings[i] - 1
    IN  {w \in 0..Size(i) + paddings[i] :
            \/ Last(i, w) <= end
            \/ call.ceil_mode /\ Last(i, w) - strides[i] < end /\ First(i, w) < Size(i)}

\* avg_pool3d.cpp 48-70: a window that fits into the padded input gets one output for each
\* of its places.  One that is longer gets one output too many, both quotients being of a
\* negative slack: `/' rounds it up to 0, and CeilDiv adds one to that.  The check for a
\* positive size lets it through, and only clipping takes it away.
SizesCountPlaces ==
    stage = "sized" => \A i \in Dims : Proper(i) =>
        output_size[i] =
            Cardinality(Places(i)) + IF Slack(i) >= 0 \/ Clipped(i) THEN 0 ELSE 1

\* avg_pool3d.cpp 54: "kernel_d has to be positive, but got": a call whose window has no
\* place is refused, and any other gets the places counted, as the shapes of the tests are
\* compared.
SizesAreExact ==
    stage = "sized" => \A i \in Dims : Proper(i) => output_size[i] = Cardinality(Places(i))

\* The checks (107-110) and the clipping (58-70) together: no window lies in the padding
\* alone, so that no average is one of no input at all.
NoEmptyAverage ==
    stage = "sized" => \A i \in Dims : Proper(i) =>
        \A w \in 0..output_size[i] - 1 : \E p \in 0..Size(i) - 1 : p \in First(i, w)..Last(i, w)

\* In ceil mode, windows that leave no gaps reach every input position: clipping takes no
\* window that is needed.
CeilReachesAll ==
    stage = "sized" /\ call.ceil_mode => \A i \in Dims : Proper(i) /\ strides[i] <= kernels[i] =>
        \A p \in 0..Size(i) - 1 : \E w \in 0..output_size[i] - 1 : p \in First(i, w)..Last(i, w)

\* avg_pool3d.cpp 89: "kernel_size must either be a single int, or a tuple of three ints".
KernelIsOneOrThree == stage = "sized" => Len(call.kernel_size) \in {1, 3}
==============================================================================

---------------------------- MODULE MCBuildLruPlan ---------------------------
(***************************************************************************)
(* Inputs and constants for model checking BuildLruPlan.                   *)
(***************************************************************************)
EXTENDS BuildLruPlan

\* Every hit row the contract allows.
AllHitRows ==
    {row \in [0..k-1 -> -1..2*k-1] :
        \A i, j \in 0..k-1 : row[i] = row[j] /\ row[i] # -1 => i = j}

\* The ids out of order, with positions and ids different throughout.  Renaming
\* ids in lru and hit alike only moves bits of the bitmap, so all hit rows against
\* this one lru row reach every case of positions hit and slots missed.
RotatedLruRows == {[p \in 0..2*k-1 |-> (p + 1) % (2 * k)]}

\* Some hit rows: each slot misses or hits an id of its own.
SomeHitRows ==
    {row \in AllHitRows : \A i \in 0..k-1 : row[i] \in {-1, 2 * i}}

\* Hit rows that are too long to enumerate: every slot misses, none does, or those
\* of one half do; hits are spread over the row or fill one end of it.
TailHitRows ==
    {[i \in 0..k-1 |-> IF i \in misses THEN -1 ELSE (f * i + o) % (2 * k)] :
        misses \in {0..k-1, {}, 0..(k \div 2), (k \div 2)..k-1, {j \in 0..k-1 : j % 2 = 0}},
        f \in {1, 2}, o \in {0, 1, k}}
==============================================================================

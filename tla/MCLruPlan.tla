------------------------------ MODULE MCLruPlan ------------------------------
(***************************************************************************)
(* The inputs of one call, for LruPlan: every legal hit row against an lru *)
(* row in which no id stands at its own position.  Renaming the ids of lru *)
(* and hit alike renames the result, so one lru row reaches every case.    *)
(***************************************************************************)
EXTENDS LruPlanLists

RotatedLruRow == [p \in LruSlots |-> (p + 1) % (2 * k)]

AllHitRows == {row \in [HitSlots -> {-1} \cup LruSlots] : ValidHitRow(row)}

\* new_lru starts out of range, so that a cell not yet written is recognised.
MCInit ==
    /\ lru = [b \in Rows |-> RotatedLruRow]
    /\ hitIn \in [Rows -> AllHitRows]
    /\ hitMask = [b \in Rows |-> MaskOf(hitIn[b])]
    /\ hit = hitIn
    /\ newLru = [b \in Rows |-> [i \in LruSlots |-> -1]]

MCSpec == MCInit /\ [][PlanNext]_planVars
==============================================================================

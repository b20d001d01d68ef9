---------------------- MODULE HelloWorldPipeline_proofs ----------------------
(***************************************************************************)
(* The pipeline of one block, for every number of tiles and of buffers:    *)
(* every tile of z is the sum of its own inputs, and the engines never     *)
(* hold each other up for good.                                            *)
(***************************************************************************)
EXTENDS HelloWorldPipeline, NaturalsInduction, WellFoundedInduction, TLAPS

Done(e) == engine[e].done

\* The buffer of tile i.
Slot(i) == i % BUFFER_NUM

SumOf(i) == {<<"inQueueX", i>>, <<"inQueueY", i>>}

------------------------------------------------------------------------------
\* The invariant.  What a buffer holds is told by which engines have done its tiles.

\* CopyIn has the buffer of its next tile; those that it filled and Compute has not
\* emptied hold their tiles, and no others are full.
InputInTurn(q) ==
    /\ engine["CopyIn"].busy =>
           /\ Done("CopyIn") < loopCount /\ Done("CopyIn") < Done("Compute") + BUFFER_NUM
           /\ queue[q][At("CopyIn")] = "taken"
    /\ \A i \in Done("Compute") .. Done("CopyIn") - 1 :
           queue[q][Slot(i)] = "full" /\ local[q][Slot(i)] = {<<q, i>>}
    /\ \A b \in Buffers :
           /\ queue[q][b] = "full" =>
                  \E i \in Done("Compute") .. Done("CopyIn") - 1 : b = Slot(i)
           /\ queue[q][b] = "taken" => engine["CopyIn"].busy /\ b = At("CopyIn")

InputsInTurn == \A q \in In : InputInTurn(q)

\* The same of Compute and CopyOut, which keeps its buffer while it copies.
OutputsInTurn ==
    /\ engine["Compute"].busy =>
           /\ Done("Compute") < Done("CopyIn") /\ Done("Compute") < Done("CopyOut") + BUFFER_NUM
           /\ queue["outQueueZ"][At("Compute")] = "taken"
    /\ engine["CopyOut"].busy => Done("CopyOut") < Done("Compute")
    /\ \A i \in Done("CopyOut") .. Done("Compute") - 1 :
           /\ local["outQueueZ"][Slot(i)] = SumOf(i)
           /\ queue["outQueueZ"][Slot(i)] =
                  IF i = Done("CopyOut") /\ engine["CopyOut"].busy THEN "taken" ELSE "full"
    /\ \A b \in Buffers :
           /\ queue["outQueueZ"][b] = "full" =>
                  \E i \in Done("CopyOut") .. Done("Compute") - 1 : b = Slot(i)
           /\ queue["outQueueZ"][b] = "taken" =>
                  \/ engine["Compute"].busy /\ b = At("Compute")
                  \/ engine["CopyOut"].busy /\ b = At("CopyOut")

\* What the functions are on.
Shaped ==
    /\ DOMAIN local = Queues /\ \A q \in Queues : DOMAIN local[q] = Buffers
    /\ DOMAIN z = 0..loopCount - 1

PipelineInv ==
    /\ PipelineTypeOK /\ Shaped /\ InputsInTurn /\ OutputsInTurn /\ SumsOfOneTile

------------------------------------------------------------------------------
\* A quotient and its remainder.
LEMMA Remainder ==
    ASSUME NEW a \in Nat, NEW b \in Nat \ {0}
    PROVE  a \div b \in Nat /\ a % b \in 0..b - 1 /\ a = b * (a \div b) + (a % b)
<1>1. a \div b \in Nat
  BY Z3
<1>2. a % b \in 0..b - 1
  BY Z3
<1>3. a % b = a - (a \div b) * b
  BY Z3
<1> DEFINE q == a \div b  r == a % b
<1> HIDE DEF q, r
<1>4. q \in Nat /\ r = a - q * b
  BY <1>1, <1>3 DEF q, r
<1>5. a = b * q + r
  BY <1>4
<1> QED BY <1>1, <1>2, <1>5 DEF q, r

\* The buffers of tiles that are fewer than BUFFER_NUM apart differ; a buffer comes
\* back after BUFFER_NUM tiles.
LEMMA SlotIs ==
    /\ \A i \in Nat : Slot(i) \in Buffers /\ Slot(i + BUFFER_NUM) = Slot(i)
    /\ \A i, j \in Nat : i < j /\ j < i + BUFFER_NUM => Slot(i) # Slot(j)
<1>1. BUFFER_NUM \in Nat \ {0}
  BY HelloWorldAssumption
<1>2. ASSUME NEW i \in Nat
      PROVE  Slot(i) \in Buffers /\ \E p \in Nat : i = BUFFER_NUM * p + Slot(i)
  <2>1. /\ i \div BUFFER_NUM \in Nat /\ i % BUFFER_NUM \in 0..BUFFER_NUM - 1
        /\ i = BUFFER_NUM * (i \div BUFFER_NUM) + (i % BUFFER_NUM)
    BY <1>1, Remainder
  <2> QED BY <2>1 DEF Slot, Buffers
<1>3. ASSUME NEW n \in Int, 0 < BUFFER_NUM * n, BUFFER_NUM * n < BUFFER_NUM PROVE FALSE
  <2>1. CASE n <= 0
    BY <1>1, <1>3, <2>1, Z3
  <2>2. CASE n >= 1
    BY <1>1, <1>3, <2>2, Z3
  <2> QED BY <2>1, <2>2
<1>4. ASSUME NEW p \in Nat, NEW q \in Nat
      PROVE  BUFFER_NUM * (p - q) = BUFFER_NUM * p - BUFFER_NUM * q
  BY <1>1, Z3
<1>5. ASSUME NEW i \in Nat, NEW j \in Nat, i < j, j < i + BUFFER_NUM, Slot(i) = Slot(j) PROVE FALSE
  <2>1. PICK p \in Nat : i = BUFFER_NUM * p + Slot(i)
    BY <1>2
  <2>2. PICK q \in Nat : j = BUFFER_NUM * q + Slot(j)
    BY <1>2
  <2>3. BUFFER_NUM * (q - p) = BUFFER_NUM * q - BUFFER_NUM * p
    BY <1>4
  <2>4. Slot(i) \in Int /\ BUFFER_NUM * q \in Int /\ BUFFER_NUM * p \in Int
    BY <1>1, <1>2 DEF Buffers
  <2>5. BUFFER_NUM * (q - p) = j - i
    BY <1>5, <2>1, <2>2, <2>3, <2>4
  <2> QED BY <1>1, <1>3, <1>5, <2>5
<1>6. ASSUME NEW i \in Nat PROVE Slot(i + BUFFER_NUM) = Slot(i)
  <2>1. PICK p \in Nat : i = BUFFER_NUM * p + Slot(i)
    BY <1>2
  <2>2. i + BUFFER_NUM \in Nat
    BY <1>1
  <2>3. PICK q \in Nat : i + BUFFER_NUM = BUFFER_NUM * q + Slot(i + BUFFER_NUM)
    BY <1>2, <2>2
  <2> DEFINE r == Slot(i)  s == Slot(i + BUFFER_NUM)
  <2>4. r \in Int /\ s \in Int /\ 0 <= r /\ r < BUFFER_NUM /\ 0 <= s /\ s < BUFFER_NUM
    BY <1>1, <1>2, <2>2 DEF Buffers
  <2>5. /\ BUFFER_NUM * (p + 1 - q) = BUFFER_NUM * p + BUFFER_NUM - BUFFER_NUM * q
        /\ BUFFER_NUM * (q - (p + 1)) = BUFFER_NUM * q - (BUFFER_NUM * p + BUFFER_NUM)
        /\ BUFFER_NUM * p \in Int /\ BUFFER_NUM * q \in Int
    BY <1>1, Z3
  <2> HIDE DEF r, s
  <2>6. s - r = BUFFER_NUM * (p + 1 - q) /\ r - s = BUFFER_NUM * (q - (p + 1))
    BY <1>1, <2>1, <2>3, <2>4, <2>5 DEF r, s
  <2>7. CASE r < s
    <3>1. p + 1 - q \in Int /\ 0 < s - r /\ s - r < BUFFER_NUM
      BY <1>1, <2>4, <2>7
    <3> QED BY <1>3, <2>6, <3>1
  <2>8. CASE s < r
    <3>1. q - (p + 1) \in Int /\ 0 < r - s /\ r - s < BUFFER_NUM
      BY <1>1, <2>4, <2>8
    <3> QED BY <1>3, <2>6, <3>1
  <2>9. CASE r = s
    BY <2>9 DEF r, s
  <2> QED BY <2>4, <2>7, <2>8, <2>9
<1> QED BY <1>2, <1>5, <1>6

LEMMA CountsAreNat == loopCount \in Nat /\ BUFFER_NUM \in Nat \ {0}
<1>1. tileNum \in Nat /\ BUFFER_NUM \in Nat \ {0}
  BY HelloWorldAssumption
<1> QED BY <1>1 DEF loopCount

\* Set at one buffer.
LEMMA SetAt ==
    ASSUME NEW f, NEW qs, NEW b, NEW value, \A q \in Queues : DOMAIN f[q] = Buffers
    PROVE  \A q \in Queues :
               /\ DOMAIN Set(f, qs, b, value)[q] = Buffers
               /\ \A x \in Buffers : Set(f, qs, b, value)[q][x] =
                      IF q \in qs /\ x = b THEN value ELSE f[q][x]
BY DEF Set

------------------------------------------------------------------------------
\* A step, buffer by buffer.

LEMMA AtIs == \A e \in Engines : At(e) = Slot(Done(e))
BY DEF At, Slot, Done

\* Every engine's turn: how far it is.
LEMMA Typed ==
    ASSUME PipelineTypeOK
    PROVE  /\ \A e \in Engines : Done(e) \in 0..loopCount /\ Done(e) \in Nat /\ At(e) \in Buffers
           /\ Done("CopyOut") <= Done("Compute") /\ Done("Compute") <= Done("CopyIn")
           /\ Done("CopyIn") <= Done("Compute") + BUFFER_NUM
           /\ Done("Compute") <= Done("CopyOut") + BUFFER_NUM
           /\ \A e \in Engines : engine[e].busy \in BOOLEAN
           /\ \A e \in Engines : engine[e] = [done |-> Done(e), busy |-> engine[e].busy]
<1>1. \A e \in Engines : engine[e] \in [done : 0..loopCount, busy : BOOLEAN]
  BY DEF PipelineTypeOK
<1>2. \A e \in Engines : Done(e) \in 0..loopCount /\ engine[e].busy \in BOOLEAN
  BY <1>1 DEF Done
<1>3. \A e \in Engines : Done(e) \in Nat
  BY <1>2, CountsAreNat
<1>4. \A e \in Engines : At(e) \in Buffers
  BY <1>3, SlotIs, AtIs
<1>5. \A e \in Engines : engine[e] = [done |-> Done(e), busy |-> engine[e].busy]
  BY <1>1 DEF Done
<1> QED BY <1>2, <1>3, <1>4, <1>5 DEF PipelineTypeOK, Done, Engines

\* What starting and ending do to the engines.
LEMMA StartsIs ==
    ASSUME PipelineTypeOK, NEW e \in Engines, Starts(e)
    PROVE  /\ engine' \in [Engines -> [done : 0..loopCount, busy : BOOLEAN]]
           /\ \A f \in Engines : Done(f)' = Done(f)
           /\ engine'[e].busy = TRUE
           /\ \A f \in Engines \ {e} : engine'[f].busy = engine[f].busy
BY DEF Starts, PipelineTypeOK, Done

LEMMA EndsIs ==
    ASSUME PipelineTypeOK, NEW e \in Engines, Ends(e), Done(e) < loopCount
    PROVE  /\ engine' \in [Engines -> [done : 0..loopCount, busy : BOOLEAN]]
           /\ Done(e)' = Done(e) + 1
           /\ \A f \in Engines \ {e} : Done(f)' = Done(f)
           /\ engine'[e].busy = FALSE
           /\ \A f \in Engines \ {e} : engine'[f].busy = engine[f].busy
<1>1. Done(e) \in Nat /\ loopCount \in Nat
  BY Typed, CountsAreNat
<1>2. Done(e) + 1 \in 0..loopCount
  BY <1>1
<1>3. engine' = [engine EXCEPT ![e] = [done |-> Done(e) + 1, busy |-> FALSE]]
  BY DEF Ends, Done
<1> QED BY <1>2, <1>3 DEF PipelineTypeOK, Done

\* CopyIn begins in a buffer that is empty.
LEMMA CopyInStartsKeeps ==
    ASSUME PipelineInv, CopyInStarts
    PROVE  PipelineInv'
<1> DEFINE c == Done("CopyIn")  m == Done("Compute")  o == Done("CopyOut")
<1>1. /\ c \in Nat /\ m \in Nat /\ o \in Nat /\ o <= m /\ m <= c /\ c <= m + BUFFER_NUM
      /\ Slot(c) \in Buffers /\ BUFFER_NUM \in Nat \ {0} /\ loopCount \in Nat
  BY Typed, AtIs, CountsAreNat DEF PipelineInv, Engines
<1>2. /\ ~ engine["CopyIn"].busy /\ c < loopCount /\ \A q \in In : queue[q][Slot(c)] = "free"
      /\ UNCHANGED <<sizes, block, z>>
  BY AtIs DEF CopyInStarts, Ready, Engines, Done
<1>3. \A q \in Queues :
          /\ DOMAIN local'[q] = Buffers
          /\ \A b \in Buffers :
                /\ queue'[q][b] = IF q \in In /\ b = Slot(c) THEN "taken" ELSE queue[q][b]
                /\ local'[q][b] = IF q \in In /\ b = Slot(c) THEN {} ELSE local[q][b]
  BY SetAt, AtIs DEF CopyInStarts, PipelineInv, PipelineTypeOK, Shaped, Engines
<1>4. /\ c' = c /\ m' = m /\ o' = o
      /\ engine'["CopyIn"].busy = TRUE /\ engine'["Compute"].busy = engine["Compute"].busy
      /\ engine'["CopyOut"].busy = engine["CopyOut"].busy
      /\ engine' \in [Engines -> [done : 0..loopCount, busy : BOOLEAN]]
  BY StartsIs DEF CopyInStarts, PipelineInv, Engines
<1>5. \A e \in Engines : At(e)' = Slot(Done(e)')
  BY DEF At, Slot, Done
<1>6. DOMAIN local' = Queues /\ queue' \in [Queues -> [Buffers -> {"free", "taken", "full"}]]
  BY <1>1 DEF CopyInStarts, Set, PipelineInv, PipelineTypeOK
<1>7. c < m + BUFFER_NUM
  <2>1. CASE c = m + BUFFER_NUM
    <3>1. m \in m .. c - 1 /\ Slot(c) = Slot(m)
      BY <1>1, <2>1, SlotIs
    <3>2. queue["inQueueX"][Slot(m)] = "full"
      BY <3>1 DEF PipelineInv, InputsInTurn, InputInTurn, In
    <3> QED BY <1>2, <3>1, <3>2 DEF In
  <2> QED BY <1>1, <2>1
<1>8. \A i \in m .. c - 1 : i \in Nat /\ Slot(i) \in Buffers /\ Slot(i) # Slot(c)
  BY <1>1, <1>7, SlotIs
<1>9. \A i \in o .. m - 1 : i \in Nat /\ Slot(i) \in Buffers
  BY <1>1, SlotIs
<1> HIDE DEF c, m, o
<1>10. PipelineTypeOK' /\ Shaped'
  BY <1>1, <1>2, <1>3, <1>4, <1>6 DEF PipelineInv, PipelineTypeOK, Shaped, c, m, o, Done
<1>11. InputsInTurn'
  <2> SUFFICES ASSUME NEW q \in In PROVE InputInTurn(q)'
    BY DEF InputsInTurn
  <2>1. InputInTurn(q) /\ q \in Queues
    BY DEF PipelineInv, InputsInTurn, In, Queues
  <2>2. \A b \in Buffers : queue'[q][b] = IF b = Slot(c) THEN "taken" ELSE queue[q][b]
    BY <1>3, <2>1
  <2>3. \A b \in Buffers : local'[q][b] = IF b = Slot(c) THEN {} ELSE local[q][b]
    BY <1>3, <2>1
  <2> QED BY <1>1, <1>2, <1>4, <1>5, <1>7, <1>8, <2>1, <2>2, <2>3 DEF InputInTurn, c, m, o, Engines
<1>12. OutputsInTurn'
  <2>1. \A b \in Buffers : /\ queue'["outQueueZ"][b] = queue["outQueueZ"][b]
                           /\ local'["outQueueZ"][b] = local["outQueueZ"][b]
    BY <1>3 DEF In, Queues
  <2>2. At("Compute")' = At("Compute") /\ At("CopyOut")' = At("CopyOut") /\ At("Compute") \in Buffers
    BY <1>4, <1>5, AtIs, Typed DEF Engines, PipelineInv, c, m, o
  <2>3. OutputsInTurn
    BY DEF PipelineInv
  <2> QED BY <1>1, <1>4, <1>9, <2>1, <2>2, <2>3 DEF OutputsInTurn, c, m, o
<1>13. SumsOfOneTile'
  BY <1>2, <1>4 DEF PipelineInv, SumsOfOneTile, o, Done
<1> QED BY <1>10, <1>11, <1>12, <1>13 DEF PipelineInv
\* CopyIn ends: its tile is the last that is in.
LEMMA CopyInEndsKeeps ==
    ASSUME PipelineInv, CopyInEnds
    PROVE  PipelineInv'
<1> DEFINE c == Done("CopyIn")  m == Done("Compute")  o == Done("CopyOut")
<1>1. /\ c \in Nat /\ m \in Nat /\ o \in Nat /\ o <= m /\ m <= c /\ c <= m + BUFFER_NUM
      /\ m <= o + BUFFER_NUM /\ c <= loopCount
      /\ Slot(c) \in Buffers /\ Slot(m) \in Buffers /\ Slot(o) \in Buffers
      /\ BUFFER_NUM \in Nat \ {0} /\ loopCount \in Nat
  BY Typed, AtIs, CountsAreNat DEF PipelineInv, Engines
<1>2. /\ engine["CopyIn"].busy /\ c < loopCount /\ c < m + BUFFER_NUM
      /\ \A q \in In : queue[q][Slot(c)] = "taken"
      /\ UNCHANGED <<sizes, block, z>>
  BY AtIs DEF CopyInEnds, PipelineInv, InputsInTurn, InputInTurn, Engines, Done, In
<1>3. \A q \in Queues :
          /\ DOMAIN local'[q] = Buffers
          /\ \A b \in Buffers :
                /\ queue'[q][b] = IF q \in In /\ b = Slot(c) THEN "full" ELSE queue[q][b]
                /\ local'[q][b] = IF q \in In /\ b = Slot(c) THEN {<<q, c>>} ELSE local[q][b]
  BY SetAt, AtIs DEF CopyInEnds, PipelineInv, PipelineTypeOK, Shaped, Engines, Done
<1>4. /\ c' = c + 1 /\ m' = m /\ o' = o
      /\ engine'["CopyIn"].busy = FALSE /\ engine'["Compute"].busy = engine["Compute"].busy
      /\ engine'["CopyOut"].busy = engine["CopyOut"].busy
      /\ engine' \in [Engines -> [done : 0..loopCount, busy : BOOLEAN]]
  BY EndsIs, <1>2 DEF CopyInEnds, PipelineInv, Engines
<1>5. \A e \in Engines : At(e)' = Slot(Done(e)')
  BY DEF At, Slot, Done
<1>6. DOMAIN local' = Queues /\ queue' \in [Queues -> [Buffers -> {"free", "taken", "full"}]]
  BY <1>1 DEF CopyInEnds, Set, PipelineInv, PipelineTypeOK
<1>8. \A i \in m .. c - 1 : i \in Nat /\ Slot(i) \in Buffers /\ Slot(i) # Slot(c)
  BY <1>1, <1>2, SlotIs
<1>9. \A i \in o .. m - 1 : i \in Nat /\ Slot(i) \in Buffers
  BY <1>1, SlotIs
<1> HIDE DEF c, m, o
<1>10. PipelineTypeOK' /\ Shaped'
  <2>1. /\ Done("CopyOut")' <= Done("Compute")' /\ Done("Compute")' <= Done("CopyIn")'
        /\ Done("CopyIn")' <= Done("Compute")' + BUFFER_NUM
        /\ Done("Compute")' <= Done("CopyOut")' + BUFFER_NUM
    BY <1>1, <1>2, <1>4 DEF c, m, o
  <2> QED BY <1>2, <1>3, <1>4, <1>6, <2>1 DEF PipelineInv, PipelineTypeOK, Shaped, Done
<1>11. InputsInTurn'
  <2> SUFFICES ASSUME NEW q \in In PROVE InputInTurn(q)'
    BY DEF InputsInTurn
  <2>1. InputInTurn(q) /\ q \in Queues
    BY DEF PipelineInv, InputsInTurn, In, Queues
  <2>2. \A b \in Buffers : queue'[q][b] = IF b = Slot(c) THEN "full" ELSE queue[q][b]
    BY <1>3, <2>1
  <2>3. \A b \in Buffers : local'[q][b] = IF b = Slot(c) THEN {<<q, c>>} ELSE local[q][b]
    BY <1>3, <2>1
  <2>4. \A i : i \in m .. c <=> i \in m .. c - 1 \/ i = c
    BY <1>1
  <2>5. At("CopyIn") = Slot(c) /\ c + 1 - 1 = c
    BY <1>1, AtIs DEF c, Engines
  <2>6. \A i \in m .. c : queue'[q][Slot(i)] = "full" /\ local'[q][Slot(i)] = {<<q, i>>}
    BY <1>1, <1>8, <2>1, <2>2, <2>3, <2>4 DEF InputInTurn, c, m
  <2>7. \A b \in Buffers : /\ queue'[q][b] = "full" => \E i \in m .. c : b = Slot(i)
                           /\ queue'[q][b] # "taken"
    BY <1>1, <2>1, <2>2, <2>4, <2>5 DEF InputInTurn, c, m
  <2> QED BY <1>1, <1>4, <2>5, <2>6, <2>7 DEF InputInTurn, c, m, o
<1>12. OutputsInTurn'
  <2>1. \A b \in Buffers : /\ queue'["outQueueZ"][b] = queue["outQueueZ"][b]
                           /\ local'["outQueueZ"][b] = local["outQueueZ"][b]
    BY <1>3 DEF In, Queues
  <2>2. At("Compute")' = At("Compute") /\ At("CopyOut")' = At("CopyOut") /\ At("Compute") \in Buffers
    BY <1>4, <1>5, AtIs, Typed DEF Engines, PipelineInv, c, m, o
  <2>3. OutputsInTurn
    BY DEF PipelineInv
  <2> QED BY <1>1, <1>4, <1>9, <2>1, <2>2, <2>3 DEF OutputsInTurn, c, m, o
<1>13. SumsOfOneTile'
  BY <1>2, <1>4 DEF PipelineInv, SumsOfOneTile, o, Done
<1> QED BY <1>10, <1>11, <1>12, <1>13 DEF PipelineInv

\* Compute begins: the inputs of its tile are in, and its buffer is empty.
LEMMA ComputeStartsKeeps ==
    ASSUME PipelineInv, ComputeStarts
    PROVE  PipelineInv'
<1> DEFINE c == Done("CopyIn")  m == Done("Compute")  o == Done("CopyOut")
<1>1. /\ c \in Nat /\ m \in Nat /\ o \in Nat /\ o <= m /\ m <= c /\ c <= m + BUFFER_NUM
      /\ m <= o + BUFFER_NUM /\ c <= loopCount
      /\ Slot(c) \in Buffers /\ Slot(m) \in Buffers /\ Slot(o) \in Buffers
      /\ BUFFER_NUM \in Nat \ {0} /\ loopCount \in Nat
  BY Typed, AtIs, CountsAreNat DEF PipelineInv, Engines
<1>2. /\ ~ engine["Compute"].busy /\ \A q \in In : queue[q][Slot(m)] = "full"
      /\ queue["outQueueZ"][Slot(m)] = "free"
      /\ UNCHANGED <<sizes, block, z>>
  BY AtIs DEF ComputeStarts, Ready, Engines, Done
<1>3. \A q \in Queues :
          /\ DOMAIN local'[q] = Buffers
          /\ \A b \in Buffers :
                /\ queue'[q][b] = IF q = "outQueueZ" /\ b = Slot(m) THEN "taken" ELSE queue[q][b]
                /\ local'[q][b] = IF q = "outQueueZ" /\ b = Slot(m) THEN {} ELSE local[q][b]
  BY SetAt, AtIs DEF ComputeStarts, PipelineInv, PipelineTypeOK, Shaped, Engines
<1>4. /\ c' = c /\ m' = m /\ o' = o
      /\ engine'["Compute"].busy = TRUE /\ engine'["CopyIn"].busy = engine["CopyIn"].busy
      /\ engine'["CopyOut"].busy = engine["CopyOut"].busy
      /\ engine' \in [Engines -> [done : 0..loopCount, busy : BOOLEAN]]
  BY StartsIs DEF ComputeStarts, PipelineInv, Engines
<1>5. \A e \in Engines : At(e)' = Slot(Done(e)')
  BY DEF At, Slot, Done
<1>6. DOMAIN local' = Queues /\ queue' \in [Queues -> [Buffers -> {"free", "taken", "full"}]]
  BY <1>1 DEF ComputeStarts, Set, PipelineInv, PipelineTypeOK
<1>7. m < c /\ m < o + BUFFER_NUM
  <2>1. m < c
    <3>1. \E i \in m .. c - 1 : Slot(m) = Slot(i)
      BY <1>1, <1>2 DEF PipelineInv, InputsInTurn, InputInTurn, In
    <3> QED BY <1>1, <3>1
  <2>2. CASE m = o + BUFFER_NUM
    <3>1. o \in o .. m - 1 /\ Slot(m) = Slot(o)
      BY <1>1, <2>2, SlotIs
    <3>2. queue["outQueueZ"][Slot(o)] \in {"taken", "full"}
      BY <3>1 DEF PipelineInv, OutputsInTurn
    <3> QED BY <1>2, <3>1, <3>2
  <2> QED BY <1>1, <2>1, <2>2
<1>8. \A i \in m .. c - 1 : i \in Nat /\ Slot(i) \in Buffers
  BY <1>1, SlotIs
<1>9. \A i \in o .. m - 1 : i \in Nat /\ Slot(i) \in Buffers /\ Slot(i) # Slot(m)
  BY <1>1, <1>7, SlotIs
<1> HIDE DEF c, m, o
<1>10. PipelineTypeOK' /\ Shaped'
  <2>1. /\ Done("CopyOut")' <= Done("Compute")' /\ Done("Compute")' <= Done("CopyIn")'
        /\ Done("CopyIn")' <= Done("Compute")' + BUFFER_NUM
        /\ Done("Compute")' <= Done("CopyOut")' + BUFFER_NUM
    BY <1>1, <1>2, <1>4 DEF c, m, o
  <2> QED BY <1>2, <1>3, <1>4, <1>6, <2>1 DEF PipelineInv, PipelineTypeOK, Shaped, Done
<1>11. InputsInTurn'
  <2> SUFFICES ASSUME NEW q \in In PROVE InputInTurn(q)'
    BY DEF InputsInTurn
  <2>1. InputInTurn(q) /\ q \in Queues
    BY DEF PipelineInv, InputsInTurn, In, Queues
  <2>2. \A b \in Buffers : queue'[q][b] = queue[q][b] /\ local'[q][b] = local[q][b]
    BY <1>3, <2>1 DEF In
  <2>3. At("CopyIn")' = At("CopyIn") /\ At("CopyIn") \in Buffers
    BY <1>4, <1>5, AtIs, Typed DEF Engines, PipelineInv, c
  <2> QED BY <1>1, <1>4, <1>8, <2>1, <2>2, <2>3 DEF InputInTurn, c, m, o
<1>12. OutputsInTurn'
  <2> DEFINE q == "outQueueZ"
  <2>1. OutputsInTurn /\ q \in Queues
    BY DEF PipelineInv, Queues
  <2>2. \A b \in Buffers : queue'[q][b] = IF b = Slot(m) THEN "taken" ELSE queue[q][b]
    BY <1>3, <2>1
  <2>3. \A b \in Buffers : local'[q][b] = IF b = Slot(m) THEN {} ELSE local[q][b]
    BY <1>3, <2>1
  <2>4. At("Compute")' = Slot(m) /\ At("CopyOut")' = At("CopyOut")
    BY <1>4, <1>5, AtIs DEF m, o, Engines
  <2> QED BY <1>1, <1>2, <1>4, <1>7, <1>9, <2>1, <2>2, <2>3, <2>4 DEF OutputsInTurn, c, m, o
<1>13. SumsOfOneTile'
  BY <1>2, <1>4 DEF PipelineInv, SumsOfOneTile, o, Done
<1> QED BY <1>10, <1>11, <1>12, <1>13 DEF PipelineInv

\* Compute ends: its inputs are given back and its sum is the last that is ready.
LEMMA ComputeEndsKeeps ==
    ASSUME PipelineInv, ComputeEnds
    PROVE  PipelineInv'
<1> DEFINE c == Done("CopyIn")  m == Done("Compute")  o == Done("CopyOut")
<1>1. /\ c \in Nat /\ m \in Nat /\ o \in Nat /\ o <= m /\ m <= c /\ c <= m + BUFFER_NUM
      /\ m <= o + BUFFER_NUM /\ c <= loopCount
      /\ Slot(c) \in Buffers /\ Slot(m) \in Buffers /\ Slot(o) \in Buffers
      /\ BUFFER_NUM \in Nat \ {0} /\ loopCount \in Nat
  BY Typed, AtIs, CountsAreNat DEF PipelineInv, Engines
<1>2. /\ engine["Compute"].busy /\ m < c /\ m < o + BUFFER_NUM
      /\ queue["outQueueZ"][Slot(m)] = "taken"
      /\ UNCHANGED <<sizes, block, z>>
  BY AtIs DEF ComputeEnds, PipelineInv, OutputsInTurn, Engines
<1>7. local["inQueueX"][Slot(m)] \cup local["inQueueY"][Slot(m)] = SumOf(m)
  <2>1. m \in m .. c - 1
    BY <1>1, <1>2
  <2>2. \A q \in In : local[q][Slot(m)] = {<<q, m>>}
    BY <2>1 DEF PipelineInv, InputsInTurn, InputInTurn
  <2> QED BY <2>2 DEF SumOf, In
<1>3. \A q \in Queues :
          /\ DOMAIN local'[q] = Buffers
          /\ \A b \in Buffers :
                /\ queue'[q][b] = IF b # Slot(m) THEN queue[q][b]
                                  ELSE IF q \in In THEN "free" ELSE "full"
                /\ local'[q][b] = IF q = "outQueueZ" /\ b = Slot(m) THEN SumOf(m) ELSE local[q][b]
  <2>1. /\ local' = Set(local, {"outQueueZ"}, Slot(m), SumOf(m))
        /\ queue' = [Set(queue, In, Slot(m), "free") EXCEPT !["outQueueZ"][Slot(m)] = "full"]
    BY <1>7, AtIs DEF ComputeEnds, Engines
  <2>2. \A q \in Queues : DOMAIN queue[q] = Buffers /\ DOMAIN local[q] = Buffers
    BY DEF PipelineInv, PipelineTypeOK, Shaped
  <2>3. \A q \in Queues :
           /\ DOMAIN Set(queue, In, Slot(m), "free")[q] = Buffers
           /\ \A b \in Buffers : Set(queue, In, Slot(m), "free")[q][b] =
                  IF q \in In /\ b = Slot(m) THEN "free" ELSE queue[q][b]
    BY <2>2, SetAt
  <2>4. DOMAIN Set(queue, In, Slot(m), "free") = Queues
    BY DEF Set
  <2>5. \A q \in Queues : q \in In <=> q # "outQueueZ"
    BY DEF In, Queues
  <2>6. \A q \in Queues :
           /\ DOMAIN local'[q] = Buffers
           /\ \A b \in Buffers : local'[q][b] = IF q = "outQueueZ" /\ b = Slot(m) THEN SumOf(m) ELSE local[q][b]
    BY <2>1, <2>2, SetAt
  <2>7. \A q \in Queues : \A b \in Buffers :
           queue'[q][b] = IF b # Slot(m) THEN queue[q][b] ELSE IF q \in In THEN "free" ELSE "full"
    BY <2>1, <2>3, <2>4, <2>5
  <2> QED BY <2>6, <2>7
<1>4. /\ c' = c /\ m' = m + 1 /\ o' = o
      /\ engine'["Compute"].busy = FALSE /\ engine'["CopyIn"].busy = engine["CopyIn"].busy
      /\ engine'["CopyOut"].busy = engine["CopyOut"].busy
      /\ engine' \in [Engines -> [done : 0..loopCount, busy : BOOLEAN]]
  <2>1. m < loopCount
    BY <1>1, <1>2
  <2> QED BY EndsIs, <2>1 DEF ComputeEnds, PipelineInv, Engines
<1>5. \A e \in Engines : At(e)' = Slot(Done(e)')
  BY DEF At, Slot, Done
<1>6. DOMAIN local' = Queues /\ queue' \in [Queues -> [Buffers -> {"free", "taken", "full"}]]
  BY <1>1 DEF ComputeEnds, Set, PipelineInv, PipelineTypeOK
<1>8. \A i \in m .. c - 1 : i \in Nat /\ Slot(i) \in Buffers /\ (i # m => Slot(i) # Slot(m))
  <2> SUFFICES ASSUME NEW i \in m .. c - 1
               PROVE  i \in Nat /\ Slot(i) \in Buffers /\ (i # m => Slot(i) # Slot(m))
    OBVIOUS
  <2>1. i \in Nat /\ (i # m => m < i /\ i < m + BUFFER_NUM)
    BY <1>1
  <2> QED BY <1>1, <2>1, SlotIs
<1>9. \A i \in o .. m - 1 : i \in Nat /\ Slot(i) \in Buffers /\ Slot(i) # Slot(m)
  BY <1>1, <1>2, SlotIs
<1> HIDE DEF c, m, o
<1>10. PipelineTypeOK' /\ Shaped'
  <2>1. /\ Done("CopyOut")' <= Done("Compute")' /\ Done("Compute")' <= Done("CopyIn")'
        /\ Done("CopyIn")' <= Done("Compute")' + BUFFER_NUM
        /\ Done("Compute")' <= Done("CopyOut")' + BUFFER_NUM
    BY <1>1, <1>2, <1>4 DEF c, m, o
  <2> QED BY <1>2, <1>3, <1>4, <1>6, <2>1 DEF PipelineInv, PipelineTypeOK, Shaped, Done
<1>11. InputsInTurn'
  <2> SUFFICES ASSUME NEW q \in In PROVE InputInTurn(q)'
    BY DEF InputsInTurn
  <2>1. InputInTurn(q) /\ q \in Queues /\ q # "outQueueZ"
    BY DEF PipelineInv, InputsInTurn, In, Queues
  <2>2. \A b \in Buffers : queue'[q][b] = IF b = Slot(m) THEN "free" ELSE queue[q][b]
    BY <1>3, <2>1
  <2>3. \A b \in Buffers : local'[q][b] = local[q][b]
    BY <1>3, <2>1
  <2>4. At("CopyIn")' = At("CopyIn") /\ At("CopyIn") = Slot(c)
    BY <1>4, <1>5, AtIs DEF Engines, c
  <2>5. \A i : i \in m .. c - 1 <=> i \in m + 1 .. c - 1 \/ i = m
    BY <1>1, <1>2
  <2>6. m \notin m + 1 .. c - 1
    BY <1>1
  <2>7. \A i \in m + 1 .. c - 1 : queue'[q][Slot(i)] = "full" /\ local'[q][Slot(i)] = {<<q, i>>}
    BY <1>8, <2>1, <2>2, <2>3, <2>5, <2>6 DEF InputInTurn, c, m
  <2>8. \A b \in Buffers : /\ queue'[q][b] = "full" => \E i \in m + 1 .. c - 1 : b = Slot(i)
                           /\ queue'[q][b] = "taken" => engine["CopyIn"].busy /\ b = At("CopyIn")
    BY <2>1, <2>2, <2>5 DEF InputInTurn, c, m
  <2>9. engine["CopyIn"].busy => /\ c < loopCount /\ c < m + 1 + BUFFER_NUM
                                 /\ queue'[q][At("CopyIn")] = "taken"
    <3> SUFFICES ASSUME engine["CopyIn"].busy
                 PROVE  /\ c < loopCount /\ c < m + 1 + BUFFER_NUM
                        /\ queue'[q][At("CopyIn")] = "taken"
      OBVIOUS
    <3>1. c < loopCount /\ c < m + BUFFER_NUM /\ queue[q][At("CopyIn")] = "taken"
      BY <2>1 DEF InputInTurn, c, m
    <3>2. queue[q][Slot(m)] = "full"
      BY <1>1, <1>2, <2>1, <2>5 DEF InputInTurn, c, m
    <3> QED BY <1>1, <2>2, <2>4, <3>1, <3>2
  <2> QED BY <1>4, <2>4, <2>7, <2>8, <2>9 DEF InputInTurn, c, m, o
<1>12. OutputsInTurn'
  <2> DEFINE q == "outQueueZ"
  <2>1. OutputsInTurn /\ q \in Queues /\ q \notin In
    BY DEF PipelineInv, Queues, In
  <2>2. \A b \in Buffers : queue'[q][b] = IF b = Slot(m) THEN "full" ELSE queue[q][b]
    BY <1>3, <2>1
  <2>3. \A b \in Buffers : local'[q][b] = IF b = Slot(m) THEN SumOf(m) ELSE local[q][b]
    BY <1>3, <2>1
  <2>4. At("Compute") = Slot(m) /\ At("CopyOut")' = At("CopyOut") /\ m + 1 - 1 = m
    BY <1>1, <1>4, <1>5, AtIs DEF m, o, Engines
  <2>5. \A i : i \in o .. m <=> i \in o .. m - 1 \/ i = m
    BY <1>1
  <2>6. engine["CopyOut"].busy => o < m
    BY <2>1 DEF OutputsInTurn, o, m
  <2>7. \A i \in o .. m :
           /\ local'[q][Slot(i)] = SumOf(i)
           /\ queue'[q][Slot(i)] = IF i = o /\ engine["CopyOut"].busy THEN "taken" ELSE "full"
    <3>1. ASSUME NEW i \in o .. m - 1
          PROVE  /\ local'[q][Slot(i)] = SumOf(i)
                 /\ queue'[q][Slot(i)] = IF i = o /\ engine["CopyOut"].busy THEN "taken" ELSE "full"
      BY <1>9, <2>1, <2>2, <2>3 DEF OutputsInTurn, o, m
    <3>2. /\ local'[q][Slot(m)] = SumOf(m)
          /\ queue'[q][Slot(m)] = IF m = o /\ engine["CopyOut"].busy THEN "taken" ELSE "full"
      BY <1>1, <2>2, <2>3, <2>6
    <3> QED BY <2>5, <3>1, <3>2
  <2>8. \A b \in Buffers : /\ queue'[q][b] = "full" => \E i \in o .. m : b = Slot(i)
                           /\ queue'[q][b] = "taken" => engine["CopyOut"].busy /\ b = At("CopyOut")
    BY <1>1, <2>1, <2>2, <2>4, <2>5 DEF OutputsInTurn, o, m
  <2>9. engine["CopyOut"].busy => o < m + 1
    BY <1>1, <2>6
  <2> QED BY <1>1, <1>4, <2>4, <2>7, <2>8, <2>9 DEF OutputsInTurn, c, m, o
<1>13. SumsOfOneTile'
  BY <1>2, <1>4 DEF PipelineInv, SumsOfOneTile, o, Done
<1> QED BY <1>10, <1>11, <1>12, <1>13 DEF PipelineInv

\* CopyOut begins with the oldest sum.
LEMMA CopyOutStartsKeeps ==
    ASSUME PipelineInv, CopyOutStarts
    PROVE  PipelineInv'
<1> DEFINE c == Done("CopyIn")  m == Done("Compute")  o == Done("CopyOut")
<1>1. /\ c \in Nat /\ m \in Nat /\ o \in Nat /\ o <= m /\ m <= c /\ c <= m + BUFFER_NUM
      /\ m <= o + BUFFER_NUM /\ c <= loopCount
      /\ Slot(c) \in Buffers /\ Slot(m) \in Buffers /\ Slot(o) \in Buffers
      /\ BUFFER_NUM \in Nat \ {0} /\ loopCount \in Nat
  BY Typed, AtIs, CountsAreNat DEF PipelineInv, Engines
<1>2. /\ ~ engine["CopyOut"].busy /\ queue["outQueueZ"][Slot(o)] = "full"
      /\ UNCHANGED <<sizes, block, local, z>>
  BY AtIs DEF CopyOutStarts, Ready, Engines, Done
<1>3. \A q \in Queues :
          /\ DOMAIN local'[q] = Buffers
          /\ \A b \in Buffers :
                /\ queue'[q][b] = IF q = "outQueueZ" /\ b = Slot(o) THEN "taken" ELSE queue[q][b]
                /\ local'[q][b] = local[q][b]
  BY SetAt, AtIs, <1>2 DEF CopyOutStarts, PipelineInv, PipelineTypeOK, Shaped, Engines
<1>4. /\ c' = c /\ m' = m /\ o' = o
      /\ engine'["CopyOut"].busy = TRUE /\ engine'["CopyIn"].busy = engine["CopyIn"].busy
      /\ engine'["Compute"].busy = engine["Compute"].busy
      /\ engine' \in [Engines -> [done : 0..loopCount, busy : BOOLEAN]]
  BY StartsIs DEF CopyOutStarts, PipelineInv, Engines
<1>5. \A e \in Engines : At(e)' = Slot(Done(e)')
  BY DEF At, Slot, Done
<1>6. DOMAIN local' = Queues /\ queue' \in [Queues -> [Buffers -> {"free", "taken", "full"}]]
  BY <1>1, <1>2 DEF CopyOutStarts, Set, PipelineInv, PipelineTypeOK, Shaped
<1>7. o < m
  <2>1. \E i \in o .. m - 1 : Slot(o) = Slot(i)
    BY <1>1, <1>2 DEF PipelineInv, OutputsInTurn
  <2> QED BY <1>1, <2>1
<1>8. \A i \in m .. c - 1 : i \in Nat /\ Slot(i) \in Buffers
  BY <1>1, SlotIs
<1>9. \A i \in o .. m - 1 : i \in Nat /\ Slot(i) \in Buffers /\ (i # o => Slot(i) # Slot(o))
  <2> SUFFICES ASSUME NEW i \in o .. m - 1
               PROVE  i \in Nat /\ Slot(i) \in Buffers /\ (i # o => Slot(i) # Slot(o))
    OBVIOUS
  <2>1. i \in Nat /\ (i # o => o < i /\ i < o + BUFFER_NUM)
    BY <1>1
  <2> QED BY <1>1, <2>1, SlotIs
<1> HIDE DEF c, m, o
<1>10. PipelineTypeOK' /\ Shaped'
  <2>1. /\ Done("CopyOut")' <= Done("Compute")' /\ Done("Compute")' <= Done("CopyIn")'
        /\ Done("CopyIn")' <= Done("Compute")' + BUFFER_NUM
        /\ Done("Compute")' <= Done("CopyOut")' + BUFFER_NUM
    BY <1>1, <1>2, <1>4 DEF c, m, o
  <2> QED BY <1>2, <1>3, <1>4, <1>6, <2>1 DEF PipelineInv, PipelineTypeOK, Shaped, Done
<1>11. InputsInTurn'
  <2> SUFFICES ASSUME NEW q \in In PROVE InputInTurn(q)'
    BY DEF InputsInTurn
  <2>1. InputInTurn(q) /\ q \in Queues
    BY DEF PipelineInv, InputsInTurn, In, Queues
  <2>2. \A b \in Buffers : queue'[q][b] = queue[q][b] /\ local'[q][b] = local[q][b]
    BY <1>3, <2>1 DEF In
  <2>3. At("CopyIn")' = At("CopyIn") /\ At("CopyIn") \in Buffers
    BY <1>4, <1>5, AtIs, Typed DEF Engines, PipelineInv, c
  <2> QED BY <1>1, <1>4, <1>8, <2>1, <2>2, <2>3 DEF InputInTurn, c, m, o
<1>12. OutputsInTurn'
  <2> DEFINE q == "outQueueZ"
  <2>1. OutputsInTurn /\ q \in Queues
    BY DEF PipelineInv, Queues
  <2>2. \A b \in Buffers : /\ queue'[q][b] = IF b = Slot(o) THEN "taken" ELSE queue[q][b]
                           /\ local'[q][b] = local[q][b]
    BY <1>3, <2>1
  <2>3. At("Compute")' = At("Compute") /\ At("CopyOut")' = Slot(o) /\ At("Compute") \in Buffers
    BY <1>4, <1>5, AtIs, Typed DEF m, o, Engines, PipelineInv
  <2>4. \A i \in o .. m - 1 :
           /\ local'[q][Slot(i)] = SumOf(i)
           /\ queue'[q][Slot(i)] = IF i = o THEN "taken" ELSE "full"
    BY <1>2, <1>9, <2>1, <2>2 DEF OutputsInTurn, o, m
  <2>5. \A b \in Buffers : /\ queue'[q][b] = "full" => \E i \in o .. m - 1 : b = Slot(i)
                           /\ queue'[q][b] = "taken" =>
                                  (engine["Compute"].busy /\ b = At("Compute")) \/ b = Slot(o)
    BY <1>2, <2>1, <2>2 DEF OutputsInTurn, o, m
  <2>6. engine["Compute"].busy => /\ m < c /\ m < o + BUFFER_NUM
                                  /\ queue'[q][At("Compute")] = "taken"
    BY <2>1, <2>2, <2>3 DEF OutputsInTurn, o, m, c
  <2> QED BY <1>4, <1>7, <2>3, <2>4, <2>5, <2>6 DEF OutputsInTurn, c, m, o
<1>13. SumsOfOneTile'
  BY <1>2, <1>4 DEF PipelineInv, SumsOfOneTile, o, Done
<1> QED BY <1>10, <1>11, <1>12, <1>13 DEF PipelineInv

\* CopyOut ends: a tile of z is written.
LEMMA CopyOutEndsKeeps ==
    ASSUME PipelineInv, CopyOutEnds
    PROVE  PipelineInv'
<1> DEFINE c == Done("CopyIn")  m == Done("Compute")  o == Done("CopyOut")
<1>1. /\ c \in Nat /\ m \in Nat /\ o \in Nat /\ o <= m /\ m <= c /\ c <= m + BUFFER_NUM
      /\ m <= o + BUFFER_NUM /\ c <= loopCount
      /\ Slot(c) \in Buffers /\ Slot(m) \in Buffers /\ Slot(o) \in Buffers
      /\ BUFFER_NUM \in Nat \ {0} /\ loopCount \in Nat
  BY Typed, AtIs, CountsAreNat DEF PipelineInv, Engines
<1>2. /\ engine["CopyOut"].busy /\ o < m
      /\ UNCHANGED <<sizes, block, local>>
      /\ z' = [z EXCEPT ![o] = local["outQueueZ"][Slot(o)]]
  BY AtIs DEF CopyOutEnds, PipelineInv, OutputsInTurn, Engines, Done
<1>3. \A q \in Queues :
          /\ DOMAIN local'[q] = Buffers
          /\ \A b \in Buffers :
                /\ queue'[q][b] = IF q = "outQueueZ" /\ b = Slot(o) THEN "free" ELSE queue[q][b]
                /\ local'[q][b] = local[q][b]
  BY SetAt, AtIs, <1>2 DEF CopyOutEnds, PipelineInv, PipelineTypeOK, Shaped, Engines
<1>4. /\ c' = c /\ m' = m /\ o' = o + 1
      /\ engine'["CopyOut"].busy = FALSE /\ engine'["CopyIn"].busy = engine["CopyIn"].busy
      /\ engine'["Compute"].busy = engine["Compute"].busy
      /\ engine' \in [Engines -> [done : 0..loopCount, busy : BOOLEAN]]
  <2>1. o < loopCount
    BY <1>1, <1>2
  <2> QED BY EndsIs, <2>1 DEF CopyOutEnds, PipelineInv, Engines
<1>5. \A e \in Engines : At(e)' = Slot(Done(e)')
  BY DEF At, Slot, Done
<1>6. DOMAIN local' = Queues /\ queue' \in [Queues -> [Buffers -> {"free", "taken", "full"}]]
  BY <1>1, <1>2 DEF CopyOutEnds, Set, PipelineInv, PipelineTypeOK, Shaped
<1>8. \A i \in m .. c - 1 : i \in Nat /\ Slot(i) \in Buffers
  BY <1>1, SlotIs
<1>9. \A i \in o .. m - 1 : i \in Nat /\ Slot(i) \in Buffers /\ (i # o => Slot(i) # Slot(o))
  <2> SUFFICES ASSUME NEW i \in o .. m - 1
               PROVE  i \in Nat /\ Slot(i) \in Buffers /\ (i # o => Slot(i) # Slot(o))
    OBVIOUS
  <2>1. i \in Nat /\ (i # o => o < i /\ i < o + BUFFER_NUM)
    BY <1>1
  <2> QED BY <1>1, <2>1, SlotIs
<1> HIDE DEF c, m, o
<1>10. PipelineTypeOK' /\ Shaped'
  <2>1. /\ Done("CopyOut")' <= Done("Compute")' /\ Done("Compute")' <= Done("CopyIn")'
        /\ Done("CopyIn")' <= Done("Compute")' + BUFFER_NUM
        /\ Done("Compute")' <= Done("CopyOut")' + BUFFER_NUM
    BY <1>1, <1>2, <1>4 DEF c, m, o
  <2> QED BY <1>2, <1>3, <1>4, <1>6, <2>1 DEF PipelineInv, PipelineTypeOK, Shaped, Done
<1>11. InputsInTurn'
  <2> SUFFICES ASSUME NEW q \in In PROVE InputInTurn(q)'
    BY DEF InputsInTurn
  <2>1. InputInTurn(q) /\ q \in Queues
    BY DEF PipelineInv, InputsInTurn, In, Queues
  <2>2. \A b \in Buffers : queue'[q][b] = queue[q][b] /\ local'[q][b] = local[q][b]
    BY <1>3, <2>1 DEF In
  <2>3. At("CopyIn")' = At("CopyIn") /\ At("CopyIn") \in Buffers
    BY <1>4, <1>5, AtIs, Typed DEF Engines, PipelineInv, c
  <2> QED BY <1>1, <1>4, <1>8, <2>1, <2>2, <2>3 DEF InputInTurn, c, m, o
<1>12. OutputsInTurn'
  <2> DEFINE q == "outQueueZ"
  <2>1. OutputsInTurn /\ q \in Queues
    BY DEF PipelineInv, Queues
  <2>2. \A b \in Buffers : /\ queue'[q][b] = IF b = Slot(o) THEN "free" ELSE queue[q][b]
                           /\ local'[q][b] = local[q][b]
    BY <1>3, <2>1
  <2>3. /\ At("Compute")' = At("Compute") /\ At("CopyOut") = Slot(o)
        /\ At("Compute") = Slot(m) /\ At("Compute") \in Buffers
    BY <1>4, <1>5, AtIs, Typed DEF m, o, Engines, PipelineInv
  <2>4. \A i : i \in o .. m - 1 <=> i \in o + 1 .. m - 1 \/ i = o
    BY <1>1, <1>2
  <2>5. o \notin o + 1 .. m - 1
    BY <1>1
  <2>6. \A i \in o + 1 .. m - 1 : local'[q][Slot(i)] = SumOf(i) /\ queue'[q][Slot(i)] = "full"
    BY <1>9, <2>1, <2>2, <2>4, <2>5 DEF OutputsInTurn, o, m
  <2>7. \A b \in Buffers : /\ queue'[q][b] = "full" => \E i \in o + 1 .. m - 1 : b = Slot(i)
                           /\ queue'[q][b] = "taken" => engine["Compute"].busy /\ b = At("Compute")
    BY <1>2, <2>1, <2>2, <2>3, <2>4 DEF OutputsInTurn, o, m
  <2>8. engine["Compute"].busy => /\ m < c /\ m < o + 1 + BUFFER_NUM
                                  /\ queue'[q][At("Compute")] = "taken"
    <3> SUFFICES ASSUME engine["Compute"].busy
                 PROVE  /\ m < c /\ m < o + 1 + BUFFER_NUM
                        /\ queue'[q][At("Compute")] = "taken"
      OBVIOUS
    <3>1. m < c /\ m < o + BUFFER_NUM /\ queue[q][At("Compute")] = "taken"
      BY <2>1 DEF OutputsInTurn, c, m, o
    <3>2. Slot(o) # Slot(m)
      BY <1>1, <1>2, <3>1, SlotIs
    <3> QED BY <1>1, <2>2, <2>3, <3>1, <3>2
  <2> QED BY <1>4, <2>3, <2>6, <2>7, <2>8 DEF OutputsInTurn, c, m, o
<1>13. SumsOfOneTile'
  <2>1. local["outQueueZ"][Slot(o)] = SumOf(o)
    BY <1>1, <1>2 DEF PipelineInv, OutputsInTurn, o, m
  <2>2. DOMAIN z = 0..loopCount - 1 /\ o \in 0..loopCount - 1
    BY <1>1, <1>2 DEF PipelineInv, Shaped
  <2>3. \A i \in 0..o - 1 : z[i] = SumOf(i) /\ i \in 0..loopCount - 1
    BY <1>1, <2>2 DEF PipelineInv, SumsOfOneTile, SumOf, o, Done
  <2>4. \A i \in 0..o : z'[i] = SumOf(i)
    BY <1>1, <1>2, <2>1, <2>2, <2>3
  <2>5. o + 1 - 1 = o
    BY <1>1
  <2> QED BY <1>1, <1>4, <2>4, <2>5 DEF SumsOfOneTile, SumOf, o, Done
<1> QED BY <1>10, <1>11, <1>12, <1>13 DEF PipelineInv

------------------------------------------------------------------------------
LEMMA PipelineSettles == Init => PipelineInv
<1> SUFFICES ASSUME Init PROVE PipelineInv
  OBVIOUS
<1>1. \A e \in Engines : engine[e] = [done |-> 0, busy |-> FALSE]
  BY DEF Init
<1>2. \A e \in Engines : Done(e) = 0 /\ ~ engine[e].busy
  BY <1>1 DEF Done
<1>3. PipelineTypeOK
  BY <1>1, <1>2, CountsAreNat DEF Init, PipelineTypeOK, Engines
<1>4. Shaped
  BY DEF Init, Shaped
<1>5. InputsInTurn
  BY <1>2 DEF Init, InputsInTurn, InputInTurn, Engines, In, Queues
<1>6. OutputsInTurn
  BY <1>2 DEF Init, OutputsInTurn, Engines, Queues
<1>7. SumsOfOneTile
  BY <1>1 DEF SumsOfOneTile, Engines
<1> QED BY <1>3, <1>4, <1>5, <1>6, <1>7 DEF PipelineInv

LEMMA PipelineStays == PipelineInv /\ UNCHANGED vars => PipelineInv'
BY DEF PipelineInv, PipelineTypeOK, Shaped, InputsInTurn, InputInTurn, OutputsInTurn,
       SumsOfOneTile, vars, Done, At

\* The inductive invariant of the pipeline.
THEOREM PipelineInvariant == Spec => []PipelineInv
<1>1. PipelineInv /\ [Next]_vars => PipelineInv'
  BY CopyInStartsKeeps, CopyInEndsKeeps, ComputeStartsKeeps, ComputeEndsKeeps,
     CopyOutStartsKeeps, CopyOutEndsKeeps, PipelineStays DEF Next
<1> QED BY <1>1, PipelineSettles, PTL DEF Spec

\* No engine gets ahead of what it needs, nor further ahead of the one behind than the
\* buffers between them, whatever their speeds (kernel_helloworld.cpp 46-72).
THEOREM PipelineTypeCorrect == Spec => []PipelineTypeOK
<1>1. PipelineInv => PipelineTypeOK
  BY DEF PipelineInv
<1> QED BY <1>1, PipelineInvariant, PTL

\* Every tile that was copied out is the sum of its own inputs, for every number of tiles
\* and buffers (kernel_helloworld.cpp 46-72).
THEOREM TilesAreTheirSums == Spec => []SumsOfOneTile
<1>1. PipelineInv => SumsOfOneTile
  BY DEF PipelineInv
<1> QED BY <1>1, PipelineInvariant, PTL

\* An engine that is at work, or whose next buffers are as it needs them.
CanGoOn ==
    \/ \E e \in Engines : engine[e].busy
    \/ Ready("CopyIn", In, "free")
    \/ Ready("Compute", In, "full") /\ queue["outQueueZ"][At("Compute")] = "free"
    \/ Ready("CopyOut", {"outQueueZ"}, "full")

\* AllocTensor and DeQue never hold all three engines up (kernel_helloworld.cpp 46-72):
\* until the block is through, one of them can go on.
THEOREM EnginesNeverStuck == Spec => [](Complete \/ CanGoOn)
<1>1. PipelineInv => Complete \/ CanGoOn
  <2> SUFFICES ASSUME PipelineInv, \A e \in Engines : ~ engine[e].busy
               PROVE  Complete \/ CanGoOn
    BY DEF CanGoOn
  <2> DEFINE c == Done("CopyIn")  m == Done("Compute")  o == Done("CopyOut")
  <2>1. /\ c \in Nat /\ m \in Nat /\ o \in Nat /\ o <= m /\ m <= c /\ c <= loopCount
        /\ loopCount \in Nat
        /\ Slot(c) \in Buffers /\ Slot(m) \in Buffers /\ Slot(o) \in Buffers
    BY Typed, AtIs, CountsAreNat DEF PipelineInv, Engines
  <2>2. /\ ~ engine["CopyIn"].busy /\ ~ engine["Compute"].busy /\ ~ engine["CopyOut"].busy
        /\ At("CopyIn") = Slot(c) /\ At("Compute") = Slot(m) /\ At("CopyOut") = Slot(o)
    BY AtIs DEF Engines
  <2>3. /\ InputsInTurn /\ OutputsInTurn
        /\ \A q \in Queues : \A b \in Buffers : queue[q][b] \in {"free", "taken", "full"}
    BY DEF PipelineInv, PipelineTypeOK
  <2>4. CASE o < m
    <3>1. o \in o .. m - 1 /\ o < loopCount
      BY <2>1, <2>4
    <3>2. queue["outQueueZ"][Slot(o)] = "full"
      BY <2>2, <2>3, <3>1 DEF OutputsInTurn
    <3> QED BY <2>2, <3>1, <3>2 DEF CanGoOn, Ready, Done
  <2>5. CASE o = m /\ m < c
    <3>1. m \in m .. c - 1 /\ m < loopCount /\ o .. m - 1 = {}
      BY <2>1, <2>5
    <3>2. \A q \in In : queue[q][Slot(m)] = "full"
      BY <2>3, <3>1 DEF InputsInTurn, InputInTurn
    <3>3. queue["outQueueZ"][Slot(m)] = "free"
      BY <2>1, <2>2, <2>3, <3>1 DEF OutputsInTurn, Queues
    <3> QED BY <2>2, <3>1, <3>2, <3>3 DEF CanGoOn, Ready, Done
  <2>6. CASE o = m /\ m = c /\ c < loopCount
    <3>1. m .. c - 1 = {}
      BY <2>1, <2>6
    <3>2. \A q \in In : queue[q][Slot(c)] = "free"
      BY <2>1, <2>2, <2>3, <3>1 DEF InputsInTurn, InputInTurn, In, Queues
    <3> QED BY <2>2, <2>6, <3>2 DEF CanGoOn, Ready, Done
  <2>7. CASE o = m /\ m = c /\ c = loopCount
    BY <2>7 DEF Complete, Engines, Done
  <2> QED BY <2>1, <2>4, <2>5, <2>6, <2>7
<1> QED BY <1>1, PipelineInvariant, PTL

------------------------------------------------------------------------------
\* The tiles of the tensor.

\* A set of naturals that is not empty has a least element: how the provers, which cannot use
\* the induction theorems of the library, get to every length of a list.
LEMMA Least ==
    ASSUME NEW S, S \subseteq Nat, S # {}
    PROVE  \E m \in S : \A x \in S : m <= x
<1>1. PICK m \in S : \A x \in S : ~(<<x, m>> \in OpToRel(<, Nat))
  BY WFMin, NatLessThanWellFounded
<1>2. \A x \in S : ~(x < m)
  BY <1>1 DEF OpToRel
<1> QED BY <1>2

\* f is the running product of elementCount, or that of totalLength, up to dimension d.
Multiplied(f, d) == f = [n \in 0..d |-> IF n = 0 THEN 1 ELSE f[n-1] * sizes[n]]

WrappedAround(f, d) ==
    f = [n \in 0..d |-> IF n = 0 THEN 1 ELSE (f[n-1] * (sizes[n] % UintLimit)) % UintLimit]

\* Wrapping around never adds to a product, and takes away only from one out of bounds.
Wraps(p, w) == p \in Nat /\ w \in Nat /\ w <= p /\ (p < UintLimit => w = p)

Times(q, p, s) == q = p * s

WrapsTimes(v, w, s) == v = (w * (s % UintLimit)) % UintLimit

Agree(f, g, d) == \A n \in 0..d : Wraps(f[n], g[n])

LEMMA ProductsUnique ==
    ASSUME NEW d \in Nat, NEW f, NEW g,
           \/ Multiplied(f, d) /\ Multiplied(g, d)
           \/ WrappedAround(f, d) /\ WrappedAround(g, d)
    PROVE  f = g
<1> DEFINE D == {n \in 0..d : f[n] # g[n]}
<1> SUFFICES ASSUME D # {} PROVE FALSE
  BY DEF Multiplied, WrappedAround
<1>1. PICK m \in D : \A x \in D : m <= x
  <2>1. D \subseteq Nat
    OBVIOUS
  <2> QED BY <2>1, Least
<1>2. m # 0
  BY <1>1 DEF Multiplied, WrappedAround
<1>3. m-1 \in 0..d /\ m-1 \notin D /\ f[m-1] = g[m-1]
  BY <1>1, <1>2
<1>4. \/ f[m] = f[m-1] * sizes[m] /\ g[m] = g[m-1] * sizes[m]
      \/ /\ f[m] = (f[m-1] * (sizes[m] % UintLimit)) % UintLimit
         /\ g[m] = (g[m-1] * (sizes[m] % UintLimit)) % UintLimit
  BY <1>1, <1>2 DEF Multiplied, WrappedAround
<1> QED BY <1>1, <1>3, <1>4

\* One more factor.
LEMMA FactorAgrees ==
    ASSUME NEW p, NEW w, Wraps(p, w), NEW s \in Nat,
           NEW q, Times(q, p, s), NEW v, WrapsTimes(v, w, s)
    PROVE  Wraps(q, v)
<1>0. /\ p \in Nat /\ w \in Nat /\ w <= p /\ (p < UintLimit => w = p)
      /\ q = p * s /\ v = (w * (s % UintLimit)) % UintLimit
  BY DEF Wraps, Times, WrapsTimes
<1>1. UintLimit \in Nat \ {0}
  BY HelloWorldAssumption
<1>2. PICK r \in Nat : r = s % UintLimit
  <2>1. s % UintLimit \in 0..UintLimit - 1
    BY <1>1, Remainder
  <2> QED BY <1>1, <2>1
<1>3. r <= s /\ (s < UintLimit => r = s)
  <2>1. PICK h \in Nat : s = UintLimit * h + r
    BY <1>1, <1>2, Remainder
  <2>2. UintLimit * h \in Nat /\ (h = 0 => UintLimit * h = 0) /\ (h >= 1 => UintLimit * h >= UintLimit)
    BY <1>1, Z3
  <2>3. h = 0 \/ h >= 1
    OBVIOUS
  <2> QED BY <1>1, <2>1, <2>2, <2>3
<1>4. PICK x \in Nat : x = w * r
  BY <1>0, Z3
<1>5. v \in Nat /\ v <= x /\ (x < UintLimit => v = x)
  <2>1. v = x % UintLimit
    BY <1>0, <1>2, <1>4
  <2>2. PICK h \in Nat : x = UintLimit * h + v /\ v \in 0..UintLimit - 1
    BY <1>1, <2>1, Remainder
  <2>3. UintLimit * h \in Nat /\ (h = 0 => UintLimit * h = 0) /\ (h >= 1 => UintLimit * h >= UintLimit)
    BY <1>1, Z3
  <2>4. h = 0 \/ h >= 1
    OBVIOUS
  <2> QED BY <1>1, <2>2, <2>3, <2>4
<1>6. q \in Nat /\ x <= q
  <2>1. w * r <= p * r /\ p * r <= p * s /\ p * s \in Nat /\ w * r \in Nat /\ p * r \in Nat
    <3>1. w * r <= p * r
      BY <1>0, <1>3, Z3
    <3>2. p * r <= p * s
      BY <1>0, <1>3, Z3
    <3>3. p * s \in Nat /\ w * r \in Nat /\ p * r \in Nat
      BY <1>0, Z3
    <3> QED BY <3>1, <3>2, <3>3
  <2> QED BY <1>0, <1>4, <2>1
<1>7. ASSUME q < UintLimit PROVE x = q
  <2>1. CASE p = 0 \/ s = 0
    <3>1. q = 0
      BY <1>0, <2>1, Z3
    <3> QED BY <1>6, <3>1
  <2>2. CASE p >= 1 /\ s >= 1
    <3>1. p <= p * s /\ s <= p * s
      BY <1>0, <2>2, Z3
    <3>2. p < UintLimit /\ s < UintLimit
      BY <1>0, <1>1, <1>6, <1>7, <3>1
    <3>3. w = p /\ r = s
      BY <1>0, <1>3, <3>2
    <3> QED BY <1>0, <1>4, <3>3
  <2> QED BY <1>0, <2>1, <2>2
<1> QED BY <1>0, <1>1, <1>5, <1>6, <1>7 DEF Wraps

Solved(d) ==
    \E f, g \in [0..d -> Nat] : Multiplied(f, d) /\ WrappedAround(g, d) /\ Agree(f, g, d)

\* Both recursions have a solution.
LEMMA ProductsExist ==
    ASSUME NEW d \in Nat, \A n \in 1..d : sizes[n] \in Nat
    PROVE  Solved(d)
<1> DEFINE D == {h \in 0..d : ~Solved(h)}
<1> SUFFICES ASSUME D # {} PROVE FALSE
  OBVIOUS
<1>1. PICK m \in D : \A x \in D : m <= x
  <2>1. D \subseteq Nat
    OBVIOUS
  <2> QED BY <2>1, Least
<1>2. CASE m = 0
  <2>1. PICK f : f = [n \in 0..0 |-> 1]
    OBVIOUS
  <2>2. f \in [0..0 -> Nat] /\ f[0] = 1
    BY <2>1
  <2>3. Multiplied(f, 0) /\ WrappedAround(f, 0) /\ Agree(f, f, 0)
    BY <2>1 DEF Multiplied, WrappedAround, Agree, Wraps
  <2>4. Solved(0)
    BY <2>2, <2>3 DEF Solved
  <2> QED BY <1>1, <1>2, <2>4
<1>3. CASE m # 0
  <2>1. m \in Nat /\ m \in 0..d /\ m-1 \in 0..d /\ m-1 \in Nat /\ m \in 1..d /\ Solved(m-1)
    BY <1>1, <1>3
  <2>2. PICK f, g \in [0..m-1 -> Nat] : Multiplied(f, m-1) /\ WrappedAround(g, m-1) /\ Agree(f, g, m-1)
    BY <2>1 DEF Solved
  <2>3. PICK q : q = f[m-1] * sizes[m]
    OBVIOUS
  <2>4. PICK v : v = (g[m-1] * (sizes[m] % UintLimit)) % UintLimit
    OBVIOUS
  <2>5. Wraps(q, v)
    <3>1. Wraps(f[m-1], g[m-1]) /\ sizes[m] \in Nat
      <4>1. m-1 \in 0..m-1
        BY <2>1
      <4> QED BY <2>1, <2>2, <4>1 DEF Agree
    <3>2. Times(q, f[m-1], sizes[m]) /\ WrapsTimes(v, g[m-1], sizes[m])
      BY <2>3, <2>4 DEF Times, WrapsTimes
    <3> QED BY <3>1, <3>2, FactorAgrees
  <2>6. PICK ff : ff = [n \in 0..m |-> IF n = m THEN q ELSE f[n]]
    OBVIOUS
  <2>7. PICK gg : gg = [n \in 0..m |-> IF n = m THEN v ELSE g[n]]
    OBVIOUS
  <2>8. \A n \in 0..m : n = m \/ (n \in 0..m-1 /\ (n = 0 \/ n-1 \in 0..m-1) /\ n-1 # m)
    BY <2>1
  <2>9. ff \in [0..m -> Nat] /\ gg \in [0..m -> Nat]
    BY <2>2, <2>5, <2>6, <2>7, <2>8 DEF Wraps
  <2>10. Multiplied(ff, m)
    <3>1. \A n \in 0..m : ff[n] = IF n = 0 THEN 1 ELSE ff[n-1] * sizes[n]
      <4> SUFFICES ASSUME NEW n \in 0..m PROVE ff[n] = IF n = 0 THEN 1 ELSE ff[n-1] * sizes[n]
        OBVIOUS
      <4>1. CASE n = m
        <5>1. m-1 \in 0..m /\ m-1 # m
          BY <2>1
        <5> QED BY <1>3, <2>3, <2>6, <4>1, <5>1
      <4>2. CASE n # m
        <5>1. n \in 0..m-1 /\ (n # 0 => n-1 \in 0..m /\ n-1 # m)
          BY <2>1, <4>2
        <5>2. f[n] = IF n = 0 THEN 1 ELSE f[n-1] * sizes[n]
          BY <2>2, <5>1 DEF Multiplied
        <5> QED BY <2>6, <4>2, <5>1, <5>2
      <4> QED BY <4>1, <4>2
    <3> QED BY <2>6, <3>1 DEF Multiplied
  <2>11. WrappedAround(gg, m)
    <3>1. \A n \in 0..m :
             gg[n] = IF n = 0 THEN 1 ELSE (gg[n-1] * (sizes[n] % UintLimit)) % UintLimit
      <4> SUFFICES ASSUME NEW n \in 0..m
                   PROVE  gg[n] = IF n = 0 THEN 1 ELSE (gg[n-1] * (sizes[n] % UintLimit)) % UintLimit
        OBVIOUS
      <4>1. CASE n = m
        <5>1. m-1 \in 0..m /\ m-1 # m
          BY <2>1
        <5> QED BY <1>3, <2>4, <2>7, <4>1, <5>1
      <4>2. CASE n # m
        <5>1. n \in 0..m-1 /\ (n # 0 => n-1 \in 0..m /\ n-1 # m)
          BY <2>1, <4>2
        <5>2. g[n] = IF n = 0 THEN 1 ELSE (g[n-1] * (sizes[n] % UintLimit)) % UintLimit
          BY <2>2, <5>1 DEF WrappedAround
        <5> QED BY <2>7, <4>2, <5>1, <5>2
      <4> QED BY <4>1, <4>2
    <3> QED BY <2>7, <3>1 DEF WrappedAround
  <2>12. Agree(ff, gg, m)
    BY <2>2, <2>5, <2>6, <2>7, <2>8 DEF Agree
  <2>13. Solved(m)
    BY <2>9, <2>10, <2>11, <2>12 DEF Solved
  <2> QED BY <1>1, <2>13
<1> QED BY <1>2, <1>3

\* The count of elements, and what the host makes of it.
LEMMA Lengths ==
    ASSUME sizes \in Seq(Nat)
    PROVE  /\ elementCount \in Nat /\ totalLength \in Nat /\ totalLength <= elementCount
           /\ elementCount < UintLimit => totalLength = elementCount
<1>1. PICK d \in Nat : d = Len(sizes) /\ \A n \in 1..d : sizes[n] \in Nat
  OBVIOUS
<1>2. PICK f, g \in [0..d -> Nat] : Multiplied(f, d) /\ WrappedAround(g, d) /\ Agree(f, g, d)
  BY <1>1, ProductsExist DEF Solved
<1>3. elementCount = f[d]
  <2> DEFINE p == CHOOSE h : h = [n \in 0..Len(sizes) |-> IF n = 0 THEN 1 ELSE h[n-1] * sizes[n]]
  <2>1. p = [n \in 0..d |-> IF n = 0 THEN 1 ELSE p[n-1] * sizes[n]]
    BY <1>1, <1>2 DEF Multiplied
  <2>2. elementCount = p[d]
    BY <1>1 DEF elementCount
  <2> HIDE DEF p
  <2>3. Multiplied(p, d)
    BY <2>1 DEF Multiplied
  <2>4. p = f
    BY <1>2, <2>3, ProductsUnique
  <2> QED BY <2>2, <2>4
<1>4. totalLength = g[d]
  <2> DEFINE p == CHOOSE h : h = [n \in 0..Len(sizes) |->
                      IF n = 0 THEN 1 ELSE (h[n-1] * (sizes[n] % UintLimit)) % UintLimit]
  <2>1. p = [n \in 0..d |-> IF n = 0 THEN 1 ELSE (p[n-1] * (sizes[n] % UintLimit)) % UintLimit]
    BY <1>1, <1>2 DEF WrappedAround
  <2>2. totalLength = p[d]
    BY <1>1 DEF totalLength
  <2> HIDE DEF p
  <2>3. WrappedAround(p, d)
    BY <2>1 DEF WrappedAround
  <2>4. p = g
    BY <1>2, <2>3, ProductsUnique
  <2> QED BY <2>2, <2>4
<1>5. d \in 0..d
  OBVIOUS
<1> QED BY <1>2, <1>3, <1>4, <1>5 DEF Agree, Wraps

\* n parts of equal length: a place in one of them is a place of the whole, ...
LEMMA PlaceIn ==
    ASSUME NEW n \in Nat, NEW len \in Nat, NEW x \in 0..n-1, NEW e \in 0..len-1
    PROVE  x * len \in Nat /\ n * len \in Nat /\ x * len + e \in 0 .. n * len - 1
<1>1. x * len \in Nat /\ n * len \in Nat
  BY Z3
<1>2. (x + 1) * len <= n * len
  BY Z3
<1>3. (x + 1) * len = x * len + len
  BY Z3
<1> QED BY <1>1, <1>2, <1>3

\* ... no place is in two parts, ...
LEMMA PlaceIsOne ==
    ASSUME NEW len \in Nat, NEW x \in Nat, NEW y \in Nat, NEW e \in 0..len-1, NEW f \in 0..len-1,
           x * len + e = y * len + f
    PROVE  x = y /\ e = f
<1>1. x * len \in Nat /\ y * len \in Nat
  BY Z3
<1>2. CASE x < y
  <2>1. (x + 1) * len <= y * len
    BY <1>2, Z3
  <2>2. (x + 1) * len = x * len + len
    BY Z3
  <2> QED BY <1>1, <2>1, <2>2
<1>3. CASE y < x
  <2>1. (y + 1) * len <= x * len
    BY <1>3, Z3
  <2>2. (y + 1) * len = y * len + len
    BY Z3
  <2> QED BY <1>1, <2>1, <2>2
<1>4. CASE x = y
  BY <1>1, <1>4
<1> QED BY <1>2, <1>3, <1>4

\* ... and each is in some part.
LEMMA PlaceIsSome ==
    ASSUME NEW n \in Nat, NEW len \in Nat, NEW p \in 0 .. n * len - 1
    PROVE  \E x \in 0..n-1, e \in 0..len-1 : p = x * len + e
<1>1. n * len \in Nat /\ p \in Nat /\ p < n * len
  <2>1. n * len \in Nat
    BY Z3
  <2> QED BY <2>1
<1>2. len # 0
  <2> SUFFICES ASSUME len = 0 PROVE FALSE
    OBVIOUS
  <2>1. n * len = 0
    BY Z3
  <2> QED BY <1>1, <2>1
<1>3. PICK x \in Nat, e \in 0..len-1 : p = len * x + e
  <2>1. len \in Nat \ {0}
    BY <1>2
  <2> QED BY <1>1, <2>1, Remainder
<1>4. len * x = x * len /\ x * len \in Nat
  BY Z3
<1>5. x < n
  <2> SUFFICES ASSUME n <= x PROVE FALSE
    OBVIOUS
  <2>1. n * len <= x * len
    BY Z3
  <2> QED BY <1>1, <1>3, <1>4, <2>1
<1> QED BY <1>3, <1>4, <1>5

Divides(q, a, b) == q \in Nat /\ \E r \in Nat : a = b * q + r

LEMMA Quotient ==
    ASSUME NEW a \in Nat, NEW b \in Nat \ {0}
    PROVE  Divides(a \div b, a, b)
<1>1. a \div b \in Nat /\ a % b \in 0..b - 1 /\ a = b * (a \div b) + (a % b)
  BY Remainder
<1>2. a % b \in Nat
  BY <1>1
<1> QED BY <1>1, <1>2 DEF Divides

LEMMA QuotientIs ==
    ASSUME NEW b \in Nat \ {0}, NEW q \in Nat
    PROVE  (b * q) \div b = q
<1>1. b * q \in Nat
  BY Z3
<1>2. PICK h \in Nat, r \in 0..b-1 : h = (b * q) \div b /\ b * q = b * h + r
  BY <1>1, Remainder
<1>3. b * q = q * b /\ b * h = h * b
  BY Z3
<1>4. q * b + 0 = h * b + r /\ 0 \in 0..b-1
  BY <1>1, <1>2, <1>3
<1>5. q = h
  BY <1>4, PlaceIsOne
<1> QED BY <1>2, <1>5

\* The tiles of a block and the blocks of the tensor fit, ...
LEMMA TilesFit ==
    ASSUME sizes \in Seq(Nat)
    PROVE  /\ blockLength \in Nat /\ tileLength \in Nat
           /\ blockDim * blockLength \in Nat /\ blockDim * blockLength <= elementCount
           /\ loopCount * tileLength \in Nat /\ loopCount * tileLength <= blockLength
<1>1. blockDim \in Nat \ {0} /\ tileNum \in Nat \ {0} /\ BUFFER_NUM \in Nat \ {0}
  BY HelloWorldAssumption
<1>2. totalLength \in Nat /\ totalLength <= elementCount /\ elementCount \in Nat
  BY Lengths
<1>3. Divides(blockLength, totalLength, blockDim)
  BY <1>1, <1>2, Quotient DEF blockLength
<1>4. PICK r \in Nat : blockLength \in Nat /\ totalLength = blockDim * blockLength + r
  BY <1>3 DEF Divides
<1> PICK a : a = blockLength \div tileNum
  OBVIOUS
<1>5. Divides(a, blockLength, tileNum)
  BY <1>1, <1>4, Quotient
<1>6. PICK s \in Nat : a \in Nat /\ blockLength = tileNum * a + s
  BY <1>5 DEF Divides
<1>7. Divides(tileLength, a, BUFFER_NUM)
  BY <1>1, <1>6, Quotient DEF tileLength
<1>8. PICK u \in Nat : tileLength \in Nat /\ a = BUFFER_NUM * tileLength + u
  BY <1>7 DEF Divides
<1>9. blockDim * blockLength \in Nat
  BY <1>1, <1>4, Z3
<1>10. loopCount * tileLength \in Nat /\ loopCount * tileLength <= tileNum * a /\ tileNum * a \in Nat
  <2>1. PICK w \in Nat : w = BUFFER_NUM * tileLength
    BY <1>1, <1>8, Z3
  <2>2. (tileNum * BUFFER_NUM) * tileLength = tileNum * (BUFFER_NUM * tileLength)
    BY <1>1, <1>8, Z3
  <2>3. w <= a
    BY <1>6, <1>8, <2>1
  <2>4. tileNum * w <= tileNum * a
    BY <1>1, <1>6, <2>3, Z3
  <2>5. tileNum * w \in Nat /\ tileNum * a \in Nat
    BY <1>1, <1>6, Z3
  <2> QED BY <2>1, <2>2, <2>4, <2>5 DEF loopCount
<1> QED BY <1>2, <1>4, <1>6, <1>8, <1>9, <1>10

\* ... and leave nothing over if the elements are a multiple of all tiles.
LEMMA TilesExact ==
    ASSUME sizes \in Seq(Nat), elementCount < UintLimit, elementCount % (blockDim * loopCount) = 0
    PROVE  elementCount = blockDim * blockLength /\ blockLength = loopCount * tileLength
<1>1. blockDim \in Nat \ {0} /\ tileNum \in Nat \ {0} /\ BUFFER_NUM \in Nat \ {0}
  BY HelloWorldAssumption
<1>2. totalLength = elementCount /\ elementCount \in Nat
  BY Lengths
<1>3. loopCount \in Nat \ {0} /\ blockDim * loopCount \in Nat \ {0}
  <2>1. tileNum * BUFFER_NUM \in Nat \ {0}
    BY <1>1, Z3
  <2>2. loopCount \in Nat \ {0}
    BY <2>1 DEF loopCount
  <2>3. blockDim * loopCount \in Nat \ {0}
    BY <1>1, <2>2, Z3
  <2> QED BY <2>2, <2>3
<1>4. PICK q \in Nat : elementCount = (blockDim * loopCount) * q
  <2>1. /\ elementCount \div (blockDim * loopCount) \in Nat
        /\ elementCount = (blockDim * loopCount) * (elementCount \div (blockDim * loopCount))
                          + (elementCount % (blockDim * loopCount))
    BY <1>2, <1>3, Remainder
  <2>2. PICK h \in Nat : h = elementCount \div (blockDim * loopCount)
    BY <2>1
  <2>3. elementCount = (blockDim * loopCount) * h + 0
    BY <2>1, <2>2
  <2>4. (blockDim * loopCount) * h \in Nat
    BY <1>3, Z3
  <2> QED BY <2>3, <2>4
<1>5. PICK v \in Nat : v = loopCount * q
  BY <1>3, Z3
<1>6. elementCount = blockDim * v
  <2>1. (blockDim * loopCount) * q = blockDim * (loopCount * q)
    BY <1>1, <1>3, Z3
  <2> QED BY <1>4, <1>5, <2>1
<1>7. blockLength = v
  BY <1>1, <1>2, <1>6, QuotientIs DEF blockLength
<1>8. PICK w \in Nat : w = BUFFER_NUM * q
  BY <1>1, Z3
<1>9. v = tileNum * w
  <2>1. (tileNum * BUFFER_NUM) * q = tileNum * (BUFFER_NUM * q)
    BY <1>1, Z3
  <2> QED BY <1>5, <1>8, <2>1 DEF loopCount
<1>10. blockLength \div tileNum = w
  BY <1>1, <1>7, <1>9, QuotientIs
<1>11. tileLength = q
  BY <1>1, <1>8, <1>10, QuotientIs DEF tileLength
<1> QED BY <1>5, <1>6, <1>7, <1>11

\* An element of a tile is a place of its block.
LEMMA ElementIs ==
    ASSUME sizes \in Seq(Nat), NEW b \in 0..blockDim-1, NEW i \in 0..loopCount-1, NEW p
    PROVE  p \in Elements(b, i) <=>
              \E e \in 0..tileLength-1 : /\ p = b * blockLength + (i * tileLength + e)
                                         /\ i * tileLength + e \in 0..blockLength-1
<1>1. /\ blockLength \in Nat /\ tileLength \in Nat
      /\ loopCount * tileLength \in Nat /\ loopCount * tileLength <= blockLength
  BY TilesFit
<1>2. loopCount \in Nat /\ blockDim \in Nat
  BY CountsAreNat, HelloWorldAssumption
<1>3. \A e \in 0..tileLength-1 :
         i * tileLength \in Nat /\ i * tileLength + e \in 0 .. loopCount * tileLength - 1
  BY <1>1, <1>2, PlaceIn
<1>4. b * blockLength \in Nat
  BY <1>1, <1>2, Z3
<1>5. \A e \in 0..tileLength-1 :
         /\ i * tileLength + e \in 0..blockLength-1
         /\ b * blockLength + i * tileLength + e = b * blockLength + (i * tileLength + e)
  <2> SUFFICES ASSUME NEW e \in 0..tileLength-1
               PROVE  /\ i * tileLength + e \in 0..blockLength-1
                      /\ b * blockLength + i * tileLength + e = b * blockLength + (i * tileLength + e)
    OBVIOUS
  <2>1. PICK x \in Nat, y \in Nat : x = b * blockLength /\ y = i * tileLength
    BY <1>3, <1>4
  <2>2. y + e \in 0 .. loopCount * tileLength - 1
    BY <1>3, <2>1
  <2>3. e \in Nat /\ y + e \in 0..blockLength-1 /\ x + y + e = x + (y + e)
    BY <1>1, <2>2
  <2> QED BY <2>1, <2>3
<1> QED BY <1>5 DEF Elements

\* Whatever count of elements wraps around, no tile of any block is outside the tensors and no two
\* tiles share an element; and if the elements are a multiple of all tiles, fewer than 2^32, the tiles
\* are all of them (kernel_helloworld.cpp 24-29, 50-51, 70).
THEOREM TilesAreTheTensor == Spec => []TilesSplitTheTensor
<1>1. ASSUME PipelineInv PROVE TilesSplitTheTensor
  <2>1. sizes \in Seq(Nat) /\ block \in 0..blockDim-1
    BY <1>1, HelloWorldAssumption DEF PipelineInv, PipelineTypeOK
  <2>2. /\ blockLength \in Nat /\ tileLength \in Nat /\ elementCount \in Nat
        /\ blockDim * blockLength \in Nat /\ blockDim * blockLength <= elementCount
        /\ loopCount \in Nat /\ blockDim \in Nat
    BY <2>1, TilesFit, Lengths, CountsAreNat, HelloWorldAssumption
  <2>3. ASSUME NEW b \in 0..blockDim-1, NEW i \in 0..loopCount-1, NEW p \in Elements(b, i)
        PROVE  p \in 0 .. blockDim * blockLength - 1
    <3>1. PICK o \in 0..blockLength-1 : p = b * blockLength + o
      BY <2>1, ElementIs
    <3> QED BY <2>2, <3>1, PlaceIn
  <2>4. ASSUME NEW i \in 0..loopCount-1, NEW b \in 0..blockDim-1, NEW j \in 0..loopCount-1,
               <<b, j>> # <<block, i>>
        PROVE  Elements(block, i) \cap Elements(b, j) = {}
    <3> SUFFICES ASSUME NEW p, p \in Elements(block, i), p \in Elements(b, j) PROVE FALSE
      OBVIOUS
    <3>1. PICK e \in 0..tileLength-1 : /\ p = block * blockLength + (i * tileLength + e)
                                       /\ i * tileLength + e \in 0..blockLength-1
      BY <2>1, ElementIs
    <3>2. PICK f \in 0..tileLength-1 : /\ p = b * blockLength + (j * tileLength + f)
                                       /\ j * tileLength + f \in 0..blockLength-1
      BY <2>1, ElementIs
    <3>3. block \in Nat /\ b \in Nat /\ i \in Nat /\ j \in Nat
      BY <2>1, <2>2
    <3>4. block = b /\ i * tileLength + e = j * tileLength + f
      BY <2>2, <3>1, <3>2, <3>3, PlaceIsOne
    <3>5. i = j
      BY <2>2, <3>3, <3>4, PlaceIsOne
    <3> QED BY <2>4, <3>4, <3>5
  <2>5. ASSUME elementCount < UintLimit, elementCount % (blockDim * loopCount) = 0
        PROVE  UNION {Elements(b, i) : b \in 0..blockDim-1, i \in 0..loopCount-1} = 0..elementCount-1
    <3>1. elementCount = blockDim * blockLength /\ blockLength = loopCount * tileLength
      BY <2>1, <2>5, TilesExact
    <3>2. ASSUME NEW p \in 0..elementCount-1
          PROVE  \E b \in 0..blockDim-1, i \in 0..loopCount-1 : p \in Elements(b, i)
      <4>1. PICK b \in 0..blockDim-1, o \in 0..blockLength-1 : p = b * blockLength + o
        BY <2>2, <3>1, PlaceIsSome
      <4>2. PICK i \in 0..loopCount-1, e \in 0..tileLength-1 : o = i * tileLength + e
        BY <2>2, <3>1, <4>1, PlaceIsSome
      <4>3. p = b * blockLength + (i * tileLength + e) /\ i * tileLength + e \in 0..blockLength-1
        BY <4>1, <4>2
      <4>4. p \in Elements(b, i)
        BY <2>1, <4>3, ElementIs
      <4> QED BY <4>4
    <3> QED BY <2>3, <3>1, <3>2
  <2>6. \A i \in 0..loopCount-1 : \A p \in Elements(block, i) : p < elementCount
    BY <2>1, <2>2, <2>3
  <2> QED BY <2>4, <2>5, <2>6 DEF TilesSplitTheTensor
<1> QED BY <1>1, PipelineInvariant, PTL
==============================================================================

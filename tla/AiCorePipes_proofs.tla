------------------------- MODULE AiCorePipes_proofs -------------------------
(***************************************************************************)
(* The engines of one core keep each other's order, for every number of    *)
(* tasks.  What a program promises is stated once (`Sound') and shown for  *)
(* every kind of task; the invariant then argues from that alone.          *)
(***************************************************************************)
EXTENDS AiCorePipes, SequenceTheorems, FiniteSetTheorems, TLAPS

AllKinds == UNION {Kinds(n) : n \in 1..4}

Others == Engines \ {"S"}

EngineOf(d, i) == Program(d)[i].engine

Does(d, i) == Program(d)[i].does

IsOperation(d, i) == i \in 1..Len(Program(d)) /\ Does(d, i) = "operate"

Sets(d, f) == {a \in 1..Len(Program(d)) : Does(d, a) = "set" /\ Program(d)[a].flag = f}

------------------------------------------------------------------------------
\* What the programs promise.

\* The fields of instructions.  Copies out are the operations of MTE3.
Formed(d) ==
    /\ Len(Program(d)) \in Nat \ {0}
    /\ \A i \in 1..Len(Program(d)) :
          /\ EngineOf(d, i) \in Engines /\ Does(d, i) \in {"operate", "set", "wait"}
          /\ Does(d, i) = "operate" => (EngineOf(d, i) = "MTE3" <=> Program(d)[i].tensor # "none")

\* A wait stands behind the set it waits for, and a set before its wait.
Paired(d) ==
    \A i \in 1..Len(Program(d)) :
        /\ Does(d, i) = "set" =>
              /\ Program(d)[i].flag \in Flags /\ EngineOf(d, i) = Raiser[Program(d)[i].flag]
              /\ i + 1 \in 1..Len(Program(d)) /\ Does(d, i + 1) = "wait"
              /\ EngineOf(d, i + 1) = Waiter[Program(d)[i].flag]
              /\ Program(d)[i + 1].flag = Program(d)[i].flag
        /\ Does(d, i) = "wait" =>
              /\ i - 1 \in 1..Len(Program(d)) /\ Does(d, i - 1) = "set"
              /\ Program(d)[i - 1].flag = Program(d)[i].flag

\* Only flags that the scalar unit waits for are used twice.
Reused(d) ==
    \A f \in Flags : \A a, b \in Sets(d, f) : a # b => Waiter[f] = "S"

\* Whatever leaves the scalar unit, and whatever it writes, is waited for.
Closed(d) ==
    \A i \in 1..Len(Program(d)) :
        EngineOf(d, i) # "S" \/ Program(d)[i].writes # {} =>
            \E a \in i..Len(Program(d)) : Does(d, a) = "set" /\ EngineOf(d, a) = EngineOf(d, i)

\* A flag is raised behind i, and waited for before j.
Awaits(d, i, j) ==
    \E a \in i + 1 .. j - 2 : Does(d, a) = "set" /\ EngineOf(d, a) = EngineOf(d, i)

Clash(p, q) == p.writes \cap (q.reads \cup q.writes) # {} \/ p.reads \cap q.writes # {}

\* Operations of two engines that use a region one of them writes are kept apart, and a copy
\* out waits for everything before it.
Ordered(d) ==
    \A i, j \in 1..Len(Program(d)) :
        i < j /\ IsOperation(d, i) /\ IsOperation(d, j) /\ EngineOf(d, i) # EngineOf(d, j) =>
            (Clash(Program(d)[i], Program(d)[j]) \/ EngineOf(d, j) = "MTE3" => Awaits(d, i, j))

\* What is read was written before.
Sourced(d) ==
    \A j \in 1..Len(Program(d)) : \A name \in Program(d)[j].reads :
        \E i \in 1 .. j - 1 :
            /\ IsOperation(d, i) /\ name \in Program(d)[i].writes
            /\ \A h \in 1 .. j - 1 : name \in Program(d)[h].writes => h <= i

Sound(d) == Formed(d) /\ Paired(d) /\ Reused(d) /\ Closed(d) /\ Ordered(d) /\ Sourced(d)

------------------------------------------------------------------------------
\* The invariant.

\* Instruction i of the current task.
At(i) == [task |-> task, kind |-> kind, at |-> i]

Entries == [task : 1..TaskLimit, kind : AllKinds, at : Nat]

Positions(q) == {q[n].at : n \in 1..Len(q)}

Increasing(q) == \A m, n \in 1..Len(q) : m < n => q[m].at < q[n].at

\* What the engines have begun, and what they are done with.
Taken ==
    {i \in 1 .. pc - 1 : EngineOf(kind, i) # "S" => i \notin Positions(queue[EngineOf(kind, i)])}

AtWork == {i \in Taken : running[EngineOf(kind, i)] = At(i)}

Over == Taken \ AtWork

Shapes ==
    /\ kernel \in 1..4 /\ task \in 1 .. TaskLimit + 1 /\ kind \in Kinds(kernel)
    /\ pc \in 1 .. Len(Program(kind)) + 1
    /\ task > TaskLimit => pc = 1
    /\ queue \in [Others -> Seq(Entries)]
    /\ running \in [Engines -> Entries \cup {None}]
    /\ flags \in [Flags -> Nat]
    /\ ub \in [Regions -> (0..TaskLimit) \X Nat]
    /\ retired \subseteq Nat

\* A queue holds the last instructions its engine was given, in the order of the program.
QueueInOrder(e) ==
    /\ Increasing(queue[e])
    /\ \A n \in 1..Len(queue[e]) :
          /\ queue[e][n] = At(queue[e][n].at)
          /\ queue[e][n].at \in 1 .. pc - 1 /\ EngineOf(kind, queue[e][n].at) = e
    /\ \A i \in 1 .. pc - 1, j \in Taken :
          EngineOf(kind, i) = e /\ EngineOf(kind, j) = e /\ i < j => i \in Taken

QueuesInOrder == \A e \in Others : QueueInOrder(e)

\* An engine works on the last instruction it has taken; the scalar unit may wait for a flag
\* meanwhile.
WorksOn(e, i) ==
    /\ running[e] = At(i) /\ i \in Taken /\ EngineOf(kind, i) = e /\ Does(kind, i) = "operate"
    /\ \A j \in Taken : EngineOf(kind, j) = e /\ (e = "S" => Does(kind, j) # "wait") => j <= i

\* What the scalar unit still works on when its next task has begun writes nothing.
LagsBehind ==
    /\ running["S"].task < task /\ running["S"].kind \in Kinds(kernel)
    /\ IsOperation(running["S"].kind, running["S"].at)
    /\ EngineOf(running["S"].kind, running["S"].at) = "S"
    /\ Program(running["S"].kind)[running["S"].at].writes = {}

AtWorkInOrder(e) == running[e] = None \/ (e = "S" /\ LagsBehind) \/ \E i \in Taken : WorksOn(e, i)

WorkInOrder == \A e \in Engines : AtWorkInOrder(e)

Raised(a) == a \in Taken /\ a + 1 \notin Taken

\* A flag is raised between its set and its wait, and only once.
FlagsInOrder ==
    /\ \A f \in Flags : flags[f] = IF \E a \in Sets(kind, f) : Raised(a) THEN 1 ELSE 0
    /\ \A f \in Flags : \A a \in Sets(kind, f) : a + 1 \in Taken => a \in Taken

RetiredAreOver == retired = {i \in Over : Does(kind, i) = "operate"}

\* A region holds what the last operation that is over has written to it.
RegionsHold ==
    \A i \in retired : \A name \in Program(kind)[i].writes :
        (\A j \in retired : name \in Program(kind)[j].writes => j <= i) =>
            ub[<<kind.layout, name>>] = <<task, i>>

PipesInv ==
    Shapes /\ QueuesInOrder /\ WorkInOrder /\ FlagsInOrder /\ RetiredAreOver /\ RegionsHold

------------------------------------------------------------------------------
\* Queues.

LEMMA QueueGrows ==
    ASSUME NEW q \in Seq(Entries), Increasing(q), NEW entry \in Entries,
           \A n \in 1..Len(q) : q[n].at < entry.at
    PROVE  /\ Append(q, entry) \in Seq(Entries) /\ Increasing(Append(q, entry))
           /\ Positions(Append(q, entry)) = Positions(q) \cup {entry.at}
           /\ \A n \in 1..Len(Append(q, entry)) :
                 Append(q, entry)[n] = entry \/ \E m \in 1..Len(q) : Append(q, entry)[n] = q[m]
<1>1. PICK r : r = Append(q, entry)
  OBVIOUS
<1>2. /\ r \in Seq(Entries) /\ Len(r) = Len(q) + 1 /\ Len(q) \in Nat
      /\ r[Len(q) + 1] = entry /\ \A n \in 1..Len(q) : r[n] = q[n]
  BY <1>1
<1>3. Increasing(r)
  BY <1>2 DEF Increasing
<1>4. Positions(r) = Positions(q) \cup {entry.at}
  <2>1. ASSUME NEW n \in 1..Len(r) PROVE r[n].at \in Positions(q) \cup {entry.at}
    <3>1. n \in 1..Len(q) \/ n = Len(q) + 1
      BY <1>2
    <3> QED BY <1>2, <3>1 DEF Positions
  <2>2. ASSUME NEW n \in 1..Len(q) PROVE q[n].at \in Positions(r)
    <3>1. n \in 1..Len(r) /\ r[n] = q[n]
      BY <1>2
    <3> QED BY <3>1 DEF Positions
  <2>3. entry.at \in Positions(r)
    <3>1. Len(q) + 1 \in 1..Len(r) /\ r[Len(q) + 1] = entry
      BY <1>2
    <3> QED BY <3>1 DEF Positions
  <2> QED BY <2>1, <2>2, <2>3 DEF Positions
<1>5. \A n \in 1..Len(r) : r[n] = entry \/ \E m \in 1..Len(q) : r[n] = q[m]
  <2> TAKE n \in 1..Len(r)
  <2>1. n \in 1..Len(q) \/ n = Len(q) + 1
    BY <1>2
  <2> QED BY <1>2, <2>1
<1> QED BY <1>1, <1>2, <1>3, <1>4, <1>5

LEMMA QueueShrinks ==
    ASSUME NEW q \in Seq(Entries), Increasing(q), q # <<>>
    PROVE  /\ Tail(q) \in Seq(Entries) /\ Increasing(Tail(q))
           /\ Positions(Tail(q)) = Positions(q) \ {Head(q).at}
           /\ Head(q).at \in Positions(q) /\ 1 \in 1..Len(q) /\ Head(q) = q[1]
           /\ \A i \in Positions(q) : Head(q).at <= i
           /\ \A n \in 1..Len(Tail(q)) : \E m \in 1..Len(q) : Tail(q)[n] = q[m]
<1>1. PICK r : r = Tail(q)
  OBVIOUS
<1>2. /\ r \in Seq(Entries) /\ Len(q) \in Nat \ {0} /\ Len(r) = Len(q) - 1
      /\ Head(q) = q[1] /\ \A n \in 1..Len(r) : r[n] = q[n + 1]
  BY <1>1
<1>3. \A n \in 1..Len(q) : q[n].at \in Nat
  <2>1. \A n \in 1..Len(q) : q[n] \in Entries
    OBVIOUS
  <2> QED BY <2>1 DEF Entries
<1>4. Increasing(r)
  <2> SUFFICES ASSUME NEW m \in 1..Len(r), NEW n \in 1..Len(r), m < n PROVE r[m].at < r[n].at
    BY DEF Increasing
  <2>1. m + 1 \in 1..Len(q) /\ n + 1 \in 1..Len(q) /\ m + 1 < n + 1
    BY <1>2
  <2>2. q[m + 1].at < q[n + 1].at
    BY <2>1 DEF Increasing
  <2> QED BY <1>2, <2>2
<1>5. \A n \in 1..Len(q) : n = 1 \/ q[1].at < q[n].at
  <2> TAKE n \in 1..Len(q)
  <2>1. n = 1 \/ (1 \in 1..Len(q) /\ 1 < n)
    BY <1>2
  <2> QED BY <2>1 DEF Increasing
<1>6. Positions(r) = Positions(q) \ {q[1].at}
  <2>1. ASSUME NEW n \in 1..Len(r) PROVE r[n].at \in Positions(q) \ {q[1].at}
    <3>1. n + 1 \in 1..Len(q) /\ n + 1 # 1 /\ r[n] = q[n + 1]
      BY <1>2
    <3>2. 1 \in 1..Len(q)
      BY <1>2
    <3>3. q[1].at < q[n + 1].at /\ q[1].at \in Nat /\ q[n + 1].at \in Nat
      BY <1>3, <1>5, <3>1, <3>2
    <3>4. q[1].at # q[n + 1].at
      BY <3>3
    <3> QED BY <3>1, <3>4 DEF Positions
  <2>2. ASSUME NEW n \in 1..Len(q), q[n].at # q[1].at PROVE q[n].at \in Positions(r)
    <3>1. n # 1
      BY <2>2
    <3>2. n - 1 \in 1..Len(r) /\ r[n - 1] = q[n]
      BY <1>2, <3>1
    <3> QED BY <3>2 DEF Positions
  <2> QED BY <2>1, <2>2 DEF Positions
<1>7. 1 \in 1..Len(q)
  BY <1>2
<1>8. \A n \in 1..Len(q) : q[1].at <= q[n].at
  BY <1>3, <1>5, <1>7
<1>9. \A n \in 1..Len(r) : \E m \in 1..Len(q) : r[n] = q[m]
  <2> TAKE n \in 1..Len(r)
  <2>1. n + 1 \in 1..Len(q)
    BY <1>2
  <2> QED BY <1>2, <2>1
<1>10. Head(q).at \in Positions(q) /\ \A i \in Positions(q) : Head(q).at <= i
  BY <1>2, <1>7, <1>8 DEF Positions
<1> QED BY <1>1, <1>2, <1>4, <1>6, <1>7, <1>9, <1>10

------------------------------------------------------------------------------
\* The programs, instruction by instruction.

LEMMA FlagInstructions ==
    ASSUME NEW f \in Flags
    PROVE  /\ SetFlag(f).does = "set" /\ WaitFlag(f).does = "wait"
           /\ SetFlag(f).engine = Raiser[f] /\ WaitFlag(f).engine = Waiter[f]
           /\ SetFlag(f).flag = f /\ WaitFlag(f).flag = f
           /\ SetFlag(f).reads = {} /\ WaitFlag(f).reads = {}
           /\ SetFlag(f).writes = {} /\ WaitFlag(f).writes = {}
BY DEF SetFlag, WaitFlag, OnFlag

LEMMA FlagEngines ==
    /\ Raiser["MTE2_S"] = "MTE2" /\ Raiser["V_S"] = "V" /\ Raiser["S_MTE3"] = "S"
    /\ Raiser["MTE3_S"] = "MTE3" /\ Waiter["MTE2_S"] = "S" /\ Waiter["V_S"] = "S"
    /\ Waiter["S_MTE3"] = "MTE3" /\ Waiter["MTE3_S"] = "S"
    /\ Flags = {"MTE2_S", "V_S", "S_MTE3", "MTE3_S"} /\ Engines = {"S", "V", "MTE2", "MTE3"}
BY DEF Raiser, Waiter, Flags, Engines

LEMMA OperationFields ==
    ASSUME NEW e, NEW R, NEW W, NEW t
    PROVE  /\ Operation(e, R, W, t).engine = e /\ Operation(e, R, W, t).does = "operate"
           /\ Operation(e, R, W, t).reads = R /\ Operation(e, R, W, t).writes = W
           /\ Operation(e, R, W, t).tensor = t
BY DEF Operation

LEMMA AppendTwo ==
    ASSUME NEW S, NEW s \in Seq(S), NEW p \in S, NEW q \in S
    PROVE  /\ s \o <<p, q>> \in Seq(S) /\ Len(s \o <<p, q>>) = Len(s) + 2
           /\ (s \o <<p, q>>)[Len(s) + 1] = p /\ (s \o <<p, q>>)[Len(s) + 2] = q
           /\ \A i \in 1..Len(s) : (s \o <<p, q>>)[i] = s[i]
<1>1. <<p, q>> \in Seq(S) /\ Len(<<p, q>>) = 2
  OBVIOUS
<1> QED BY <1>1

WithOne(S, t, s, p) ==
    /\ t \in Seq(S) /\ Len(t) = Len(s) + 1 /\ t[Len(s) + 1] = p
    /\ \A i \in 1..Len(s) : t[i] = s[i]

LEMMA AppendOne ==
    ASSUME NEW S, NEW s \in Seq(S), NEW p \in S, NEW t, t = s \o <<p>>
    PROVE  WithOne(S, t, s, p)
<1>1. <<p>> \in Seq(S) /\ Len(<<p>>) = 1
  OBVIOUS
<1> QED BY <1>1 DEF WithOne

Joined(S, r, s, t) ==
    /\ r \in Seq(S) /\ Len(r) = Len(s) + Len(t)
    /\ \A i \in 1..Len(s) : r[i] = s[i]
    /\ \A i \in 1..Len(t) : r[Len(s) + i] = t[i]

LEMMA AppendAll ==
    ASSUME NEW S, NEW s \in Seq(S), NEW t \in Seq(S), NEW r, r = s \o t
    PROVE  Joined(S, r, s, t)
<1>1. Len(s) \in Nat /\ Len(t) \in Nat
  OBVIOUS
<1>2. \A i \in 1..Len(t) : Len(s) + i \in 1 .. Len(s) + Len(t) /\ ~(Len(s) + i <= Len(s))
                           /\ Len(s) + i - Len(s) = i
  BY <1>1
<1>3. \A i \in 1..Len(s) : i \in 1 .. Len(s) + Len(t) /\ i <= Len(s)
  BY <1>1
<1> QED BY <1>2, <1>3, ConcatProperties DEF Joined

\* The instructions that programs of these operations are made of.
HasFlags(S) == \A f \in Flags : SetFlag(f) \in S /\ WaitFlag(f) \in S

WithWait(S, t, s, f) ==
    /\ t \in Seq(S) /\ Len(t) = Len(s) + 2
    /\ t[Len(s) + 1] = SetFlag(f) /\ t[Len(s) + 2] = WaitFlag(f)
    /\ \A i \in 1..Len(s) : t[i] = s[i]

LEMMA AppendWait ==
    ASSUME NEW S, HasFlags(S), NEW s \in Seq(S), NEW f \in Flags,
           NEW t, t = s \o <<SetFlag(f), WaitFlag(f)>>
    PROVE  WithWait(S, t, s, f)
<1>1. SetFlag(f) \in S /\ WaitFlag(f) \in S
  BY DEF HasFlags
<1> QED BY <1>1, AppendTwo DEF WithWait

LEMMA WaitsAre ==
    /\ WaitMte2ToScalar = <<SetFlag("MTE2_S"), WaitFlag("MTE2_S")>>
    /\ WaitVectorToScalar = <<SetFlag("V_S"), WaitFlag("V_S")>>
    /\ WaitScalarToMte3 = <<SetFlag("S_MTE3"), WaitFlag("S_MTE3")>>
    /\ WaitMte3ToScalar = <<SetFlag("MTE3_S"), WaitFlag("MTE3_S")>>
    /\ "MTE2_S" \in Flags /\ "V_S" \in Flags /\ "S_MTE3" \in Flags /\ "MTE3_S" \in Flags
BY DEF WaitMte2ToScalar, WaitVectorToScalar, WaitScalarToMte3, WaitMte3ToScalar, Flags

\* What a task does before it copies out, the copies out, and the waits around them.
Completed(body, outs) == body \o WaitScalarToMte3 \o outs \o WaitMte3ToScalar

\* The copies out of a task are its last operations, and deliver what the kernel has to.
InTurn(d, n) ==
    /\ OperationsOf(d) \ CopyOutsOf(d) # {}
    /\ \A i \in OperationsOf(d) \ CopyOutsOf(d), j \in CopyOutsOf(d) : i < j
    /\ \/ CopyOutsOf(d) = {} /\ <<>> \in Tasks!OutsOf(n)
       \/ \E a \in CopyOutsOf(d) :
             /\ CopyOutsOf(d) = {a} /\ Program(d)[a].tensor # "in"
             /\ <<Program(d)[a].tensor>> \in Tasks!OutsOf(n)
       \/ \E a, b \in CopyOutsOf(d) :
             /\ CopyOutsOf(d) = {a, b} /\ a < b /\ Program(d)[b].tensor # "in"
             /\ <<Program(d)[a].tensor, Program(d)[b].tensor>> \in Tasks!OutsOf(n)

\* What a kernel may copy out.
Delivers(outs, n) ==
    \/ Len(outs) = 1 /\ outs[1].tensor # "in" /\ <<outs[1].tensor>> \in Tasks!OutsOf(n)
    \/ /\ Len(outs) = 2 /\ outs[2].tensor # "in"
       /\ <<outs[1].tensor, outs[2].tensor>> \in Tasks!OutsOf(n)

\* Where the instructions of a completed program stand.
Places(P, b, outs, m, n) ==
    /\ m \in Nat /\ n \in Nat /\ Len(P) = m + n + 4 /\ Len(b) = m /\ Len(outs) = n
    /\ \A i \in 1..m : P[i] = b[i]
    /\ P[m + 1] = SetFlag("S_MTE3") /\ P[m + 2] = WaitFlag("S_MTE3")
    /\ \A i \in 1..n : P[m + 2 + i] = outs[i]
    /\ P[m + n + 3] = SetFlag("MTE3_S") /\ P[m + n + 4] = WaitFlag("MTE3_S")

LEMMA CompletedSteps ==
    ASSUME NEW S, HasFlags(S), NEW body \in Seq(S), NEW outs \in Seq(S),
           NEW P, P = Completed(body, outs), NEW m, m = Len(body), NEW n, n = Len(outs)
    PROVE  Places(P, body, outs, m, n)
<1>2. m \in Nat /\ n \in Nat
  OBVIOUS
<1>3. PICK s : s = body \o WaitScalarToMte3
  OBVIOUS
<1>4. /\ s \in Seq(S) /\ Len(s) = m + 2 /\ \A i \in 1..m : s[i] = body[i]
      /\ s[m + 1] = SetFlag("S_MTE3") /\ s[m + 2] = WaitFlag("S_MTE3")
  <2>1. s = body \o <<SetFlag("S_MTE3"), WaitFlag("S_MTE3")>> /\ "S_MTE3" \in Flags
    BY <1>3, WaitsAre
  <2>2. WithWait(S, s, body, "S_MTE3")
    BY <2>1, AppendWait
  <2> QED BY <2>2 DEF WithWait
<1>5. PICK t : t = s \o outs
  OBVIOUS
<1>6. /\ t \in Seq(S) /\ Len(t) = m + 2 + n /\ \A i \in 1 .. m + 2 : t[i] = s[i]
      /\ \A i \in 1..n : t[m + 2 + i] = outs[i]
  <2>1. Joined(S, t, s, outs)
    BY <1>4, <1>5, AppendAll
  <2> QED BY <1>4, <2>1 DEF Joined
<1>7. P = t \o <<SetFlag("MTE3_S"), WaitFlag("MTE3_S")>>
  BY <1>3, <1>5, WaitsAre DEF Completed
<1>8. /\ Len(P) = m + 2 + n + 2 /\ \A i \in 1 .. m + 2 + n : P[i] = t[i]
      /\ P[m + 2 + n + 1] = SetFlag("MTE3_S") /\ P[m + 2 + n + 2] = WaitFlag("MTE3_S")
  <2>1. t \in Seq(S) /\ "MTE3_S" \in Flags /\ Len(t) = m + 2 + n
    BY <1>6, WaitsAre
  <2>2. WithWait(S, P, t, "MTE3_S")
    BY <1>7, <2>1, AppendWait
  <2> QED BY <2>1, <2>2 DEF WithWait
<1>9. ASSUME NEW i \in 1 .. m + 2 PROVE P[i] = s[i]
  <2>1. i \in 1 .. m + 2 + n
    BY <1>2
  <2> QED BY <1>6, <1>8, <2>1
<1>10. ASSUME NEW i \in 1..m PROVE P[i] = body[i]
  <2>1. i \in 1 .. m + 2
    BY <1>2
  <2> QED BY <1>4, <1>9, <2>1
<1>11. P[m + 1] = SetFlag("S_MTE3") /\ P[m + 2] = WaitFlag("S_MTE3")
  <2>1. m + 1 \in 1 .. m + 2 /\ m + 2 \in 1 .. m + 2
    BY <1>2
  <2> QED BY <1>4, <1>9, <2>1
<1>12. ASSUME NEW i \in 1..n PROVE P[m + 2 + i] = outs[i]
  <2>1. m + 2 + i \in 1 .. m + 2 + n
    BY <1>2
  <2> QED BY <1>6, <1>8, <2>1
<1>13. m + 2 + n + 1 = m + n + 3 /\ m + 2 + n + 2 = m + n + 4
  BY <1>2
<1>14. Len(P) = m + n + 4
  BY <1>2, <1>8
<1> QED BY <1>2, <1>8, <1>10, <1>11, <1>12, <1>13, <1>14 DEF Places

\* What a task may do before it copies out.
SoundBody(b) ==
    /\ \A i \in 1..Len(b) :
          /\ b[i].engine \in Engines \ {"MTE3"} /\ b[i].does \in {"operate", "set", "wait"}
          /\ b[i].does = "operate" => b[i].tensor = "none"
          /\ b[i].does = "set" =>
                /\ b[i].flag \in {"MTE2_S", "V_S"} /\ b[i].engine = Raiser[b[i].flag]
                /\ i + 1 \in 1..Len(b) /\ b[i + 1].does = "wait" /\ b[i + 1].engine = "S"
                /\ b[i + 1].flag = b[i].flag
          /\ b[i].does = "wait" =>
                i - 1 \in 1..Len(b) /\ b[i - 1].does = "set" /\ b[i - 1].flag = b[i].flag
          /\ b[i].engine # "S" =>
                \E a \in i..Len(b) : b[a].does = "set" /\ b[a].engine = b[i].engine
    /\ \A i, j \in 1..Len(b) :
          i < j /\ b[i].does = "operate" /\ b[j].does = "operate" /\ b[i].engine # b[j].engine
          /\ Clash(b[i], b[j]) =>
             \E a \in i + 1 .. j - 2 : b[a].does = "set" /\ b[a].engine = b[i].engine
    /\ \A j \in 1..Len(b) : \A name \in b[j].reads :
          \E i \in 1 .. j - 1 :
             /\ b[i].does = "operate" /\ name \in b[i].writes
             /\ \A h \in 1 .. j - 1 : name \in b[h].writes => h <= i

\* What it copies out it has written.
CopiesOut(b, p) ==
    /\ p.engine = "MTE3" /\ p.does = "operate" /\ p.writes = {} /\ p.tensor # "none"
    /\ \A name \in p.reads : \E i \in 1..Len(b) :
          /\ b[i].does = "operate" /\ name \in b[i].writes
          /\ \A h \in 1..Len(b) : name \in b[h].writes => h <= i

\* What stands there.
Described(P, b, outs, m, n) ==
    /\ m \in Nat /\ n \in Nat /\ Len(P) = m + n + 4 /\ Len(b) = m /\ Len(outs) = n
    /\ \A i \in 1..m : P[i] = b[i]
    /\ \A i \in 1..n : P[m + 2 + i] = outs[i]
    /\ \A i \in {m + 1, m + n + 3} : P[i].does = "set" /\ P[i].reads = {} /\ P[i].writes = {}
    /\ \A i \in {m + 2, m + n + 4} : P[i].does = "wait" /\ P[i].reads = {} /\ P[i].writes = {}
    /\ P[m + 1].engine = "S" /\ P[m + 1].flag = "S_MTE3"
    /\ P[m + 2].engine = "MTE3" /\ P[m + 2].flag = "S_MTE3"
    /\ P[m + n + 3].engine = "MTE3" /\ P[m + n + 3].flag = "MTE3_S"
    /\ P[m + n + 4].engine = "S" /\ P[m + n + 4].flag = "MTE3_S"

LEMMA PlacesDescribed ==
    ASSUME NEW P, NEW b, NEW outs, NEW m, NEW n, Places(P, b, outs, m, n)
    PROVE  Described(P, b, outs, m, n)
<1>1. "S_MTE3" \in Flags /\ "MTE3_S" \in Flags
  BY WaitsAre
<1>2. /\ P[m + 1] = SetFlag("S_MTE3") /\ P[m + 2] = WaitFlag("S_MTE3")
      /\ P[m + n + 3] = SetFlag("MTE3_S") /\ P[m + n + 4] = WaitFlag("MTE3_S")
  BY DEF Places
<1>3. /\ P[m + 1].does = "set" /\ P[m + 1].reads = {} /\ P[m + 1].writes = {}
      /\ P[m + 1].engine = "S" /\ P[m + 1].flag = "S_MTE3"
  BY <1>1, <1>2, FlagInstructions, FlagEngines
<1>4. /\ P[m + 2].does = "wait" /\ P[m + 2].reads = {} /\ P[m + 2].writes = {}
      /\ P[m + 2].engine = "MTE3" /\ P[m + 2].flag = "S_MTE3"
  BY <1>1, <1>2, FlagInstructions, FlagEngines
<1>5. /\ P[m + n + 3].does = "set" /\ P[m + n + 3].reads = {} /\ P[m + n + 3].writes = {}
      /\ P[m + n + 3].engine = "MTE3" /\ P[m + n + 3].flag = "MTE3_S"
  BY <1>1, <1>2, FlagInstructions, FlagEngines
<1>6. /\ P[m + n + 4].does = "wait" /\ P[m + n + 4].reads = {} /\ P[m + n + 4].writes = {}
      /\ P[m + n + 4].engine = "S" /\ P[m + n + 4].flag = "MTE3_S"
  BY <1>1, <1>2, FlagInstructions, FlagEngines
<1> QED BY <1>3, <1>4, <1>5, <1>6 DEF Places, Described

IsCompleted(d, b, outs, m, n) ==
    /\ Described(Program(d), b, outs, m, n) /\ SoundBody(b)
    /\ \A k \in 1..n : CopiesOut(b, outs[k])

\* The kinds of places of a completed program.
LEMMA CasesOf ==
    ASSUME NEW d, NEW b, NEW outs, NEW m, NEW n, IsCompleted(d, b, outs, m, n),
           NEW i \in 1..Len(Program(d))
    PROVE  \/ i \in 1..m /\ Program(d)[i] = b[i]
           \/ i = m + 1 /\ EngineOf(d, i) = "S" /\ Does(d, i) = "set"
           \/ i = m + 2 /\ EngineOf(d, i) = "MTE3" /\ Does(d, i) = "wait"
           \/ \E k \in 1..n : i = m + 2 + k /\ Program(d)[i] = outs[k] /\ EngineOf(d, i) = "MTE3"
                              /\ Does(d, i) = "operate" /\ CopiesOut(b, Program(d)[i])
           \/ i = m + n + 3 /\ EngineOf(d, i) = "MTE3" /\ Does(d, i) = "set"
           \/ i = m + n + 4 /\ EngineOf(d, i) = "S" /\ Does(d, i) = "wait"
<1>1. /\ m \in Nat /\ n \in Nat /\ Len(Program(d)) = m + n + 4
  BY DEF IsCompleted, Described
<1>2. CASE i \in 1..m
  BY <1>2 DEF IsCompleted, Described
<1>3. CASE i \in {m + 1, m + 2, m + n + 3, m + n + 4}
  BY <1>3 DEF IsCompleted, Described, EngineOf, Does
<1>4. CASE i \notin 1..m /\ i \notin {m + 1, m + 2, m + n + 3, m + n + 4}
  <2>1. PICK k \in 1..n : i = m + 2 + k
    <3>1. i - m - 2 \in 1..n /\ i = m + 2 + (i - m - 2)
      BY <1>1, <1>4
    <3> QED BY <3>1
  <2>2. Program(d)[i] = outs[k] /\ CopiesOut(b, outs[k])
    BY <2>1 DEF IsCompleted, Described
  <2> QED BY <2>1, <2>2 DEF CopiesOut, EngineOf, Does
<1> QED BY <1>2, <1>3, <1>4

LEMMA BodyFacts ==
    ASSUME NEW d, NEW b, NEW outs, NEW m, NEW n, IsCompleted(d, b, outs, m, n), NEW i \in 1..m
    PROVE  /\ i \in 1..Len(Program(d)) /\ i \in 1..Len(b) /\ Program(d)[i] = b[i]
           /\ EngineOf(d, i) = b[i].engine /\ Does(d, i) = b[i].does
           /\ EngineOf(d, i) \in Engines \ {"MTE3"}
<1>1. i \in 1..Len(Program(d)) /\ i \in 1..Len(b) /\ Program(d)[i] = b[i]
  BY DEF IsCompleted, Described
<1>2. b[i].engine \in Engines \ {"MTE3"}
  BY <1>1 DEF IsCompleted, SoundBody
<1> QED BY <1>1, <1>2 DEF EngineOf, Does

LEMMA TailFacts ==
    ASSUME NEW d, NEW b, NEW outs, NEW m, NEW n, IsCompleted(d, b, outs, m, n)
    PROVE  /\ m \in Nat /\ n \in Nat /\ Len(Program(d)) = m + n + 4 /\ Len(b) = m
           /\ Does(d, m + 1) = "set" /\ EngineOf(d, m + 1) = "S"
           /\ Does(d, m + 2) = "wait" /\ EngineOf(d, m + 2) = "MTE3"
           /\ Does(d, m + n + 3) = "set" /\ EngineOf(d, m + n + 3) = "MTE3"
           /\ Does(d, m + n + 4) = "wait" /\ EngineOf(d, m + n + 4) = "S"
           /\ Program(d)[m + 1].flag = "S_MTE3" /\ Program(d)[m + 2].flag = "S_MTE3"
           /\ Program(d)[m + n + 3].flag = "MTE3_S" /\ Program(d)[m + n + 4].flag = "MTE3_S"
BY DEF IsCompleted, Described, EngineOf, Does

LEMMA OthersTouchNothing ==
    ASSUME NEW d, NEW b, NEW outs, NEW m, NEW n, IsCompleted(d, b, outs, m, n),
           NEW i \in {m + 1, m + 2, m + n + 3, m + n + 4}
    PROVE  Program(d)[i].reads = {} /\ Program(d)[i].writes = {}
<1>1. CASE i \in {m + 1, m + n + 3}
  BY <1>1 DEF IsCompleted, Described
<1>2. CASE i \in {m + 2, m + n + 4}
  BY <1>2 DEF IsCompleted, Described
<1> QED BY <1>1, <1>2

LEMMA CompletedFormed ==
    ASSUME NEW d, NEW b, NEW outs, NEW m, NEW n, IsCompleted(d, b, outs, m, n)
    PROVE  Formed(d)
<1>1. Len(Program(d)) \in Nat \ {0}
  BY TailFacts
<1>2. ASSUME NEW i \in 1..Len(Program(d))
      PROVE  /\ EngineOf(d, i) \in Engines /\ Does(d, i) \in {"operate", "set", "wait"}
             /\ Does(d, i) = "operate" => (EngineOf(d, i) = "MTE3" <=> Program(d)[i].tensor # "none")
  <2>1. CASE i \in 1..m
    <3>1. i \in 1..Len(b)
      BY <2>1, BodyFacts
    <3>2. b[i].does \in {"operate", "set", "wait"} /\ (b[i].does = "operate" => b[i].tensor = "none")
      BY <3>1 DEF IsCompleted, SoundBody
    <3> QED BY <2>1, <3>2, BodyFacts
  <2>2. CASE i \notin 1..m
    BY <2>2, CasesOf, FlagEngines DEF CopiesOut
  <2> QED BY <2>1, <2>2
<1> QED BY <1>1, <1>2 DEF Formed

LEMMA CompletedPaired ==
    ASSUME NEW d, NEW b, NEW outs, NEW m, NEW n, IsCompleted(d, b, outs, m, n)
    PROVE  Paired(d)
<1>1. m \in Nat /\ n \in Nat /\ Len(Program(d)) = m + n + 4 /\ Len(b) = m
  BY TailFacts
<1>2. ASSUME NEW i \in 1..Len(Program(d)), Does(d, i) = "set"
      PROVE  /\ Program(d)[i].flag \in Flags /\ EngineOf(d, i) = Raiser[Program(d)[i].flag]
             /\ i + 1 \in 1..Len(Program(d)) /\ Does(d, i + 1) = "wait"
             /\ EngineOf(d, i + 1) = Waiter[Program(d)[i].flag]
             /\ Program(d)[i + 1].flag = Program(d)[i].flag
  <2>1. CASE i \in 1..m
    <3>1. b[i] = Program(d)[i] /\ b[i].does = "set" /\ i \in 1..Len(b)
      BY <1>2, <2>1, BodyFacts
    <3>2. /\ b[i].flag \in {"MTE2_S", "V_S"} /\ b[i].engine = Raiser[b[i].flag]
          /\ i + 1 \in 1..Len(b) /\ b[i + 1].does = "wait" /\ b[i + 1].engine = "S"
          /\ b[i + 1].flag = b[i].flag
      BY <3>1 DEF IsCompleted, SoundBody
    <3>3. i + 1 \in 1..m
      BY <1>1, <3>2
    <3>4. Program(d)[i + 1] = b[i + 1] /\ i + 1 \in 1..Len(Program(d))
      BY <3>3, BodyFacts
    <3>5. Waiter[b[i].flag] = "S" /\ b[i].flag \in Flags
      BY <3>2, FlagEngines
    <3> QED BY <3>1, <3>2, <3>4, <3>5 DEF EngineOf, Does
  <2>2. CASE i = m + 1
    <3>1. i + 1 = m + 2 /\ m + 2 \in 1..Len(Program(d))
      BY <1>1, <2>2
    <3> QED BY <2>2, <3>1, TailFacts, FlagEngines
  <2>3. CASE i = m + n + 3
    <3>1. i + 1 = m + n + 4 /\ m + n + 4 \in 1..Len(Program(d))
      BY <1>1, <2>3
    <3> QED BY <2>3, <3>1, TailFacts, FlagEngines
  <2> QED BY <1>2, <2>1, <2>2, <2>3, CasesOf
<1>3. ASSUME NEW i \in 1..Len(Program(d)), Does(d, i) = "wait"
      PROVE  /\ i - 1 \in 1..Len(Program(d)) /\ Does(d, i - 1) = "set"
             /\ Program(d)[i - 1].flag = Program(d)[i].flag
  <2>1. CASE i \in 1..m
    <3>1. b[i] = Program(d)[i] /\ b[i].does = "wait" /\ i \in 1..Len(b)
      BY <1>3, <2>1, BodyFacts
    <3>2. i - 1 \in 1..Len(b) /\ b[i - 1].does = "set" /\ b[i - 1].flag = b[i].flag
      BY <3>1 DEF IsCompleted, SoundBody
    <3>3. i - 1 \in 1..m
      BY <1>1, <3>2
    <3>4. Program(d)[i - 1] = b[i - 1] /\ i - 1 \in 1..Len(Program(d))
      BY <3>3, BodyFacts
    <3> QED BY <3>1, <3>2, <3>4 DEF Does
  <2>2. CASE i = m + 2
    <3>1. i - 1 = m + 1 /\ m + 1 \in 1..Len(Program(d))
      BY <1>1, <2>2
    <3> QED BY <2>2, <3>1, TailFacts
  <2>3. CASE i = m + n + 4
    <3>1. i - 1 = m + n + 3 /\ m + n + 3 \in 1..Len(Program(d))
      BY <1>1, <2>3
    <3> QED BY <2>3, <3>1, TailFacts
  <2> QED BY <1>3, <2>1, <2>2, <2>3, CasesOf
<1> QED BY <1>2, <1>3 DEF Paired

LEMMA CompletedReused ==
    ASSUME NEW d, NEW b, NEW outs, NEW m, NEW n, IsCompleted(d, b, outs, m, n)
    PROVE  Reused(d)
<1>1. ASSUME NEW a \in Sets(d, "S_MTE3") PROVE a = m + 1
  <2>1. a \in 1..Len(Program(d)) /\ Does(d, a) = "set" /\ Program(d)[a].flag = "S_MTE3"
    BY DEF Sets
  <2>2. ASSUME a \in 1..m PROVE FALSE
    <3>1. a \in 1..Len(b) /\ b[a].does = "set" /\ b[a].flag = "S_MTE3"
      BY <2>1, <2>2, BodyFacts
    <3> QED BY <3>1 DEF IsCompleted, SoundBody
  <2>3. a # m + n + 3
    BY <2>1, TailFacts
  <2> QED BY <2>1, <2>2, <2>3, CasesOf
<1>2. ASSUME NEW f \in Flags, Waiter[f] # "S" PROVE f = "S_MTE3"
  BY <1>2, FlagEngines
<1> QED BY <1>1, <1>2 DEF Reused

LEMMA CompletedClosed ==
    ASSUME NEW d, NEW b, NEW outs, NEW m, NEW n, IsCompleted(d, b, outs, m, n)
    PROVE  Closed(d)
<1>1. m \in Nat /\ n \in Nat /\ Len(Program(d)) = m + n + 4 /\ Len(b) = m
  BY TailFacts
<1>2. ASSUME NEW i \in 1..Len(Program(d)), EngineOf(d, i) # "S" \/ Program(d)[i].writes # {}
      PROVE  \E a \in i..Len(Program(d)) : Does(d, a) = "set" /\ EngineOf(d, a) = EngineOf(d, i)
  <2>1. CASE i \in 1..m /\ EngineOf(d, i) # "S"
    <3>1. b[i].engine = EngineOf(d, i) /\ i \in 1..Len(b)
      BY <2>1, BodyFacts
    <3>2. PICK a \in i..Len(b) : b[a].does = "set" /\ b[a].engine = b[i].engine
      BY <2>1, <3>1 DEF IsCompleted, SoundBody
    <3>3. a \in 1..m /\ a \in i..Len(Program(d))
      BY <1>1
    <3> QED BY <3>1, <3>2, <3>3, BodyFacts
  <2>2. CASE i \in 1 .. m + 1 /\ EngineOf(d, i) = "S"
    <3>1. m + 1 \in i..Len(Program(d))
      BY <1>1, <2>2
    <3> QED BY <2>2, <3>1, TailFacts
  <2>3. CASE EngineOf(d, i) = "MTE3"
    <3>1. i <= m + n + 3
      BY <1>1, <2>3, CasesOf, TailFacts
    <3>2. m + n + 3 \in i..Len(Program(d))
      BY <1>1, <3>1
    <3> QED BY <2>3, <3>2, TailFacts
  <2>4. i # m + n + 4
    <3>1. Program(d)[m + n + 4].writes = {} /\ EngineOf(d, m + n + 4) = "S"
      BY TailFacts, OthersTouchNothing
    <3> QED BY <1>2, <3>1
  <2>5. i \in 1..m \/ i = m + 1 \/ EngineOf(d, i) = "MTE3"
    BY <2>4, CasesOf
  <2>6. i \in 1..m => i \in 1 .. m + 1
    BY <1>1
  <2>7. i = m + 1 => i \in 1 .. m + 1 /\ EngineOf(d, i) = "S"
    BY <1>1, TailFacts
  <2> QED BY <2>1, <2>2, <2>3, <2>5, <2>6, <2>7
<1> QED BY <1>2 DEF Closed

LEMMA CompletedOrdered ==
    ASSUME NEW d, NEW b, NEW outs, NEW m, NEW n, IsCompleted(d, b, outs, m, n)
    PROVE  Ordered(d)
<1>1. m \in Nat /\ n \in Nat /\ Len(Program(d)) = m + n + 4 /\ Len(b) = m
  BY TailFacts
<1> SUFFICES ASSUME NEW i \in 1..Len(Program(d)), NEW j \in 1..Len(Program(d)), i < j,
                    IsOperation(d, i), IsOperation(d, j), EngineOf(d, i) # EngineOf(d, j),
                    Clash(Program(d)[i], Program(d)[j]) \/ EngineOf(d, j) = "MTE3"
             PROVE  Awaits(d, i, j)
  BY DEF Ordered
<1>2. Does(d, i) = "operate" /\ Does(d, j) = "operate"
  BY DEF IsOperation
<1>3. CASE j \in 1..m
  <2>1. i \in 1..m
    BY <1>1, <1>3
  <2>2. /\ i \in 1..Len(b) /\ j \in 1..Len(b) /\ Clash(b[i], b[j])
        /\ b[i].does = "operate" /\ b[j].does = "operate" /\ b[i].engine # b[j].engine
    BY <1>2, <1>3, <2>1, BodyFacts
  <2>3. PICK a \in i + 1 .. j - 2 : b[a].does = "set" /\ b[a].engine = b[i].engine
    BY <2>2 DEF IsCompleted, SoundBody
  <2>4. a \in 1..m
    BY <1>1, <1>3, <2>1, <2>3
  <2> QED BY <2>1, <2>3, <2>4, BodyFacts DEF Awaits
<1>4. CASE j \notin 1..m
  <2>1. PICK k \in 1..n : j = m + 2 + k /\ EngineOf(d, j) = "MTE3"
    BY <1>2, <1>4, CasesOf
  <2>2. i \in 1..m
    BY <1>2, <2>1, CasesOf
  <2>3. CASE EngineOf(d, i) = "S"
    <3>1. m + 1 \in i + 1 .. j - 2
      BY <1>1, <2>1, <2>2
    <3> QED BY <2>3, <3>1, TailFacts DEF Awaits
  <2>4. CASE EngineOf(d, i) # "S"
    <3>1. i \in 1..Len(b) /\ b[i].engine # "S" /\ b[i].does = "operate" /\ b[i].engine = EngineOf(d, i)
      BY <1>2, <2>2, <2>4, BodyFacts
    <3>2. PICK a \in i..Len(b) : b[a].does = "set" /\ b[a].engine = b[i].engine
      BY <3>1 DEF IsCompleted, SoundBody
    <3>3. a # i
      BY <3>1, <3>2
    <3>4. a \in 1..m /\ a \in i + 1 .. j - 2
      BY <1>1, <2>1, <2>2, <3>2, <3>3
    <3> QED BY <3>1, <3>2, <3>4, BodyFacts DEF Awaits
  <2> QED BY <2>3, <2>4
<1> QED BY <1>3, <1>4

LEMMA CompletedSourced ==
    ASSUME NEW d, NEW b, NEW outs, NEW m, NEW n, IsCompleted(d, b, outs, m, n)
    PROVE  Sourced(d)
<1>1. m \in Nat /\ n \in Nat /\ Len(Program(d)) = m + n + 4 /\ Len(b) = m
  BY TailFacts
<1> SUFFICES ASSUME NEW j \in 1..Len(Program(d)), NEW name \in Program(d)[j].reads
             PROVE  \E i \in 1 .. j - 1 :
                       /\ IsOperation(d, i) /\ name \in Program(d)[i].writes
                       /\ \A h \in 1 .. j - 1 : name \in Program(d)[h].writes => h <= i
  BY DEF Sourced
<1>2. CASE j \in 1..m
  <2>1. j \in 1..Len(b) /\ name \in b[j].reads
    BY <1>2, BodyFacts
  <2>2. PICK i \in 1 .. j - 1 :
           /\ b[i].does = "operate" /\ name \in b[i].writes
           /\ \A h \in 1 .. j - 1 : name \in b[h].writes => h <= i
    BY <2>1 DEF IsCompleted, SoundBody
  <2>3. \A h \in 1 .. j - 1 : h \in 1..m
    BY <1>1, <1>2
  <2>4. \A h \in 1 .. j - 1 : Program(d)[h] = b[h] /\ Does(d, h) = b[h].does
                              /\ h \in 1..Len(Program(d))
    BY <2>3, BodyFacts
  <2> QED BY <2>2, <2>4 DEF IsOperation
<1>3. CASE j \notin 1..m
  <2>1. PICK k \in 1..n : j = m + 2 + k /\ CopiesOut(b, Program(d)[j])
    BY <1>3, CasesOf, OthersTouchNothing
  <2>2. PICK i \in 1..Len(b) :
           /\ b[i].does = "operate" /\ name \in b[i].writes
           /\ \A h \in 1..Len(b) : name \in b[h].writes => h <= i
    BY <2>1 DEF CopiesOut
  <2>3. i \in 1..m /\ i \in 1 .. j - 1
    BY <1>1, <2>1, <2>2
  <2>4. ASSUME NEW h \in 1 .. j - 1, name \in Program(d)[h].writes PROVE h <= i
    <3>1. h \in 1..Len(Program(d))
      BY <1>1
    <3>2. h \in 1..m
      BY <2>4, <3>1, CasesOf, OthersTouchNothing DEF CopiesOut
    <3> QED BY <2>2, <2>4, <3>2, BodyFacts
  <2>5. IsOperation(d, i) /\ name \in Program(d)[i].writes
    BY <2>2, <2>3, BodyFacts DEF IsOperation
  <2> QED BY <2>3, <2>4, <2>5
<1> QED BY <1>2, <1>3

LEMMA CompletedInTurn ==
    ASSUME NEW d, NEW b, NEW outs, NEW m, NEW n, IsCompleted(d, b, outs, m, n),
           NEW r, Delivers(outs, r), \E i \in 1..m : b[i].does = "operate"
    PROVE  InTurn(d, r)
<1>1. m \in Nat /\ n \in Nat /\ Len(Program(d)) = m + n + 4 /\ Len(b) = m /\ Len(outs) = n
  BY TailFacts DEF IsCompleted, Described
<1>2. ASSUME NEW i \in OperationsOf(d)
      PROVE  /\ i \in 1..m \/ \E k \in 1..n : i = m + 2 + k
             /\ i \in CopyOutsOf(d) <=> \E k \in 1..n : i = m + 2 + k
  <2>1. i \in 1..Len(Program(d)) /\ Does(d, i) = "operate"
    BY DEF OperationsOf, Does
  <2>2. CASE i \in 1..m
    <3>1. b[i].does = "operate" /\ i \in 1..Len(b) /\ Program(d)[i] = b[i]
      BY <2>1, <2>2, BodyFacts
    <3>2. Program(d)[i].tensor = "none"
      BY <3>1 DEF IsCompleted, SoundBody
    <3>3. ~ \E k \in 1..n : i = m + 2 + k
      BY <1>1, <2>2
    <3> QED BY <2>2, <3>2, <3>3 DEF CopyOutsOf
  <2>3. CASE i \notin 1..m
    <3>1. PICK k \in 1..n : i = m + 2 + k /\ CopiesOut(b, Program(d)[i])
      BY <2>1, <2>3, CasesOf
    <3>2. Program(d)[i].tensor # "none"
      BY <3>1 DEF CopiesOut
    <3> QED BY <3>1, <3>2 DEF CopyOutsOf
  <2> QED BY <2>2, <2>3
<1>3. ASSUME NEW k \in 1..n PROVE m + 2 + k \in OperationsOf(d) /\ Program(d)[m + 2 + k] = outs[k]
  <2>1. m + 2 + k \in 1..Len(Program(d))
    BY <1>1
  <2>2. Program(d)[m + 2 + k] = outs[k] /\ CopiesOut(b, outs[k])
    BY DEF IsCompleted, Described
  <2> QED BY <2>1, <2>2 DEF OperationsOf, CopiesOut
<1>4. CopyOutsOf(d) = {m + 2 + k : k \in 1..n}
  <2>1. CopyOutsOf(d) \subseteq OperationsOf(d)
    BY DEF CopyOutsOf
  <2>2. ASSUME NEW i \in CopyOutsOf(d) PROVE i \in {m + 2 + k : k \in 1..n}
    BY <1>2, <2>1
  <2>3. ASSUME NEW k \in 1..n PROVE m + 2 + k \in CopyOutsOf(d)
    BY <1>2, <1>3
  <2> QED BY <2>2, <2>3
<1>5. OperationsOf(d) \ CopyOutsOf(d) # {}
  <2>1. PICK i \in 1..m : b[i].does = "operate"
    OBVIOUS
  <2>2. i \in 1..Len(Program(d)) /\ Program(d)[i].does = "operate"
    BY <2>1, BodyFacts DEF Does
  <2>3. i \in OperationsOf(d)
    BY <2>2 DEF OperationsOf
  <2>4. i \notin CopyOutsOf(d)
    BY <1>1, <1>4
  <2> QED BY <2>3, <2>4
<1>6. ASSUME NEW i \in OperationsOf(d) \ CopyOutsOf(d), NEW j \in CopyOutsOf(d) PROVE i < j
  <2>1. i \in 1..m
    BY <1>2
  <2>2. PICK k \in 1..n : j = m + 2 + k
    BY <1>4
  <2> QED BY <1>1, <2>1, <2>2
<1>7. CASE n = 1
  <2>1. CopyOutsOf(d) = {m + 3} /\ Program(d)[m + 3] = outs[1]
    <3>1. 1..n = {1} /\ m + 2 + 1 = m + 3
      BY <1>1, <1>7
    <3> QED BY <1>3, <1>4, <3>1
  <2>2. outs[1].tensor # "in" /\ <<outs[1].tensor>> \in Tasks!OutsOf(r)
    BY <1>1, <1>7 DEF Delivers
  <2> QED BY <1>5, <1>6, <2>1, <2>2 DEF InTurn
<1>8. CASE n = 2
  <2>1. /\ CopyOutsOf(d) = {m + 3, m + 4} /\ Program(d)[m + 3] = outs[1]
        /\ Program(d)[m + 4] = outs[2] /\ m + 3 < m + 4
    <3>1. 1..n = {1, 2} /\ m + 2 + 1 = m + 3 /\ m + 2 + 2 = m + 4
      BY <1>1, <1>8
    <3>2. Program(d)[m + 2 + 1] = outs[1] /\ Program(d)[m + 2 + 2] = outs[2]
      BY <1>3, <3>1
    <3>3. CopyOutsOf(d) = {m + 2 + 1, m + 2 + 2}
      BY <1>4, <3>1
    <3> QED BY <1>1, <3>1, <3>2, <3>3
  <2>2. outs[2].tensor # "in" /\ <<outs[1].tensor, outs[2].tensor>> \in Tasks!OutsOf(r)
    BY <1>1, <1>8 DEF Delivers
  <2> QED BY <1>5, <1>6, <2>1, <2>2 DEF InTurn
<1> QED BY <1>1, <1>7, <1>8 DEF Delivers

LEMMA CompletedSound ==
    ASSUME NEW d, NEW S, HasFlags(S), NEW body \in Seq(S), NEW outs \in Seq(S),
           Program(d) = Completed(body, outs), SoundBody(body),
           \A k \in 1..Len(outs) : CopiesOut(body, outs[k]),
           NEW r, Delivers(outs, r), \E i \in 1..Len(body) : body[i].does = "operate"
    PROVE  Sound(d) /\ InTurn(d, r)
<1>1. PICK m, n : m = Len(body) /\ n = Len(outs)
  OBVIOUS
<1>2. PICK P : P = Program(d)
  OBVIOUS
<1>3. Places(P, body, outs, m, n)
  BY <1>1, <1>2, CompletedSteps
<1>4. Described(P, body, outs, m, n)
  BY <1>3, PlacesDescribed
<1>5. IsCompleted(d, body, outs, m, n)
  BY <1>1, <1>2, <1>4 DEF IsCompleted
<1>6. Sound(d)
  BY <1>5, CompletedFormed, CompletedPaired, CompletedReused, CompletedClosed, CompletedOrdered,
     CompletedSourced DEF Sound
<1>7. InTurn(d, r)
  BY <1>1, <1>5, CompletedInTurn
<1> QED BY <1>6, <1>7

\* Copies in of these regions, and scalar loops over them.
StandardBody(body, ins, p, names, R, W) ==
    /\ body = ins \o WaitMte2ToScalar \o <<p>> /\ p = Loops(R, W)
    /\ \A i \in 1..Len(ins) : ins[i] = CopyIn(names[i])
    /\ \A i, j \in 1..Len(ins) : names[i] = names[j] => i = j
    /\ R = {names[i] : i \in 1..Len(ins)}

\* What stands in it.
StandardPlaces(b, names, R, W, k) ==
    /\ k \in Nat /\ Len(b) = k + 3
    /\ \A i \in 1..k : /\ b[i].engine = "MTE2" /\ b[i].does = "operate" /\ b[i].tensor = "none"
                       /\ b[i].reads = {} /\ b[i].writes = {names[i]}
    /\ b[k + 1].engine = "MTE2" /\ b[k + 1].does = "set" /\ b[k + 1].flag = "MTE2_S"
    /\ b[k + 2].engine = "S" /\ b[k + 2].does = "wait" /\ b[k + 2].flag = "MTE2_S"
    /\ b[k + 1].reads = {} /\ b[k + 1].writes = {} /\ b[k + 2].reads = {} /\ b[k + 2].writes = {}
    /\ b[k + 3].engine = "S" /\ b[k + 3].does = "operate" /\ b[k + 3].tensor = "none"
    /\ b[k + 3].reads = R /\ b[k + 3].writes = W
    /\ \A i, j \in 1..k : names[i] = names[j] => i = j
    /\ R = {names[i] : i \in 1..k}

LEMMA StandardBodyPlaces ==
    ASSUME NEW S, HasFlags(S), NEW ins \in Seq(S), NEW p \in S, NEW body, NEW names, NEW R, NEW W,
           StandardBody(body, ins, p, names, R, W), NEW k, k = Len(ins)
    PROVE  body \in Seq(S) /\ StandardPlaces(body, names, R, W, k)
<1>1. k \in Nat
  OBVIOUS
<1>2. PICK s : s = ins \o WaitMte2ToScalar
  OBVIOUS
<1>3. WithWait(S, s, ins, "MTE2_S")
  <2>1. s = ins \o <<SetFlag("MTE2_S"), WaitFlag("MTE2_S")>> /\ "MTE2_S" \in Flags
    BY <1>2, WaitsAre
  <2> QED BY <2>1, AppendWait
<1>4. s \in Seq(S) /\ Len(s) = k + 2
  BY <1>3 DEF WithWait
<1>5. body = s \o <<p>>
  BY <1>2 DEF StandardBody
<1>6. WithOne(S, body, s, p)
  BY <1>4, <1>5, AppendOne
<1>7. body \in Seq(S) /\ Len(body) = k + 3 /\ body[k + 3] = p /\ \A i \in 1 .. k + 2 : body[i] = s[i]
  BY <1>1, <1>4, <1>6 DEF WithOne
<1>8. body[k + 1] = SetFlag("MTE2_S") /\ body[k + 2] = WaitFlag("MTE2_S")
  <2>1. k + 1 \in 1 .. k + 2 /\ k + 2 \in 1 .. k + 2
    BY <1>1
  <2>2. s[k + 1] = SetFlag("MTE2_S") /\ s[k + 2] = WaitFlag("MTE2_S")
    BY <1>3 DEF WithWait
  <2> QED BY <1>7, <2>1, <2>2
<1>9. ASSUME NEW i \in 1..k PROVE body[i] = CopyIn(names[i])
  <2>1. i \in 1 .. k + 2
    BY <1>1
  <2>2. s[i] = ins[i] /\ ins[i] = CopyIn(names[i])
    BY <1>3 DEF WithWait, StandardBody
  <2> QED BY <1>7, <2>1, <2>2
<1>10. \A i \in 1..k : /\ body[i].engine = "MTE2" /\ body[i].does = "operate"
                       /\ body[i].tensor = "none" /\ body[i].reads = {}
                       /\ body[i].writes = {names[i]}
  <2> TAKE i \in 1..k
  <2>1. body[i] = Operation("MTE2", {}, {names[i]}, "none")
    BY <1>9 DEF CopyIn
  <2> QED BY <2>1, OperationFields
<1>11. /\ body[k + 1].engine = "MTE2" /\ body[k + 1].does = "set" /\ body[k + 1].flag = "MTE2_S"
       /\ body[k + 1].reads = {} /\ body[k + 1].writes = {}
  BY <1>8, WaitsAre, FlagInstructions, FlagEngines
<1>12. /\ body[k + 2].engine = "S" /\ body[k + 2].does = "wait" /\ body[k + 2].flag = "MTE2_S"
       /\ body[k + 2].reads = {} /\ body[k + 2].writes = {}
  BY <1>8, WaitsAre, FlagInstructions, FlagEngines
<1>13. body[k + 3] = Loops(R, W)
  BY <1>7 DEF StandardBody
<1>14. /\ body[k + 3].engine = "S" /\ body[k + 3].does = "operate" /\ body[k + 3].tensor = "none"
       /\ body[k + 3].reads = R /\ body[k + 3].writes = W
  BY <1>13, OperationFields DEF Loops
<1>15. (\A i, j \in 1..k : names[i] = names[j] => i = j) /\ R = {names[i] : i \in 1..k}
  BY DEF StandardBody
<1> QED BY <1>1, <1>7, <1>10, <1>11, <1>12, <1>14, <1>15 DEF StandardPlaces

LEMMA StandardSound ==
    ASSUME NEW b, NEW names, NEW R, NEW W, NEW k, StandardPlaces(b, names, R, W, k)
    PROVE  SoundBody(b)
<1>1. k \in Nat /\ Len(b) = k + 3
  BY DEF StandardPlaces
<1>2. ASSUME NEW i \in 1..Len(b)
      PROVE  i \in 1..k \/ i = k + 1 \/ i = k + 2 \/ i = k + 3
  BY <1>1
<1>3. ASSUME NEW i \in 1..Len(b)
      PROVE  /\ b[i].engine \in Engines \ {"MTE3"} /\ b[i].does \in {"operate", "set", "wait"}
             /\ b[i].does = "operate" => b[i].tensor = "none"
             /\ b[i].does = "set" =>
                   /\ b[i].flag \in {"MTE2_S", "V_S"} /\ b[i].engine = Raiser[b[i].flag]
                   /\ i + 1 \in 1..Len(b) /\ b[i + 1].does = "wait" /\ b[i + 1].engine = "S"
                   /\ b[i + 1].flag = b[i].flag
             /\ b[i].does = "wait" =>
                   i - 1 \in 1..Len(b) /\ b[i - 1].does = "set" /\ b[i - 1].flag = b[i].flag
             /\ b[i].engine # "S" =>
                   \E a \in i..Len(b) : b[a].does = "set" /\ b[a].engine = b[i].engine
  <2>1. CASE i \in 1..k
    <3>1. k + 1 \in i..Len(b)
      BY <1>1, <2>1
    <3> QED BY <2>1, <3>1, FlagEngines DEF StandardPlaces
  <2>2. CASE i = k + 1
    <3>1. i + 1 = k + 2 /\ k + 2 \in 1..Len(b) /\ k + 1 \in i..Len(b)
      BY <1>1, <2>2
    <3> QED BY <2>2, <3>1, FlagEngines DEF StandardPlaces
  <2>3. CASE i = k + 2
    <3>1. i - 1 = k + 1 /\ k + 1 \in 1..Len(b)
      BY <1>1, <2>3
    <3> QED BY <2>3, <3>1, FlagEngines DEF StandardPlaces
  <2>4. CASE i = k + 3
    BY <2>4, FlagEngines DEF StandardPlaces
  <2> QED BY <1>2, <2>1, <2>2, <2>3, <2>4
<1>4. ASSUME NEW i \in 1..Len(b), NEW j \in 1..Len(b), i < j, b[i].does = "operate",
             b[j].does = "operate", b[i].engine # b[j].engine
      PROVE  \E a \in i + 1 .. j - 2 : b[a].does = "set" /\ b[a].engine = b[i].engine
  <2>1. i \notin {k + 1, k + 2} /\ j \notin {k + 1, k + 2}
    BY <1>4 DEF StandardPlaces
  <2>2. j \in 1..k => i \in 1..k
    BY <1>1, <1>4
  <2>3. j = k + 3 /\ i \in 1..k
    BY <1>1, <1>2, <1>4, <2>1, <2>2 DEF StandardPlaces
  <2>4. k + 1 \in i + 1 .. j - 2
    BY <1>1, <2>3
  <2> QED BY <2>3, <2>4 DEF StandardPlaces
<1>5. ASSUME NEW j \in 1..Len(b), NEW name \in b[j].reads
      PROVE  \E i \in 1 .. j - 1 :
                /\ b[i].does = "operate" /\ name \in b[i].writes
                /\ \A h \in 1 .. j - 1 : name \in b[h].writes => h <= i
  <2>1. j = k + 3
    BY <1>2 DEF StandardPlaces
  <2>2. PICK i \in 1..k : name = names[i]
    BY <2>1 DEF StandardPlaces
  <2>3. ASSUME NEW h \in 1 .. j - 1, name \in b[h].writes PROVE h <= i
    <3>1. h \in 1..Len(b) /\ h # k + 3
      BY <1>1, <2>1
    <3>2. h \in 1..k
      BY <1>2, <2>3, <3>1 DEF StandardPlaces
    <3>3. names[h] = names[i]
      BY <2>2, <2>3, <3>2 DEF StandardPlaces
    <3>4. h = i
      BY <3>2, <3>3 DEF StandardPlaces
    <3> QED BY <1>1, <3>2, <3>4
  <2>4. i \in 1 .. j - 1 /\ b[i].does = "operate" /\ name \in b[i].writes
    BY <1>1, <2>1, <2>2 DEF StandardPlaces
  <2> QED BY <2>3, <2>4
<1> QED BY <1>3, <1>4, <1>5 DEF SoundBody

LEMMA StandardCopiesOut ==
    ASSUME NEW b, NEW names, NEW R, NEW W, NEW k, StandardPlaces(b, names, R, W, k),
           NEW t, t # "none", NEW r \in W
    PROVE  CopiesOut(b, CopyOut(t, r))
<1>1. k + 3 \in 1..Len(b) /\ \A h \in 1..Len(b) : h <= k + 3
  BY DEF StandardPlaces
<1>2. b[k + 3].does = "operate" /\ r \in b[k + 3].writes
  BY DEF StandardPlaces
<1>3. PICK p : p = CopyOut(t, r)
  OBVIOUS
<1>4. p.engine = "MTE3" /\ p.does = "operate" /\ p.reads = {r} /\ p.writes = {} /\ p.tensor = t
  BY <1>3, OperationFields DEF CopyOut
<1> QED BY <1>1, <1>2, <1>3, <1>4 DEF CopiesOut

\* The instructions of a program with these operations.
Alphabet(operations) ==
    operations \cup {SetFlag(f) : f \in Flags} \cup {WaitFlag(f) : f \in Flags}

LEMMA AlphabetHas ==
    ASSUME NEW O
    PROVE  HasFlags(Alphabet(O)) /\ O \subseteq Alphabet(O)
BY DEF Alphabet, HasFlags

AllCopyOut(outs, W) ==
    \A k \in 1..Len(outs) : \E t : \E r \in W : t # "none" /\ outs[k] = CopyOut(t, r)

LEMMA StandardProgramSound ==
    ASSUME NEW d, NEW S, HasFlags(S), NEW ins \in Seq(S), NEW p \in S, NEW outs \in Seq(S),
           NEW body, NEW names, NEW R, NEW W, StandardBody(body, ins, p, names, R, W),
           Program(d) = Completed(body, outs), AllCopyOut(outs, W), NEW kern, Delivers(outs, kern)
    PROVE  Sound(d) /\ InTurn(d, kern)
<1>1. PICK k : k = Len(ins)
  OBVIOUS
<1>2. body \in Seq(S) /\ StandardPlaces(body, names, R, W, k)
  BY <1>1, StandardBodyPlaces
<1>3. SoundBody(body)
  BY <1>2, StandardSound
<1>4. ASSUME NEW n \in 1..Len(outs) PROVE CopiesOut(body, outs[n])
  <2>1. PICK t : \E r \in W : t # "none" /\ outs[n] = CopyOut(t, r)
    BY DEF AllCopyOut
  <2>2. PICK r \in W : t # "none" /\ outs[n] = CopyOut(t, r)
    BY <2>1
  <2>3. CopiesOut(body, CopyOut(t, r))
    BY <1>2, <2>2, StandardCopiesOut
  <2> QED BY <2>2, <2>3
<1>5. \E i \in 1..Len(body) : body[i].does = "operate"
  <2>1. k + 3 \in 1..Len(body) /\ body[k + 3].does = "operate"
    BY <1>2 DEF StandardPlaces
  <2> QED BY <2>1
<1> QED BY <1>2, <1>3, <1>4, <1>5, CompletedSound

\* Values, if any, and a count.
ValuesDelivered(t, u, n) ==
    t # "none" /\ u # "none" /\ u # "in" /\ <<u>> \in Tasks!OutsOf(n) /\ <<t, u>> \in Tasks!OutsOf(n)

ValuesGathered(S, W, v, outs, n) ==
    v \in Seq(S) /\ outs \in Seq(S) /\ AllCopyOut(outs, W) /\ Delivers(outs, n)

LEMMA ValuesAndCount ==
    ASSUME NEW S, NEW any \in BOOLEAN, NEW W, NEW t, NEW u,
           NEW q \in W, NEW r \in W, CopyOut(t, q) \in S, CopyOut(u, r) \in S,
           NEW v, v = Values(any, t, q), NEW outs, outs = v \o <<CopyOut(u, r)>>,
           NEW kern, ValuesDelivered(t, u, kern)
    PROVE  ValuesGathered(S, W, v, outs, kern)
<1>0. CopyOut(t, q).tensor = t /\ CopyOut(u, r).tensor = u
  BY OperationFields DEF CopyOut
<1>1. CASE any
  <2>1. v = <<CopyOut(t, q)>>
    BY <1>1 DEF Values
  <2>2. v \in Seq(S) /\ Len(v) = 1 /\ v[1] = CopyOut(t, q)
    BY <2>1
  <2>3. WithOne(S, outs, v, CopyOut(u, r))
    BY <2>2, AppendOne
  <2>4. outs \in Seq(S) /\ Len(outs) = 2 /\ outs[1] = CopyOut(t, q) /\ outs[2] = CopyOut(u, r)
    BY <2>2, <2>3 DEF WithOne
  <2>5. \A k \in 1..Len(outs) : k = 1 \/ k = 2
    BY <2>4
  <2>6. Delivers(outs, kern)
    BY <1>0, <2>4 DEF Delivers, ValuesDelivered
  <2> QED BY <2>2, <2>4, <2>5, <2>6 DEF AllCopyOut, ValuesDelivered, ValuesGathered
<1>2. CASE ~any
  <2>1. v = <<>>
    BY <1>2 DEF Values
  <2>2. v \in Seq(S) /\ Len(v) = 0
    BY <2>1
  <2>3. WithOne(S, outs, v, CopyOut(u, r))
    BY <2>2, AppendOne
  <2>4. outs \in Seq(S) /\ Len(outs) = 1 /\ outs[1] = CopyOut(u, r)
    BY <2>2, <2>3 DEF WithOne
  <2>5. \A k \in 1..Len(outs) : k = 1
    BY <2>4
  <2>6. Delivers(outs, kern)
    BY <1>0, <2>4 DEF Delivers, ValuesDelivered
  <2> QED BY <2>2, <2>4, <2>5, <2>6 DEF AllCopyOut, ValuesDelivered, ValuesGathered
<1> QED BY <1>1, <1>2

LEMMA ValuesProgramSound ==
    ASSUME NEW d, NEW any \in BOOLEAN, NEW ins, NEW p, NEW names, NEW R, NEW W,
           NEW body, StandardBody(body, ins, p, names, R, W),
           NEW O, ins \in Seq(Alphabet(O)), p \in O,
           NEW t, NEW u, NEW q \in W, NEW r \in W,
           CopyOut(t, q) \in O, CopyOut(u, r) \in O,
           Program(d) = body \o WaitScalarToMte3 \o Values(any, t, q) \o <<CopyOut(u, r)>>
                        \o WaitMte3ToScalar,
           NEW kern, ValuesDelivered(t, u, kern)
    PROVE  Sound(d) /\ InTurn(d, kern)
<1>1. PICK S : S = Alphabet(O)
  OBVIOUS
<1>2. HasFlags(S) /\ ins \in Seq(S) /\ p \in S /\ CopyOut(t, q) \in S /\ CopyOut(u, r) \in S
  BY <1>1, AlphabetHas
<1>3. PICK s : s = body \o WaitScalarToMte3
  OBVIOUS
<1>4. s \in Seq(S)
  <2>1. PICK k : k = Len(ins)
    OBVIOUS
  <2>2. body \in Seq(S)
    BY <1>2, <2>1, StandardBodyPlaces
  <2>3. s = body \o <<SetFlag("S_MTE3"), WaitFlag("S_MTE3")>> /\ "S_MTE3" \in Flags
    BY <1>3, WaitsAre
  <2>4. WithWait(S, s, body, "S_MTE3")
    BY <1>2, <2>2, <2>3, AppendWait
  <2> QED BY <2>4 DEF WithWait
<1>5. PICK v : v = Values(any, t, q)
  OBVIOUS
<1>6. PICK c : c = <<CopyOut(u, r)>>
  OBVIOUS
<1>7. PICK outs : outs = v \o c
  OBVIOUS
<1>8. v \in Seq(S) /\ outs \in Seq(S) /\ AllCopyOut(outs, W) /\ Delivers(outs, kern)
  <2>1. outs = v \o <<CopyOut(u, r)>>
    BY <1>6, <1>7
  <2>2. ValuesGathered(S, W, v, outs, kern)
    BY <1>2, <1>5, <2>1, ValuesAndCount
  <2> QED BY <2>2 DEF ValuesGathered
<1>9. (s \o v) \o c = s \o (v \o c)
  <2>1. c \in Seq(S)
    BY <1>2, <1>6
  <2> QED BY <1>4, <1>8, <2>1, ConcatAssociative
<1>10. Program(d) = Completed(body, outs)
  BY <1>3, <1>5, <1>6, <1>7, <1>9 DEF Completed
<1> QED BY <1>2, <1>8, <1>10, StandardProgramSound

LEMMA CandidateSound ==
    ASSUME NEW d, NEW any \in BOOLEAN, Program(d) = CandidateLocalProgram(any)
    PROVE  Sound(d) /\ InTurn(d, 2)
<1>1. PICK R, W : R = {"bitmapLocal", "lruLocal"} /\ W = {"valuesLocal", "countLocal"}
  OBVIOUS
<1>2. PICK p : p = Loops(R, W)
  OBVIOUS
<1>3. PICK names : names = <<"bitmapLocal", "lruLocal">>
  OBVIOUS
<1>4. PICK ins : ins = <<CopyIn("bitmapLocal"), CopyIn("lruLocal")>>
  OBVIOUS
<1>5. PICK O : O = {CopyIn("bitmapLocal"), CopyIn("lruLocal"), p,
                    CopyOut("candidateValues", "valuesLocal"),
                    CopyOut("candidateCounts", "countLocal")}
  OBVIOUS
<1>6. O \subseteq Alphabet(O)
  BY AlphabetHas
<1>7. /\ ins \in Seq(Alphabet(O)) /\ Len(ins) = 2
      /\ ins[1] = CopyIn("bitmapLocal") /\ ins[2] = CopyIn("lruLocal")
  <2>1. CopyIn("bitmapLocal") \in Alphabet(O) /\ CopyIn("lruLocal") \in Alphabet(O)
    BY <1>5, <1>6
  <2> QED BY <1>4, <2>1
<1>8. PICK body : body = ins \o WaitMte2ToScalar \o <<p>>
  OBVIOUS
<1>9. StandardBody(body, ins, p, names, R, W)
  <2>1. names[1] = "bitmapLocal" /\ names[2] = "lruLocal"
    BY <1>3
  <2>2. 1..Len(ins) = {1, 2}
    BY <1>7
  <2>3. /\ \A i \in {1, 2} : ins[i] = CopyIn(names[i])
        /\ \A i, j \in {1, 2} : names[i] = names[j] => i = j
        /\ R = {names[i] : i \in {1, 2}}
    BY <1>1, <1>7, <2>1
  <2> QED BY <1>2, <1>8, <2>2, <2>3 DEF StandardBody
<1>10. Program(d) = body \o WaitScalarToMte3 \o Values(any, "candidateValues", "valuesLocal")
                    \o <<CopyOut("candidateCounts", "countLocal")>> \o WaitMte3ToScalar
  BY <1>1, <1>2, <1>4, <1>8 DEF CandidateLocalProgram
<1>11. /\ "valuesLocal" \in W /\ "countLocal" \in W /\ p \in O
       /\ CopyOut("candidateValues", "valuesLocal") \in O
       /\ CopyOut("candidateCounts", "countLocal") \in O
  BY <1>1, <1>5
<1>12. ValuesDelivered("candidateValues", "candidateCounts", 2)
  BY DEF ValuesDelivered, Tasks!OutsOf
<1> QED BY <1>7, <1>9, <1>10, <1>11, <1>12, ValuesProgramSound

LEMMA KeepSound ==
    ASSUME NEW d, NEW any \in BOOLEAN, Program(d) = KeepProgram(any)
    PROVE  Sound(d) /\ InTurn(d, 3)
<1>1. PICK names : names = <<"bitmapLocal", "lruLocal", "hitCountLocal", "candidateCountLocal">>
  OBVIOUS
<1>2. /\ Len(names) = 4 /\ names[1] = "bitmapLocal" /\ names[2] = "lruLocal"
      /\ names[3] = "hitCountLocal" /\ names[4] = "candidateCountLocal"
  BY <1>1
<1>3. PICK R, W : R = {names[i] : i \in 1..Len(names)} /\ W = {"outputLocal", "scalarLocal"}
  OBVIOUS
<1>4. PICK p : p = Loops(R, W)
  OBVIOUS
<1>5. PICK ins : ins = [i \in 1..Len(names) |-> CopyIn(names[i])]
  OBVIOUS
<1>6. PICK O : O = {CopyIn(names[i]) : i \in 1..Len(names)} \cup
                   {p, CopyOut("keepValues", "outputLocal"), CopyOut("keepCounts", "scalarLocal")}
  OBVIOUS
<1>7. O \subseteq Alphabet(O)
  BY AlphabetHas
<1>8. ins \in Seq(Alphabet(O)) /\ Len(ins) = 4 /\ \A i \in 1..4 : ins[i] = CopyIn(names[i])
  <2>1. \A i \in 1..4 : CopyIn(names[i]) \in Alphabet(O)
    BY <1>2, <1>6, <1>7
  <2>2. ins = [i \in 1..4 |-> CopyIn(names[i])]
    BY <1>2, <1>5
  <2> QED BY <2>1, <2>2
<1>9. PICK body : body = ins \o WaitMte2ToScalar \o <<p>>
  OBVIOUS
<1>10. StandardBody(body, ins, p, names, R, W)
  <2>1. \A i, j \in 1..4 : names[i] = names[j] => i = j
    <3>1. 1..4 = {1, 2, 3, 4}
      OBVIOUS
    <3> QED BY <1>2, <3>1
  <2> QED BY <1>2, <1>3, <1>4, <1>8, <1>9, <2>1 DEF StandardBody
<1>11. Program(d) = body \o WaitScalarToMte3 \o Values(any, "keepValues", "outputLocal")
                    \o <<CopyOut("keepCounts", "scalarLocal")>> \o WaitMte3ToScalar
  BY <1>1, <1>3, <1>4, <1>5, <1>9 DEF KeepProgram
<1>12. /\ "outputLocal" \in W /\ "scalarLocal" \in W /\ p \in O
       /\ CopyOut("keepValues", "outputLocal") \in O /\ CopyOut("keepCounts", "scalarLocal") \in O
  BY <1>3, <1>6
<1>13. ValuesDelivered("keepValues", "keepCounts", 3)
  BY DEF ValuesDelivered, Tasks!OutsOf
<1> QED BY <1>8, <1>10, <1>11, <1>12, <1>13, ValuesProgramSound

LEMMA FillSound ==
    ASSUME NEW d, Program(d) = FillProgram
    PROVE  Sound(d) /\ InTurn(d, 3)
<1>1. PICK names : names = <<"hitLocal", "maskLocal", "hitCountLocal", "candidateCountLocal",
                             "candidateValueLocal">>
  OBVIOUS
<1>2. /\ Len(names) = 5 /\ names[1] = "hitLocal" /\ names[2] = "maskLocal"
      /\ names[3] = "hitCountLocal" /\ names[4] = "candidateCountLocal"
      /\ names[5] = "candidateValueLocal"
  BY <1>1
<1>3. PICK R, W : R = {names[i] : i \in 1..Len(names)} /\ W = {"outputLocal"}
  OBVIOUS
<1>4. PICK p : p = Loops(R, W)
  OBVIOUS
<1>5. PICK ins : ins = [i \in 1..Len(names) |-> CopyIn(names[i])]
  OBVIOUS
<1>6. PICK O : O = {CopyIn(names[i]) : i \in 1..Len(names)} \cup
                   {p, CopyOut("hit", "outputLocal"), CopyOut("newLru", "outputLocal")}
  OBVIOUS
<1>7. O \subseteq Alphabet(O)
  BY AlphabetHas
<1>8. ins \in Seq(Alphabet(O)) /\ Len(ins) = 5 /\ \A i \in 1..5 : ins[i] = CopyIn(names[i])
  <2>1. \A i \in 1..5 : CopyIn(names[i]) \in Alphabet(O)
    BY <1>2, <1>6, <1>7
  <2>2. ins = [i \in 1..5 |-> CopyIn(names[i])]
    BY <1>2, <1>5
  <2> QED BY <2>1, <2>2
<1>9. PICK body : body = ins \o WaitMte2ToScalar \o <<p>>
  OBVIOUS
<1>10. StandardBody(body, ins, p, names, R, W)
  <2>1. \A i, j \in 1..5 : names[i] = names[j] => i = j
    <3>1. 1..5 = {1, 2, 3, 4, 5}
      OBVIOUS
    <3> QED BY <1>2, <3>1
  <2> QED BY <1>2, <1>3, <1>4, <1>8, <1>9, <2>1 DEF StandardBody
<1>11. PICK outs : outs = <<CopyOut("hit", "outputLocal"), CopyOut("newLru", "outputLocal")>>
  OBVIOUS
<1>12. Program(d) = Completed(body, outs)
  BY <1>1, <1>3, <1>4, <1>5, <1>9, <1>11 DEF FillProgram, Completed
<1>13. CopyOut("hit", "outputLocal") \in O /\ CopyOut("newLru", "outputLocal") \in O /\ p \in O
  BY <1>6
<1>14. outs \in Seq(Alphabet(O)) /\ Len(outs) = 2 /\ outs[1] = CopyOut("hit", "outputLocal")
       /\ outs[2] = CopyOut("newLru", "outputLocal")
  BY <1>7, <1>11, <1>13
<1>15. AllCopyOut(outs, W)
  <2>1. \A k \in 1..Len(outs) : k = 1 \/ k = 2
    BY <1>14
  <2> QED BY <1>3, <1>14, <2>1 DEF AllCopyOut
<1>16. PICK S : S = Alphabet(O)
  OBVIOUS
<1>17. HasFlags(S) /\ ins \in Seq(S) /\ p \in S /\ outs \in Seq(S)
  BY <1>8, <1>13, <1>14, <1>16, AlphabetHas
<1>18. Delivers(outs, 3)
  <2>1. outs[1].tensor = "hit" /\ outs[2].tensor = "newLru"
    BY <1>14, OperationFields DEF CopyOut
  <2>2. <<"hit", "newLru">> \in Tasks!OutsOf(3)
    BY DEF Tasks!OutsOf
  <2> QED BY <1>14, <2>1, <2>2 DEF Delivers
<1> QED BY <1>10, <1>12, <1>15, <1>17, <1>18, StandardProgramSound

\* What kernel 1 does before it copies out.
HitPlaces(b) ==
    /\ Len(b) = 8
    /\ \A i \in {1, 2} : b[i].engine = "V" /\ b[i].does = "operate" /\ b[i].tensor = "none"
    /\ b[3].engine = "MTE2" /\ b[3].does = "operate" /\ b[3].tensor = "none"
    /\ b[4].engine = "MTE2" /\ b[4].does = "set" /\ b[4].flag = "MTE2_S"
    /\ b[5].engine = "S" /\ b[5].does = "wait" /\ b[5].flag = "MTE2_S"
    /\ b[6].engine = "V" /\ b[6].does = "set" /\ b[6].flag = "V_S"
    /\ b[7].engine = "S" /\ b[7].does = "wait" /\ b[7].flag = "V_S"
    /\ b[8].engine = "S" /\ b[8].does = "operate" /\ b[8].tensor = "none"
    /\ b[1].writes = {"bitmapLocal"} /\ b[2].writes = {"countLocal"} /\ b[3].writes = {"hitLocal"}
    /\ \A i \in 4..7 : b[i].writes = {}
    /\ \A i \in 1..7 : b[i].reads = {}
    /\ b[8].reads = {"hitLocal", "bitmapLocal", "countLocal"}
    /\ b[8].writes = {"bitmapLocal", "countLocal"}

LEMMA HitBodySound ==
    ASSUME NEW b, HitPlaces(b)
    PROVE  SoundBody(b)
<1>1. Len(b) = 8 /\ 1..Len(b) = {1, 2, 3, 4, 5, 6, 7, 8}
  BY DEF HitPlaces
<1>2. ASSUME NEW i \in 1..Len(b)
      PROVE  /\ b[i].engine \in Engines \ {"MTE3"} /\ b[i].does \in {"operate", "set", "wait"}
             /\ b[i].does = "operate" => b[i].tensor = "none"
             /\ b[i].does = "set" =>
                   /\ b[i].flag \in {"MTE2_S", "V_S"} /\ b[i].engine = Raiser[b[i].flag]
                   /\ i + 1 \in 1..Len(b) /\ b[i + 1].does = "wait" /\ b[i + 1].engine = "S"
                   /\ b[i + 1].flag = b[i].flag
             /\ b[i].does = "wait" =>
                   i - 1 \in 1..Len(b) /\ b[i - 1].does = "set" /\ b[i - 1].flag = b[i].flag
  <2>1. CASE i \in {1, 2, 3, 8}
    BY <2>1, FlagEngines DEF HitPlaces
  <2>2. CASE i = 4 \/ i = 6
    <3>1. (4 + 1 = 5 /\ 6 + 1 = 7) /\ 5 \in 1..Len(b) /\ 7 \in 1..Len(b)
      BY <1>1
    <3> QED BY <2>2, <3>1, FlagEngines DEF HitPlaces
  <2>3. CASE i = 5 \/ i = 7
    <3>1. (5 - 1 = 4 /\ 7 - 1 = 6) /\ 4 \in 1..Len(b) /\ 6 \in 1..Len(b)
      BY <1>1
    <3> QED BY <2>3, <3>1, FlagEngines DEF HitPlaces
  <2> QED BY <1>1, <2>1, <2>2, <2>3
<1>3. ASSUME NEW i \in 1..Len(b), b[i].engine # "S"
      PROVE  \E a \in i..Len(b) : b[a].does = "set" /\ b[a].engine = b[i].engine
  <2>1. CASE i \in {1, 2, 6}
    <3>1. 6 \in i..Len(b)
      BY <1>1, <2>1
    <3> QED BY <2>1, <3>1 DEF HitPlaces
  <2>2. CASE i \in {3, 4}
    <3>1. 4 \in i..Len(b)
      BY <1>1, <2>2
    <3> QED BY <2>2, <3>1 DEF HitPlaces
  <2> QED BY <1>1, <1>3, <2>1, <2>2 DEF HitPlaces
<1>4. ASSUME NEW i \in 1..Len(b), NEW j \in 1..Len(b), i < j, b[i].does = "operate",
             b[j].does = "operate", b[i].engine # b[j].engine, Clash(b[i], b[j])
      PROVE  \E a \in i + 1 .. j - 2 : b[a].does = "set" /\ b[a].engine = b[i].engine
  <2>1. i \in {1, 2, 3, 8} /\ j \in {1, 2, 3, 8}
    BY <1>1, <1>4 DEF HitPlaces
  <2>2. ~Clash(b[1], b[3]) /\ ~Clash(b[2], b[3])
    BY DEF HitPlaces, Clash
  <2>3. j = 8
    BY <1>4, <2>1, <2>2 DEF HitPlaces
  <2>4. CASE i \in {1, 2}
    <3>1. 6 \in i + 1 .. j - 2
      BY <2>3, <2>4
    <3> QED BY <2>4, <3>1 DEF HitPlaces
  <2>5. CASE i = 3
    <3>1. 4 \in i + 1 .. j - 2
      BY <2>3, <2>5
    <3> QED BY <2>5, <3>1 DEF HitPlaces
  <2> QED BY <1>4, <2>1, <2>3, <2>4, <2>5
<1>5. ASSUME NEW j \in 1..Len(b), NEW name \in b[j].reads
      PROVE  \E i \in 1 .. j - 1 :
                /\ b[i].does = "operate" /\ name \in b[i].writes
                /\ \A h \in 1 .. j - 1 : name \in b[h].writes => h <= i
  <2>1. j = 8
    BY <1>1 DEF HitPlaces
  <2>2. 1 .. j - 1 = {1, 2, 3, 4, 5, 6, 7}
    BY <2>1
  <2>3. ASSUME NEW h \in 1 .. j - 1
        PROVE  /\ "bitmapLocal" \in b[h].writes => h = 1
               /\ "countLocal" \in b[h].writes => h = 2
               /\ "hitLocal" \in b[h].writes => h = 3
    BY <2>2 DEF HitPlaces
  <2>4. name = "bitmapLocal" \/ name = "countLocal" \/ name = "hitLocal"
    BY <2>1 DEF HitPlaces
  <2>5. /\ b[1].does = "operate" /\ b[2].does = "operate" /\ b[3].does = "operate"
        /\ "bitmapLocal" \in b[1].writes /\ "countLocal" \in b[2].writes
        /\ "hitLocal" \in b[3].writes
    BY DEF HitPlaces
  <2>6. 1 \in 1 .. j - 1 /\ 2 \in 1 .. j - 1 /\ 3 \in 1 .. j - 1
    BY <2>1
  <2> QED BY <2>3, <2>4, <2>5, <2>6
<1> QED BY <1>2, <1>3, <1>4, <1>5 DEF SoundBody

LEMMA HitSound ==
    ASSUME NEW d, Program(d) = HitLocalProgram
    PROVE  Sound(d) /\ InTurn(d, 1)
<1>1. PICK ins : ins = <<Duplicate("bitmapLocal"), Duplicate("countLocal"), CopyIn("hitLocal")>>
  OBVIOUS
<1>2. PICK p : p = Loops({"hitLocal", "bitmapLocal", "countLocal"}, {"bitmapLocal", "countLocal"})
  OBVIOUS
<1>3. PICK outs : outs = <<CopyOut("hitBitmap", "bitmapLocal"), CopyOut("hitCounts", "countLocal")>>
  OBVIOUS
<1>4. PICK O : O = {Duplicate("bitmapLocal"), Duplicate("countLocal"), CopyIn("hitLocal"), p,
                    CopyOut("hitBitmap", "bitmapLocal"), CopyOut("hitCounts", "countLocal")}
  OBVIOUS
<1>5. PICK S : S = Alphabet(O)
  OBVIOUS
<1>6. HasFlags(S) /\ O \subseteq S
  BY <1>5, AlphabetHas
<1>7. /\ ins \in Seq(S) /\ Len(ins) = 3 /\ ins[1] = Duplicate("bitmapLocal")
      /\ ins[2] = Duplicate("countLocal") /\ ins[3] = CopyIn("hitLocal")
  <2>1. Duplicate("bitmapLocal") \in S /\ Duplicate("countLocal") \in S /\ CopyIn("hitLocal") \in S
    BY <1>4, <1>6
  <2> QED BY <1>1, <2>1
<1>8. /\ outs \in Seq(S) /\ Len(outs) = 2 /\ outs[1] = CopyOut("hitBitmap", "bitmapLocal")
      /\ outs[2] = CopyOut("hitCounts", "countLocal")
  <2>1. CopyOut("hitBitmap", "bitmapLocal") \in S /\ CopyOut("hitCounts", "countLocal") \in S
    BY <1>4, <1>6
  <2> QED BY <1>3, <2>1
<1>9. PICK s : s = ins \o <<SetFlag("MTE2_S"), WaitFlag("MTE2_S")>>
  OBVIOUS
<1>10. WithWait(S, s, ins, "MTE2_S")
  BY <1>6, <1>7, <1>9, WaitsAre, AppendWait
<1>11. /\ s \in Seq(S) /\ Len(s) = 5 /\ s[4] = SetFlag("MTE2_S") /\ s[5] = WaitFlag("MTE2_S")
       /\ s[1] = ins[1] /\ s[2] = ins[2] /\ s[3] = ins[3]
  BY <1>7, <1>10 DEF WithWait
<1>12. PICK t : t = s \o <<SetFlag("V_S"), WaitFlag("V_S")>>
  OBVIOUS
<1>13. WithWait(S, t, s, "V_S")
  BY <1>6, <1>11, <1>12, WaitsAre, AppendWait
<1>14. /\ t \in Seq(S) /\ Len(t) = 7 /\ t[6] = SetFlag("V_S") /\ t[7] = WaitFlag("V_S")
       /\ t[1] = s[1] /\ t[2] = s[2] /\ t[3] = s[3] /\ t[4] = s[4] /\ t[5] = s[5]
  BY <1>11, <1>13 DEF WithWait
<1>15. PICK body : body = t \o <<p>>
  OBVIOUS
<1>16. p \in S
  BY <1>4, <1>6
<1>17. WithOne(S, body, t, p)
  BY <1>14, <1>15, <1>16, AppendOne
<1>18. /\ body \in Seq(S) /\ Len(body) = 8 /\ body[8] = p
       /\ body[1] = t[1] /\ body[2] = t[2] /\ body[3] = t[3] /\ body[4] = t[4] /\ body[5] = t[5]
       /\ body[6] = t[6] /\ body[7] = t[7]
  BY <1>14, <1>17 DEF WithOne
<1>19. HitPlaces(body)
  <2>1. /\ body[1] = Operation("V", {}, {"bitmapLocal"}, "none")
        /\ body[2] = Operation("V", {}, {"countLocal"}, "none")
        /\ body[3] = Operation("MTE2", {}, {"hitLocal"}, "none")
        /\ body[8] = Operation("S", {"hitLocal", "bitmapLocal", "countLocal"},
                               {"bitmapLocal", "countLocal"}, "none")
    BY <1>2, <1>7, <1>11, <1>14, <1>18 DEF Duplicate, CopyIn, Loops
  <2>2. /\ body[4] = SetFlag("MTE2_S") /\ body[5] = WaitFlag("MTE2_S")
        /\ body[6] = SetFlag("V_S") /\ body[7] = WaitFlag("V_S")
    BY <1>11, <1>14, <1>18
  <2>3. /\ body[4].engine = "MTE2" /\ body[4].does = "set" /\ body[4].flag = "MTE2_S"
        /\ body[5].engine = "S" /\ body[5].does = "wait" /\ body[5].flag = "MTE2_S"
        /\ body[6].engine = "V" /\ body[6].does = "set" /\ body[6].flag = "V_S"
        /\ body[7].engine = "S" /\ body[7].does = "wait" /\ body[7].flag = "V_S"
        /\ body[4].reads = {} /\ body[5].reads = {} /\ body[6].reads = {} /\ body[7].reads = {}
        /\ body[4].writes = {} /\ body[5].writes = {} /\ body[6].writes = {}
        /\ body[7].writes = {}
    BY <2>2, WaitsAre, FlagInstructions, FlagEngines
  <2>4. \A i \in {1, 2} : body[i].engine = "V" /\ body[i].does = "operate" /\ body[i].tensor = "none"
    BY <2>1, OperationFields
  <2>5. /\ body[3].engine = "MTE2" /\ body[3].does = "operate" /\ body[3].tensor = "none"
        /\ body[8].engine = "S" /\ body[8].does = "operate" /\ body[8].tensor = "none"
    BY <2>1, OperationFields
  <2>6. /\ body[1].writes = {"bitmapLocal"} /\ body[2].writes = {"countLocal"}
        /\ body[3].writes = {"hitLocal"} /\ body[8].writes = {"bitmapLocal", "countLocal"}
        /\ body[1].reads = {} /\ body[2].reads = {} /\ body[3].reads = {}
        /\ body[8].reads = {"hitLocal", "bitmapLocal", "countLocal"}
    BY <2>1, OperationFields
  <2>7. 4..7 = {4, 5, 6, 7} /\ 1..7 = {1, 2, 3, 4, 5, 6, 7}
    OBVIOUS
  <2> QED BY <1>18, <2>3, <2>4, <2>5, <2>6, <2>7 DEF HitPlaces
<1>20. ASSUME NEW k \in 1..Len(outs) PROVE CopiesOut(body, outs[k])
  <2>1. PICK u, r : u \in {"hitBitmap", "hitCounts"} /\ r \in {"bitmapLocal", "countLocal"}
                    /\ outs[k] = CopyOut(u, r)
    <3>1. k = 1 \/ k = 2
      BY <1>8
    <3> QED BY <1>8, <3>1
  <2>2. /\ outs[k].engine = "MTE3" /\ outs[k].does = "operate" /\ outs[k].reads = {r}
        /\ outs[k].writes = {} /\ outs[k].tensor = u
    BY <2>1, OperationFields DEF CopyOut
  <2>3. 8 \in 1..Len(body) /\ body[8].does = "operate" /\ r \in body[8].writes
        /\ \A h \in 1..Len(body) : h <= 8
    BY <1>18, <1>19, <2>1 DEF HitPlaces
  <2>4. u # "none"
    BY <2>1
  <2> QED BY <2>2, <2>3, <2>4 DEF CopiesOut
<1>21. Program(d) = Completed(body, outs)
  BY <1>1, <1>2, <1>3, <1>9, <1>12, <1>15, WaitsAre DEF HitLocalProgram, Completed
<1>22. Delivers(outs, 1)
  <2>1. outs[1].tensor = "hitBitmap" /\ outs[2].tensor = "hitCounts"
    BY <1>8, OperationFields DEF CopyOut
  <2>2. <<"hitBitmap", "hitCounts">> \in Tasks!OutsOf(1)
    BY DEF Tasks!OutsOf
  <2> QED BY <1>8, <2>1, <2>2 DEF Delivers
<1>23. \E i \in 1..Len(body) : body[i].does = "operate"
  <2>1. 8 \in 1..Len(body) /\ body[8].does = "operate"
    BY <1>18, <1>19 DEF HitPlaces
  <2> QED BY <2>1
<1> QED BY <1>6, <1>8, <1>18, <1>19, <1>20, <1>21, <1>22, <1>23, HitBodySound, CompletedSound

\* A program that copies nothing out and in which the scalar unit writes nothing.
LEMMA BodyAloneSound ==
    ASSUME NEW d, NEW b, Program(d) = b, SoundBody(b), Len(b) \in Nat \ {0},
           \A i \in 1..Len(b) : b[i].engine = "S" => b[i].writes = {}
    PROVE  Sound(d)
<1>1. Formed(d)
  BY FlagEngines DEF SoundBody, Formed, EngineOf, Does
<1>2. Paired(d)
  BY FlagEngines DEF SoundBody, Paired, EngineOf, Does
<1>3. Reused(d)
  BY FlagEngines DEF SoundBody, Reused, Sets, Does
<1>4. Closed(d)
  BY DEF SoundBody, Closed, EngineOf, Does
<1>5. Ordered(d)
  BY DEF SoundBody, Ordered, IsOperation, Awaits, EngineOf, Does
<1>6. Sourced(d)
  <2> SUFFICES ASSUME NEW j \in 1..Len(b), NEW name \in b[j].reads
               PROVE  \E i \in 1 .. j - 1 :
                         /\ IsOperation(d, i) /\ name \in b[i].writes
                         /\ \A h \in 1 .. j - 1 : name \in b[h].writes => h <= i
    BY DEF Sourced
  <2>3. \A k \in 1..Len(b) : \A r \in b[k].reads :
           \E i \in 1 .. k - 1 :
              /\ b[i].does = "operate" /\ r \in b[i].writes
              /\ \A h \in 1 .. k - 1 : r \in b[h].writes => h <= i
    BY DEF SoundBody
  <2>1. PICK i \in 1 .. j - 1 :
           /\ b[i].does = "operate" /\ name \in b[i].writes
           /\ \A h \in 1 .. j - 1 : name \in b[h].writes => h <= i
    BY <2>3, Zenon
  <2>2. i \in 1..Len(b)
    OBVIOUS
  <2> QED BY <2>1, <2>2 DEF IsOperation, Does
<1> QED BY <1>1, <1>2, <1>3, <1>4, <1>5, <1>6 DEF Sound

\* What kernel 4 does with a tile of survivors before it copies out.
ScanPlaces(b) ==
    /\ Len(b) = 7
    /\ \A i \in {1, 5} : /\ b[i].engine = "MTE2" /\ b[i].does = "operate"
                         /\ b[i].tensor = "none" /\ b[i].reads = {}
    /\ b[1].writes = {"countLocal"} /\ b[5].writes = {"valuesLocal"}
    /\ \A i \in {2, 6} : b[i].engine = "MTE2" /\ b[i].does = "set" /\ b[i].flag = "MTE2_S"
    /\ \A i \in {3, 7} : b[i].engine = "S" /\ b[i].does = "wait" /\ b[i].flag = "MTE2_S"
    /\ \A i \in {2, 3, 6, 7} : b[i].reads = {} /\ b[i].writes = {}
    /\ b[4].engine = "S" /\ b[4].does = "operate" /\ b[4].tensor = "none"
    /\ b[4].reads = {"countLocal"} /\ b[4].writes = {}

LEMMA ScanBodySound ==
    ASSUME NEW b, ScanPlaces(b)
    PROVE  SoundBody(b)
<1>1. Len(b) = 7 /\ 1..Len(b) = {1, 2, 3, 4, 5, 6, 7}
  BY DEF ScanPlaces
<1>2. ASSUME NEW i \in 1..Len(b)
      PROVE  /\ b[i].engine \in Engines \ {"MTE3"} /\ b[i].does \in {"operate", "set", "wait"}
             /\ b[i].does = "operate" => b[i].tensor = "none"
             /\ b[i].does = "set" =>
                   /\ b[i].flag \in {"MTE2_S", "V_S"} /\ b[i].engine = Raiser[b[i].flag]
                   /\ i + 1 \in 1..Len(b) /\ b[i + 1].does = "wait" /\ b[i + 1].engine = "S"
                   /\ b[i + 1].flag = b[i].flag
             /\ b[i].does = "wait" =>
                   i - 1 \in 1..Len(b) /\ b[i - 1].does = "set" /\ b[i - 1].flag = b[i].flag
  <2>1. CASE i \in {1, 4, 5}
    BY <2>1, FlagEngines DEF ScanPlaces
  <2>2. CASE i = 2 \/ i = 6
    <3>1. (2 + 1 = 3 /\ 6 + 1 = 7) /\ 3 \in 1..Len(b) /\ 7 \in 1..Len(b)
      BY <1>1
    <3> QED BY <2>2, <3>1, FlagEngines DEF ScanPlaces
  <2>3. CASE i = 3 \/ i = 7
    <3>1. (3 - 1 = 2 /\ 7 - 1 = 6) /\ 2 \in 1..Len(b) /\ 6 \in 1..Len(b)
      BY <1>1
    <3> QED BY <2>3, <3>1, FlagEngines DEF ScanPlaces
  <2> QED BY <1>1, <2>1, <2>2, <2>3
<1>3. ASSUME NEW i \in 1..Len(b), b[i].engine # "S"
      PROVE  \E a \in i..Len(b) : b[a].does = "set" /\ b[a].engine = b[i].engine
  <2>1. i \in {1, 2, 5, 6}
    BY <1>1, <1>3 DEF ScanPlaces
  <2>2. 6 \in i..Len(b)
    BY <1>1, <2>1
  <2> QED BY <2>1, <2>2 DEF ScanPlaces
<1>4. ASSUME NEW i \in 1..Len(b), NEW j \in 1..Len(b), i < j, b[i].does = "operate",
             b[j].does = "operate", b[i].engine # b[j].engine, Clash(b[i], b[j])
      PROVE  \E a \in i + 1 .. j - 2 : b[a].does = "set" /\ b[a].engine = b[i].engine
  <2>1. i \in {1, 4, 5} /\ j \in {1, 4, 5}
    BY <1>1, <1>4 DEF ScanPlaces
  <2>2. ~Clash(b[4], b[5])
    BY DEF ScanPlaces, Clash
  <2>3. i = 1 /\ j = 4
    BY <1>4, <2>1, <2>2 DEF ScanPlaces
  <2>4. 2 \in i + 1 .. j - 2
    BY <2>3
  <2> QED BY <2>3, <2>4 DEF ScanPlaces
<1>5. ASSUME NEW j \in 1..Len(b), NEW name \in b[j].reads
      PROVE  \E i \in 1 .. j - 1 :
                /\ b[i].does = "operate" /\ name \in b[i].writes
                /\ \A h \in 1 .. j - 1 : name \in b[h].writes => h <= i
  <2>1. j = 4 /\ name = "countLocal"
    BY <1>1 DEF ScanPlaces
  <2>2. 1 .. j - 1 = {1, 2, 3}
    BY <2>1
  <2>3. ASSUME NEW h \in 1 .. j - 1, name \in b[h].writes PROVE h <= 1
    BY <2>1, <2>2, <2>3 DEF ScanPlaces
  <2>4. 1 \in 1 .. j - 1 /\ b[1].does = "operate" /\ name \in b[1].writes
    BY <2>1 DEF ScanPlaces
  <2> QED BY <2>3, <2>4
<1> QED BY <1>2, <1>3, <1>4, <1>5 DEF SoundBody

\* The first instructions of kernel 4.
LEMMA ScanBegins ==
    ASSUME NEW S, HasFlags(S), CopyIn("countLocal") \in S, Loops({"countLocal"}, {}) \in S, NEW x,
           x = <<CopyIn("countLocal")>> \o WaitMte2ToScalar \o <<Loops({"countLocal"}, {})>>
    PROVE  /\ x \in Seq(S) /\ Len(x) = 4 /\ x[1] = CopyIn("countLocal")
           /\ x[2] = SetFlag("MTE2_S") /\ x[3] = WaitFlag("MTE2_S")
           /\ x[4] = Loops({"countLocal"}, {})
<1>1. PICK ins : ins = <<CopyIn("countLocal")>>
  OBVIOUS
<1>2. ins \in Seq(S) /\ Len(ins) = 1 /\ ins[1] = CopyIn("countLocal")
  BY <1>1
<1>3. PICK s : s = ins \o <<SetFlag("MTE2_S"), WaitFlag("MTE2_S")>>
  OBVIOUS
<1>4. WithWait(S, s, ins, "MTE2_S")
  BY <1>2, <1>3, WaitsAre, AppendWait
<1>5. /\ s \in Seq(S) /\ Len(s) = 3 /\ s[1] = CopyIn("countLocal")
      /\ s[2] = SetFlag("MTE2_S") /\ s[3] = WaitFlag("MTE2_S")
  BY <1>2, <1>4 DEF WithWait
<1>6. x = s \o <<Loops({"countLocal"}, {})>>
  BY <1>1, <1>3, WaitsAre
<1>7. WithOne(S, x, s, Loops({"countLocal"}, {}))
  BY <1>5, <1>6, AppendOne
<1> QED BY <1>5, <1>7 DEF WithOne

LEMMA EmptyScanSound ==
    ASSUME NEW d, Program(d) = ScanProgram(FALSE)
    PROVE  Sound(d) /\ InTurn(d, 4)
<1>1. PICK O : O = {CopyIn("countLocal"), Loops({"countLocal"}, {})}
  OBVIOUS
<1>2. PICK S : S = Alphabet(O)
  OBVIOUS
<1>3. HasFlags(S) /\ CopyIn("countLocal") \in S /\ Loops({"countLocal"}, {}) \in S
  BY <1>1, <1>2, AlphabetHas
<1>4. PICK x : x = <<CopyIn("countLocal")>> \o WaitMte2ToScalar \o <<Loops({"countLocal"}, {})>>
  OBVIOUS
<1>5. /\ x \in Seq(S) /\ Len(x) = 4 /\ x[1] = CopyIn("countLocal")
      /\ x[2] = SetFlag("MTE2_S") /\ x[3] = WaitFlag("MTE2_S")
      /\ x[4] = Loops({"countLocal"}, {})
  BY <1>3, <1>4, ScanBegins
<1>6. Program(d) = x \o <<>>
  BY <1>4 DEF ScanProgram
<1>7. x \o <<>> = x
  BY <1>5, ConcatEmptySeq
<1>8. PICK names : names = <<"countLocal">>
  OBVIOUS
<1>9. StandardPlaces(x, names, {"countLocal"}, {}, 1)
  <2>1. /\ x[1] = Operation("MTE2", {}, {"countLocal"}, "none")
        /\ x[4] = Operation("S", {"countLocal"}, {}, "none")
    BY <1>5 DEF CopyIn, Loops
  <2>2. /\ x[1].engine = "MTE2" /\ x[1].does = "operate" /\ x[1].tensor = "none"
        /\ x[1].reads = {} /\ x[1].writes = {"countLocal"}
        /\ x[4].engine = "S" /\ x[4].does = "operate" /\ x[4].tensor = "none"
        /\ x[4].reads = {"countLocal"} /\ x[4].writes = {}
    BY <2>1, OperationFields
  <2>3. /\ x[2].engine = "MTE2" /\ x[2].does = "set" /\ x[2].flag = "MTE2_S"
        /\ x[3].engine = "S" /\ x[3].does = "wait" /\ x[3].flag = "MTE2_S"
        /\ x[2].reads = {} /\ x[2].writes = {} /\ x[3].reads = {} /\ x[3].writes = {}
    BY <1>5, WaitsAre, FlagInstructions, FlagEngines
  <2>4. 1..1 = {1} /\ names[1] = "countLocal" /\ 1 + 1 = 2 /\ 1 + 2 = 3 /\ 1 + 3 = 4
    BY <1>8
  <2>5. {"countLocal"} = {names[i] : i \in 1..1}
    BY <2>4
  <2> QED BY <1>5, <2>2, <2>3, <2>4, <2>5 DEF StandardPlaces
<1>10. SoundBody(x)
  BY <1>9, StandardSound
<1>11. \A i \in 1..Len(x) : x[i].engine = "S" => x[i].writes = {}
  <2>1. 1..Len(x) = {1, 2, 3, 4} /\ 1..1 = {1} /\ 1 + 1 = 2 /\ 1 + 2 = 3 /\ 1 + 3 = 4
    BY <1>5
  <2> QED BY <1>9, <2>1 DEF StandardPlaces
<1>12. OperationsOf(d) \ CopyOutsOf(d) # {} /\ CopyOutsOf(d) = {}
  <2>1. Program(d) = x
    BY <1>6, <1>7
  <2>2. 4 \in 1..Len(x) /\ x[4].does = "operate"
    BY <1>5, <1>9 DEF StandardPlaces
  <2>3. \A i \in 1..Len(x) : x[i].does = "operate" => x[i].tensor = "none"
    BY <1>10 DEF SoundBody
  <2> QED BY <2>1, <2>2, <2>3 DEF OperationsOf, CopyOutsOf
<1>13. InTurn(d, 4)
  <2>1. <<>> \in Tasks!OutsOf(4)
    BY DEF Tasks!OutsOf
  <2> QED BY <1>12, <2>1 DEF InTurn
<1> QED BY <1>5, <1>6, <1>7, <1>10, <1>11, <1>13, BodyAloneSound

Associates(x, y, z) == (x \o y) \o z = x \o (y \o z)

LEMMA ConcatAssociates ==
    ASSUME NEW S, NEW x \in Seq(S), NEW y \in Seq(S), NEW z \in Seq(S)
    PROVE  y \o z \in Seq(S) /\ Associates(x, y, z)
<1>1. y \o z \in Seq(S)
  OBVIOUS
<1>2. (x \o y) \o z = x \o (y \o z)
  BY ConcatAssociative
<1> QED BY <1>1, <1>2 DEF Associates

LEMMA ScanSound ==
    ASSUME NEW d, Program(d) = ScanProgram(TRUE)
    PROVE  Sound(d) /\ InTurn(d, 4)
<1>1. PICK O : O = {CopyIn("countLocal"), Loops({"countLocal"}, {}), CopyIn("valuesLocal"),
                    CopyOut("newLru", "valuesLocal")}
  OBVIOUS
<1>2. PICK S : S = Alphabet(O)
  OBVIOUS
<1>3. /\ HasFlags(S) /\ CopyIn("countLocal") \in S /\ Loops({"countLocal"}, {}) \in S
      /\ CopyIn("valuesLocal") \in S /\ CopyOut("newLru", "valuesLocal") \in S
  BY <1>1, <1>2, AlphabetHas
<1>4. PICK x : x = <<CopyIn("countLocal")>> \o WaitMte2ToScalar \o <<Loops({"countLocal"}, {})>>
  OBVIOUS
<1>5. /\ x \in Seq(S) /\ Len(x) = 4 /\ x[1] = CopyIn("countLocal")
      /\ x[2] = SetFlag("MTE2_S") /\ x[3] = WaitFlag("MTE2_S")
      /\ x[4] = Loops({"countLocal"}, {})
  BY <1>3, <1>4, ScanBegins
<1>6. PICK in, out : in = <<CopyIn("valuesLocal")>> /\ out = <<CopyOut("newLru", "valuesLocal")>>
  OBVIOUS
<1>7. /\ in \in Seq(S) /\ out \in Seq(S) /\ Len(out) = 1
      /\ out[1] = CopyOut("newLru", "valuesLocal")
  BY <1>3, <1>6
<1>8. PICK wm, ws, we : wm = WaitMte2ToScalar /\ ws = WaitScalarToMte3 /\ we = WaitMte3ToScalar
  OBVIOUS
<1>9. wm \in Seq(S) /\ ws \in Seq(S) /\ we \in Seq(S)
  <2>1. \A f \in Flags : SetFlag(f) \in S /\ WaitFlag(f) \in S
    BY <1>3 DEF HasFlags
  <2>2. /\ SetFlag("MTE2_S") \in S /\ WaitFlag("MTE2_S") \in S
        /\ SetFlag("S_MTE3") \in S /\ WaitFlag("S_MTE3") \in S
        /\ SetFlag("MTE3_S") \in S /\ WaitFlag("MTE3_S") \in S
    BY <2>1, WaitsAre
  <2> QED BY <1>8, <2>2, WaitsAre
<1>10. Program(d) = x \o (in \o wm \o ws \o out \o we)
  BY <1>4, <1>6, <1>8 DEF ScanProgram
<1>11. PICK y : y = x \o in
  OBVIOUS
<1>12. WithOne(S, y, x, CopyIn("valuesLocal"))
  <2>1. y = x \o <<CopyIn("valuesLocal")>>
    BY <1>6, <1>11
  <2> QED BY <1>3, <1>5, <2>1, AppendOne
<1>13. /\ y \in Seq(S) /\ Len(y) = 5 /\ y[5] = CopyIn("valuesLocal")
       /\ y[1] = x[1] /\ y[2] = x[2] /\ y[3] = x[3] /\ y[4] = x[4]
  BY <1>5, <1>12 DEF WithOne
<1>14. PICK body : body = y \o wm
  OBVIOUS
<1>15. WithWait(S, body, y, "MTE2_S")
  <2>1. body = y \o <<SetFlag("MTE2_S"), WaitFlag("MTE2_S")>> /\ "MTE2_S" \in Flags
    BY <1>8, <1>14, WaitsAre
  <2> QED BY <1>3, <1>13, <2>1, AppendWait
<1>16. /\ body \in Seq(S) /\ Len(body) = 7
       /\ body[6] = SetFlag("MTE2_S") /\ body[7] = WaitFlag("MTE2_S")
       /\ body[1] = y[1] /\ body[2] = y[2] /\ body[3] = y[3] /\ body[4] = y[4] /\ body[5] = y[5]
  BY <1>13, <1>15 DEF WithWait
<1>17. x \o (in \o wm \o ws \o out \o we) = body \o ws \o out \o we
  <2>1. /\ x \in Seq(S) /\ in \in Seq(S) /\ wm \in Seq(S) /\ ws \in Seq(S) /\ out \in Seq(S)
        /\ we \in Seq(S)
    BY <1>5, <1>7, <1>9
  <2>2. in \o wm \in Seq(S) /\ Associates(x, in, wm)
    BY <2>1, ConcatAssociates
  <2>3. (in \o wm) \o ws \in Seq(S) /\ Associates(x, in \o wm, ws)
    BY <2>1, <2>2, ConcatAssociates
  <2>4. ((in \o wm) \o ws) \o out \in Seq(S) /\ Associates(x, (in \o wm) \o ws, out)
    BY <2>1, <2>3, ConcatAssociates
  <2>5. Associates(x, ((in \o wm) \o ws) \o out, we)
    BY <2>1, <2>4, ConcatAssociates
  <2> QED BY <1>11, <1>14, <2>2, <2>3, <2>4, <2>5 DEF Associates
<1>18. Program(d) = Completed(body, out)
  BY <1>8, <1>10, <1>17 DEF Completed
<1>19. ScanPlaces(body)
  <2>1. /\ body[1] = Operation("MTE2", {}, {"countLocal"}, "none")
        /\ body[4] = Operation("S", {"countLocal"}, {}, "none")
        /\ body[5] = Operation("MTE2", {}, {"valuesLocal"}, "none")
    BY <1>5, <1>13, <1>16 DEF CopyIn, Loops
  <2>2. /\ body[2] = SetFlag("MTE2_S") /\ body[3] = WaitFlag("MTE2_S")
        /\ body[6] = SetFlag("MTE2_S") /\ body[7] = WaitFlag("MTE2_S")
    BY <1>5, <1>13, <1>16
  <2>3. /\ \A i \in {1, 5} : /\ body[i].engine = "MTE2" /\ body[i].does = "operate"
                             /\ body[i].tensor = "none" /\ body[i].reads = {}
        /\ body[1].writes = {"countLocal"} /\ body[5].writes = {"valuesLocal"}
        /\ body[4].engine = "S" /\ body[4].does = "operate" /\ body[4].tensor = "none"
        /\ body[4].reads = {"countLocal"} /\ body[4].writes = {}
    BY <2>1, OperationFields
  <2>4. /\ \A i \in {2, 6} : /\ body[i].engine = "MTE2" /\ body[i].does = "set"
                             /\ body[i].flag = "MTE2_S"
        /\ \A i \in {3, 7} : /\ body[i].engine = "S" /\ body[i].does = "wait"
                             /\ body[i].flag = "MTE2_S"
        /\ \A i \in {2, 3, 6, 7} : body[i].reads = {} /\ body[i].writes = {}
    BY <2>2, WaitsAre, FlagInstructions, FlagEngines
  <2> QED BY <1>16, <2>3, <2>4 DEF ScanPlaces
<1>20. CopiesOut(body, out[1])
  <2>1. /\ out[1].engine = "MTE3" /\ out[1].does = "operate" /\ out[1].reads = {"valuesLocal"}
        /\ out[1].writes = {} /\ out[1].tensor = "newLru"
    BY <1>7, OperationFields DEF CopyOut
  <2>2. 5 \in 1..Len(body) /\ body[5].does = "operate" /\ "valuesLocal" \in body[5].writes
    BY <1>16, <1>19 DEF ScanPlaces
  <2>3. ASSUME NEW h \in 1..Len(body), "valuesLocal" \in body[h].writes PROVE h <= 5
    <3>1. 1..Len(body) = {1, 2, 3, 4, 5, 6, 7}
      BY <1>16
    <3> QED BY <1>19, <2>3, <3>1 DEF ScanPlaces
  <2> QED BY <2>1, <2>2, <2>3 DEF CopiesOut
<1>21. \A k \in 1..Len(out) : CopiesOut(body, out[k])
  <2>1. \A k \in 1..Len(out) : k = 1
    BY <1>7
  <2> QED BY <1>20, <2>1
<1>22. Delivers(out, 4)
  <2>1. out[1].tensor = "newLru"
    BY <1>7, OperationFields DEF CopyOut
  <2>2. <<"newLru">> \in Tasks!OutsOf(4)
    BY DEF Tasks!OutsOf
  <2> QED BY <1>7, <2>1, <2>2 DEF Delivers
<1>23. \E i \in 1..Len(body) : body[i].does = "operate"
  <2>1. 5 \in 1..Len(body) /\ body[5].does = "operate"
    BY <1>16, <1>19 DEF ScanPlaces
  <2> QED BY <2>1
<1> QED BY <1>3, <1>7, <1>16, <1>18, <1>19, <1>21, <1>22, <1>23, ScanBodySound, CompletedSound

LEMMA ProgramsInTurn == \A n \in 1..4 : \A d \in Kinds(n) : Sound(d) /\ InTurn(d, n)
<1> SUFFICES ASSUME NEW n \in 1..4, NEW d \in Kinds(n) PROVE Sound(d) /\ InTurn(d, n)
  OBVIOUS
<1>2. CASE n = 1
  <2>1. d.layout = "hitLocal"
    BY <1>2 DEF Kinds
  <2> QED BY <1>2, <2>1, HitSound DEF Program
<1>3. CASE n = 2
  <2>1. d.layout = "candidateLocal" /\ d.any \in BOOLEAN
    BY <1>3 DEF Kinds
  <2>2. Program(d) = CandidateLocalProgram(d.any)
    BY <2>1 DEF Program
  <2> QED BY <1>3, <2>1, <2>2, CandidateSound
<1>4. CASE n = 3
  <2>1. Kinds(3) = {[layout |-> "fill", any |-> TRUE]} \cup [layout : {"keep"}, any : BOOLEAN]
    BY DEF Kinds
  <2>2. CASE d = [layout |-> "fill", any |-> TRUE]
    <3>1. Program(d) = FillProgram
      BY <2>2 DEF Program
    <3> QED BY <1>4, <3>1, FillSound
  <2>3. CASE d \in [layout : {"keep"}, any : BOOLEAN]
    <3>1. d.layout = "keep" /\ d.any \in BOOLEAN
      BY <2>3
    <3>2. Program(d) = KeepProgram(d.any)
      BY <3>1 DEF Program
    <3> QED BY <1>4, <3>1, <3>2, KeepSound
  <2> QED BY <1>4, <2>1, <2>2, <2>3
<1>5. CASE n = 4
  <2>1. d.layout = "keepWrite" /\ d.any \in BOOLEAN
    BY <1>5 DEF Kinds
  <2>2. Program(d) = ScanProgram(d.any)
    BY <2>1 DEF Program
  <2>3. d.any = TRUE \/ d.any = FALSE
    BY <2>1
  <2>4. d.any = TRUE => Program(d) = ScanProgram(TRUE)
    BY <2>2
  <2>5. d.any = FALSE => Program(d) = ScanProgram(FALSE)
    BY <2>2
  <2> QED BY <1>5, <2>3, <2>4, <2>5, EmptyScanSound, ScanSound
<1> QED BY <1>2, <1>3, <1>4, <1>5

LEMMA ProgramsSound == \A d \in AllKinds : Sound(d)
BY ProgramsInTurn DEF AllKinds

LEMMA KindFacts ==
    ASSUME Shapes
    PROVE  /\ kind \in AllKinds /\ Sound(kind) /\ Len(Program(kind)) \in Nat \ {0}
           /\ pc \in Nat \ {0} /\ task \in Nat \ {0} /\ TaskLimit \in Nat
<1>1. kind \in AllKinds
  BY DEF Shapes, AllKinds
<1>2. Sound(kind)
  BY <1>1, ProgramsSound
<1> QED BY <1>1, <1>2, TaskLimitAssumption DEF Sound, Formed, Shapes

------------------------------------------------------------------------------
\* Steps that give an engine its next instruction, and steps that take one.

LEMMA IssueQueues ==
    ASSUME Shapes, QueuesInOrder, Issue
    PROVE  /\ queue' \in [Others -> Seq(Entries)] /\ Taken' = Taken /\ QueuesInOrder'
           /\ pc \in 1..Len(Program(kind)) /\ pc' = pc + 1 /\ task <= TaskLimit
<1>1. /\ kind \in AllKinds /\ Sound(kind) /\ Len(Program(kind)) \in Nat
      /\ pc \in Nat \ {0} /\ task \in Nat \ {0} /\ TaskLimit \in Nat
  BY KindFacts
<1>2. PICK e : e = EngineOf(kind, pc)
  OBVIOUS
<1>3. /\ task <= TaskLimit /\ pc <= Len(Program(kind)) /\ e # "S" /\ pc' = pc + 1
      /\ queue' = [queue EXCEPT ![e] = Append(@, At(pc))]
      /\ task' = task /\ kind' = kind
  BY <1>2 DEF Issue, HasIssue, Current, Instruction, EngineOf, At
<1>4. pc \in 1..Len(Program(kind))
  BY <1>1, <1>3
<1>5. e \in Others
  BY <1>1, <1>2, <1>3, <1>4 DEF Sound, Formed, Others
<1>6. At(pc) \in Entries /\ At(pc).at = pc
  BY <1>1, <1>3 DEF At, Entries
<1>7. PICK q : q = queue[e]
  OBVIOUS
<1>8. q \in Seq(Entries) /\ Increasing(q) /\ \A n \in 1..Len(q) : q[n].at < pc
  <2>1. QueueInOrder(e)
    BY <1>5 DEF QueuesInOrder
  <2>2. \A n \in 1..Len(q) : q[n].at \in 1 .. pc - 1
    BY <1>7, <2>1 DEF QueueInOrder
  <2> QED BY <1>1, <1>5, <1>7, <2>1, <2>2 DEF QueueInOrder, Shapes
<1>9. PICK r : r = Append(q, At(pc))
  OBVIOUS
<1>10. /\ r \in Seq(Entries) /\ Increasing(r) /\ Positions(r) = Positions(q) \cup {pc}
       /\ \A n \in 1..Len(r) : r[n] = At(pc) \/ \E m \in 1..Len(q) : r[n] = q[m]
  BY <1>6, <1>8, <1>9, QueueGrows
<1>11. queue'[e] = r /\ \A f \in Others : f # e => queue'[f] = queue[f]
  BY <1>3, <1>5, <1>7, <1>9 DEF Shapes
<1>12. queue' \in [Others -> Seq(Entries)]
  BY <1>3, <1>5, <1>7, <1>9, <1>10 DEF Shapes
<1>13. \A i \in 1..Len(Program(kind)) : EngineOf(kind, i) \in Engines
  BY <1>1 DEF Sound, Formed
<1>14. Taken' = Taken
  <2>1. ASSUME NEW i \in 1 .. pc - 1, EngineOf(kind, i) # "S"
        PROVE  i \in Positions(queue'[EngineOf(kind, i)]) <=> i \in Positions(queue[EngineOf(kind, i)])
    <3>1. EngineOf(kind, i) \in Others /\ i # pc
      BY <1>1, <1>3, <1>13, <2>1 DEF Others
    <3> QED BY <1>7, <1>10, <1>11, <3>1
  <2>2. pc \in Positions(queue'[EngineOf(kind, pc)]) /\ EngineOf(kind, pc) # "S"
    BY <1>2, <1>3, <1>10, <1>11
  <2>3. \A i : i \in 1 .. pc' - 1 <=> i \in 1 .. pc - 1 \/ i = pc
    BY <1>1, <1>3
  <2> QED BY <1>3, <2>1, <2>2, <2>3 DEF Taken
<1>15. ASSUME NEW f \in Others PROVE QueueInOrder(f)'
  <2>1. QueueInOrder(f)
    BY DEF QueuesInOrder
  <2>2. \A i : At(i)' = At(i)
    BY <1>3 DEF At
  <2>3. \A i \in 1 .. pc' - 1 : i \in 1 .. pc - 1 \/ i = pc
    BY <1>1, <1>3
  <2>4. \A i \in 1 .. pc' - 1, j \in Taken' :
           EngineOf(kind, i) = f /\ EngineOf(kind, j) = f /\ i < j => i \in Taken'
    <3> SUFFICES ASSUME NEW i \in 1 .. pc' - 1, NEW j \in Taken,
                        EngineOf(kind, i) = f, EngineOf(kind, j) = f, i < j
                 PROVE  i \in Taken
      BY <1>14
    <3>1. i # pc
      BY <1>1 DEF Taken
    <3> QED BY <2>1, <2>3, <3>1 DEF QueueInOrder
  <2>5. Increasing(queue'[f])
    BY <1>10, <1>11, <2>1 DEF QueueInOrder
  <2>6. ASSUME NEW n \in 1..Len(queue'[f])
        PROVE  /\ queue'[f][n] = At(queue'[f][n].at)
               /\ queue'[f][n].at \in 1 .. pc' - 1 /\ EngineOf(kind, queue'[f][n].at) = f
    <3>1. ASSUME NEW m \in 1..Len(queue[f]), queue'[f][n] = queue[f][m]
          PROVE  /\ queue'[f][n] = At(queue'[f][n].at)
                 /\ queue'[f][n].at \in 1 .. pc' - 1 /\ EngineOf(kind, queue'[f][n].at) = f
      <4>1. /\ queue[f][m] = At(queue[f][m].at)
            /\ queue[f][m].at \in 1 .. pc - 1 /\ EngineOf(kind, queue[f][m].at) = f
        BY <2>1, <3>1 DEF QueueInOrder
      <4> QED BY <1>1, <1>3, <3>1, <4>1
    <3>2. CASE f = e /\ r[n] = At(pc)
      <4>1. queue'[f][n] = At(pc)
        BY <1>11, <3>2
      <4> QED BY <1>1, <1>2, <1>3, <1>6, <3>2, <4>1
    <3>3. CASE f # e
      BY <1>11, <3>1, <3>3
    <3> QED BY <1>7, <1>10, <1>11, <3>1, <3>2, <3>3
  <2> QED BY <1>3, <2>2, <2>4, <2>5, <2>6 DEF QueueInOrder
<1> QED BY <1>3, <1>4, <1>12, <1>14, <1>15 DEF QueuesInOrder

\* Engine e takes instruction x, its next one.
Takes(e, x) ==
    /\ x \in 1..Len(Program(kind)) /\ NextOf(e) = At(x) /\ EngineOf(kind, x) = e
    /\ IF e = "S" THEN x = pc ELSE x < pc
    /\ x \notin Taken /\ Taken' = Taken \cup {x}
    /\ \A j \in Taken : EngineOf(kind, j) = e => j < x
    /\ \A i \in 1 .. pc - 1 : EngineOf(kind, i) = e /\ i < x => i \in Taken

LEMMA AdvanceQueues ==
    ASSUME Shapes, QueuesInOrder, NEW e \in Engines, HasNext(e), Advance(e),
           task' = task, kind' = kind
    PROVE  /\ \E x : Takes(e, x)
           /\ queue' \in [Others -> Seq(Entries)] /\ QueuesInOrder'
           /\ pc' \in 1 .. Len(Program(kind)) + 1 /\ task <= TaskLimit
<1>1. /\ kind \in AllKinds /\ Sound(kind) /\ Len(Program(kind)) \in Nat
      /\ pc \in Nat \ {0} /\ task \in Nat \ {0} /\ TaskLimit \in Nat
  BY KindFacts
<1>2. \A i : At(i)' = At(i)
  BY DEF At
<1>3. CASE e = "S"
  <2>1. /\ task <= TaskLimit /\ pc <= Len(Program(kind)) /\ EngineOf(kind, pc) = "S"
        /\ pc' = pc + 1 /\ queue' = queue /\ NextOf(e) = At(pc)
    BY <1>3 DEF HasNext, HasIssue, Instruction, Current, EngineOf, At, NextOf, Advance
  <2>2. pc \in 1..Len(Program(kind)) /\ pc' \in 1 .. Len(Program(kind)) + 1
    BY <1>1, <2>1
  <2>3. \A i : i \in 1 .. pc' - 1 <=> i \in 1 .. pc - 1 \/ i = pc
    BY <1>1, <2>1
  <2>4. Taken' = Taken \cup {pc}
    BY <2>1, <2>3 DEF Taken
  <2>5. pc \notin Taken
    BY <1>1 DEF Taken
  <2>6. \A j \in Taken : j < pc
    BY <1>1 DEF Taken
  <2>7. \A i \in 1 .. pc - 1 : EngineOf(kind, i) = "S" => i \in Taken
    BY DEF Taken
  <2>8. Takes(e, pc)
    BY <1>3, <2>1, <2>2, <2>4, <2>5, <2>6, <2>7 DEF Takes
  <2>9. ASSUME NEW f \in Others PROVE QueueInOrder(f)'
    <3>1. QueueInOrder(f) /\ f # "S"
      BY DEF QueuesInOrder, Others
    <3>2. \A i \in 1 .. pc' - 1, j \in Taken' :
             EngineOf(kind, i) = f /\ EngineOf(kind, j) = f /\ i < j => i \in Taken'
      <4> SUFFICES ASSUME NEW i \in 1 .. pc' - 1, NEW j \in Taken',
                          EngineOf(kind, i) = f, EngineOf(kind, j) = f, i < j
                   PROVE  i \in Taken'
        OBVIOUS
      <4>1. i # pc /\ j # pc
        BY <2>1, <3>1
      <4> QED BY <2>3, <2>4, <3>1, <4>1 DEF QueueInOrder
    <3>3. \A n \in 1..Len(queue[f]) :
             /\ queue[f][n] = At(queue[f][n].at)
             /\ queue[f][n].at \in 1 .. pc' - 1 /\ EngineOf(kind, queue[f][n].at) = f
      BY <2>3, <3>1 DEF QueueInOrder
    <3> QED BY <1>2, <2>1, <3>1, <3>2, <3>3 DEF QueueInOrder
  <2> QED BY <2>1, <2>2, <2>8, <2>9 DEF QueuesInOrder, Shapes
<1>4. CASE e # "S"
  <2>1. PICK q : q = queue[e]
    OBVIOUS
  <2>2. e \in Others /\ q # <<>> /\ NextOf(e) = Head(q) /\ pc' = pc
        /\ queue' = [queue EXCEPT ![e] = Tail(q)]
    BY <1>4, <2>1 DEF Others, HasNext, NextOf, Advance
  <2>3. QueueInOrder(e) /\ q \in Seq(Entries) /\ Increasing(q)
    BY <2>1, <2>2 DEF QueuesInOrder, Shapes, QueueInOrder
  <2>4. PICK r : r = Tail(q)
    OBVIOUS
  <2>5. PICK x : x = Head(q).at
    OBVIOUS
  <2>6. /\ r \in Seq(Entries) /\ Increasing(r) /\ Positions(r) = Positions(q) \ {x}
        /\ x \in Positions(q) /\ 1 \in 1..Len(q) /\ Head(q) = q[1]
        /\ \A i \in Positions(q) : x <= i
        /\ \A n \in 1..Len(r) : \E m \in 1..Len(q) : r[n] = q[m]
    BY <2>2, <2>3, <2>4, <2>5, QueueShrinks
  <2>7. NextOf(e) = At(x) /\ x \in 1 .. pc - 1 /\ EngineOf(kind, x) = e
    BY <2>1, <2>2, <2>3, <2>5, <2>6 DEF QueueInOrder
  <2>8. x \in 1..Len(Program(kind)) /\ x < pc /\ x \notin Taken
    <3>1. x \in 1..Len(Program(kind)) /\ x < pc
      BY <1>1, <2>7 DEF Shapes
    <3> QED BY <1>4, <2>1, <2>6, <2>7, <3>1 DEF Taken
  <2>9. queue'[e] = r /\ \A f \in Others : f # e => queue'[f] = queue[f]
    BY <2>2, <2>4 DEF Shapes
  <2>10. queue' \in [Others -> Seq(Entries)]
    BY <2>2, <2>4, <2>6 DEF Shapes
  <2>11. \A i \in 1..Len(Program(kind)) : EngineOf(kind, i) \in Engines
    BY <1>1 DEF Sound, Formed
  <2>12. Taken' = Taken \cup {x}
    <3>1. ASSUME NEW i \in 1 .. pc - 1, EngineOf(kind, i) # "S"
          PROVE  i \in Positions(queue'[EngineOf(kind, i)])
                    <=> i \in Positions(queue[EngineOf(kind, i)]) /\ i # x
      <4>1. EngineOf(kind, i) \in Others
        <5>1. i \in 1..Len(Program(kind))
          BY <1>1 DEF Shapes
        <5> QED BY <2>11, <3>1, <5>1 DEF Others
      <4>2. CASE EngineOf(kind, i) = e
        BY <2>1, <2>6, <2>9, <4>2
      <4>3. CASE EngineOf(kind, i) # e
        BY <2>7, <2>9, <4>1, <4>3
      <4> QED BY <4>2, <4>3
    <3> QED BY <1>4, <2>2, <2>7, <3>1 DEF Taken
  <2>13. ASSUME NEW j \in Taken, EngineOf(kind, j) = e PROVE j < x
    <3>1. j \in 1 .. pc - 1 /\ j # x
      BY <2>8 DEF Taken
    <3>2. x < j => x \in Taken
      BY <2>3, <2>7, <2>13 DEF QueueInOrder
    <3> QED BY <2>7, <2>8, <3>1, <3>2
  <2>14. ASSUME NEW i \in 1 .. pc - 1, EngineOf(kind, i) = e, i < x PROVE i \in Taken
    <3>1. i \notin Positions(q)
      BY <2>6, <2>7, <2>14
    <3> QED BY <2>1, <2>14, <3>1 DEF Taken
  <2>15. Takes(e, x)
    BY <1>4, <2>7, <2>8, <2>12, <2>13, <2>14 DEF Takes
  <2>16. ASSUME NEW f \in Others PROVE QueueInOrder(f)'
    <3>1. QueueInOrder(f)
      BY DEF QueuesInOrder
    <3>2. \A i \in 1 .. pc - 1, j \in Taken' :
             EngineOf(kind, i) = f /\ EngineOf(kind, j) = f /\ i < j => i \in Taken'
      <4> SUFFICES ASSUME NEW i \in 1 .. pc - 1, NEW j \in Taken',
                          EngineOf(kind, i) = f, EngineOf(kind, j) = f, i < j
                   PROVE  i \in Taken'
        OBVIOUS
      <4>1. CASE j = x
        BY <2>7, <2>12, <2>14, <4>1
      <4>2. CASE j # x
        BY <2>12, <3>1, <4>2 DEF QueueInOrder
      <4> QED BY <4>1, <4>2
    <3>3. Increasing(queue'[f])
      BY <2>6, <2>9, <3>1 DEF QueueInOrder
    <3>4. ASSUME NEW n \in 1..Len(queue'[f])
          PROVE  /\ queue'[f][n] = At(queue'[f][n].at)
                 /\ queue'[f][n].at \in 1 .. pc - 1 /\ EngineOf(kind, queue'[f][n].at) = f
      <4>1. PICK m \in 1..Len(queue[f]) : queue'[f][n] = queue[f][m]
        BY <2>1, <2>6, <2>9
      <4> QED BY <3>1, <4>1 DEF QueueInOrder
    <3> QED BY <1>2, <2>2, <3>2, <3>3, <3>4 DEF QueueInOrder
  <2>17. pc' \in 1 .. Len(Program(kind)) + 1
    BY <2>2 DEF Shapes
  <2>18. task <= TaskLimit
    <3>1. pc # 1
      BY <2>7
    <3> QED BY <1>1, <3>1 DEF Shapes
  <2> QED BY <2>10, <2>15, <2>16, <2>17, <2>18 DEF QueuesInOrder
<1> QED BY <1>3, <1>4

------------------------------------------------------------------------------
\* Flags.

LEMMA InstructionAt ==
    \A i : Instruction(At(i)) = Program(kind)[i] /\ At(i).at = i /\ At(i).task = task /\ At(i).kind = kind
BY DEF Instruction, At

\* A set of the current program, its wait, and who carries them out.
LEMMA SetFacts ==
    ASSUME Shapes, NEW f \in Flags, NEW a \in Sets(kind, f)
    PROVE  /\ a \in 1..Len(Program(kind)) /\ a + 1 \in 1..Len(Program(kind)) /\ a \in Nat
           /\ Does(kind, a) = "set" /\ Does(kind, a + 1) = "wait"
           /\ EngineOf(kind, a) = Raiser[f] /\ EngineOf(kind, a + 1) = Waiter[f]
           /\ Program(kind)[a].flag = f /\ Program(kind)[a + 1].flag = f
<1>1. Sound(kind) /\ Len(Program(kind)) \in Nat
  BY KindFacts
<1>2. a \in 1..Len(Program(kind)) /\ Does(kind, a) = "set" /\ Program(kind)[a].flag = f
  BY DEF Sets
<1>3. Paired(kind)
  BY <1>1 DEF Sound
<1> QED BY <1>1, <1>2, <1>3 DEF Paired

LEMMA WaiterIsNotRaiser ==
    \A f \in Flags : Waiter[f] = "S" \/ Raiser[f] = "S"
BY DEF Flags, Waiter, Raiser

\* Of two sets of a flag the second is not taken before the first is waited for.
LEMMA RaisedOnce ==
    ASSUME Shapes, QueuesInOrder, NEW f \in Flags, NEW a \in Sets(kind, f), NEW b \in Sets(kind, f),
           a # b, Raised(a)
    PROVE  a + 1 = pc /\ Waiter[f] = "S" /\ Raiser[f] # "S"
<1>1. Sound(kind) /\ pc \in Nat
  BY KindFacts
<1>2. Waiter[f] = "S"
  BY <1>1 DEF Sound, Reused
<1>3. a \in Taken /\ a + 1 \notin Taken /\ a \in Nat /\ EngineOf(kind, a + 1) = "S"
  BY <1>2, SetFacts DEF Raised
<1>4. a \in 1 .. pc - 1 /\ a + 1 \notin 1 .. pc - 1
  BY <1>3 DEF Taken
<1> QED BY <1>1, <1>2, <1>3, <1>4 DEF Flags, Waiter, Raiser

LEMMA OperationFlags ==
    ASSUME Shapes, FlagsInOrder, NEW e, NEW x, Takes(e, x), Does(kind, x) = "operate",
           kind' = kind, flags' = flags
    PROVE  FlagsInOrder'
<1>1. Taken' = Taken \cup {x}
  BY DEF Takes
<1>2. ASSUME NEW f \in Flags, NEW a \in Sets(kind, f)
      PROVE  (a \in Taken' <=> a \in Taken) /\ (a + 1 \in Taken' <=> a + 1 \in Taken)
  <2>1. a # x /\ a + 1 # x
    BY SetFacts
  <2> QED BY <1>1, <2>1
<1> QED BY <1>2 DEF FlagsInOrder, Raised

LEMMA RaiseFlags ==
    ASSUME Shapes, QueuesInOrder, FlagsInOrder, NEW e, NEW x, Takes(e, x), Does(kind, x) = "set",
           kind' = kind, NEW g, g = Program(kind)[x].flag, flags' = [flags EXCEPT ![g] = @ + 1]
    PROVE  FlagsInOrder'
<1>0. Sound(kind) /\ pc \in Nat
  BY KindFacts
<1>1. Taken' = Taken \cup {x} /\ x \in 1..Len(Program(kind)) /\ EngineOf(kind, x) = e /\ x \notin Taken
  BY DEF Takes
<1>2. g \in Flags /\ x \in Sets(kind, g)
  BY <1>0, <1>1 DEF Sound, Paired, Sets
<1>3. x + 1 \notin Taken' /\ x \in Nat
  <2>1. x + 1 \notin Taken
    BY <1>1, <1>2 DEF FlagsInOrder
  <2>2. x \in Nat
    BY <1>2, SetFacts
  <2> QED BY <1>1, <2>1, <2>2
<1>4. ASSUME NEW f \in Flags, NEW a \in Sets(kind, f), a # x
      PROVE  (a \in Taken' <=> a \in Taken) /\ (a + 1 \in Taken' <=> a + 1 \in Taken)
  <2>1. a + 1 # x
    BY SetFacts
  <2> QED BY <1>1, <1>4, <2>1
<1>5. ASSUME NEW a \in Sets(kind, g), Raised(a) PROVE FALSE
  <2>1. a \in Taken /\ a # x
    BY <1>1, <1>5 DEF Raised
  <2>2. a + 1 = pc /\ Raiser[g] # "S"
    BY <1>2, <1>5, <2>1, RaisedOnce
  <2>3. EngineOf(kind, a) = e /\ e # "S" /\ EngineOf(kind, x) = e
    <3>1. EngineOf(kind, a) = Raiser[g]
      BY <1>2, SetFacts
    <3>2. EngineOf(kind, x) = Raiser[g]
      BY <1>2, SetFacts
    <3> QED BY <1>1, <2>2, <3>1, <3>2
  <2>4. a < x /\ x < pc
    BY <2>1, <2>3 DEF Takes
  <2>5. a \in Nat
    BY <1>2, SetFacts
  <2> QED BY <1>0, <1>3, <2>2, <2>4, <2>5
<1>6. flags[g] = 0 /\ flags'[g] = 1 /\ \A f \in Flags : f # g => flags'[f] = flags[f]
  BY <1>2, <1>5 DEF FlagsInOrder, Shapes
<1>7. \A f \in Flags : flags'[f] = IF \E a \in Sets(kind, f) : Raised(a)' THEN 1 ELSE 0
  <2> TAKE f \in Flags
  <2>1. CASE f = g
    <3>1. Raised(x)'
      BY <1>1, <1>3 DEF Raised
    <3> QED BY <1>2, <1>6, <2>1, <3>1
  <2>2. CASE f # g
    <3>1. x \notin Sets(kind, f)
      BY <2>2 DEF Sets
    <3>2. \A a \in Sets(kind, f) : Raised(a)' <=> Raised(a)
      BY <1>4, <3>1 DEF Raised
    <3> QED BY <1>6, <2>2, <3>2 DEF FlagsInOrder
  <2> QED BY <2>1, <2>2
<1>8. \A f \in Flags : \A a \in Sets(kind, f) : a + 1 \in Taken' => a \in Taken'
  <2> TAKE f \in Flags
  <2> TAKE a \in Sets(kind, f)
  <2>1. CASE a = x
    BY <1>1, <2>1
  <2>2. CASE a # x
    BY <1>4, <2>2 DEF FlagsInOrder
  <2> QED BY <2>1, <2>2
<1> QED BY <1>7, <1>8 DEF FlagsInOrder

LEMMA WaitFlags ==
    ASSUME Shapes, QueuesInOrder, FlagsInOrder, NEW e, NEW x, Takes(e, x), Does(kind, x) = "wait",
           kind' = kind, NEW g, g = Program(kind)[x].flag, flags[g] > 0,
           flags' = [flags EXCEPT ![g] = @ - 1]
    PROVE  FlagsInOrder'
<1>0. Sound(kind) /\ pc \in Nat /\ Len(Program(kind)) \in Nat
  BY KindFacts
<1>1. Taken' = Taken \cup {x} /\ x \in 1..Len(Program(kind)) /\ EngineOf(kind, x) = e /\ x \notin Taken
  BY DEF Takes
<1>2. g \in Flags /\ x - 1 \in Sets(kind, g) /\ x \in Nat
  BY <1>0, <1>1 DEF Sound, Paired, Sets
<1>3. ASSUME NEW a \in Sets(kind, g), Raised(a) PROVE a = x - 1
  <2> SUFFICES ASSUME a # x - 1 PROVE FALSE
    OBVIOUS
  <2>1. a + 1 = pc /\ Waiter[g] = "S"
    BY <1>2, <1>3, RaisedOnce
  <2>2. EngineOf(kind, x) = "S"
    <3>1. EngineOf(kind, (x - 1) + 1) = Waiter[g]
      BY <1>2, SetFacts
    <3>2. (x - 1) + 1 = x
      BY <1>2
    <3> QED BY <2>1, <3>1, <3>2
  <2>3. x = pc
    BY <1>1, <2>2 DEF Takes
  <2>4. a \in Nat
    BY <1>2, SetFacts
  <2> QED BY <1>0, <2>1, <2>3, <2>4
<1>4. x - 1 \in Taken /\ flags[g] = 1
  <2>1. \E a \in Sets(kind, g) : Raised(a)
    BY <1>2 DEF FlagsInOrder
  <2> QED BY <1>2, <1>3, <2>1 DEF Raised, FlagsInOrder
<1>5. flags'[g] = 0 /\ \A f \in Flags : f # g => flags'[f] = flags[f]
  BY <1>2, <1>4 DEF Shapes
<1>6. ASSUME NEW f \in Flags, NEW a \in Sets(kind, f), a # x - 1
      PROVE  (a \in Taken' <=> a \in Taken) /\ (a + 1 \in Taken' <=> a + 1 \in Taken)
  <2>1. a # x /\ a \in Nat
    BY SetFacts
  <2> QED BY <1>1, <1>2, <1>6, <2>1
<1>7. \A f \in Flags : flags'[f] = IF \E a \in Sets(kind, f) : Raised(a)' THEN 1 ELSE 0
  <2> TAKE f \in Flags
  <2>1. CASE f = g
    <3>1. ASSUME NEW a \in Sets(kind, g), Raised(a)' PROVE FALSE
      <4>1. CASE a = x - 1
        <5>1. a + 1 = x
          BY <1>2, <4>1
        <5> QED BY <1>1, <3>1, <5>1 DEF Raised
      <4>2. CASE a # x - 1
        <5>1. Raised(a)
          BY <1>2, <1>6, <3>1, <4>2 DEF Raised
        <5> QED BY <1>3, <4>2, <5>1
      <4> QED BY <4>1, <4>2
    <3> QED BY <1>5, <2>1, <3>1
  <2>2. CASE f # g
    <3>1. x - 1 \notin Sets(kind, f)
      BY <1>2, <2>2 DEF Sets
    <3>2. \A a \in Sets(kind, f) : Raised(a)' <=> Raised(a)
      BY <1>6, <3>1 DEF Raised
    <3> QED BY <1>5, <2>2, <3>2 DEF FlagsInOrder
  <2> QED BY <2>1, <2>2
<1>8. \A f \in Flags : \A a \in Sets(kind, f) : a + 1 \in Taken' => a \in Taken'
  <2> TAKE f \in Flags
  <2> TAKE a \in Sets(kind, f)
  <2>1. CASE a = x - 1
    BY <1>1, <1>4, <2>1
  <2>2. CASE a # x - 1
    BY <1>6, <2>2 DEF FlagsInOrder
  <2> QED BY <2>1, <2>2
<1> QED BY <1>7, <1>8 DEF FlagsInOrder

------------------------------------------------------------------------------
\* What engines work on.

LEMMA AtIsSomething ==
    ASSUME Shapes
    PROVE  /\ \A i : At(i) # None
           /\ \A i, j : At(i) = At(j) => i = j
<1>1. task # 0
  BY KindFacts
<1> QED BY <1>1 DEF At, None

LEMMA BeginWork ==
    ASSUME Shapes, WorkInOrder, NEW e \in Engines, NEW x, Takes(e, x), running[e] = None,
           Does(kind, x) = "operate", running' = [running EXCEPT ![e] = At(x)],
           kernel' = kernel, task' = task, kind' = kind
    PROVE  WorkInOrder' /\ Over' = Over
<1>1. /\ Taken' = Taken \cup {x} /\ EngineOf(kind, x) = e /\ x \notin Taken
      /\ x \in Nat /\ \A j \in Taken : EngineOf(kind, j) = e => j < x
  BY KindFacts DEF Takes
<1>2. \A i : At(i)' = At(i)
  BY DEF At
<1>3. running'[e] = At(x) /\ \A f : f # e => running'[f] = running[f]
  BY DEF Shapes
<1>4. Over' = Over
  <2>1. ASSUME NEW i \in Taken PROVE running'[EngineOf(kind, i)] = At(i) <=> running[EngineOf(kind, i)] = At(i)
    <3>1. i # x
      BY <1>1
    <3> QED BY <1>3, <3>1, AtIsSomething
  <2> QED BY <1>1, <1>2, <1>3, <2>1 DEF Over, AtWork
<1>5. ASSUME NEW f \in Engines PROVE AtWorkInOrder(f)'
  <2>1. CASE f = e
    <3>1. \A j \in Taken' : EngineOf(kind, j) = e => j <= x
      BY <1>1 DEF Taken
    <3>2. WorksOn(e, x)'
      BY <1>1, <1>2, <1>3, <3>1 DEF WorksOn
    <3> QED BY <1>1, <2>1, <3>2 DEF AtWorkInOrder
  <2>2. CASE f # e /\ running[f] = None
    BY <1>3, <2>2 DEF AtWorkInOrder
  <2>3. CASE f # e /\ f = "S" /\ LagsBehind
    <3>1. LagsBehind'
      BY <1>3, <2>3 DEF LagsBehind
    <3> QED BY <2>3, <3>1 DEF AtWorkInOrder
  <2>4. ASSUME f # e, NEW i \in Taken, WorksOn(f, i) PROVE AtWorkInOrder(f)'
    <3>1. WorksOn(f, i)'
      BY <1>1, <1>2, <1>3, <2>4 DEF WorksOn
    <3> QED BY <1>1, <3>1 DEF AtWorkInOrder
  <2> QED BY <2>1, <2>2, <2>3, <2>4 DEF WorkInOrder, AtWorkInOrder
<1> QED BY <1>4, <1>5 DEF WorkInOrder

LEMMA PassWork ==
    ASSUME Shapes, WorkInOrder, NEW e \in Engines, NEW x, Takes(e, x),
           running[e] = None \/ (e = "S" /\ Does(kind, x) = "wait"),
           Does(kind, x) # "operate", running' = running,
           kernel' = kernel, task' = task, kind' = kind
    PROVE  WorkInOrder' /\ Over' = Over \cup {x}
<1>1. Taken' = Taken \cup {x} /\ EngineOf(kind, x) = e /\ x \notin Taken
  BY DEF Takes
<1>2. \A i : At(i)' = At(i)
  BY DEF At
<1>3. running[e] # At(x)
  <2>1. CASE running[e] = None
    BY <2>1, AtIsSomething
  <2>2. CASE e = "S" /\ LagsBehind
    <3>1. running["S"].task # task
      BY <2>2, KindFacts DEF LagsBehind
    <3> QED BY <2>2, <3>1 DEF At
  <2>3. ASSUME NEW i \in Taken, WorksOn(e, i) PROVE running[e] # At(x)
    BY <1>1, <2>3, AtIsSomething DEF WorksOn
  <2> QED BY <2>1, <2>2, <2>3 DEF WorkInOrder, AtWorkInOrder
<1>4. Over' = Over \cup {x}
  BY <1>1, <1>2, <1>3 DEF Over, AtWork
<1>5. ASSUME NEW f \in Engines PROVE AtWorkInOrder(f)'
  <2>1. CASE running[f] = None
    BY <2>1 DEF AtWorkInOrder
  <2>2. CASE f = "S" /\ LagsBehind
    <3>1. LagsBehind'
      BY <2>2 DEF LagsBehind
    <3> QED BY <2>2, <3>1 DEF AtWorkInOrder
  <2>3. ASSUME NEW i \in Taken, WorksOn(f, i) PROVE AtWorkInOrder(f)'
    <3>0. f = e => e = "S" /\ Does(kind, x) = "wait"
      BY <2>3, AtIsSomething DEF WorksOn
    <3>1. \A j \in Taken' : EngineOf(kind, j) = f /\ (f = "S" => Does(kind, j) # "wait") => j <= i
      BY <1>1, <2>3, <3>0 DEF WorksOn
    <3>2. WorksOn(f, i)'
      BY <1>1, <1>2, <2>3, <3>1 DEF WorksOn
    <3> QED BY <1>1, <3>2 DEF AtWorkInOrder
  <2> QED BY <2>1, <2>2, <2>3 DEF WorkInOrder, AtWorkInOrder
<1> QED BY <1>4, <1>5 DEF WorkInOrder

\* Nothing but what an engine works on changes when it ends.
LEMMA EndWork ==
    ASSUME Shapes, WorkInOrder, NEW e \in Engines, running[e] # None,
           running' = [running EXCEPT ![e] = None],
           kernel' = kernel, task' = task, kind' = kind, pc' = pc, queue' = queue
    PROVE  /\ Taken' = Taken /\ WorkInOrder'
           /\ \A i \in Taken : WorksOn(e, i) => i \notin Over /\ Over' = Over \cup {i}
           /\ e = "S" /\ LagsBehind => Over' = Over
<1>1. Taken' = Taken
  BY DEF Taken
<1>2. \A i : At(i)' = At(i)
  BY DEF At
<1>3. running'[e] = None /\ \A f : f # e => running'[f] = running[f]
  BY DEF Shapes
<1>4. ASSUME NEW f \in Engines PROVE AtWorkInOrder(f)'
  <2>1. CASE f = e \/ running[f] = None
    BY <1>3, <2>1 DEF AtWorkInOrder
  <2>2. CASE f # e /\ f = "S" /\ LagsBehind
    <3>1. LagsBehind'
      BY <1>3, <2>2 DEF LagsBehind
    <3> QED BY <2>2, <3>1 DEF AtWorkInOrder
  <2>3. ASSUME f # e, NEW i \in Taken, WorksOn(f, i) PROVE AtWorkInOrder(f)'
    <3>1. WorksOn(f, i)'
      BY <1>1, <1>2, <1>3, <2>3 DEF WorksOn
    <3> QED BY <1>1, <3>1 DEF AtWorkInOrder
  <2> QED BY <2>1, <2>2, <2>3 DEF WorkInOrder, AtWorkInOrder
<1>5. ASSUME NEW i \in Taken, WorksOn(e, i) PROVE i \notin Over /\ Over' = Over \cup {i}
  <2>1. running[e] = At(i) /\ EngineOf(kind, i) = e
    BY <1>5 DEF WorksOn
  <2>2. i \in AtWork
    BY <2>1 DEF AtWork
  <2>3. AtWork' = AtWork \ {i}
    <3>1. ASSUME NEW j \in Taken
          PROVE  running'[EngineOf(kind, j)] = At(j) <=> running[EngineOf(kind, j)] = At(j) /\ j # i
      BY <1>3, <2>1, AtIsSomething
    <3> QED BY <1>1, <1>2, <3>1 DEF AtWork
  <2> QED BY <1>1, <2>2, <2>3 DEF Over, AtWork
<1>6. ASSUME e = "S", LagsBehind PROVE Over' = Over
  <2>1. running["S"].task # task
    BY <1>6, KindFacts DEF LagsBehind
  <2>2. \A i : running[e] # At(i)
    BY <1>6, <2>1 DEF At
  <2>3. AtWork' = AtWork
    <3>1. ASSUME NEW j \in Taken
          PROVE  running'[EngineOf(kind, j)] = At(j) <=> running[EngineOf(kind, j)] = At(j)
      BY <1>3, <2>2, AtIsSomething
    <3> QED BY <1>1, <1>2, <3>1 DEF AtWork
  <2> QED BY <1>1, <2>3 DEF Over
<1> QED BY <1>1, <1>4, <1>5, <1>6 DEF WorkInOrder

------------------------------------------------------------------------------
\* The order of operations.

EnginesInOrder == Shapes /\ QueuesInOrder /\ WorkInOrder /\ FlagsInOrder

\* An engine that works on i has taken nothing behind it.
LEMMA WorkIsLast ==
    ASSUME EnginesInOrder, NEW i \in AtWork, NEW j \in Taken, EngineOf(kind, j) = EngineOf(kind, i),
           EngineOf(kind, i) \in Engines, EngineOf(kind, i) # "S" \/ Does(kind, j) # "wait"
    PROVE  j <= i
<1>0. Shapes /\ WorkInOrder
  BY DEF EnginesInOrder
<1>1. PICK e \in Engines : e = EngineOf(kind, i) /\ running[e] = At(i) /\ i \in Taken
  BY DEF AtWork
<1>2. CASE e = "S" /\ LagsBehind
  <2>1. running["S"].task # task
    BY <1>0, <1>2, KindFacts DEF LagsBehind
  <2> QED BY <1>1, <1>2, <2>1 DEF At
<1>3. ASSUME NEW h \in Taken, WorksOn(e, h) PROVE j <= i
  <2>1. h = i
    BY <1>0, <1>1, <1>3, AtIsSomething DEF WorksOn
  <2> QED BY <1>1, <1>3, <2>1 DEF WorksOn
<1> QED BY <1>0, <1>1, <1>2, <1>3, AtIsSomething DEF WorkInOrder, AtWorkInOrder

LEMMA PositionFacts ==
    ASSUME Shapes, NEW i \in 1..Len(Program(kind))
    PROVE  i \in Nat /\ EngineOf(kind, i) \in Engines /\ (i < pc => i \in 1 .. pc - 1)
<1>1. Sound(kind) /\ Len(Program(kind)) \in Nat /\ pc \in Nat
  BY KindFacts
<1> QED BY <1>1 DEF Sound, Formed

LEMMA TakenFacts ==
    ASSUME Shapes
    PROVE  \A i \in Taken : i \in 1..Len(Program(kind)) /\ i < pc /\ i \in Nat
<1>1. Len(Program(kind)) \in Nat /\ pc \in Nat
  BY KindFacts
<1> QED BY <1>1 DEF Shapes, Taken

\* What a program waits for is over when the program has got past the wait.
LEMMA AwaitedIsOver ==
    ASSUME EnginesInOrder, NEW i \in 1..Len(Program(kind)), NEW j, j \in Nat, j <= pc,
           Awaits(kind, i, j)
    PROVE  i \in Over
<1>0. Shapes /\ QueuesInOrder /\ FlagsInOrder
  BY DEF EnginesInOrder
<1>1. PICK a \in i + 1 .. j - 2 : Does(kind, a) = "set" /\ EngineOf(kind, a) = EngineOf(kind, i)
  BY DEF Awaits
<1>2. i \in Nat /\ EngineOf(kind, i) \in Engines /\ pc \in Nat /\ pc <= Len(Program(kind)) + 1
      /\ Len(Program(kind)) \in Nat
  BY <1>0, PositionFacts, KindFacts DEF Shapes
<1>3. a \in Nat /\ i < a /\ a + 1 < pc /\ i \in 1 .. pc - 1 /\ a \in 1 .. pc - 1 /\ a + 1 \in 1 .. pc - 1
      /\ a \in 1..Len(Program(kind))
  BY <1>1, <1>2
<1>4. PICK f \in Flags : f = Program(kind)[a].flag /\ a \in Sets(kind, f)
  <2>1. Paired(kind)
    BY <1>0, KindFacts DEF Sound
  <2> QED BY <1>1, <1>3, <2>1 DEF Paired, Sets
<1>5. EngineOf(kind, a) = Raiser[f] /\ EngineOf(kind, a + 1) = Waiter[f]
  BY <1>0, <1>4, SetFacts
<1>6. a \in Taken /\ i \in Taken
  <2>1. CASE EngineOf(kind, i) = "S"
    BY <1>1, <1>3, <2>1 DEF Taken
  <2>2. CASE EngineOf(kind, i) # "S"
    <3>1. Waiter[f] = "S"
      BY <1>1, <1>5, <2>2, WaiterIsNotRaiser
    <3>2. a + 1 \in Taken
      BY <1>3, <1>5, <3>1 DEF Taken
    <3>3. a \in Taken
      BY <1>0, <1>4, <3>2 DEF FlagsInOrder
    <3>4. QueueInOrder(EngineOf(kind, i))
      BY <1>0, <1>2, <2>2 DEF QueuesInOrder, Others
    <3> QED BY <1>1, <1>3, <3>3, <3>4 DEF QueueInOrder
  <2> QED BY <2>1, <2>2
<1>7. i \notin AtWork
  <2>1. Does(kind, a) # "wait" /\ ~ a <= i
    BY <1>1, <1>2, <1>3
  <2> QED BY <1>1, <1>2, <1>6, <2>1, WorkIsLast
<1> QED BY <1>6, <1>7 DEF Over

\* An engine has ended what comes before what it has taken.
LEMMA EarlierIsOver ==
    ASSUME EnginesInOrder, NEW i \in 1..Len(Program(kind)), NEW j \in Taken,
           EngineOf(kind, i) = EngineOf(kind, j), i < j, Does(kind, j) # "wait"
    PROVE  i \in Over
<1>0. Shapes /\ QueuesInOrder
  BY DEF EnginesInOrder
<1>1. i \in Nat /\ EngineOf(kind, i) \in Engines /\ j \in Nat /\ j < pc /\ pc \in Nat
  BY <1>0, PositionFacts, TakenFacts, KindFacts
<1>2. i \in 1 .. pc - 1
  BY <1>1
<1>3. i \in Taken
  <2>1. CASE EngineOf(kind, i) = "S"
    BY <1>2, <2>1 DEF Taken
  <2>2. CASE EngineOf(kind, i) # "S"
    <3>1. QueueInOrder(EngineOf(kind, i))
      BY <1>0, <1>1, <2>2 DEF QueuesInOrder, Others
    <3> QED BY <1>2, <3>1 DEF QueueInOrder
  <2> QED BY <2>1, <2>2
<1>4. i \notin AtWork
  <2>1. ~ j <= i
    BY <1>1
  <2> QED BY <1>1, <2>1, WorkIsLast
<1> QED BY <1>3, <1>4 DEF Over

\* Of two operations of which one disturbs the other, the first is over when the second
\* has been taken.
LEMMA ClashIsOrdered ==
    ASSUME EnginesInOrder, NEW i \in 1..Len(Program(kind)), NEW j \in Taken, i < j,
           Does(kind, i) = "operate", Does(kind, j) = "operate",
           Clash(Program(kind)[i], Program(kind)[j]) \/ EngineOf(kind, j) = "MTE3"
    PROVE  i \in Over
<1>1. Shapes
  BY DEF EnginesInOrder
<1>2. j \in 1..Len(Program(kind)) /\ j < pc /\ j \in Nat /\ pc \in Nat
  BY <1>1, TakenFacts, KindFacts
<1>3. CASE EngineOf(kind, i) = EngineOf(kind, j)
  BY <1>3, EarlierIsOver
<1>4. CASE EngineOf(kind, i) # EngineOf(kind, j)
  <2>1. Ordered(kind)
    BY <1>1, KindFacts DEF Sound
  <2>2. Awaits(kind, i, j)
    BY <1>2, <1>4, <2>1 DEF Ordered, IsOperation
  <2> QED BY <1>2, <2>2, AwaitedIsOver
<1> QED BY <1>3, <1>4

------------------------------------------------------------------------------
\* The steps keep the invariant.

LEMMA InitPipes == Init => PipesInv
<1> SUFFICES ASSUME Init PROVE PipesInv
  OBVIOUS
<1>1. /\ kernel \in 1..4 /\ task = 1 /\ kind \in Kinds(kernel) /\ pc = 1 /\ retired = {}
      /\ queue = [e \in Others |-> <<>>] /\ running = [e \in Engines |-> None]
      /\ flags = [f \in Flags |-> 0] /\ ub = [r \in Regions |-> <<0, 0>>]
  BY DEF Init, Others, Junk
<1>2. TaskLimit \in Nat \ {0}
  BY TaskLimitAssumption
<1>3. Len(Program(kind)) \in Nat
  <2>1. kind \in AllKinds
    BY <1>1 DEF AllKinds
  <2> QED BY <2>1, ProgramsSound DEF Sound, Formed
<1>4. Shapes
  <2>1. task \in 1 .. TaskLimit + 1 /\ pc \in 1 .. Len(Program(kind)) + 1 /\ (task > TaskLimit => pc = 1)
    BY <1>1, <1>2, <1>3
  <2>2. queue \in [Others -> Seq(Entries)] /\ running \in [Engines -> Entries \cup {None}]
        /\ flags \in [Flags -> Nat]
    BY <1>1
  <2>3. ub \in [Regions -> (0..TaskLimit) \X Nat]
    BY <1>1, <1>2
  <2> QED BY <1>1, <2>1, <2>2, <2>3 DEF Shapes
<1>5. Taken = {} /\ Over = {}
  BY <1>1 DEF Taken, Over
<1>6. QueuesInOrder
  BY <1>1 DEF QueuesInOrder, QueueInOrder, Increasing
<1>7. WorkInOrder
  BY <1>1 DEF WorkInOrder, AtWorkInOrder
<1>8. FlagsInOrder
  BY <1>1, <1>5 DEF FlagsInOrder, Raised
<1>9. RetiredAreOver /\ RegionsHold
  BY <1>1, <1>5 DEF RetiredAreOver, RegionsHold
<1> QED BY <1>4, <1>6, <1>7, <1>8, <1>9 DEF PipesInv

LEMMA IssuePipes == PipesInv /\ Issue => PipesInv'
<1> SUFFICES ASSUME PipesInv, Issue PROVE PipesInv'
  OBVIOUS
<1>1. Shapes /\ QueuesInOrder /\ WorkInOrder /\ FlagsInOrder /\ RetiredAreOver /\ RegionsHold
  BY DEF PipesInv
<1>2. /\ queue' \in [Others -> Seq(Entries)] /\ Taken' = Taken /\ QueuesInOrder'
      /\ pc \in 1..Len(Program(kind)) /\ pc' = pc + 1 /\ task <= TaskLimit
  BY <1>1, IssueQueues
<1>3. /\ kernel' = kernel /\ task' = task /\ kind' = kind /\ running' = running /\ flags' = flags
      /\ ub' = ub /\ retired' = retired
  BY DEF Issue
<1>4. \A i : At(i)' = At(i)
  BY <1>3 DEF At
<1>5. Shapes'
  <2>1. pc' \in 1 .. Len(Program(kind)) + 1 /\ ~ task > TaskLimit
    BY <1>1, <1>2, KindFacts
  <2> QED BY <1>1, <1>2, <1>3, <2>1 DEF Shapes
<1>6. Over' = Over
  BY <1>2, <1>3, <1>4 DEF Over, AtWork
<1>7. WorkInOrder'
  BY <1>1, <1>2, <1>3, <1>4 DEF WorkInOrder, AtWorkInOrder, WorksOn, LagsBehind
<1>8. FlagsInOrder'
  BY <1>1, <1>2, <1>3 DEF FlagsInOrder, Raised
<1>9. RetiredAreOver' /\ RegionsHold'
  BY <1>1, <1>3, <1>6 DEF RetiredAreOver, RegionsHold
<1> QED BY <1>2, <1>5, <1>7, <1>8, <1>9 DEF PipesInv

LEMMA BeginPipes == \A e \in Engines : PipesInv /\ Begin(e) => PipesInv'
<1> SUFFICES ASSUME NEW e \in Engines, PipesInv, Begin(e) PROVE PipesInv'
  OBVIOUS
<1>1. Shapes /\ QueuesInOrder /\ WorkInOrder /\ FlagsInOrder /\ RetiredAreOver /\ RegionsHold
  BY DEF PipesInv
<1>2. /\ HasNext(e) /\ running[e] = None /\ Instruction(NextOf(e)).does = "operate"
      /\ running' = [running EXCEPT ![e] = NextOf(e)] /\ Advance(e)
      /\ kernel' = kernel /\ task' = task /\ kind' = kind /\ flags' = flags
      /\ ub' = ub /\ retired' = retired
  BY DEF Begin
<1>3. /\ queue' \in [Others -> Seq(Entries)] /\ QueuesInOrder'
      /\ pc' \in 1 .. Len(Program(kind)) + 1 /\ task <= TaskLimit
  BY <1>1, <1>2, AdvanceQueues
<1>4. PICK x : Takes(e, x)
  BY <1>1, <1>2, AdvanceQueues
<1>5. NextOf(e) = At(x) /\ Does(kind, x) = "operate" /\ x \in Nat
  BY <1>1, <1>2, <1>4, InstructionAt, KindFacts DEF Takes, Does
<1>6. running' = [running EXCEPT ![e] = At(x)]
  BY <1>2, <1>5
<1>7. WorkInOrder' /\ Over' = Over
  BY <1>1, <1>2, <1>4, <1>5, <1>6, BeginWork
<1>8. FlagsInOrder'
  BY <1>1, <1>2, <1>4, <1>5, OperationFlags
<1>9. RetiredAreOver' /\ RegionsHold'
  BY <1>1, <1>2, <1>7 DEF RetiredAreOver, RegionsHold
<1>10. Shapes'
  <2>1. At(x) \in Entries
    BY <1>1, <1>3, <1>5, KindFacts DEF At, Entries
  <2>2. ~ task > TaskLimit
    BY <1>1, <1>3, KindFacts
  <2> QED BY <1>1, <1>2, <1>3, <1>6, <2>1, <2>2 DEF Shapes
<1> QED BY <1>3, <1>7, <1>8, <1>9, <1>10 DEF PipesInv

LEMMA PassPipes ==
    ASSUME PipesInv, NEW e \in Engines, NEW x, Takes(e, x), Does(kind, x) # "operate",
           QueuesInOrder', FlagsInOrder', queue' \in [Others -> Seq(Entries)], flags' \in [Flags -> Nat],
           pc' \in 1 .. Len(Program(kind)) + 1, task <= TaskLimit,
           running[e] = None \/ (e = "S" /\ Does(kind, x) = "wait"),
           kernel' = kernel, task' = task, kind' = kind, running' = running, ub' = ub, retired' = retired
    PROVE  PipesInv'
<1>1. Shapes /\ WorkInOrder /\ RetiredAreOver /\ RegionsHold
  BY DEF PipesInv
<1>2. WorkInOrder' /\ Over' = Over \cup {x}
  BY <1>1, PassWork
<1>3. RetiredAreOver' /\ RegionsHold'
  BY <1>1, <1>2 DEF RetiredAreOver, RegionsHold
<1>4. Shapes'
  <2>1. ~ task > TaskLimit
    BY <1>1, KindFacts
  <2> QED BY <1>1, <2>1 DEF Shapes
<1> QED BY <1>2, <1>3, <1>4 DEF PipesInv

LEMMA RaisePipes == \A e \in Engines : PipesInv /\ Raise(e) => PipesInv'
<1> SUFFICES ASSUME NEW e \in Engines, PipesInv, Raise(e) PROVE PipesInv'
  OBVIOUS
<1>1. Shapes /\ QueuesInOrder /\ WorkInOrder /\ FlagsInOrder
  BY DEF PipesInv
<1>2. /\ HasNext(e) /\ running[e] = None /\ Instruction(NextOf(e)).does = "set"
      /\ flags' = [flags EXCEPT ![Instruction(NextOf(e)).flag] = @ + 1] /\ Advance(e)
      /\ kernel' = kernel /\ task' = task /\ kind' = kind /\ running' = running
      /\ ub' = ub /\ retired' = retired
  BY DEF Raise
<1>3. /\ queue' \in [Others -> Seq(Entries)] /\ QueuesInOrder'
      /\ pc' \in 1 .. Len(Program(kind)) + 1 /\ task <= TaskLimit
  BY <1>1, <1>2, AdvanceQueues
<1>4. PICK x : Takes(e, x)
  BY <1>1, <1>2, AdvanceQueues
<1>5. PICK g : g = Program(kind)[x].flag
  OBVIOUS
<1>6. Does(kind, x) = "set" /\ flags' = [flags EXCEPT ![g] = @ + 1]
  BY <1>2, <1>4, <1>5, InstructionAt DEF Takes, Does
<1>7. FlagsInOrder'
  BY <1>1, <1>2, <1>4, <1>5, <1>6, RaiseFlags
<1>8. flags' \in [Flags -> Nat]
  <2>1. flags \in [Flags -> Nat]
    BY <1>1 DEF Shapes
  <2>2. flags' = [f \in Flags |-> flags'[f]]
    BY <1>6, <2>1
  <2>3. \A f \in Flags : flags'[f] \in Nat
    BY <1>7 DEF FlagsInOrder
  <2> QED BY <2>2, <2>3
<1> QED BY <1>2, <1>3, <1>4, <1>6, <1>7, <1>8, PassPipes

LEMMA WaitPipes == \A e \in Engines : PipesInv /\ Wait(e) => PipesInv'
<1> SUFFICES ASSUME NEW e \in Engines, PipesInv, Wait(e) PROVE PipesInv'
  OBVIOUS
<1>1. Shapes /\ QueuesInOrder /\ WorkInOrder /\ FlagsInOrder
  BY DEF PipesInv
<1>2. /\ HasNext(e) /\ (e = "S" \/ running[e] = None) /\ Instruction(NextOf(e)).does = "wait"
      /\ flags[Instruction(NextOf(e)).flag] > 0
      /\ flags' = [flags EXCEPT ![Instruction(NextOf(e)).flag] = @ - 1] /\ Advance(e)
      /\ kernel' = kernel /\ task' = task /\ kind' = kind /\ running' = running
      /\ ub' = ub /\ retired' = retired
  BY DEF Wait
<1>3. /\ queue' \in [Others -> Seq(Entries)] /\ QueuesInOrder'
      /\ pc' \in 1 .. Len(Program(kind)) + 1 /\ task <= TaskLimit
  BY <1>1, <1>2, AdvanceQueues
<1>4. PICK x : Takes(e, x)
  BY <1>1, <1>2, AdvanceQueues
<1>5. PICK g : g = Program(kind)[x].flag
  OBVIOUS
<1>6. Does(kind, x) = "wait" /\ flags[g] > 0 /\ flags' = [flags EXCEPT ![g] = @ - 1]
  BY <1>2, <1>4, <1>5, InstructionAt DEF Takes, Does
<1>7. FlagsInOrder'
  BY <1>1, <1>2, <1>4, <1>5, <1>6, WaitFlags
<1>8. flags' \in [Flags -> Nat]
  <2>1. flags \in [Flags -> Nat]
    BY <1>1 DEF Shapes
  <2>2. flags' = [f \in Flags |-> flags'[f]]
    BY <1>6, <2>1
  <2>3. \A f \in Flags : flags'[f] \in Nat
    BY <1>7 DEF FlagsInOrder
  <2> QED BY <2>2, <2>3
<1> QED BY <1>2, <1>3, <1>4, <1>6, <1>7, <1>8, PassPipes

LEMMA RegionFacts ==
    ASSUME NEW d \in AllKinds, NEW i \in 1..Len(Program(d)),
           NEW name \in Program(d)[i].reads \cup Program(d)[i].writes
    PROVE  <<d.layout, name>> \in Regions
<1>1. PICK entry : entry = [task |-> 1, kind |-> d, at |-> i]
  OBVIOUS
<1>2. Instruction(entry) = Program(d)[i] /\ entry.kind = d
  BY <1>1 DEF Instruction
<1>3. <<d.layout, name>> \in Reads(entry) \cup Writes(entry)
  BY <1>2 DEF Reads, Writes, Region
<1>4. AllKinds = UNION {Kinds(n) : n \in 1..4}
  BY DEF AllKinds
<1> QED BY <1>1, <1>3, <1>4 DEF Regions

LEMMA WritesAt ==
    \A i, name : <<kind.layout, name>> \in Writes(At(i)) <=> name \in Program(kind)[i].writes
BY InstructionAt DEF Writes, Region

LEMMA ReadsAt ==
    \A i, name : <<kind.layout, name>> \in Reads(At(i)) <=> name \in Program(kind)[i].reads
BY InstructionAt DEF Reads, Region

\* The operation that ends is the last that has written its regions.
LEMMA EndRegions ==
    ASSUME PipesInv, NEW i \in Taken, NEW e \in Engines, WorksOn(e, i), i \notin Over,
           retired' = retired \cup {i}, kind' = kind, task' = task,
           ub' = [r \in Regions |->
                     IF r \in Writes(At(i)) THEN <<task, i>>
                     ELSE IF \E w \in Writes(At(i)) : Overlap(w, r) THEN Junk ELSE ub[r]]
    PROVE  RegionsHold'
<1>1. EnginesInOrder /\ RetiredAreOver /\ RegionsHold /\ Shapes
  BY DEF PipesInv, EnginesInOrder
<1>2. Does(kind, i) = "operate" /\ EngineOf(kind, i) = e /\ i \in 1..Len(Program(kind)) /\ i \in Nat
  BY <1>1, TakenFacts DEF WorksOn
<1>3. kind \in AllKinds
  BY <1>1, KindFacts
<1> SUFFICES ASSUME NEW h \in retired', NEW name \in Program(kind)[h].writes,
                    \A j \in retired' : name \in Program(kind)[j].writes => j <= h
             PROVE  ub'[<<kind.layout, name>>] = <<task, h>>
  BY DEF RegionsHold
<1>4. CASE h = i
  <2>1. <<kind.layout, name>> \in Regions /\ <<kind.layout, name>> \in Writes(At(i))
    BY <1>2, <1>3, <1>4, RegionFacts, WritesAt
  <2> QED BY <1>4, <2>1
<1>5. CASE h # i
  <2>1. h \in Taken /\ Does(kind, h) = "operate" /\ h \in 1..Len(Program(kind)) /\ h \in retired /\ h \in Nat
    BY <1>1, <1>5, TakenFacts DEF RetiredAreOver, Over
  <2>2. CASE name \in Program(kind)[i].writes
    <3>1. i < h
      BY <1>2, <1>5, <2>1, <2>2
    <3>2. Clash(Program(kind)[i], Program(kind)[h])
      BY <2>2 DEF Clash
    <3>3. i \in Over
      BY <1>1, <1>2, <2>1, <3>1, <3>2, ClashIsOrdered
    <3> QED BY <3>3
  <2>3. CASE name \notin Program(kind)[i].writes
    <3>1. PICK r : r = <<kind.layout, name>>
      OBVIOUS
    <3>2. r \in Regions /\ r \notin Writes(At(i)) /\ r[1] = kind.layout
      BY <1>3, <2>1, <2>3, <3>1, RegionFacts, WritesAt
    <3>3. \A w \in Writes(At(i)) : ~Overlap(w, r)
      <4> SUFFICES ASSUME NEW w \in Writes(At(i)) PROVE ~Overlap(w, r)
        OBVIOUS
      <4>1. w[1] = kind.layout
        BY InstructionAt DEF Writes, Region
      <4> QED BY <3>2, <4>1 DEF Overlap
    <3>4. ub'[r] = ub[r]
      BY <3>2, <3>3
    <3>5. ub[r] = <<task, h>>
      BY <1>1, <2>1, <3>1 DEF RegionsHold
    <3> QED BY <3>1, <3>4, <3>5
  <2> QED BY <2>2, <2>3
<1> QED BY <1>4, <1>5

LEMMA EndPipes == \A e \in Engines : PipesInv /\ End(e) => PipesInv'
<1> SUFFICES ASSUME NEW e \in Engines, PipesInv, End(e) PROVE PipesInv'
  OBVIOUS
<1>1. Shapes /\ QueuesInOrder /\ WorkInOrder /\ FlagsInOrder /\ RetiredAreOver /\ RegionsHold
  BY DEF PipesInv
<1>2. PICK entry : entry = running[e]
  OBVIOUS
<1>3. /\ entry # None
      /\ ub' = [r \in Regions |->
                   IF r \in Writes(entry) THEN <<entry.task, entry.at>>
                   ELSE IF \E w \in Writes(entry) : Overlap(w, r) THEN Junk ELSE ub[r]]
      /\ retired' = IF entry.task = task THEN retired \cup {entry.at} ELSE retired
      /\ running' = [running EXCEPT ![e] = None]
      /\ kernel' = kernel /\ task' = task /\ kind' = kind /\ pc' = pc /\ queue' = queue /\ flags' = flags
  BY <1>2 DEF End
<1>4. /\ Taken' = Taken /\ WorkInOrder'
      /\ \A i \in Taken : WorksOn(e, i) => i \notin Over /\ Over' = Over \cup {i}
      /\ e = "S" /\ LagsBehind => Over' = Over
  BY <1>1, <1>2, <1>3, EndWork
<1>5. entry \in Entries
  BY <1>1, <1>2, <1>3 DEF Shapes
<1>6. ub' \in [Regions -> (0..TaskLimit) \X Nat]
  <2>1. <<entry.task, entry.at>> \in (0..TaskLimit) \X Nat /\ Junk \in (0..TaskLimit) \X Nat
    BY <1>5, TaskLimitAssumption DEF Entries, Junk
  <2>2. \A r \in Regions : ub[r] \in (0..TaskLimit) \X Nat
    BY <1>1 DEF Shapes
  <2> QED BY <1>3, <2>1, <2>2
<1>7. Shapes'
  <2>1. retired' \subseteq Nat
    BY <1>1, <1>3, <1>5 DEF Shapes, Entries
  <2>2. running' \in [Engines -> Entries \cup {None}]
    BY <1>1, <1>3 DEF Shapes
  <2> QED BY <1>1, <1>3, <1>6, <2>1, <2>2 DEF Shapes
<1>8. QueuesInOrder'
  <2>1. \A i : At(i)' = At(i)
    BY <1>3 DEF At
  <2> QED BY <1>1, <1>3, <1>4, <2>1 DEF QueuesInOrder, QueueInOrder
<1>9. FlagsInOrder'
  BY <1>1, <1>3, <1>4 DEF FlagsInOrder, Raised
<1>10. RetiredAreOver' /\ RegionsHold'
  <2>1. CASE e = "S" /\ LagsBehind
    <3>1. entry.task # task /\ Writes(entry) = {}
      BY <1>1, <1>2, <2>1, KindFacts DEF LagsBehind, Writes, Region, Instruction
    <3>2. retired' = retired /\ Over' = Over
      BY <1>3, <1>4, <2>1, <3>1
    <3>3. ub' = [r \in Regions |-> ub[r]]
      BY <1>3, <3>1
    <3>4. ub' = ub
      BY <1>1, <3>3 DEF Shapes
    <3> QED BY <1>1, <1>3, <3>2, <3>4 DEF RetiredAreOver, RegionsHold
  <2>2. ASSUME NEW i \in Taken, WorksOn(e, i) PROVE RetiredAreOver' /\ RegionsHold'
    <3>1. entry = At(i) /\ entry.task = task /\ entry.at = i /\ Does(kind, i) = "operate"
      BY <1>2, <2>2, InstructionAt DEF WorksOn
    <3>2. retired' = retired \cup {i} /\ i \notin Over /\ Over' = Over \cup {i}
      BY <1>3, <1>4, <2>2, <3>1
    <3>3. RetiredAreOver'
      BY <1>1, <1>3, <3>1, <3>2 DEF RetiredAreOver
    <3>4. ub' = [r \in Regions |->
                     IF r \in Writes(At(i)) THEN <<task, i>>
                     ELSE IF \E w \in Writes(At(i)) : Overlap(w, r) THEN Junk ELSE ub[r]]
      BY <1>3, <3>1
    <3>5. RegionsHold'
      BY <1>3, <2>2, <3>2, <3>4, EndRegions
    <3> QED BY <3>3, <3>5
  <2> QED BY <1>1, <1>2, <1>3, <2>1, <2>2 DEF WorkInOrder, AtWorkInOrder
<1> QED BY <1>4, <1>7, <1>8, <1>9, <1>10 DEF PipesInv

\* When the program of a task is through, so are the engines: but for a scalar loop
\* that writes nothing.
LEMMA ProgramIsThrough ==
    ASSUME EnginesInOrder, pc > Len(Program(kind))
    PROVE  /\ Taken = 1..Len(Program(kind)) /\ \A e \in Others : queue[e] = <<>>
           /\ \A e \in Engines : running[e] # None =>
                 e = "S" /\ (LagsBehind \/ \E i \in Taken : WorksOn(e, i) /\ Program(kind)[i].writes = {})
           /\ \A f \in Flags : flags[f] = 0
<1>1. Shapes /\ QueuesInOrder /\ WorkInOrder /\ FlagsInOrder
  BY DEF EnginesInOrder
<1>2. pc = Len(Program(kind)) + 1 /\ Len(Program(kind)) \in Nat /\ Sound(kind) /\ pc - 1 = Len(Program(kind))
  BY <1>1, KindFacts DEF Shapes
<1>3. ASSUME NEW i \in 1..Len(Program(kind)) PROVE i \in Taken
  <2>1. CASE EngineOf(kind, i) = "S"
    BY <1>2, <2>1 DEF Taken
  <2>2. CASE EngineOf(kind, i) # "S"
    <3>1. PICK a \in i..Len(Program(kind)) : Does(kind, a) = "set" /\ EngineOf(kind, a) = EngineOf(kind, i)
      BY <1>2, <2>2 DEF Sound, Closed
    <3>2. a \in 1..Len(Program(kind)) /\ a \in Nat /\ i \in Nat /\ i <= a
      BY <1>2
    <3>3. PICK f \in Flags : a \in Sets(kind, f)
      BY <1>2, <3>1, <3>2 DEF Sound, Paired, Sets
    <3>4. EngineOf(kind, a) = Raiser[f] /\ EngineOf(kind, a + 1) = Waiter[f] /\ a + 1 \in 1..Len(Program(kind))
      BY <1>1, <3>3, SetFacts
    <3>5. EngineOf(kind, a + 1) = "S"
      BY <2>2, <3>1, <3>4, WaiterIsNotRaiser
    <3>6. a + 1 \in Taken
      BY <1>2, <3>4, <3>5 DEF Taken
    <3>7. a \in Taken
      BY <1>1, <3>3, <3>6 DEF FlagsInOrder
    <3>8. CASE i = a
      BY <3>7, <3>8
    <3>9. CASE i < a
      <4>1. QueueInOrder(EngineOf(kind, i))
        BY <1>1, <2>2, PositionFacts DEF QueuesInOrder, Others
      <4> QED BY <1>2, <3>1, <3>7, <3>9, <4>1 DEF QueueInOrder
    <3> QED BY <3>2, <3>8, <3>9
  <2> QED BY <2>1, <2>2
<1>4. Taken = 1..Len(Program(kind))
  BY <1>2, <1>3 DEF Taken
<1>5. ASSUME NEW e \in Others PROVE queue[e] = <<>>
  <2>1. QueueInOrder(e) /\ queue[e] \in Seq(Entries) /\ e # "S"
    BY <1>1 DEF QueuesInOrder, Shapes, Others
  <2> SUFFICES ASSUME queue[e] # <<>> PROVE FALSE
    OBVIOUS
  <2>2. 1 \in 1..Len(queue[e])
    BY <2>1
  <2>3. PICK i : i = queue[e][1].at
    OBVIOUS
  <2>4. i \in 1 .. pc - 1 /\ EngineOf(kind, i) = e /\ i \in Positions(queue[e])
    BY <2>1, <2>2, <2>3 DEF QueueInOrder, Positions
  <2>5. i \notin Taken
    BY <2>1, <2>4 DEF Taken
  <2> QED BY <1>2, <1>4, <2>4, <2>5
<1>6. ASSUME NEW e \in Engines, running[e] # None
      PROVE  e = "S" /\ (LagsBehind \/ \E i \in Taken : WorksOn(e, i) /\ Program(kind)[i].writes = {})
  <2>1. CASE e = "S" /\ LagsBehind
    BY <2>1
  <2>2. ASSUME NEW i \in Taken, WorksOn(e, i) PROVE e = "S" /\ Program(kind)[i].writes = {}
    <3> SUFFICES ASSUME e # "S" \/ Program(kind)[i].writes # {} PROVE FALSE
      OBVIOUS
    <3>1. EngineOf(kind, i) = e /\ Does(kind, i) = "operate" /\ i \in 1..Len(Program(kind))
      BY <1>4, <2>2 DEF WorksOn
    <3>2. PICK a \in i..Len(Program(kind)) : Does(kind, a) = "set" /\ EngineOf(kind, a) = e
      BY <1>2, <3>1 DEF Sound, Closed
    <3>3. a \in Taken /\ a \in Nat /\ i \in Nat /\ i <= a
      BY <1>2, <1>4, <3>1
    <3>4. a <= i
      BY <2>2, <3>2, <3>3 DEF WorksOn
    <3> QED BY <3>1, <3>2, <3>3, <3>4
  <2> QED BY <1>1, <1>6, <2>1, <2>2 DEF WorkInOrder, AtWorkInOrder
<1>7. ASSUME NEW f \in Flags PROVE flags[f] = 0
  <2>1. \A a \in Sets(kind, f) : ~Raised(a)
    BY <1>1, <1>4, SetFacts DEF Raised
  <2> QED BY <1>1, <2>1 DEF FlagsInOrder
<1> QED BY <1>4, <1>5, <1>6, <1>7

LEMMA NextTaskPipes == PipesInv /\ NextTask => PipesInv'
<1> SUFFICES ASSUME PipesInv, NextTask PROVE PipesInv'
  OBVIOUS
<1>1. Shapes /\ QueuesInOrder /\ WorkInOrder /\ FlagsInOrder
  BY DEF PipesInv
<1>2. /\ task <= TaskLimit /\ pc > Len(Program(kind)) /\ task' = task + 1 /\ kind' \in Kinds(kernel)
      /\ pc' = 1 /\ retired' = {} /\ kernel' = kernel /\ queue' = queue /\ running' = running
      /\ flags' = flags /\ ub' = ub
  BY DEF NextTask, TurnTo
<1>3. /\ \A e \in Others : queue[e] = <<>>
      /\ \A e \in Engines : running[e] # None =>
            e = "S" /\ (LagsBehind \/ \E i \in Taken : WorksOn(e, i) /\ Program(kind)[i].writes = {})
      /\ \A f \in Flags : flags[f] = 0
  BY <1>1, <1>2, ProgramIsThrough DEF EnginesInOrder
<1>4. TaskLimit \in Nat /\ task \in Nat \ {0}
  BY <1>1, KindFacts
<1>5. Shapes'
  <2>1. kind' \in AllKinds
    BY <1>1, <1>2 DEF AllKinds, Shapes
  <2>2. Len(Program(kind')) \in Nat
    BY <2>1, ProgramsSound DEF Sound, Formed
  <2>3. task' \in 1 .. TaskLimit + 1 /\ pc' \in 1 .. Len(Program(kind')) + 1
    BY <1>2, <1>4, <2>2
  <2> QED BY <1>1, <1>2, <2>3 DEF Shapes
<1>6. Taken' = {} /\ Over' = {}
  BY <1>2 DEF Taken, Over
<1>7. QueuesInOrder'
  <2>1. \A e \in Others : queue'[e] = <<>>
    BY <1>2, <1>3
  <2>2. \A e \in Others : Len(queue'[e]) = 0
    BY <2>1
  <2> QED BY <1>6, <2>2 DEF QueuesInOrder, QueueInOrder, Increasing
<1>8. WorkInOrder'
  <2> SUFFICES ASSUME NEW e \in Engines, running[e] # None PROVE e = "S" /\ LagsBehind'
    BY <1>2 DEF WorkInOrder, AtWorkInOrder
  <2>1. e = "S"
    BY <1>3
  <2>2. CASE LagsBehind
    <3>1. running["S"].task < task'
      <4>1. running["S"].task \in Nat
        BY <1>1, <2>1 DEF Shapes, Entries, Engines
      <4> QED BY <1>2, <1>4, <2>2, <4>1 DEF LagsBehind
    <3> QED BY <1>2, <2>1, <2>2, <3>1 DEF LagsBehind
  <2>3. ASSUME NEW i \in Taken, WorksOn(e, i), Program(kind)[i].writes = {} PROVE LagsBehind'
    <3>1. running["S"] = At(i) /\ EngineOf(kind, i) = "S" /\ Does(kind, i) = "operate"
      BY <2>1, <2>3 DEF WorksOn
    <3>2. running["S"].task = task /\ running["S"].kind = kind /\ running["S"].at = i
      BY <3>1, InstructionAt
    <3>3. i \in 1..Len(Program(kind)) /\ kind \in Kinds(kernel)
      BY <1>1, TakenFacts DEF Shapes
    <3> QED BY <1>2, <1>4, <2>3, <3>1, <3>2, <3>3 DEF LagsBehind, IsOperation
  <2> QED BY <1>3, <2>1, <2>2, <2>3
<1>9. FlagsInOrder'
  BY <1>2, <1>3, <1>6 DEF FlagsInOrder, Raised
<1>10. RetiredAreOver' /\ RegionsHold'
  BY <1>2, <1>6 DEF RetiredAreOver, RegionsHold
<1> QED BY <1>5, <1>7, <1>8, <1>9, <1>10 DEF PipesInv

LEMMA StepPipes == PipesInv /\ [Next]_vars => PipesInv'
<1> SUFFICES ASSUME PipesInv, [Next]_vars PROVE PipesInv'
  OBVIOUS
<1>1. CASE Issue
  BY <1>1, IssuePipes
<1>2. CASE NextTask
  BY <1>2, NextTaskPipes
<1>3. ASSUME NEW e \in Engines, EngineStep(e) PROVE PipesInv'
  BY <1>3, BeginPipes, EndPipes, RaisePipes, WaitPipes DEF EngineStep
<1>4. CASE UNCHANGED vars
  BY <1>4 DEF vars, PipesInv, Shapes, QueuesInOrder, QueueInOrder, WorkInOrder, AtWorkInOrder, WorksOn,
              LagsBehind, FlagsInOrder, Raised, RetiredAreOver, RegionsHold, Taken, Over, AtWork, At
<1> QED BY <1>1, <1>2, <1>3, <1>4 DEF Next, KernelEnd

\* The engines of a core take, carry out and end what they were given in an order that the
\* flags alone decide, for every number and every sequence of kinds of tasks.
THEOREM PipesInvariant == Spec => []PipesInv
BY InitPipes, StepPipes, PTL DEF Spec

------------------------------------------------------------------------------
\* What follows.

\* The instructions of a queue are its engine's, an engine carries out operations of its own, and
\* regions hold what tasks of this core have written.
THEOREM PipesTypeCorrect == Spec => []TypeOK
<1>1. ASSUME PipesInv PROVE TypeOK
  <2>1. Shapes /\ QueuesInOrder /\ WorkInOrder /\ RetiredAreOver
    BY <1>1 DEF PipesInv
  <2>2. ASSUME NEW e \in Others, NEW n \in 1..Len(queue[e]) PROVE Instruction(queue[e][n]).engine = e
    <3>1. queue[e][n] = At(queue[e][n].at) /\ EngineOf(kind, queue[e][n].at) = e
      BY <2>1 DEF QueuesInOrder, QueueInOrder
    <3>2. Instruction(queue[e][n]) = Program(kind)[queue[e][n].at]
      BY <3>1, InstructionAt
    <3> QED BY <3>1, <3>2 DEF EngineOf
  <2>3. ASSUME NEW e \in Engines, running[e] # None
        PROVE  Instruction(running[e]).engine = e /\ Instruction(running[e]).does = "operate"
    <3>1. CASE e = "S" /\ LagsBehind
      BY <3>1 DEF LagsBehind, Instruction, EngineOf, Does, IsOperation
    <3>2. ASSUME NEW i \in Taken, WorksOn(e, i)
          PROVE  Instruction(running[e]).engine = e /\ Instruction(running[e]).does = "operate"
      BY <3>2, InstructionAt DEF WorksOn, EngineOf, Does
    <3> QED BY <2>1, <2>3, <3>1, <3>2 DEF WorkInOrder, AtWorkInOrder
  <2>4. \A r \in Regions : ub[r][1] \in 0..TaskLimit
    BY <2>1 DEF Shapes
  <2>5. retired \subseteq 1..Len(Program(kind))
    BY <2>1, TakenFacts DEF RetiredAreOver, Over
  <2> QED BY <2>1, <2>2, <2>3, <2>4, <2>5 DEF TypeOK, Shapes, Others
<1> QED BY <1>1, PipesInvariant, PTL

\* A flag is lowered before it is raised again, however far the engines run apart, and a
\* kernel leaves none raised: FetchEventID may return the same event every time
\* (build_lru_plan.cpp 97-127).
THEOREM FlagsArePaired == Spec => []FlagsPaired
<1>1. ASSUME PipesInv PROVE FlagsPaired
  <2>1. Shapes /\ FlagsInOrder
    BY <1>1 DEF PipesInv
  <2>2. \A f \in Flags : flags[f] <= 1
    BY <2>1 DEF FlagsInOrder
  <2>3. ASSUME Idle, NEW f \in Flags PROVE flags[f] = 0
    <3>1. pc = 1
      BY <2>1, <2>3 DEF Idle, Shapes
    <3>2. Taken = {}
      BY <3>1 DEF Taken
    <3> QED BY <2>1, <3>2 DEF FlagsInOrder, Raised
  <2> QED BY <2>2, <2>3 DEF FlagsPaired
<1> QED BY <1>1, PipesInvariant, PTL

\* Two operations under way at the same time that share a region would be in the order of
\* the program, and the first be over.
LEMMA AtWorkIsApart ==
    ASSUME EnginesInOrder, NEW i \in AtWork, NEW j \in AtWork,
           Does(kind, i) = "operate", Does(kind, j) = "operate", i # j
    PROVE  ~Clash(Program(kind)[i], Program(kind)[j])
<1>1. i \in Taken /\ i \notin Over /\ j \in Taken /\ j \notin Over
  BY DEF AtWork, Over
<1>2. /\ i \in 1..Len(Program(kind)) /\ i \in Nat
      /\ j \in 1..Len(Program(kind)) /\ j \in Nat
  BY <1>1, TakenFacts DEF EnginesInOrder
<1>3. CASE i < j
  BY <1>1, <1>2, <1>3, ClashIsOrdered
<1>4. CASE j < i
  <2>1. ~Clash(Program(kind)[j], Program(kind)[i])
    BY <1>1, <1>2, <1>4, ClashIsOrdered
  <2> QED BY <2>1 DEF Clash
<1> QED BY <1>2, <1>3, <1>4

\* No two engines are ever at work on overlapping parts of the buffer if one of them writes,
\* neither inside a task nor between one task and the next.
THEOREM EnginesStayApart == Spec => []EnginesApart
<1>1. ASSUME PipesInv PROVE EnginesApart
  <2>1. EnginesInOrder /\ WorkInOrder
    BY <1>1 DEF PipesInv, EnginesInOrder
  <2>2. ASSUME LagsBehind PROVE Writes(running["S"]) = {}
    BY <2>2 DEF LagsBehind, Writes, Region, Instruction
  <2>3. ASSUME NEW e \in Engines, NEW i \in Taken, WorksOn(e, i)
        PROVE  /\ i \in AtWork /\ Does(kind, i) = "operate" /\ EngineOf(kind, i) = e
               /\ Writes(running[e]) = {<<kind.layout, name>> : name \in Program(kind)[i].writes}
               /\ Reads(running[e]) = {<<kind.layout, name>> : name \in Program(kind)[i].reads}
    BY <2>3, InstructionAt DEF WorksOn, AtWork, Writes, Reads, Region
  <2> SUFFICES ASSUME NEW e \in Engines, NEW f \in Engines, e # f, running[e] # None, running[f] # None,
                      NEW w \in Writes(running[e]), NEW r \in Touches(f), Overlap(w, r)
               PROVE  FALSE
    BY DEF EnginesApart
  <2>4. PICK i \in Taken : WorksOn(e, i)
    BY <2>1, <2>2 DEF WorkInOrder, AtWorkInOrder
  <2>5. PICK j \in Taken : WorksOn(f, j)
    BY <2>1, <2>2 DEF WorkInOrder, AtWorkInOrder, Touches
  <2>6. i \in AtWork /\ j \in AtWork /\ i # j /\ Does(kind, i) = "operate" /\ Does(kind, j) = "operate"
    BY <2>3, <2>4, <2>5
  <2>7. PICK name \in Program(kind)[i].writes : w = <<kind.layout, name>>
    BY <2>3, <2>4
  <2>8. PICK other \in Program(kind)[j].reads \cup Program(kind)[j].writes : r = <<kind.layout, other>>
    BY <2>3, <2>5 DEF Touches
  <2>9. name = other
    BY <2>7, <2>8 DEF Overlap
  <2>10. Clash(Program(kind)[i], Program(kind)[j])
    BY <2>7, <2>8, <2>9 DEF Clash
  <2> QED BY <2>1, <2>6, <2>10, AtWorkIsApart
<1> QED BY <1>1, PipesInvariant, PTL

\* An operation that begins finds in what it reads the last value before it in the order of
\* its program, and never one of an earlier task, of a late engine or of an early one.
LEMMA BeginReads ==
    ASSUME PipesInv, NEW e \in Engines, Begin(e), NEW r \in Reads(running'[e])
    PROVE  ub[r] = LastWriter(running'[e], r)
<1>1. EnginesInOrder /\ Shapes /\ QueuesInOrder /\ RetiredAreOver /\ RegionsHold
  BY DEF PipesInv, EnginesInOrder
<1>2. /\ HasNext(e) /\ running[e] = None /\ Instruction(NextOf(e)).does = "operate"
      /\ running' = [running EXCEPT ![e] = NextOf(e)] /\ Advance(e) /\ task' = task /\ kind' = kind
  BY DEF Begin
<1>3. PICK x : Takes(e, x)
  BY <1>1, <1>2, AdvanceQueues
<1>4. /\ x \in 1..Len(Program(kind)) /\ x <= pc /\ x \in Nat /\ EngineOf(kind, x) = e /\ x \notin Taken
      /\ Does(kind, x) = "operate" /\ running'[e] = At(x) /\ Len(Program(kind)) \in Nat
  BY <1>1, <1>2, <1>3, InstructionAt, KindFacts DEF Takes, Does, Shapes
<1>5. PICK name \in Program(kind)[x].reads : r = <<kind.layout, name>>
  BY <1>4, InstructionAt DEF Reads, Region
<1>6. PICK i \in 1 .. x - 1 : /\ IsOperation(kind, i) /\ name \in Program(kind)[i].writes
                              /\ \A h \in 1 .. x - 1 : name \in Program(kind)[h].writes => h <= i
  BY <1>1, <1>4, KindFacts DEF Sound, Sourced
<1>7. LastWriter(At(x), r) = <<task, i>>
  <2>1. \A h : [At(x) EXCEPT !.at = h] = At(h)
    BY DEF At
  <2>2. {h \in 1 .. At(x).at - 1 : r \in Writes([At(x) EXCEPT !.at = h])}
            = {h \in 1 .. x - 1 : name \in Program(kind)[h].writes}
    BY <1>5, <2>1, InstructionAt, WritesAt
  <2>3. PICK writers : writers = {h \in 1 .. x - 1 : name \in Program(kind)[h].writes}
    OBVIOUS
  <2>4. i \in writers /\ \A h \in writers : h <= i /\ h \in Nat
    BY <1>6, <2>3
  <2>5. ASSUME NEW m \in writers, \A h \in writers : h <= m PROVE m = i
    <3>1. i <= m /\ m <= i /\ m \in Nat /\ i \in Nat
      BY <2>4, <2>5
    <3> QED BY <3>1
  <2>6. (CHOOSE m \in writers : \A h \in writers : h <= m) = i
    BY <2>4, <2>5
  <2> QED BY <2>2, <2>3, <2>6, InstructionAt DEF LastWriter
<1>8. ASSUME NEW h \in 1..Len(Program(kind)), h < x, Does(kind, h) = "operate",
             name \in Program(kind)[h].writes
      PROVE  h \in Over
  <2>1. Clash(Program(kind)[h], Program(kind)[x])
    BY <1>5, <1>8 DEF Clash
  <2>2. CASE EngineOf(kind, h) = e
    <3>1. h \in 1 .. pc - 1
      BY <1>1, <1>4, <1>8, KindFacts
    <3>2. h \in Taken
      BY <1>3, <1>8, <2>2, <3>1 DEF Takes
    <3>3. h \notin AtWork
      BY <1>1, <1>2, <2>2, AtIsSomething DEF AtWork
    <3> QED BY <3>2, <3>3 DEF Over
  <2>3. CASE EngineOf(kind, h) # e
    <3>1. Ordered(kind)
      BY <1>1, KindFacts DEF Sound
    <3>2. Awaits(kind, h, x)
      BY <1>4, <1>8, <2>1, <2>3, <3>1 DEF Ordered, IsOperation
    <3> QED BY <1>1, <1>4, <3>2, AwaitedIsOver
  <2> QED BY <2>2, <2>3
<1>9. i \in retired
  <2>1. i \in 1..Len(Program(kind)) /\ i < x /\ Does(kind, i) = "operate"
    BY <1>4, <1>6 DEF IsOperation
  <2> QED BY <1>1, <1>6, <1>8, <2>1 DEF RetiredAreOver
<1>10. ASSUME NEW j \in retired, name \in Program(kind)[j].writes PROVE j <= i
  <2>1. j \in Taken /\ Does(kind, j) = "operate" /\ j \in 1..Len(Program(kind)) /\ j \in Nat
    BY <1>1, TakenFacts DEF RetiredAreOver, Over
  <2>2. CASE j < x
    BY <1>4, <1>6, <1>10, <2>1, <2>2
  <2>3. CASE j = x
    BY <1>4, <2>1, <2>3
  <2>4. CASE x < j
    <3>1. Clash(Program(kind)[x], Program(kind)[j])
      BY <1>5, <1>10 DEF Clash
    <3>2. x \in Over
      BY <1>1, <1>4, <2>1, <2>4, <3>1, ClashIsOrdered
    <3> QED BY <1>4, <3>2 DEF Over
  <2> QED BY <1>4, <2>1, <2>2, <2>3, <2>4
<1>11. ub[r] = <<task, i>>
  BY <1>1, <1>5, <1>6, <1>9, <1>10 DEF RegionsHold
<1> QED BY <1>4, <1>7, <1>11

\* No copy or scalar loop reads what an earlier task, or an engine that is late or early,
\* has left in the buffer.
THEOREM ReadsKeepOrder == Spec => ReadsInProgramOrder
<1>1. ASSUME PipesInv, [Next]_vars
      PROVE  [\A e \in Engines : running'[e] # running[e] /\ running'[e] # None =>
                  \A r \in Reads(running'[e]) : ub[r] = LastWriter(running'[e], r)]_vars
  <2> SUFFICES ASSUME NEW e \in Engines, running'[e] # running[e], running'[e] # None,
                      NEW r \in Reads(running'[e])
               PROVE  ub[r] = LastWriter(running'[e], r)
    OBVIOUS
  <2>1. Begin(e)
    <3>1. running' # running
      OBVIOUS
    <3>2. PICK f \in Engines : EngineStep(f)
      BY <1>1, <3>1 DEF Next, Issue, NextTask, TurnTo, KernelEnd, vars
    <3>3. Begin(f) \/ End(f)
      BY <3>1, <3>2 DEF EngineStep, Raise, Wait
    <3>4. DOMAIN running = Engines
      BY <1>1 DEF PipesInv, Shapes
    <3>5. f = e
      BY <3>3, <3>4 DEF Begin, End
    <3>6. ~End(e)
      BY <3>4 DEF End
    <3> QED BY <3>3, <3>5, <3>6
  <2> QED BY <1>1, <2>1, BeginReads
<1> QED BY <1>1, PipesInvariant, PTL DEF Spec, ReadsInProgramOrder

------------------------------------------------------------------------------
\* What global memory sees.

\* The copies out before i, and the n-th copy out, of what is left.
Ahead(left, i) == Cardinality({j \in left : j < i})

Nth(left, n) == CHOOSE i \in left : Ahead(left, i) = n-1

\* LeftToCopyOut of a kind of task of which R have ended.
Left(d, R) ==
    IF R = OperationsOf(d) \/ ~ (OperationsOf(d) \ CopyOutsOf(d)) \subseteq R
    THEN <<"in">>
    ELSE [n \in 1..Cardinality(CopyOutsOf(d) \ R) |-> Program(d)[Nth(CopyOutsOf(d) \ R, n)].tensor]

LEMMA LeftOf ==
    LeftToCopyOut = Left(kind, retired) /\ LeftToCopyOut' = Left(kind', retired')
BY DEF LeftToCopyOut, Left, Nth, Ahead

LEMMA LeftIsInput ==
    ASSUME NEW d, NEW R, R = OperationsOf(d) \/ ~ (OperationsOf(d) \ CopyOutsOf(d)) \subseteq R
    PROVE  Left(d, R) = <<"in">>
BY DEF Left

LEMMA LeftIsOne ==
    ASSUME NEW d, NEW R, R # OperationsOf(d), OperationsOf(d) \ CopyOutsOf(d) \subseteq R,
           NEW a \in Nat, CopyOutsOf(d) \ R = {a}
    PROVE  Left(d, R) = <<Program(d)[a].tensor>>
<1>1. Cardinality({a}) = 1
  BY FS_Singleton
<1>2. Ahead({a}, a) = 0
  <2>1. {j \in {a} : j < a} = {}
    OBVIOUS
  <2> QED BY <2>1, FS_EmptySet DEF Ahead
<1>3. Nth({a}, 1) = a
  BY <1>2 DEF Nth
<1>4. Left(d, R) = [n \in 1..1 |-> Program(d)[Nth({a}, n)].tensor]
  BY <1>1 DEF Left
<1> QED BY <1>3, <1>4

LEMMA LeftIsTwo ==
    ASSUME NEW d, NEW R, R # OperationsOf(d), OperationsOf(d) \ CopyOutsOf(d) \subseteq R,
           NEW a \in Nat, NEW b \in Nat, a < b, CopyOutsOf(d) \ R = {a, b}
    PROVE  Left(d, R) = <<Program(d)[a].tensor, Program(d)[b].tensor>>
<1>1. Cardinality({a, b}) = 2
  <2>1. IsFiniteSet({a}) /\ Cardinality({a}) = 1
    BY FS_Singleton
  <2>2. b \notin {a} /\ {a, b} = {a} \cup {b}
    OBVIOUS
  <2> QED BY <2>1, <2>2, FS_AddElement
<1>2. Ahead({a, b}, a) = 0
  <2>1. {j \in {a, b} : j < a} = {}
    OBVIOUS
  <2> QED BY <2>1, FS_EmptySet DEF Ahead
<1>3. Ahead({a, b}, b) = 1
  <2>1. {j \in {a, b} : j < b} = {a}
    OBVIOUS
  <2> QED BY <2>1, FS_Singleton DEF Ahead
<1>4. Nth({a, b}, 1) = a
  BY <1>2, <1>3 DEF Nth
<1>5. Nth({a, b}, 2) = b
  BY <1>2, <1>3 DEF Nth
<1>6. Left(d, R) = [n \in 1..2 |-> Program(d)[Nth({a, b}, n)].tensor]
  BY <1>1 DEF Left
<1> QED BY <1>4, <1>5, <1>6

\* The ways in which an operation that ends shows in global memory.
Unseen(d, R, Q) ==
    Left(d, R) = <<"in">> /\ Left(d, Q) = <<"in">> /\ R # OperationsOf(d) /\ Q # OperationsOf(d)

Computed(d, R, Q, n) ==
    /\ Left(d, R) = <<"in">> /\ R # OperationsOf(d)
    /\ \/ Left(d, Q) \in Tasks!OutsOf(n) \ {<<>>} /\ Q # OperationsOf(d)
       \/ Left(d, Q) = <<"in">> /\ <<>> \in Tasks!OutsOf(n) /\ Q = OperationsOf(d)

CopiedOut(d, R, Q) ==
    /\ Left(d, R) # <<"in">> /\ R # OperationsOf(d)
    /\ \/ Left(d, Q) = Tail(Left(d, R)) /\ Left(d, Q) # <<>> /\ Q # OperationsOf(d)
       \/ Left(d, Q) = <<"in">> /\ Tail(Left(d, R)) = <<>> /\ Q = OperationsOf(d)

\* An operation ends: copies out end behind all others, and in their order.
LEMMA EndShows ==
    ASSUME NEW d, NEW n, Formed(d), InTurn(d, n), NEW R, R \subseteq OperationsOf(d),
           NEW i \in OperationsOf(d) \ R, NEW Q, Q = R \cup {i},
           i \in CopyOutsOf(d) => OperationsOf(d) \ CopyOutsOf(d) \subseteq R,
           \A g, h \in CopyOutsOf(d) : g < h /\ h \in Q => g \in R,
           R \cap CopyOutsOf(d) # {} => OperationsOf(d) \ CopyOutsOf(d) \subseteq R
    PROVE  Unseen(d, R, Q) \/ Computed(d, R, Q, n) \/ CopiedOut(d, R, Q)
<1>1. PICK O : O = OperationsOf(d)
  OBVIOUS
<1>2. PICK C : C = CopyOutsOf(d)
  OBVIOUS
<1>3. C \subseteq O /\ O \subseteq Nat /\ R \subseteq O /\ i \in O /\ i \notin R /\ R # O
  BY <1>1, <1>2 DEF Formed, OperationsOf, CopyOutsOf
<1>4. O \ C # {} /\ \A h \in O \ C, j \in C : h < j
  BY <1>1, <1>2 DEF InTurn
<1>5. CASE ~ O \ C \subseteq Q
  <2>1. ~ O \ C \subseteq R /\ Q # O
    BY <1>3, <1>5
  <2> QED BY <1>1, <1>2, <1>3, <1>5, <2>1, LeftIsInput DEF Unseen
<1>6. CASE O \ C \subseteq Q /\ ~ O \ C \subseteq R
  <2>1. i \in O \ C /\ R \cap C = {} /\ C \ Q = C
    BY <1>1, <1>2, <1>3, <1>6
  <2>2. Left(d, R) = <<"in">>
    BY <1>1, <1>2, <1>6, LeftIsInput
  <2>3. CASE C = {} /\ <<>> \in Tasks!OutsOf(n)
    <3>1. Q = O
      BY <1>3, <1>6, <2>3
    <3> QED BY <1>1, <1>3, <2>2, <2>3, <3>1, LeftIsInput DEF Computed
  <2>4. ASSUME NEW a \in C, C = {a}, <<Program(d)[a].tensor>> \in Tasks!OutsOf(n)
        PROVE  Computed(d, R, Q, n)
    <3>1. Q # O
      BY <1>3, <2>1, <2>4
    <3>2. Left(d, Q) = <<Program(d)[a].tensor>>
      BY <1>1, <1>2, <1>3, <1>6, <2>1, <2>4, <3>1, LeftIsOne
    <3>3. <<Program(d)[a].tensor>> # <<>>
      OBVIOUS
    <3> QED BY <1>1, <1>3, <2>2, <2>4, <3>1, <3>2, <3>3 DEF Computed
  <2>5. ASSUME NEW a \in C, NEW b \in C, C = {a, b}, a < b,
               <<Program(d)[a].tensor, Program(d)[b].tensor>> \in Tasks!OutsOf(n)
        PROVE  Computed(d, R, Q, n)
    <3>1. Q # O /\ a \in Nat /\ b \in Nat /\ CopyOutsOf(d) \ Q = {a, b}
      BY <1>2, <1>3, <2>1, <2>5
    <3>2. Left(d, Q) = <<Program(d)[a].tensor, Program(d)[b].tensor>>
      BY <1>1, <1>2, <1>6, <2>5, <3>1, LeftIsTwo
    <3>3. <<Program(d)[a].tensor, Program(d)[b].tensor>> # <<>>
      OBVIOUS
    <3> QED BY <1>1, <1>3, <2>2, <2>5, <3>1, <3>2, <3>3 DEF Computed
  <2> QED BY <1>2, <2>3, <2>4, <2>5 DEF InTurn
<1>7. CASE O \ C \subseteq R
  <2>1. i \in C /\ O \ C \subseteq Q /\ \A g, h \in C : g < h /\ h \in Q => g \in R
    BY <1>1, <1>2, <1>3, <1>7
  <2>2. ASSUME NEW a \in C, C = {a}, Program(d)[a].tensor # "in" PROVE CopiedOut(d, R, Q)
    <3>1. C \ R = {a} /\ Q = O
      BY <1>3, <1>7, <2>1, <2>2
    <3>2. Left(d, R) = <<Program(d)[a].tensor>>
      BY <1>1, <1>2, <1>3, <1>7, <3>1, LeftIsOne
    <3>3. Left(d, Q) = <<"in">>
      BY <1>1, <3>1, LeftIsInput
    <3>4. Left(d, R) # <<"in">> /\ Tail(Left(d, R)) = <<>>
      BY <2>2, <3>2
    <3> QED BY <1>1, <1>3, <3>1, <3>3, <3>4 DEF CopiedOut
  <2>3. ASSUME NEW a \in C, NEW b \in C, C = {a, b}, a < b, Program(d)[b].tensor # "in"
        PROVE  CopiedOut(d, R, Q)
    <3>1. CASE i = a
      <4>1. /\ C \ R = {a, b} /\ C \ Q = {b} /\ Q # O
            /\ a \in Nat /\ b \in Nat /\ CopyOutsOf(d) \ R = {a, b}
        <5>1. a \in Nat /\ b \in Nat
          BY <1>3, <2>3
        <5>2. a \notin R /\ b \notin R
          BY <1>3, <2>1, <2>3, <3>1
        <5> QED BY <1>2, <1>3, <2>3, <3>1, <5>1, <5>2
      <4>2. Left(d, R) = <<Program(d)[a].tensor, Program(d)[b].tensor>>
        BY <1>1, <1>2, <1>3, <1>7, <2>3, <4>1, LeftIsTwo
      <4>3. Left(d, Q) = <<Program(d)[b].tensor>>
        BY <1>1, <1>2, <1>3, <2>1, <4>1, LeftIsOne
      <4>4. Left(d, R) # <<"in">> /\ Left(d, Q) = Tail(Left(d, R)) /\ Left(d, Q) # <<>>
        BY <4>2, <4>3
      <4> QED BY <1>1, <1>3, <4>1, <4>4 DEF CopiedOut
    <3>2. CASE i = b
      <4>1. C \ R = {b} /\ Q = O
        BY <1>3, <1>7, <2>1, <2>3, <3>2
      <4>2. Left(d, R) = <<Program(d)[b].tensor>>
        BY <1>1, <1>2, <1>3, <1>7, <4>1, LeftIsOne
      <4>3. Left(d, Q) = <<"in">>
        BY <1>1, <4>1, LeftIsInput
      <4>4. Left(d, R) # <<"in">> /\ Tail(Left(d, R)) = <<>>
        BY <2>3, <4>2
      <4> QED BY <1>1, <1>3, <4>1, <4>3, <4>4 DEF CopiedOut
    <3> QED BY <2>1, <2>3, <3>1, <3>2
  <2> QED BY <1>2, <2>1, <2>2, <2>3 DEF InTurn
<1> QED BY <1>5, <1>6, <1>7

\* What comes before a copy out that has been taken has ended.
LEMMA BeforeCopyOut ==
    ASSUME PipesInv, NEW j \in Taken, j \in CopyOutsOf(kind), NEW h \in OperationsOf(kind), h < j
    PROVE  h \in retired
<1>1. EnginesInOrder /\ Shapes /\ RetiredAreOver
  BY DEF PipesInv, EnginesInOrder
<1>2. Formed(kind)
  BY <1>1, KindFacts DEF Sound
<1>3. h \in 1..Len(Program(kind)) /\ Does(kind, h) = "operate"
  BY DEF OperationsOf, Does
<1>4. j \in 1..Len(Program(kind)) /\ Does(kind, j) = "operate" /\ Program(kind)[j].tensor # "none"
  BY DEF OperationsOf, CopyOutsOf, Does
<1>5. EngineOf(kind, j) = "MTE3"
  BY <1>2, <1>4 DEF Formed
<1>6. h \in Over
  BY <1>1, <1>3, <1>4, <1>5, ClashIsOrdered
<1> QED BY <1>1, <1>3, <1>6 DEF RetiredAreOver

\* What is at work ends in turn.
LEMMA AtWorkEndsInTurn ==
    ASSUME PipesInv, NEW e \in Engines, NEW i \in Taken, WorksOn(e, i), NEW Q, Q = retired \cup {i}
    PROVE  Unseen(kind, retired, Q) \/ Computed(kind, retired, Q, kernel) \/ CopiedOut(kind, retired, Q)
<1>1. Shapes /\ RetiredAreOver
  BY DEF PipesInv
<1>2. Formed(kind) /\ InTurn(kind, kernel)
  BY <1>1, ProgramsInTurn DEF Shapes, Sound
<1>3. OperationsOf(kind) = {j \in 1..Len(Program(kind)) : Does(kind, j) = "operate"}
  BY DEF OperationsOf, Does
<1>4. retired \subseteq OperationsOf(kind) /\ retired \subseteq Taken
  BY <1>1, <1>3, TakenFacts DEF RetiredAreOver, Over
<1>5. i \in OperationsOf(kind) \ retired
  <2>1. i \in AtWork /\ Does(kind, i) = "operate"
    BY DEF WorksOn, AtWork
  <2> QED BY <1>1, <1>3, <2>1, TakenFacts DEF RetiredAreOver, Over
<1>6. Q \subseteq Taken
  BY <1>4
<1>7. CopyOutsOf(kind) \subseteq OperationsOf(kind)
  BY DEF CopyOutsOf
<1>8. ASSUME NEW j \in Q \cap CopyOutsOf(kind) PROVE OperationsOf(kind) \ CopyOutsOf(kind) \subseteq retired
  <2> SUFFICES ASSUME NEW h \in OperationsOf(kind) \ CopyOutsOf(kind) PROVE h \in retired
    OBVIOUS
  <2>1. h < j
    BY <1>2 DEF InTurn
  <2> QED BY <1>6, <2>1, BeforeCopyOut
<1>9. ASSUME NEW g \in CopyOutsOf(kind), NEW h \in CopyOutsOf(kind), g < h, h \in Q PROVE g \in retired
  BY <1>6, <1>7, <1>9, BeforeCopyOut
<1>10. i \in CopyOutsOf(kind) => OperationsOf(kind) \ CopyOutsOf(kind) \subseteq retired
  BY <1>8
<1>11. retired \cap CopyOutsOf(kind) # {} => OperationsOf(kind) \ CopyOutsOf(kind) \subseteq retired
  BY <1>8
<1>12. \A g, h \in CopyOutsOf(kind) : g < h /\ h \in Q => g \in retired
  BY <1>9
<1> QED BY <1>2, <1>4, <1>5, <1>10, <1>11, <1>12, EndShows

\* A step as global memory sees it.
CoreStep == [Tasks!Compute \/ Tasks!CopyOutNext]_(Tasks!coreTaskVars)

LEMMA SameIsStutter ==
    ASSUME kernel' = kernel, TasksDone' = TasksDone, LeftToCopyOut' = LeftToCopyOut
    PROVE  CoreStep
BY DEF CoreStep, Tasks!coreTaskVars

LEMMA EndIsStep == \A e \in Engines : PipesInv /\ End(e) => CoreStep
<1> SUFFICES ASSUME NEW e \in Engines, PipesInv, End(e) PROVE CoreStep
  OBVIOUS
<1>1. Shapes /\ WorkInOrder
  BY DEF PipesInv
<1>2. PICK entry : entry = running[e]
  OBVIOUS
<1>3. /\ entry # None /\ retired' = IF entry.task = task THEN retired \cup {entry.at} ELSE retired
      /\ kernel' = kernel /\ task' = task /\ kind' = kind
  BY <1>2 DEF End
<1>4. CASE e = "S" /\ LagsBehind
  <2>1. entry.task # task
    BY <1>1, <1>2, <1>4, KindFacts DEF LagsBehind
  <2>2. retired' = retired
    BY <1>3, <2>1
  <2>3. TasksDone' = TasksDone /\ LeftToCopyOut' = LeftToCopyOut
    BY <1>3, <2>2, LeftOf DEF TasksDone
  <2> QED BY <1>3, <2>3, SameIsStutter
<1>5. ASSUME NEW i \in Taken, WorksOn(e, i) PROVE CoreStep
  <2>1. entry = At(i) /\ entry.task = task /\ entry.at = i
    BY <1>2, <1>5, InstructionAt DEF WorksOn
  <2>2. retired' = retired \cup {i}
    BY <1>3, <2>1
  <2>3. task <= TaskLimit /\ task \in Nat /\ TaskLimit \in Nat
    <3>1. i < pc /\ i \in 1..Len(Program(kind)) /\ Len(Program(kind)) \in Nat
      BY <1>1, TakenFacts, KindFacts
    <3>2. pc # 1
      BY <3>1
    <3> QED BY <1>1, <3>2, KindFacts DEF Shapes
  <2>4. PICK R : R = retired
    OBVIOUS
  <2>5. PICK Q : Q = retired'
    OBVIOUS
  <2>6. /\ LeftToCopyOut = Left(kind, R) /\ LeftToCopyOut' = Left(kind, Q)
        /\ TasksDone = IF R = OperationsOf(kind) THEN task ELSE task - 1
        /\ TasksDone' = IF Q = OperationsOf(kind) THEN task ELSE task - 1
    BY <1>3, <2>3, <2>4, <2>5, LeftOf DEF TasksDone
  <2>7. Unseen(kind, R, Q) \/ Computed(kind, R, Q, kernel) \/ CopiedOut(kind, R, Q)
    BY <1>5, <2>2, <2>4, <2>5, AtWorkEndsInTurn
  <2>8. CASE Unseen(kind, R, Q)
    <3>1. TasksDone' = TasksDone /\ LeftToCopyOut' = LeftToCopyOut
      BY <2>6, <2>8 DEF Unseen
    <3> QED BY <1>3, <3>1, SameIsStutter
  <2>9. CASE Computed(kind, R, Q, kernel)
    <3>1. LeftToCopyOut = <<"in">> /\ TasksDone = task - 1 /\ TasksDone < TaskLimit
      BY <2>3, <2>6, <2>9 DEF Computed
    <3>2. PICK tensors \in Tasks!OutsOf(kernel) : Tasks!Leave(tensors)
      <4>1. CASE Left(kind, Q) \in Tasks!OutsOf(kernel) \ {<<>>} /\ Q # OperationsOf(kind)
        BY <2>6, <3>1, <4>1 DEF Tasks!Leave
      <4>2. CASE Left(kind, Q) = <<"in">> /\ <<>> \in Tasks!OutsOf(kernel) /\ Q = OperationsOf(kind)
        BY <2>3, <2>6, <3>1, <4>2 DEF Tasks!Leave
      <4> QED BY <2>9, <4>1, <4>2 DEF Computed
    <3>3. Tasks!Compute
      BY <1>3, <3>1, <3>2 DEF Tasks!Compute
    <3> QED BY <3>3 DEF CoreStep
  <2>10. CASE CopiedOut(kind, R, Q)
    <3>1. LeftToCopyOut # <<"in">> /\ TasksDone = task - 1
      BY <2>6, <2>10 DEF CopiedOut
    <3>2. Tasks!Leave(Tail(LeftToCopyOut))
      <4>1. ASSUME Left(kind, Q) = Tail(Left(kind, R)), Left(kind, Q) # <<>>, Q # OperationsOf(kind)
            PROVE  Tasks!Leave(Tail(LeftToCopyOut))
        <5>1. LeftToCopyOut' = Tail(LeftToCopyOut) /\ Tail(LeftToCopyOut) # <<>>
          BY <2>6, <4>1
        <5>2. TasksDone' = TasksDone
          BY <2>6, <3>1, <4>1
        <5> QED BY <5>1, <5>2 DEF Tasks!Leave
      <4>2. ASSUME Left(kind, Q) = <<"in">>, Tail(Left(kind, R)) = <<>>, Q = OperationsOf(kind)
            PROVE  Tasks!Leave(Tail(LeftToCopyOut))
        <5>1. Tail(LeftToCopyOut) = <<>> /\ LeftToCopyOut' = <<"in">>
          BY <2>6, <4>2
        <5>2. TasksDone' = TasksDone + 1
          BY <2>3, <2>6, <3>1, <4>2
        <5> QED BY <5>1, <5>2 DEF Tasks!Leave
      <4> QED BY <2>10, <4>1, <4>2 DEF CopiedOut
    <3>3. Tasks!CopyOutNext
      BY <1>3, <3>1, <3>2 DEF Tasks!CopyOutNext
    <3> QED BY <3>3 DEF CoreStep
  <2> QED BY <2>7, <2>8, <2>9, <2>10
<1> QED BY <1>1, <1>2, <1>3, <1>4, <1>5 DEF WorkInOrder, AtWorkInOrder

\* The core turns to its next task when the copies out have ended; only a scalar loop without
\* any may not have.
LEMMA NextTaskIsStep == PipesInv /\ NextTask => CoreStep
<1> SUFFICES ASSUME PipesInv, NextTask PROVE CoreStep
  OBVIOUS
<1>1. Shapes /\ EnginesInOrder /\ RetiredAreOver
  BY DEF PipesInv, EnginesInOrder
<1>2. /\ task <= TaskLimit /\ pc > Len(Program(kind)) /\ task' = task + 1 /\ kind' \in Kinds(kernel)
      /\ retired' = {} /\ kernel' = kernel
  BY DEF NextTask, TurnTo
<1>3. task \in Nat /\ TaskLimit \in Nat
  BY <1>1, KindFacts
<1>4. /\ Taken = 1..Len(Program(kind))
      /\ \A e \in Engines : running[e] # None =>
            e = "S" /\ (LagsBehind \/ \E i \in Taken : WorksOn(e, i) /\ Program(kind)[i].writes = {})
  BY <1>1, <1>2, ProgramIsThrough
<1>5. LeftToCopyOut' = <<"in">> /\ TasksDone' = task
  <2>1. InTurn(kind', kernel)
    BY <1>1, <1>2, ProgramsInTurn DEF Shapes
  <2>2. OperationsOf(kind') \ CopyOutsOf(kind') # {}
    BY <2>1 DEF InTurn
  <2>3. LeftToCopyOut' = Left(kind', {})
    BY <1>2, LeftOf
  <2>4. Left(kind', {}) = <<"in">>
    BY <2>2, LeftIsInput
  <2>5. ~ retired' = OperationsOf(kind')
    BY <1>2, <2>2
  <2>6. TasksDone' = task' - 1
    BY <2>5 DEF TasksDone
  <2> QED BY <1>2, <1>3, <2>3, <2>4, <2>6
<1>6. CASE retired = OperationsOf(kind)
  <2>1. LeftToCopyOut = <<"in">>
    BY <1>6, LeftOf, LeftIsInput
  <2>2. TasksDone = task
    BY <1>2, <1>6 DEF TasksDone
  <2> QED BY <1>2, <1>5, <2>1, <2>2, SameIsStutter
<1>7. CASE retired # OperationsOf(kind)
  <2>1. PICK i : i \in OperationsOf(kind) /\ i \notin retired
    <3>1. retired \subseteq OperationsOf(kind)
      BY <1>1, <1>4 DEF RetiredAreOver, Over, OperationsOf, Does
    <3> QED BY <1>7, <3>1
  <2>2. i \in 1..Len(Program(kind)) /\ Does(kind, i) = "operate" /\ i \in AtWork
    BY <1>1, <1>4, <2>1 DEF RetiredAreOver, Over, OperationsOf, Does
  <2>3. EngineOf(kind, i) \in Engines /\ running[EngineOf(kind, i)] = At(i)
    BY <1>1, <2>2, PositionFacts DEF AtWork
  <2>4. EngineOf(kind, i) = "S"
    BY <1>1, <1>4, <2>3, AtIsSomething
  <2>5. Formed(kind) /\ InTurn(kind, kernel)
    BY <1>1, ProgramsInTurn DEF Shapes, Sound
  <2>6. i \in OperationsOf(kind) \ CopyOutsOf(kind)
    BY <2>1, <2>2, <2>4, <2>5 DEF Formed, CopyOutsOf
  <2>7. CopyOutsOf(kind) = {}
    <3> SUFFICES ASSUME NEW j \in CopyOutsOf(kind) PROVE FALSE
      OBVIOUS
    <3>1. i < j
      BY <2>5, <2>6 DEF InTurn
    <3>2. j \in Taken
      BY <1>4 DEF CopyOutsOf, OperationsOf
    <3> QED BY <2>1, <3>1, <3>2, BeforeCopyOut
  <2>8. <<>> \in Tasks!OutsOf(kernel)
    BY <2>5, <2>7 DEF InTurn
  <2>9. LeftToCopyOut = <<"in">>
    <3>1. ~ (OperationsOf(kind) \ CopyOutsOf(kind)) \subseteq retired
      BY <2>1, <2>6
    <3> QED BY <3>1, LeftOf, LeftIsInput
  <2>10. TasksDone = task - 1
    BY <1>7 DEF TasksDone
  <2>11. Tasks!Leave(<<>>) /\ TasksDone < TaskLimit
    BY <1>2, <1>3, <1>5, <2>10 DEF Tasks!Leave
  <2>12. Tasks!Compute
    BY <1>2, <2>8, <2>9, <2>11 DEF Tasks!Compute
  <2> QED BY <2>12 DEF CoreStep
<1> QED BY <1>6, <1>7

LEMMA StepIsCoreStep == PipesInv /\ [Next]_vars => CoreStep
<1> SUFFICES ASSUME PipesInv, [Next]_vars PROVE CoreStep
  OBVIOUS
<1>1. ASSUME kernel' = kernel, task' = task, kind' = kind, retired' = retired PROVE CoreStep
  <2>1. TasksDone' = TasksDone /\ LeftToCopyOut' = LeftToCopyOut
    BY <1>1, LeftOf DEF TasksDone
  <2> QED BY <1>1, <2>1, SameIsStutter
<1>2. CASE Issue \/ KernelEnd \/ UNCHANGED vars
  BY <1>1, <1>2 DEF Issue, KernelEnd, vars
<1>3. CASE NextTask
  BY <1>3, NextTaskIsStep
<1>4. ASSUME NEW e \in Engines, Begin(e) \/ Raise(e) \/ Wait(e) PROVE CoreStep
  BY <1>1, <1>4 DEF Begin, Raise, Wait
<1>5. ASSUME NEW e \in Engines, End(e) PROVE CoreStep
  BY <1>5, EndIsStep
<1> QED BY <1>2, <1>3, <1>4, <1>5 DEF Next, EngineStep

LEMMA InitIsCoreInit == Init => Tasks!CoreTasksInit
<1> SUFFICES ASSUME Init PROVE Tasks!CoreTasksInit
  OBVIOUS
<1>1. kernel \in 1..4 /\ task = 1 /\ kind \in Kinds(kernel) /\ retired = {}
  BY DEF Init
<1>2. OperationsOf(kind) \ CopyOutsOf(kind) # {}
  BY <1>1, ProgramsInTurn DEF InTurn
<1>3. LeftToCopyOut = <<"in">>
  BY <1>1, <1>2, LeftOf, LeftIsInput
<1>4. TasksDone = 0
  BY <1>1, <1>2 DEF TasksDone
<1> QED BY <1>1, <1>3, <1>4 DEF Tasks!CoreTasksInit

\* Seen from global memory a core works task by task: it copies out only when it has computed,
\* in the order of the program, and completes its tasks, however its engines interleave. What
\* BuildLruPlan takes for granted of its cores; CopiesOutInOrder adds that they get on.
THEOREM PipesRefineTasks ==
    Spec => Tasks!CoreTasksInit /\ [][Tasks!Compute \/ Tasks!CopyOutNext]_(Tasks!coreTaskVars)
<1>1. PipesInv /\ [Next]_vars => [Tasks!Compute \/ Tasks!CopyOutNext]_(Tasks!coreTaskVars)
  BY StepIsCoreStep DEF CoreStep
<1> QED BY <1>1, InitIsCoreInit, PipesInvariant, PTL DEF Spec
==============================================================================

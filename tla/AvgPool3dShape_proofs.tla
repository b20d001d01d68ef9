------------------------ MODULE AvgPool3dShape_proofs ------------------------
(***************************************************************************)
(* The shape arithmetic of avg_pool3d, for every call: whatever the lists  *)
(* hold, the sizes count the places of proper windows, but for one too     *)
(* many if a window is longer than the padded input, and no window lies in *)
(* the padding alone.                                                      *)
(***************************************************************************)
EXTENDS AvgPool3dShape, FiniteSetTheorems, TLAPS

\* Truncating division is an integer, and division of naturals.
LEMMA TruncDivIs ==
    ASSUME NEW a \in Int, NEW b \in Int, b # 0
    PROVE  /\ TruncDiv(a, b) \in Int
           /\ a >= 0 /\ b > 0 => TruncDiv(a, b) = a \div b
<1>1. Abs(a) \in Nat /\ Abs(b) \in Nat \ {0}
  BY DEF Abs
<1>2. Abs(a) \div Abs(b) \in Nat
  BY <1>1
<1>3. TruncDiv(a, b) \in Int
  BY <1>2 DEF TruncDiv
<1>4. ASSUME a >= 0, b > 0 PROVE TruncDiv(a, b) = a \div b
  BY <1>4 DEF TruncDiv, Abs
<1> QED BY <1>3, <1>4

\* A quotient times its divisor.
LEMMA Quotient ==
    ASSUME NEW a \in Nat, NEW b \in Nat \ {0}
    PROVE  /\ a \div b \in Nat
           /\ (a \div b) * b <= a /\ a < (a \div b) * b + b
           /\ a % b = a - (a \div b) * b
BY Z3

\* CeilDiv rounds up.
LEMMA CeilDivIs ==
    ASSUME NEW a \in Int, NEW b \in Int, b # 0
    PROVE  /\ CeilDiv(a, b) \in Int
           /\ a >= 0 /\ b > 0 => CeilDiv(a, b) * b < a + b /\ a <= CeilDiv(a, b) * b
<1>1. CeilDiv(a, b) \in {TruncDiv(a, b), TruncDiv(a, b) + 1}
  BY DEF CeilDiv
<1>2. CeilDiv(a, b) \in Int
  BY <1>1, TruncDivIs
<1>3. ASSUME a >= 0, b > 0 PROVE CeilDiv(a, b) * b < a + b /\ a <= CeilDiv(a, b) * b
  <2>a. a \in Nat /\ b \in Nat \ {0} /\ Abs(a) = a /\ Abs(b) = b
    BY <1>3 DEF Abs
  <2>b. TruncDiv(a, b) = a \div b
    BY <1>3, TruncDivIs
  <2>1. TruncDiv(a, b) = a \div b /\ a \in Nat /\ b \in Nat \ {0} /\ Abs(a) = a /\ Abs(b) = b
    BY <2>a, <2>b
  <2> DEFINE q == a \div b
  <2>2. q \in Nat /\ q * b <= a /\ a < q * b + b /\ a % b = a - q * b
    BY <2>1, Quotient
  <2>3. CASE a % b = 0
    <3>1. CeilDiv(a, b) = q
      BY <2>1, <2>3 DEF CeilDiv
    <3> HIDE DEF q
    <3> QED BY <3>1, <2>1, <2>2, <2>3
  <2>4. CASE a % b # 0
    <3>1. CeilDiv(a, b) = q + 1
      BY <2>1, <2>4 DEF CeilDiv
    <3> HIDE DEF q
    <3>2. q * b < a
      BY <2>1, <2>2, <2>4
    <3>3. (q + 1) * b = q * b + b
      BY <2>1, <2>2
    <3>4. q * b + b < a + b /\ a <= q * b + b
      BY <3>2, <2>1, <2>2
    <3> QED BY <3>1, <3>3, <3>4
  <2> QED BY <2>3, <2>4
<1> QED BY <1>2, <1>3

\* Multiplying by a stride keeps the order.
LEMMA TimesKeepsOrder ==
    ASSUME NEW a \in Int, NEW b \in Int, NEW s \in Nat \ {0}
    PROVE  a <= b <=> a * s <= b * s
<1>1. ASSUME NEW x \in Int, NEW y \in Int, x <= y PROVE x * s <= y * s
  BY <1>1, Z3
<1>2. ASSUME b < a PROVE b * s < a * s
  <2>1. (b + 1) * s <= a * s
    BY <1>1, <1>2
  <2>2. (b + 1) * s = b * s + s /\ b * s \in Int /\ a * s \in Int
    BY Z3
  <2> QED BY <2>1, <2>2
<1>3. a * s \in Int /\ b * s \in Int
  OBVIOUS
<1> QED BY <1>1, <1>2, <1>3

------------------------------------------------------------------------------
\* What a list is generalised to has three integers.
LEMMA GeneralizedIs ==
    ASSUME NEW list \in Seq(Int), NEW g \in Generalized(list)
    PROVE  g \in [Dims -> Int]
<1>1. CASE Len(list) = 1
  <2>1. list \in [1..Len(list) -> Int]
    OBVIOUS
  <2>2. list[1] \in Int
    BY <1>1, <2>1
  <2> QED BY <1>1, <2>2 DEF Generalized, Triple, Dims
<1>2. CASE Len(list) # 1
  <2>1. \A i \in DOMAIN list : list[i] \in Int
    OBVIOUS
  <2>2. g \in [Dims -> {list[i] : i \in DOMAIN list} \cup Junk]
    BY <1>2 DEF Generalized
  <2> QED BY <2>1, <2>2, JunkAssumption
<1> QED BY <1>1, <1>2

------------------------------------------------------------------------------
\* Beside its type, a size that was given is the one computed, from a positive number of
\* windows.
Inv ==
    /\ ShapeTypeOK
    /\ stage = "sized" => \A i \in Dims : output_size[i] = PooledSize(i) /\ Unclipped(i) > 0

LEMMA SizesAreIntegers ==
    ASSUME ShapeTypeOK, stage \in {"output", "sized"}, NEW i \in Dims
    PROVE  /\ Size(i) \in Nat
           /\ kernels[i] \in Int /\ strides[i] \in Int /\ strides[i] # 0 /\ paddings[i] \in Nat
           /\ 2 * paddings[i] <= kernels[i] \/ kernels[i] <= 0
           /\ Slack(i) \in Int /\ Unclipped(i) \in Int /\ PooledSize(i) \in Int
<1>1. kernels[i] \in Int /\ strides[i] \in Int /\ strides[i] # 0 /\ paddings[i] \in Nat
  BY DEF ShapeTypeOK
<1>2. Size(i) \in Nat
  <2>1. call.self \in Seq(Nat) /\ Len(call.self) > 2
    BY CallsAssumption DEF ShapeTypeOK
  <2>2. Len(call.self) - 3 + i \in 1..Len(call.self)
    BY <2>1 DEF Dims
  <2>3. call.self \in [1..Len(call.self) -> Nat]
    BY <2>1
  <2> QED BY <2>2, <2>3 DEF Size
<1>3. 2 * paddings[i] <= kernels[i] \/ kernels[i] <= 0
  <2>1. paddings[i] <= TruncDiv(kernels[i], 2)
    BY DEF ShapeTypeOK
  <2>2. CASE kernels[i] > 0
    <3>1. TruncDiv(kernels[i], 2) = kernels[i] \div 2
      BY <1>1, <2>2, TruncDivIs
    <3>2. kernels[i] \in Nat
      BY <1>1, <2>2
    <3>3. (kernels[i] \div 2) \in Nat /\ (kernels[i] \div 2) * 2 <= kernels[i]
      BY <3>2
    <3> QED BY <1>1, <2>1, <3>1, <3>3
  <2> QED BY <1>1, <2>2
<1>4. Slack(i) \in Int
  BY <1>1, <1>2 DEF Slack
<1>5. Unclipped(i) \in Int
  <2>1. TruncDiv(Slack(i), strides[i]) \in Int
    BY <1>1, <1>4, TruncDivIs
  <2>2. CeilDiv(Slack(i), strides[i]) \in Int
    BY <1>1, <1>4, CeilDivIs
  <2> QED BY <2>1, <2>2 DEF Unclipped
<1>6. PooledSize(i) \in Int
  BY <1>5 DEF PooledSize, Clipped
<1> QED BY <1>1, <1>2, <1>3, <1>4, <1>5, <1>6

\* A window that starts before the end of the input meets it, if it is no longer than twice
\* the padding ...
LEMMA WindowMeetsInput ==
    ASSUME NEW n \in Nat \ {0}, NEW k \in Nat \ {0}, NEW p \in Nat, NEW f \in Int,
           2 * p <= k, -p <= f, f < n
    PROVE  \E q \in 0..n - 1 : q \in f..f + k - 1
<1>1. CASE f >= 0
  <2>1. f \in 0..n - 1 /\ f \in f..f + k - 1
    BY <1>1
  <2> QED BY <2>1
<1>2. CASE f < 0
  <2>1. 0 \in 0..n - 1 /\ 0 \in f..f + k - 1
    BY <1>2
  <2> QED BY <2>1
<1> QED BY <1>1, <1>2

\* ... and every window of those that fit into the padded input does start there.
LEMMA WindowsStartInside ==
    ASSUME ShapeTypeOK, stage = "sized", NEW i \in Dims, Proper(i), Slack(i) >= 0,
           NEW w \in 0..PooledSize(i) - 1
    PROVE  First(i, w) \in Int /\ -paddings[i] <= First(i, w) /\ First(i, w) < Size(i)
<1> DEFINE n == Size(i)  k == kernels[i]  s == strides[i]  p == paddings[i]
           u == Unclipped(i)  slack == Slack(i)
<1>1. n \in Nat \ {0} /\ k \in Nat \ {0} /\ s \in Nat \ {0} /\ p \in Nat /\ 2 * p <= k
  BY SizesAreIntegers DEF Proper
<1>2. slack = n + 2 * p - k /\ slack \in Nat
  BY <1>1 DEF Slack
<1>3. u \in Int /\ PooledSize(i) \in Int
  BY SizesAreIntegers
<1>4. w \in Nat /\ w <= PooledSize(i) - 1
  BY <1>3
<1>5. First(i, w) = w * s - p
  BY DEF First
<1>6. w * s < n + p
  <2>1. CASE ~ call.ceil_mode
    <3> DEFINE q == slack \div s
    <3> HIDE DEF s, slack
    <3>a. slack \in Int /\ s \in Int /\ s # 0 /\ slack >= 0 /\ s > 0
      BY <1>1, <1>2
    <3>b. TruncDiv(slack, s) = q
      BY <3>a, TruncDivIs
    <3>1. u = 1 + q /\ PooledSize(i) = u
      BY <2>1, <3>b DEF Unclipped, PooledSize, Clipped, slack, s, q
    <3>2. q \in Nat /\ q * s <= slack
      BY <1>1, <1>2, Quotient
    <3> HIDE DEF q, n, k, p, u
    <3>3. w <= q
      BY <1>3, <1>4, <3>1, <3>2
    <3>4. w * s <= q * s
      BY <3>3, <1>1, <1>4, <3>2, Z3
    <3>5. w * s \in Nat /\ q * s \in Nat
      BY <1>1, <1>4, <3>2
    <3> QED BY <3>2, <3>4, <3>5, <1>1, <1>2
  <2>2. CASE call.ceil_mode /\ (u - 1) * s >= n + p
    <3> DEFINE c == CeilDiv(slack, s)
    <3>1. u = 1 + c /\ PooledSize(i) = u - 1
      BY <2>2, <1>3 DEF Unclipped, PooledSize, Clipped
    <3>2. c \in Int /\ c * s < slack + s
      <4> HIDE DEF s, slack
      <4>1. slack \in Int /\ s \in Int /\ s # 0 /\ slack >= 0 /\ s > 0
        BY <1>1, <1>2
      <4> QED BY <4>1, CeilDivIs
    <3> HIDE DEF c, n, k, s, p, u, slack
    <3>3. w + 1 <= c
      BY <1>3, <1>4, <3>1, <3>2
    <3>4. (w + 1) * s <= c * s
      BY <3>3, <1>1, <1>4, <3>2, Z3
    <3>5. (w + 1) * s = w * s + s /\ w * s \in Nat /\ c * s \in Int
      BY <1>1, <1>4, <3>2, Z3
    <3> QED BY <3>2, <3>4, <3>5, <1>1, <1>2
  <2>3. CASE call.ceil_mode /\ ~ (u - 1) * s >= n + p
    <3>1. PooledSize(i) = u
      BY <2>3 DEF PooledSize, Clipped
    <3> HIDE DEF n, k, s, p, u, slack
    <3>2. w <= u - 1
      BY <1>3, <1>4, <3>1
    <3>3. w * s <= (u - 1) * s
      BY <3>2, <1>1, <1>3, <1>4, Z3
    <3>4. w * s \in Nat /\ (u - 1) * s \in Int
      BY <1>1, <1>3, <1>4
    <3> QED BY <2>3, <3>3, <3>4, <1>1
  <2> QED BY <2>1, <2>2, <2>3
<1>7. w * s \in Nat
  BY <1>1, <1>4
<1> HIDE DEF n, s, p
<1>8. First(i, w) \in Int /\ -p <= First(i, w) /\ First(i, w) < n
  BY <1>1, <1>5, <1>6, <1>7
<1> QED BY <1>8 DEF n, p
\* The last window in ceil mode, in numbers.
LEMMA CeilWindows ==
    ASSUME ShapeTypeOK, stage = "sized", NEW i \in Dims, Proper(i), Slack(i) >= 0,
           call.ceil_mode, NEW w \in Nat
    PROVE  LET c == CeilDiv(Slack(i), strides[i])
           IN  /\ c \in Nat
               /\ w <= c <=> w * strides[i] - strides[i] < Slack(i)
               /\ Slack(i) <= c * strides[i]
               /\ w <= PooledSize(i) - 1 <=> w <= c /\ w * strides[i] < Size(i) + paddings[i]
               /\ PooledSize(i) \in Nat
<1> DEFINE n == Size(i)  k == kernels[i]  s == strides[i]  p == paddings[i]
           slack == Slack(i)  c == CeilDiv(slack, s)
<1>1. n \in Nat \ {0} /\ k \in Nat \ {0} /\ s \in Nat \ {0} /\ p \in Nat /\ 2 * p <= k
  BY SizesAreIntegers DEF Proper
<1>2. slack = n + 2 * p - k /\ slack \in Nat
  BY <1>1 DEF Slack
<1>3. c \in Int /\ c * s < slack + s /\ slack <= c * s
  <2> HIDE DEF s, slack
  <2>1. slack \in Int /\ s \in Int /\ s # 0 /\ slack >= 0 /\ s > 0
    BY <1>1, <1>2
  <2> QED BY <2>1, CeilDivIs
<1>4. PooledSize(i) = IF c * s >= n + p THEN c ELSE c + 1
  <2>1. Unclipped(i) = c + 1
    BY <1>3 DEF Unclipped
  <2>2. Unclipped(i) - 1 = c
    BY <1>3, <2>1
  <2> QED BY <2>1, <2>2 DEF PooledSize, Clipped
<1> HIDE DEF n, k, s, p, slack, c
<1>5. w <= c <=> w * s - s < slack
  <2>1. (c - 1) * s = c * s - s /\ (w - 1) * s = w * s - s
    BY <1>1, <1>3, Z3
  <2>2. c * s \in Int /\ w * s \in Nat
    BY <1>1, <1>3
  <2>3. ASSUME w <= c PROVE w * s - s < slack
    <3>1. w * s <= c * s
      BY <2>3, <1>1, <1>3, TimesKeepsOrder
    <3> QED BY <3>1, <2>2, <1>1, <1>2, <1>3
  <2>4. ASSUME c + 1 <= w PROVE slack <= w * s - s
    <3>1. c * s <= (w - 1) * s
      BY <2>4, <1>1, <1>3, TimesKeepsOrder
    <3> QED BY <3>1, <2>1, <2>2, <1>1, <1>2, <1>3
  <2> QED BY <2>2, <2>3, <2>4, <1>1, <1>2, <1>3
<1>6. c \in Nat
  <2>1. CASE c < 0
    <3>1. c * s <= (-1) * s
      BY <2>1, <1>1, <1>3, TimesKeepsOrder
    <3> QED BY <3>1, <1>1, <1>2, <1>3, Z3
  <2> QED BY <2>1, <1>3
<1>7. w <= PooledSize(i) - 1 <=> w <= c /\ w * s < n + p
  <2>1. c * s \in Nat /\ w * s \in Nat
    BY <1>1, <1>6
  <2>2. CASE c * s >= n + p
    <3>1. w <= c - 1 => w * s <= (c - 1) * s
      BY <1>1, <1>6, TimesKeepsOrder
    <3>2. (c - 1) * s = c * s - s
      BY <1>1, <1>6, Z3
    <3>3. w <= c - 1 => w * s < n + p
      BY <3>1, <3>2, <2>1, <1>1, <1>2, <1>3
    <3>4. w <= c /\ w * s < n + p => w <= c - 1
      BY <2>1, <2>2, <1>1, <1>6
    <3> QED BY <2>2, <3>3, <3>4, <1>4, <1>6
  <2>3. CASE ~ c * s >= n + p
    <3>1. w <= c => w * s <= c * s
      BY <1>1, <1>6, TimesKeepsOrder
    <3>2. w <= c => w * s < n + p
      BY <2>1, <2>3, <3>1, <1>1
    <3> QED BY <2>3, <3>2, <1>4, <1>6
  <2> QED BY <2>2, <2>3
<1>8. PooledSize(i) \in Nat
  BY <1>4, <1>6
<1> QED BY <1>3, <1>5, <1>6, <1>7, <1>8 DEF n, p, s, slack, c

\* The last window otherwise.
LEMMA FloorWindows ==
    ASSUME ShapeTypeOK, stage = "sized", NEW i \in Dims, Proper(i), Slack(i) >= 0,
           ~ call.ceil_mode, NEW w \in Nat
    PROVE  /\ w <= PooledSize(i) - 1 <=> w * strides[i] <= Slack(i)
           /\ PooledSize(i) \in Nat
<1> DEFINE s == strides[i]  slack == Slack(i)  q == slack \div s
<1>1. s \in Nat \ {0} /\ slack \in Nat
  BY SizesAreIntegers DEF Proper
<1> HIDE DEF s, slack
<1>2. slack \in Int /\ s \in Int /\ s # 0 /\ slack >= 0 /\ s > 0
  BY <1>1
<1>3. TruncDiv(slack, s) = q
  BY <1>2, TruncDivIs
<1>4. PooledSize(i) = q + 1
  <2>1. Unclipped(i) = 1 + q
    BY <1>3 DEF Unclipped, slack, s
  <2>2. PooledSize(i) = Unclipped(i)
    BY DEF PooledSize, Clipped
  <2>3. q \in Nat
    BY <1>1
  <2> QED BY <2>1, <2>2, <2>3
<1>5. q \in Nat /\ q * s <= slack /\ slack < q * s + s
  BY <1>1, Quotient
<1> HIDE DEF q
<1>6. w * s \in Nat /\ q * s \in Nat /\ (q + 1) * s = q * s + s
  BY <1>1, <1>5, Z3
<1>7. w <= q => w * s <= slack
  BY <1>1, <1>5, <1>6, TimesKeepsOrder
<1>8. q + 1 <= w => slack < w * s
  <2>1. q + 1 <= w => (q + 1) * s <= w * s
    BY <1>1, <1>5, TimesKeepsOrder
  <2> QED BY <2>1, <1>1, <1>5, <1>6
<1>9. w <= q <=> w * s <= slack
  BY <1>1, <1>5, <1>6, <1>7, <1>8
<1> QED BY <1>4, <1>5, <1>9 DEF s, slack

\* A window that is longer than the padded input and passes the check: the slack is less
\* than a stride, and truncation makes it 0, or less than two, and CeilDiv makes it 0.
LEMMA LongWindow ==
    ASSUME ShapeTypeOK, stage = "sized", NEW i \in Dims, Proper(i), Slack(i) < 0,
           Unclipped(i) > 0
    PROVE  /\ ~ call.ceil_mode => Unclipped(i) = 1 /\ -Slack(i) < strides[i]
           /\ call.ceil_mode => \/ (Unclipped(i) = 2 /\ -Slack(i) < strides[i])
                               \/ (Unclipped(i) = 1 /\ -Slack(i) >= strides[i])
<1> DEFINE s == strides[i]  slack == Slack(i)  m == -slack  q == m \div s  u == Unclipped(i)
<1>1. slack \in Int /\ s \in Nat \ {0} /\ slack < 0 /\ u \in Int /\ u > 0
  BY SizesAreIntegers DEF Proper
<1> HIDE DEF s, slack, u
<1>2. m \in Nat \ {0} /\ Abs(slack) = m /\ Abs(s) = s
  BY <1>1 DEF Abs
<1>3. q \in Nat /\ q * s <= m /\ m < q * s + s /\ m % s = m - q * s
  BY <1>1, <1>2, Quotient
<1>4. TruncDiv(slack, s) = -q
  BY <1>1, <1>2 DEF TruncDiv
<1> HIDE DEF m, q
<1>5. q * s \in Nat
  BY <1>1, <1>3
<1>6. CASE ~ call.ceil_mode
  <2>1. u = 1 + TruncDiv(slack, s)
    BY <1>6 DEF u, slack, s, Unclipped
  <2>2. q = 0 /\ u = 1
    BY <2>1, <1>1, <1>3, <1>4
  <2> QED BY <1>6, <2>2, <1>1, <1>3 DEF m, u, slack, s
<1>7. CASE call.ceil_mode
  <2>1. u = 1 + CeilDiv(slack, s)
    BY <1>7 DEF u, slack, s, Unclipped
  <2>2. CASE m % s = 0
    <3>1. CeilDiv(slack, s) = -q
      BY <1>1, <1>2, <1>4, <2>2 DEF CeilDiv
    <3>2. q = 0
      BY <2>1, <3>1, <1>1, <1>3
    <3> QED BY <3>2, <2>2, <1>1, <1>2, <1>3
  <2>3. CASE m % s # 0
    <3>1. CeilDiv(slack, s) = -q + 1
      BY <1>1, <1>2, <1>4, <2>3 DEF CeilDiv
    <3>2. q \in {0, 1} /\ u = 2 - q
      BY <2>1, <3>1, <1>1, <1>3
    <3>3. q = 0 => u = 2 /\ m < s
      BY <3>2, <1>1, <1>3
    <3>4. q = 1 => u = 1 /\ m >= s
      BY <3>2, <1>1, <1>2, <1>3
    <3>5. (u = 2 /\ m < s) \/ (u = 1 /\ m >= s)
      BY <3>2, <3>3, <3>4
    <3>6. m = -Slack(i) /\ u = Unclipped(i) /\ s = strides[i]
      BY DEF m, slack, u, s
    <3> QED BY <1>7, <3>5, <3>6
  <2> QED BY <2>2, <2>3
<1> QED BY <1>6, <1>7

\* It gets one window; in ceil mode it may keep a second one, before the end of the input.
LEMMA LongWindowSizes ==
    ASSUME ShapeTypeOK, stage = "sized", NEW i \in Dims, Proper(i), Slack(i) < 0,
           Unclipped(i) > 0
    PROVE  \/ /\ PooledSize(i) = 1 /\ ~ Clipped(i)
              /\ call.ceil_mode => -Slack(i) >= strides[i]
           \/ PooledSize(i) = 1 /\ Clipped(i) /\ -Slack(i) < strides[i]
           \/ /\ PooledSize(i) = 2 /\ ~ Clipped(i) /\ call.ceil_mode
              /\ -Slack(i) < strides[i] /\ strides[i] < Size(i) + paddings[i]
<1>1. Size(i) \in Nat \ {0} /\ strides[i] \in Nat \ {0} /\ paddings[i] \in Nat
  BY SizesAreIntegers DEF Proper
<1>2. CASE ~ call.ceil_mode
  <2>1. Unclipped(i) = 1
    BY <1>2, LongWindow
  <2> QED BY <1>2, <2>1 DEF PooledSize, Clipped
<1>3. CASE call.ceil_mode /\ Unclipped(i) = 1 /\ -Slack(i) >= strides[i]
  <2>1. ~ Clipped(i)
    BY <1>1, <1>3 DEF Clipped
  <2> QED BY <1>3, <2>1 DEF PooledSize
<1>4. CASE call.ceil_mode /\ Unclipped(i) = 2 /\ -Slack(i) < strides[i]
  <2>1. Clipped(i) <=> strides[i] >= Size(i) + paddings[i]
    BY <1>1, <1>4 DEF Clipped
  <2> QED BY <1>1, <1>4, <2>1 DEF PooledSize
<1> QED BY <1>2, <1>3, <1>4, LongWindow

\* So every window starts before the end of the input.
LEMMA AllWindowsStartInside ==
    ASSUME ShapeTypeOK, stage = "sized", NEW i \in Dims, Proper(i), Unclipped(i) > 0,
           NEW w \in 0..PooledSize(i) - 1
    PROVE  First(i, w) \in Int /\ -paddings[i] <= First(i, w) /\ First(i, w) < Size(i)
<1>1. /\ Size(i) \in Nat \ {0} /\ strides[i] \in Nat \ {0} /\ paddings[i] \in Nat
      /\ Slack(i) \in Int
  BY SizesAreIntegers DEF Proper
<1>2. CASE Slack(i) >= 0
  BY <1>2, WindowsStartInside
<1>3. CASE Slack(i) < 0
  <2>1. w = 0 \/ (w = 1 /\ strides[i] < Size(i) + paddings[i])
    <3>1. CASE PooledSize(i) = 1
      BY <3>1
    <3>2. CASE PooledSize(i) = 2
      <4>1. w \in 0..1
        BY <3>2
      <4>2. strides[i] < Size(i) + paddings[i]
        BY <1>3, <3>2, LongWindowSizes
      <4> QED BY <4>1, <4>2
    <3> QED BY <1>3, <3>1, <3>2, LongWindowSizes
  <2>2. w = 0 => First(i, w) = -paddings[i]
    BY <1>1 DEF First
  <2>3. w = 1 => First(i, w) = strides[i] - paddings[i]
    BY <1>1 DEF First
  <2> QED BY <1>1, <2>1, <2>2, <2>3
<1> QED BY <1>1, <1>2, <1>3

------------------------------------------------------------------------------
LEMMA InvInit == ASSUME Init PROVE Inv
BY DEF Init, Inv, ShapeTypeOK, Triple, Dims

LEMMA InvStep == ASSUME Inv, [Next]_vars PROVE Inv'
<1> USE DEF Inv
<1>0. call \in Calls /\ call' = call
  BY DEF ShapeTypeOK, Next, vars, GeneralizeKernel, KernelRaises, GeneralizeStride,
         GeneralizePadding, OutputSize, OutputRaises, Finished, Raise
<1>1. CASE GeneralizeKernel
  <2>1. kernels' \in [Dims -> Int]
    BY <1>0, <1>1, GeneralizedIs, CallsAssumption DEF GeneralizeKernel
  <2> QED BY <1>1, <2>1 DEF GeneralizeKernel, ShapeTypeOK
<1>2. CASE Raise
  BY <1>2 DEF Raise, ShapeTypeOK
<1>3. CASE GeneralizeStride
  <2>1. strides' \in [Dims -> Int]
    <3>1. CASE call.stride = <<>>
      BY <1>3, <3>1 DEF GeneralizeStride, ShapeTypeOK
    <3>2. CASE call.stride # <<>>
      BY <1>0, <1>3, <3>2, GeneralizedIs, CallsAssumption DEF GeneralizeStride
    <3> QED BY <3>1, <3>2
  <2> QED BY <1>3, <2>1 DEF GeneralizeStride, ShapeTypeOK
<1>4. CASE GeneralizePadding
  <2>1. paddings' \in [Dims -> Int]
    BY <1>0, <1>4, GeneralizedIs, CallsAssumption DEF GeneralizePadding
  <2> QED BY <1>4, <2>1 DEF GeneralizePadding, ShapeTypeOK
<1>5. CASE OutputSize
  <2>1. \A i \in Dims : PooledSize(i) \in Int
    BY <1>5, SizesAreIntegers DEF OutputSize
  <2>2. output_size' = [i \in Dims |-> PooledSize(i)]
    BY <1>5 DEF OutputSize, Dims
  <2>3. \A i \in Dims : PooledSize(i)' = PooledSize(i) /\ Unclipped(i)' = Unclipped(i)
    BY <1>5 DEF OutputSize, PooledSize, Clipped, Unclipped, Slack, Size
  <2>4. ShapeTypeOK'
    BY <1>5, <2>1, <2>2 DEF OutputSize, ShapeTypeOK
  <2>5. \A i \in Dims : Unclipped(i) > 0
    BY <1>5 DEF OutputSize
  <2> QED BY <2>2, <2>3, <2>4, <2>5
<1>6. CASE UNCHANGED vars
  <2>1. \A i \in Dims : PooledSize(i)' = PooledSize(i) /\ Unclipped(i)' = Unclipped(i)
    BY <1>6 DEF vars, PooledSize, Clipped, Unclipped, Slack, Size
  <2> QED BY <1>6, <2>1 DEF vars, ShapeTypeOK
<1> QED
  BY <1>1, <1>2, <1>3, <1>4, <1>5, <1>6 DEF Next, KernelRaises, OutputRaises, Finished

\* Whatever the lists hold and whatever is found behind their end, sizes are integers,
\* strides that pass are not zero, and padding that passes is at most half the kernel
\* (avg_pool3d.cpp 100-110).
THEOREM ShapeTypeCorrect == Spec => []ShapeTypeOK
<1>1. Inv => ShapeTypeOK
  BY DEF Inv
<1> QED BY InvInit, InvStep, <1>1, PTL DEF Spec

\* For every shape, window, stride and padding: if the window is proper, no average of
\* padding alone is asked for (avg_pool3d.cpp 48-70 with the check 107-110).
THEOREM AveragesAreOfInput == Spec => []NoEmptyAverage
<1>1. ASSUME Inv, stage = "sized", NEW i \in Dims, Proper(i), NEW w \in 0..output_size[i] - 1
      PROVE  \E p \in 0..Size(i) - 1 : p \in First(i, w)..Last(i, w)
  <2>1. ShapeTypeOK /\ Unclipped(i) > 0 /\ w \in 0..PooledSize(i) - 1
    BY <1>1 DEF Inv
  <2>2. First(i, w) \in Int /\ -paddings[i] <= First(i, w) /\ First(i, w) < Size(i)
    BY <1>1, <2>1, AllWindowsStartInside
  <2>3. /\ Size(i) \in Nat \ {0} /\ kernels[i] \in Nat \ {0} /\ paddings[i] \in Nat
        /\ 2 * paddings[i] <= kernels[i]
    BY <1>1, <2>1, SizesAreIntegers DEF Proper
  <2> QED BY <2>2, <2>3, WindowMeetsInput DEF Last
<1>2. Inv => NoEmptyAverage
  BY <1>1 DEF NoEmptyAverage
<1> QED BY InvInit, InvStep, <1>2, PTL DEF Spec

\* For every shape, window, stride and padding: in ceil mode, windows without gaps between
\* them reach every position of the input (avg_pool3d.cpp 48-70).
THEOREM CeilModeReachesAll == Spec => []CeilReachesAll
<1>1. ASSUME Inv, stage = "sized", call.ceil_mode, NEW i \in Dims, Proper(i),
             strides[i] <= kernels[i], Slack(i) >= 0, NEW q \in 0..Size(i) - 1
      PROVE  \E w \in 0..output_size[i] - 1 : q \in First(i, w)..Last(i, w)
  <2> DEFINE n == Size(i)  k == kernels[i]  s == strides[i]  p == paddings[i]
             c == CeilDiv(Slack(i), s)  v == (q + p) \div s
  <2>1. ShapeTypeOK /\ output_size[i] = PooledSize(i)
    BY <1>1 DEF Inv
  <2>2. n \in Nat \ {0} /\ k \in Nat \ {0} /\ s \in Nat \ {0} /\ p \in Nat /\ q \in Nat /\ q < n
    BY <1>1, <2>1, SizesAreIntegers DEF Proper
  <2>3. v \in Nat /\ v * s <= q + p /\ q + p < v * s + s
    <3> HIDE DEF s, p
    <3>1. q + p \in Nat /\ s \in Nat \ {0}
      BY <2>2
    <3> QED BY <3>1, Quotient
  <2>4. PooledSize(i) \in Int
    BY <1>1, <2>1, SizesAreIntegers
  <2>5. c \in Nat /\ Slack(i) <= c * s
    BY <1>1, <2>1, <2>3, CeilWindows
  <2>6. \A w \in Nat : w <= PooledSize(i) - 1 <=> w <= c /\ w * s < n + p
    BY <1>1, <2>1, CeilWindows
  <2>7. Slack(i) = n + 2 * p - k
    BY DEF Slack
  <2>8. s <= k
    BY <1>1
  <2>9. \A w \in Nat : First(i, w) = w * s - p /\ Last(i, w) = w * s - p + k - 1
    BY DEF First, Last
  <2> HIDE DEF n, k, s, p, c, v
  <2>10. v * s \in Nat /\ c * s \in Nat
    BY <2>2, <2>3, <2>5
  <2>11. CASE v <= c
    <3>1. v * s < n + p
      BY <2>2, <2>3, <2>10
    <3>2. v \in 0..output_size[i] - 1
      BY <2>11, <3>1, <2>1, <2>3, <2>4, <2>6
    <3>3. q \in v * s - p .. v * s - p + k - 1
      BY <2>2, <2>3, <2>8, <2>10
    <3> QED BY <3>2, <3>3, <2>3, <2>9
  <2>12. CASE c < v
    <3>1. c * s <= v * s
      BY <2>12, <2>2, <2>3, <2>5, TimesKeepsOrder
    <3>2. c * s < n + p
      BY <3>1, <2>2, <2>3, <2>10
    <3>3. c \in 0..output_size[i] - 1
      BY <3>2, <2>1, <2>4, <2>5, <2>6
    <3>4. q \in c * s - p .. c * s - p + k - 1
      BY <3>1, <2>2, <2>3, <2>5, <2>7, <2>10
    <3> QED BY <3>3, <3>4, <2>5, <2>9
  <2> QED BY <2>3, <2>5, <2>11, <2>12
<1>2. ASSUME Inv, stage = "sized", NEW i \in Dims, Proper(i), Slack(i) < 0,
             NEW q \in 0..Size(i) - 1
      PROVE  \E w \in 0..output_size[i] - 1 : q \in First(i, w)..Last(i, w)
  <2>1. ShapeTypeOK /\ output_size[i] = PooledSize(i) /\ Unclipped(i) > 0
    BY <1>2 DEF Inv
  <2>2. /\ Size(i) \in Nat \ {0} /\ kernels[i] \in Nat \ {0} /\ strides[i] \in Nat \ {0}
        /\ paddings[i] \in Nat /\ kernels[i] > Size(i) + 2 * paddings[i]
    BY <1>2, <2>1, SizesAreIntegers DEF Proper, Slack
  <2>3. 0 \in 0..output_size[i] - 1
    BY <1>2, <2>1, LongWindowSizes
  <2>4. First(i, 0) = -paddings[i] /\ Last(i, 0) = kernels[i] - paddings[i] - 1
    BY <2>2 DEF First, Last
  <2>5. q \in First(i, 0)..Last(i, 0)
    BY <2>2, <2>4
  <2> QED BY <2>3, <2>5
<1>3. ASSUME Inv, stage = "sized", NEW i \in Dims, Proper(i)
      PROVE  Slack(i) >= 0 \/ Slack(i) < 0
  BY <1>3, SizesAreIntegers DEF Inv
<1>4. Inv => CeilReachesAll
  BY <1>1, <1>2, <1>3 DEF CeilReachesAll
<1> QED BY InvInit, InvStep, <1>4, PTL DEF Spec

\* Counting the places of a window that fits into the padded input ...
LEMMA FittingWindowCounts ==
    ASSUME Inv, stage = "sized", NEW i \in Dims, Proper(i), Slack(i) >= 0
    PROVE  output_size[i] = Cardinality(Places(i))
<1> DEFINE n == Size(i)  k == kernels[i]  s == strides[i]  p == paddings[i]
           out == PooledSize(i)
           Place(w) == \/ Last(i, w) <= n + p - 1
                       \/ call.ceil_mode /\ Last(i, w) - s < n + p - 1 /\ First(i, w) < n
<1>1. ShapeTypeOK /\ output_size[i] = out
  BY DEF Inv
<1>2. /\ n \in Nat \ {0} /\ k \in Nat \ {0} /\ s \in Nat \ {0} /\ p \in Nat
      /\ 2 * p <= k /\ k <= n + 2 * p
  BY <1>1, SizesAreIntegers DEF Proper, Slack
<1>3. out \in Nat
  BY <1>1, CeilWindows, FloorWindows, 0 \in Nat
<1>4. \A w \in Nat : First(i, w) = w * s - p /\ Last(i, w) = w * s - p + k - 1
  BY DEF First, Last
<1>5. Slack(i) = n + 2 * p - k
  BY DEF Slack
<1>6. ASSUME NEW w \in Nat
      PROVE  /\ Place(w) <=> w <= out - 1
             /\ w <= out - 1 => w <= n + p
  <2>1. w * s \in Nat /\ w <= w * s
    BY <1>2, Z3
  <2>2. CASE ~ call.ceil_mode
    <3>1. w <= out - 1 <=> w * s <= n + 2 * p - k
      BY <1>1, <1>5, <2>2, FloorWindows
    <3> HIDE DEF n, k, s, p, out
    <3> QED BY <3>1, <2>1, <2>2, <1>2, <1>3, <1>4
  <2>3. CASE call.ceil_mode
    <3> DEFINE c == CeilDiv(Slack(i), s)
    <3>1. /\ c \in Nat
          /\ w <= c <=> w * s - s < n + 2 * p - k
          /\ w <= out - 1 <=> w <= c /\ w * s < n + p
      BY <1>1, <1>5, <2>3, CeilWindows
    <3> HIDE DEF n, k, s, p, out, c
    <3> QED BY <3>1, <2>1, <2>3, <1>2, <1>3, <1>4
  <2> QED BY <2>2, <2>3
<1>7. Places(i) = {w \in 0..n + p : Place(w)}
  BY DEF Places
<1> HIDE DEF n, k, s, p, out, Place
<1>8. Places(i) = 0..out - 1
  BY <1>2, <1>3, <1>6, <1>7
<1>9. Cardinality(0..out - 1) = out
  BY <1>3, FS_Interval
<1> QED BY <1>1, <1>8, <1>9

\* ... and of one that is longer: in ceil mode, it sticks out from position 0 of the padded
\* input if it does so by less than a stride.
LEMMA LongWindowPlaces ==
    ASSUME ShapeTypeOK, stage = "sized", NEW i \in Dims, Proper(i), Slack(i) < 0
    PROVE  Places(i) = IF call.ceil_mode /\ -Slack(i) < strides[i] THEN {0} ELSE {}
<1> DEFINE n == Size(i)  k == kernels[i]  s == strides[i]  p == paddings[i]
           Place(w) == \/ Last(i, w) <= n + p - 1
                       \/ call.ceil_mode /\ Last(i, w) - s < n + p - 1 /\ First(i, w) < n
<1>1. /\ n \in Nat \ {0} /\ k \in Nat \ {0} /\ s \in Nat \ {0} /\ p \in Nat
      /\ Slack(i) = n + 2 * p - k
  BY SizesAreIntegers DEF Proper, Slack
<1>2. \A w \in Nat : First(i, w) = w * s - p /\ Last(i, w) = w * s - p + k - 1
  BY DEF First, Last
<1>3. Places(i) = {w \in 0..n + p : Place(w)}
  BY DEF Places
<1> HIDE DEF n, k, s, p
<1>4. ASSUME NEW w \in Nat PROVE Place(w) <=> call.ceil_mode /\ -Slack(i) < s /\ w = 0
  <2>1. w * s \in Nat /\ (w = 0 => w * s = 0) /\ (w # 0 => w * s >= s)
    BY <1>1, Z3
  <2>2. First(i, w) = w * s - p /\ Last(i, w) = w * s - p + k - 1
    BY <1>2
  <2> QED BY <1>1, <2>1, <2>2
<1> HIDE DEF Place
<1>5. \A w \in 0..n + p : w \in Nat
  BY <1>1
<1>6. 0 \in 0..n + p
  BY <1>1
<1> QED BY <1>3, <1>4, <1>5, <1>6 DEF s

\* For every shape, stride, padding and window, the longer than the padded input included:
\* the size is the number of places that the window has, and one more exactly if it is
\* longer and no window is clipped (avg_pool3d.cpp 48-70).
THEOREM SizesAreCounts == Spec => []SizesCountPlaces
<1>1. ASSUME Inv, stage = "sized", NEW i \in Dims, Proper(i)
      PROVE  output_size[i] =
                 Cardinality(Places(i)) + IF Slack(i) >= 0 \/ Clipped(i) THEN 0 ELSE 1
  <2>1. ShapeTypeOK /\ output_size[i] = PooledSize(i) /\ Unclipped(i) > 0
    BY <1>1 DEF Inv
  <2>2. Slack(i) \in Int /\ PooledSize(i) \in Int /\ strides[i] \in Int
    BY <1>1, <2>1, SizesAreIntegers
  <2>3. CASE Slack(i) >= 0
    BY <1>1, <2>1, <2>2, <2>3, FittingWindowCounts
  <2>4. CASE Slack(i) < 0
    <3>1. Cardinality({}) = 0 /\ Cardinality({0}) = 1
      BY FS_EmptySet, FS_Singleton
    <3>2. Places(i) = IF call.ceil_mode /\ -Slack(i) < strides[i] THEN {0} ELSE {}
      BY <1>1, <2>1, <2>4, LongWindowPlaces
    <3>3. CASE /\ PooledSize(i) = 1 /\ ~ Clipped(i)
               /\ call.ceil_mode => -Slack(i) >= strides[i]
      <4>1. Places(i) = {}
        BY <2>2, <3>2, <3>3
      <4> QED BY <2>1, <2>2, <2>4, <3>1, <3>3, <4>1
    <3>4. CASE PooledSize(i) = 1 /\ Clipped(i) /\ -Slack(i) < strides[i]
      <4>1. Places(i) = {0}
        BY <3>2, <3>4 DEF Clipped
      <4> QED BY <2>1, <3>1, <3>4, <4>1
    <3>5. CASE /\ PooledSize(i) = 2 /\ ~ Clipped(i) /\ call.ceil_mode
               /\ -Slack(i) < strides[i] /\ strides[i] < Size(i) + paddings[i]
      <4>1. Places(i) = {0}
        BY <3>2, <3>5
      <4> QED BY <2>1, <2>2, <2>4, <3>1, <3>5, <4>1
    <3> QED BY <1>1, <2>1, <2>4, <3>3, <3>4, <3>5, LongWindowSizes
  <2> QED BY <2>2, <2>3, <2>4
<1>2. Inv => SizesCountPlaces
  BY <1>1 DEF SizesCountPlaces
<1> QED BY InvInit, InvStep, <1>2, PTL DEF Spec
==============================================================================

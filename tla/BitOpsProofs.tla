---------------------------- MODULE BitOpsProofs -----------------------------
(***************************************************************************)
(* Powers of two, the bitwise operators and remainders, for numbers of     *)
(* every width. What a recursive definition says of all numbers is proved  *)
(* through well-founded sets: the numbers that lack a property have a      *)
(* least one (InductionOn), and a recursive function exists because its    *)
(* first values do, for every number of them (Recursion).                  *)
(***************************************************************************)
EXTENDS BitOps, WellFoundedInduction, TLAPS

\* Induction, for a property given by the set of numbers that have it.
LEMMA InductionOn ==
  ASSUME NEW S, 0 \in S, \A n \in Nat : n \in S => n + 1 \in S
  PROVE  \A n \in Nat : n \in S
<1> DEFINE R == OpToRel(<, Nat)
           Bad == {n \in Nat : n \notin S}
<1>1. IsWellFoundedOn(R, Nat)
  BY NatLessThanWellFounded
<1>2. SUFFICES ASSUME Bad # {} PROVE FALSE
  OBVIOUS
<1>3. PICK m \in Bad : \A k \in Bad : ~(<<k, m>> \in R)
  <2> Bad \subseteq Nat
    OBVIOUS
  <2> HIDE DEF Bad, R
  <2> QED
    BY <1>1, <1>2, WFMin
<1>4. m \in Nat \ {0} /\ m - 1 \in Nat
  OBVIOUS
<1>5. <<m - 1, m>> \in R
  BY <1>4 DEF OpToRel
<1>6. m - 1 \in S
  BY <1>3, <1>4, <1>5
<1>7. (m - 1) + 1 \in S
  BY <1>4, <1>6
<1>8. QED
  BY <1>4, <1>7

\* A function may be defined by its first value and a table of its steps.
Upto(n, V, base, step) ==
  {g \in [0 .. n -> V] : g[0] = base /\ \A k \in 0 .. n - 1 : g[k + 1] = step[<<k, g[k]>>]}

IsTable(step, V) == step \in [Nat \X V -> V]
Follows(f, V, base, step) ==
  f \in [Nat -> V] /\ f[0] = base /\ \A n \in Nat : f[n + 1] = step[<<n, f[n]>>]

\* The values up to n, one further.
LEMMA UptoExtends ==
  ASSUME NEW V, NEW base \in V, NEW step \in [Nat \X V -> V], NEW n \in Nat,
         NEW g \in Upto(n, V, base, step)
  PROVE  [k \in 0 .. n + 1 |-> IF k = n + 1 THEN step[<<n, g[n]>>] ELSE g[k]] \in Upto(n + 1, V, base, step)
<1> DEFINE h == [k \in 0 .. n + 1 |-> IF k = n + 1 THEN step[<<n, g[n]>>] ELSE g[k]]
<1>1. g[n] \in V /\ g \in [0 .. n -> V] /\ g[0] = base
  BY DEF Upto
<1>2. step[<<n, g[n]>>] \in V
  BY <1>1
<1>3. h \in [0 .. n + 1 -> V]
  BY <1>1, <1>2
<1>4. ASSUME NEW k \in 0 .. (n + 1) - 1 PROVE h[k + 1] = step[<<k, h[k]>>]
  <2>0. k \in 0 .. n /\ k + 1 \in 0 .. n + 1 /\ h[k] = g[k]
    OBVIOUS
  <2>1. CASE k = n
    BY <2>0, <2>1
  <2>2. CASE k # n
    <3>1. k \in 0 .. n - 1
      BY <2>2
    <3>2. g[k + 1] = step[<<k, g[k]>>]
      BY <3>1 DEF Upto
    <3>3. h[k + 1] = g[k + 1]
      BY <2>0, <3>1
    <3> QED BY <2>0, <3>2, <3>3
  <2> QED BY <2>1, <2>2
<1>5. h[0] = base
  BY <1>1
<1> HIDE DEF h
<1>6. h \in Upto(n + 1, V, base, step)
  BY <1>3, <1>4, <1>5 DEF Upto
<1> QED BY <1>6 DEF h

\* The values up to n + 1, one fewer.
LEMMA UptoRestricts ==
  ASSUME NEW V, NEW base \in V, NEW step \in [Nat \X V -> V], NEW n \in Nat,
         NEW g \in Upto(n + 1, V, base, step)
  PROVE  [k \in 0 .. n |-> g[k]] \in Upto(n, V, base, step)
<1> DEFINE h == [k \in 0 .. n |-> g[k]]
<1>1. g \in [0 .. n + 1 -> V] /\ g[0] = base
  BY DEF Upto
<1>2. h \in [0 .. n -> V] /\ h[0] = base
  BY <1>1
<1>3. ASSUME NEW k \in 0 .. n - 1 PROVE h[k + 1] = step[<<k, h[k]>>]
  <2>1. k \in 0 .. (n + 1) - 1
    OBVIOUS
  <2>2. g[k + 1] = step[<<k, g[k]>>]
    BY <2>1 DEF Upto
  <2> QED BY <2>2
<1> HIDE DEF h
<1>4. h \in Upto(n, V, base, step)
  BY <1>2, <1>3 DEF Upto
<1> QED BY <1>4 DEF h

\* The first values of a recursion are determined.
LEMMA UptoUnique ==
  ASSUME NEW V, NEW base \in V, NEW step \in [Nat \X V -> V]
  PROVE  \A n \in Nat : \A g, h \in Upto(n, V, base, step) : g = h
<1> DEFINE S == {n \in Nat : \A g, h \in Upto(n, V, base, step) : g = h}
<1>1. 0 \in S
  <2> SUFFICES ASSUME NEW g \in Upto(0, V, base, step), NEW h \in Upto(0, V, base, step) PROVE g = h
    OBVIOUS
  <2>1. g \in [0 .. 0 -> V] /\ h \in [0 .. 0 -> V] /\ g[0] = h[0]
    BY DEF Upto
  <2>2. \A k \in 0 .. 0 : g[k] = h[k]
    BY <2>1
  <2> QED BY <2>1, <2>2
<1>2. ASSUME NEW n \in Nat, n \in S PROVE n + 1 \in S
  <2> SUFFICES ASSUME NEW g \in Upto(n + 1, V, base, step), NEW h \in Upto(n + 1, V, base, step)
               PROVE  g = h
    OBVIOUS
  <2> DEFINE r(f) == [k \in 0 .. n |-> f[k]]
  <2>1. r(g) = r(h)
    BY <1>2, UptoRestricts
  <2>2. \A k \in 0 .. n : g[k] = h[k]
    <3> SUFFICES ASSUME NEW k \in 0 .. n PROVE g[k] = h[k]
      OBVIOUS
    <3>1. r(g)[k] = g[k] /\ r(h)[k] = h[k]
      OBVIOUS
    <3> QED BY <2>1, <3>1
  <2>3. g[n + 1] = step[<<n, g[n]>>] /\ h[n + 1] = step[<<n, h[n]>>]
    BY DEF Upto
  <2>4. g \in [0 .. n + 1 -> V] /\ h \in [0 .. n + 1 -> V]
    BY DEF Upto
  <2>5. ASSUME NEW k \in 0 .. n + 1 PROVE g[k] = h[k]
    BY <2>2, <2>3
  <2> QED BY <2>4, <2>5
<1> HIDE DEF S
<1>3. \A n \in Nat : n \in S
  BY <1>1, <1>2, InductionOn
<1> QED BY <1>3 DEF S

\* A function on numbers that is defined by a recursion exists and obeys it.
LEMMA Recursion ==
  ASSUME NEW V, NEW base, base \in V, NEW step, IsTable(step, V)
  PROVE  \E f : Follows(f, V, base, step)
<1> USE DEF IsTable
<1> DEFINE U(n) == Upto(n, V, base, step)
           S == {n \in Nat : \E g : g \in U(n)}
<1>1. 0 \in S
  <2>1. [k \in 0 .. 0 |-> base] \in U(0)
    BY DEF Upto
  <2> QED BY <2>1
<1>2. ASSUME NEW n \in Nat, n \in S PROVE n + 1 \in S
  <2>1. PICK g : g \in U(n)
    BY <1>2
  <2>2. \E h : h \in U(n + 1)
    BY <2>1, UptoExtends
  <2> QED BY <2>2
<1> HIDE DEF S
<1>3. \A n \in Nat : n \in S
  BY <1>1, <1>2, InductionOn
<1> DEFINE best(n) == CHOOSE g : g \in U(n)
           f == [n \in Nat |-> best(n)[n]]
<1>4. ASSUME NEW n \in Nat PROVE best(n) \in U(n)
  BY <1>3 DEF S
<1> HIDE DEF best, f
<1>5. ASSUME NEW n \in Nat PROVE best(n)[n] \in V
  BY <1>4 DEF Upto
<1>6. ASSUME NEW n \in Nat PROVE best(n + 1)[n] = best(n)[n]
  <2> DEFINE r == [k \in 0 .. n |-> best(n + 1)[k]]
  <2>1. best(n + 1) \in U(n + 1)
    BY <1>4
  <2>2. r \in U(n)
    BY <2>1, UptoRestricts
  <2>3. r = best(n)
    BY <1>4, <2>2, UptoUnique
  <2>4. r[n] = best(n + 1)[n]
    OBVIOUS
  <2> QED BY <2>3, <2>4
<1>7. ASSUME NEW n \in Nat PROVE best(n + 1)[n + 1] = step[<<n, best(n)[n]>>]
  <2>1. best(n + 1) \in U(n + 1)
    BY <1>4
  <2>2. best(n + 1)[n + 1] = step[<<n, best(n + 1)[n]>>]
    BY <2>1 DEF Upto
  <2> QED BY <2>2, <1>6
<1>8. best(0)[0] = base
  BY <1>4 DEF Upto
<1>9. f \in [Nat -> V] /\ f[0] = base /\ \A n \in Nat : f[n + 1] = step[<<n, f[n]>>]
  BY <1>5, <1>7, <1>8 DEF f
<1> QED BY <1>9 DEF Follows

-----------------------------------------------------------------------------
\* Powers of two.
LEMMA Pow2Def == Pow2 = [n \in Nat |-> IF n = 0 THEN 1 ELSE 2 * Pow2[n - 1]]
<1> DEFINE step == [p \in Nat \X Nat |-> 2 * p[2]]
<1>1. IsTable(step, Nat)
  BY DEF IsTable
<1>s. \A n, k \in Nat : step[<<n, k>>] = 2 * k
  OBVIOUS
<1> HIDE DEF step
<1>0. 1 \in Nat
  OBVIOUS
<1>2. PICK f : Follows(f, Nat, 1, step)
  BY <1>0, <1>1, Recursion
<1>3. f[0] = 1 /\ \A n \in Nat : f[n + 1] = 2 * f[n]
  BY <1>s, <1>2 DEF Follows
<1>4. ASSUME NEW n \in Nat PROVE f[n] = IF n = 0 THEN 1 ELSE 2 * f[n - 1]
  <2>1. CASE n = 0
    BY <1>3, <2>1
  <2>2. CASE n # 0
    <3>1. n - 1 \in Nat /\ (n - 1) + 1 = n
      BY <2>2
    <3> QED BY <1>3, <3>1, <2>2
  <2> QED BY <2>1, <2>2
<1>5. f = [n \in Nat |-> IF n = 0 THEN 1 ELSE 2 * f[n - 1]]
  BY <1>2, <1>4 DEF Follows
<1>6. \E g : g = [n \in Nat |-> IF n = 0 THEN 1 ELSE 2 * g[n - 1]]
  BY <1>5
<1> QED BY <1>6, Zenon DEF Pow2

\* Each power is twice the one before.
LEMMA Pow2Step == \A n \in Nat : Pow2[0] = 1 /\ Pow2[n + 1] = 2 * Pow2[n]
<1> TAKE n \in Nat
<1>1. Pow2[0] = 1
  BY Pow2Def
<1>2. Pow2[n + 1] = 2 * Pow2[(n + 1) - 1]
  BY Pow2Def
<1> QED BY <1>1, <1>2

\* Powers of two are positive.
LEMMA Pow2Type == \A n \in Nat : Pow2[n] \in Nat \ {0}
<1> DEFINE S == {n \in Nat : Pow2[n] \in Nat \ {0}}
<1>1. 0 \in S
  BY Pow2Step
<1>2. ASSUME NEW n \in Nat, n \in S PROVE n + 1 \in S
  BY <1>2, Pow2Step
<1> HIDE DEF S
<1>3. \A n \in Nat : n \in S
  BY <1>1, <1>2, InductionOn
<1> QED BY <1>3 DEF S

\* Exponents add.
LEMMA Pow2Sum == \A a, b \in Nat : Pow2[a + b] = Pow2[a] * Pow2[b]
<1> TAKE a \in Nat
<1> DEFINE S == {b \in Nat : Pow2[a + b] = Pow2[a] * Pow2[b]}
<1>1. 0 \in S
  BY Pow2Step, Pow2Type
<1>2. ASSUME NEW b \in Nat, b \in S PROVE b + 1 \in S
  <2>1. Pow2[a + (b + 1)] = 2 * Pow2[a + b]
    <3>1. a + (b + 1) = (a + b) + 1 /\ a + b \in Nat
      OBVIOUS
    <3> QED BY <3>1, Pow2Step
  <2>2. Pow2[b + 1] = 2 * Pow2[b]
    BY Pow2Step
  <2>3. Pow2[a + b] = Pow2[a] * Pow2[b]
    BY <1>2
  <2>4. PICK x \in Nat, y \in Nat : x = Pow2[a] /\ y = Pow2[b]
    BY Pow2Type
  <2>5. 2 * (x * y) = x * (2 * y)
    BY <2>4
  <2> QED BY <2>1, <2>2, <2>3, <2>4, <2>5
<1> HIDE DEF S
<1>3. \A b \in Nat : b \in S
  BY <1>1, <1>2, InductionOn
<1> QED BY <1>3 DEF S
-----------------------------------------------------------------------------
\* The bitwise operators.
Tables == [TwoBits -> {0, 1}]
HalfPair(p) == <<p[1] \div 2, p[2] \div 2>>
LastBits(p) == <<p[1] % 2, p[2] % 2>>
Pairs == Nat \X Nat

\* Half of a pair of numbers is a pair of numbers.
LEMMA HalfPairType ==
  \A p \in Pairs : HalfPair(p) \in Pairs /\ LastBits(p) \in TwoBits
BY DEF HalfPair, LastBits, Pairs, TwoBits

\* One more bit of the result is right.
BitStep(table, g) == [p \in Pairs |-> IF p = <<0, 0>> THEN 0 ELSE 2 * g[HalfPair(p)] + table[LastBits(p)]]
BitFunctions == [Pairs -> Nat]

\* One step of an operation on the halves keeps it a function to numbers.
LEMMA BitStepType ==
  ASSUME NEW table \in Tables, NEW g \in BitFunctions
  PROVE  BitStep(table, g) \in BitFunctions
<1> SUFFICES ASSUME NEW p \in Pairs, p # <<0, 0>>
             PROVE  2 * g[HalfPair(p)] + table[LastBits(p)] \in Nat
  BY DEF BitStep, BitFunctions
<1>1. g[HalfPair(p)] \in Nat /\ table[LastBits(p)] \in {0, 1}
  BY HalfPairType DEF BitFunctions, Tables
<1> QED BY <1>1

\* The operation on numbers of up to n bits, for each n.
LEMMA BitApproximations ==
  ASSUME NEW table \in Tables
  PROVE  \E f : \A n \in Nat : f[n] \in BitFunctions /\ f[n + 1] = BitStep(table, f[n])
<1> DEFINE zero == [p \in Pairs |-> 0]
           step == [q \in Nat \X BitFunctions |-> BitStep(table, q[2])]
<1>1. zero \in BitFunctions
  BY DEF BitFunctions
<1>2. IsTable(step, BitFunctions)
  BY BitStepType DEF IsTable
<1>3. \A n \in Nat, g \in BitFunctions : step[<<n, g>>] = BitStep(table, g)
  OBVIOUS
<1> HIDE DEF zero, step
<1>4. PICK f : Follows(f, BitFunctions, zero, step)
  BY <1>1, <1>2, Recursion
<1>5. ASSUME NEW n \in Nat PROVE f[n] \in BitFunctions /\ f[n + 1] = BitStep(table, f[n])
  BY <1>3, <1>4 DEF Follows
<1> QED BY <1>5

\* The bitwise operation obeys its definition.
LEMMA BitwiseDef ==
  ASSUME NEW table \in Tables
  PROVE  Bitwise(table) = BitStep(table, Bitwise(table))
<1>1. PICK f : \A n \in Nat : f[n] \in BitFunctions /\ f[n + 1] = BitStep(table, f[n])
  BY BitApproximations
<1> DEFINE Below(n) == {p \in Pairs : p[1] <= n /\ p[2] <= n}
           S == {n \in Nat : \A k \in Nat : k >= n => \A p \in Below(n) : f[k + 1][p] = f[n + 1][p]}
<1>2. ASSUME NEW p \in Pairs, NEW n \in Nat
      PROVE  f[n + 1][p] = IF p = <<0, 0>> THEN 0 ELSE 2 * f[n][HalfPair(p)] + table[LastBits(p)]
  BY <1>1 DEF BitStep
<1>3. 0 \in S
  <2> SUFFICES ASSUME NEW k \in Nat, NEW p \in Below(0) PROVE f[k + 1][p] = f[0 + 1][p]
    OBVIOUS
  <2>1. p \in Pairs /\ p = <<0, 0>>
    BY DEF Pairs
  <2> QED BY <2>1, <1>2
<1>4. ASSUME NEW n \in Nat, n \in S PROVE n + 1 \in S
  <2> SUFFICES ASSUME NEW k \in Nat, k >= n + 1, NEW p \in Below(n + 1)
               PROVE  f[k + 1][p] = f[(n + 1) + 1][p]
    OBVIOUS
  <2>1. p \in Pairs /\ n + 1 \in Nat
    OBVIOUS
  <2>2. CASE p = <<0, 0>>
    BY <2>1, <2>2, <1>2
  <2>3. CASE p # <<0, 0>>
    <3>1. HalfPair(p) \in Below(n)
      BY <2>1, HalfPairType DEF HalfPair, Pairs
    <3>2. k - 1 \in Nat /\ k - 1 >= n /\ (k - 1) + 1 = k
      OBVIOUS
    <3>3. f[(k - 1) + 1][HalfPair(p)] = f[n + 1][HalfPair(p)]
      BY <1>4, <3>1, <3>2
    <3> QED BY <2>1, <2>3, <3>2, <3>3, <1>2
  <2> QED BY <2>2, <2>3
<1> HIDE DEF S
<1>5. \A n \in Nat : n \in S
  BY <1>3, <1>4, InductionOn
<1> DEFINE top(p) == p[1] + p[2]
           h == [p \in Pairs |-> f[top(p) + 1][p]]
<1>6. ASSUME NEW p \in Pairs, p # <<0, 0>>
      PROVE  h[p] = 2 * h[HalfPair(p)] + table[LastBits(p)]
  <2>1. HalfPair(p) \in Pairs /\ top(p) \in Nat /\ top(HalfPair(p)) \in Nat
    BY HalfPairType DEF Pairs
  <2>2. h[p] = 2 * f[top(p)][HalfPair(p)] + table[LastBits(p)]
    BY <2>1, <1>2, <1>6
  <2>3. top(p) - 1 \in Nat /\ (top(p) - 1) + 1 = top(p) /\ top(p) - 1 >= top(HalfPair(p))
    BY <1>6 DEF HalfPair, Pairs
  <2>4. HalfPair(p) \in Below(top(HalfPair(p)))
    BY <2>1 DEF Pairs
  <2>5. f[(top(p) - 1) + 1][HalfPair(p)] = f[top(HalfPair(p)) + 1][HalfPair(p)]
    BY <1>5, <2>1, <2>3, <2>4 DEF S
  <2>6. h[HalfPair(p)] = f[top(HalfPair(p)) + 1][HalfPair(p)]
    BY <2>1
  <2> QED BY <2>2, <2>3, <2>5, <2>6
<1>7. <<0, 0>> \in Pairs /\ h[<<0, 0>>] = 0
  <2>1. <<0, 0>> \in Pairs
    BY DEF Pairs
  <2>2. f[0 + 1][<<0, 0>>] = 0
    BY <2>1, <1>2
  <2> QED BY <2>1, <2>2
<1> DEFINE g == [p \in Pairs |-> IF p = <<0, 0>> THEN 0 ELSE 2 * h[HalfPair(p)] + table[LastBits(p)]]
<1>8. h = g
  BY <1>6, <1>7
<1> HIDE DEF h
<1>9. \E z : z = [p \in Nat \X Nat |-> IF p = <<0, 0>> THEN 0
                    ELSE 2 * z[<<p[1] \div 2, p[2] \div 2>>] + table[<<p[1] % 2, p[2] % 2>>]]
  BY <1>8, Zenon DEF g, Pairs, HalfPair, LastBits
<1> QED BY <1>9, Zenon DEF Bitwise, BitStep, Pairs, HalfPair, LastBits

\* The truth tables, entry by entry.
LEMMA TablesAre ==
  /\ AndTable \in Tables /\ OrTable \in Tables /\ XorTable \in Tables
  /\ \A a, b \in {0, 1} : /\ AndTable[<<a, b>>] = (IF a = 1 /\ b = 1 THEN 1 ELSE 0)
                         /\ OrTable[<<a, b>>] = (IF a = 0 /\ b = 0 THEN 0 ELSE 1)
                         /\ XorTable[<<a, b>>] = (IF a = b THEN 0 ELSE 1)
<1>1. AndTable \in Tables /\ OrTable \in Tables /\ XorTable \in Tables
  BY DEF AndTable, OrTable, XorTable, Tables
<1>2. ASSUME NEW a \in {0, 1}, NEW b \in {0, 1}
      PROVE  /\ AndTable[<<a, b>>] = (IF a = 1 /\ b = 1 THEN 1 ELSE 0)
             /\ OrTable[<<a, b>>] = (IF a = 0 /\ b = 0 THEN 0 ELSE 1)
             /\ XorTable[<<a, b>>] = (IF a = b THEN 0 ELSE 1)
  BY DEF AndTable, OrTable, XorTable, TwoBits
<1> QED BY <1>1, <1>2

\* The last bit by the table, the others from the halves.
LEMMA BitwiseStep ==
  ASSUME NEW table \in Tables, table[<<0, 0>>] = 0, NEW x \in Nat, NEW y \in Nat
  PROVE  Bitwise(table)[<<x, y>>] =
           2 * Bitwise(table)[<<x \div 2, y \div 2>>] + table[<<x % 2, y % 2>>]
<1> DEFINE f == Bitwise(table)
<1>1. \A p \in Pairs : f[p] = IF p = <<0, 0>> THEN 0 ELSE 2 * f[HalfPair(p)] + table[LastBits(p)]
  <2>1. f = BitStep(table, f)
    BY BitwiseDef
  <2> HIDE DEF f
  <2> QED BY <2>1 DEF BitStep
<1>2. <<x, y>> \in Pairs /\ HalfPair(<<x, y>>) = <<x \div 2, y \div 2>> /\ LastBits(<<x, y>>) = <<x % 2, y % 2>>
  BY DEF Pairs, HalfPair, LastBits
<1> HIDE DEF f
<1>3. CASE <<x, y>> = <<0, 0>>
  <2>1. f[<<x, y>>] = 0
    BY <1>1, <1>2, <1>3
  <2>2. x = 0 /\ y = 0 /\ x \div 2 = 0 /\ y \div 2 = 0 /\ x % 2 = 0 /\ y % 2 = 0
    BY <1>3
  <2> QED BY <2>1, <2>2, <1>3 DEF f
<1>4. CASE <<x, y>> # <<0, 0>>
  BY <1>1, <1>2, <1>4 DEF f
<1> QED BY <1>3, <1>4

\* One step of each operation.
LEMMA BitRules ==
  ASSUME NEW x \in Nat, NEW y \in Nat
  PROVE  /\ x & y = 2 * ((x \div 2) & (y \div 2)) + (IF x % 2 = 1 /\ y % 2 = 1 THEN 1 ELSE 0)
         /\ x | y = 2 * ((x \div 2) | (y \div 2)) + (IF x % 2 = 0 /\ y % 2 = 0 THEN 0 ELSE 1)
         /\ x ^^ y = 2 * ((x \div 2) ^^ (y \div 2)) + (IF x % 2 = y % 2 THEN 0 ELSE 1)
<1>1. x % 2 \in {0, 1} /\ y % 2 \in {0, 1}
  OBVIOUS
<1>2. x & y = 2 * ((x \div 2) & (y \div 2)) + AndTable[<<x % 2, y % 2>>]
  BY TablesAre, BitwiseStep DEF &
<1>3. x | y = 2 * ((x \div 2) | (y \div 2)) + OrTable[<<x % 2, y % 2>>]
  BY TablesAre, BitwiseStep DEF |
<1>4. x ^^ y = 2 * ((x \div 2) ^^ (y \div 2)) + XorTable[<<x % 2, y % 2>>]
  BY TablesAre, BitwiseStep DEF ^^
<1> QED BY <1>1, <1>2, <1>3, <1>4, TablesAre

\* No bits at all.
LEMMA BitsOfZero == 0 & 0 = 0 /\ 0 | 0 = 0 /\ 0 ^^ 0 = 0
<1> DEFINE zero(t) == Bitwise(t)[<<0, 0>>]
<1>1. ASSUME NEW t \in Tables PROVE zero(t) = 0
  <2> DEFINE f == Bitwise(t)
  <2>1. f = BitStep(t, f)
    BY <1>1, BitwiseDef
  <2>2. <<0, 0>> \in Pairs
    BY DEF Pairs
  <2> HIDE DEF f
  <2>3. f[<<0, 0>>] = 0
    BY <2>1, <2>2 DEF BitStep
  <2> QED BY <2>3 DEF f
<1> QED BY <1>1, TablesAre DEF &, |, ^^

\* A number of w + 1 bits is its last bit and a number of w bits.
LEMMA HalfOfWidth ==
  ASSUME NEW w \in Nat, NEW x \in 0 .. Pow2[w + 1] - 1
  PROVE  /\ x \div 2 \in 0 .. Pow2[w] - 1
         /\ x % 2 \in {0, 1}
         /\ x = 2 * (x \div 2) + (x % 2)
<1>1. Pow2[w] \in Nat \ {0} /\ Pow2[w + 1] = 2 * Pow2[w]
  BY Pow2Step, Pow2Type
<1> QED BY <1>1

\* The operations keep the width of their operands.
LEMMA BitTypes ==
  \A w \in Nat : \A x, y \in 0 .. Pow2[w] - 1 :
     /\ x & y \in 0 .. Pow2[w] - 1
     /\ x | y \in 0 .. Pow2[w] - 1
     /\ x ^^ y \in 0 .. Pow2[w] - 1
<1> DEFINE Ok(w) == \A x, y \in 0 .. Pow2[w] - 1 :
              /\ x & y \in 0 .. Pow2[w] - 1
              /\ x | y \in 0 .. Pow2[w] - 1
              /\ x ^^ y \in 0 .. Pow2[w] - 1
           S == {w \in Nat : Ok(w)}
<1>1. 0 \in S
  <2>1. \A x \in 0 .. Pow2[0] - 1 : x = 0
    BY Pow2Step
  <2> QED BY <2>1, BitsOfZero
<1>2. ASSUME NEW w \in Nat, w \in S PROVE w + 1 \in S
  <2> SUFFICES ASSUME NEW x \in 0 .. Pow2[w + 1] - 1, NEW y \in 0 .. Pow2[w + 1] - 1
      PROVE  /\ x & y \in 0 .. Pow2[w + 1] - 1
             /\ x | y \in 0 .. Pow2[w + 1] - 1
             /\ x ^^ y \in 0 .. Pow2[w + 1] - 1
    OBVIOUS
  <2> DEFINE u == x \div 2
             v == y \div 2
  <2>1. u \in 0 .. Pow2[w] - 1 /\ v \in 0 .. Pow2[w] - 1
    BY HalfOfWidth
  <2>2. u & v \in 0 .. Pow2[w] - 1 /\ u | v \in 0 .. Pow2[w] - 1 /\ u ^^ v \in 0 .. Pow2[w] - 1
    BY <1>2, <2>1
  <2>3. x \in Nat /\ y \in Nat /\ Pow2[w + 1] = 2 * Pow2[w] /\ Pow2[w] \in Nat
    BY Pow2Step, Pow2Type
  <2>4. /\ x & y = 2 * (u & v) + (IF x % 2 = 1 /\ y % 2 = 1 THEN 1 ELSE 0)
        /\ x | y = 2 * (u | v) + (IF x % 2 = 0 /\ y % 2 = 0 THEN 0 ELSE 1)
        /\ x ^^ y = 2 * (u ^^ v) + (IF x % 2 = y % 2 THEN 0 ELSE 1)
    BY <2>3, BitRules
  <2> HIDE DEF u, v
  <2> QED BY <2>2, <2>3, <2>4
<1> HIDE DEF S
<1>3. \A w \in Nat : w \in S
  BY <1>1, <1>2, InductionOn
<1> QED BY <1>3 DEF S

\* Any number fits in some width.
LEMMA SomeWidth == \A x \in Nat : x < Pow2[x]
<1> DEFINE S == {x \in Nat : x < Pow2[x]}
<1>1. 0 \in S
  BY Pow2Step
<1>2. ASSUME NEW x \in Nat, x \in S PROVE x + 1 \in S
  <2>1. Pow2[x + 1] = 2 * Pow2[x] /\ Pow2[x] \in Nat \ {0} /\ x < Pow2[x]
    BY <1>2, Pow2Step, Pow2Type
  <2> QED BY <2>1
<1> HIDE DEF S
<1>3. \A x \in Nat : x \in S
  BY <1>1, <1>2, InductionOn
<1> QED BY <1>3 DEF S

\* Powers of two grow.
LEMMA Pow2Grows == \A a, b \in Nat : a <= b => Pow2[a] <= Pow2[b]
<1> SUFFICES ASSUME NEW a \in Nat, NEW b \in Nat, a <= b PROVE Pow2[a] <= Pow2[b]
  OBVIOUS
<1>1. b - a \in Nat /\ a + (b - a) = b
  OBVIOUS
<1>2. PICK x \in Nat \ {0}, y \in Nat \ {0} : x = Pow2[a] /\ y = Pow2[b - a]
  BY <1>1, Pow2Type
<1>3. Pow2[b] = x * y
  BY <1>1, <1>2, Pow2Sum
<1>4. x <= x * y
  OBVIOUS
<1> QED BY <1>2, <1>3, <1>4

\* The order of the operands does not matter.
LEMMA BitsCommute ==
  ASSUME NEW x \in Nat, NEW y \in Nat
  PROVE  x & y = y & x /\ x | y = y | x /\ x ^^ y = y ^^ x
<1> DEFINE Ok(w) == \A a, b \in 0 .. Pow2[w] - 1 : a & b = b & a /\ a | b = b | a /\ a ^^ b = b ^^ a
           S == {w \in Nat : Ok(w)}
<1>1. 0 \in S
  <2>1. \A a \in 0 .. Pow2[0] - 1 : a = 0
    BY Pow2Step
  <2> QED BY <2>1
<1>2. ASSUME NEW w \in Nat, w \in S PROVE w + 1 \in S
  <2> SUFFICES ASSUME NEW a \in 0 .. Pow2[w + 1] - 1, NEW b \in 0 .. Pow2[w + 1] - 1
      PROVE  a & b = b & a /\ a | b = b | a /\ a ^^ b = b ^^ a
    OBVIOUS
  <2> DEFINE u == a \div 2
             v == b \div 2
  <2>1. u \in 0 .. Pow2[w] - 1 /\ v \in 0 .. Pow2[w] - 1 /\ a \in Nat /\ b \in Nat
    BY HalfOfWidth, Pow2Type
  <2>2. u & v = v & u /\ u | v = v | u /\ u ^^ v = v ^^ u
    BY <1>2, <2>1
  <2>3. /\ a & b = 2 * (u & v) + (IF a % 2 = 1 /\ b % 2 = 1 THEN 1 ELSE 0)
        /\ a | b = 2 * (u | v) + (IF a % 2 = 0 /\ b % 2 = 0 THEN 0 ELSE 1)
        /\ a ^^ b = 2 * (u ^^ v) + (IF a % 2 = b % 2 THEN 0 ELSE 1)
    BY <2>1, BitRules
  <2>4. /\ b & a = 2 * (v & u) + (IF b % 2 = 1 /\ a % 2 = 1 THEN 1 ELSE 0)
        /\ b | a = 2 * (v | u) + (IF b % 2 = 0 /\ a % 2 = 0 THEN 0 ELSE 1)
        /\ b ^^ a = 2 * (v ^^ u) + (IF b % 2 = a % 2 THEN 0 ELSE 1)
    BY <2>1, BitRules
  <2> HIDE DEF u, v
  <2> QED BY <2>2, <2>3, <2>4
<1> HIDE DEF S
<1>3. \A w \in Nat : w \in S
  BY <1>1, <1>2, InductionOn
<1>4. x + y \in Nat /\ x <= x + y /\ y <= x + y
  OBVIOUS
<1>5. x < Pow2[x + y] /\ y < Pow2[x + y]
  BY <1>4, SomeWidth, Pow2Grows, Pow2Type
<1>6. x \in 0 .. Pow2[x + y] - 1 /\ y \in 0 .. Pow2[x + y] - 1
  BY <1>4, <1>5, Pow2Type
<1>7. x + y \in S
  BY <1>3, <1>4
<1> QED BY <1>6, <1>7 DEF S

\* Combined with no bits or with all bits of the width.
LEMMA MaskRules ==
  \A w \in Nat : \A x \in 0 .. Pow2[w] - 1 :
     /\ x & 0 = 0 /\ x & (Pow2[w] - 1) = x
     /\ x | 0 = x /\ x | (Pow2[w] - 1) = Pow2[w] - 1
     /\ x ^^ 0 = x /\ x ^^ (Pow2[w] - 1) = Pow2[w] - 1 - x
<1> DEFINE Ok(w) == \A x \in 0 .. Pow2[w] - 1 :
              /\ x & 0 = 0 /\ x & (Pow2[w] - 1) = x
              /\ x | 0 = x /\ x | (Pow2[w] - 1) = Pow2[w] - 1
              /\ x ^^ 0 = x /\ x ^^ (Pow2[w] - 1) = Pow2[w] - 1 - x
           S == {w \in Nat : Ok(w)}
<1>1. 0 \in S
  <2>1. Pow2[0] = 1
    BY Pow2Step
  <2> QED BY <2>1, BitsOfZero
<1>2. ASSUME NEW w \in Nat, w \in S PROVE w + 1 \in S
  <2> SUFFICES ASSUME NEW x \in 0 .. Pow2[w + 1] - 1
      PROVE  /\ x & 0 = 0 /\ x & (Pow2[w + 1] - 1) = x
             /\ x | 0 = x /\ x | (Pow2[w + 1] - 1) = Pow2[w + 1] - 1
             /\ x ^^ 0 = x /\ x ^^ (Pow2[w + 1] - 1) = Pow2[w + 1] - 1 - x
    OBVIOUS
  <2> DEFINE u == x \div 2
             n == Pow2[w] - 1
  <2>1. u \in 0 .. Pow2[w] - 1 /\ x % 2 \in {0, 1} /\ x = 2 * u + (x % 2)
    BY HalfOfWidth
  <2>2. Pow2[w + 1] = 2 * Pow2[w] /\ Pow2[w] \in Nat \ {0}
    BY Pow2Step, Pow2Type
  <2>3. /\ u & 0 = 0 /\ u & n = u
        /\ u | 0 = u /\ u | n = n
        /\ u ^^ 0 = u /\ u ^^ n = n - u
    BY <1>2, <2>1
  <2> DEFINE q == Pow2[w + 1] - 1
  <2>4. q \div 2 = n /\ q % 2 = 1 /\ q \in Nat /\ q = 2 * n + 1 /\ n \in Nat
    BY <2>2
  <2>5. 0 \div 2 = 0 /\ 0 % 2 = 0 /\ x \in Nat
    BY <2>1
  <2>6. x & 0 = 0 /\ x | 0 = x /\ x ^^ 0 = x
    <3>1. /\ x & 0 = 2 * (u & (0 \div 2)) + (IF x % 2 = 1 /\ 0 % 2 = 1 THEN 1 ELSE 0)
          /\ x | 0 = 2 * (u | (0 \div 2)) + (IF x % 2 = 0 /\ 0 % 2 = 0 THEN 0 ELSE 1)
          /\ x ^^ 0 = 2 * (u ^^ (0 \div 2)) + (IF x % 2 = 0 % 2 THEN 0 ELSE 1)
      BY <2>5, BitRules
    <3> HIDE DEF u, q, n
    <3> QED BY <2>1, <2>3, <2>5, <3>1
  <2>7. x & q = x /\ x | q = q /\ x ^^ q = q - x
    <3>1. /\ x & q = 2 * (u & (q \div 2)) + (IF x % 2 = 1 /\ q % 2 = 1 THEN 1 ELSE 0)
          /\ x | q = 2 * (u | (q \div 2)) + (IF x % 2 = 0 /\ q % 2 = 0 THEN 0 ELSE 1)
          /\ x ^^ q = 2 * (u ^^ (q \div 2)) + (IF x % 2 = q % 2 THEN 0 ELSE 1)
      BY <2>4, <2>5, BitRules
    <3> HIDE DEF u, q, n
    <3>2. u \in Nat
      BY <2>1, <2>2
    <3> QED BY <2>1, <2>3, <2>4, <3>1, <3>2
  <2> QED BY <2>6, <2>7
<1> HIDE DEF S
<1>3. \A w \in Nat : w \in S
  BY <1>1, <1>2, InductionOn
<1> QED BY <1>3 DEF S

\* Zero changes no bit.
LEMMA OrZero == \A x \in Nat : x | 0 = x /\ x ^^ 0 = x
  BY MaskRules, SomeWidth, Pow2Type

\* The last bit of an even number is free.
LEMMA EvenOrBit == \A x \in Nat, b \in {0, 1} : (2 * x) | b = 2 * x + b
<1> SUFFICES ASSUME NEW x \in Nat, NEW b \in {0, 1} PROVE (2 * x) | b = 2 * x + b
  OBVIOUS
<1> DEFINE y == 2 * x
<1>1. y \in Nat /\ y \div 2 = x /\ y % 2 = 0 /\ b \in Nat /\ b \div 2 = 0 /\ b % 2 = b
  OBVIOUS
<1>2. y | b = 2 * ((y \div 2) | (b \div 2)) + (IF y % 2 = 0 /\ b % 2 = 0 THEN 0 ELSE 1)
  BY <1>1, BitRules
<1> HIDE DEF y
<1>3. x | 0 = x
  BY OrZero
<1>4. y | b = 2 * x + b
  BY <1>1, <1>2, <1>3
<1> QED BY <1>4 DEF y

\* The highest bit of an exclusive or says whether the highest bits differ.
LEMMA XorTopBit ==
  \A w \in Nat : \A x, y \in 0 .. Pow2[w + 1] - 1 :
     (x ^^ y >= Pow2[w]) <=> ((x >= Pow2[w]) # (y >= Pow2[w]))
<1> DEFINE Ok(w) == \A x, y \in 0 .. Pow2[w + 1] - 1 :
              (x ^^ y >= Pow2[w]) <=> ((x >= Pow2[w]) # (y >= Pow2[w]))
           S == {w \in Nat : Ok(w)}
<1>0. ASSUME NEW w \in Nat, NEW x \in 0 .. Pow2[w + 1] - 1, NEW y \in 0 .. Pow2[w + 1] - 1
      PROVE  /\ x ^^ y = 2 * ((x \div 2) ^^ (y \div 2)) + (IF x % 2 = y % 2 THEN 0 ELSE 1)
             /\ x \in Nat /\ y \in Nat
  BY BitRules, Pow2Type
<1>1. 0 \in S
  <2>1. Pow2[0 + 1] = 2 /\ Pow2[0] = 1
    BY Pow2Step
  <2> SUFFICES ASSUME NEW x \in 0 .. Pow2[0 + 1] - 1, NEW y \in 0 .. Pow2[0 + 1] - 1
      PROVE (x ^^ y >= Pow2[0]) <=> ((x >= Pow2[0]) # (y >= Pow2[0]))
    OBVIOUS
  <2>2. x \in {0, 1} /\ y \in {0, 1}
    BY <2>1
  <2>3. x \div 2 = 0 /\ y \div 2 = 0 /\ x % 2 = x /\ y % 2 = y
    BY <2>2
  <2>4. x ^^ y = IF x = y THEN 0 ELSE 1
    BY <1>0, <2>3, BitsOfZero
  <2> QED BY <2>1, <2>2, <2>4
<1>2. ASSUME NEW w \in Nat, w \in S PROVE w + 1 \in S
  <2> SUFFICES ASSUME NEW x \in 0 .. Pow2[(w + 1) + 1] - 1, NEW y \in 0 .. Pow2[(w + 1) + 1] - 1
      PROVE (x ^^ y >= Pow2[w + 1]) <=> ((x >= Pow2[w + 1]) # (y >= Pow2[w + 1]))
    OBVIOUS
  <2> DEFINE u == x \div 2
             v == y \div 2
             z == u ^^ v
  <2>1. u \in 0 .. Pow2[w + 1] - 1 /\ v \in 0 .. Pow2[w + 1] - 1
    BY HalfOfWidth
  <2>2. (z >= Pow2[w]) <=> ((u >= Pow2[w]) # (v >= Pow2[w]))
    BY <1>2, <2>1
  <2>3. Pow2[w + 1] = 2 * Pow2[w] /\ Pow2[w] \in Nat \ {0}
    BY Pow2Step, Pow2Type
  <2>4. z \in Nat
    BY <2>1, BitTypes, Pow2Type
  <2>5. x ^^ y = 2 * z + (IF x % 2 = y % 2 THEN 0 ELSE 1)
    BY <1>0
  <2>6. /\ x % 2 \in {0, 1} /\ x = 2 * u + (x % 2)
        /\ y % 2 \in {0, 1} /\ y = 2 * v + (y % 2)
    BY HalfOfWidth
  <2>7. (x >= Pow2[w + 1] <=> u >= Pow2[w]) /\ (y >= Pow2[w + 1] <=> v >= Pow2[w])
    <3> HIDE DEF u, v
    <3> QED BY <2>1, <2>3, <2>6
  <2>8. x ^^ y >= Pow2[w + 1] <=> z >= Pow2[w]
    <3> HIDE DEF z
    <3> QED BY <2>3, <2>4, <2>5
  <2> HIDE DEF u, v, z
  <2> QED BY <2>2, <2>7, <2>8
<1> HIDE DEF S
<1>3. \A w \in Nat : w \in S
  BY <1>1, <1>2, InductionOn
<1> QED BY <1>3 DEF S

\* The byte and halfword lanes of a word.
LEMMA LaneXor ==
  ASSUME NEW p \in Nat
  PROVE  /\ p ^^ 3 = p - (p % 4) + (3 - (p % 4))
         /\ p ^^ 2 = IF p % 4 < 2 THEN p + 2 ELSE p - 2
<1> DEFINE u == p \div 2
           v == u \div 2
<1>1. /\ p ^^ 3 = 2 * (u ^^ (3 \div 2)) + (IF p % 2 = 3 % 2 THEN 0 ELSE 1)
      /\ p ^^ 2 = 2 * (u ^^ (2 \div 2)) + (IF p % 2 = 2 % 2 THEN 0 ELSE 1)
  BY BitRules
<1>2. u \in Nat /\ v \in Nat /\ 3 \div 2 = 1 /\ 2 \div 2 = 1 /\ 3 % 2 = 1 /\ 2 % 2 = 0
  OBVIOUS
<1>3. u ^^ 1 = 2 * (v ^^ (1 \div 2)) + (IF u % 2 = 1 % 2 THEN 0 ELSE 1)
  BY <1>2, BitRules
<1>4. 1 \div 2 = 0 /\ 1 % 2 = 1 /\ v ^^ 0 = v
  BY <1>2, OrZero
<1>5. p = 4 * v + (p % 4) /\ p % 4 \in 0 .. 3 /\ p % 2 = (p % 4) % 2 /\ u % 2 = (p % 4) \div 2
  OBVIOUS
<1> HIDE DEF u, v
<1>6. p ^^ 3 = 2 * (u ^^ 1) + (IF p % 2 = 1 THEN 0 ELSE 1) /\ p ^^ 2 = 2 * (u ^^ 1) + (IF p % 2 = 0 THEN 0 ELSE 1)
  BY <1>1, <1>2
<1>7. u ^^ 1 = 2 * v + (IF u % 2 = 1 THEN 0 ELSE 1)
  BY <1>3, <1>4
<1> DEFINE r == p % 4
<1>8. r \in 0 .. 3 /\ p = 4 * v + r /\ p % 2 = r % 2 /\ u % 2 = r \div 2
  BY <1>5
<1> HIDE DEF r
<1>9. p ^^ 3 = 4 * v + (3 - r) /\ p ^^ 2 = 4 * v + (IF r < 2 THEN r + 2 ELSE r - 2)
  <2>1. CASE r = 0
    BY <1>2, <1>6, <1>7, <1>8, <2>1
  <2>2. CASE r = 1
    BY <1>2, <1>6, <1>7, <1>8, <2>2
  <2>3. CASE r = 2
    BY <1>2, <1>6, <1>7, <1>8, <2>3
  <2>4. CASE r = 3
    BY <1>2, <1>6, <1>7, <1>8, <2>4
  <2> QED BY <1>8, <2>1, <2>2, <2>3, <2>4
<1> QED BY <1>2, <1>8, <1>9 DEF r

(***************************************************************************)
(* Remainders                                                              *)
(***************************************************************************)

\* A quotient and a remainder are unique.
LEMMA RemainderIs ==
  ASSUME NEW x \in Int, NEW d \in Nat \ {0}, NEW q \in Int, NEW r \in 0 .. d - 1, x = q * d + r
  PROVE  x % d = r /\ x \div d = q
OBVIOUS

\* Every number has a quotient and a remainder.
LEMMA DividedBy ==
  ASSUME NEW x \in Int, NEW d \in Nat \ {0}
  PROVE  x % d \in 0 .. d - 1 /\ \E q \in Int : x \div d = q /\ x = q * d + (x % d)
<1> DEFINE q == x \div d
           r == x - q * d
<1>1. q \in Int /\ q * d <= x /\ x < (q + 1) * d
  OBVIOUS
<1>2. q * d \in Int /\ (q + 1) * d = q * d + d
  BY <1>1
<1>3. r \in 0 .. d - 1 /\ x = q * d + r
  BY <1>1, <1>2
<1>h. q = x \div d
  OBVIOUS
<1> HIDE DEF q, r
<1>4. x % d = r
  BY <1>1, <1>3, RemainderIs
<1>5. x % d \in 0 .. d - 1 /\ q \in Int /\ x \div d = q /\ x = q * d + (x % d)
  BY <1>1, <1>3, <1>4, <1>h, Zenon
<1>6. QED
  BY <1>5, Zenon

\* x and y differ by a multiple of d.
Congruent(x, y, d) == \E q \in Int : x = y + q * d

\* Numbers a multiple apart have the same remainder.
LEMMA SameRemainder ==
  ASSUME NEW d \in Nat \ {0}, NEW x \in Int, NEW y \in Int, Congruent(x, y, d)
  PROVE  x % d = y % d
<1>0. PICK q \in Int : x = y + q * d
  BY Zenon DEF Congruent
<1>1. PICK p \in Int : y = p * d + (y % d)
  BY DividedBy
<1>2. y % d \in 0 .. d - 1
  BY DividedBy
<1> DEFINE r == y % d
<1> HIDE DEF r
<1>3. x = (p + q) * d + r
  BY <1>0, <1>1 DEF r
<1>4. r \in 0 .. d - 1
  BY <1>2 DEF r
<1>5. x % d = r
  BY <1>3, <1>4, RemainderIs, p + q \in Int
<1> QED BY <1>5 DEF r

\* Sums, differences and products depend on the remainders only.
LEMMA RemainderOfSum ==
  ASSUME NEW x \in Int, NEW y \in Int, NEW d \in Nat \ {0}
  PROVE  /\ ((x % d) + y) % d = (x + y) % d
         /\ (y - (x % d)) % d = (y - x) % d
         /\ ((x % d) * y) % d = (x * y) % d
<1>1. x % d \in 0 .. d - 1
  BY DividedBy
<1>2. PICK q \in Int : x = q * d + (x % d)
  BY DividedBy
<1> DEFINE r == x % d
<1> HIDE DEF r
<1>3. r \in Int /\ x = q * d + r
  BY <1>1, <1>2 DEF r
<1>4. (x + y) = (r + y) + q * d /\ r + y \in Int /\ x + y \in Int
  BY <1>3
<1>5. (y - r) = (y - x) + q * d /\ y - r \in Int /\ y - x \in Int
  BY <1>3
<1>6. q * y \in Int /\ x * y \in Int /\ r * y \in Int
  BY <1>3
<1>7. x * y = (r * y) + (q * y) * d
  BY <1>3
<1>8. Congruent(x + y, r + y, d) /\ Congruent(y - r, y - x, d)
  BY <1>4, <1>5, Zenon DEF Congruent
<1>9. Congruent(x * y, r * y, d)
  BY <1>6, <1>7, Zenon DEF Congruent
<1>10. (x + y) % d = (r + y) % d /\ (y - r) % d = (y - x) % d
  BY <1>4, <1>5, <1>8, SameRemainder, Zenon
<1>11. (x * y) % d = (r * y) % d
  BY <1>6, <1>9, SameRemainder, Zenon
<1> QED BY <1>10, <1>11 DEF r

\* The remainder of a multiple is as good as the number.
LEMMA RemainderOfRemainder ==
  ASSUME NEW x \in Int, NEW d \in Nat \ {0}, NEW e \in Nat \ {0}
  PROVE  (x % (d * e)) % d = x % d /\ (x % (e * d)) % d = x % d
<1> DEFINE g == d * e
<1>1. g \in Nat \ {0} /\ e * d = g
  OBVIOUS
<1>2. x % g \in 0 .. g - 1
  BY <1>1, DividedBy
<1>3. PICK q \in Int : x = q * g + (x % g)
  BY <1>1, DividedBy
<1> DEFINE r == x % g
<1>4. r \in Int
  BY <1>2, <1>1
<1>5. x = r + q * g
  BY <1>3, <1>4, <1>1
<1> HIDE DEF r
<1>6. q * e \in Int /\ q * g = (q * e) * d
  BY DEF g
<1>7. x = r + (q * e) * d
  BY <1>5, <1>6
<1>9. Congruent(x, r, d)
  BY <1>6, <1>7, Zenon DEF Congruent
<1>8. x % d = r % d
  BY <1>4, <1>9, SameRemainder, Zenon
<1> QED BY <1>1, <1>8 DEF r, g

\* Dividing twice.
LEMMA QuotientOfQuotient ==
  ASSUME NEW x \in Int, NEW d \in Nat \ {0}, NEW e \in Nat \ {0}
  PROVE  (x \div d) \div e = x \div (d * e)
<1>1. PICK q \in Int : x \div d = q /\ x = q * d + (x % d)
  BY DividedBy
<1>2. PICK p \in Int : q \div e = p /\ q = p * e + (q % e)
  BY DividedBy
<1> DEFINE r == x % d
           s == q % e
<1>3. r \in 0 .. d - 1 /\ s \in 0 .. e - 1
  BY DividedBy
<1>4. x = q * d + r /\ q = p * e + s
  BY <1>1, <1>2
<1> HIDE DEF r, s
<1> DEFINE g == d * e
           u == s * d + r
<1>5. g \in Nat \ {0} /\ u \in Nat
  BY <1>3
<1>6. u < g
  <2>1. s + 1 <= e /\ s * d + d = (s + 1) * d
    BY <1>3
  <2>2. (s + 1) * d <= e * d
    BY <2>1, <1>3
  <2> QED BY <2>1, <2>2, <1>3
<1>7. x = p * g + u
  BY <1>3, <1>4
<1>8. u \in 0 .. g - 1
  BY <1>5, <1>6
<1> HIDE DEF g, u
<1>9. x \div g = p
  BY <1>5, <1>7, <1>8, RemainderIs
<1> QED BY <1>1, <1>2, <1>9 DEF g

\* Taking whole multiples off.
LEMMA QuotientOfMultiple ==
  ASSUME NEW x \in Int, NEW d \in Nat \ {0}, NEW k \in Int
  PROVE  (x + k * d) \div d = x \div d + k /\ (x + k * d) % d = x % d
<1>1. PICK q \in Int : x \div d = q /\ x = q * d + (x % d)
  BY DividedBy
<1> DEFINE r == x % d
           y == x + k * d
<1>2. r \in 0 .. d - 1 /\ x = q * d + r /\ y \in Int
  BY <1>1, DividedBy
<1>3. y = (q + k) * d + r /\ q + k \in Int
  BY <1>2
<1> HIDE DEF y, r
<1>4. y % d = r /\ y \div d = q + k
  BY <1>2, <1>3, RemainderIs
<1> QED BY <1>1, <1>4 DEF y, r

\* The remainder by a power of two keeps the halves and the last bit.
LEMMA HalfOfRemainder ==
  ASSUME NEW w \in Nat, NEW x \in Nat
  PROVE  /\ (x % Pow2[w + 1]) \div 2 = (x \div 2) % Pow2[w] /\ (x % Pow2[w + 1]) % 2 = x % 2
         /\ x % Pow2[w + 1] = 2 * ((x \div 2) % Pow2[w]) + (x % 2)
<1> DEFINE d == Pow2[w]  h == x \div 2  b == x % 2  r == h % d
<1>1. d \in Nat \ {0} /\ Pow2[w + 1] = 2 * d /\ h \in Nat /\ b \in {0, 1} /\ x = 2 * h + b
  BY Pow2Step, Pow2Type
<1> HIDE DEF d, h, b
<1>2. r \in 0 .. d - 1 /\ \E q \in Int : h \div d = q /\ h = q * d + r
  <2>1. h \in Int
    BY <1>1
  <2> QED BY <1>1, <2>1, DividedBy, Zenon
<1>3. \E q \in Int : h = q * d + r
  BY <1>2
<1>4. PICK q \in Int : h = q * d + r
  BY <1>3
<1> HIDE DEF r
<1> DEFINE e == 2 * d  s == 2 * r + b
<1>5. e \in Nat \ {0} /\ s \in 0 .. e - 1 /\ s \div 2 = r /\ s % 2 = b
  BY <1>1, <1>2
<1>6. x = q * e + s
  <2>1. 2 * (q * d) = q * (2 * d)
    BY <1>1
  <2>2. x = 2 * (q * d) + 2 * r + b
    <3> DEFINE k == q * d
    <3>1. k \in Int /\ r \in Int
      BY <1>1, <1>2
    <3> HIDE DEF k
    <3>2. h = k + r
      BY <1>4 DEF k
    <3>3. x = 2 * k + 2 * r + b
      BY <1>1, <3>1, <3>2
    <3> QED BY <3>3 DEF k
  <2> QED BY <2>1, <2>2, <1>1, <1>2
<1> HIDE DEF e, s
<1>7. x % e = s
  BY <1>5, <1>6, RemainderIs
<1>8. x % e = 2 * r + b /\ (x % e) \div 2 = r /\ (x % e) % 2 = b
  BY <1>5, <1>7 DEF s
<1> QED BY <1>1, <1>8 DEF d, h, b, r, e

\* The operations return numbers.
LEMMA BitsAreNat == \A x, y \in Nat : x & y \in Nat /\ x | y \in Nat /\ x ^^ y \in Nat
<1> SUFFICES ASSUME NEW x \in Nat, NEW y \in Nat PROVE x & y \in Nat /\ x | y \in Nat /\ x ^^ y \in Nat
  OBVIOUS
<1> DEFINE w == x + y  p == Pow2[w]
<1>1. w \in Nat /\ x < Pow2[x] /\ y < Pow2[y] /\ Pow2[x] <= Pow2[w] /\ Pow2[y] <= Pow2[w]
  BY SomeWidth, Pow2Grows
<1> HIDE DEF w
<1>2. Pow2[w] \in Nat /\ Pow2[x] \in Nat /\ Pow2[y] \in Nat
  BY <1>1, Pow2Type
<1>3. x \in 0 .. p - 1 /\ y \in 0 .. p - 1 /\ p \in Nat
  BY <1>1, <1>2
<1>4. \A z \in 0 .. p - 1 : z \in Nat
  BY <1>3
<1>5. x & y \in 0 .. p - 1 /\ x | y \in 0 .. p - 1 /\ x ^^ y \in 0 .. p - 1
  BY <1>1, <1>3, BitTypes
<1> HIDE DEF p
<1> QED BY <1>4, <1>5

\* The operations commute with taking the last bits.
LEMMA BitsOfRemainder ==
  \A w \in Nat : \A x, y \in Nat :
     /\ (x & y) % Pow2[w] = (x % Pow2[w]) & (y % Pow2[w])
     /\ (x | y) % Pow2[w] = (x % Pow2[w]) | (y % Pow2[w])
     /\ (x ^^ y) % Pow2[w] = (x % Pow2[w]) ^^ (y % Pow2[w])
<1> DEFINE Ok(w) == \A x, y \in Nat :
              /\ (x & y) % Pow2[w] = (x % Pow2[w]) & (y % Pow2[w])
              /\ (x | y) % Pow2[w] = (x % Pow2[w]) | (y % Pow2[w])
              /\ (x ^^ y) % Pow2[w] = (x % Pow2[w]) ^^ (y % Pow2[w])
           S == {w \in Nat : Ok(w)}
<1>0. \A x, y \in Nat : x & y \in Nat /\ x | y \in Nat /\ x ^^ y \in Nat
  BY BitsAreNat
<1>1. 0 \in S
  <2> SUFFICES ASSUME NEW x \in Nat, NEW y \in Nat
      PROVE  /\ (x & y) % Pow2[0] = (x % Pow2[0]) & (y % Pow2[0])
             /\ (x | y) % Pow2[0] = (x % Pow2[0]) | (y % Pow2[0])
             /\ (x ^^ y) % Pow2[0] = (x % Pow2[0]) ^^ (y % Pow2[0])
    OBVIOUS
  <2>1. \A z \in Nat : z % Pow2[0] = 0
    BY Pow2Step
  <2> QED BY <1>0, <2>1, BitsOfZero
<1>2. ASSUME NEW w \in Nat, w \in S PROVE w + 1 \in S
  <2> SUFFICES ASSUME NEW x \in Nat, NEW y \in Nat
      PROVE  /\ (x & y) % Pow2[w + 1] = (x % Pow2[w + 1]) & (y % Pow2[w + 1])
             /\ (x | y) % Pow2[w + 1] = (x % Pow2[w + 1]) | (y % Pow2[w + 1])
             /\ (x ^^ y) % Pow2[w + 1] = (x % Pow2[w + 1]) ^^ (y % Pow2[w + 1])
    OBVIOUS
  <2> DEFINE d == Pow2[w]  e == Pow2[w + 1]
             u == x \div 2  v == y \div 2
             xe == x % e  ye == y % e
  <2>1. d \in Nat \ {0} /\ e \in Nat \ {0} /\ u \in Nat /\ v \in Nat /\ xe \in Nat /\ ye \in Nat
    BY Pow2Type
  <2>2. xe \div 2 = u % d /\ xe % 2 = x % 2 /\ ye \div 2 = v % d /\ ye % 2 = y % 2
    BY HalfOfRemainder
  <2>3. (u & v) % d = (u % d) & (v % d) /\ (u | v) % d = (u % d) | (v % d) /\ (u ^^ v) % d = (u % d) ^^ (v % d)
    BY <1>2, <2>1
  <2>4. ASSUME NEW z \in Nat, NEW c \in {0, 1}
        PROVE  (2 * z + c) % e = 2 * (z % d) + c
    <3> DEFINE n == 2 * z + c
    <3>1. n \in Nat /\ n \div 2 = z /\ n % 2 = c
      OBVIOUS
    <3> HIDE DEF n
    <3>2. n % e = 2 * ((n \div 2) % d) + (n % 2)
      BY <3>1, HalfOfRemainder
    <3> QED BY <3>1, <3>2 DEF n
  <2>5. /\ x & y = 2 * (u & v) + (IF x % 2 = 1 /\ y % 2 = 1 THEN 1 ELSE 0)
        /\ x | y = 2 * (u | v) + (IF x % 2 = 0 /\ y % 2 = 0 THEN 0 ELSE 1)
        /\ x ^^ y = 2 * (u ^^ v) + (IF x % 2 = y % 2 THEN 0 ELSE 1)
    BY BitRules
  <2>6. /\ xe & ye = 2 * ((xe \div 2) & (ye \div 2)) + (IF xe % 2 = 1 /\ ye % 2 = 1 THEN 1 ELSE 0)
        /\ xe | ye = 2 * ((xe \div 2) | (ye \div 2)) + (IF xe % 2 = 0 /\ ye % 2 = 0 THEN 0 ELSE 1)
        /\ xe ^^ ye = 2 * ((xe \div 2) ^^ (ye \div 2)) + (IF xe % 2 = ye % 2 THEN 0 ELSE 1)
    BY <2>1, BitRules
  <2> DEFINE ca == IF x % 2 = 1 /\ y % 2 = 1 THEN 1 ELSE 0
             co == IF x % 2 = 0 /\ y % 2 = 0 THEN 0 ELSE 1
             cx == IF x % 2 = y % 2 THEN 0 ELSE 1
  <2>7. /\ x & y = 2 * (u & v) + ca /\ x | y = 2 * (u | v) + co /\ x ^^ y = 2 * (u ^^ v) + cx
        /\ ca \in {0, 1} /\ co \in {0, 1} /\ cx \in {0, 1}
    BY <2>5
  <2>8. /\ xe & ye = 2 * ((u % d) & (v % d)) + ca
        /\ xe | ye = 2 * ((u % d) | (v % d)) + co
        /\ xe ^^ ye = 2 * ((u % d) ^^ (v % d)) + cx
    BY <2>2, <2>6
  <2>9. u & v \in Nat /\ u | v \in Nat /\ u ^^ v \in Nat
    BY <1>0, <2>1
  <2> DEFINE za == u & v  zo == u | v  zx == u ^^ v
  <2> HIDE DEF ca, co, cx, za, zo, zx, u, v, d, e, xe, ye
  <2>10. za \in Nat /\ zo \in Nat /\ zx \in Nat
    BY <2>9 DEF za, zo, zx
  <2>11. (2 * za + ca) % e = 2 * (za % d) + ca /\ (2 * zo + co) % e = 2 * (zo % d) + co /\ (2 * zx + cx) % e = 2 * (zx % d) + cx
    BY <2>4, <2>7, <2>10
  <2>12. (x & y) % e = xe & ye /\ (x | y) % e = xe | ye /\ (x ^^ y) % e = xe ^^ ye
    BY <2>3, <2>7, <2>8, <2>11, Zenon DEF za, zo, zx
  <2> QED BY <2>12 DEF e, xe, ye
<1> HIDE DEF S
<1>3. \A w \in Nat : w \in S
  BY <1>1, <1>2, InductionOn
<1> QED BY <1>3 DEF S
==============================================================================

----------------------------- MODULE VideoProofs -----------------------------
(***************************************************************************)
(* Theorems about Rdp and Screen: from the display lists of a game to the  *)
(* field that the host shows.                                              *)
(*                                                                         *)
(* StreamsAreWhole, for any memory, buffer and registers: splitting a      *)
(* stream can be cut anywhere (SplitConcat), so the commands of the lists  *)
(* are those of the stream. CoveredDrawsAreAwaited, for any game that      *)
(* keeps the order of Orderly, what compiled blocks access inline          *)
(* included, and waits for its FULL_SYNC: the marks of the bridge hold     *)
(* every draw that may be unfinished and are closed under it (Lawful),     *)
(* and a list is never among them. SkippedFieldsAreShown, for any          *)
(* pictures, registers and writes under SteadyVi.                          *)
(*                                                                         *)
(* The lemmas about data are proved by Induction over sets of numbers.     *)
(***************************************************************************)
EXTENDS Rdp, Screen, SequenceTheorems, WellFoundedInduction, TLAPS

\* Induction, for a property given by the set of numbers that have it.
LEMMA Induction ==
  ASSUME NEW S, 0 \in S, \A n \in Nat : n \in S => n + 1 \in S
  PROVE  \A n \in Nat : n \in S
<1> DEFINE R == OpToRel(<, Nat)
           Bad == {n \in Nat : n \notin S}
<1>1. IsWellFoundedOn(R, Nat)
  BY NatLessThanWellFounded
<1>2. SUFFICES ASSUME Bad # {} PROVE FALSE
  OBVIOUS
<1>3. PICK m \in Bad : \A k \in Bad : ~(<<k, m>> \in R)
  <2> Bad \subseteq Nat
    OBVIOUS
  <2> HIDE DEF Bad, R
  <2> QED
    BY <1>1, <1>2, WFMin
<1>4. m \in Nat \ {0} /\ m - 1 \in Nat
  OBVIOUS
<1>5. <<m - 1, m>> \in R
  BY <1>4 DEF OpToRel
<1>6. m - 1 \in S
  BY <1>3, <1>4, <1>5
<1>7. (m - 1) + 1 \in S
  BY <1>4, <1>6
<1>8. QED
  BY <1>4, <1>7

-----------------------------------------------------------------------------
\* RunAll runs one command after the other.
LEMMA RunAllStepwise ==
  ASSUME NEW s, NEW U, NEW commands \in Seq(U)
  PROVE  \E after : /\ after[0] = s
                    /\ \A i \in 1 .. Len(commands) : after[i] = Run(after[i - 1], commands[i])
                    /\ RunAll(s, commands) = after[Len(commands)]
<1> DEFINE L == Len(commands)
           Good(f, n) == f = [i \in 0 .. n |-> IF i = 0 THEN s ELSE Run(f[i - 1], commands[i])]
           S == {n \in Nat : \E f : Good(f, n)}
<1>1. L \in Nat
  OBVIOUS
<1>2. 0 \in S
  <2>1. Good([i \in 0 .. 0 |-> s], 0)
    OBVIOUS
  <2>2. QED
    BY <2>1
<1>3. ASSUME NEW n \in Nat, n \in S
      PROVE  n + 1 \in S
  <2>1. PICK f : Good(f, n)
    BY <1>3
  <2> DEFINE g == [i \in 0 .. n + 1 |-> IF i = n + 1 THEN Run(f[n], commands[n + 1]) ELSE f[i]]
  <2>2. ASSUME NEW i \in 0 .. n + 1
        PROVE  g[i] = IF i = 0 THEN s ELSE Run(g[i - 1], commands[i])
    <3>1. CASE i = n + 1
      BY <3>1
    <3>2. CASE i # n + 1
      <4>1. i \in 0 .. n /\ g[i] = f[i] /\ (i # 0 => g[i - 1] = f[i - 1])
        BY <3>2
      <4>2. f[i] = IF i = 0 THEN s ELSE Run(f[i - 1], commands[i])
        BY <2>1, <4>1
      <4>3. QED
        BY <4>1, <4>2
    <3>3. QED
      BY <3>1, <3>2
  <2>3. Good(g, n + 1)
    BY <2>2
  <2> HIDE DEF g
  <2>4. \E h : Good(h, n + 1)
    BY <2>3
  <2>5. n + 1 \in Nat
    OBVIOUS
  <2> HIDE DEF Good
  <2>6. QED
    BY <2>4, <2>5
<1>4. PICK f : Good(f, L)
  <2> HIDE DEF S
  <2>1. L \in S
    BY <1>1, <1>2, <1>3, Induction
  <2>2. QED
    BY <2>1 DEF S
<1> DEFINE after == CHOOSE g : Good(g, L)
<1>5. Good(after, L)
  BY <1>4
<1>6. RunAll(s, commands) = after[L]
  BY DEF RunAll
<1> HIDE DEF after
<1>7. after[0] = s /\ \A i \in 1 .. L : after[i] = Run(after[i - 1], commands[i])
  BY <1>1, <1>5
<1>8. QED
  BY <1>6, <1>7

Registers == [start : 0 .. RdramUnits, end : 0 .. RdramUnits, current : 0 .. RdramUnits, startValid : BOOLEAN,
              freeze : BOOLEAN, xbus : BOOLEAN, pipeBusy : BOOLEAN, ready : BOOLEAN, intr : BOOLEAN]
List(dp, lo, rd, st, se) == [dpc |-> dp, leftover |-> lo, rdp |-> rd, stream |-> st, sent |-> se]

\* What a command makes of the registers and of the bridge.
AfterCommand(dp, c) ==
    IF c.op = "FullSync" THEN [dp EXCEPT !.pipeBusy = FALSE, !.ready = FALSE, !.intr = TRUE] ELSE dp
AfterBridge(rd, c) == IF c.op = "FullSync" THEN OnFullSync(Enqueue(rd, c)) ELSE Enqueue(rd, c)

\* What a command adds.
LEMMA RunAppends ==
  ASSUME NEW dp \in Registers, NEW lo, NEW rd, NEW st, NEW se, NEW c
  PROVE  Run(List(dp, lo, rd, st, se), c) = List(AfterCommand(dp, c), lo, AfterBridge(rd, c), st, Append(se, c))
<1> DEFINE s == List(dp, lo, rd, st, se)
           e == [s EXCEPT !.rdp = Enqueue(rd, c), !.sent = Append(se, c)]
<1>1. e = List(dp, lo, Enqueue(rd, c), st, Append(se, c))
  <2>1. PICK q, a : q = Enqueue(rd, c) /\ a = Append(se, c)
    OBVIOUS
  <2>2. PICK t : t = [s EXCEPT !.rdp = q]
    OBVIOUS
  <2>3. t = List(dp, lo, q, st, se)
    BY <2>2 DEF List
  <2>4. [t EXCEPT !.sent = a] = List(dp, lo, q, st, a)
    BY <2>3 DEF List
  <2>5. QED
    BY <2>1, <2>2, <2>4
<1>2. CASE c.op # "FullSync"
  BY <1>1, <1>2 DEF Run, List, AfterCommand, AfterBridge
<1>3. CASE c.op = "FullSync"
  BY <1>1, <1>3 DEF Run, List, AfterCommand, AfterBridge
<1>4. QED
  BY <1>2, <1>3
-----------------------------------------------------------------------------
\* What Split says of the units from i on, if at says it of those after.
PartFrom(units, at, i) ==
    IF i > Len(units) THEN [commands |-> <<>>, rest |-> <<>>]
    ELSE LET n == CommandUnits(units[i].op)
         IN IF i + n - 1 > Len(units) THEN [commands |-> <<>>, rest |-> SubSeq(units, i, Len(units))]
            ELSE [commands |-> (IF units[i].op = "Nop" THEN <<>> ELSE <<units[i]>>) \o at[i + n].commands,
                  rest |-> at[i + n].rest]

\* A command takes one to four units.
LEMMA CommandSize ==
  ASSUME NEW op
  PROVE  CommandUnits(op) \in 1 .. 4
BY DEF CommandUnits

\* A later part decides.
LEMMA PartDepends ==
  ASSUME NEW U, NEW units \in Seq(U), NEW f, NEW g, NEW i \in 1 .. Len(units) + 1,
         \A j \in i + 1 .. Len(units) + 1 : f[j] = g[j]
  PROVE  PartFrom(units, f, i) = PartFrom(units, g, i)
<1>1. PICK n \in 1 .. 4 : n = CommandUnits(units[i].op)
  BY CommandSize
<1>2. CASE i > Len(units)
  BY <1>2 DEF PartFrom
<1>3. CASE i <= Len(units) /\ i + n - 1 > Len(units)
  BY <1>1, <1>3 DEF PartFrom
<1>4. CASE i <= Len(units) /\ i + n - 1 <= Len(units)
  <2>1. i + n \in i + 1 .. Len(units) + 1
    BY <1>4
  <2>2. f[i + n] = g[i + n]
    BY <2>1
  <2>3. QED
    BY <1>1, <1>4, <2>2 DEF PartFrom
<1>5. QED
  BY <1>2, <1>3, <1>4

\* Split is its recursive part from the first unit on.
LEMMA SplitBackwards ==
  ASSUME NEW U, NEW units \in Seq(U)
  PROVE  \E at : /\ \A i \in 1 .. Len(units) + 1 : at[i] = PartFrom(units, at, i)
                 /\ Split(units) = at[1]
<1> DEFINE L == Len(units)
           Good(f, n) == f = [i \in L + 1 - n .. L + 1 |-> PartFrom(units, f, i)]
           S == {n \in Nat : n <= L => \E f : Good(f, n)}
<1>1. L \in Nat
  OBVIOUS
<1>2. 0 \in S
  <2> DEFINE g == [i \in L + 1 .. L + 1 |-> [commands |-> <<>>, rest |-> <<>>]]
  <2>1. \A i \in L + 1 .. L + 1 : g[i] = PartFrom(units, g, i)
    BY <1>1 DEF PartFrom
  <2>2. Good(g, 0)
    BY <1>1, <2>1
  <2> HIDE DEF g
  <2>3. \E f : Good(f, 0)
    BY <2>2
  <2> HIDE DEF Good
  <2>4. QED
    BY <2>3
<1>3. ASSUME NEW n \in Nat, n \in S
      PROVE  n + 1 \in S
  <2>1. CASE n + 1 > L
    BY <1>1, <2>1
  <2>2. CASE n + 1 <= L
    <3>1. PICK f : Good(f, n)
      BY <1>1, <1>3, <2>2
    <3> DEFINE g == [i \in L + 1 - (n + 1) .. L + 1 |-> IF i = L - n THEN PartFrom(units, f, i) ELSE f[i]]
    <3>2. ASSUME NEW i \in L + 1 - (n + 1) .. L + 1
          PROVE  g[i] = PartFrom(units, g, i)
      <4>1. \A j \in i + 1 .. L + 1 : f[j] = g[j]
        BY <1>1
      <4>2. i \in 1 .. L + 1
        BY <1>1, <2>2
      <4>3. PartFrom(units, f, i) = PartFrom(units, g, i)
        <5> HIDE DEF g
        <5> QED
          BY <4>1, <4>2, PartDepends
      <4>4. g[i] = PartFrom(units, f, i)
        <5>1. CASE i = L - n
          BY <5>1
        <5>2. CASE i # L - n
          <6>1. i \in L + 1 - n .. L + 1 /\ g[i] = f[i]
            BY <1>1, <5>2
          <6>2. f[i] = PartFrom(units, f, i)
            BY <3>1, <6>1
          <6>3. QED
            BY <6>1, <6>2
        <5>3. QED
          BY <5>1, <5>2
      <4>5. QED
        BY <4>3, <4>4
    <3>3. g = [i \in L + 1 - (n + 1) .. L + 1 |-> PartFrom(units, g, i)]
      BY <3>2
    <3> HIDE DEF g
    <3>4. \E h : Good(h, n + 1)
      BY <3>3
    <3> HIDE DEF Good
    <3>5. QED
      BY <3>4
  <2>3. QED
    BY <1>1, <2>1, <2>2
<1>4. PICK f : Good(f, L)
  <2> HIDE DEF S
  <2>1. L \in S
    BY <1>1, <1>2, <1>3, Induction
  <2>2. QED
    BY <1>1, <2>1 DEF S
<1>5. f = [i \in 1 .. L + 1 |-> PartFrom(units, f, i)]
  <2>1. L + 1 - L = 1
    BY <1>1
  <2>2. QED
    BY <1>4, <2>1
<1> DEFINE at == CHOOSE g : g = [i \in 1 .. L + 1 |-> PartFrom(units, g, i)]
<1>6. at = [i \in 1 .. L + 1 |-> PartFrom(units, at, i)]
  BY <1>5
<1>7. Split(units) = at[1]
  BY DEF Split, PartFrom
<1> HIDE DEF at
<1>8. \A i \in 1 .. L + 1 : at[i] = PartFrom(units, at, i)
  BY <1>6
<1>9. QED
  BY <1>7, <1>8

\* What is left of a sequence from i on.
LEMMA Suffix ==
  ASSUME NEW U, NEW units \in Seq(U), NEW i \in 1 .. Len(units) + 1
  PROVE  LET v == SubSeq(units, i, Len(units))
         IN /\ v \in Seq(U) /\ Len(v) = Len(units) - i + 1
            /\ \A j \in 1 .. Len(units) - i + 1 : v[j] = units[i + j - 1]
<1> DEFINE L == Len(units)
           v == SubSeq(units, i, L)
<1>1. L \in Nat /\ L \in Int /\ i \in Int
  OBVIOUS
<1>2. \A k \in i .. L : units[k] \in U
  <2>1. \A k \in i .. L : k \in 1 .. L
    BY <1>1
  <2>2. QED
    BY <2>1, ElementOfSeq
<1>3. /\ v \in Seq(U) /\ Len(v) = IF i <= L THEN L - i + 1 ELSE 0
      /\ \A j \in 1 .. L - i + 1 : v[j] = units[i + j - 1]
  <2> HIDE DEF L
  <2> QED
    BY <1>1, <1>2, SubSeqProperties
<1>4. (IF i <= L THEN L - i + 1 ELSE 0) = L - i + 1
  BY <1>1
<1>5. QED
  BY <1>3, <1>4

\* Leaving off twice is leaving off once.
LEMMA SuffixOfSuffix ==
  ASSUME NEW U, NEW units \in Seq(U), NEW i \in 1 .. Len(units) + 1, NEW j \in 1 .. Len(units) - i + 2
  PROVE  SubSeq(SubSeq(units, i, Len(units)), j, Len(units) - i + 1) = SubSeq(units, i + j - 1, Len(units))
<1> DEFINE L == Len(units)
           v == SubSeq(units, i, L)
           w == SubSeq(v, j, L - i + 1)
           x == SubSeq(units, i + j - 1, L)
<1>1. L \in Nat
  OBVIOUS
<1>2. v \in Seq(U) /\ Len(v) = L - i + 1 /\ \A k \in 1 .. L - i + 1 : v[k] = units[i + k - 1]
  BY Suffix
<1>3. i + j - 1 \in 1 .. L + 1
  BY <1>1
<1>4. x \in Seq(U) /\ Len(x) = L - (i + j - 1) + 1 /\ \A k \in 1 .. L - (i + j - 1) + 1 : x[k] = units[(i + j - 1) + k - 1]
  BY <1>3, Suffix
<1> HIDE DEF v, x
<1>5. w \in Seq(U) /\ Len(w) = (L - i + 1) - j + 1 /\ \A k \in 1 .. (L - i + 1) - j + 1 : w[k] = v[j + k - 1]
  <2>1. j \in 1 .. Len(v) + 1
    BY <1>1, <1>2
  <2>2. QED
    BY <1>2, <2>1, Suffix
<1> HIDE DEF w
<1>6. Len(w) = Len(x)
  BY <1>1, <1>4, <1>5
<1>7. ASSUME NEW k \in 1 .. Len(w)
      PROVE  w[k] = x[k]
  <2>1. k \in 1 .. (L - i + 1) - j + 1 /\ j + k - 1 \in 1 .. L - i + 1 /\ k \in 1 .. L - (i + j - 1) + 1
    BY <1>1, <1>5
  <2>2. w[k] = units[i + (j + k - 1) - 1]
    BY <1>2, <1>5, <2>1
  <2>3. i + (j + k - 1) - 1 = (i + j - 1) + k - 1
    OBVIOUS
  <2>4. QED
    BY <1>4, <2>1, <2>2, <2>3
<1>8. w = x
  BY <1>4, <1>5, <1>6, <1>7, SeqEqual
<1>9. QED
  BY <1>8 DEF w, v, x

\* All of a sequence is left from 1 on.
LEMMA WholeSuffix ==
  ASSUME NEW U, NEW units \in Seq(U)
  PROVE  SubSeq(units, 1, Len(units)) = units
<1> DEFINE v == SubSeq(units, 1, Len(units))
<1>1. 1 \in 1 .. Len(units) + 1 /\ Len(units) \in Nat
  OBVIOUS
<1>2. v \in Seq(U) /\ Len(v) = Len(units) - 1 + 1 /\ \A j \in 1 .. Len(units) - 1 + 1 : v[j] = units[1 + j - 1]
  BY <1>1, Suffix
<1> HIDE DEF v
<1>3. Len(v) = Len(units) /\ \A j \in 1 .. Len(v) : v[j] = units[j]
  <2>1. Len(units) - 1 + 1 = Len(units)
    BY <1>1
  <2>2. \A j \in 1 .. Len(units) : 1 + j - 1 = j
    BY <1>1
  <2>3. QED
    BY <1>2, <2>1, <2>2
<1>4. v = units
  BY <1>2, <1>3, SeqEqual
<1>5. QED
  BY <1>4 DEF v

\* Splitting from i on is splitting what is left from i on.
LEMMA SplitOfSuffix ==
  ASSUME NEW U, NEW units \in Seq(U), NEW i \in 1 .. Len(units) + 1, NEW at,
         \A k \in 1 .. Len(units) + 1 : at[k] = PartFrom(units, at, k)
  PROVE  at[i] = Split(SubSeq(units, i, Len(units)))
<1> DEFINE L == Len(units)
           v == SubSeq(units, i, L)
           M == L - i + 1
<1>1. L \in Nat /\ M \in Nat
  OBVIOUS
<1>2. v \in Seq(U) /\ Len(v) = M /\ \A j \in 1 .. M : v[j] = units[i + j - 1]
  BY Suffix
<1>3. \A j \in 1 .. M + 1 : SubSeq(v, j, M) = SubSeq(units, i + j - 1, L)
  <2>1. M + 1 = L - i + 2
    BY <1>1
  <2>2. QED
    BY <2>1, SuffixOfSuffix
<1> HIDE DEF v, M
<1>4. PICK bt : (\A k \in 1 .. M + 1 : bt[k] = PartFrom(v, bt, k)) /\ Split(v) = bt[1]
  BY <1>2, SplitBackwards
<1> DEFINE S == {n \in Nat : \A j \in 1 .. M + 1 : M + 1 - j <= n => bt[j] = at[i + j - 1]}
<1>5. M = L - i + 1
  BY DEF M
<1>6. ASSUME NEW j \in 1 .. M + 1, \A k \in j + 1 .. M + 1 : bt[k] = at[i + k - 1]
      PROVE  bt[j] = at[i + j - 1]
  <2>1. i + j - 1 \in 1 .. L + 1 /\ (j > M <=> i + j - 1 > L)
    BY <1>1, <1>5
  <2>2. bt[j] = PartFrom(v, bt, j) /\ at[i + j - 1] = PartFrom(units, at, i + j - 1)
    BY <1>4, <2>1
  <2>3. CASE j > M
    BY <1>2, <2>1, <2>2, <2>3 DEF PartFrom
  <2>4. CASE j <= M
    <3>1. j \in 1 .. M /\ v[j] = units[i + j - 1]
      BY <1>1, <1>2, <2>4
    <3>2. PICK n \in 1 .. 4 : n = CommandUnits(v[j].op)
      BY CommandSize
    <3>3. ~(j > Len(v)) /\ ~(i + j - 1 > L) /\ (j + n - 1 > Len(v) <=> i + j - 1 + n - 1 > L)
      BY <1>1, <1>5, <1>2, <2>1, <3>1
    <3>4. CASE j + n - 1 > Len(v)
      <4>1. bt[j] = [commands |-> <<>>, rest |-> SubSeq(v, j, Len(v))]
        BY <2>2, <3>2, <3>3, <3>4 DEF PartFrom
      <4>2. at[i + j - 1] = [commands |-> <<>>, rest |-> SubSeq(units, i + j - 1, L)]
        BY <2>2, <3>1, <3>2, <3>3, <3>4 DEF PartFrom
      <4>3. QED
        BY <1>2, <1>3, <4>1, <4>2
    <3>5. CASE ~(j + n - 1 > Len(v))
      <4>1. bt[j + n] = at[i + j - 1 + n]
        <5>1. j + n \in j + 1 .. M + 1 /\ i + (j + n) - 1 = i + j - 1 + n
          BY <1>1, <1>2, <3>5
        <5>2. QED
          BY <1>6, <5>1
      <4>2. bt[j] = [commands |-> (IF v[j].op = "Nop" THEN <<>> ELSE <<v[j]>>) \o bt[j + n].commands,
                     rest |-> bt[j + n].rest]
        BY <2>2, <3>2, <3>3, <3>5 DEF PartFrom
      <4>3. at[i + j - 1] = [commands |-> (IF v[j].op = "Nop" THEN <<>> ELSE <<v[j]>>) \o at[i + j - 1 + n].commands,
                             rest |-> at[i + j - 1 + n].rest]
        BY <2>2, <3>1, <3>2, <3>3, <3>5 DEF PartFrom
      <4>4. QED
        BY <4>1, <4>2, <4>3
    <3>6. QED
      BY <3>4, <3>5
  <2>5. QED
    BY <1>1, <2>3, <2>4
<1>7. 0 \in S
  <2>1. ASSUME NEW j \in 1 .. M + 1, M + 1 - j <= 0
        PROVE  bt[j] = at[i + j - 1]
    <3>1. \A k \in j + 1 .. M + 1 : FALSE
      BY <1>1, <2>1
    <3>2. QED
      BY <1>6, <3>1
  <2>2. QED
    BY <2>1
<1>8. ASSUME NEW n \in Nat, n \in S
      PROVE  n + 1 \in S
  <2>1. ASSUME NEW j \in 1 .. M + 1, M + 1 - j <= n + 1
        PROVE  bt[j] = at[i + j - 1]
    <3>1. ASSUME NEW k \in j + 1 .. M + 1
          PROVE  bt[k] = at[i + k - 1]
      <4>1. k \in 1 .. M + 1 /\ M + 1 - k <= n
        BY <1>1, <2>1
      <4>2. QED
        BY <1>8, <4>1
    <3>2. QED
      BY <1>6, <3>1
  <2>2. QED
    BY <2>1
<1>9. M \in S
  <2> HIDE DEF S
  <2> QED
    BY <1>1, <1>7, <1>8, Induction
<1>10. bt[1] = at[i + 1 - 1]
  BY <1>1, <1>9
<1>11. i + 1 - 1 = i
  OBVIOUS
<1>12. QED
  BY <1>4, <1>10, <1>11 DEF v

\* One command off the front.
LEMMA SplitForwards ==
  ASSUME NEW U, NEW units \in Seq(U)
  PROVE  /\ Len(units) = 0 => Split(units) = [commands |-> <<>>, rest |-> <<>>]
         /\ \A n \in 1 .. 4 : Len(units) # 0 /\ n = CommandUnits(units[1].op) =>
              Split(units) =
                IF n > Len(units) THEN [commands |-> <<>>, rest |-> units]
                ELSE LET more == Split(SubSeq(units, n + 1, Len(units)))
                     IN [commands |-> (IF units[1].op = "Nop" THEN <<>> ELSE <<units[1]>>) \o more.commands,
                         rest |-> more.rest]
<1> DEFINE L == Len(units)
<1>1. L \in Nat
  OBVIOUS
<1>2. PICK at : (\A k \in 1 .. L + 1 : at[k] = PartFrom(units, at, k)) /\ Split(units) = at[1]
  BY SplitBackwards
<1>3. Split(units) = PartFrom(units, at, 1)
  BY <1>1, <1>2
<1>4. CASE L = 0
  BY <1>3, <1>4 DEF PartFrom
<1>5. CASE L # 0
  <2> SUFFICES ASSUME NEW n \in 1 .. 4, n = CommandUnits(units[1].op)
               PROVE  Split(units) =
                        IF n > L THEN [commands |-> <<>>, rest |-> units]
                        ELSE LET more == Split(SubSeq(units, n + 1, L))
                             IN [commands |-> (IF units[1].op = "Nop" THEN <<>> ELSE <<units[1]>>) \o more.commands,
                                 rest |-> more.rest]
    BY <1>5
  <2>1. CASE n > L
    <3>1. ~(1 > L) /\ 1 + n - 1 > L
      BY <1>1, <1>5, <2>1
    <3>2. Split(units) = [commands |-> <<>>, rest |-> SubSeq(units, 1, L)]
      BY <1>3, <3>1 DEF PartFrom
    <3>3. QED
      BY <2>1, <3>2, WholeSuffix
  <2>2. CASE ~(n > L)
    <3>1. ~(1 > L) /\ ~(1 + n - 1 > L) /\ 1 + n \in 1 .. L + 1 /\ 1 + n = n + 1
      BY <1>1, <1>5, <2>2
    <3>2. at[n + 1] = Split(SubSeq(units, n + 1, L))
      BY <1>2, <3>1, SplitOfSuffix
    <3>3. Split(units) = [commands |-> (IF units[1].op = "Nop" THEN <<>> ELSE <<units[1]>>) \o at[n + 1].commands,
                          rest |-> at[n + 1].rest]
      BY <1>3, <3>1 DEF PartFrom
    <3>4. QED
      BY <2>2, <3>2, <3>3
  <2>3. QED
    BY <2>1, <2>2
<1>6. QED
  BY <1>1, <1>4, <1>5

\* A pair of sequences is a result of Split.
LEMMA SplitIsTyped ==
  ASSUME NEW U, NEW v, NEW c \in Seq(U), NEW e \in Seq(U), Split(v) = [commands |-> c, rest |-> e]
  PROVE  Split(v) \in [commands : Seq(U), rest : Seq(U)]
OBVIOUS

\* Split gives units for units.
LEMMA SplitTypes ==
  ASSUME NEW U, NEW units \in Seq(U)
  PROVE  Split(units) \in [commands : Seq(U), rest : Seq(U)]
<1> DEFINE Typed(v) == Split(v) \in [commands : Seq(U), rest : Seq(U)]
           S == {n \in Nat : \A v \in Seq(U) : Len(v) <= n => Typed(v)}
<1>1. <<>> \in Seq(U)
  OBVIOUS
<1>2. 0 \in S
  <2>1. ASSUME NEW v \in Seq(U), Len(v) <= 0
        PROVE  Typed(v)
    <3>1. Len(v) = 0
      BY <2>1
    <3>2. Split(v) = [commands |-> <<>>, rest |-> <<>>]
      BY <3>1, SplitForwards
    <3>3. QED
      BY <1>1, <3>2, SplitIsTyped
  <2>2. QED
    BY <2>1
<1>3. ASSUME NEW n \in Nat, n \in S
      PROVE  n + 1 \in S
  <2>1. ASSUME NEW v \in Seq(U), Len(v) <= n + 1
        PROVE  Typed(v)
    <3>1. PICK c \in 1 .. 4 : c = CommandUnits(v[1].op)
      BY CommandSize
    <3>2. CASE Len(v) = 0
      <4>1. Split(v) = [commands |-> <<>>, rest |-> <<>>]
        BY <3>2, SplitForwards
      <4>2. QED
        BY <1>1, <4>1, SplitIsTyped
    <3>3. CASE Len(v) # 0 /\ c > Len(v)
      <4>1. Split(v) = [commands |-> <<>>, rest |-> v]
        BY <3>1, <3>3, SplitForwards
      <4>2. QED
        BY <1>1, <4>1, SplitIsTyped
    <3>4. CASE Len(v) # 0 /\ ~(c > Len(v))
      <4> DEFINE w == SubSeq(v, c + 1, Len(v))
      <4>1. Split(v) = [commands |-> (IF v[1].op = "Nop" THEN <<>> ELSE <<v[1]>>) \o Split(w).commands,
                        rest |-> Split(w).rest]
        BY <3>1, <3>4, SplitForwards
      <4>2. c + 1 \in 1 .. Len(v) + 1
        BY <3>4
      <4>3. w \in Seq(U) /\ Len(w) = Len(v) - (c + 1) + 1
        BY <4>2, Suffix
      <4> HIDE DEF w
      <4>4. Len(w) <= n
        BY <2>1, <4>3
      <4>5. Typed(w)
        BY <1>3, <4>3, <4>4
      <4>6. Split(w).commands \in Seq(U) /\ Split(w).rest \in Seq(U)
        BY <4>5
      <4>7. v[1] \in U
        BY <3>4, ElementOfSeq
      <4>8. PICK h \in Seq(U) : h = IF v[1].op = "Nop" THEN <<>> ELSE <<v[1]>>
        <5>1. <<>> \in Seq(U) /\ <<v[1]>> \in Seq(U)
          BY <4>7
        <5>2. CASE v[1].op = "Nop"
          BY <5>1, <5>2
        <5>3. CASE ~(v[1].op = "Nop")
          BY <5>1, <5>3
        <5>4. QED
          BY <5>2, <5>3
      <4>9. h \o Split(w).commands \in Seq(U)
        BY <4>6
      <4>10. Split(v) = [commands |-> h \o Split(w).commands, rest |-> Split(w).rest]
        BY <4>1, <4>8
      <4>11. QED
        BY <4>6, <4>9, <4>10, SplitIsTyped
    <3>5. QED
      BY <3>2, <3>3, <3>4
  <2>2. QED
    BY <2>1
<1>4. Len(units) \in S
  <2> HIDE DEF S
  <2> QED
    BY <1>2, <1>3, Induction
<1>5. QED
  BY <1>4

\* What is left of two sequences from within the first on.
LEMMA SuffixOfConcat ==
  ASSUME NEW U, NEW a \in Seq(U), NEW b \in Seq(U), NEW i \in 1 .. Len(a) + 1
  PROVE  SubSeq(a \o b, i, Len(a \o b)) = SubSeq(a, i, Len(a)) \o b
<1> DEFINE ab == a \o b
           x == SubSeq(ab, i, Len(ab))
           y == SubSeq(a, i, Len(a))
           z == y \o b
<1>1. /\ ab \in Seq(U) /\ Len(ab) = Len(a) + Len(b) /\ Len(a) \in Nat /\ Len(b) \in Nat
      /\ \A k \in 1 .. Len(a) + Len(b) : ab[k] = IF k <= Len(a) THEN a[k] ELSE b[k - Len(a)]
  BY ConcatProperties
<1>2. y \in Seq(U) /\ Len(y) = Len(a) - i + 1 /\ \A j \in 1 .. Len(a) - i + 1 : y[j] = a[i + j - 1]
  BY Suffix
<1> HIDE DEF ab, y
<1>3. x \in Seq(U) /\ Len(x) = Len(ab) - i + 1 /\ \A j \in 1 .. Len(ab) - i + 1 : x[j] = ab[i + j - 1]
  <2>1. i \in 1 .. Len(ab) + 1
    BY <1>1
  <2>2. QED
    BY <1>1, <2>1, Suffix
<1>4. /\ z \in Seq(U) /\ Len(z) = Len(y) + Len(b)
      /\ \A k \in 1 .. Len(y) + Len(b) : z[k] = IF k <= Len(y) THEN y[k] ELSE b[k - Len(y)]
  BY <1>2, ConcatProperties
<1> HIDE DEF x, z
<1>5. Len(x) = Len(z)
  BY <1>1, <1>2, <1>3, <1>4
<1>6. ASSUME NEW k \in 1 .. Len(x)
      PROVE  x[k] = z[k]
  <2>1. x[k] = ab[i + k - 1] /\ i + k - 1 \in 1 .. Len(a) + Len(b)
    BY <1>1, <1>3
  <2>2. z[k] = IF k <= Len(y) THEN y[k] ELSE b[k - Len(y)]
    BY <1>4, <1>5
  <2>3. CASE k <= Len(y)
    <3>1. k \in 1 .. Len(a) - i + 1 /\ i + k - 1 <= Len(a)
      BY <1>1, <1>2, <2>3
    <3>2. QED
      BY <1>1, <1>2, <2>1, <2>2, <2>3, <3>1
  <2>4. CASE ~(k <= Len(y))
    <3>1. ~(i + k - 1 <= Len(a)) /\ i + k - 1 - Len(a) = k - Len(y)
      BY <1>1, <1>2, <2>4
    <3>2. PICK m \in 1 .. Len(a) + Len(b) : m = i + k - 1 /\ ~(m <= Len(a)) /\ m - Len(a) = k - Len(y)
      BY <2>1, <3>1
    <3>3. ab[m] = b[m - Len(a)]
      BY <1>1, <3>2, Zenon
    <3>4. QED
      BY <2>1, <2>2, <2>4, <3>2, <3>3, Zenon
  <2>5. QED
    BY <2>3, <2>4
<1>7. x = z
  BY <1>3, <1>4, <1>5, <1>6, SeqEqual
<1>8. QED
  BY <1>7 DEF x, z, ab, y

\* A stream can be cut anywhere: what the cut leaves goes before what follows.
LEMMA SplitConcat ==
  ASSUME NEW U, NEW a \in Seq(U), NEW b \in Seq(U)
  PROVE  Split(a \o b) = [commands |-> Split(a).commands \o Split(Split(a).rest \o b).commands,
                          rest |-> Split(Split(a).rest \o b).rest]
<1> DEFINE Claim(v) == Split(v \o b) = [commands |-> Split(v).commands \o Split(Split(v).rest \o b).commands,
                                        rest |-> Split(Split(v).rest \o b).rest]
           S == {n \in Nat : \A v \in Seq(U) : Len(v) <= n => Claim(v)}
<1>1. ASSUME NEW v \in Seq(U), Split(v).commands = <<>>, Split(v).rest = v
      PROVE  Claim(v)
  <2>1. v \o b \in Seq(U)
    OBVIOUS
  <2>2. PICK sc \in Seq(U), sr \in Seq(U) : Split(v \o b) = [commands |-> sc, rest |-> sr]
    BY <2>1, SplitTypes
  <2>3. <<>> \o sc = sc
    BY ConcatEmptySeq
  <2>4. QED
    BY <1>1, <2>2, <2>3
<1>2. ASSUME NEW v \in Seq(U), Len(v) = 0
      PROVE  Claim(v)
  <2>1. Split(v).commands = <<>> /\ Split(v).rest = v
    <3>1. v = <<>>
      BY <1>2
    <3>2. Split(v) = [commands |-> <<>>, rest |-> <<>>]
      BY <1>2, SplitForwards
    <3>3. Split(v).commands = <<>> /\ Split(v).rest = <<>>
      <4>1. PICK e : e = <<>>
        OBVIOUS
      <4>2. Split(v) = [commands |-> e, rest |-> e]
        BY <3>2, <4>1
      <4>3. QED
        BY <4>1, <4>2
    <3>4. QED
      BY <3>1, <3>3
  <2>2. QED
    BY <1>1, <2>1
<1>3. 0 \in S
  <2>1. \A v \in Seq(U) : Len(v) <= 0 => Len(v) = 0
    OBVIOUS
  <2>2. QED
    BY <1>2, <2>1
<1>4. ASSUME NEW n \in Nat, n \in S
      PROVE  n + 1 \in S
  <2>1. ASSUME NEW v \in Seq(U), Len(v) <= n + 1
        PROVE  Claim(v)
    <3>1. PICK c \in 1 .. 4 : c = CommandUnits(v[1].op)
      BY CommandSize
    <3>2. CASE Len(v) = 0
      BY <1>2, <3>2
    <3>3. CASE Len(v) # 0 /\ c > Len(v)
      <4>1. Split(v) = [commands |-> <<>>, rest |-> v]
        BY <3>1, <3>3, SplitForwards
      <4> HIDE DEF Claim
      <4>2. QED
        BY <1>1, <4>1
    <3>4. CASE Len(v) # 0 /\ ~(c > Len(v))
      <4> DEFINE w == SubSeq(v, c + 1, Len(v))
                 vb == v \o b
                 wb == w \o b
      <4>1. PICK h : h = IF v[1].op = "Nop" THEN <<>> ELSE <<v[1]>>
        OBVIOUS
      <4>2. Split(v) = [commands |-> h \o Split(w).commands, rest |-> Split(w).rest]
        BY <3>1, <3>4, <4>1, SplitForwards
      <4>3. c + 1 \in 1 .. Len(v) + 1
        BY <3>4
      <4>4. w \in Seq(U) /\ Len(w) = Len(v) - (c + 1) + 1
        BY <4>3, Suffix
      <4>5. vb \in Seq(U) /\ Len(vb) = Len(v) + Len(b) /\ vb[1] = v[1]
        <5>1. \A k \in 1 .. Len(v) + Len(b) : vb[k] = IF k <= Len(v) THEN v[k] ELSE b[k - Len(v)]
          BY ConcatProperties
        <5>2. vb \in Seq(U) /\ Len(vb) = Len(v) + Len(b)
          BY ConcatProperties
        <5>3. 1 \in 1 .. Len(v) + Len(b) /\ 1 <= Len(v)
          BY <3>4
        <5>4. QED
          BY <5>1, <5>2, <5>3
      <4>6. SubSeq(vb, c + 1, Len(vb)) = wb
        BY <4>3, SuffixOfConcat
      <4>7. Split(vb) = [commands |-> h \o Split(wb).commands, rest |-> Split(wb).rest]
        <5> HIDE DEF vb, wb, w
        <5>1. Len(vb) # 0 /\ ~(c > Len(vb)) /\ c = CommandUnits(vb[1].op)
          BY <3>1, <3>4, <4>5
        <5>2. Split(vb) = [commands |-> (IF vb[1].op = "Nop" THEN <<>> ELSE <<vb[1]>>) \o Split(SubSeq(vb, c + 1, Len(vb))).commands,
                           rest |-> Split(SubSeq(vb, c + 1, Len(vb))).rest]
          BY <4>5, <5>1, SplitForwards
        <5>3. QED
          BY <4>1, <4>5, <4>6, <5>2
      <4> HIDE DEF w
      <4>8. Len(w) <= n
        BY <2>1, <4>4
      <4>9. Claim(w)
        BY <1>4, <4>4, <4>8
      <4>10. h \in Seq(U)
        <5>1. v[1] \in U
          BY <3>4, ElementOfSeq
        <5>2. <<>> \in Seq(U) /\ <<v[1]>> \in Seq(U)
          BY <5>1
        <5>3. CASE v[1].op = "Nop"
          BY <4>1, <5>2, <5>3
        <5>4. CASE ~(v[1].op = "Nop")
          BY <4>1, <5>2, <5>4
        <5>5. QED
          BY <5>3, <5>4
      <4> HIDE DEF vb, wb
      <4>11. PICK wc \in Seq(U), wr \in Seq(U) : Split(w) = [commands |-> wc, rest |-> wr]
        BY <4>4, SplitTypes
      <4>12. PICK tc \in Seq(U), tr \in Seq(U) : Split(wr \o b) = [commands |-> tc, rest |-> tr]
        <5>1. wr \o b \in Seq(U)
          OBVIOUS
        <5>2. QED
          BY <5>1, SplitTypes
      <4>13. Split(wb) = [commands |-> wc \o tc, rest |-> tr]
        <5>1. Split(w).commands = wc /\ Split(w).rest = wr
          BY <4>11
        <5>2. Split(Split(w).rest \o b).commands = tc /\ Split(Split(w).rest \o b).rest = tr
          BY <4>12, <5>1
        <5>3. QED
          BY <4>9, <5>1, <5>2, Zenon DEF wb
      <4>14. Split(v) = [commands |-> h \o wc, rest |-> wr]
        BY <4>2, <4>11
      <4>15. Split(vb) = [commands |-> h \o (wc \o tc), rest |-> tr]
        BY <4>7, <4>13
      <4>16. h \o (wc \o tc) = (h \o wc) \o tc
        <5>1. PICK g \in Seq(U) : g = h
          BY <4>10
        <5>2. (g \o wc) \o tc = g \o (wc \o tc)
          BY ConcatAssociative, SMTT(60)
        <5>3. QED
          BY <5>1, <5>2
      <4>17. Split(v).rest = wr /\ Split(v).commands = h \o wc
        BY <4>14
      <4>18. QED
        <5>1. Split(Split(v).rest \o b).commands = tc /\ Split(Split(v).rest \o b).rest = tr
          BY <4>12, <4>17
        <5>2. QED
          BY <4>15, <4>16, <4>17, <5>1, Zenon DEF vb
    <3>5. QED
      BY <3>2, <3>3, <3>4
  <2> HIDE DEF Claim
  <2>2. \A v \in Seq(U) : Len(v) <= n + 1 => Claim(v)
    BY <2>1
  <2>3. QED
    BY <2>2
<1>5. Len(a) \in S
  <2> HIDE DEF S
  <2> QED
    BY <1>3, <1>4, Induction
<1>6. Claim(a)
  <2> HIDE DEF Claim
  <2> QED
    BY <1>5
<1>7. QED
  BY <1>6

-----------------------------------------------------------------------------
\* A set of bridge states that no command leaves.
Stable(R) == \A r \in R, c \in Units : AfterBridge(r, c) \in R

\* The commands of a list are sent on and nothing else of the list's state changes.
LEMMA RunAllAppends ==
  ASSUME NEW dp \in Registers, NEW lo, NEW rd, NEW st, NEW se \in Seq(Units), NEW commands \in Seq(Units)
  PROVE  \E then, after :
           /\ then \in Registers
           /\ RunAll(List(dp, lo, rd, st, se), commands) = List(then, lo, after, st, se \o commands)
           /\ then.start = dp.start /\ then.end = dp.end /\ then.current = dp.current /\ then.startValid = dp.startValid
           /\ \A R : rd \in R /\ Stable(R) => after \in R
<1> DEFINE L == Len(commands)
           Sent(n) == se \o SubSeq(commands, 1, n)
           Reached(x, n) == \E then, after :
             /\ then \in Registers
             /\ x = List(then, lo, after, st, Sent(n))
             /\ then.start = dp.start /\ then.end = dp.end /\ then.current = dp.current /\ then.startValid = dp.startValid
             /\ \A R : rd \in R /\ Stable(R) => after \in R
<1>1. PICK f : /\ f[0] = List(dp, lo, rd, st, se)
               /\ \A i \in 1 .. L : f[i] = Run(f[i - 1], commands[i])
               /\ RunAll(List(dp, lo, rd, st, se), commands) = f[L]
  BY RunAllStepwise
<1> DEFINE S == {n \in Nat : n <= L => Reached(f[n], n)}
<1>2. L \in Nat
  OBVIOUS
<1>3. Sent(0) = se
  OBVIOUS
<1>4. ASSUME NEW n \in Nat, n + 1 <= L
      PROVE  Append(Sent(n), commands[n + 1]) = Sent(n + 1)
  <2>1. SubSeq(commands, 1, n + 1) = Append(SubSeq(commands, 1, n), commands[n + 1])
    BY <1>4
  <2>2. SubSeq(commands, 1, n) \in Seq(Units) /\ commands[n + 1] \in Units
    BY <1>4
  <2>3. QED
    BY <2>1, <2>2
<1>5. 0 \in S
  BY <1>1, <1>3
<1>6. ASSUME NEW n \in Nat, n \in S
      PROVE  n + 1 \in S
  <2> SUFFICES ASSUME n + 1 <= L PROVE Reached(f[n + 1], n + 1)
    OBVIOUS
  <2>1. Reached(f[n], n)
    BY <1>2, <1>6
  <2> HIDE DEF Sent
  <2>2. PICK then, after :
             /\ then \in Registers
             /\ f[n] = List(then, lo, after, st, Sent(n))
             /\ then.start = dp.start /\ then.end = dp.end /\ then.current = dp.current /\ then.startValid = dp.startValid
             /\ \A R : rd \in R /\ Stable(R) => after \in R
    BY <2>1
  <2> DEFINE c == commands[n + 1]
             next == AfterCommand(then, c)
             out == AfterBridge(after, c)
  <2>3. f[n + 1] = Run(f[n], c)
    BY <1>1, <1>2
  <2>4. f[n + 1] = List(next, lo, out, st, Append(Sent(n), c))
    <3>1. Run(List(then, lo, after, st, Sent(n)), c) = List(next, lo, out, st, Append(Sent(n), c))
      BY <2>2, RunAppends
    <3>2. QED
      BY <2>2, <2>3, <3>1, Zenon
  <2>5. /\ next \in Registers
        /\ next.start = then.start /\ next.end = then.end /\ next.current = then.current /\ next.startValid = then.startValid
    BY <2>2 DEF Registers, AfterCommand
  <2>6. \A R : rd \in R /\ Stable(R) => out \in R
    <3>1. c \in Units
      BY <1>2, ElementOfSeq
    <3> HIDE DEF c
    <3>2. QED
      BY <2>2, <3>1 DEF Stable
  <2> HIDE DEF next, out, c
  <2>7. f[n + 1] = List(next, lo, out, st, Sent(n + 1))
    BY <1>4, <2>4 DEF c
  <2>8. QED
    BY <2>2, <2>5, <2>7, <2>6
<1>7. L \in S
  <2> HIDE DEF S
  <2> QED
    BY <1>2, <1>5, <1>6, Induction
<1>8. Sent(L) = se \o commands
  OBVIOUS
<1> HIDE DEF Sent
<1>9. Reached(f[L], L)
  BY <1>2, <1>7
<1>10. QED
  BY <1>1, <1>8, <1>9

\* A list fetches what RDRAM or DMEM holds.
LEMMA FetchedAreUnits ==
  ASSUME NEW dp \in Registers, dp.end > dp.current
  PROVE  Fetched(dp) \in Seq(Units)
<1>1. PICK n \in Nat : n = dp.end - dp.current
  BY RdpAssumption DEF Registers
<1>2. ASSUME NEW k \in 1 .. n
      PROVE  IF dp.xbus THEN Dmem[(dp.current + k - 1) % DmemUnits] \in Units ELSE Rdram[dp.current + k - 1] \in Units
  <2>1. /\ dp.current \in Int /\ dp.current >= 0 /\ dp.end \in Int /\ dp.end <= RdramUnits /\ RdramUnits \in Nat
        /\ DmemUnits \in Nat \ {0} /\ k \in Int /\ k >= 1 /\ k <= n
    BY RdpAssumption DEF Registers
  <2>2. dp.current + k - 1 \in Granules
    BY <1>1, <2>1, RdpAssumption
  <2>3. (dp.current + k - 1) % DmemUnits \in 0 .. DmemUnits - 1
    BY <2>1
  <2>4. (dp.current + k - 1) % DmemUnits \in DOMAIN Dmem
    BY <2>3, RdpAssumption
  <2>5. QED
    BY <2>2, <2>4 DEF Units
<1>3. Fetched(dp) = [k \in 1 .. n |-> IF dp.xbus THEN Dmem[(dp.current + k - 1) % DmemUnits] ELSE Rdram[dp.current + k - 1]]
  BY <1>1 DEF Fetched
<1>4. \A k \in 1 .. n : (IF dp.xbus THEN Dmem[(dp.current + k - 1) % DmemUnits] ELSE Rdram[dp.current + k - 1]) \in Units
  BY <1>2
<1>5. Fetched(dp) \in [1 .. n -> Units]
  BY <1>3, <1>4
<1>6. QED
  BY <1>5, SeqDef

\* The list has sent on what the stream holds and keeps what is cut off.
Streamed(dp, lo, st, se) ==
    /\ dp \in Registers /\ lo \in Seq(Units) /\ st \in Seq(Units) /\ se \in Seq(Units)
    /\ Split(st) = [commands |-> se, rest |-> lo]
StreamedList(x) == \E dp, lo, rd, st, se : x = List(dp, lo, rd, st, se) /\ Streamed(dp, lo, st, se)

\* An empty stream has sent nothing on.
LEMMA EmptyStreamed ==
  ASSUME NEW dp \in Registers
  PROVE  Streamed(dp, <<>>, <<>>, <<>>)
<1>1. <<>> \in Seq(Units) /\ Len(<<>>) = 0
  OBVIOUS
<1>2. Split(<<>>) = [commands |-> <<>>, rest |-> <<>>]
  BY <1>1, SplitForwards
<1>3. QED
  BY <1>1, <1>2 DEF Streamed

\* What a list leaves of the registers and the bridge.
Seen(x) == IF x.dpc.xbus THEN x.rdp ELSE CheckFramebuffers(x.rdp, x.dpc.current, x.dpc.end)
Follows(y, x) ==
    /\ y.dpc.start = x.dpc.start /\ y.dpc.end = x.dpc.end /\ y.dpc.startValid = x.dpc.startValid
    /\ \/ y.dpc.current = x.dpc.current /\ y.rdp = x.rdp
       \/ /\ x.dpc.end > x.dpc.current /\ y.dpc.current = x.dpc.end
          /\ \A R : Seen(x) \in R /\ Stable(R) => y.rdp \in R

\* A list of commands adds to the stream what it fetches and sends on what that completes.
LEMMA ListStreamed ==
  ASSUME NEW x, StreamedList(x), x.dpc.end > x.dpc.current
  PROVE  StreamedList(ProcessList(x)) /\ Follows(ProcessList(x), x)
<1>1. PICK dp, lo, rd, st, se : x = List(dp, lo, rd, st, se) /\ Streamed(dp, lo, st, se)
  BY DEF StreamedList
<1>2. /\ x.dpc = dp /\ x.leftover = lo /\ x.rdp = rd /\ x.stream = st /\ x.sent = se
  BY <1>1 DEF List
<1>3. /\ dp \in Registers /\ lo \in Seq(Units) /\ st \in Seq(Units) /\ se \in Seq(Units)
      /\ Split(st) = [commands |-> se, rest |-> lo]
  BY <1>1 DEF Streamed
<1>4. CASE dp.end - dp.current + Len(lo) > DpcBufferUnits
  <2>1. ProcessList(x) = [x EXCEPT !.leftover = <<>>, !.stream = <<>>, !.sent = <<>>]
    BY <1>2, <1>4 DEF ProcessList
  <2>2. PICK e : e = <<>>
    OBVIOUS
  <2>3. [x EXCEPT !.leftover = e, !.stream = e, !.sent = e] = List(dp, e, rd, e, e)
    <3>1. PICK x1 : x1 = [x EXCEPT !.leftover = e]
      OBVIOUS
    <3>2. x1 = [dpc |-> dp, leftover |-> e, rdp |-> rd, stream |-> st, sent |-> se]
      BY <1>1, <3>1 DEF List
    <3>3. PICK x2 : x2 = [x1 EXCEPT !.stream = e]
      OBVIOUS
    <3>4. x2 = [dpc |-> dp, leftover |-> e, rdp |-> rd, stream |-> e, sent |-> se]
      BY <3>2, <3>3
    <3>5. [x2 EXCEPT !.sent = e] = [dpc |-> dp, leftover |-> e, rdp |-> rd, stream |-> e, sent |-> e]
      BY <3>4
    <3>6. QED
      BY <3>1, <3>3, <3>5 DEF List
  <2>4. StreamedList(ProcessList(x))
    BY <1>3, <2>1, <2>2, <2>3, EmptyStreamed DEF StreamedList
  <2>5. ProcessList(x).dpc = dp /\ ProcessList(x).rdp = rd
    BY <2>1, <2>2, <2>3 DEF List
  <2>6. QED
    BY <1>2, <2>4, <2>5 DEF Follows
<1>5. CASE ~(dp.end - dp.current + Len(lo) > DpcBufferUnits)
  <2> DEFINE list == Fetched(dp)
             seen == IF dp.xbus THEN rd ELSE CheckFramebuffers(rd, dp.current, dp.end)
             split == Split(lo \o list)
             c == IF dp.xbus THEN x ELSE [x EXCEPT !.rdp = CheckFramebuffers(rd, dp.current, dp.end)]
             done == RunAll(c, split.commands)
  <2>1. ProcessList(x) = [done EXCEPT !.leftover = split.rest, !.dpc.current = dp.end, !.stream = done.stream \o list]
    BY <1>2, <1>5 DEF ProcessList
  <2>2. c = List(dp, lo, seen, st, se)
    BY <1>1 DEF List
  <2>3. list \in Seq(Units)
    BY <1>2, <1>3, FetchedAreUnits
  <2> HIDE DEF list, seen, c
  <2>4. lo \o list \in Seq(Units)
    BY <1>3, <2>3
  <2>5. PICK more \in Seq(Units), rest \in Seq(Units) : split = [commands |-> more, rest |-> rest]
    BY <2>4, SplitTypes
  <2>6. split.commands = more /\ split.rest = rest
    BY <2>5
  <2>7. PICK then, after :
           /\ then \in Registers
           /\ done = List(then, lo, after, st, se \o more)
           /\ then.start = dp.start /\ then.end = dp.end /\ then.current = dp.current /\ then.startValid = dp.startValid
           /\ \A R : seen \in R /\ Stable(R) => after \in R
    BY <1>3, <2>2, <2>6, RunAllAppends
  <2> HIDE DEF done, split
  <2> DEFINE last == [then EXCEPT !.current = dp.end]
  <2>8. ProcessList(x) = List(last, rest, after, st \o list, se \o more)
    <3>1. PICK to, fed, q : to = dp.end /\ fed = st \o list /\ q = se \o more
      OBVIOUS
    <3>2. done = [dpc |-> then, leftover |-> lo, rdp |-> after, stream |-> st, sent |-> q]
      BY <2>7, <3>1 DEF List
    <3>3. done.stream = st
      BY <3>2
    <3>4. PICK d1 : d1 = [done EXCEPT !.leftover = rest]
      OBVIOUS
    <3>5. d1 = [dpc |-> then, leftover |-> rest, rdp |-> after, stream |-> st, sent |-> q]
      BY <3>2, <3>4
    <3>6. PICK d2 : d2 = [d1 EXCEPT !.dpc.current = to]
      OBVIOUS
    <3>7. d2 = [dpc |-> [then EXCEPT !.current = to], leftover |-> rest, rdp |-> after, stream |-> st, sent |-> q]
      BY <3>5, <3>6
    <3>8. PICK l : l = [then EXCEPT !.current = to]
      OBVIOUS
    <3>9. d2 = [dpc |-> l, leftover |-> rest, rdp |-> after, stream |-> st, sent |-> q]
      BY <3>7, <3>8
    <3>10. [d2 EXCEPT !.stream = fed] = [dpc |-> l, leftover |-> rest, rdp |-> after, stream |-> fed, sent |-> q]
      BY <3>9
    <3>11. ProcessList(x) = [d2 EXCEPT !.stream = fed]
      BY <2>1, <2>6, <3>1, <3>3, <3>4, <3>6
    <3>12. QED
      BY <3>1, <3>8, <3>10, <3>11 DEF List
  <2>9. last \in Registers /\ last.current = dp.end /\ last.start = then.start /\ last.end = then.end
        /\ last.startValid = then.startValid
    BY <1>3, <2>7 DEF Registers
  <2>10. Split(st \o list) = [commands |-> se \o more, rest |-> rest]
    <3>1. Split(st).commands = se /\ Split(st).rest = lo
      BY <1>3
    <3>2. Split(st \o list) = [commands |-> Split(st).commands \o Split(Split(st).rest \o list).commands,
                               rest |-> Split(Split(st).rest \o list).rest]
      BY <1>3, <2>3, SplitConcat
    <3>3. QED
      BY <2>6, <3>1, <3>2 DEF split
  <2>11. st \o list \in Seq(Units) /\ se \o more \in Seq(Units)
    BY <1>3, <2>3
  <2> HIDE DEF last
  <2>12. Streamed(last, rest, st \o list, se \o more)
    BY <2>9, <2>10, <2>11 DEF Streamed
  <2>13. StreamedList(ProcessList(x))
    BY <2>8, <2>12 DEF StreamedList
  <2>14. ProcessList(x).dpc = last /\ ProcessList(x).rdp = after
    BY <2>8 DEF List
  <2>15. Seen(x) = seen
    BY <1>2 DEF Seen, seen
  <2>16. QED
    BY <1>2, <2>7, <2>9, <2>13, <2>14, <2>15 DEF Follows
<1>6. QED
  BY <1>4, <1>5

\* Writes to the registers do not touch the stream.
LEMMA OtherRegisters ==
  ASSUME NEW x, StreamedList(x), NEW dp \in Registers
  PROVE  StreamedList([x EXCEPT !.dpc = dp])
<1>1. PICK d, lo, rd, st, se : x = List(d, lo, rd, st, se) /\ Streamed(d, lo, st, se)
  BY DEF StreamedList
<1>2. [x EXCEPT !.dpc = dp] = List(dp, lo, rd, st, se)
  BY <1>1 DEF List
<1>3. Streamed(dp, lo, st, se)
  BY <1>1 DEF Streamed
<1>4. QED
  BY <1>2, <1>3 DEF StreamedList

\* The registers have their types.
LEMMA StreamedRegisters ==
  ASSUME NEW x, StreamedList(x)
  PROVE  x.dpc \in Registers
<1>1. PICK d, lo, rd, st, se : x = List(d, lo, rd, st, se) /\ Streamed(d, lo, st, se)
  BY DEF StreamedList
<1>2. x.dpc = d
  BY <1>1 DEF List
<1>3. QED
  BY <1>1, <1>2 DEF Streamed

\* So does run_command, which may find the list frozen or empty.
LEMMA RunCommandStreamed ==
  ASSUME NEW x, StreamedList(x)
  PROVE  StreamedList(RunCommand(x)) /\ Follows(RunCommand(x), x)
<1>1. CASE x.dpc.freeze
  BY <1>1 DEF RunCommand, Follows
<1>2. CASE ~x.dpc.freeze
  <2> DEFINE busy == [x EXCEPT !.dpc.pipeBusy = TRUE]
             ran == IF x.dpc.end > x.dpc.current THEN ProcessList(busy) ELSE busy
  <2>1. PICK d : d = [x.dpc EXCEPT !.pipeBusy = TRUE]
    OBVIOUS
  <2>2. /\ d \in Registers /\ d.end = x.dpc.end /\ d.current = x.dpc.current
        /\ d.start = x.dpc.start /\ d.startValid = x.dpc.startValid /\ d.xbus = x.dpc.xbus
    BY <2>1, StreamedRegisters DEF Registers
  <2>3. busy = [x EXCEPT !.dpc = d]
    <3>1. PICK dp, lo, rd, st, se : x = List(dp, lo, rd, st, se)
      BY DEF StreamedList
    <3>2. QED
      BY <2>1, <3>1 DEF List
  <2>4. StreamedList(busy) /\ busy.dpc = d /\ busy.rdp = x.rdp
    <3>1. PICK dp, lo, rd, st, se : x = List(dp, lo, rd, st, se)
      BY DEF StreamedList
    <3>2. [x EXCEPT !.dpc = d].dpc = d /\ [x EXCEPT !.dpc = d].rdp = x.rdp
      BY <3>1 DEF List
    <3>3. QED
      BY <2>2, <2>3, <3>2, OtherRegisters
  <2> HIDE DEF busy
  <2>5. StreamedList(ran) /\ Follows(ran, x)
    <3>1. Seen(busy) = Seen(x)
      BY <2>2, <2>4 DEF Seen
    <3>2. Follows(busy, x)
      BY <2>2, <2>4 DEF Follows
    <3>3. ASSUME NEW y, Follows(y, busy)
          PROVE  Follows(y, x)
      BY <2>2, <2>4, <3>1, <3>3 DEF Follows
    <3>4. QED
      BY <2>2, <2>4, <3>2, <3>3, ListStreamed
  <2>6. RunCommand(x) = [ran EXCEPT !.dpc.ready = TRUE]
    <3>1. RunCommand(x) = [(IF busy.dpc.end > busy.dpc.current THEN ProcessList(busy) ELSE busy) EXCEPT !.dpc.ready = TRUE]
      BY <1>2, <2>2, <2>4 DEF RunCommand, busy
    <3>2. QED
      BY <2>2, <2>4, <3>1
  <2> HIDE DEF ran
  <2>7. PICK e : e = [ran.dpc EXCEPT !.ready = TRUE]
    OBVIOUS
  <2>8. /\ e \in Registers /\ e.start = ran.dpc.start /\ e.end = ran.dpc.end
        /\ e.startValid = ran.dpc.startValid /\ e.current = ran.dpc.current
    BY <2>5, <2>7, StreamedRegisters DEF Registers
  <2>9. [ran EXCEPT !.dpc.ready = TRUE] = [ran EXCEPT !.dpc = e]
    <3>1. PICK dp, lo, rd, st, se : ran = List(dp, lo, rd, st, se)
      BY <2>5 DEF StreamedList
    <3>2. QED
      BY <2>7, <3>1 DEF List
  <2>10. RunCommand(x).dpc = e /\ RunCommand(x).rdp = ran.rdp
    <3>1. PICK dp, lo, rd, st, se : ran = List(dp, lo, rd, st, se)
      BY <2>5 DEF StreamedList
    <3>2. QED
      BY <2>6, <2>9, <3>1 DEF List
  <2>11. Follows(RunCommand(x), x)
    BY <2>5, <2>8, <2>10 DEF Follows
  <2>12. QED
    BY <2>5, <2>6, <2>8, <2>9, <2>11, OtherRegisters
<1>3. QED
  BY <1>1, <1>2

StreamInv == Streamed(dpc, leftover, stream, sent)

\* A write to a register leaves what its list leaves.
LEMMA BecomesStreamed ==
  ASSUME NEW x, StreamedList(x), Becomes(x)
  PROVE  StreamInv'
<1>1. PICK dp, lo, rd, st, se : x = List(dp, lo, rd, st, se) /\ Streamed(dp, lo, st, se)
  BY DEF StreamedList
<1>2. dpc' = dp /\ leftover' = lo /\ stream' = st /\ sent' = se
  BY <1>1 DEF Becomes, List
<1>3. QED
  BY <1>1, <1>2 DEF StreamInv

\* Lists lie in RDRAM.
LEMMA ListsInRdram == \A a \in ListAddress : a \in 0 .. RdramUnits
BY RdpAssumption

\* The registers after a reset.
LEMMA FreshRegisters ==
  /\ FreshDpc \in Registers
  /\ \A i \in BOOLEAN : [FreshDpc EXCEPT !.intr = i] \in Registers
<1>1. 0 \in 0 .. RdramUnits
  BY RdpAssumption
<1>2. QED
  BY <1>1 DEF FreshDpc, Registers

\* Every step keeps the stream whole.
LEMMA StreamInvStep ==
  ASSUME StreamInv, [RdpNext]_rdpVars
  PROVE  StreamInv'
<1>1. StreamedList(Now) /\ dpc \in Registers
  <2>1. Now = List(dpc, leftover, rdp, stream, sent)
    BY DEF Now, List
  <2>2. StreamedList(List(dpc, leftover, rdp, stream, sent))
    BY DEF StreamedList, StreamInv
  <2>3. QED
    BY <2>1, <2>2 DEF StreamInv, Streamed
<1>2. ASSUME NEW a \in ListAddress, WriteStart(a)
      PROVE  StreamInv'
  <2>1. PICK d : d = [dpc EXCEPT !.start = IF dpc.startValid THEN dpc.start ELSE a, !.startValid = TRUE]
    OBVIOUS
  <2>2. d \in Registers
    BY <1>1, <2>1, ListsInRdram DEF Registers
  <2>3. [Now EXCEPT !.dpc.start = IF dpc.startValid THEN dpc.start ELSE a, !.dpc.startValid = TRUE] = [Now EXCEPT !.dpc = d]
    BY <2>1 DEF Now
  <2>4. Becomes([Now EXCEPT !.dpc = d])
    <3>1. Now.dpc.start = dpc.start
      BY DEF Now
    <3>2. QED
      BY <1>2, <2>3, <3>1, Zenon DEF WriteStart
  <2>5. QED
    BY <1>1, <2>2, <2>4, OtherRegisters, BecomesStreamed
<1>3. ASSUME NEW a \in ListAddress, WriteEnd(a)
      PROVE  StreamInv'
  <2>1. Latched(a) \in Registers
    BY <1>1, ListsInRdram DEF Registers, Latched
  <2>2. QED
    BY <1>1, <1>3, <2>1, OtherRegisters, RunCommandStreamed, BecomesStreamed DEF WriteEnd
<1>4. ASSUME NEW xbus \in {"keep", "clear", "set"}, NEW freeze \in {"keep", "clear", "set"}, NEW clearPipe \in BOOLEAN,
             WriteStatus(xbus, freeze, clearPipe)
      PROVE  StreamInv'
  <2>1. PICK d : d = [dpc EXCEPT !.xbus = IF xbus = "keep" THEN dpc.xbus ELSE xbus = "set",
                                 !.freeze = IF freeze = "keep" THEN dpc.freeze ELSE freeze = "set",
                                 !.pipeBusy = dpc.pipeBusy /\ ~clearPipe]
    OBVIOUS
  <2>2. PICK b1 \in BOOLEAN, b2 \in BOOLEAN, b3 \in BOOLEAN :
           /\ b1 = IF xbus = "keep" THEN dpc.xbus ELSE xbus = "set"
           /\ b2 = IF freeze = "keep" THEN dpc.freeze ELSE freeze = "set"
           /\ b3 = (dpc.pipeBusy /\ ~clearPipe)
    BY <1>1 DEF Registers
  <2>3. d = [dpc EXCEPT !.xbus = b1, !.freeze = b2, !.pipeBusy = b3]
    BY <2>1, <2>2
  <2>4. d \in Registers
    BY <1>1, <2>3 DEF Registers
  <2>5. Becomes(IF freeze = "clear" THEN RunCommand([Now EXCEPT !.dpc = d]) ELSE [Now EXCEPT !.dpc = d])
    BY <1>4, <2>1 DEF WriteStatus
  <2>6. QED
    BY <1>1, <2>4, <2>5, OtherRegisters, RunCommandStreamed, BecomesStreamed
<1>5. CASE AckDp
  <2>1. dpc' \in Registers
    BY <1>1, <1>5 DEF AckDp, Registers
  <2>2. QED
    BY <1>5, <2>1 DEF AckDp, StreamInv, Streamed
<1>6. CASE GpuFinishes
  BY <1>6 DEF GpuFinishes, StreamInv
<1>7. ASSUME NEW g \in Granules, AccessRdram(g)
      PROVE  StreamInv'
  BY <1>7 DEF AccessRdram, StreamInv
<1>8. CASE NextDisplay
  <2>1. dpc' \in Registers
    BY <1>1, <1>8, FreshRegisters DEF NextDisplay, Registers
  <2>2. Streamed(dpc', leftover', stream', sent')
    BY <1>8, <2>1, EmptyStreamed DEF NextDisplay
  <2>3. QED
    BY <2>2 DEF StreamInv
<1>9. CASE UNCHANGED rdpVars
  BY <1>9 DEF rdpVars, StreamInv
<1>10. QED
  BY <1>2, <1>3, <1>4, <1>5, <1>6, <1>7, <1>8, <1>9 DEF RdpNext

\* However the stream is cut into lists, the renderer gets its commands, each once and
\* in order (dpc.cpp:182-262): for any memory contents, buffer size and registers.
THEOREM StreamsAreWhole == RdpSpec => []CommandsAsStreamed
<1>1. RdpInit => StreamInv
  BY EmptyStreamed, FreshRegisters DEF RdpInit, StreamInv
<1>2. StreamInv /\ [RdpNext]_rdpVars => StreamInv'
  BY StreamInvStep
<1>3. StreamInv => CommandsAsStreamed
  BY DEF StreamInv, Streamed, CommandsAsStreamed
<1>4. QED
  BY <1>1, <1>2, <1>3, PTL DEF RdpSpec

-----------------------------------------------------------------------------
(* The marks of the bridge: every draw that the GPU may not have finished lies in *)
(* them, they are closed (a range that starts in them lies in them), and without  *)
(* a pending signal no draw that a FULL_SYNC covered is unfinished.               *)
Bridge(si, ti, di, mi, ma, inf, wo) ==
    [signal |-> si, timeline |-> ti, dirty |-> di, min |-> mi, max |-> ma, info |-> inf, work |-> wo]
Closed(di, Infos) == \A g \in di : \E p \in AllTouched(Infos) : g \in Extent(p) /\ Extent(p) \subseteq di
Lawful(si, ti, di, mi, ma, inf, wo, Infos) ==
    /\ ti \in Nat /\ si \in {0, ti} /\ di \subseteq Granules /\ mi \in Int /\ ma \in Int /\ inf \in Infos
    /\ wo \subseteq [at : Int, writes : SUBSET Granules]
    /\ \A g \in di : mi <= g /\ g < ma
    /\ \A w \in wo : w.writes \subseteq di
    /\ si = 0 => \A w \in wo : w.at > ti
    /\ Closed(di, Infos)
Marked(Infos) ==
    {r \in [signal : Nat, timeline : Nat, dirty : SUBSET Granules, min : Int, max : Int, info : Infos,
            work : SUBSET [at : Int, writes : SUBSET Granules]] :
        Lawful(r.signal, r.timeline, r.dirty, r.min, r.max, r.info, r.work, Infos)}

\* Lawful parts make a marked bridge.
LEMMA LawfulIsMarked ==
  ASSUME NEW si, NEW ti, NEW di, NEW mi, NEW ma, NEW inf, NEW wo, NEW Infos, Lawful(si, ti, di, mi, ma, inf, wo, Infos)
  PROVE  Bridge(si, ti, di, mi, ma, inf, wo) \in Marked(Infos)
<1> DEFINE r == Bridge(si, ti, di, mi, ma, inf, wo)
<1>1. /\ r.signal = si /\ r.timeline = ti /\ r.dirty = di /\ r.min = mi /\ r.max = ma /\ r.info = inf /\ r.work = wo
  BY DEF Bridge
<1>2. si \in Nat /\ ti \in Nat /\ di \in SUBSET Granules /\ mi \in Int /\ ma \in Int /\ inf \in Infos
      /\ wo \in SUBSET [at : Int, writes : SUBSET Granules]
  BY DEF Lawful
<1>3. r \in [signal : Nat, timeline : Nat, dirty : SUBSET Granules, min : Int, max : Int, info : Infos,
             work : SUBSET [at : Int, writes : SUBSET Granules]]
  BY <1>2, Zenon DEF Bridge
<1>4. Lawful(r.signal, r.timeline, r.dirty, r.min, r.max, r.info, r.work, Infos)
  BY <1>1
<1>5. QED
  BY <1>3, <1>4 DEF Marked

\* A marked bridge has lawful parts.
LEMMA MarkedIsLawful ==
  ASSUME NEW Infos, NEW r \in Marked(Infos)
  PROVE  \E si, ti, di, mi, ma, inf, wo :
            r = Bridge(si, ti, di, mi, ma, inf, wo) /\ Lawful(si, ti, di, mi, ma, inf, wo, Infos)
<1>1. r = Bridge(r.signal, r.timeline, r.dirty, r.min, r.max, r.info, r.work)
  BY DEF Marked, Bridge
<1>2. Lawful(r.signal, r.timeline, r.dirty, r.min, r.max, r.info, r.work, Infos)
  BY DEF Marked
<1>3. QED
  BY <1>1, <1>2

\* The granules of a range are in memory.
LEMMA ExtentIsInRdram ==
  ASSUME NEW a \in Nat, NEW l \in Int
  PROVE  /\ Range8(a, l) \subseteq Granules
         /\ First(a) \in Nat /\ Past(a, l) \in Int
         /\ \A g \in Range8(a, l) : First(a) <= g /\ g < Past(a, l)
         /\ Range8(a, l) # {} => First(a) \in Range8(a, l)
<1>1. First(a) \in Nat
  BY DEF First
<1>2. (a + l + 7) \div 8 \in Int
  OBVIOUS
<1>3. Past(a, l) \in Int /\ Past(a, l) <= RdramUnits
  BY <1>2, RdpAssumption DEF Past, Least
<1>4. CASE l = 0
  BY <1>1, <1>3, <1>4 DEF Range8
<1>5. CASE l # 0
  <2>1. Range8(a, l) = First(a) .. Past(a, l) - 1
    BY <1>5 DEF Range8
  <2>2. QED
    BY <1>1, <1>3, <2>1, RdpAssumption
<1>6. QED
  BY <1>4, <1>5

\* Marking a range that the game can touch marks all of it.
LEMMA MarkDirtyMarks ==
  ASSUME NEW Infos, Orderly(Infos),
         NEW si, NEW ti, NEW di, NEW mi, NEW ma, NEW inf, NEW wo, Lawful(si, ti, di, mi, ma, inf, wo, Infos),
         NEW a, NEW l, <<a, l>> \in AllTouched(Infos)
  PROVE  \E d, lo, hi :
            /\ MarkDirty(Bridge(si, ti, di, mi, ma, inf, wo), a, l) = Bridge(si, ti, d, lo, hi, inf, wo)
            /\ Lawful(si, ti, d, lo, hi, inf, wo, Infos)
            /\ di \subseteq d /\ Range8(a, l) \subseteq d
<1> DEFINE r == Bridge(si, ti, di, mi, ma, inf, wo)
           e == Range8(a, l)
<1>1. a \in Nat /\ l \in Int
  BY DEF Orderly
<1>2. /\ e \subseteq Granules /\ First(a) \in Nat /\ Past(a, l) \in Int
      /\ \A g \in e : First(a) <= g /\ g < Past(a, l)
      /\ e # {} => First(a) \in e
  BY <1>1, ExtentIsInRdram
<1>3. Extent(<<a, l>>) = e
  BY DEF Extent
<1>4. r.dirty = di /\ r.min = mi /\ r.max = ma
  BY DEF Bridge
<1> HIDE DEF e
<1>5. CASE e = {}
  <2>1. MarkDirty(r, a, l) = r
    BY <1>5 DEF MarkDirty, e
  <2>2. QED
    BY <1>5, <2>1 DEF e
<1>6. CASE e # {} /\ First(a) \in di
  <2>1. MarkDirty(r, a, l) = r
    BY <1>4, <1>6 DEF MarkDirty, e
  <2>2. PICK p \in AllTouched(Infos) : First(a) \in Extent(p) /\ Extent(p) \subseteq di
    BY <1>6 DEF Lawful, Closed
  <2>3. PICK q : q = <<a, l>>
    OBVIOUS
  <2>4. q[1] = a /\ q \in AllTouched(Infos) /\ Extent(q) = e
    BY <1>3, <2>3
  <2>5. Extent(q) \subseteq Extent(p)
    BY <2>2, <2>4 DEF Orderly
  <2>6. e \subseteq di
    BY <2>2, <2>4, <2>5
  <2>7. QED
    BY <2>1, <2>6 DEF e
<1>7. CASE e # {} /\ First(a) \notin di
  <2> DEFINE d == di \cup e
             low == Least(mi, First(a))
             high == Most(ma, Past(a, l))
  <2>1. MarkDirty(r, a, l) = [r EXCEPT !.dirty = d, !.min = low, !.max = high]
    BY <1>4, <1>7, Zenon DEF MarkDirty, e
  <2>2. PICK x, y, z : x = d /\ y = low /\ z = high
    OBVIOUS
  <2>3. [r EXCEPT !.dirty = x, !.min = y, !.max = z] = Bridge(si, ti, x, y, z, inf, wo)
    <3>1. PICK r1 : r1 = [r EXCEPT !.dirty = x]
      OBVIOUS
    <3>2. r1 = Bridge(si, ti, x, mi, ma, inf, wo)
      BY <3>1 DEF Bridge
    <3>3. PICK r2 : r2 = [r1 EXCEPT !.min = y]
      OBVIOUS
    <3>4. r2 = Bridge(si, ti, x, y, ma, inf, wo)
      BY <3>2, <3>3 DEF Bridge
    <3>5. [r2 EXCEPT !.max = z] = Bridge(si, ti, x, y, z, inf, wo)
      BY <3>4 DEF Bridge
    <3>6. QED
      BY <3>1, <3>3, <3>5
  <2>4. Lawful(si, ti, x, y, z, inf, wo, Infos)
    <3>1. y \in Int /\ z \in Int /\ y <= mi /\ y <= First(a) /\ z >= ma /\ z >= Past(a, l)
      BY <1>2, <2>2 DEF Lawful, Least, Most
    <3>2. /\ ti \in Nat /\ si \in {0, ti} /\ inf \in Infos /\ mi \in Int /\ ma \in Int
          /\ wo \subseteq [at : Int, writes : SUBSET Granules]
          /\ si = 0 => \A w \in wo : w.at > ti
      BY DEF Lawful
    <3>3. x \subseteq Granules
      BY <1>2, <2>2 DEF Lawful
    <3>4. ASSUME NEW g \in x PROVE y <= g /\ g < z
      <4>1. g \in Int
        BY <3>3, RdpAssumption
      <4>2. CASE g \in di
        <5>1. mi <= g /\ g < ma
          BY <4>2 DEF Lawful
        <5>2. QED
          BY <3>1, <3>2, <4>1, <5>1
      <4>3. CASE g \in e
        <5>1. First(a) <= g /\ g < Past(a, l)
          BY <1>2, <4>3
        <5>2. QED
          BY <1>2, <3>1, <4>1, <5>1
      <4>4. QED
        BY <2>2, <4>2, <4>3
    <3>5. \A w \in wo : w.writes \subseteq x
      BY <2>2 DEF Lawful
    <3>6. Closed(x, Infos)
      <4>1. ASSUME NEW g \in x
            PROVE  \E p \in AllTouched(Infos) : g \in Extent(p) /\ Extent(p) \subseteq x
        <5>1. CASE g \in di
          BY <2>2, <5>1 DEF Lawful, Closed
        <5>2. CASE g \in e
          BY <1>3, <2>2, <5>2
        <5>3. QED
          BY <2>2, <5>1, <5>2
      <4>2. QED
        BY <4>1 DEF Closed
    <3>7. QED
      BY <3>1, <3>2, <3>3, <3>4, <3>5, <3>6 DEF Lawful
  <2>5. QED
    BY <2>1, <2>2, <2>3, <2>4 DEF e
<1>8. QED
  BY <1>5, <1>6, <1>7

\* The operators of one command.
LEMMA DrawTouches ==
  ASSUME NEW i, NEW c, c.op \in DrawOps
  PROVE  Touched(i, c) = {<<ColorAddress(i), ColorLength(i)>>}
                           \cup IF i.z THEN {<<DepthAddress(i), DepthLength(i)>>} ELSE {}
<1>1. PICK s : s = {<<ColorAddress(i), ColorLength(i)>>}
                     \cup IF i.z THEN {<<DepthAddress(i), DepthLength(i)>>} ELSE {}
  OBVIOUS
<1>2. c.op \notin LoadOps
  BY DEF DrawOps, LoadOps
<1>3. Touched(i, c) = s
  BY <1>1, <1>2 DEF Touched
<1>4. QED
  BY <1>1, <1>3

\* A draw marks all that the GPU will write for it.
LEMMA DrawIsMarked ==
  ASSUME NEW Infos, Orderly(Infos),
         NEW si, NEW ti, NEW di, NEW mi, NEW ma, NEW inf, NEW wo, Lawful(si, ti, di, mi, ma, inf, wo, Infos),
         NEW c \in Units, c.op \in DrawOps
  PROVE  \E d, lo, hi :
            /\ MarkDrawn(Bridge(si, ti, di, mi, ma, inf, wo)) = Bridge(si, ti, d, lo, hi, inf, wo)
            /\ Lawful(si, ti, d, lo, hi, inf, wo, Infos)
            /\ GpuWrites(inf) \subseteq d
<1> DEFINE r == Bridge(si, ti, di, mi, ma, inf, wo)
<1>1. r.info = inf
  BY DEF Bridge
<1>2. Touched(inf, c) \subseteq AllTouched(Infos)
  BY DEF AllTouched, Lawful
<1>3. Touched(inf, c) = {<<ColorAddress(inf), ColorLength(inf)>>}
                          \cup IF inf.z THEN {<<DepthAddress(inf), DepthLength(inf)>>} ELSE {}
  BY DrawTouches
<1>4. PICK ca, cl, da, dl : ca = ColorAddress(inf) /\ cl = ColorLength(inf) /\ da = DepthAddress(inf) /\ dl = DepthLength(inf)
  OBVIOUS
<1>5. <<ca, cl>> \in AllTouched(Infos)
  BY <1>2, <1>3, <1>4
<1>6. PICK d1, lo1, hi1 :
         /\ MarkDirty(r, ca, cl) = Bridge(si, ti, d1, lo1, hi1, inf, wo)
         /\ Lawful(si, ti, d1, lo1, hi1, inf, wo, Infos)
         /\ Range8(ca, cl) \subseteq d1
  BY <1>5, MarkDirtyMarks
<1> DEFINE r1 == Bridge(si, ti, d1, lo1, hi1, inf, wo)
<1>7. MarkDrawn(r) = IF inf.z THEN MarkDirty(r1, da, dl) ELSE r1
  BY <1>1, <1>4, <1>6, Zenon DEF MarkDrawn
<1>8. GpuWrites(inf) = Range8(ca, cl) \cup IF inf.z THEN Range8(da, dl) ELSE {}
  BY <1>4 DEF GpuWrites
<1>9. CASE inf.z
  <2>1. <<da, dl>> \in AllTouched(Infos)
    BY <1>2, <1>3, <1>4, <1>9
  <2>2. PICK d2, lo2, hi2 :
           /\ MarkDirty(r1, da, dl) = Bridge(si, ti, d2, lo2, hi2, inf, wo)
           /\ Lawful(si, ti, d2, lo2, hi2, inf, wo, Infos)
           /\ d1 \subseteq d2 /\ Range8(da, dl) \subseteq d2
    BY <1>6, <2>1, MarkDirtyMarks
  <2>3. GpuWrites(inf) \subseteq d2
    BY <1>6, <1>8, <1>9, <2>2
  <2>4. MarkDrawn(r) = Bridge(si, ti, d2, lo2, hi2, inf, wo)
    BY <1>7, <1>9, <2>2
  <2>5. QED
    BY <2>2, <2>3, <2>4
<1>10. CASE ~inf.z
  <2>1. MarkDrawn(r) = r1 /\ GpuWrites(inf) \subseteq d1
    BY <1>6, <1>7, <1>8, <1>10
  <2>2. QED
    BY <1>6, <2>1
<1>11. QED
  BY <1>9, <1>10

\* The GPU writes RDRAM only.
LEMMA GpuWritesRdram ==
  ASSUME NEW Infos, Orderly(Infos), NEW inf \in Infos, NEW c \in Units, c.op \in DrawOps
  PROVE  GpuWrites(inf) \subseteq Granules
<1>1. Touched(inf, c) \subseteq AllTouched(Infos)
  BY DEF AllTouched
<1>2. Touched(inf, c) = {<<ColorAddress(inf), ColorLength(inf)>>}
                          \cup IF inf.z THEN {<<DepthAddress(inf), DepthLength(inf)>>} ELSE {}
  BY DrawTouches
<1>3. PICK ca, cl, da, dl : ca = ColorAddress(inf) /\ cl = ColorLength(inf) /\ da = DepthAddress(inf) /\ dl = DepthLength(inf)
  OBVIOUS
<1>4. ca \in Nat /\ cl \in Int
  <2>1. <<ca, cl>> \in Nat \X Int
    BY <1>1, <1>2, <1>3 DEF Orderly
  <2>2. QED
    BY <2>1
<1>5. inf.z => da \in Nat /\ dl \in Int
  <2>1. inf.z => <<da, dl>> \in Nat \X Int
    BY <1>1, <1>2, <1>3 DEF Orderly
  <2>2. QED
    BY <2>1
<1>6. Range8(ca, cl) \subseteq Granules /\ (inf.z => Range8(da, dl) \subseteq Granules)
  BY <1>4, <1>5, ExtentIsInRdram
<1>7. QED
  BY <1>3, <1>6 DEF GpuWrites

\* A command keeps the marks lawful: what a draw writes is marked before it is enqueued.
LEMMA EnqueueMarks ==
  ASSUME NEW Infos, Orderly(Infos), NEW r \in Marked(Infos), NEW c \in Units
  PROVE  Enqueue(r, c) \in Marked(Infos)
<1>1. PICK si, ti, di, mi, ma, inf, wo :
         r = Bridge(si, ti, di, mi, ma, inf, wo) /\ Lawful(si, ti, di, mi, ma, inf, wo, Infos)
  BY MarkedIsLawful
<1>2. r.timeline = ti /\ r.info = inf
  BY <1>1 DEF Bridge
<1>3. CASE c.op \in DrawOps
  <2>1. PICK d, lo, hi :
           /\ MarkDrawn(r) = Bridge(si, ti, d, lo, hi, inf, wo)
           /\ Lawful(si, ti, d, lo, hi, inf, wo, Infos)
           /\ GpuWrites(inf) \subseteq d
    BY <1>1, <1>3, DrawIsMarked
  <2> DEFINE new == [at |-> ti + 1, writes |-> GpuWrites(inf)]
             more == wo \cup {new}
  <2>2. Enqueue(r, c) = [MarkDrawn(r) EXCEPT !.work = MarkDrawn(r).work \cup {new}]
    <3>1. Track(r, c) = MarkDrawn(r)
      <4>1. c.op \notin LoadOps
        BY <1>3 DEF DrawOps, LoadOps
      <4>2. QED
        BY <1>3, <4>1 DEF Track
    <3>2. QED
      BY <1>2, <1>3, <3>1, Zenon DEF Enqueue
  <2>3. PICK m : m = more
    OBVIOUS
  <2>4. Enqueue(r, c) = Bridge(si, ti, d, lo, hi, inf, m)
    <3>1. MarkDrawn(r).work = wo
      BY <2>1 DEF Bridge
    <3>2. Enqueue(r, c) = [MarkDrawn(r) EXCEPT !.work = m]
      BY <2>2, <2>3, <3>1
    <3>3. QED
      BY <2>1, <3>2 DEF Bridge
  <2>5. new \in [at : Int, writes : SUBSET Granules] /\ new.at = ti + 1 /\ new.writes = GpuWrites(inf)
    <3>1. ti + 1 \in Int /\ GpuWrites(inf) \subseteq Granules
      BY <1>1, <1>3, GpuWritesRdram DEF Lawful
    <3>2. QED
      BY <3>1
  <2> HIDE DEF new
  <2>6. ti \in Nat /\ ti + 1 > ti
    BY <1>1 DEF Lawful
  <2>7. Lawful(si, ti, d, lo, hi, inf, m, Infos)
    <3>1. m \subseteq [at : Int, writes : SUBSET Granules]
      BY <2>1, <2>3, <2>5 DEF Lawful
    <3>2. \A w \in m : w.writes \subseteq d
      BY <2>1, <2>3, <2>5 DEF Lawful
    <3>3. si = 0 => \A w \in m : w.at > ti
      BY <2>1, <2>3, <2>5, <2>6 DEF Lawful
    <3>4. QED
      BY <2>1, <3>1, <3>2, <3>3 DEF Lawful
  <2>8. QED
    BY <2>4, <2>7, LawfulIsMarked
<1>4. CASE c.op \in LoadOps
  <2>1. PICK p : p = Loaded(inf, c)
    OBVIOUS
  <2>2. c.op \notin DrawOps
    BY <1>4 DEF DrawOps, LoadOps
  <2>3. Enqueue(r, c) = MarkDirty(r, p[1], p[2])
    BY <1>2, <1>4, <2>1, <2>2 DEF Enqueue, Track
  <2>4. <<p[1], p[2]>> \in AllTouched(Infos)
    <3>1. p = <<p[1], p[2]>>
      BY <2>1 DEF Loaded
    <3>2. p \in Touched(inf, c)
      BY <1>4, <2>1, <2>2 DEF Touched
    <3>3. QED
      BY <1>1, <3>1, <3>2 DEF AllTouched, Lawful
  <2>5. PICK d, lo, hi :
           /\ MarkDirty(r, p[1], p[2]) = Bridge(si, ti, d, lo, hi, inf, wo)
           /\ Lawful(si, ti, d, lo, hi, inf, wo, Infos)
    BY <1>1, <2>4, MarkDirtyMarks
  <2>6. QED
    BY <2>3, <2>5, LawfulIsMarked
<1>5. CASE c.op \notin DrawOps /\ c.op \notin LoadOps
  <2>1. PICK i : i = Images(inf, c)
    OBVIOUS
  <2>2. Enqueue(r, c) = [r EXCEPT !.info = i]
    BY <1>2, <1>5, <2>1 DEF Enqueue, Track
  <2>3. Enqueue(r, c) = Bridge(si, ti, di, mi, ma, i, wo)
    BY <1>1, <2>2 DEF Bridge
  <2>4. Lawful(si, ti, di, mi, ma, i, wo, Infos)
    BY <1>1, <2>1 DEF Lawful, Orderly
  <2>5. QED
    BY <2>3, <2>4, LawfulIsMarked
<1>6. QED
  BY <1>3, <1>4, <1>5

\* A FULL_SYNC asks for a signal: nothing then is without one.
LEMMA FullSyncMarks ==
  ASSUME NEW Infos, NEW r \in Marked(Infos)
  PROVE  OnFullSync(r) \in Marked(Infos)
<1>1. PICK si, ti, di, mi, ma, inf, wo :
         r = Bridge(si, ti, di, mi, ma, inf, wo) /\ Lawful(si, ti, di, mi, ma, inf, wo, Infos)
  BY MarkedIsLawful
<1>2. r.timeline = ti
  BY <1>1 DEF Bridge
<1>3. PICK t : t = ti + 1
  OBVIOUS
<1>4. OnFullSync(r) = [r EXCEPT !.timeline = t, !.signal = t]
  BY <1>2, <1>3 DEF OnFullSync
<1>5. OnFullSync(r) = Bridge(t, t, di, mi, ma, inf, wo)
  <2>1. PICK r1 : r1 = [r EXCEPT !.timeline = t]
    OBVIOUS
  <2>2. r1 = Bridge(si, t, di, mi, ma, inf, wo)
    BY <1>1, <2>1 DEF Bridge
  <2>3. [r1 EXCEPT !.signal = t] = Bridge(t, t, di, mi, ma, inf, wo)
    BY <2>2 DEF Bridge
  <2>4. QED
    BY <1>4, <2>1, <2>3
<1>6. t \in Nat /\ t # 0
  BY <1>1, <1>3 DEF Lawful
<1>7. Lawful(t, t, di, mi, ma, inf, wo, Infos)
  BY <1>1, <1>6 DEF Lawful
<1>8. QED
  BY <1>5, <1>7, LawfulIsMarked

\* A command keeps the bridge marked.
LEMMA AfterBridgeMarks ==
  ASSUME NEW Infos, Orderly(Infos), NEW r \in Marked(Infos), NEW c \in Units
  PROVE  AfterBridge(r, c) \in Marked(Infos)
BY EnqueueMarks, FullSyncMarks DEF AfterBridge

\* The GPU finishes work and makes none.
LEMMA GpuReachesMarks ==
  ASSUME NEW Infos, NEW r \in Marked(Infos), NEW v
  PROVE  GpuReaches(r, v) \in Marked(Infos)
<1>1. PICK si, ti, di, mi, ma, inf, wo :
         r = Bridge(si, ti, di, mi, ma, inf, wo) /\ Lawful(si, ti, di, mi, ma, inf, wo, Infos)
  BY MarkedIsLawful
<1>2. PICK left : left = {w \in wo : w.at > v}
  OBVIOUS
<1>3. r.work = wo
  BY <1>1 DEF Bridge
<1>4. GpuReaches(r, v) = [r EXCEPT !.work = left]
  BY <1>2, <1>3 DEF GpuReaches
<1>5. GpuReaches(r, v) = Bridge(si, ti, di, mi, ma, inf, left)
  BY <1>1, <1>4 DEF Bridge
<1>6. left \subseteq wo
  BY <1>2
<1>7. Lawful(si, ti, di, mi, ma, inf, left, Infos)
  BY <1>1, <1>6 DEF Lawful
<1>8. QED
  BY <1>5, <1>7, LawfulIsMarked

\* What a flush leaves.
LEMMA FlushLeaves ==
  ASSUME NEW si, NEW ti, NEW di, NEW mi, NEW ma, NEW inf, NEW wo
  PROVE  FlushPendingSync(Bridge(si, ti, di, mi, ma, inf, wo))
           = Bridge(0, ti, {}, RdramUnits, 0, inf, {w \in wo : w.at > si})
<1> DEFINE r == Bridge(si, ti, di, mi, ma, inf, wo)
<1>1. PICK left : left = {w \in wo : w.at > si}
  OBVIOUS
<1>2. r.signal = si /\ r.work = wo
  BY DEF Bridge
<1>3. GpuReaches(r, r.signal) = [r EXCEPT !.work = left]
  BY <1>1, <1>2 DEF GpuReaches
<1>4. PICK r1 : r1 = [r EXCEPT !.work = left]
  OBVIOUS
<1>5. r1 = Bridge(si, ti, di, mi, ma, inf, left)
  BY <1>4 DEF Bridge
<1>6. PICK none, zero, all : none = {} /\ zero = 0 /\ all = RdramUnits
  OBVIOUS
<1>7. FlushPendingSync(r) = [r1 EXCEPT !.dirty = none, !.min = all, !.max = zero, !.signal = zero]
  BY <1>3, <1>4, <1>6 DEF FlushPendingSync
<1>8. PICK r2 : r2 = [r1 EXCEPT !.dirty = none]
  OBVIOUS
<1>9. r2 = Bridge(si, ti, none, mi, ma, inf, left)
  BY <1>5, <1>8 DEF Bridge
<1>10. PICK r3 : r3 = [r2 EXCEPT !.min = all]
  OBVIOUS
<1>11. r3 = Bridge(si, ti, none, all, ma, inf, left)
  BY <1>9, <1>10 DEF Bridge
<1>12. PICK r4 : r4 = [r3 EXCEPT !.max = zero]
  OBVIOUS
<1>13. r4 = Bridge(si, ti, none, all, zero, inf, left)
  BY <1>11, <1>12 DEF Bridge
<1>14. [r4 EXCEPT !.signal = zero] = Bridge(zero, ti, none, all, zero, inf, left)
  BY <1>13 DEF Bridge
<1>15. QED
  BY <1>1, <1>6, <1>7, <1>8, <1>10, <1>12, <1>14

\* A flush waits for the signal.
LEMMA FlushWork ==
  ASSUME NEW si, NEW ti, NEW di, NEW mi, NEW ma, NEW inf, NEW wo
  PROVE  FlushPendingSync(Bridge(si, ti, di, mi, ma, inf, wo)).work = {w \in wo : w.at > si}
<1>1. PICK left : left = {w \in wo : w.at > si}
  OBVIOUS
<1>2. FlushPendingSync(Bridge(si, ti, di, mi, ma, inf, wo)) = Bridge(0, ti, {}, RdramUnits, 0, inf, left)
  BY <1>1, FlushLeaves
<1>3. Bridge(0, ti, {}, RdramUnits, 0, inf, left).work = left
  BY DEF Bridge
<1>4. QED
  BY <1>1, <1>2, <1>3

\* An access with no open batch leaves nothing unfinished if it waits at all.
LEMMA AccessMarks ==
  ASSUME NEW Infos, NEW r \in Marked(Infos), NEW g, ~ \E w \in r.work : w.at > r.timeline
  PROVE  CheckFramebuffers(r, g, g + 1) \in Marked(Infos)
<1>1. PICK si, ti, di, mi, ma, inf, wo :
         r = Bridge(si, ti, di, mi, ma, inf, wo) /\ Lawful(si, ti, di, mi, ma, inf, wo, Infos)
  BY MarkedIsLawful
<1>2. r.signal = si /\ r.timeline = ti /\ r.work = wo
  BY <1>1 DEF Bridge
<1>3. CheckFramebuffers(r, g, g + 1) = r \/ (si # 0 /\ CheckFramebuffers(r, g, g + 1) = FlushPendingSync(r))
  BY <1>2 DEF CheckFramebuffers
<1>4. ASSUME si # 0
      PROVE  FlushPendingSync(r) \in Marked(Infos)
  <2>1. si = ti
    BY <1>1, <1>4 DEF Lawful
  <2>2. {w \in wo : w.at > si} = {}
    BY <1>2, <2>1
  <2>3. FlushPendingSync(r) = Bridge(0, ti, {}, RdramUnits, 0, inf, {})
    BY <1>1, <2>2, FlushLeaves
  <2>4. Lawful(0, ti, {}, RdramUnits, 0, inf, {}, Infos)
    BY <1>1, RdpAssumption DEF Lawful, Closed
  <2>5. QED
    BY <2>3, <2>4, LawfulIsMarked
<1>5. QED
  BY <1>3, <1>4

\* The bridge starts without marks.
LEMMA FreshIsMarked ==
  ASSUME NEW Infos, Orderly(Infos)
  PROVE  FreshRdp \in Marked(Infos)
<1>1. FreshRdp = Bridge(0, 0, {}, RdramUnits, 0, NoInfo, {})
  BY DEF FreshRdp, Bridge
<1>2. Lawful(0, 0, {}, RdramUnits, 0, NoInfo, {}, Infos)
  BY RdpAssumption DEF Lawful, Closed, Orderly
<1>3. QED
  BY <1>1, <1>2, LawfulIsMarked

\* A list is not in what its game draws and loads: fetching it waits for nothing.
LEMMA ListsAreApart ==
  ASSUME NEW Infos, Orderly(Infos), NEW r \in Marked(Infos), NEW a \in ListAddress, NEW b \in ListAddress
  PROVE  CheckFramebuffers(r, a, b) = r
<1>1. PICK si, ti, di, mi, ma, inf, wo :
         r = Bridge(si, ti, di, mi, ma, inf, wo) /\ Lawful(si, ti, di, mi, ma, inf, wo, Infos)
  BY MarkedIsLawful
<1>2. r.dirty = di
  BY <1>1 DEF Bridge
<1>3. Least(b, RdramUnits) = b
  BY RdpAssumption DEF Least
<1>4. (a .. b - 1) \cap di = {}
  <2>1. ASSUME NEW g \in di, g \in a .. b - 1
        PROVE  FALSE
    <3>1. PICK p \in AllTouched(Infos) : g \in Extent(p)
      BY <1>1 DEF Lawful, Closed
    <3>2. (a .. b - 1) \cap Extent(p) = {}
      BY DEF Orderly
    <3>3. QED
      BY <2>1, <3>1, <3>2
  <2>2. QED
    BY <2>1
<1>5. QED
  BY <1>2, <1>3, <1>4 DEF CheckFramebuffers

\* The marks find every draw that a FULL_SYNC covers.
LEMMA MarksCatchDraws ==
  ASSUME NEW Infos, NEW r \in Marked(Infos), NEW g \in Granules,
         NEW w \in CheckFramebuffers(r, g, g + 1).work, g \in w.writes
  PROVE  w.at > r.timeline
<1>1. PICK si, ti, di, mi, ma, inf, wo :
         r = Bridge(si, ti, di, mi, ma, inf, wo) /\ Lawful(si, ti, di, mi, ma, inf, wo, Infos)
  BY MarkedIsLawful
<1>2. r.signal = si /\ r.timeline = ti /\ r.work = wo /\ r.dirty = di /\ r.min = mi /\ r.max = ma
  BY <1>1 DEF Bridge
<1>3. CASE si = 0
  <2>1. CheckFramebuffers(r, g, g + 1) = r
    BY <1>2, <1>3 DEF CheckFramebuffers
  <2>2. QED
    BY <1>1, <1>2, <1>3, <2>1 DEF Lawful
<1>4. CASE si # 0 /\ g \notin di
  <2>1. CheckFramebuffers(r, g, g + 1) = r \/ CheckFramebuffers(r, g, g + 1) = FlushPendingSync(r)
    BY DEF CheckFramebuffers
  <2>2. FlushPendingSync(r).work = {x \in wo : x.at > si}
    BY <1>1, FlushWork
  <2>3. w \in wo
    BY <1>2, <2>1, <2>2
  <2>4. QED
    BY <1>1, <1>4, <2>3 DEF Lawful
<1>5. CASE si # 0 /\ g \in di
  <2>1. g \in Int /\ g < RdramUnits /\ RdramUnits \in Nat /\ mi \in Int /\ ma \in Int /\ mi <= g /\ g < ma /\ si = ti
    BY <1>1, <1>5, RdpAssumption DEF Lawful
  <2>2. Least(g + 1, RdramUnits) - 1 = g
    BY <2>1 DEF Least
  <2>3. g .. Least(g + 1, RdramUnits) - 1 = {g}
    BY <2>1, <2>2
  <2>4. mi < ma /\ g + 1 > mi
    BY <2>1
  <2>5. CheckFramebuffers(r, g, g + 1) = FlushPendingSync(r)
    BY <1>2, <1>5, <2>1, <2>3, <2>4 DEF CheckFramebuffers
  <2>6. w \in {x \in wo : x.at > si}
    <3>1. FlushPendingSync(r).work = {x \in wo : x.at > si}
      BY <1>1, FlushWork
    <3>2. QED
      BY <2>5, <3>1
  <2>7. QED
    BY <1>2, <2>1, <2>6
<1>6. QED
  BY <1>3, <1>4, <1>5

-----------------------------------------------------------------------------
\* Where the registers of a list can point.
Placed(d, r) ==
    /\ d.startValid => d.start \in ListAddress
    /\ d.end \in ListAddress \cup {0}
    /\ d.current \in ListAddress \/ (d.current = 0 /\ r.signal = 0)

\* A list keeps the bridge marked and its registers in their places.
LEMMA FollowsMarked ==
  ASSUME NEW Infos, Orderly(Infos), NEW x, NEW y, Follows(y, x),
         x.dpc \in Registers, x.rdp \in Marked(Infos), Placed(x.dpc, x.rdp)
  PROVE  y.rdp \in Marked(Infos) /\ Placed(y.dpc, y.rdp)
<1>1. CASE y.dpc.current = x.dpc.current /\ y.rdp = x.rdp
  BY <1>1 DEF Follows, Placed
<1>2. CASE /\ x.dpc.end > x.dpc.current /\ y.dpc.current = x.dpc.end
           /\ \A R : Seen(x) \in R /\ Stable(R) => y.rdp \in R
  <2>1. x.dpc.end # 0
    BY <1>2, RdpAssumption DEF Registers
  <2>2. x.dpc.end \in ListAddress
    BY <2>1 DEF Placed
  <2>3. Seen(x) = x.rdp
    <3>1. CASE x.dpc.xbus
      BY <3>1 DEF Seen
    <3>2. CASE ~x.dpc.xbus /\ x.dpc.current \in ListAddress
      BY <2>2, <3>2, ListsAreApart DEF Seen
    <3>3. CASE ~x.dpc.xbus /\ x.rdp.signal = 0
      BY <3>3 DEF Seen, CheckFramebuffers
    <3>4. QED
      BY <3>1, <3>2, <3>3 DEF Placed
  <2>4. Stable(Marked(Infos))
    BY AfterBridgeMarks DEF Stable
  <2>5. y.rdp \in Marked(Infos)
    BY <1>2, <2>3, <2>4
  <2>6. Placed(y.dpc, y.rdp)
    BY <1>2, <2>2 DEF Follows, Placed
  <2>7. QED
    BY <2>5, <2>6
<1>3. QED
  BY <1>1, <1>2 DEF Follows

SyncInv(Infos) == StreamInv /\ rdp \in Marked(Infos) /\ Placed(dpc, rdp)

\* Every step keeps the marks.
LEMMA SyncInvStep ==
  ASSUME WaitsForSync, NEW Infos, Orderly(Infos), SyncInv(Infos), [RdpNext]_rdpVars
  PROVE  SyncInv(Infos)'
<1>1. StreamedList(Now) /\ Now.dpc = dpc /\ Now.rdp = rdp /\ dpc \in Registers
  <2>1. Now = List(dpc, leftover, rdp, stream, sent)
    BY DEF Now, List
  <2>2. StreamedList(List(dpc, leftover, rdp, stream, sent))
    BY DEF StreamedList, SyncInv, StreamInv
  <2>3. QED
    BY <2>1, <2>2 DEF SyncInv, StreamInv, Streamed, Now
<1>2. StreamInv'
  BY StreamInvStep DEF SyncInv
<1>3. rdp \in Marked(Infos) /\ Placed(dpc, rdp)
  BY DEF SyncInv
<1> HIDE DEF SyncInv
<1> SUFFICES rdp' \in Marked(Infos) /\ Placed(dpc', rdp')
  BY <1>2 DEF SyncInv, Placed
<1>4. ASSUME NEW d \in Registers
      PROVE  /\ StreamedList([Now EXCEPT !.dpc = d])
             /\ [Now EXCEPT !.dpc = d].dpc = d /\ [Now EXCEPT !.dpc = d].rdp = rdp
  BY <1>1, OtherRegisters DEF Now
<1>5. ASSUME NEW d \in Registers, Placed(d, rdp), NEW s, s = [Now EXCEPT !.dpc = d],
             Becomes(s) \/ Becomes(RunCommand(s))
      PROVE  rdp' \in Marked(Infos) /\ Placed(dpc', rdp')
  <2>1. StreamedList(s) /\ s.dpc = d /\ s.rdp = rdp
    BY <1>4, <1>5
  <2>2. Follows(RunCommand(s), s)
    BY <2>1, RunCommandStreamed
  <2>3. RunCommand(s).rdp \in Marked(Infos) /\ Placed(RunCommand(s).dpc, RunCommand(s).rdp)
    BY <1>3, <1>5, <2>1, <2>2, FollowsMarked
  <2>4. (dpc' = s.dpc /\ rdp' = s.rdp) \/ (dpc' = RunCommand(s).dpc /\ rdp' = RunCommand(s).rdp)
    BY <1>5 DEF Becomes
  <2>5. QED
    BY <1>3, <1>5, <2>1, <2>3, <2>4
<1>6. ASSUME NEW a \in ListAddress, WriteStart(a)
      PROVE  rdp' \in Marked(Infos) /\ Placed(dpc', rdp')
  <2>1. PICK d : d = [dpc EXCEPT !.start = IF dpc.startValid THEN dpc.start ELSE a, !.startValid = TRUE]
    OBVIOUS
  <2>2. d \in Registers /\ Placed(d, rdp)
    BY <1>1, <1>3, <2>1, ListsInRdram DEF Registers, Placed
  <2>3. [Now EXCEPT !.dpc.start = IF dpc.startValid THEN dpc.start ELSE a, !.dpc.startValid = TRUE] = [Now EXCEPT !.dpc = d]
    BY <2>1 DEF Now
  <2>4. Becomes([Now EXCEPT !.dpc = d])
    <3>1. Now.dpc.start = dpc.start
      BY DEF Now
    <3>2. QED
      BY <1>6, <2>3, <3>1, Zenon DEF WriteStart
  <2>5. QED
    BY <1>5, <2>2, <2>4
<1>7. ASSUME NEW a \in ListAddress, WriteEnd(a)
      PROVE  rdp' \in Marked(Infos) /\ Placed(dpc', rdp')
  <2>1. Latched(a) \in Registers /\ Placed(Latched(a), rdp)
    BY <1>1, <1>3, ListsInRdram DEF Registers, Latched, Placed
  <2>2. QED
    BY <1>5, <1>7, <2>1 DEF WriteEnd
<1>8. ASSUME NEW xbus \in {"keep", "clear", "set"}, NEW freeze \in {"keep", "clear", "set"}, NEW clearPipe \in BOOLEAN,
             WriteStatus(xbus, freeze, clearPipe)
      PROVE  rdp' \in Marked(Infos) /\ Placed(dpc', rdp')
  <2>1. PICK d : d = [dpc EXCEPT !.xbus = IF xbus = "keep" THEN dpc.xbus ELSE xbus = "set",
                                 !.freeze = IF freeze = "keep" THEN dpc.freeze ELSE freeze = "set",
                                 !.pipeBusy = dpc.pipeBusy /\ ~clearPipe]
    OBVIOUS
  <2>2. PICK b1 \in BOOLEAN, b2 \in BOOLEAN, b3 \in BOOLEAN :
           /\ b1 = IF xbus = "keep" THEN dpc.xbus ELSE xbus = "set"
           /\ b2 = IF freeze = "keep" THEN dpc.freeze ELSE freeze = "set"
           /\ b3 = (dpc.pipeBusy /\ ~clearPipe)
    BY <1>1 DEF Registers
  <2>3. d = [dpc EXCEPT !.xbus = b1, !.freeze = b2, !.pipeBusy = b3]
    BY <2>1, <2>2
  <2>4. d \in Registers /\ Placed(d, rdp)
    BY <1>1, <1>3, <2>3 DEF Registers, Placed
  <2>5. Becomes(IF freeze = "clear" THEN RunCommand([Now EXCEPT !.dpc = d]) ELSE [Now EXCEPT !.dpc = d])
    BY <1>8, <2>1 DEF WriteStatus
  <2>6. QED
    BY <1>5, <2>4, <2>5
<1>9. CASE AckDp
  <2>1. PICK n \in BOOLEAN : n = FALSE
    OBVIOUS
  <2>2. dpc' = [dpc EXCEPT !.intr = n] /\ rdp' = rdp
    BY <1>9, <2>1 DEF AckDp
  <2>3. QED
    BY <1>1, <1>3, <2>2 DEF Registers, Placed
<1>10. CASE GpuFinishes
  <2>1. PICK v : rdp' = GpuReaches(rdp, v)
    BY <1>10 DEF GpuFinishes
  <2>2. rdp' \in Marked(Infos)
    BY <1>3, <2>1, GpuReachesMarks
  <2>3. rdp'.signal = rdp.signal /\ dpc' = dpc
    BY <1>3, <1>10, <2>1 DEF GpuReaches, Marked, GpuFinishes
  <2>4. QED
    BY <1>3, <2>2, <2>3 DEF Placed
<1>11. ASSUME NEW g \in Granules, AccessRdram(g)
      PROVE  rdp' \in Marked(Infos) /\ Placed(dpc', rdp')
  <2>1. /\ dpc' = dpc /\ ~ \E w \in rdp.work : w.at > rdp.timeline
        /\ rdp' = CheckFramebuffers(rdp, g, g + 1) \/ rdp' = rdp
    BY <1>11 DEF AccessRdram, Accessed, OpenBatch
  <2>2. rdp' \in Marked(Infos)
    BY <1>3, <2>1, AccessMarks
  <2>3. rdp.signal = 0 => rdp' = rdp
    BY <2>1 DEF CheckFramebuffers
  <2>4. QED
    BY <1>3, <2>1, <2>2, <2>3 DEF Placed
<1>12. CASE NextDisplay
  <2>1. rdp' = FreshRdp /\ dpc' = [FreshDpc EXCEPT !.intr = dpc.intr]
    BY <1>12 DEF NextDisplay
  <2>2. rdp'.signal = 0 /\ ~dpc'.startValid /\ dpc'.end = 0 /\ dpc'.current = 0
    BY <2>1 DEF FreshRdp, FreshDpc
  <2>3. QED
    BY <2>1, <2>2, FreshIsMarked DEF Placed
<1>13. CASE UNCHANGED rdpVars
  BY <1>3, <1>13 DEF rdpVars
<1>14. QED
  BY <1>6, <1>7, <1>8, <1>9, <1>10, <1>11, <1>12, <1>13 DEF RdpNext, SyncInv

\* What is accessed inline lies apart from what unfinished draws write.
LEMMA InlineIsApart ==
  ASSUME NEW Infos, Orderly(Infos), NEW r \in Marked(Infos), NEW g \in InlineAccess, NEW w \in r.work
  PROVE  g \notin w.writes
<1>1. w.writes \subseteq r.dirty /\ Closed(r.dirty, Infos)
  BY DEF Marked, Lawful
<1>2. SUFFICES ASSUME g \in w.writes PROVE FALSE
  OBVIOUS
<1>3. PICK p \in AllTouched(Infos) : g \in Extent(p)
  BY <1>1, <1>2 DEF Closed
<1>4. InlineAccess \cap Extent(p) = {}
  BY <1>3 DEF Orderly
<1>5. QED
  BY <1>3, <1>4

\* Once a FULL_SYNC covers a draw, an access to memory that the draw writes waits for
\* the GPU (rdp_core.cpp:71-110, 144-195): for every game whose lists, and what compiled
\* blocks access inline, lie apart from what it draws and loads, whose ranges nest, and
\* that waits for its FULL_SYNC.
THEOREM CoveredDrawsAreAwaited ==
  ASSUME WaitsForSync, NEW CONSTANT Infos, Orderly(Infos)
  PROVE  RdpSpec => []SyncedBeforeSeen
<1>1. RdpInit => SyncInv(Infos)
  <2> SUFFICES ASSUME RdpInit PROVE SyncInv(Infos)
    OBVIOUS
  <2>1. StreamInv
    BY EmptyStreamed, FreshRegisters DEF RdpInit, StreamInv
  <2>2. rdp = FreshRdp /\ dpc = FreshDpc
    BY DEF RdpInit
  <2>3. Placed(dpc, rdp)
    BY <2>2 DEF FreshRdp, FreshDpc, Placed
  <2>4. QED
    BY <2>1, <2>2, <2>3, FreshIsMarked DEF SyncInv
<1>2. SyncInv(Infos) /\ [RdpNext]_rdpVars => SyncInv(Infos)'
  BY SyncInvStep
<1>3. SyncInv(Infos) => SyncedBeforeSeen
  <2> SUFFICES ASSUME SyncInv(Infos), NEW g \in Granules, NEW r \in Accessed(g), NEW w \in r.work, g \in w.writes
               PROVE  w.at > rdp.timeline
    BY DEF SyncedBeforeSeen
  <2>1. rdp \in Marked(Infos)
    BY DEF SyncInv
  <2>2. CASE r = CheckFramebuffers(rdp, g, g + 1)
    BY <2>1, <2>2, MarksCatchDraws
  <2>3. CASE g \in InlineAccess /\ r = rdp
    BY <2>1, <2>3, InlineIsApart
  <2>4. QED
    BY <2>2, <2>3 DEF Accessed
<1>4. QED
  BY <1>1, <1>2, <1>3, PTL DEF RdpSpec

-----------------------------------------------------------------------------
(***************************************************************************)
(* The fields that are shown.                                              *)
(***************************************************************************)
USE ScreenAssumption

\* What the game and the host do: VI_ORIGIN always shows a picture once one is wanted and
\* changes at most once a field, the other registers are set up before the first picture
\* and make it no longer than the lines that are watched, the stores of the dynarec's own
\* code stay out of every picture, and the swapchain always has an image.
SteadyVi ==
    /\ OncePerField /\ SettledMode /\ ~FramesFail
    /\ ViValues["origin"] \cap {0, BlankOrigin} = {}
    /\ ResetVi.lines <= MarkedLines /\ \A n \in ViValues["lines"] : n <= MarkedLines
    /\ \A vi \in Vi : vi.origin \in ViValues["origin"] /\ vi.lines <= MarkedLines
                      => Picture(vi) \cap InlineStores = {}

ScreenShape ==
    screen \in [vi : Vi, rdpDirty : BOOLEAN, cpuDirty : BOOLEAN, presented : BOOLEAN, last : Nat,
                moved : BOOLEAN, drawn : BOOLEAN, written : SUBSET Nat, scanned : Vi]

SameMode(v, w) == v.type = w.type /\ v.width = w.width /\ v.lines = w.lines /\ v.other = w.other

ScreenInv ==
    /\ ScreenShape
    /\ screen.drawn => screen.rdpDirty
    /\ screen.vi.lines <= MarkedLines
    /\ screen.vi.origin \in ViValues["origin"] \cup {0}
    /\ screen.presented =>
          /\ screen.vi.origin \in ViValues["origin"]
          /\ screen.scanned.origin = screen.last
          /\ SameMode(screen.scanned, screen.vi)
          /\ ~screen.moved => screen.vi.origin = screen.last
          /\ screen.vi.origin = screen.last /\ ~screen.cpuDirty => Picture(screen.vi) \cap screen.written = {}

\* Two settings with the same fields are the same.
LEMMA SameSettings ==
  ASSUME NEW v \in Vi, NEW w \in Vi, v.origin = w.origin, SameMode(v, w)
  PROVE  v = w
  BY DEF Vi, SameMode

\* Every address of a picture is one whose writes are seen.
LEMMA PicturesAreWatched ==
  ASSUME NEW vi \in Vi, ~ShowsNothing(vi), vi.lines <= MarkedLines
  PROVE  Picture(vi) \subseteq Watched(vi)
<1> DEFINE p == PixelBytes(vi)
<1>1. /\ vi.origin \in Nat /\ vi.width \in Nat /\ vi.lines \in Nat /\ MarkedLines \in Nat
      /\ p \in Nat
  BY DEF Vi, PixelBytes
<1>2. CASE vi.type < 2
  BY <1>2 DEF Picture
<1>3. CASE ~(vi.type < 2) /\ vi.width = 0
  <2> HIDE DEF p
  <2>1. 0 * vi.lines * p = 0
    BY <1>1
  <2>2. Lines(vi, vi.lines) = vi.origin .. vi.origin + 0 - 1
    BY <1>3, <2>1 DEF Lines, p
  <2>3. Lines(vi, vi.lines) = {}
    BY <1>1, <2>2
  <2> QED BY <1>3, <2>3 DEF Picture
<1>4. CASE ~(vi.type < 2) /\ vi.width # 0
  <2> HIDE DEF p
  <2>1. vi.width * vi.lines <= vi.width * MarkedLines
    BY <1>1
  <2> DEFINE a == vi.width * vi.lines  b == vi.width * MarkedLines
  <2>2. a \in Nat /\ b \in Nat /\ a <= b
    BY <1>1, <2>1
  <2> HIDE DEF a, b
  <2>3. a * p <= b * p /\ a * p \in Nat /\ b * p \in Nat
    BY <1>1, <2>2
  <2>4. vi.origin .. vi.origin + a * p - 1 \subseteq vi.origin .. vi.origin + b * p - 1
    BY <1>1, <2>3
  <2>5. Lines(vi, vi.lines) \subseteq Lines(vi, MarkedLines)
    BY <2>4 DEF Lines, a, b, p
  <2>6. Picture(vi) = Lines(vi, vi.lines) /\ Watched(vi) = Lines(vi, MarkedLines)
    BY <1>4 DEF Picture, Watched
  <2> QED BY <2>5, <2>6
<1> QED BY <1>2, <1>3, <1>4

\* A field that is shown or skipped keeps ScreenInv.
LEMMA PresentKeeps ==
  ASSUME ScreenInv, SteadyVi, NEW force \in BOOLEAN, PresentField(force, TRUE)
  PROVE  ScreenInv'
<1> DEFINE ended == [screen EXCEPT !.moved = FALSE]
           kept == IF ShowsNothing(screen.vi) THEN ended
                   ELSE [ended EXCEPT !.presented = TRUE, !.last = screen.vi.origin]
           vi == screen.vi
<1>0. vi \in Vi /\ vi.origin \in Nat /\ screen.last \in Nat
  BY DEF ScreenInv, ScreenShape, Vi
<1>1. CASE ~force /\ (Duplicate \/ ShowsNothing(screen.vi))
  <2>1. screen' = [screen EXCEPT !.moved = FALSE]
    BY <1>1 DEF PresentField
  <2>2. screen.presented => screen.vi.origin = screen.last
    BY <1>1 DEF Duplicate, ShowsNothing, ScreenInv, SteadyVi
  <2>3. ScreenShape'
    BY <2>1 DEF ScreenInv, ScreenShape
  <2>4. /\ screen'.vi = screen.vi /\ screen'.drawn = screen.drawn /\ screen'.rdpDirty = screen.rdpDirty
        /\ screen'.cpuDirty = screen.cpuDirty /\ screen'.presented = screen.presented
        /\ screen'.last = screen.last /\ screen'.written = screen.written /\ screen'.scanned = screen.scanned
    BY <2>1 DEF ScreenInv, ScreenShape
  <2>5. QED
    BY <2>2, <2>3, <2>4 DEF ScreenInv, SameMode, Picture, Lines, PixelBytes
<1>2. CASE ~(~force /\ (Duplicate \/ ShowsNothing(screen.vi))) /\ ShowsNothing(screen.vi)
  <2>0. ~screen.presented
    BY <1>2 DEF ShowsNothing, ScreenInv, SteadyVi
  <2>1. screen' = [Clean(ended) EXCEPT !.scanned = vi, !.drawn = FALSE, !.written = {}]
    BY <1>2 DEF PresentField
  <2>2. screen' = [vi |-> vi, rdpDirty |-> FALSE, cpuDirty |-> FALSE, presented |-> FALSE, last |-> screen.last,
                   moved |-> FALSE, drawn |-> FALSE, written |-> {}, scanned |-> vi]
    BY <2>0, <2>1 DEF Clean, ScreenInv, ScreenShape
  <2> HIDE DEF vi
  <2>3. ScreenShape'
    BY <1>0, <2>2 DEF ScreenShape
  <2>4. QED
    BY <2>2, <2>3 DEF ScreenInv, vi
<1>3. CASE ~(~force /\ (Duplicate \/ ShowsNothing(screen.vi))) /\ ~ShowsNothing(screen.vi)
  <2>1. screen' = [vi |-> vi, rdpDirty |-> FALSE, cpuDirty |-> FALSE, presented |-> TRUE, last |-> vi.origin,
                   moved |-> FALSE, drawn |-> FALSE, written |-> {}, scanned |-> vi]
    <3>1. screen' = [Clean([ended EXCEPT !.presented = TRUE, !.last = vi.origin])
                        EXCEPT !.scanned = vi, !.drawn = FALSE, !.written = {}]
      BY <1>3 DEF PresentField
    <3>2. QED
      BY <3>1 DEF Clean, ScreenInv, ScreenShape
  <2>2. vi.origin \in ViValues["origin"] /\ vi.lines <= MarkedLines
    BY <1>3 DEF ScreenInv, ShowsNothing
  <2>3. SameMode(vi, vi)
    BY DEF SameMode
  <2> HIDE DEF vi
  <2>4. ScreenShape'
    BY <1>0, <2>1 DEF ScreenShape
  <2>5. QED
    BY <2>1, <2>2, <2>3, <2>4 DEF ScreenInv
<1>4. QED
  BY <1>1, <1>2, <1>3

\* A store keeps ScreenInv: one that sets no mark is out of the picture.
LEMMA StoresKeep ==
  ASSUME ScreenInv, SteadyVi, NEW a \in Nat,
         NEW dirty \in BOOLEAN,
         screen' = [screen EXCEPT !.cpuDirty = dirty, !.written = @ \cup {a}],
         screen.cpuDirty => dirty,
         screen.presented /\ ~dirty => a \notin Picture(screen.vi)
  PROVE  ScreenInv'
<1>1. ScreenShape'
  BY DEF ScreenInv, ScreenShape
<1>2. /\ screen'.vi = screen.vi /\ screen'.presented = screen.presented /\ screen'.scanned = screen.scanned
      /\ screen'.drawn = screen.drawn /\ screen'.rdpDirty = screen.rdpDirty
      /\ screen'.last = screen.last /\ screen'.moved = screen.moved
      /\ screen'.cpuDirty = dirty /\ screen'.written = screen.written \cup {a}
  BY DEF ScreenInv, ScreenShape
<1>3. Picture(screen.vi)' = Picture(screen.vi)
  BY <1>2 DEF Picture, Lines, PixelBytes
<1>4. QED
  BY <1>1, <1>2, <1>3 DEF ScreenInv, SameMode

\* A field that is skipped would have shown the picture that is shown, whatever is
\* drawn and written in between, if SteadyVi holds. (video/present.cpp present_field,
\* rdp/rdp_core.cpp on_rdram_write)
THEOREM SkippedFieldsAreShown == ASSUME SteadyVi PROVE ScreenSpec => []SkippedIsShown
<1>1. ScreenInit => ScreenInv
  BY DEF ScreenInit, ScreenInv, ScreenShape, SteadyVi
<1>2. ScreenInv /\ [ScreenNext]_screen => ScreenInv'
  <2> SUFFICES ASSUME ScreenInv, [ScreenNext]_screen PROVE ScreenInv'
    OBVIOUS
  <2>0. screen.vi \in Vi /\ screen.cpuDirty \in BOOLEAN
    BY DEF ScreenInv, ScreenShape
  <2>1. CASE NewCommands
    <3>1. screen' = [screen EXCEPT !.rdpDirty = TRUE, !.drawn = TRUE]
      BY <2>1 DEF NewCommands
    <3>2. ScreenShape'
      BY <3>1 DEF ScreenInv, ScreenShape
    <3>3. /\ screen'.vi = screen.vi /\ screen'.presented = screen.presented /\ screen'.scanned = screen.scanned
          /\ screen'.rdpDirty /\ screen'.last = screen.last /\ screen'.moved = screen.moved
          /\ screen'.cpuDirty = screen.cpuDirty /\ screen'.written = screen.written
      BY <3>1 DEF ScreenInv, ScreenShape
    <3>4. QED
      BY <3>2, <3>3 DEF ScreenInv, SameMode, Picture, Lines, PixelBytes
  <2>2. ASSUME NEW a \in Memory, WriteMemory(a)
        PROVE  ScreenInv'
    <3> DEFINE dirty == screen.cpuDirty \/ a \in Watched(screen.vi)
    <3>1. dirty \in BOOLEAN /\ a \in Nat /\ (screen.cpuDirty => dirty)
      BY <2>0
    <3>2. screen' = [screen EXCEPT !.cpuDirty = dirty, !.written = @ \cup {a}]
      <4>1. screen' = [screen EXCEPT !.cpuDirty = @ \/ a \in Watched(screen.vi), !.written = @ \cup {a}]
        BY <2>2 DEF WriteMemory
      <4> QED BY <4>1 DEF ScreenInv, ScreenShape
    <3>3. screen.presented /\ ~dirty => a \notin Picture(screen.vi)
      <4> SUFFICES ASSUME screen.presented, ~dirty PROVE a \notin Picture(screen.vi)
        OBVIOUS
      <4>1. ~ShowsNothing(screen.vi) /\ screen.vi.lines <= MarkedLines
        BY DEF ScreenInv, SteadyVi, ShowsNothing
      <4>2. Picture(screen.vi) \subseteq Watched(screen.vi)
        BY <2>0, <4>1, PicturesAreWatched
      <4> QED BY <4>2
    <3> HIDE DEF dirty
    <3>4. QED
      BY <3>1, <3>2, <3>3, StoresKeep
  <2>3. ASSUME NEW a \in InlineStores, StoreInline(a)
        PROVE  ScreenInv'
    <3> DEFINE dirty == screen.cpuDirty
    <3>1. screen' = [screen EXCEPT !.cpuDirty = dirty, !.written = @ \cup {a}]
      BY <2>3 DEF StoreInline, ScreenInv, ScreenShape
    <3>2. dirty \in BOOLEAN /\ a \in Nat
      BY <2>0
    <3>3. screen.presented => a \notin Picture(screen.vi)
      BY <2>0 DEF ScreenInv, SteadyVi
    <3>4. QED
      BY <3>1, <3>2, <3>3, StoresKeep
  <2>4. ASSUME NEW register \in ViRegisters, NEW value \in ViValues[register], WriteVi(register, value)
        PROVE  ScreenInv'
    <3> DEFINE vi == [screen.vi EXCEPT ![register] = value]
               moved == screen.moved \/ register = "origin"
    <3>1. value \in Nat /\ (register = "type" => value \in 0 .. 3)
      BY DEF ViRegisters
    <3>2. vi \in Vi /\ moved \in BOOLEAN
      BY <2>0, <3>1 DEF Vi, ViRegisters, ScreenInv, ScreenShape
    <3>3. /\ register = "origin" => vi.origin = value /\ SameMode(vi, screen.vi)
          /\ register # "origin" => vi.origin = screen.vi.origin
          /\ register = "lines" => vi.lines = value
          /\ register # "lines" => vi.lines = screen.vi.lines
      BY <2>0, <3>1 DEF Vi, ViRegisters, SameMode
    <3>4. screen' = [screen EXCEPT !.vi = vi, !.moved = moved]
      BY <2>4 DEF WriteVi
    <3>5. /\ register = "origin" => ~screen.moved
          /\ register # "origin" => ~screen.presented
      BY <2>4 DEF WriteVi, SteadyVi
    <3> HIDE DEF vi, moved
    <3>6. ScreenShape'
      BY <3>2, <3>4 DEF ScreenInv, ScreenShape
    <3>7. /\ screen'.vi = vi /\ screen'.moved = moved /\ screen'.presented = screen.presented
          /\ screen'.scanned = screen.scanned /\ screen'.drawn = screen.drawn /\ screen'.rdpDirty = screen.rdpDirty
          /\ screen'.last = screen.last /\ screen'.cpuDirty = screen.cpuDirty /\ screen'.written = screen.written
      BY <3>2, <3>4 DEF ScreenInv, ScreenShape
    <3>8. vi.lines <= MarkedLines
      BY <3>3 DEF ScreenInv, SteadyVi
    <3>9. CASE register = "origin"
      <4>1. vi.origin \in ViValues["origin"] /\ SameMode(vi, screen.vi) /\ moved
        BY <3>3, <3>9 DEF moved
      <4>2. screen.presented => screen.vi.origin = screen.last
        BY <3>5, <3>9 DEF ScreenInv
      <4>3. screen.presented /\ vi.origin = screen.last => vi = screen.vi
        BY <2>0, <3>2, <4>1, <4>2, SameSettings
      <4>4. screen.presented => SameMode(screen.scanned, vi)
        BY <4>1 DEF ScreenInv, SameMode
      <4>5. screen'.presented /\ screen'.vi.origin = screen'.last /\ ~screen'.cpuDirty
              => Picture(screen'.vi) \cap screen'.written = {}
        BY <3>7, <4>3 DEF ScreenInv
      <4>6. QED
        BY <3>6, <3>7, <3>8, <4>1, <4>4, <4>5 DEF ScreenInv, Picture, Lines, PixelBytes, SameMode
    <3>10. CASE register # "origin"
      <4>1. ~screen'.presented /\ screen'.vi.origin = screen.vi.origin
        BY <3>3, <3>5, <3>7, <3>10
      <4>2. QED
        BY <3>6, <3>7, <3>8, <4>1 DEF ScreenInv
    <3>11. QED
      BY <3>9, <3>10
  <2>5. ASSUME NEW force \in BOOLEAN, PresentField(force, TRUE)
        PROVE  ScreenInv'
    BY <2>5, PresentKeeps
  <2>6. ASSUME NEW vi \in {screen.vi, ResetVi}, NextPicture(vi)
        PROVE  ScreenInv'
    <3>0. vi \in Vi /\ vi.lines <= MarkedLines /\ vi.origin \in ViValues["origin"] \cup {0}
      BY <2>0 DEF ScreenInv, SteadyVi
    <3> HIDE DEF Vi
    <3>1. screen' = [vi |-> vi, rdpDirty |-> TRUE, cpuDirty |-> TRUE, presented |-> FALSE, last |-> 0,
                     moved |-> screen.moved, drawn |-> TRUE, written |-> screen.written, scanned |-> screen.scanned]
      BY <2>6 DEF NextPicture, ScreenInv, ScreenShape
    <3>2. screen.moved \in BOOLEAN /\ screen.written \in SUBSET Nat /\ screen.scanned \in Vi
      BY DEF ScreenInv, ScreenShape
    <3>3. ScreenShape'
      BY <3>0, <3>1, <3>2 DEF ScreenShape
    <3>4. QED
      BY <3>0, <3>1, <3>3 DEF ScreenInv
  <2>7. CASE UNCHANGED screen
    BY <2>7 DEF ScreenInv, ScreenShape, SameMode, Picture, Lines, PixelBytes
  <2>8. QED
    BY <2>1, <2>2, <2>3, <2>4, <2>5, <2>6, <2>7 DEF ScreenNext, SteadyVi
<1>3. ScreenInv => SkippedIsShown
  <2> SUFFICES ASSUME ScreenInv, Duplicate PROVE SkippedIsShown
    BY DEF SkippedIsShown
  <2>1. screen.scanned \in Vi /\ screen.vi \in Vi
    BY DEF ScreenInv, ScreenShape
  <2>2. screen.scanned = screen.vi
    BY <2>1, SameSettings DEF Duplicate, ScreenInv
  <2>3. QED
    BY <2>2 DEF Duplicate, ScreenInv, SkippedIsShown
<1>4. QED
  BY <1>1, <1>2, <1>3, PTL DEF ScreenSpec
=============================================================================

---------------------------- MODULE EngineProofs -----------------------------
(***************************************************************************)
(* Theorems about Isa, for any width of a byte, any number of registers,   *)
(* any RDRAM, TLB, start and program.                                      *)
(*                                                                         *)
(* The interpreter sign-extends words and then operates on 64 bits;        *)
(* emitted code operates on 32 bits and then extends. Low and Sign of a    *)
(* number depend on its remainder only, so that either order gives the     *)
(* same register (PartsExtend, SextRules, LowOfSum). EnginesAgree is an    *)
(* invariant once the machine is known to be well-formed (Typed), and that *)
(* the interpreter keeps by itself (TypesInvariant), so that the two       *)
(* machines are compared on one.                                           *)
(*                                                                         *)
(* RDRAM holds the words of the console as words of the host. Of the bytes *)
(* in a row Joining takes the first ones off, and TwoParts puts the ends   *)
(* of two aligned words together.                                          *)
(***************************************************************************)
EXTENDS Isa, BitOpsProofs

(***************************************************************************)
(* Widths                                                                  *)
(***************************************************************************)

\* The powers that bytes are counted in.
LEMMA Units ==
  /\ B(0) = 1
  /\ \A n \in Nat : B(n) \in Nat \ {0}
  /\ \A a, b \in Nat : B(a + b) = B(a) * B(b)
  /\ \A a, b \in Nat : a <= b => B(a) <= B(b)
  /\ \A n \in Nat \ {0} : B(n) \div 2 \in Nat \ {0} /\ B(n) = 2 * (B(n) \div 2)
<1>1. \A n \in Nat : n * ByteBits \in Nat
  BY IsaAssumption
<1>2. B(0) = 1
  <2>1. ByteBits \in Nat
    BY IsaAssumption
  <2>2. 0 * ByteBits = 0
    BY <2>1
  <2> QED BY <2>2, Pow2Step DEF B
<1>3. \A n \in Nat : B(n) \in Nat \ {0}
  BY <1>1, Pow2Type DEF B
<1>4. ASSUME NEW a \in Nat, NEW b \in Nat PROVE B(a + b) = B(a) * B(b)
  <2>1. (a + b) * ByteBits = a * ByteBits + b * ByteBits
    BY IsaAssumption
  <2> QED BY <1>1, <2>1, Pow2Sum DEF B
<1>5. ASSUME NEW a \in Nat, NEW b \in Nat, a <= b PROVE B(a) <= B(b)
  <2>1. a * ByteBits <= b * ByteBits
    BY <1>5, IsaAssumption
  <2> QED BY <1>1, <2>1, Pow2Grows DEF B
<1>6. ASSUME NEW n \in Nat \ {0} PROVE B(n) \div 2 \in Nat \ {0} /\ B(n) = 2 * (B(n) \div 2)
  <2> DEFINE k == n * ByteBits
  <2>1. k \in Nat \ {0}
    BY IsaAssumption
  <2>2. B(n) = Pow2[k]
    BY DEF B
  <2> HIDE DEF k
  <2>3. k - 1 \in Nat /\ (k - 1) + 1 = k
    BY <2>1
  <2>4. Pow2[k] = 2 * Pow2[k - 1] /\ Pow2[k - 1] \in Nat \ {0}
    BY <2>3, Pow2Step, Pow2Type
  <2> QED BY <2>2, <2>4
<1> QED BY <1>2, <1>3, <1>4, <1>5, <1>6

\* The value of the n-th byte is positive.
LEMMA UnitAt == \A n \in Nat : B(n) \in Nat \ {0}
  BY Units

\* More bytes, more values.
LEMMA UnitOrder ==
  ASSUME NEW n \in Nat \ {0}, NEW w \in Nat, n <= w
  PROVE  /\ B(n) <= B(w) /\ B(n) \in Nat /\ B(w) \in Nat /\ B(n) = 2 * (B(n) \div 2) /\ B(w) = 2 * (B(w) \div 2)
         /\ B(n) \div 2 \in Nat /\ B(w) \div 2 \in Nat
<1>1. w \in Nat \ {0} /\ n \in Nat
  OBVIOUS
<1>2. B(n) <= B(w)
  BY <1>1, Units
<1> QED BY <1>1, <1>2, Units

\* The n-byte part of a number, and the number it means with a sign.
LEMMA LowRange ==
  ASSUME NEW v \in Int, NEW n \in Nat \ {0}
  PROVE  /\ Low(v, n) \in 0 .. B(n) - 1
         /\ Sign(v, n) \in -(B(n) \div 2) .. B(n) \div 2 - 1
         /\ \E q \in Int : v = Sign(v, n) + q * B(n)
<1>1. B(n) \in Nat \ {0} /\ B(n) = 2 * (B(n) \div 2) /\ B(n) \div 2 \in Nat \ {0}
  BY Units
<1> DEFINE d == B(n)
           h == B(n) \div 2
           r == v % d
<1>2. PICK q \in Int : v = q * d + r
  BY <1>1, DividedBy
<1>3. r \in 0 .. d - 1
  BY <1>1, DividedBy
<1>4. d = 2 * h /\ h \in Nat \ {0}
  BY <1>1
<1>5. Low(v, n) = r /\ Sign(v, n) = IF r >= h THEN r - d ELSE r
  BY DEF Low, Sign
<1> HIDE DEF d, h, r
<1>6. Low(v, n) \in 0 .. d - 1 /\ Sign(v, n) \in -h .. h - 1
  BY <1>3, <1>4, <1>5
<1>7. v = Sign(v, n) + (IF r >= h THEN q + 1 ELSE q) * d
  BY <1>2, <1>3, <1>4, <1>5
<1>8. (IF r >= h THEN q + 1 ELSE q) \in Int
  OBVIOUS
<1> QED BY <1>6, <1>7, <1>8 DEF d, h

\* A sign-extended number fits a register.
LEMMA SextType ==
  ASSUME NEW v \in Int, NEW n \in Nat \ {0}
  PROVE  Sext(v, n) \in 0 .. B(8) - 1 /\ Sign(v, n) \in Int
<1>1. Sign(v, n) \in -(B(n) \div 2) .. B(n) \div 2 - 1
  BY LowRange
<1>2. Sign(v, n) \in Int
  BY <1>1, Units
<1> DEFINE s == Sign(v, n)
<1>4. s \in Int
  BY <1>2
<1> HIDE DEF s
<1>3. Low(s, 8) \in 0 .. B(8) - 1
  BY <1>4, LowRange
<1> QED BY <1>2, <1>3 DEF Sext, s

\* A number in range is its own part.
LEMMA LowIs ==
  ASSUME NEW n \in Nat, NEW v \in 0 .. B(n) - 1
  PROVE  Low(v, n) = v
<1>1. B(n) \in Nat \ {0} /\ v = 0 * B(n) + v /\ v \in Int
  BY Units
<1> QED BY <1>1, RemainderIs DEF Low

\* The sign of a number in range.
LEMMA SignIs ==
  ASSUME NEW n \in Nat \ {0}, NEW v \in -(B(n) \div 2) .. B(n) \div 2 - 1
  PROVE  Sign(v, n) = v
<1> DEFINE d == B(n)
           h == B(n) \div 2
<1>1. d \in Nat \ {0} /\ d = 2 * h /\ h \in Nat \ {0} /\ v \in -h .. h - 1
  BY Units
<1>2. Sign(v, n) = IF v % d >= h THEN (v % d) - d ELSE v % d
  BY DEF Low, Sign
<1> HIDE DEF d, h
<1>3. CASE v >= 0
  <2>1. v \in 0 .. d - 1 /\ v = 0 * d + v
    BY <1>1, <1>3
  <2>2. v % d = v
    BY <1>1, <2>1, RemainderIs
  <2> QED BY <1>1, <1>2, <2>2, <1>3
<1>4. CASE v < 0
  <2>1. v + d \in 0 .. d - 1 /\ v = (-1) * d + (v + d) /\ v \in Int
    BY <1>1, <1>4
  <2> DEFINE r == v + d
  <2>2. r \in 0 .. d - 1 /\ v = (-1) * d + r
    BY <2>1
  <2> HIDE DEF r
  <2>3. v % d = r
    BY <1>1, <2>1, <2>2, RemainderIs
  <2> QED BY <1>1, <1>2, <2>3, <1>4 DEF r
<1> QED BY <1>1, <1>3, <1>4

\* Equal parts extend equally.
LEMMA PartsExtend ==
  ASSUME NEW x, NEW y, NEW n, Low(x, n) = Low(y, n)
  PROVE  Sign(x, n) = Sign(y, n) /\ Sext(x, n) = Sext(y, n)
  BY DEF Sext, Sign

\* Taking the same part twice.
LEMMA LowOfLow ==
  ASSUME NEW v \in Int, NEW n \in Nat
  PROVE  Low(Low(v, n), n) = Low(v, n)
<1>1. B(n) \in Nat \ {0}
  BY Units
<1>2. Low(v, n) \in 0 .. B(n) - 1
  BY <1>1, DividedBy DEF Low
<1> QED BY <1>2, LowIs

\* Taking a part of a wider part.
LEMMA LowOfWider ==
  ASSUME NEW v \in Int, NEW n \in Nat, NEW w \in Nat, n <= w
  PROVE  Low(Low(v, w), n) = Low(v, n)
<1>1. w - n \in Nat /\ w = n + (w - n)
  OBVIOUS
<1>2. B(w) = B(n) * B(w - n) /\ B(n) \in Nat \ {0} /\ B(w - n) \in Nat \ {0}
  BY <1>1, Units
<1>3. (v % (B(n) * B(w - n))) % B(n) = v % B(n)
  BY <1>2, RemainderOfRemainder
<1> QED BY <1>2, <1>3 DEF Low

\* A sign-extended number and what it was extended from.
LEMMA SextRules ==
  ASSUME NEW v \in Int, NEW n \in Nat \ {0}, n <= 8
  PROVE  Low(Sext(v, n), n) = Low(v, n) /\ Sign(Sext(v, n), 8) = Sign(v, n) /\ Low(Sign(v, n), n) = Low(v, n)
<1> DEFINE s == Sign(v, n)
<1>1. s \in -(B(n) \div 2) .. B(n) \div 2 - 1 /\ s \in Int
  BY LowRange, SextType
<1>2. PICK q \in Int : v = s + q * B(n)
  BY LowRange
<1>3. Sext(v, n) = Low(s, 8)
  BY DEF Sext
<1> HIDE DEF s
<1>4. Low(v, n) = Low(s, n)
  <2>1. B(n) \in Nat \ {0}
    BY UnitAt
  <2>3. Congruent(v, s, B(n))
    BY <1>2, Zenon DEF Congruent
  <2>2. v % B(n) = s % B(n)
    BY <1>1, <2>1, <2>3, SameRemainder, Zenon
  <2> QED BY <2>2 DEF Low
<1>5. Low(Sext(v, n), n) = Low(s, n)
  BY <1>1, <1>3, LowOfWider
<1>6. Low(Sext(v, n), 8) = Low(s, 8)
  BY <1>1, <1>3, LowOfLow
<1>7. Sign(Sext(v, n), 8) = Sign(s, 8)
  BY <1>6, PartsExtend
<1>8. B(n) <= B(8) /\ B(8) = 2 * (B(8) \div 2) /\ B(n) = 2 * (B(n) \div 2) /\ B(n) \in Nat /\ B(8) \in Nat /\ B(8) \div 2 \in Nat /\ B(n) \div 2 \in Nat
  BY UnitOrder
<1>9. s \in -(B(8) \div 2) .. B(8) \div 2 - 1
  BY <1>1, <1>8
<1>10. Sign(s, 8) = s
  BY <1>9, SignIs
<1> QED BY <1>4, <1>5, <1>7, <1>10 DEF s

\* A full register extends to itself.
LEMMA SextOfDouble ==
  ASSUME NEW v \in 0 .. B(8) - 1
  PROVE  Sext(v, 8) = v
<1>1. v \in Int
  BY UnitAt
<1>2. Low(Sext(v, 8), 8) = Low(v, 8)
  BY <1>1, SextRules
<1>3. Sext(v, 8) \in 0 .. B(8) - 1
  BY <1>1, SextType
<1> QED BY <1>2, <1>3, LowIs

(***************************************************************************)
(* Bytes                                                                   *)
(***************************************************************************)

\* Each byte of a number is a byte of its low part.
LEMMA ByteOfLow ==
  ASSUME NEW v \in Int, NEW n \in Nat, NEW j \in 0 .. n - 1
  PROVE  (v \div B(j)) % B(1) = (Low(v, n) \div B(j)) % B(1)
<1> DEFINE r == Low(v, n)
           k == n - j
           l == k - 1
           d == B(j)
           e == B(1)
           f == B(l)
<1>1. l \in Nat /\ k = 1 + l /\ n = j + k /\ j \in Nat /\ k \in Nat
  OBVIOUS
<1> HIDE DEF k, l
<1>2. B(n) = B(j) * B(k) /\ B(k) = B(1) * B(l)
  BY <1>1, Units
<1>3. d \in Nat \ {0} /\ e \in Nat \ {0} /\ f \in Nat \ {0} /\ B(n) \in Nat \ {0}
  BY <1>1, UnitAt
<1>4. PICK q \in Int : v = q * B(n) + r
  BY <1>3, DividedBy DEF Low
<1>5. r \in Int
  <2>1. v % B(n) \in 0 .. B(n) - 1
    BY <1>3, DividedBy
  <2> QED BY <2>1, <1>3 DEF Low
<1>6. B(n) = d * (e * f)
  BY <1>2
<1> HIDE DEF r, d, e, f
<1> DEFINE p == q * f
           s == p * e
           u == r \div d
<1>7. p \in Int /\ s \in Int /\ u \in Int
  BY <1>3, <1>5
<1>8. q * B(n) = s * d
  BY <1>3, <1>6
<1>9. v = r + s * d
  BY <1>4, <1>5, <1>7, <1>8, <1>3
<1> HIDE DEF s
<1>10. v \div d = u + s
  BY <1>3, <1>5, <1>7, <1>9, QuotientOfMultiple
<1>11. s = p * e
  BY DEF s
<1> HIDE DEF p, u
<1>12. (u + p * e) % e = u % e
  BY <1>3, <1>7, QuotientOfMultiple
<1> QED BY <1>10, <1>11, <1>12 DEF u, d, e, r

\* Storing n bytes stores the low part.
LEMMA StoredLow ==
  ASSUME NEW mem, NEW x \in Int, NEW n \in Nat, NEW v \in Int, NEW w \in Int, Low(v, n) = Low(w, n)
  PROVE  Stored(mem, x, n, v) = Stored(mem, x, n, w)
<1>1. ASSUME NEW i \in x .. x + n - 1
      PROVE  (v \div B(i - x)) % B(1) = (w \div B(i - x)) % B(1)
  <2>1. i - x \in 0 .. n - 1
    OBVIOUS
  <2> DEFINE j == i - x
  <2>2. j \in 0 .. n - 1
    BY <2>1
  <2> HIDE DEF j
  <2>3. (v \div B(j)) % B(1) = (Low(v, n) \div B(j)) % B(1)
    BY <2>2, ByteOfLow
  <2>4. (w \div B(j)) % B(1) = (Low(w, n) \div B(j)) % B(1)
    BY <2>2, ByteOfLow
  <2> QED BY <2>3, <2>4 DEF j
<1> QED BY <1>1 DEF Stored

Byte == 0 .. B(1) - 1
ByteMem(S) == [S -> Byte]

\* What is stored are bytes.
LEMMA StoredType ==
  ASSUME NEW S, NEW mem \in ByteMem(S), NEW x \in Int, NEW n \in Nat, NEW v \in Int
  PROVE  Stored(mem, x, n, v) \in ByteMem(S)
<1>1. ASSUME NEW i \in S, i \in x .. x + n - 1
      PROVE  (v \div B(i - x)) % B(1) \in Byte
  <2>1. i - x \in Nat
    BY <1>1
  <2>2. B(i - x) \in Nat \ {0} /\ B(1) \in Nat \ {0}
    BY <2>1, UnitAt
  <2> DEFINE d == B(i - x)
  <2> HIDE DEF d
  <2>3. v \div d \in Int
    BY <2>2 DEF d
  <2>4. (v \div d) % B(1) \in 0 .. B(1) - 1
    BY <2>2, <2>3, DividedBy
  <2> QED BY <2>4 DEF Byte, d
<1> QED BY <1>1 DEF Stored, ByteMem

\* What the function inside Joined is.
Parts(n, byte, part) ==
  /\ Joined(n, byte) = part[n]
  /\ part[0] = 0
  /\ \A k \in 0 .. n - 1 : part[k + 1] = part[k] * B(1) + byte[k]

AreBytes(n, byte) == \A k \in 0 .. n - 1 : byte[k] \in Byte

\* Bytes are numbers.
LEMMA ByteIsNat == B(1) \in Nat \ {0} /\ Byte \subseteq Nat
  BY UnitAt DEF Byte

\* Joined is the last of its partial sums.
LEMMA PartsExist ==
  ASSUME NEW n \in Nat, NEW byte, AreBytes(n, byte)
  PROVE  \E part : Parts(n, byte, part)
<1> DEFINE step == [q \in Nat \X Nat |-> IF q[1] \in 0 .. n - 1 THEN q[2] * B(1) + byte[q[1]] ELSE 0]
<1>1. ASSUME NEW k \in Nat, NEW x \in Nat, k \in 0 .. n - 1
      PROVE  x * B(1) + byte[k] \in Nat
  <2>1. byte[k] \in Nat
    BY <1>1, ByteIsNat DEF AreBytes
  <2> QED BY <2>1, ByteIsNat
<1>2. \A k \in Nat, x \in Nat : step[<<k, x>>] = IF k \in 0 .. n - 1 THEN x * B(1) + byte[k] ELSE 0
  OBVIOUS
<1>3. IsTable(step, Nat)
  <2> SUFFICES ASSUME NEW q \in Nat \X Nat
      PROVE (IF q[1] \in 0 .. n - 1 THEN q[2] * B(1) + byte[q[1]] ELSE 0) \in Nat
    BY DEF IsTable
  <2>1. q[1] \in Nat /\ q[2] \in Nat
    OBVIOUS
  <2> QED BY <1>1, <2>1
<1> HIDE DEF step
<1>4. PICK f : Follows(f, Nat, 0, step)
  BY <1>3, Recursion
<1>5. /\ f \in [Nat -> Nat]
      /\ f[0] = 0
      /\ \A k \in Nat : f[k + 1] = step[<<k, f[k]>>]
  BY <1>4 DEF Follows
<1> DEFINE part == [k \in 0 .. n |-> f[k]]
           Def(p) == p = [k \in 0 .. n |-> IF k = 0 THEN 0 ELSE p[k - 1] * B(1) + byte[k - 1]]
           chosen == CHOOSE p : Def(p)
<1>6. Def(part)
  <2> SUFFICES ASSUME NEW k \in 0 .. n, k # 0 PROVE f[k] = f[k - 1] * B(1) + byte[k - 1]
    BY <1>5
  <2>1. k - 1 \in 0 .. n - 1 /\ k - 1 \in Nat /\ (k - 1) + 1 = k
    OBVIOUS
  <2>2. f[k] = step[<<k - 1, f[k - 1]>>]
    BY <1>5, <2>1
  <2> QED BY <1>2, <1>5, <2>1, <2>2
<1> HIDE DEF part
<1>7. Def(chosen)
  BY <1>6
<1>8. Joined(n, byte) = chosen[n]
  BY DEF Joined
<1> HIDE DEF chosen
<1>9. chosen[0] = 0 /\ \A k \in 0 .. n : k # 0 => chosen[k] = chosen[k - 1] * B(1) + byte[k - 1]
  BY <1>7
<1> HIDE DEF Def
<1>10. ASSUME NEW k \in 0 .. n - 1 PROVE chosen[k + 1] = chosen[k] * B(1) + byte[k]
  <2>1. k + 1 \in 0 .. n /\ k + 1 # 0 /\ (k + 1) - 1 = k
    OBVIOUS
  <2> QED BY <1>9, <2>1
<1>11. Parts(n, byte, chosen)
  BY <1>8, <1>9, <1>10 DEF Parts
<1> QED BY <1>11

\* n bytes make a number of n bytes.
LEMMA JoinedType ==
  ASSUME NEW n \in Nat, NEW byte, AreBytes(n, byte)
  PROVE  Joined(n, byte) \in 0 .. B(n) - 1
<1>1. PICK part : Parts(n, byte, part)
  BY PartsExist
<1>2. /\ Joined(n, byte) = part[n] /\ part[0] = 0
      /\ \A k \in 0 .. n - 1 : part[k + 1] = part[k] * B(1) + byte[k]
  BY <1>1 DEF Parts
<1> DEFINE S == {k \in Nat : k <= n => part[k] \in 0 .. B(k) - 1}
<1>3. 0 \in S
  <2>1. part[0] \in 0 .. B(0) - 1
    BY <1>2, Units
  <2> QED BY <2>1
<1>4. ASSUME NEW k \in Nat, k \in S PROVE k + 1 \in S
  <2> SUFFICES ASSUME k + 1 <= n PROVE part[k + 1] \in 0 .. B(k + 1) - 1
    OBVIOUS
  <2>1. k \in 0 .. n - 1 /\ part[k] \in 0 .. B(k) - 1
    BY <1>4
  <2>2. part[k + 1] = part[k] * B(1) + byte[k] /\ byte[k] \in 0 .. B(1) - 1
    BY <1>2, <2>1 DEF AreBytes, Byte
  <2>3. B(k + 1) = B(k) * B(1) /\ B(k) \in Nat \ {0} /\ B(1) \in Nat \ {0}
    BY Units
  <2> DEFINE x == part[k]  b == byte[k]  d == B(k)  e == B(1)
  <2>4. x \in 0 .. d - 1 /\ b \in 0 .. e - 1 /\ d \in Nat \ {0} /\ e \in Nat \ {0}
    BY <2>1, <2>2, <2>3
  <2>5. part[k + 1] = x * e + b /\ B(k + 1) = d * e
    BY <2>2, <2>3
  <2> HIDE DEF x, b, d, e
  <2>6. x * e + b \in 0 .. d * e - 1
    <3>1. x + 1 <= d /\ (x + 1) * e = x * e + e
      BY <2>4
    <3>2. (x + 1) * e <= d * e /\ x * e \in Nat /\ d * e \in Nat
      BY <2>4, <3>1
    <3> QED BY <2>4, <3>1, <3>2
  <2> QED BY <2>5, <2>6
<1> HIDE DEF S
<1>5. n \in S
  BY <1>3, <1>4, InductionOn
<1> QED BY <1>2, <1>5 DEF S

\* The bytes of a word one after the other.
LEMMA JoinedFew ==
  ASSUME NEW byte
  PROVE  /\ AreBytes(1, byte) => Joined(1, byte) = byte[0]
         /\ AreBytes(2, byte) => Joined(2, byte) = byte[0] * B(1) + byte[1]
         /\ AreBytes(4, byte) => Joined(4, byte) = ((byte[0] * B(1) + byte[1]) * B(1) + byte[2]) * B(1) + byte[3]
<1> DEFINE e == B(1)
<1>0. e \in Nat \ {0}
  BY UnitAt
<1>1. ASSUME AreBytes(1, byte) PROVE Joined(1, byte) = byte[0]
  <2>1. PICK part : Parts(1, byte, part)
    BY <1>1, PartsExist
  <2>2. Joined(1, byte) = part[0 + 1] /\ part[0] = 0 /\ part[0 + 1] = part[0] * e + byte[0]
    BY <2>1 DEF Parts
  <2>3. byte[0] \in Nat
    <3>1. \A k \in 0 .. 1 - 1 : byte[k] \in Nat
      BY <1>1, ByteIsNat DEF AreBytes
    <3> QED BY <3>1
  <2> HIDE DEF e
  <2> QED BY <1>0, <2>2, <2>3
<1>2. ASSUME AreBytes(2, byte) PROVE Joined(2, byte) = byte[0] * e + byte[1]
  <2>1. PICK part : Parts(2, byte, part)
    BY <1>2, PartsExist
  <2>2. /\ Joined(2, byte) = part[1 + 1] /\ part[0] = 0 /\ part[0 + 1] = part[0] * e + byte[0]
        /\ part[1 + 1] = part[1] * e + byte[1]
    BY <2>1 DEF Parts
  <2>3. byte[0] \in Nat /\ byte[1] \in Nat
    <3>1. \A k \in 0 .. 2 - 1 : byte[k] \in Nat
      BY <1>2, ByteIsNat DEF AreBytes
    <3> QED BY <3>1
  <2> HIDE DEF e
  <2> QED BY <1>0, <2>2, <2>3
<1>4. ASSUME AreBytes(4, byte) PROVE Joined(4, byte) = ((byte[0] * e + byte[1]) * e + byte[2]) * e + byte[3]
  <2>1. PICK part : Parts(4, byte, part)
    BY <1>4, PartsExist
  <2>2. /\ Joined(4, byte) = part[3 + 1] /\ part[0] = 0 /\ part[0 + 1] = part[0] * e + byte[0]
        /\ part[1 + 1] = part[1] * e + byte[1] /\ part[2 + 1] = part[2] * e + byte[2]
        /\ part[3 + 1] = part[3] * e + byte[3]
    BY <2>1 DEF Parts
  <2>3. byte[0] \in Nat /\ byte[1] \in Nat /\ byte[2] \in Nat /\ byte[3] \in Nat
    <3>1. \A k \in 0 .. 4 - 1 : byte[k] \in Nat
      BY <1>4, ByteIsNat DEF AreBytes
    <3> QED BY <3>1
  <2> HIDE DEF e
  <2>4. part[1] = byte[0]
    BY <1>0, <2>2, <2>3
  <2>5. part[2] = byte[0] * e + byte[1]
    BY <2>2, <2>4
  <2>6. part[3] = (byte[0] * e + byte[1]) * e + byte[2]
    BY <2>2, <2>5
  <2> QED BY <2>2, <2>6
<1> QED BY <1>1, <1>2, <1>4

\* What the host reads is a number of the access's width.
LEMMA HostType ==
  ASSUME NEW S, NEW mem \in ByteMem(S), NEW x \in Int, NEW n \in Nat, x .. x + n - 1 \subseteq S
  PROVE  Host(mem, x, n) \in 0 .. B(n) - 1
<1> DEFINE byte == [k \in 0 .. n - 1 |-> mem[x + n - 1 - k]]
<1>1. AreBytes(n, byte)
  <2> SUFFICES ASSUME NEW k \in 0 .. n - 1 PROVE mem[x + n - 1 - k] \in Byte
    BY DEF AreBytes
  <2>1. x + n - 1 - k \in x .. x + n - 1
    OBVIOUS
  <2> QED BY <2>1 DEF ByteMem
<1> HIDE DEF byte
<1>2. Joined(n, byte) \in 0 .. B(n) - 1
  BY <1>1, JoinedType
<1> QED BY <1>2 DEF Host, byte

\* One byte reads as itself.
LEMMA HostOne ==
  ASSUME NEW S, NEW mem \in ByteMem(S), NEW x \in S, x \in Int
  PROVE  Host(mem, x, 1) = mem[x]
<1> DEFINE byte == [k \in 0 .. 1 - 1 |-> mem[x + 1 - 1 - k]]
<1>1. byte[0] = mem[x]
  OBVIOUS
<1>2. AreBytes(1, byte)
  BY DEF AreBytes, ByteMem
<1> HIDE DEF byte
<1>3. Joined(1, byte) = mem[x]
  BY <1>1, <1>2, JoinedFew
<1> QED BY <1>3 DEF Host, byte

\* What a DMEM access returns.
LEMMA DmemReadType ==
  ASSUME NEW mem \in ByteMem(0 .. 3), NEW o \in Int, NEW n \in Nat
  PROVE  DmemRead(mem, o, n) \in 0 .. B(n) - 1
<1> DEFINE byte == [k \in 0 .. n - 1 |-> mem[(o + k) % 4]]
<1>1. AreBytes(n, byte)
  BY DEF AreBytes, ByteMem
<1> HIDE DEF byte
<1>2. Joined(n, byte) \in 0 .. B(n) - 1
  BY <1>1, JoinedType
<1> QED BY <1>2 DEF DmemRead, byte

(***************************************************************************)
(* Well-formed machines                                                    *)
(***************************************************************************)

Values == 0 .. B(8) - 1
Cells == 0 .. RamSize - 1
Machine(nx, ex) ==
    [gpr : [1 .. LastReg -> Values], hi : Values, lo : Values, ram : ByteMem(Cells),
     dmem : ByteMem(0 .. 3), reg : Values, c0 : Values, ll : BOOLEAN, next : {nx}, exc : {ex}]
Typed(m) == m \in Machine(m.next, m.exc)

\* Values are numbers, small ones included.
LEMMA ValuesAre ==
  /\ B(8) \in Nat \ {0, 1}
  /\ Values = 0 .. B(8) - 1
  /\ \A n \in 1 .. 8 : \A v \in 0 .. B(n) - 1 : v \in Values
  /\ \A v \in Int : Low(v, 8) \in Values /\ \A n \in Nat \ {0} : Sext(v, n) \in Values
<1>1. B(8) \in Nat \ {0} /\ B(8) = 2 * (B(8) \div 2) /\ B(8) \div 2 \in Nat
  BY Units
<1>2. B(8) \in Nat \ {0, 1}
  BY <1>1
<1>3. ASSUME NEW n \in 1 .. 8, NEW v \in 0 .. B(n) - 1 PROVE v \in Values
  <2>0. n \in Nat \ {0} /\ n <= 8
    OBVIOUS
  <2>1. B(n) <= B(8) /\ B(n) \in Nat
    BY <2>0, UnitOrder
  <2> QED BY <1>1, <2>1 DEF Values
<1>4. ASSUME NEW v \in Int PROVE Low(v, 8) \in Values
  BY LowRange DEF Values
<1>5. ASSUME NEW v \in Int, NEW n \in Nat \ {0} PROVE Sext(v, n) \in Values
  BY SextType DEF Values
<1> QED BY <1>2, <1>3, <1>4, <1>5 DEF Values

\* The fields of a well-formed machine.
LEMMA Fields ==
  ASSUME NEW m, Typed(m)
  PROVE  /\ m.gpr \in [1 .. LastReg -> Values] /\ m.hi \in Values /\ m.lo \in Values
         /\ m.ram \in ByteMem(Cells) /\ m.dmem \in ByteMem(0 .. 3)
         /\ m.reg \in Values /\ m.c0 \in Values /\ m.ll \in BOOLEAN
  BY DEF Typed, Machine

\* Registers hold values.
LEMMA ReadType ==
  ASSUME NEW m, Typed(m), NEW r \in 0 .. LastReg
  PROVE  Read(m, r) \in Values
<1>1. LastReg \in Nat
  BY IsaAssumption
<1>2. 0 \in Values
  BY ValuesAre
<1>3. r # 0 => r \in 1 .. LastReg
  BY <1>1
<1> QED BY <1>2, <1>3, Fields DEF Read

\* Writing a register keeps the machine well-formed.
LEMMA WriteType ==
  ASSUME NEW m, Typed(m), NEW r \in 0 .. LastReg, NEW v \in Values
  PROVE  Typed(Write(m, r, v))
<1>1. CASE r = 0
  BY <1>1 DEF Write
<1>2. CASE r # 0
  <2>1. [m EXCEPT !.gpr[r] = v] \in Machine(m.next, m.exc)
    BY DEF Typed, Machine
  <2>2. [m EXCEPT !.gpr[r] = v].next = m.next /\ [m EXCEPT !.gpr[r] = v].exc = m.exc
    BY DEF Typed, Machine
  <2> QED BY <1>2, <2>1, <2>2 DEF Write, Typed
<1> QED BY <1>1, <1>2

\* So do the other updates of a handler.
LEMMA UpdateTypes ==
  ASSUME NEW m, Typed(m)
  PROVE  /\ \A h, l \in Values : Typed(SetHiLo(m, h, l))
         /\ \A x : Typed([m EXCEPT !.next = x]) /\ Typed(Except(m, x))
         /\ \A b \in BOOLEAN : Typed([m EXCEPT !.ll = b])
         /\ \A v \in Values : /\ Typed([m EXCEPT !.c0 = v]) /\ Typed([m EXCEPT !.reg = v])
                              /\ Typed([m EXCEPT !.hi = v]) /\ Typed([m EXCEPT !.lo = v])
         /\ \A mem \in ByteMem(Cells) : Typed([m EXCEPT !.ram = mem])
         /\ \A mem \in ByteMem(0 .. 3) : Typed([m EXCEPT !.dmem = mem])
<1>1. \A h, l \in Values : Typed(SetHiLo(m, h, l))
  BY DEF Typed, Machine, SetHiLo
<1>2. \A x : Typed([m EXCEPT !.next = x])
  BY DEF Typed, Machine
<1>3. \A x : Typed(Except(m, x))
  BY DEF Typed, Machine, Except
<1>4. \A b \in BOOLEAN : Typed([m EXCEPT !.ll = b])
  BY DEF Typed, Machine
<1>5. \A v \in Values : Typed([m EXCEPT !.c0 = v])
  BY DEF Typed, Machine
<1>6. \A v \in Values : Typed([m EXCEPT !.reg = v])
  BY DEF Typed, Machine
<1>7. \A v \in Values : Typed([m EXCEPT !.hi = v])
  BY DEF Typed, Machine
<1>8. \A v \in Values : Typed([m EXCEPT !.lo = v])
  BY DEF Typed, Machine
<1>9. \A mem \in ByteMem(Cells) : Typed([m EXCEPT !.ram = mem])
  BY DEF Typed, Machine
<1>10. \A mem \in ByteMem(0 .. 3) : Typed([m EXCEPT !.dmem = mem])
  BY DEF Typed, Machine
<1> QED BY <1>1, <1>2, <1>3, <1>4, <1>5, <1>6, <1>7, <1>8, <1>9, <1>10

\* So does linking.
LEMMA LinkType ==
  ASSUME NEW m, Typed(m), NEW r \in 0 .. LastReg
  PROVE  Typed(Link(m, r)) /\ RA \in 0 .. LastReg
<1>1. 4 \in Values
  <2>1. B(8) = B(4) * B(4) /\ B(4) = B(2) * B(2) /\ B(2) = B(1) * B(1)
    <3>1. B(4 + 4) = B(4) * B(4) /\ B(2 + 2) = B(2) * B(2) /\ B(1 + 1) = B(1) * B(1)
      BY Units
    <3> QED BY <3>1
  <2>2. B(1) \in Nat /\ B(1) >= 2
    BY Units
  <2> DEFINE b == B(1)
             c == b * b
             d == c * c
  <2> HIDE DEF b
  <2>3. c \in Nat /\ c >= 4
    BY <2>2 DEF b
  <2> HIDE DEF c
  <2>4. d \in Nat /\ d >= 4
    BY <2>3
  <2> HIDE DEF d
  <2>5. d * d >= 16
    BY <2>4
  <2>6. B(8) = d * d
    BY <2>1 DEF b, c, d
  <2> QED BY <2>5, <2>6, ValuesAre
<1> QED BY <1>1, WriteType, IsaAssumption DEF Link, RA

(***************************************************************************)
(* What the operations return                                              *)
(***************************************************************************)

\* Parts of a number are numbers.
LEMMA Parts4 ==
  ASSUME NEW v \in Int, NEW n \in Nat \ {0}
  PROVE  Low(v, n) \in Nat /\ Low(v, n) < B(n) /\ Sign(v, n) \in Int
<1>1. B(n) \in Nat \ {0}
  BY UnitAt
<1>2. Low(v, n) \in 0 .. B(n) - 1
  BY LowRange
<1>3. Sign(v, n) \in Int
  BY SextType
<1> QED BY <1>1, <1>2, <1>3

\* Sign-extended words are values.
LEMMA WordType == \A v \in Int : Word(v) \in Values
<1> SUFFICES ASSUME NEW v \in Int PROVE Sext(v, 4) \in Values
  BY DEF Word
<1> QED BY SextType DEF Values

\* Double words are values.
LEMMA Low8Type == \A v \in Int : Low(v, 8) \in Values
  BY LowRange DEF Values

\* Additions and subtractions return values.
LEMMA AddSubType ==
  ASSUME NEW op, NEW a \in Values, NEW b \in Values
  PROVE  AddSub(op, a, b) \in Values
<1>1. a \in Int /\ b \in Int
  BY ValuesAre
<1> DEFINE x == Low(a, 4)  y == Low(b, 4)
<1>2. x \in Int /\ y \in Int
  BY <1>1, Parts4
<1> HIDE DEF x, y
<1>3. Word(x + y) \in Values /\ Word(x - y) \in Values
  BY <1>2, WordType
<1>4. Low(a + b, 8) \in Values /\ Low(a - b, 8) \in Values
  <2>1. a + b \in Int /\ a - b \in Int
    BY <1>1
  <2> QED BY <2>1, Low8Type
<1> QED BY <1>3, <1>4 DEF AddSub, x, y

\* Logic operations return values.
LEMMA LogicType ==
  ASSUME NEW a \in Values, NEW b \in Values
  PROVE  a & b \in Values /\ a | b \in Values /\ a ^^ b \in Values /\ Complement(a | b) \in Values
<1>1. 8 * ByteBits \in Nat /\ Values = 0 .. Pow2[8 * ByteBits] - 1
  BY IsaAssumption DEF Values, B
<1>2. a & b \in Values /\ a | b \in Values /\ a ^^ b \in Values
  BY <1>1, BitTypes
<1> DEFINE c == a | b
<1>3. c \in Values
  BY <1>2
<1> HIDE DEF c
<1>4. Complement(c) \in Values
  <2>1. B(8) \in Nat /\ c \in 0 .. B(8) - 1
    BY <1>3, UnitAt DEF Values
  <2>2. B(8) - 1 - c \in 0 .. B(8) - 1
    BY <2>1
  <2> QED BY <2>2 DEF Complement, Values
<1> QED BY <1>2, <1>4 DEF c

\* The constants that handlers write are values.
LEMMA Bits == 0 \in Values /\ 1 \in Values /\ B(8) - 1 \in Values
<1>1. B(8) \in Nat \ {0, 1}
  BY ValuesAre
<1> QED BY <1>1 DEF Values

\* A truth value is a value.
LEMMA OneType == \A p : One(p) \in Values
  BY Bits DEF One

\* Comparisons return values.
LEMMA SetLessType == \A op, a, b : SetLess(op, a, b) \in Values
  BY Bits DEF SetLess, One

\* Shifts return values.
LEMMA ShiftTypes ==
  ASSUME NEW op, NEW v \in Values, NEW s \in Nat
  PROVE  Shift32(op, v, s) \in Values /\ Shift64(op, v, s) \in Values
<1>1. v \in Int /\ v \in Nat
  BY ValuesAre
<1>2. s + WordBits \in Nat
  BY IsaAssumption DEF WordBits
<1>3. ASSUME NEW t \in Nat
      PROVE  /\ v * Pow2[t] \in Int /\ v \div Pow2[t] \in Values
             /\ Low(v, 4) \div Pow2[t] \in Int /\ Sign(v, 8) \div Pow2[t] \in Int
  <2> DEFINE d == Pow2[t]  x == Low(v, 4)  y == Sign(v, 8)
  <2>1. d \in Nat \ {0}
    BY Pow2Type
  <2>2. x \in Int /\ y \in Int
    BY <1>1, Parts4
  <2> HIDE DEF d, x, y
  <2>3. v * d \in Int /\ x \div d \in Int /\ y \div d \in Int
    BY <1>1, <2>1, <2>2
  <2>4. v \div d \in 0 .. v
    BY <1>1, <2>1
  <2>5. v \div d \in Values
    BY <2>4, ValuesAre
  <2> QED BY <2>3, <2>5 DEF d, x, y
<1>4. Shift32(op, v, s) \in Values
  <2>1. Word(v * Pow2[s]) \in Values
    BY <1>3, WordType
  <2>2. Word(Low(v, 4) \div Pow2[s]) \in Values
    BY <1>3, WordType
  <2>3. Word(Sign(v, 8) \div Pow2[s]) \in Values
    BY <1>3, WordType
  <2> QED BY <2>1, <2>2, <2>3 DEF Shift32
<1>5. ASSUME NEW t \in Nat
      PROVE  Low(v * Pow2[t], 8) \in Values /\ v \div Pow2[t] \in Values /\ Low(Sign(v, 8) \div Pow2[t], 8) \in Values
  <2> DEFINE x == v * Pow2[t]  y == Sign(v, 8) \div Pow2[t]
  <2>1. x \in Int /\ y \in Int /\ v \div Pow2[t] \in Values
    BY <1>3
  <2> HIDE DEF x, y
  <2>2. Low(x, 8) \in Values /\ Low(y, 8) \in Values
    BY <2>1, ValuesAre
  <2> QED BY <2>1, <2>2 DEF x, y
<1> DEFINE t == s + WordBits
<1>6. t \in Nat
  BY <1>2
<1> HIDE DEF t
<1>7. Low(v * Pow2[t], 8) \in Values /\ v \div Pow2[t] \in Values /\ Low(Sign(v, 8) \div Pow2[t], 8) \in Values
  BY <1>5, <1>6
<1>8. Shift64(op, v, s) \in Values
  BY <1>5, <1>7 DEF Shift64, t
<1> QED BY <1>4, <1>8

\* Immediate operations return values.
LEMMA ImmediateTypes ==
  ASSUME NEW op, NEW a \in Values, NEW imm \in 0 .. B(2) - 1
  PROVE  Immediate(op, a, imm) \in Values /\ Upper(imm) \in Values /\ imm \in Values /\ imm \in Nat /\ Sext(imm, 2) \in Int
<1>1. a \in Int /\ imm \in Values /\ imm \in Nat
  BY ValuesAre, UnitAt
<1> DEFINE x == Low(a, 4)  y == Sext(imm, 2)
<1>2. x \in Int /\ y \in Int /\ Sign(imm, 2) \in Int
  BY <1>1, Parts4, ValuesAre
<1>3. Word(x + y) \in Values /\ Low(a + y, 8) \in Values
  <2> HIDE DEF x, y
  <2>1. x + y \in Int /\ a + y \in Int
    BY <1>1, <1>2
  <2> QED BY <2>1, WordType, Low8Type
<1>4. Upper(imm) \in Values
  <2> DEFINE u == Sign(imm, 2) * B(2)
  <2>1. u \in Int
    BY <1>2, UnitAt
  <2> HIDE DEF u
  <2>2. Low(u, 8) \in Values
    BY <2>1, ValuesAre
  <2> QED BY <2>2 DEF u, Upper
<1>5. a & imm \in Values /\ a | imm \in Values /\ a ^^ imm \in Values
  BY <1>1, LogicType
<1>6. Immediate(op, a, imm) \in Values
  BY <1>3, <1>5, SetLessType DEF Immediate
<1> QED BY <1>1, <1>2, <1>4, <1>6

\* The truncated quotient and rest of integers are integers.
LEMMA QuotType ==
  ASSUME NEW a \in Int, NEW b \in Int \ {0}
  PROVE  Quot(a, b) \in Int /\ Rest(a, b) \in Int
<1> DEFINE x == IF a < 0 THEN -a ELSE a
           y == IF b < 0 THEN -b ELSE b
           q == x \div y
<1>1. x \in Nat /\ y \in Nat \ {0}
  OBVIOUS
<1> HIDE DEF x, y
<1>2. q \in Int
  BY <1>1
<1>3. Quot(a, b) = IF (a < 0) = (b < 0) THEN q ELSE -q
  BY DEF Quot, x, y
<1> HIDE DEF q
<1>4. Quot(a, b) \in Int
  BY <1>2, <1>3
<1> DEFINE z == Quot(a, b)
<1>6. z \in Int
  BY <1>4
<1> HIDE DEF z
<1>5. a - b * z \in Int
  BY <1>6
<1> QED BY <1>4, <1>5 DEF Rest, z

\* Of natural numbers they are the usual ones.
LEMMA QuotOfNat ==
  ASSUME NEW a \in Nat, NEW b \in Nat \ {0}
  PROVE  Quot(a, b) = a \div b /\ Rest(a, b) = a % b
<1>1. ~(a < 0) /\ ~(b < 0)
  OBVIOUS
<1>2. Quot(a, b) = a \div b
  BY <1>1 DEF Quot
<1>0. a \in Int
  OBVIOUS
<1>3. PICK q \in Int : a \div b = q /\ a = q * b + (a % b)
  BY <1>0, DividedBy
<1> DEFINE r == a % b
<1>4. r \in Int /\ a = q * b + r
  BY <1>3, DividedBy
<1> HIDE DEF r
<1>5. a - b * q = r
  BY <1>4
<1> QED BY <1>2, <1>3, <1>5 DEF Rest, r

\* A word that is not zero has a sign that is not zero.
LEMMA SignNotZero ==
  ASSUME NEW b \in Int, NEW n \in Nat \ {0}, Low(b, n) # 0
  PROVE  Sign(b, n) # 0
<1> DEFINE r == Low(b, n)
           d == B(n)
           h == B(n) \div 2
<1>1. r \in 0 .. d - 1 /\ d \in Nat \ {0} /\ h \in Nat \ {0} /\ r # 0
  BY LowRange, Units
<1>2. Sign(b, n) = IF r >= h THEN r - d ELSE r
  BY DEF Sign
<1> HIDE DEF r, d, h
<1> QED BY <1>1, <1>2

\* Multiplications and divisions leave values in HI and LO.
LEMMA MultDivType ==
  ASSUME NEW m, Typed(m), NEW op, NEW a \in Values, NEW b \in Values, op = "DDIV" => ~DdivStops(a, b)
  PROVE  Typed(MultDiv(m, op, a, b))
<1>1. a \in Int /\ b \in Int /\ a \in Nat /\ b \in Nat
  BY ValuesAre
<1>2. ASSUME NEW h \in Values, NEW l \in Values PROVE Typed(SetHiLo(m, h, l))
  BY UpdateTypes
<1>3. ASSUME NEW p \in Int PROVE Typed(Product(m, p)) /\ Typed(DProduct(m, p))
  <2>1. B(4) \in Nat \ {0} /\ B(8) \in Nat \ {0}
    BY UnitAt
  <2> DEFINE x == p \div B(4)  y == p \div B(8)
  <2>2. x \in Int /\ y \in Int
    BY <2>1
  <2> HIDE DEF x, y
  <2>3. Word(x) \in Values /\ Word(p) \in Values /\ Low(y, 8) \in Values /\ Low(p, 8) \in Values
    BY <2>2, WordType, ValuesAre
  <2> QED BY <1>2, <2>3 DEF Product, DProduct, x, y
<1>4. ASSUME NEW x \in Int, NEW y \in Int \ {0} PROVE Typed(Divided(m, x, y))
  <2>1. Quot(x, y) \in Int /\ Rest(x, y) \in Int
    BY QuotType
  <2>2. Word(Quot(x, y)) \in Values /\ Word(Rest(x, y)) \in Values
    BY <2>1, WordType
  <2> QED BY <1>2, <2>2 DEF Divided
<1> DEFINE a4 == Low(a, 4)  b4 == Low(b, 4)  sa4 == Sign(a, 4)  sb4 == Sign(b, 4)
           sa8 == Sign(a, 8)  sb8 == Sign(b, 8)
<1>5. /\ a4 \in Int /\ b4 \in Int /\ sa4 \in Int /\ sb4 \in Int /\ sa8 \in Int /\ sb8 \in Int
      /\ b4 # 0 => sb4 # 0
  BY <1>1, Parts4, SignNotZero
<1>6. Word(a) \in Values /\ B(8) - 1 \in Values /\ 1 \in Values
  BY <1>1, WordType, Bits
<1> DEFINE P(p) == Typed(Product(m, p)) /\ Typed(DProduct(m, p))
<1>7. P(sa4 * sb4) /\ P(a4 * b4) /\ P(sa8 * sb8) /\ P(a * b)
  <2> HIDE DEF a4, b4, sa4, sb4, sa8, sb8, P
  <2>1. sa4 * sb4 \in Int /\ a4 * b4 \in Int /\ sa8 * sb8 \in Int /\ a * b \in Int
    BY <1>1, <1>5
  <2>2. \A p \in Int : P(p)
    BY <1>3 DEF P
  <2> QED BY <2>1, <2>2
<1>8. CASE op \in {"MULT", "MULTU", "DMULT", "DMULTU"}
  BY <1>7, <1>8 DEF MultDiv
<1>9. CASE op = "DIV"
  <2>1. CASE b4 = 0
    BY <1>2, <1>6, <1>9, <2>1 DEF MultDiv
  <2>2. CASE b4 # 0
    <3>1. Typed(Divided(m, sa4, sb4))
      BY <1>4, <1>5, <2>2
    <3> QED BY <1>9, <2>2, <3>1 DEF MultDiv
  <2> QED BY <2>1, <2>2
<1>10. CASE op = "DIVU"
  <2>1. CASE b4 = 0
    BY <1>2, <1>6, <1>10, <2>1 DEF MultDiv
  <2>2. CASE b4 # 0
    <3>1. Typed(Divided(m, a4, b4))
      BY <1>4, <1>5, <2>2
    <3> QED BY <1>10, <2>2, <3>1 DEF MultDiv
  <2> QED BY <2>1, <2>2
<1>11. CASE op = "DDIV"
  <2>1. b # 0
    BY <1>11 DEF DdivStops
  <2>2. Low(b, 8) = b
    BY LowIs DEF Values
  <2>3. sb8 # 0
    BY <1>1, <2>1, <2>2, SignNotZero
  <2>4. Quot(sa8, sb8) \in Int /\ Rest(sa8, sb8) \in Int
    BY <1>5, <2>3, QuotType
  <2>5. Low(Quot(sa8, sb8), 8) \in Values /\ Low(Rest(sa8, sb8), 8) \in Values
    BY <2>4, ValuesAre
  <2> QED BY <1>2, <1>11, <2>5 DEF MultDiv
<1>12. CASE op \notin {"MULT", "MULTU", "DMULT", "DMULTU", "DIV", "DIVU", "DDIV"}
  <2>1. MultDiv(m, op, a, b) = IF b = 0 THEN SetHiLo(m, a, B(8) - 1) ELSE SetHiLo(m, a % b, a \div b)
    BY <1>12 DEF MultDiv
  <2>2. b # 0 => a % b \in 0 .. b - 1 /\ a \div b \in 0 .. a
    BY <1>1
  <2>3. b # 0 => a % b \in Values /\ a \div b \in Values
    BY <1>1, <2>2, UnitAt DEF Values
  <2> QED BY <1>2, <1>6, <2>1, <2>3
<1> QED BY <1>8, <1>9, <1>10, <1>11, <1>12

(***************************************************************************)
(* Memory                                                                  *)
(***************************************************************************)

Widths == {1, 2, 4, 8}
TlbOK(t) == t \in [0 .. (B(4) \div 2 - 1) \div PageBytes -> Nat \cup {NoPage}]

\* The low part of an integer is a number.
LEMMA LowType ==
  ASSUME NEW v \in Int, NEW n \in Nat \ {0}
  PROVE  Low(v, n) \in 0 .. B(n) - 1
  BY LowRange

\* The width of an access.
LEMMA BytesType == \A op : Bytes(op) \in Widths
  BY DEF Bytes, Widths

\* Every mapped address has a page in the TLB.
LEMMA PageIndex ==
  ASSUME NEW va \in Nat, NEW top \in Nat, va <= top, NEW d \in Nat \ {0}
  PROVE  va \div d \in 0 .. top \div d
<1>0. va \in Int /\ top \in Int
  OBVIOUS
<1>1. PICK q \in Int : va \div d = q /\ va = q * d + (va % d)
  BY <1>0, DividedBy
<1>2. PICK t \in Int : top \div d = t /\ top = t * d + (top % d)
  BY <1>0, DividedBy
<1> DEFINE r == va % d  s == top % d
<1>3. r \in 0 .. d - 1 /\ s \in 0 .. d - 1 /\ va = q * d + r /\ top = t * d + s
  BY <1>1, <1>2, DividedBy
<1> HIDE DEF r, s
<1>4. q >= 0
  <2> SUFFICES ASSUME q <= -1 PROVE FALSE
    OBVIOUS
  <2>1. q * d <= (-1) * d
    OBVIOUS
  <2> QED BY <2>1, <1>3
<1>5. q <= t
  <2> SUFFICES ASSUME t + 1 <= q PROVE FALSE
    OBVIOUS
  <2>1. (t + 1) * d <= q * d /\ (t + 1) * d = t * d + d
    OBVIOUS
  <2> QED BY <2>1, <1>3
<1> QED BY <1>1, <1>2, <1>4, <1>5

\* A resolved address is a number, or none.
LEMMA ResolveType ==
  ASSUME TlbOK(tlbNow), NEW va \in 0 .. B(4) - 1
  PROVE  /\ Resolve(va) \in Nat \cup {NoPage}
         /\ Direct(va) => Resolve(va) \in Nat
<1> DEFINE h == B(4) \div 2
<1>1. h \in Nat \ {0} /\ va \in Nat /\ PageBytes \in Nat \ {0}
  BY Units, IsaAssumption
<1>2. CASE va >= h
  BY <1>1, <1>2 DEF Resolve, Direct
<1>3. CASE va < h
  <2>1. ~Direct(va)
    BY <1>1, <1>3 DEF Direct
  <2> DEFINE top == h - 1
             q == va \div PageBytes
             page == tlbNow[q]
             r == va % PageBytes
  <2>2. top \in Nat /\ va <= top
    BY <1>1, <1>3
  <2>3. q \in 0 .. top \div PageBytes
    <3> HIDE DEF top
    <3> QED BY <1>1, <2>2, PageIndex
  <2>4. page \in Nat \cup {NoPage}
    BY <2>3 DEF TlbOK
  <2>5. r \in Nat
    BY <1>1
  <2>6. Resolve(va) = IF page = NoPage THEN NoPage ELSE page * PageBytes + r
    BY <2>1 DEF Resolve
  <2> HIDE DEF page, r
  <2>7. page # NoPage => page * PageBytes + r \in Nat
    BY <1>1, <2>4, <2>5
  <2> QED BY <2>1, <2>6, <2>7
<1> QED BY <1>1, <1>2, <1>3

\* A virtual address is a number of 32 bits.
LEMMA VaddrType ==
  ASSUME NEW m, Typed(m), NEW i, i.rs \in 0 .. LastReg, i.imm \in 0 .. B(2) - 1
  PROVE  Vaddr(m, i) \in 0 .. B(4) - 1
<1> DEFINE r == i.rs  imm == i.imm  a == Read(m, r)  x == Sext(imm, 2)
<1>1. a \in Int
  <2>1. Read(m, r) \in Values
    BY ReadType
  <2> QED BY <2>1, ValuesAre
<1>2. x \in Int
  <2>1. imm \in Int
    BY UnitAt
  <2> HIDE DEF imm
  <2> QED BY <2>1, SextType, ValuesAre
<1>3. a + x \in Int
  BY <1>1, <1>2
<1>4. Low(a + x, 4) \in 0 .. B(4) - 1
  <2> DEFINE y == a + x
  <2>1. y \in Int
    BY <1>3
  <2> HIDE DEF y
  <2>2. Low(y, 4) \in 0 .. B(4) - 1
    BY <2>1, LowType
  <2> QED BY <2>2 DEF y
<1> QED BY <1>4 DEF Vaddr

\* The host index of an access that RDRAM holds is in RDRAM.
LEMMA HostIndexType ==
  ASSUME NEW p \in Nat, NEW n \in Widths
  PROVE  HostIndex(p, n) \in Nat
<1>1. p ^^ 3 = p - (p % 4) + (3 - (p % 4)) /\ p ^^ 2 = IF p % 4 < 2 THEN p + 2 ELSE p - 2
  BY LaneXor
<1>2. p % 4 \in 0 .. 3 /\ p - (p % 4) \in Nat
  OBVIOUS
<1>3. p ^^ 3 \in Nat /\ p ^^ 2 \in Nat
  BY <1>1, <1>2
<1> QED BY <1>3 DEF HostIndex, Widths

\* What RDRAM returns.
LEMMA RamReadType ==
  ASSUME NEW mem \in ByteMem(Cells), NEW p \in Nat, NEW n \in Widths, p + n <= RamSize, HostIndex(p, n) + n <= RamSize
  PROVE  RamRead(mem, p, n) \in 0 .. B(n) - 1
<1>0. RamSize \in Nat
  BY IsaAssumption
<1>1. CASE n = 8
  <2>1. p .. p + 4 - 1 \subseteq Cells /\ p + 4 .. (p + 4) + 4 - 1 \subseteq Cells
    BY <1>0, <1>1 DEF Cells
  <2>2. Host(mem, p, 4) \in 0 .. B(4) - 1
    BY <2>1, HostType
  <2>3. Host(mem, p + 4, 4) \in 0 .. B(4) - 1
    BY <2>1, HostType
  <2> DEFINE x == Host(mem, p, 4)  y == Host(mem, p + 4, 4)  d == B(4)
  <2>4. d \in Nat \ {0} /\ B(8) = d * d
    <3>1. B(4 + 4) = B(4) * B(4) /\ B(4) \in Nat \ {0}
      BY Units
    <3> QED BY <3>1
  <2>5. x \in 0 .. d - 1 /\ y \in 0 .. d - 1
    BY <2>2, <2>3
  <2> HIDE DEF x, y, d
  <2>6. x * d + y \in 0 .. d * d - 1
    <3>1. (x + 1) * d = x * d + d /\ x + 1 <= d
      BY <2>4, <2>5
    <3>2. (x + 1) * d <= d * d /\ x * d \in Nat /\ d * d \in Nat
      BY <2>4, <2>5, <3>1
    <3> QED BY <2>4, <2>5, <3>1, <3>2
  <2> QED BY <1>1, <2>4, <2>6 DEF RamRead, x, y, d
<1>2. CASE n # 8
  <2> DEFINE x == HostIndex(p, n)
  <2>1. x \in Nat
    BY HostIndexType
  <2>2. x + n <= RamSize /\ n \in Nat
    BY DEF Widths
  <2> HIDE DEF x
  <2>3. x .. x + n - 1 \subseteq Cells
    BY <1>0, <2>1, <2>2 DEF Cells
  <2>4. Host(mem, x, n) \in 0 .. B(n) - 1
    BY <2>1, <2>2, <2>3, HostType
  <2> QED BY <1>2, <2>4 DEF RamRead, x
<1> QED BY <1>1, <1>2

\* What the bus returns.
LEMMA BusReadType ==
  ASSUME NEW m, Typed(m), NEW p \in Nat, NEW n \in Widths, BusTakes(p, n)
  PROVE  BusRead(m, p, n) \in Values
<1>1. n \in 1 .. 8 /\ n \in Nat
  BY DEF Widths
<1>2. CASE Region(p) = "rdram"
  <2>1. RamRead(m.ram, p, n) \in 0 .. B(n) - 1
    BY <1>2, RamReadType, Fields DEF BusTakes
  <2>2. RamRead(m.ram, p, n) \in Values
    BY <1>1, <2>1, ValuesAre
  <2> QED BY <1>2, <2>2 DEF BusRead
<1>3. CASE Region(p) = "dmem"
  <2> DEFINE o == p - DmemBase
  <2>1. o \in Int
    BY IsaAssumption DEF DmemBase
  <2> HIDE DEF o
  <2>2. DmemRead(m.dmem, o, n) \in 0 .. B(n) - 1
    BY <1>1, <2>1, DmemReadType, Fields
  <2>3. DmemRead(m.dmem, o, n) \in Values
    BY <1>1, <2>2, ValuesAre
  <2> QED BY <1>3, <2>3 DEF BusRead, o
<1>4. CASE Region(p) = "device"
  BY <1>4, Fields DEF BusRead
<1> QED BY <1>2, <1>3, <1>4 DEF Region

\* A store keeps RDRAM a memory of bytes.
LEMMA RamWriteType ==
  ASSUME NEW mem \in ByteMem(Cells), NEW p \in Nat, NEW n \in Widths, NEW v \in Int
  PROVE  RamWrite(mem, p, n, v) \in ByteMem(Cells)
<1> DEFINE w == v \div B(4)  x == HostIndex(p, n)  s == Stored(mem, p, 4, w)
<1>1. w \in Int
  BY UnitAt
<1>2. x \in Int
  BY HostIndexType
<1>3. n \in Nat
  BY DEF Widths
<1> HIDE DEF w, x
<1>4. s \in ByteMem(Cells)
  BY <1>1, StoredType
<1> HIDE DEF s
<1>5. Stored(s, p + 4, 4, v) \in ByteMem(Cells)
  BY <1>4, StoredType
<1>6. Stored(mem, x, n, v) \in ByteMem(Cells)
  BY <1>2, <1>3, StoredType
<1> QED BY <1>5, <1>6 DEF RamWrite, s, w, x

\* A store over the bus keeps the machine well-formed.
LEMMA BusWriteType ==
  ASSUME NEW m, Typed(m), NEW p \in Nat, NEW n \in Widths, NEW v \in Int
  PROVE  Typed(BusWrite(m, p, n, v))
<1>1. CASE Region(p) = "rdram"
  <2>1. RamWrite(m.ram, p, n, v) \in ByteMem(Cells)
    BY RamWriteType, Fields
  <2> QED BY <1>1, <2>1, UpdateTypes DEF BusWrite
<1>2. CASE Region(p) = "dmem"
  <2> DEFINE o == p - DmemBase
             l == Low(v, n)
             w == DmemWord(o, n, l)
             mem == [j \in 0 .. 3 |-> (w \div B(3 - j)) % B(1)]
  <2>1. o \in Int
    BY IsaAssumption DEF DmemBase
  <2>2. l \in Int
    BY Parts4 DEF Widths
  <2> HIDE DEF o, l
  <2>3. w \in Int
    <3> DEFINE k == 3 - (o % 4)
    <3>1. k \in Nat
      BY <2>1
    <3> HIDE DEF k
    <3>2. B(k) \in Int /\ B(2) \in Int
      BY <3>1, UnitAt
    <3>3. l * B(k) \in Int /\ l * B(2) \in Int
      BY <2>2, <3>2
    <3> QED BY <2>2, <3>3 DEF DmemWord, k
  <2> HIDE DEF w
  <2>4. ASSUME NEW j \in 0 .. 3 PROVE (w \div B(3 - j)) % B(1) \in Byte
    <3> DEFINE d == B(3 - j)  u == w \div d
    <3>1. d \in Nat \ {0} /\ B(1) \in Nat \ {0}
      <4>1. 3 - j \in Nat
        OBVIOUS
      <4> QED BY <4>1, UnitAt
    <3> HIDE DEF d
    <3>2. u \in Int
      BY <2>3, <3>1
    <3> HIDE DEF u
    <3>3. u % B(1) \in 0 .. B(1) - 1
      BY <3>1, <3>2, DividedBy
    <3> QED BY <3>3 DEF Byte, u, d
  <2>5. mem \in ByteMem(0 .. 3)
    BY <2>4 DEF ByteMem
  <2>6. BusWrite(m, p, n, v) = [m EXCEPT !.dmem = mem]
    BY <1>2 DEF BusWrite, w, l, o
  <2> HIDE DEF mem
  <2> QED BY <2>5, <2>6, UpdateTypes
<1>3. CASE Region(p) = "device"
  <2>0. n \in Nat \ {0} /\ n \in 1 .. 8
    BY DEF Widths
  <2>1. Low(v, n) \in 0 .. B(n) - 1
    BY <2>0, LowType
  <2>2. Low(v, n) \in Values
    BY <2>0, <2>1, ValuesAre
  <2> QED BY <1>3, <2>2, UpdateTypes DEF BusWrite
<1> QED BY <1>1, <1>2, <1>3 DEF Region

\* Values are integers.
LEMMA ValueInt == \A v \in Values : v \in Int /\ v \in Nat
  BY UnitAt DEF Values

\* So is what a register holds.
LEMMA ReadInt ==
  ASSUME NEW m, Typed(m), NEW r \in 0 .. LastReg
  PROVE  Read(m, r) \in Int
  BY ReadType, ValueInt

\* Sign extension returns a value.
LEMMA SextValue ==
  ASSUME NEW v \in Int, NEW n \in Nat \ {0}
  PROVE  Sext(v, n) \in Values
  BY SextType DEF Values

\* So does the extension of a load.
LEMMA ExtendType ==
  ASSUME NEW op, NEW v \in Values
  PROVE  Extend(op, v) \in Values
<1>1. v \in Int /\ Bytes(op) \in Nat \ {0}
  <2>1. Bytes(op) \in Widths
    BY BytesType
  <2> QED BY <2>1, ValueInt DEF Widths
<1>2. Sext(v, Bytes(op)) \in Values
  BY <1>1, SextValue
<1> QED BY <1>2 DEF Extend

\* The address of an access.
LEMMA AddressType ==
  ASSUME NEW m, Typed(m), NEW i, Encoded(i), i.op \notin {"J", "JAL"}, TlbOK(tlbNow), Resolve(Vaddr(m, i)) # NoPage
  PROVE  /\ Resolve(Vaddr(m, i)) \in Nat /\ Vaddr(m, i) \in Nat
         /\ \A n \in {4, 8} : Unit(Resolve(Vaddr(m, i)), n) \in Nat
<1> DEFINE va == Vaddr(m, i)  p == Resolve(va)
<1>1. va \in 0 .. B(4) - 1
  BY VaddrType DEF Encoded
<1>2. va \in Nat
  BY <1>1, UnitAt
<1>3. p \in Nat
  <2> HIDE DEF va
  <2> QED BY <1>1, ResolveType DEF va
<1> HIDE DEF p
<1>4. p - (p % 4) \in Nat /\ p - (p % 8) \in Nat
  BY <1>3
<1> QED BY <1>2, <1>3, <1>4 DEF Unit, p

\* Loads keep the machine well-formed.
LEMMA LoadType ==
  ASSUME NEW m, Typed(m), NEW i, Encoded(i), i.op \notin {"J", "JAL"}, TlbOK(tlbNow),
         Resolve(Vaddr(m, i)) # NoPage => BusTakes(Resolve(Vaddr(m, i)), Bytes(i.op))
  PROVE  Typed(Load(m, i))
<1> DEFINE p == Resolve(Vaddr(m, i))  n == Bytes(i.op)
<1>1. CASE p = NoPage
  BY <1>1, UpdateTypes DEF Load
<1>2. CASE p # NoPage
  <2>1. p \in Nat /\ n \in Widths /\ BusTakes(p, n)
    BY <1>2, AddressType, BytesType
  <2>2. BusRead(m, p, n) \in Values
    <3> HIDE DEF p, n
    <3> QED BY <2>1, BusReadType
  <2>3. Extend(i.op, BusRead(m, p, n)) \in Values
    <3> HIDE DEF p, n
    <3> QED BY <2>2, ExtendType
  <2>4. Typed(Write(m, i.rt, Extend(i.op, BusRead(m, p, n))))
    BY <2>3, WriteType DEF Encoded
  <2> QED BY <1>2, <2>4 DEF Load
<1> QED BY <1>1, <1>2

\* So do stores.
LEMMA StoreType ==
  ASSUME NEW m, Typed(m), NEW i, Encoded(i), i.op \notin {"J", "JAL"}, TlbOK(tlbNow)
  PROVE  Typed(Store(m, i))
<1> DEFINE p == Resolve(Vaddr(m, i))  n == Bytes(i.op)  v == Low(Read(m, i.rt), n)
<1>1. CASE p = NoPage
  BY <1>1, UpdateTypes DEF Store
<1>2. CASE p # NoPage
  <2>1. p \in Nat /\ n \in Widths
    BY <1>2, AddressType, BytesType
  <2>2. v \in Int
    <3>1. n \in Nat \ {0} /\ Read(m, i.rt) \in Int
      BY <2>1, ReadInt DEF Encoded, Widths
    <3> QED BY <3>1, Parts4
  <2>3. Typed(BusWrite(m, p, n, v))
    <3> HIDE DEF p, n, v
    <3> QED BY <2>1, <2>2, BusWriteType
  <2> QED BY <1>2, <2>3 DEF Store
<1> QED BY <1>1, <1>2

\* Merging a register and a word of memory makes a word.
LEMMA KeepTypes ==
  ASSUME NEW old \in Int, NEW new \in Int, NEW n \in {4, 8}, NEW va \in Nat
  PROVE  \A s \in {LeftShift(va, n), RightShift(va, n)} :
            KeepLow(old, new, s, n) \in Int /\ KeepHigh(old, new, s, n) \in Int
<1> SUFFICES ASSUME NEW s \in {LeftShift(va, n), RightShift(va, n)}
    PROVE KeepLow(old, new, s, n) \in Int /\ KeepHigh(old, new, s, n) \in Int
  OBVIOUS
<1>1. s \in Nat /\ n * ByteBits - s \in Nat
  <2>1. PICK k \in 0 .. n : s = ByteBits * k
    <3>1. va % n \in 0 .. n /\ n - 1 - (va % n) \in 0 .. n
      OBVIOUS
    <3> QED BY <3>1 DEF LeftShift, RightShift
  <2>2. ByteBits \in Nat
    BY IsaAssumption
  <2>3. ByteBits * k \in Nat /\ (n - k) * ByteBits \in Nat /\ (n - k) * ByteBits = n * ByteBits - ByteBits * k
    BY <2>2
  <2> QED BY <2>1, <2>3
<1> DEFINE d == Pow2[s]  e == n * ByteBits - s  u == Pow2[e]  l == Low(new, n)
<1>2. d \in Nat \ {0} /\ u \in Nat \ {0} /\ l \in Int
  BY <1>1, Pow2Type, Parts4
<1>3. KeepLow(old, new, s, n) = (old % d) + Low(new * d, n) /\ KeepHigh(old, new, s, n) = (old \div u) * u + (l \div d)
  BY DEF KeepLow, KeepHigh
<1> HIDE DEF d, u, l
<1> DEFINE x == new * d
<1>4. x \in Int
  BY <1>2
<1> HIDE DEF x
<1>5. Low(x, n) \in Int
  BY <1>4, Parts4
<1>6. old % d \in Int /\ old \div u \in Int /\ l \div d \in Int
  BY <1>2
<1> DEFINE y == Low(x, n)  z == old \div u
<1>7. y \in Int /\ z \in Int
  BY <1>5, <1>6
<1>8. KeepLow(old, new, s, n) = (old % d) + y /\ KeepHigh(old, new, s, n) = z * u + (l \div d)
  BY <1>3 DEF x
<1> HIDE DEF y, z
<1>9. (old % d) + y \in Int /\ z * u + (l \div d) \in Int
  BY <1>2, <1>6, <1>7
<1> QED BY <1>8, <1>9

PartBytes(op) == op \in {"LWL", "LWR", "LDL", "LDR", "SWL", "SWR", "SDL", "SDR"}

\* The widths of the unaligned accesses.
LEMMA PartBytesAre == \A op : PartBytes(op) => Bytes(op) \in {4, 8} /\ Bytes(op) \in Widths
  BY DEF Bytes, PartBytes, Widths

\* Unaligned loads keep the machine well-formed.
LEMMA LoadPartType ==
  ASSUME NEW m, Typed(m), NEW i, Encoded(i), PartBytes(i.op), TlbOK(tlbNow),
         Resolve(Vaddr(m, i)) # NoPage => BusTakes(Unit(Resolve(Vaddr(m, i)), Bytes(i.op)), Bytes(i.op))
  PROVE  Typed(LoadPart(m, i))
<1> DEFINE va == Vaddr(m, i)  p == Resolve(va)  n == Bytes(i.op)  u == Unit(p, n)
           old == Low(Read(m, i.rt), n)  data == BusRead(m, u, n)
           x == IF i.op \in {"LWL", "LDL"} THEN KeepLow(old, data, LeftShift(va, n), n)
                ELSE KeepHigh(old, data, RightShift(va, n), n)
<1>1. CASE p = NoPage
  BY <1>1, UpdateTypes DEF LoadPart
<1>2. CASE p # NoPage
  <2>0. i.op \notin {"J", "JAL"}
    BY DEF PartBytes
  <2>1. n \in {4, 8} /\ n \in Widths /\ BusTakes(u, n)
    BY <1>2, PartBytesAre
  <2>2. va \in Nat /\ u \in Nat
    BY <1>2, <2>0, <2>1, AddressType
  <2>3. Typed(m) /\ i.rt \in 0 .. LastReg /\ LoadPart(m, i) = Write(m, i.rt, Sext(x, n))
    BY <1>2 DEF LoadPart, Encoded
  <2>4. old \in Int
    <3>1. Read(m, i.rt) \in Int
      BY <2>3, ReadInt
    <3> QED BY <2>1, <3>1, Parts4
  <2>5. data \in Int
    <3> HIDE DEF u, n
    <3> QED BY <2>1, <2>2, <2>3, BusReadType, ValuesAre
  <2>6. x \in Int
    <3> HIDE DEF va, n, old, data
    <3> QED BY <2>1, <2>2, <2>4, <2>5, KeepTypes
  <2>7. Sext(x, n) \in Values
    <3> HIDE DEF x, n
    <3> QED BY <2>1, <2>6, SextValue
  <2> QED BY <2>3, <2>7, WriteType
<1> QED BY <1>1, <1>2

\* So do unaligned stores.
LEMMA StorePartType ==
  ASSUME NEW m, Typed(m), NEW i, Encoded(i), PartBytes(i.op), TlbOK(tlbNow),
         Resolve(Vaddr(m, i)) # NoPage => BusTakes(Unit(Resolve(Vaddr(m, i)), Bytes(i.op)), Bytes(i.op))
  PROVE  Typed(StorePart(m, i))
<1> DEFINE va == Vaddr(m, i)  p == Resolve(va)  n == Bytes(i.op)  u == Unit(p, n)
           reg == Low(Read(m, i.rt), n)  data == BusRead(m, u, n)
           x == IF i.op \in {"SWL", "SDL"} THEN KeepHigh(data, reg, LeftShift(va, n), n)
                     ELSE KeepLow(data, reg, RightShift(va, n), n)
<1>1. CASE p = NoPage
  BY <1>1, UpdateTypes DEF StorePart
<1>2. CASE p # NoPage
  <2>0. i.op \notin {"J", "JAL"}
    BY DEF PartBytes
  <2>1. n \in {4, 8} /\ n \in Widths /\ BusTakes(u, n)
    BY <1>2, PartBytesAre
  <2>2. va \in Nat /\ u \in Nat
    BY <1>2, <2>0, <2>1, AddressType
  <2>3. Typed(m) /\ i.rt \in 0 .. LastReg /\ StorePart(m, i) = BusWrite(m, u, n, x)
    BY <1>2 DEF StorePart, Encoded
  <2>4. reg \in Int
    <3>1. Read(m, i.rt) \in Int
      BY <2>3, ReadInt
    <3> QED BY <2>1, <3>1, Parts4
  <2>5. data \in Int
    <3> HIDE DEF u, n
    <3> QED BY <2>1, <2>2, <2>3, BusReadType, ValuesAre
  <2>6. x \in Int
    <3> HIDE DEF va, n, reg, data
    <3> QED BY <2>1, <2>2, <2>4, <2>5, KeepTypes
  <2>7. Typed(BusWrite(m, u, n, x))
    <3> HIDE DEF x, n, u
    <3> QED BY <2>1, <2>2, <2>3, <2>6, BusWriteType
  <2> QED BY <2>3, <2>7
<1> QED BY <1>1, <1>2

\* So do LL and SC.
LEMMA LinkedTypes ==
  ASSUME NEW m, Typed(m), NEW i, Encoded(i), i.op \notin {"J", "JAL"}, TlbOK(tlbNow),
         Resolve(Vaddr(m, i)) # NoPage => BusTakes(Resolve(Vaddr(m, i)), Bytes(i.op))
  PROVE  Typed(LoadLinked(m, i)) /\ Typed(StoreConditional(m, i))
<1>1. Typed(LoadLinked(m, i))
  <2> DEFINE x == Load(m, i)
  <2>1. Typed(x)
    BY LoadType
  <2> HIDE DEF x
  <2>2. Typed([x EXCEPT !.ll = TRUE])
    BY <2>1, UpdateTypes
  <2> QED BY <2>1, <2>2 DEF LoadLinked, x
<1>2. Typed(StoreConditional(m, i))
  <2> DEFINE f == [m EXCEPT !.ll = FALSE]
             x == Store(f, i)
  <2>1. Typed(f)
    BY UpdateTypes
  <2> HIDE DEF f
  <2>2. Typed(x)
    BY <2>1, StoreType
  <2>3. StoreConditional(m, i) = IF ~m.ll THEN Write(m, i.rt, 0) ELSE IF x.exc # "none" THEN x ELSE Write(x, i.rt, 1)
    BY DEF StoreConditional, f
  <2> HIDE DEF x
  <2>4. i.rt \in 0 .. LastReg
    BY DEF Encoded
  <2>5. Typed(Write(m, i.rt, 0)) /\ Typed(Write(x, i.rt, 1))
    BY <2>2, <2>4, Bits, WriteType
  <2> QED BY <2>2, <2>3, <2>5
<1> QED BY <1>1, <1>2

(***************************************************************************)
(* Decoding                                                                *)
(***************************************************************************)

\* What the SPECIAL handlers do, group by group.
LEMMA SpecialIs ==
  ASSUME NEW m, NEW i
  PROVE  LET a == Read(m, i.rs)  b == Read(m, i.rt)  sv == a % WordBits IN
         /\ i.op \in AddOps => ExecuteSpecial(m, i) = Write(m, i.rd, AddSub(i.op, a, b))
         /\ i.op \in LogicOps => ExecuteSpecial(m, i) = Write(m, i.rd, Logic(i.op, a, b))
         /\ i.op \in LessOps => ExecuteSpecial(m, i) = Write(m, i.rd, SetLess(i.op, a, b))
         /\ i.op \in ShiftOps => ExecuteSpecial(m, i) = Write(m, i.rd, Shift32(i.op, b, i.sa))
         /\ i.op \in ShiftVOps => ExecuteSpecial(m, i) = Write(m, i.rd, Shift32(i.op, b, sv))
         /\ i.op \in LongShiftOps => ExecuteSpecial(m, i) = Write(m, i.rd, Shift64(i.op, b, i.sa))
         /\ i.op \in WordMulOps \cup LongMulOps => ExecuteSpecial(m, i) = MultDiv(m, i.op, a, b)
         /\ i.op \in HiLoOps => ExecuteSpecial(m, i) = HiLoMove(m, i)
         /\ i.op \in TrapOps => ExecuteSpecial(m, i) = IF Traps(i.op, a, b) THEN Except(m, "trap") ELSE m
         /\ i.op \in {"JR", "JALR"} => ExecuteSpecial(m, i) = JumpRegister(m, i)
         /\ i.op \in {"SYSCALL", "BREAK"} => ExecuteSpecial(m, i) = Except(m, i.op)
         /\ i.op \notin (SpecialOps \ {"SYNC"}) => ExecuteSpecial(m, i) = m
<1> USE DEF ExecuteSpecial, AddOps, LogicOps, LessOps, ShiftOps, ShiftVOps, LongShiftOps, WordMulOps, LongMulOps, HiLoOps, TrapOps
<1>1. i.op \in AddOps => ExecuteSpecial(m, i) = Write(m, i.rd, AddSub(i.op, Read(m, i.rs), Read(m, i.rt)))
  OBVIOUS
<1>2. i.op \in LogicOps => ExecuteSpecial(m, i) = Write(m, i.rd, Logic(i.op, Read(m, i.rs), Read(m, i.rt)))
  OBVIOUS
<1>3. i.op \in LessOps => ExecuteSpecial(m, i) = Write(m, i.rd, SetLess(i.op, Read(m, i.rs), Read(m, i.rt)))
  OBVIOUS
<1>4. i.op \in ShiftOps => ExecuteSpecial(m, i) = Write(m, i.rd, Shift32(i.op, Read(m, i.rt), i.sa))
  OBVIOUS
<1>5. i.op \in ShiftVOps => ExecuteSpecial(m, i) = Write(m, i.rd, Shift32(i.op, Read(m, i.rt), Read(m, i.rs) % WordBits))
  OBVIOUS
<1>6. i.op \in LongShiftOps => ExecuteSpecial(m, i) = Write(m, i.rd, Shift64(i.op, Read(m, i.rt), i.sa))
  OBVIOUS
<1>7. i.op \in WordMulOps \cup LongMulOps => ExecuteSpecial(m, i) = MultDiv(m, i.op, Read(m, i.rs), Read(m, i.rt))
  OBVIOUS
<1>8. i.op \in HiLoOps => ExecuteSpecial(m, i) = HiLoMove(m, i)
  OBVIOUS
<1>9. i.op \in TrapOps => ExecuteSpecial(m, i) = IF Traps(i.op, Read(m, i.rs), Read(m, i.rt)) THEN Except(m, "trap") ELSE m
  OBVIOUS
<1>10. i.op \in {"JR", "JALR"} => ExecuteSpecial(m, i) = JumpRegister(m, i)
  OBVIOUS
<1>11. i.op \in {"SYSCALL", "BREAK"} => ExecuteSpecial(m, i) = Except(m, i.op)
  OBVIOUS
<1>12. i.op \notin (SpecialOps \ {"SYNC"}) => ExecuteSpecial(m, i) = m
  BY DEF SpecialOps
<1> QED BY <1>1, <1>2, <1>3, <1>4, <1>5, <1>6, <1>7, <1>8, <1>9, <1>10, <1>11, <1>12, Zenon

AnyBranch == ZeroOps \cup EqualOps
PlainOps == {"LUI", "ERET", "CACHE", "LL", "LLD", "SC", "SCD", "J", "JAL"}
LoadPartOps == {"LWL", "LWR", "LDL", "LDR"}
StorePartOps == {"SWL", "SWR", "SDL", "SDR"}

\* The instruction groups do not overlap.
OpOf(op) ==
  CASE op \in SpecialOps -> "special"
    [] op \in AnyBranch -> "branch"
    [] op \in {"J", "JAL"} -> "jump"
    [] op \in LoadOps -> "load"
    [] op \in StoreOps -> "store"
    [] op \in LoadPartOps -> "loadpart"
    [] op \in StorePartOps -> "storepart"
    [] op \in {"LL", "LLD"} -> "linked"
    [] op \in {"SC", "SCD"} -> "conditional"
    [] op = "LUI" -> "lui"
    [] op \in ImmOps -> "imm"
    [] op \in Cop0Ops -> "cop0"
    [] op = "ERET" -> "eret"
    [] OTHER -> "other"

Taken(m, i) == IF i.op \in ZeroOps THEN Zeros(i.op, Read(m, i.rs)) ELSE Equals(i.op, Read(m, i.rs), Read(m, i.rt))
Branched(m, i) == Branch(m, Taken(m, i), i.op \in LikelyOps, <<"offset", Sign(i.imm, 2)>>)

\* What every handler does, group by group.
LEMMA ExecuteIs ==
  ASSUME NEW m, NEW i
  PROVE  /\ i.op \in SpecialOps => Execute(m, i) = ExecuteSpecial(m, i)
         /\ i.op \in AnyBranch => Execute(m, i) = IF i.op \in {"BLTZAL", "BGEZAL"} THEN Link(Branched(m, i), RA) ELSE Branched(m, i)
         /\ i.op \in {"J", "JAL"} => Execute(m, i) = Jump(m, i)
         /\ i.op \in LoadOps => Execute(m, i) = Load(m, i)
         /\ i.op \in StoreOps => Execute(m, i) = Store(m, i)
         /\ i.op \in LoadPartOps => Execute(m, i) = LoadPart(m, i)
         /\ i.op \in StorePartOps => Execute(m, i) = StorePart(m, i)
         /\ i.op \in {"LL", "LLD"} => Execute(m, i) = LoadLinked(m, i)
         /\ i.op \in {"SC", "SCD"} => Execute(m, i) = StoreConditional(m, i)
         /\ i.op = "LUI" => Execute(m, i) = Write(m, i.rt, Upper(i.imm))
         /\ i.op \in ImmOps => Execute(m, i) = Write(m, i.rt, Immediate(i.op, Read(m, i.rs), i.imm))
         /\ i.op \in Cop0Ops => Execute(m, i) = Cop0Move(m, i)
         /\ i.op = "ERET" => Execute(m, i) = Eret(m)
         /\ OpOf(i.op) = "other" => Execute(m, i) = m
<1> USE DEF Execute, SpecialOps, AddOps, LogicOps, LessOps, ShiftOps, ShiftVOps, LongShiftOps, WordMulOps, LongMulOps,
            HiLoOps, TrapOps, ZeroOps, EqualOps, LoadOps, StoreOps, ImmOps, Cop0Ops, AnyBranch, LoadPartOps, StorePartOps
<1>1. i.op \in SpecialOps => Execute(m, i) = ExecuteSpecial(m, i)
  OBVIOUS
<1>2. i.op \in AnyBranch => Execute(m, i) = IF i.op \in {"BLTZAL", "BGEZAL"} THEN Link(Branched(m, i), RA) ELSE Branched(m, i)
  BY DEF Branched, Taken
<1>3. i.op \in {"J", "JAL"} => Execute(m, i) = Jump(m, i)
  OBVIOUS
<1>4. i.op \in LoadOps => Execute(m, i) = Load(m, i)
  OBVIOUS
<1>5. i.op \in StoreOps => Execute(m, i) = Store(m, i)
  OBVIOUS
<1>6. i.op \in LoadPartOps => Execute(m, i) = LoadPart(m, i)
  OBVIOUS
<1>7. i.op \in StorePartOps => Execute(m, i) = StorePart(m, i)
  OBVIOUS
<1>8. i.op \in {"LL", "LLD"} => Execute(m, i) = LoadLinked(m, i)
  OBVIOUS
<1>9. i.op \in {"SC", "SCD"} => Execute(m, i) = StoreConditional(m, i)
  OBVIOUS
<1>10. i.op = "LUI" => Execute(m, i) = Write(m, i.rt, Upper(i.imm))
  OBVIOUS
<1>11. i.op \in ImmOps => Execute(m, i) = Write(m, i.rt, Immediate(i.op, Read(m, i.rs), i.imm))
  OBVIOUS
<1>12. i.op \in Cop0Ops => Execute(m, i) = Cop0Move(m, i)
  OBVIOUS
<1>13. i.op = "ERET" => Execute(m, i) = Eret(m)
  OBVIOUS
<1>14. OpOf(i.op) = "other" => Execute(m, i) = m
  BY DEF OpOf
<1> QED BY <1>1, <1>2, <1>3, <1>4, <1>5, <1>6, <1>7, <1>8, <1>9, <1>10, <1>11, <1>12, <1>13, <1>14, Zenon

\* Exceptions keep the machine well-formed.
LEMMA ExceptType ==
  ASSUME NEW m, Typed(m), NEW code
  PROVE  Typed(Except(m, code))
  BY UpdateTypes

\* The link register is a register.
LEMMA RAType == RA \in 0 .. LastReg
  BY IsaAssumption DEF RA

\* Branches keep the machine well-formed.
LEMMA BranchType ==
  ASSUME NEW m, Typed(m), NEW taken, NEW likely, NEW to
  PROVE  Typed(Branch(m, taken, likely, to))
  BY UpdateTypes DEF Branch

\* What Sensible says of an access.
LEMMA SensibleAccess ==
  ASSUME NEW m, NEW i, Sensible(m, i)
  PROVE  /\ i.op \in LoadOps \cup StoreOps \cup {"LL", "LLD", "SC", "SCD"} =>
              /\ i.op \notin {"J", "JAL"}
              /\ Resolve(Vaddr(m, i)) # NoPage => BusTakes(Resolve(Vaddr(m, i)), Bytes(i.op))
         /\ i.op \in LoadPartOps \cup StorePartOps =>
              /\ PartBytes(i.op)
              /\ Resolve(Vaddr(m, i)) # NoPage => BusTakes(Unit(Resolve(Vaddr(m, i)), Bytes(i.op)), Bytes(i.op))
         /\ i.op = "DDIV" => ~DdivStops(Read(m, i.rs), Read(m, i.rt))
<1> DEFINE p == Resolve(Vaddr(m, i))  n == Bytes(i.op)
<1>1. /\ (i.op \in MemoryOps /\ p # NoPage) => BusTakes(IF i.op \in PartOps THEN Unit(p, n) ELSE p, n)
      /\ i.op = "DDIV" => ~DdivStops(Read(m, i.rs), Read(m, i.rt))
  BY DEF Sensible
<1>2. i.op \in LoadOps \cup StoreOps \cup {"LL", "LLD", "SC", "SCD"} => i.op \in MemoryOps /\ i.op \notin PartOps /\ i.op \notin {"J", "JAL"}
  BY DEF MemoryOps, PartOps, LoadOps, StoreOps, WordPartOps, LongPartOps
<1>3. i.op \in LoadPartOps \cup StorePartOps => i.op \in MemoryOps /\ i.op \in PartOps /\ PartBytes(i.op)
  BY DEF MemoryOps, PartOps, LoadPartOps, StorePartOps, WordPartOps, LongPartOps, PartBytes
<1> HIDE DEF p, n
<1>4. i.op \in LoadOps \cup StoreOps \cup {"LL", "LLD", "SC", "SCD"} /\ p # NoPage => BusTakes(p, n)
  BY <1>1, <1>2
<1>5. i.op \in LoadPartOps \cup StorePartOps /\ p # NoPage => BusTakes(Unit(p, n), n)
  BY <1>1, <1>3
<1> QED BY <1>1, <1>2, <1>3, <1>4, <1>5 DEF p, n

\* So do the SPECIAL handlers.
LEMMA SpecialType ==
  ASSUME NEW m, Typed(m), NEW i, Encoded(i), Sensible(m, i), i.op \in SpecialOps
  PROVE  Typed(ExecuteSpecial(m, i))
<1> DEFINE a == Read(m, i.rs)  b == Read(m, i.rt)  sv == a % WordBits  x == ExecuteSpecial(m, i)
<1>1. a \in Values /\ b \in Values /\ i.rd \in 0 .. LastReg /\ i.sa \in Nat
  BY ReadType DEF Encoded
<1>2. sv \in Nat
  <2>1. a \in Int
    BY <1>1, ValueInt
  <2>2. WordBits \in Nat \ {0}
    BY IsaAssumption DEF WordBits
  <2> HIDE DEF a
  <2> QED BY <2>1, <2>2
<1>3. ASSUME NEW v \in Values PROVE Typed(Write(m, i.rd, v))
  BY <1>1, WriteType
<1>h. i.op = "DDIV" => ~DdivStops(a, b)
  BY SensibleAccess
<1> HIDE DEF a, b, sv, x
<1>4. CASE i.op \in AddOps
  BY <1>1, <1>3, <1>4, AddSubType, SpecialIs DEF x, a, b
<1>5. CASE i.op \in LogicOps
  <2>1. Logic(i.op, a, b) \in Values
    BY <1>1, LogicType DEF Logic
  <2> QED BY <1>3, <1>5, <2>1, SpecialIs DEF x, a, b
<1>6. CASE i.op \in LessOps
  BY <1>1, <1>3, <1>6, SetLessType, SpecialIs DEF x, a, b
<1>7. CASE i.op \in ShiftOps
  <2>1. Shift32(i.op, b, i.sa) \in Values
    BY <1>1, ShiftTypes
  <2> QED BY <1>3, <1>7, <2>1, SpecialIs DEF x, a, b
<1>8. CASE i.op \in ShiftVOps
  <2>1. Shift32(i.op, b, sv) \in Values
    BY <1>1, <1>2, ShiftTypes
  <2> QED BY <1>3, <1>8, <2>1, SpecialIs DEF x, a, b, sv
<1>9. CASE i.op \in LongShiftOps
  <2>1. Shift64(i.op, b, i.sa) \in Values
    BY <1>1, ShiftTypes
  <2> QED BY <1>3, <1>9, <2>1, SpecialIs DEF x, a, b
<1>10. CASE i.op \in WordMulOps \cup LongMulOps
  <2>1. Typed(MultDiv(m, i.op, a, b))
    BY <1>1, <1>h, MultDivType
  <2> QED BY <1>10, <2>1, SpecialIs DEF x, a, b
<1>11. CASE i.op \in HiLoOps
  <2>1. Typed(HiLoMove(m, i))
    <3>1. m.hi \in Values /\ m.lo \in Values
      BY Fields
    <3>2. Typed([m EXCEPT !.hi = a]) /\ Typed([m EXCEPT !.lo = a])
      BY <1>1, UpdateTypes
    <3> QED BY <1>3, <3>1, <3>2 DEF HiLoMove, a
  <2> QED BY <1>11, <2>1, SpecialIs DEF x
<1>12. CASE i.op \in TrapOps
  <2>1. Typed(Except(m, "trap"))
    BY ExceptType
  <2> QED BY <1>12, <2>1, SpecialIs DEF x
<1>13. CASE i.op \in {"JR", "JALR"}
  <2>1. Typed(JumpRegister(m, i))
    <3>1. Typed(Branch(m, TRUE, FALSE, <<"at", a>>))
      BY BranchType
    <3>2. Typed(Link(Branch(m, TRUE, FALSE, <<"at", a>>), i.rd))
      BY <1>1, <3>1, LinkType
    <3> QED BY <3>1, <3>2 DEF JumpRegister, a
  <2> QED BY <1>13, <2>1, SpecialIs DEF x
<1>14. CASE i.op \in {"SYSCALL", "BREAK"}
  <2>1. Typed(Except(m, i.op))
    BY ExceptType
  <2> QED BY <1>14, <2>1, SpecialIs DEF x
<1>15. CASE i.op = "SYNC"
  <2>1. i.op \notin (SpecialOps \ {"SYNC"})
    BY <1>15
  <2> QED BY <2>1, SpecialIs DEF x
<1> QED BY <1>4, <1>5, <1>6, <1>7, <1>8, <1>9, <1>10, <1>11, <1>12, <1>13, <1>14, <1>15 DEF SpecialOps, x

\* So does every instruction of the interpreter.
LEMMA ExecuteType ==
  ASSUME NEW m, Typed(m), NEW i, Encoded(i), Sensible(m, i), TlbOK(tlbNow)
  PROVE  Typed(Execute(m, i))
<1> DEFINE x == Execute(m, i)
<1> HIDE DEF x
<1>0. i.rt \in 0 .. LastReg /\ i.rs \in 0 .. LastReg
  BY DEF Encoded
<1>1. CASE i.op \in SpecialOps
  BY <1>1, SpecialType, ExecuteIs DEF x
<1>2. CASE i.op \in AnyBranch
  <2>1. Typed(Branched(m, i))
    BY BranchType DEF Branched
  <2>2. Typed(Link(Branched(m, i), RA))
    BY <2>1, RAType, LinkType
  <2> QED BY <1>2, <2>1, <2>2, ExecuteIs DEF x
<1>3. CASE i.op \in {"J", "JAL"}
  <2>1. Typed(Branch(m, TRUE, FALSE, <<"region", i.imm>>))
    BY BranchType
  <2>2. Typed(Link(m, RA))
    BY RAType, LinkType
  <2>3. Typed(Branch(Link(m, RA), TRUE, FALSE, <<"region", i.imm>>))
    BY <2>2, BranchType
  <2> QED BY <1>3, <2>1, <2>3, ExecuteIs DEF x, Jump
<1>4. CASE i.op \in LoadOps
  <2>1. Typed(Load(m, i))
    BY <1>4, SensibleAccess, LoadType
  <2> QED BY <1>4, <2>1, ExecuteIs DEF x
<1>5. CASE i.op \in StoreOps
  <2>1. Typed(Store(m, i))
    BY <1>5, SensibleAccess, StoreType
  <2> QED BY <1>5, <2>1, ExecuteIs DEF x
<1>6. CASE i.op \in LoadPartOps
  <2>1. Typed(LoadPart(m, i))
    BY <1>6, SensibleAccess, LoadPartType
  <2> QED BY <1>6, <2>1, ExecuteIs DEF x
<1>7. CASE i.op \in StorePartOps
  <2>1. Typed(StorePart(m, i))
    BY <1>7, SensibleAccess, StorePartType
  <2> QED BY <1>7, <2>1, ExecuteIs DEF x
<1>8. CASE i.op \in {"LL", "LLD"}
  <2>1. Typed(LoadLinked(m, i))
    BY <1>8, SensibleAccess, LinkedTypes
  <2> QED BY <1>8, <2>1, ExecuteIs DEF x
<1>9. CASE i.op \in {"SC", "SCD"}
  <2>1. Typed(StoreConditional(m, i))
    BY <1>9, SensibleAccess, LinkedTypes
  <2> QED BY <1>9, <2>1, ExecuteIs DEF x
<1>10. CASE i.op = "LUI"
  <2>1. Upper(i.imm) \in Values
    <3>1. i.imm \in 0 .. B(2) - 1
      BY <1>10 DEF Encoded
    <3> QED BY <3>1, Bits, ImmediateTypes
  <2> QED BY <1>0, <1>10, <2>1, WriteType, ExecuteIs DEF x
<1>11. CASE i.op \in ImmOps
  <2>1. i.imm \in 0 .. B(2) - 1
    BY <1>11 DEF Encoded, ImmOps
  <2>2. Read(m, i.rs) \in Values
    BY <1>0, ReadType
  <2>3. Immediate(i.op, Read(m, i.rs), i.imm) \in Values
    BY <2>1, <2>2, ImmediateTypes
  <2> QED BY <1>0, <1>11, <2>3, WriteType, ExecuteIs DEF x
<1>12. CASE i.op \in Cop0Ops
  <2> DEFINE b == Read(m, i.rt)
  <2>1. b \in Values /\ m.c0 \in Values
    BY <1>0, ReadType, Fields
  <2> HIDE DEF b
  <2>2. Word(m.c0) \in Values /\ Low(b, 4) \in Values
    <3>1. b \in Int /\ m.c0 \in Int
      BY <2>1, ValueInt
    <3>2. Low(b, 4) \in 0 .. B(4) - 1
      BY <3>1, LowType
    <3>3. 4 \in 1 .. 8
      OBVIOUS
    <3> QED BY <3>1, <3>2, <3>3, WordType, ValuesAre
  <2>3. Typed(Write(m, i.rt, Word(m.c0))) /\ Typed(Write(m, i.rt, m.c0))
    BY <1>0, <2>1, <2>2, WriteType
  <2>4. Typed([m EXCEPT !.c0 = Low(b, 4)]) /\ Typed([m EXCEPT !.c0 = b])
    BY <2>1, <2>2, UpdateTypes
  <2>5. Typed(Cop0Move(m, i))
    BY <2>3, <2>4 DEF Cop0Move, b
  <2> QED BY <1>12, <2>5, ExecuteIs DEF x
<1>13. CASE i.op = "ERET"
  <2> DEFINE y == [m EXCEPT !.ll = FALSE]
  <2>1. Typed(y)
    BY UpdateTypes
  <2>2. Typed(m) /\ [m EXCEPT !.ll = FALSE, !.next = "epc"] = [y EXCEPT !.next = "epc"]
    BY DEF Typed, Machine
  <2> HIDE DEF y
  <2>3. Typed([y EXCEPT !.next = "epc"])
    BY <2>1, UpdateTypes
  <2> QED BY <1>13, <2>2, <2>3, ExecuteIs DEF x, Eret
<1>14. CASE OpOf(i.op) = "other"
  BY <1>14, ExecuteIs DEF x
<1> QED BY <1>1, <1>2, <1>3, <1>4, <1>5, <1>6, <1>7, <1>8, <1>9, <1>10, <1>11, <1>12, <1>13, <1>14 DEF OpOf, x

(***************************************************************************)
(* The emitted code against the handlers                                   *)
(***************************************************************************)

\* What the emitted code does, group by group.
LEMMA EmittedIs ==
  ASSUME NEW m, NEW i, NEW soft
  PROVE  LET a == Read(m, i.rs)  b == Read(m, i.rt) IN
         /\ i.op \in {"SYNC", "CACHE"} => Emitted(m, i, soft) = m
         /\ i.op \in {"ADD", "ADDU", "SUB", "SUBU"} => Emitted(m, i, soft) = Write(m, i.rd, JitAlu32(i.op, a, b))
         /\ i.op \in {"DADD", "DADDU"} => Emitted(m, i, soft) = Write(m, i.rd, Low(a + b, 8))
         /\ i.op \in {"DSUB", "DSUBU"} => Emitted(m, i, soft) = Write(m, i.rd, Low(a - b, 8))
         /\ i.op \in LogicOps => Emitted(m, i, soft) = Write(m, i.rd, JitLogic(i.op, b, a))
         /\ i.op \in LessOps => Emitted(m, i, soft) = Write(m, i.rd, JitLess(i.op, a, b))
         /\ i.op \in ShiftOps \cup LongShiftOps => Emitted(m, i, soft) = Write(m, i.rd, JitShiftSa(i.op, b, i.sa))
         /\ i.op \in ShiftVOps => Emitted(m, i, soft) = Write(m, i.rd, JitShiftV(i.op, a, b))
         /\ i.op \in ImmOps \cup {"LUI"} => Emitted(m, i, soft) = Write(m, i.rt, JitImm(Kind(i.op), a, i.imm))
         /\ i.op \in WordMulOps => Emitted(m, i, soft) = JitMultDiv(m, i.op, a, b)
         /\ i.op \in HiLoOps => Emitted(m, i, soft) = HiLoMove(m, i)
         /\ i.op \in {"JR", "JALR", "J", "JAL"} => Emitted(m, i, soft) = JitJump(m, i)
         /\ i.op \in AnyBranch => Emitted(m, i, soft) = JitBranch(m, i)
         /\ i.op \in Cop0Ops => Emitted(m, i, soft) = JitCop0(m, i)
         /\ i.op \in LoadOps \cup StoreOps \cup WordPartOps => Emitted(m, i, soft) = JitMemory(m, i, soft)
<1> USE DEF Emitted, Kind, SpecialKind, LogicOps, LessOps, ShiftOps, ShiftVOps, LongShiftOps, WordMulOps,
            HiLoOps, ZeroOps, EqualOps, LoadOps, StoreOps, ImmOps, Cop0Ops, WordPartOps, AnyBranch
<1>1. i.op \in {"SYNC", "CACHE"} => Emitted(m, i, soft) = m
  OBVIOUS
<1>2. i.op \in {"ADD", "ADDU", "SUB", "SUBU"} => Emitted(m, i, soft) = Write(m, i.rd, JitAlu32(i.op, Read(m, i.rs), Read(m, i.rt)))
  OBVIOUS
<1>3. i.op \in {"DADD", "DADDU"} => Emitted(m, i, soft) = Write(m, i.rd, Low(Read(m, i.rs) + Read(m, i.rt), 8))
  OBVIOUS
<1>4. i.op \in {"DSUB", "DSUBU"} => Emitted(m, i, soft) = Write(m, i.rd, Low(Read(m, i.rs) - Read(m, i.rt), 8))
  OBVIOUS
<1>5. i.op \in LogicOps => Emitted(m, i, soft) = Write(m, i.rd, JitLogic(i.op, Read(m, i.rt), Read(m, i.rs)))
  OBVIOUS
<1>6. i.op \in LessOps => Emitted(m, i, soft) = Write(m, i.rd, JitLess(i.op, Read(m, i.rs), Read(m, i.rt)))
  OBVIOUS
<1>7. i.op \in ShiftOps \cup LongShiftOps => Emitted(m, i, soft) = Write(m, i.rd, JitShiftSa(i.op, Read(m, i.rt), i.sa))
  OBVIOUS
<1>8. i.op \in ShiftVOps => Emitted(m, i, soft) = Write(m, i.rd, JitShiftV(i.op, Read(m, i.rs), Read(m, i.rt)))
  OBVIOUS
<1>9. i.op \in ImmOps \cup {"LUI"} => Emitted(m, i, soft) = Write(m, i.rt, JitImm(Kind(i.op), Read(m, i.rs), i.imm))
  OBVIOUS
<1>10. i.op \in WordMulOps => Emitted(m, i, soft) = JitMultDiv(m, i.op, Read(m, i.rs), Read(m, i.rt))
  OBVIOUS
<1>11. i.op \in HiLoOps => Emitted(m, i, soft) = HiLoMove(m, i)
  OBVIOUS
<1>12. i.op \in {"JR", "JALR", "J", "JAL"} => Emitted(m, i, soft) = JitJump(m, i)
  OBVIOUS
<1>13. i.op \in AnyBranch => Emitted(m, i, soft) = JitBranch(m, i)
  OBVIOUS
<1>14. i.op \in Cop0Ops => Emitted(m, i, soft) = JitCop0(m, i)
  OBVIOUS
<1>15. i.op \in LoadOps \cup StoreOps \cup WordPartOps => Emitted(m, i, soft) = JitMemory(m, i, soft)
  OBVIOUS
<1> QED BY <1>1, <1>2, <1>3, <1>4, <1>5, <1>6, <1>7, <1>8, <1>9, <1>10, <1>11, <1>12, <1>13, <1>14, <1>15, Zenon

\* Arithmetic on the low word needs the low words only.
LEMMA LowOfSum ==
  ASSUME NEW x \in Int, NEW y \in Int, NEW n \in Nat
  PROVE  Low(Low(x, n) + y, n) = Low(x + y, n) /\ Low(Low(x, n) * y, n) = Low(x * y, n) /\ Low(y - Low(x, n), n) = Low(y - x, n)
<1>1. B(n) \in Nat \ {0}
  BY UnitAt
<1> DEFINE d == B(n)
<1>2. d \in Nat \ {0}
  BY <1>1
<1> HIDE DEF d
<1>3. /\ ((x % d) + y) % d = (x + y) % d
      /\ (y - (x % d)) % d = (y - x) % d
      /\ ((x % d) * y) % d = (x * y) % d
  BY <1>2, RemainderOfSum, Zenon
<1> QED BY <1>3, Zenon DEF Low, d

\* Additions and subtractions.
LEMMA AddSubAgree ==
  ASSUME NEW op, NEW a, NEW b
  PROVE  /\ op \in {"ADD", "ADDU", "SUB", "SUBU"} => AddSub(op, a, b) = JitAlu32(op, a, b)
         /\ op \in {"DADD", "DADDU"} => AddSub(op, a, b) = Low(a + b, 8)
         /\ op \in {"DSUB", "DSUBU"} => AddSub(op, a, b) = Low(a - b, 8)
<1>1. op \in {"ADD", "ADDU"} => AddSub(op, a, b) = JitAlu32(op, a, b)
  BY Zenon DEF AddSub, JitAlu32, Cdqe, Word
<1>2. op \in {"SUB", "SUBU"} => AddSub(op, a, b) = JitAlu32(op, a, b)
  BY DEF AddSub, JitAlu32, Cdqe, Word
<1>3. op \in {"DADD", "DADDU"} => AddSub(op, a, b) = Low(a + b, 8)
  BY DEF AddSub
<1>4. op \in {"DSUB", "DSUBU"} => AddSub(op, a, b) = Low(a - b, 8)
  BY DEF AddSub
<1> QED BY <1>1, <1>2, <1>3, <1>4

\* Logic operations.
LEMMA LogicAgree ==
  ASSUME NEW op, NEW a \in Values, NEW b \in Values
  PROVE  Logic(op, a, b) = JitLogic(op, b, a)
<1>1. a \in Nat /\ b \in Nat
  BY ValueInt
<1>2. a & b = b & a /\ a | b = b | a /\ a ^^ b = b ^^ a
  BY <1>1, BitsCommute
<1> QED BY <1>2 DEF Logic, JitLogic

\* Comparisons.
LEMMA LessAgree ==
  ASSUME NEW op \in LessOps, NEW a, NEW b
  PROVE  SetLess(op, a, b) = JitLess(op, a, b)
  BY DEF SetLess, JitLess, LessOps

\* SRA shifts all 64 bits in one engine and the low word in the other.
LEMMA SraAgrees ==
  ASSUME NEW v \in Values, NEW s \in Nat, v = Word(v)
  PROVE  Word(Sign(v, 8) \div Pow2[s]) = Cdqe(Low(Sign(v, 4) \div Pow2[s], 4))
<1>1. v \in Int
  BY ValueInt
<1>2. Sign(v, 8) = Sign(v, 4)
  <2>1. Sign(Sext(v, 4), 8) = Sign(v, 4)
    BY <1>1, SextRules
  <2> QED BY <2>1 DEF Word
<1> DEFINE x == Sign(v, 4) \div Pow2[s]
<1>3. x \in Int
  <2> DEFINE y == Sign(v, 4)  d == Pow2[s]
  <2>1. y \in Int /\ d \in Nat \ {0}
    BY <1>1, Parts4, Pow2Type
  <2> HIDE DEF y, d
  <2>2. y \div d \in Int
    BY <2>1
  <2> QED BY <2>2 DEF y, d
<1>4. Word(Sign(v, 8) \div Pow2[s]) = Sext(x, 4)
  BY <1>2 DEF Word
<1> HIDE DEF x
<1>5. Low(Low(x, 4), 4) = Low(x, 4)
  BY <1>3, LowOfLow
<1>6. Sext(Low(x, 4), 4) = Sext(x, 4)
  BY <1>5, PartsExtend
<1> QED BY <1>4, <1>6 DEF Cdqe, x

\* Shifts by a constant or a register.
LEMMA ShiftAgree ==
  ASSUME NEW op, NEW v \in Values, NEW s \in Nat, op \in {"SRA", "SRAV"} => v = Word(v)
  PROVE  /\ op \in ShiftOps => Shift32(op, v, s) = JitShiftSa(op, v, s)
         /\ op \in LongShiftOps => Shift64(op, v, s) = JitShiftSa(op, v, s)
         /\ op \in ShiftVOps => \A r : r % WordBits = s => Shift32(op, v, s) = JitShiftV(op, r, v)
<1>1. v \in Int
  BY ValueInt
<1>2. Word(v * Pow2[s]) = Cdqe(Low(v, 4) * Pow2[s])
  <2> DEFINE d == Pow2[s]
  <2>1. d \in Int
    BY Pow2Type
  <2> HIDE DEF d
  <2>2. Low(Low(v, 4) * d, 4) = Low(v * d, 4)
    BY <1>1, <2>1, LowOfSum
  <2>3. Sext(Low(v, 4) * d, 4) = Sext(v * d, 4)
    BY <2>2, PartsExtend, Zenon
  <2> QED BY <2>3, Zenon DEF Word, Cdqe, d
<1>3. Word(Low(v, 4) \div Pow2[s]) = Cdqe(Low(v, 4) \div Pow2[s])
  BY Zenon DEF Word, Cdqe
<1>4. op \in {"SRA", "SRAV"} => Word(Sign(v, 8) \div Pow2[s]) = Cdqe(Low(Sign(v, 4) \div Pow2[s], 4))
  BY SraAgrees
<1>5. op \in ShiftOps => Shift32(op, v, s) = JitShiftSa(op, v, s)
  BY <1>2, <1>3, <1>4 DEF ShiftOps, Shift32, JitShiftSa
<1>6. op \in LongShiftOps => Shift64(op, v, s) = JitShiftSa(op, v, s)
  BY DEF LongShiftOps, Shift64, JitShiftSa
<1>7. ASSUME op \in ShiftVOps, NEW r, r % WordBits = s
      PROVE  Shift32(op, v, s) = JitShiftV(op, r, v)
  BY <1>2, <1>3, <1>4, <1>7 DEF ShiftVOps, Shift32, JitShiftV
<1> QED BY <1>5, <1>6, <1>7

\* LUI.
LEMMA UpperAgrees ==
  ASSUME NEW imm \in 0 .. B(2) - 1
  PROVE  Upper(imm) = Cdqe(imm * B(2))
<1> DEFINE d == B(2)  h == B(2) \div 2  s == Sign(imm, 2)
<1>1. d \in Nat \ {0} /\ d = 2 * h /\ h \in Nat \ {0} /\ B(4) = d * d /\ B(4) = 2 * (B(4) \div 2)
  <2>1. B(2) \in Nat \ {0} /\ B(2) = 2 * (B(2) \div 2) /\ B(2) \div 2 \in Nat \ {0} /\ B(2 + 2) = B(2) * B(2) /\ B(4) = 2 * (B(4) \div 2)
    BY Units
  <2> QED BY <2>1
<1>2. Low(imm, 2) = imm
  BY LowIs
<1>3. s = IF imm >= h THEN imm - d ELSE imm
  BY <1>2 DEF Sign
<1> HIDE DEF d, h, s
<1>4. imm \in 0 .. d - 1
  BY DEF d
<1>5. s \in -h .. h - 1 /\ s \in Int
  BY <1>1, <1>3, <1>4
<1> DEFINE x == s * d  g == B(4) \div 2
<1>6. g = h * d
  <2>1. d * d = 2 * (h * d)
    BY <1>1
  <2>2. g \in Int /\ h * d \in Int
    BY <1>1, UnitAt
  <2> QED BY <1>1, <2>1, <2>2
<1>7. x \in -g .. g - 1
  <2>1. -(h * d) <= s * d
    <3>1. (-h) * d <= s * d
      BY <1>1, <1>5
    <3> QED BY <3>1, <1>1
  <2>2. s * d + d <= h * d
    <3>1. (s + 1) * d <= h * d
      BY <1>1, <1>5
    <3> QED BY <3>1, <1>1, <1>5
  <2>3. s * d \in Int /\ h * d \in Int
    BY <1>1, <1>5
  <2> QED BY <1>1, <1>6, <2>1, <2>2, <2>3
<1> HIDE DEF x
<1>8. x \in -(B(4) \div 2) .. B(4) \div 2 - 1 /\ x \in Int
  BY <1>7, UnitAt, Units
<1>9. Sign(x, 4) = x
  BY <1>8, SignIs
<1> DEFINE y == imm * d
<1>10. y \in Int
  BY <1>1, <1>4
<1>11. Congruent(y, x, B(4))
  <2>1. CASE imm >= h
    <3>1. y = x + 1 * B(4)
      BY <1>1, <1>3, <1>4, <2>1 DEF x
    <3> QED BY <3>1, 1 \in Int, Zenon DEF Congruent
  <2>2. CASE ~(imm >= h)
    <3>1. y = x + 0 * B(4)
      BY <1>1, <1>3, <1>4, <2>2 DEF x
    <3> QED BY <3>1, 0 \in Int, Zenon DEF Congruent
  <2> QED BY <2>1, <2>2
<1> HIDE DEF y
<1>12. B(4) \in Nat \ {0}
  BY UnitAt
<1>13. y % B(4) = x % B(4)
  BY <1>8, <1>10, <1>11, <1>12, SameRemainder, Zenon
<1>14. Sign(y, 4) = x
  <2>1. Low(y, 4) = Low(x, 4)
    BY <1>13, Zenon DEF Low
  <2> QED BY <2>1, <1>9, PartsExtend
<1> QED BY <1>14, Zenon DEF Upper, Cdqe, Sext, x, y, s, d

\* Immediate operations.
LEMMA ImmAgrees ==
  ASSUME NEW op, NEW a \in Values, NEW imm \in 0 .. B(2) - 1
  PROVE  /\ op \in ImmOps => Immediate(op, a, imm) = JitImm(Kind(op), a, imm)
         /\ op = "LUI" => Upper(imm) = JitImm(Kind(op), a, imm)
<1> USE DEF Kind, SpecialKind
<1>1. a \in Int /\ Sext(imm, 2) \in Int
  BY ImmediateTypes, ValueInt
<1>2. Word(Low(a, 4) + Sext(imm, 2)) = Cdqe(Low(a + Sext(imm, 2), 4))
  <2> DEFINE y == Sext(imm, 2)  z == Low(a, 4)  u == z + y  w == a + y
  <2>1. y \in Int /\ w \in Int
    BY <1>1
  <2>2. Low(u, 4) = Low(w, 4)
    <3> HIDE DEF y
    <3> QED BY <1>1, <2>1, LowOfSum
  <2> HIDE DEF w, u
  <2>3. Low(Low(w, 4), 4) = Low(w, 4)
    BY <2>1, LowOfLow
  <2>4. Sext(u, 4) = Sext(Low(w, 4), 4)
    BY <2>2, <2>3, PartsExtend
  <2> QED BY <2>4, Zenon DEF Word, Cdqe, u, w
<1>3. Sign(Sext(imm, 2), 8) = Sign(Sext(imm, 2), 8)
  OBVIOUS
<1>4. op \in {"ADDI", "ADDIU"} => Immediate(op, a, imm) = JitImm(Kind(op), a, imm)
  BY <1>2 DEF Immediate, JitImm
<1>5. op \in {"DADDI", "DADDIU"} => Immediate(op, a, imm) = JitImm(Kind(op), a, imm)
  BY DEF Immediate, JitImm
<1>6. op \in {"SLTI", "SLTIU"} => Immediate(op, a, imm) = JitImm(Kind(op), a, imm)
  BY DEF Immediate, JitImm, SetLess
<1>7. op \in {"ANDI", "ORI", "XORI"} => Immediate(op, a, imm) = JitImm(Kind(op), a, imm)
  BY DEF Immediate, JitImm
<1>8. op = "LUI" => Upper(imm) = JitImm(Kind(op), a, imm)
  BY UpperAgrees DEF JitImm
<1> QED BY <1>4, <1>5, <1>6, <1>7, <1>8 DEF ImmOps

\* Multiplications and divisions.
LEMMA MultDivAgrees ==
  ASSUME NEW m, NEW op \in WordMulOps, NEW a \in Values, NEW b \in Values
  PROVE  MultDiv(m, op, a, b) = JitMultDiv(m, op, a, b)
<1>0. a \in Int /\ b \in Int
  BY ValueInt
<1>1. CASE op \in {"MULT", "MULTU"}
  BY <1>1, Zenon DEF MultDiv, JitMultDiv, Product
<1>2. CASE op = "DIV"
  BY <1>2 DEF MultDiv, JitMultDiv, Divided
<1>3. CASE op = "DIVU"
  <2> DEFINE x == Low(a, 4)  y == Low(b, 4)
  <2>1. x \in Nat /\ y \in Nat
    BY <1>0, Parts4
  <2>2. CASE y = 0
    BY <1>3, <2>2 DEF MultDiv, JitMultDiv
  <2>3. CASE y # 0
    <3>1. Quot(x, y) = x \div y /\ Rest(x, y) = x % y
      <4> HIDE DEF x, y
      <4> QED BY <2>1, <2>3, QuotOfNat
    <3>2. MultDiv(m, op, a, b) = SetHiLo(m, Word(x % y), Word(x \div y))
      BY <1>3, <2>3, <3>1 DEF MultDiv, Divided
    <3> QED BY <1>3, <2>3, <3>2 DEF JitMultDiv
  <2> QED BY <2>2, <2>3
<1> QED BY <1>1, <1>2, <1>3 DEF WordMulOps

\* What the emitted accesses do, group by group.
LEMMA JitMemoryIs ==
  ASSUME NEW m, NEW i, NEW soft
  PROVE  /\ i.op \in {"LWL", "LWR"} => JitMemory(m, i, soft) = DoLoadPart(m, i)
         /\ i.op \in {"SWL", "SWR"} => JitMemory(m, i, soft) = DoStorePart(m, i)
<1>1. ASSUME i.op \in {"LWL", "LWR"} PROVE JitMemory(m, i, soft) = DoLoadPart(m, i)
  <2> DEFINE x == DoLoadPart(m, i)
  <2> HIDE DEF x
  <2>1. JitMemory(m, i, soft) = x
    BY <1>1 DEF JitMemory, x, LoadOps
  <2> QED BY <2>1 DEF x
<1>2. ASSUME i.op \in {"SWL", "SWR"} PROVE JitMemory(m, i, soft) = DoStorePart(m, i)
  <2> DEFINE x == DoStorePart(m, i)
  <2> HIDE DEF x
  <2>1. JitMemory(m, i, soft) = x
    BY <1>2 DEF JitMemory, x, LoadOps
  <2> QED BY <2>1 DEF x
<1> QED BY <1>1, <1>2

\* Additions of 64 bits.
LEMMA LongAddEmitted ==
  ASSUME NEW m, NEW i, NEW soft
  PROVE  i.op \in {"DADD", "DADDU", "DSUB", "DSUBU"} => Emitted(m, i, soft) = Write(m, i.rd, AddSub(i.op, Read(m, i.rs), Read(m, i.rt)))
<1>1. i.op \in {"DADD", "DADDU"} => Emitted(m, i, soft) = Write(m, i.rd, Low(Read(m, i.rs) + Read(m, i.rt), 8))
  BY DEF Emitted, Kind, SpecialKind, LogicOps, LessOps, ShiftOps, ShiftVOps, LongShiftOps, WordMulOps,
         HiLoOps, ZeroOps, EqualOps, ImmOps, Cop0Ops
<1>2. i.op \in {"DSUB", "DSUBU"} => Emitted(m, i, soft) = Write(m, i.rd, Low(Read(m, i.rs) - Read(m, i.rt), 8))
  BY DEF Emitted, Kind, SpecialKind, LogicOps, LessOps, ShiftOps, ShiftVOps, LongShiftOps, WordMulOps,
         HiLoOps, ZeroOps, EqualOps, ImmOps, Cop0Ops
<1> QED BY <1>1, <1>2 DEF AddSub

\* Branches, taken and likely or not.
LEMMA BranchAgrees ==
  ASSUME NEW m, NEW i, i.op \in AnyBranch
  PROVE  JitBranch(m, i) = IF i.op \in {"BLTZAL", "BGEZAL"} THEN Link(Branched(m, i), RA) ELSE Branched(m, i)
<1> DEFINE taken == JitTaken(i.op, Read(m, i.rs), Read(m, i.rt))
           to == <<"offset", Sign(i.imm, 2)>>
<1>1. taken = Taken(m, i)
  <2>1. CASE i.op \in ZeroOps
    BY <2>1 DEF ZeroOps, Taken, JitTaken, Zeros
  <2>2. CASE i.op \in EqualOps
    BY <2>2 DEF ZeroOps, EqualOps, Taken, JitTaken, Equals
  <2> QED BY <2>1, <2>2 DEF AnyBranch
<1> DEFINE x == IF i.op \in LikelyOps \/ Sign(i.imm, 2) = -1
                THEN Branch(m, taken, i.op \in LikelyOps, to)
                ELSE [m EXCEPT !.next = IF taken THEN to ELSE "on"]
<1>2. JitBranch(m, i) = IF i.op \in {"BLTZAL", "BGEZAL"} THEN Link(x, RA) ELSE x
  BY DEF JitBranch, JitInlineBranch
<1>3. x = Branch(m, taken, i.op \in LikelyOps, to)
  <2> HIDE DEF taken, to
  <2>1. CASE i.op \in LikelyOps
    BY <2>1
  <2>2. CASE i.op \notin LikelyOps
    BY <2>2 DEF Branch
  <2> QED BY <2>1, <2>2
<1>4. x = Branched(m, i)
  BY <1>1, <1>3, Zenon DEF Branched
<1> QED BY <1>2, <1>4, Zenon

\* Jumps.
LEMMA JumpAgrees ==
  ASSUME NEW m, NEW i
  PROVE  /\ i.op \in {"JR", "JALR"} => JitJump(m, i) = JumpRegister(m, i)
         /\ i.op \in {"J", "JAL"} => JitJump(m, i) = Jump(m, i)
  BY DEF JitJump, Jump, JumpRegister

\* The COP0 instructions that are emitted.
LEMMA Cop0Agrees ==
  ASSUME NEW m, NEW i
  PROVE  JitCop0(m, i) = Cop0Move(m, i)
  BY DEF JitCop0, Cop0Move, Word

\* What fits into RDRAM is in RDRAM.
LEMMA InRdramIs ==
  ASSUME NEW p \in Nat, NEW n \in Widths, InRdram(p, n)
  PROVE  /\ Region(p) = "rdram"
         /\ \A m : BusRead(m, p, n) = RamRead(m.ram, p, n)
         /\ \A m, v : BusWrite(m, p, n, v) = [m EXCEPT !.ram = RamWrite(@, p, n, v)]
         /\ BusTakes(p, n) => p + n <= RamSize /\ HostIndex(p, n) + n <= RamSize
<1>1. Region(p) = "rdram"
  <2>1. RamSize \in Nat /\ n \in Nat /\ n # 0
    BY IsaAssumption DEF Widths
  <2> QED BY <2>1 DEF Region, InRdram, DmemBase
<1> QED BY <1>1 DEF BusRead, BusWrite, BusTakes

\* A store needs the stored part of the register only.
LEMMA RamWriteLow ==
  ASSUME NEW mem, NEW p \in Nat, NEW n \in Widths, NEW v \in Values
  PROVE  RamWrite(mem, p, n, Low(v, n)) = RamWrite(mem, p, n, v)
<1>1. v \in Int
  BY ValueInt
<1>2. CASE n = 8
  <2>1. Low(v, 8) = v
    BY LowIs DEF Values
  <2> QED BY <1>2, <2>1
<1>3. CASE n # 8
  <2> DEFINE x == HostIndex(p, n)  w == Low(v, n)
  <2>1. x \in Int /\ n \in Nat
    BY HostIndexType DEF Widths
  <2>2. Low(w, n) = w /\ w \in Int
    <3>1. n \in Nat \ {0}
      BY DEF Widths
    <3> QED BY <1>1, <3>1, LowOfLow, Parts4
  <2>3. Low(w, n) = Low(v, n)
    BY <2>2
  <2>4. Stored(mem, x, n, w) = Stored(mem, x, n, v)
    <3> HIDE DEF x, w
    <3> QED BY <1>1, <2>1, <2>2, <2>3, StoredLow
  <2> QED BY <1>3, <2>4, Zenon DEF RamWrite, x, w
<1> QED BY <1>2, <1>3

\* The inlined load from RDRAM is a load over the bus.
LEMMA RdramLoadAgrees ==
  ASSUME NEW m, Typed(m), NEW op \in LoadOps, NEW p \in Nat, NEW n, n = Bytes(op), InRdram(p, n), BusTakes(p, n)
  PROVE  RdramLoad(m, op, p) = Extend(op, RamRead(m.ram, p, n))
<1>1. n \in Widths
  BY BytesType
<1>2. m.ram \in ByteMem(Cells) /\ p + n <= RamSize /\ HostIndex(p, n) + n <= RamSize
  BY <1>1, Fields, InRdramIs
<1>3. n = 1 => Host(m.ram, p ^^ 3, 1) = m.ram[p ^^ 3]
  <2> SUFFICES ASSUME n = 1 PROVE Host(m.ram, p ^^ 3, 1) = m.ram[p ^^ 3]
    OBVIOUS
  <2> DEFINE x == p ^^ 3
  <2>1. HostIndex(p, n) = x
    BY DEF HostIndex
  <2>2. x \in Nat
    BY <1>1, <2>1, HostIndexType
  <2> HIDE DEF x
  <2>3. x \in Cells /\ x \in Int
    BY <1>2, <2>1, <2>2, IsaAssumption DEF Cells
  <2>4. Host(m.ram, x, 1) = m.ram[x]
    BY <1>2, <2>3, HostOne
  <2> QED BY <2>4 DEF x
<1>4. RamRead(m.ram, p, n) \in 0 .. B(n) - 1
  BY <1>1, <1>2, RamReadType
<1>5. CASE op \in {"LB", "LBU"}
  <2>1. n = 1
    BY <1>5 DEF Bytes
  <2>2. RamRead(m.ram, p, n) = m.ram[p ^^ 3]
    BY <1>3, <2>1 DEF RamRead, HostIndex
  <2> QED BY <1>5, <2>1, <2>2 DEF RdramLoad, Extend
<1>6. CASE op \in {"LH", "LHU"}
  <2>1. n = 2
    BY <1>6 DEF Bytes
  <2>2. RamRead(m.ram, p, n) = Host(m.ram, p ^^ 2, 2)
    BY <2>1 DEF RamRead, HostIndex
  <2> QED BY <1>6, <2>1, <2>2 DEF RdramLoad, Extend
<1>7. CASE op \in {"LW", "LWU"}
  <2>1. n = 4
    BY <1>7 DEF Bytes
  <2>2. RamRead(m.ram, p, n) = Host(m.ram, p, 4)
    BY <2>1 DEF RamRead, HostIndex
  <2> QED BY <1>7, <2>1, <2>2 DEF RdramLoad, Extend, Cdqe
<1>8. CASE op = "LD"
  <2>1. n = 8
    BY <1>8 DEF Bytes
  <2>2. RamRead(m.ram, p, n) = Host(m.ram, p, 4) * B(4) + Host(m.ram, p + 4, 4)
    BY <2>1 DEF RamRead
  <2>3. Sext(RamRead(m.ram, p, n), 8) = RamRead(m.ram, p, n)
    BY <1>4, <2>1, SextOfDouble
  <2> QED BY <1>8, <2>1, <2>2, <2>3 DEF RdramLoad, Extend
<1> QED BY <1>5, <1>6, <1>7, <1>8 DEF LoadOps

\* The inlined store into RDRAM is a store over the bus.
LEMMA RdramStoreAgrees ==
  ASSUME NEW m, NEW op \in StoreOps, NEW p, NEW v
  PROVE  RdramStore(m, op, p, v) = [m EXCEPT !.ram = RamWrite(@, p, Bytes(op), v)]
<1>1. CASE op = "SB"
  BY <1>1 DEF RdramStore, RamWrite, HostIndex, Bytes
<1>2. CASE op = "SH"
  BY <1>2 DEF RdramStore, RamWrite, HostIndex, Bytes
<1>3. CASE op = "SW"
  BY <1>3 DEF RdramStore, RamWrite, HostIndex, Bytes
<1>4. CASE op = "SD"
  BY <1>4 DEF RdramStore, RamWrite, HostIndex, Bytes
<1> QED BY <1>1, <1>2, <1>3, <1>4 DEF StoreOps

\* Loads, inlined or not.
LEMMA LoadAgrees ==
  ASSUME NEW m, Typed(m), NEW i, Encoded(i), TlbOK(tlbNow), Sensible(m, i), i.op \in LoadOps, NEW soft
  PROVE  JitMemory(m, i, soft) = Load(m, i)
<1> DEFINE va == Vaddr(m, i)  p == Resolve(va)  n == Bytes(i.op)
           inline == /\ Direct(va) \/ (soft /\ (va % PageBytes) + n <= PageBytes /\ p # NoPage)
                     /\ InRdram(p, n)
<1>0. i.op \notin {"J", "JAL"} /\ i.op \notin {"LWL", "LWR", "SWL", "SWR"}
  BY DEF LoadOps
<1>1. n \in Widths /\ (p # NoPage => BusTakes(p, n) /\ p \in Nat)
  BY <1>0, SensibleAccess, BytesType, AddressType
<1>2. JitMemory(m, i, soft) = IF inline THEN Write(m, i.rt, RdramLoad(m, i.op, p)) ELSE DoLoad(m, i)
  BY <1>0 DEF JitMemory
<1>3. inline => p # NoPage
  <2>1. va \in 0 .. B(4) - 1
    BY <1>0, VaddrType DEF Encoded
  <2>2. Direct(va) => p \in Nat
    <3> HIDE DEF va
    <3> QED BY <2>1, ResolveType
  <2> QED BY <2>2, IsaAssumption
<1>4. Load(m, i) = IF p = NoPage THEN Except(m, "load") ELSE Write(m, i.rt, Extend(i.op, BusRead(m, p, n)))
  BY DEF Load
<1>5. DoLoad(m, i) = IF p = NoPage THEN Except(m, "load")
                     ELSE Write(m, i.rt, Extend(i.op, IF InRdram(p, n) THEN RamRead(m.ram, p, n) ELSE BusRead(m, p, n)))
  BY DEF DoLoad, HelperLoad
<1>6. p # NoPage /\ InRdram(p, n) => BusRead(m, p, n) = RamRead(m.ram, p, n)
  <2> HIDE DEF p, n
  <2> QED BY <1>1, InRdramIs
<1>7. inline => RdramLoad(m, i.op, p) = Extend(i.op, RamRead(m.ram, p, n))
  <2> SUFFICES ASSUME inline PROVE RdramLoad(m, i.op, p) = Extend(i.op, RamRead(m.ram, p, n))
    OBVIOUS
  <2>1. p \in Nat /\ BusTakes(p, n) /\ InRdram(p, n)
    BY <1>1, <1>3
  <2>2. n = Bytes(i.op)
    OBVIOUS
  <2> HIDE DEF p, n
  <2> QED BY <2>1, <2>2, RdramLoadAgrees
<1> HIDE DEF va, p, n
<1>8. inline => InRdram(p, n)
  OBVIOUS
<1> HIDE DEF inline
<1> QED BY <1>2, <1>3, <1>4, <1>5, <1>6, <1>7, <1>8

\* Stores, inlined or not.
LEMMA StoreAgrees ==
  ASSUME NEW m, Typed(m), NEW i, Encoded(i), TlbOK(tlbNow), Sensible(m, i), i.op \in StoreOps, NEW soft
  PROVE  JitMemory(m, i, soft) = Store(m, i)
<1> DEFINE va == Vaddr(m, i)  p == Resolve(va)  n == Bytes(i.op)  v == Read(m, i.rt)
           inline == /\ Direct(va) \/ (soft /\ (va % PageBytes) + n <= PageBytes /\ p # NoPage)
                     /\ InRdram(p, n)
<1>0. i.op \notin {"J", "JAL"} /\ i.op \notin {"LWL", "LWR", "SWL", "SWR"} /\ i.op \notin LoadOps
  BY DEF LoadOps, StoreOps
<1>1. n \in Widths /\ (p # NoPage => p \in Nat)
  BY <1>0, BytesType, AddressType
<1>2. JitMemory(m, i, soft) = IF inline THEN RdramStore(m, i.op, p, v) ELSE DoStore(m, i)
  BY <1>0 DEF JitMemory
<1>3. inline => p # NoPage
  <2>1. va \in 0 .. B(4) - 1
    BY <1>0, VaddrType DEF Encoded
  <2>2. Direct(va) => p \in Nat
    <3> HIDE DEF va
    <3> QED BY <2>1, ResolveType
  <2> QED BY <2>2, IsaAssumption
<1>4. Store(m, i) = IF p = NoPage THEN Except(m, "store") ELSE BusWrite(m, p, n, Low(v, n))
  BY DEF Store
<1>5. DoStore(m, i) = IF p = NoPage THEN Except(m, "store")
                      ELSE IF InRdram(p, n) THEN [m EXCEPT !.ram = RamWrite(@, p, n, v)] ELSE BusWrite(m, p, n, Low(v, n))
  BY DEF DoStore, HelperStore
<1>6. RdramStore(m, i.op, p, v) = [m EXCEPT !.ram = RamWrite(@, p, n, v)]
  BY RdramStoreAgrees
<1>7. v \in Values
  BY ReadType DEF Encoded
<1> HIDE DEF va, p, n, v
<1>8. p # NoPage /\ InRdram(p, n) => BusWrite(m, p, n, Low(v, n)) = [m EXCEPT !.ram = RamWrite(@, p, n, v)]
  <2> SUFFICES ASSUME p # NoPage, InRdram(p, n) PROVE BusWrite(m, p, n, Low(v, n)) = [m EXCEPT !.ram = RamWrite(@, p, n, v)]
    OBVIOUS
  <2>1. BusWrite(m, p, n, Low(v, n)) = [m EXCEPT !.ram = RamWrite(@, p, n, Low(v, n))]
    BY <1>1, InRdramIs
  <2>2. RamWrite(m.ram, p, n, Low(v, n)) = RamWrite(m.ram, p, n, v)
    BY <1>1, <1>7, RamWriteLow
  <2> QED BY <2>1, <2>2
<1>9. inline => InRdram(p, n)
  OBVIOUS
<1> HIDE DEF inline
<1> QED BY <1>2, <1>3, <1>4, <1>5, <1>6, <1>8, <1>9

\* Unaligned words.
LEMMA PartsAgree ==
  ASSUME NEW m, Typed(m), NEW i, Encoded(i), TlbOK(tlbNow), Sensible(m, i), i.op \in WordPartOps, NEW soft
  PROVE  JitMemory(m, i, soft) = Execute(m, i)
<1> DEFINE va == Vaddr(m, i)  p == Resolve(va)  u == Unit(p, 4)
           bus == BusRead(m, u, 4)
           data == IF InRdram(u, 4) THEN RamRead(m.ram, u, 4) ELSE bus
<1>0. i.op \notin {"J", "JAL"} /\ Bytes(i.op) = 4 /\ 4 \in Widths /\ 4 \in {4, 8}
  BY DEF WordPartOps, Bytes, Widths
<1>1. p # NoPage => u \in Nat
  BY <1>0, AddressType
<1>2. p # NoPage => data = bus
  <2> HIDE DEF u
  <2> QED BY <1>0, <1>1, InRdramIs
<1>3. CASE i.op \in {"LWL", "LWR"}
  <2> DEFINE old == Low(Read(m, i.rt), 4)
             x(d) == IF i.op = "LWL" THEN KeepLow(old, d, LeftShift(va, 4), 4) ELSE KeepHigh(old, d, RightShift(va, 4), 4)
  <2>1. JitMemory(m, i, soft) = IF p = NoPage THEN Except(m, "load") ELSE Write(m, i.rt, Word(x(data)))
    <3>1. JitMemory(m, i, soft) = DoLoadPart(m, i)
      BY <1>3, JitMemoryIs
    <3>2. DoLoadPart(m, i) = IF p = NoPage THEN Except(m, "load") ELSE Write(m, i.rt, Word(x(data)))
      BY DEF DoLoadPart
    <3> QED BY <3>1, <3>2, Zenon
  <2>2. i.op \in LoadPartOps /\ (i.op \in {"LWL", "LDL"} <=> i.op = "LWL")
    BY <1>3 DEF LoadPartOps
  <2>3. Execute(m, i) = IF p = NoPage THEN Except(m, "load") ELSE Write(m, i.rt, Sext(x(bus), 4))
    <3>1. Execute(m, i) = LoadPart(m, i)
      BY <2>2, ExecuteIs
    <3> QED BY <1>0, <2>2, <3>1 DEF LoadPart
  <2> HIDE DEF x, data, bus, p
  <2> QED BY <1>2, <2>1, <2>3, Zenon DEF Word
<1>4. CASE i.op \in {"SWL", "SWR"}
  <2> DEFINE reg == Low(Read(m, i.rt), 4)
             x(d) == IF i.op = "SWL" THEN KeepHigh(d, reg, LeftShift(va, 4), 4) ELSE KeepLow(d, reg, RightShift(va, 4), 4)
  <2>1. JitMemory(m, i, soft) = IF p = NoPage THEN Except(m, "store")
                                ELSE IF InRdram(u, 4) THEN [m EXCEPT !.ram = RamWrite(@, u, 4, x(data))]
                                ELSE BusWrite(m, u, 4, x(data))
    <3>1. JitMemory(m, i, soft) = DoStorePart(m, i)
      BY <1>4, JitMemoryIs
    <3>2. DoStorePart(m, i) = IF p = NoPage THEN Except(m, "store")
                              ELSE IF InRdram(u, 4) THEN [m EXCEPT !.ram = RamWrite(@, u, 4, x(data))]
                              ELSE BusWrite(m, u, 4, x(data))
      BY DEF DoStorePart
    <3> QED BY <3>1, <3>2, Zenon
  <2>2. i.op \in StorePartOps /\ (i.op \in {"SWL", "SDL"} <=> i.op = "SWL")
    BY <1>4 DEF StorePartOps
  <2>3. Execute(m, i) = IF p = NoPage THEN Except(m, "store") ELSE BusWrite(m, u, 4, x(bus))
    <3>1. Execute(m, i) = StorePart(m, i)
      BY <2>2, ExecuteIs
    <3> QED BY <1>0, <2>2, <3>1 DEF StorePart
  <2> DEFINE y == x(bus)
  <2>4. p # NoPage /\ InRdram(u, 4) => BusWrite(m, u, 4, y) = [m EXCEPT !.ram = RamWrite(@, u, 4, y)]
    <3> HIDE DEF u, y
    <3> QED BY <1>0, <1>1, InRdramIs
  <2>5. p # NoPage => x(data) = x(bus)
    <3> HIDE DEF x, data, bus, p
    <3> QED BY <1>2, Zenon
  <2> HIDE DEF x, data, bus, p, u
  <2> QED BY <2>1, <2>3, <2>4, <2>5 DEF y
<1> QED BY <1>3, <1>4 DEF WordPartOps

\* One instruction that a program can hold, on one well-formed machine.
LEMMA EnginesAgreeOn ==
  ASSUME NEW m, Typed(m), NEW i, Encoded(i), TlbOK(tlbNow), Sensible(m, i), i.op \in Translated, NEW soft, ~WideSra
  PROVE  Emitted(m, i, soft) = Execute(m, i)
<1> DEFINE a == Read(m, i.rs)  b == Read(m, i.rt)  x == Emitted(m, i, soft)  y == Execute(m, i)  z == ExecuteSpecial(m, i)
<1>0. a \in Values /\ b \in Values /\ i.sa \in Nat /\ i.rt \in 0 .. LastReg
  BY ReadType DEF Encoded
<1>h. i.op \in SpecialOps => y = z
  BY ExecuteIs
<1>s. i.op \in {"SRA", "SRAV"} => b = Word(b)
  BY DEF Sensible
<1> HIDE DEF a, b, x, y, z
<1>1. CASE i.op \in AddOps
  <2>1. i.op \in SpecialOps /\ z = Write(m, i.rd, AddSub(i.op, a, b))
    BY <1>1, SpecialIs DEF SpecialOps, z, a, b
  <2>2. CASE i.op \in {"ADD", "ADDU", "SUB", "SUBU"}
    <3>1. x = Write(m, i.rd, JitAlu32(i.op, a, b))
      BY <2>2, EmittedIs DEF x, a, b
    <3> QED BY <1>h, <2>1, <2>2, <3>1, AddSubAgree DEF x, y
  <2>3. CASE i.op \in {"DADD", "DADDU", "DSUB", "DSUBU"}
    <3>1. x = Write(m, i.rd, AddSub(i.op, a, b))
      BY <2>3, LongAddEmitted DEF x, a, b
    <3> QED BY <1>h, <2>1, <3>1 DEF x, y
  <2> QED BY <1>1, <2>2, <2>3 DEF AddOps
<1>2. CASE i.op \in LogicOps
  <2>1. i.op \in SpecialOps /\ z = Write(m, i.rd, Logic(i.op, a, b))
    BY <1>2, SpecialIs DEF SpecialOps, z, a, b
  <2>2. x = Write(m, i.rd, JitLogic(i.op, b, a))
    BY <1>2, EmittedIs DEF x, a, b
  <2>3. Logic(i.op, a, b) = JitLogic(i.op, b, a)
    BY <1>0, LogicAgree
  <2> QED BY <1>h, <2>1, <2>2, <2>3 DEF x, y
<1>3. CASE i.op \in LessOps
  <2>1. i.op \in SpecialOps /\ z = Write(m, i.rd, SetLess(i.op, a, b))
    BY <1>3, SpecialIs DEF SpecialOps, z, a, b
  <2>2. x = Write(m, i.rd, JitLess(i.op, a, b))
    BY <1>3, EmittedIs DEF x, a, b
  <2>3. SetLess(i.op, a, b) = JitLess(i.op, a, b)
    BY <1>3, LessAgree
  <2> QED BY <1>h, <2>1, <2>2, <2>3 DEF x, y
<1>4. CASE i.op \in ShiftOps
  <2>1. i.op \in SpecialOps /\ z = Write(m, i.rd, Shift32(i.op, b, i.sa))
    BY <1>4, SpecialIs DEF SpecialOps, z, b
  <2>2. x = Write(m, i.rd, JitShiftSa(i.op, b, i.sa))
    BY <1>4, EmittedIs DEF x, b
  <2>3. Shift32(i.op, b, i.sa) = JitShiftSa(i.op, b, i.sa)
    BY <1>0, <1>4, <1>s, ShiftAgree
  <2> QED BY <1>h, <2>1, <2>2, <2>3 DEF x, y
<1>5. CASE i.op \in LongShiftOps
  <2>1. i.op \in SpecialOps /\ z = Write(m, i.rd, Shift64(i.op, b, i.sa))
    BY <1>5, SpecialIs DEF SpecialOps, z, b
  <2>2. x = Write(m, i.rd, JitShiftSa(i.op, b, i.sa))
    BY <1>5, EmittedIs DEF x, b
  <2>3. Shift64(i.op, b, i.sa) = JitShiftSa(i.op, b, i.sa)
    BY <1>0, <1>5, <1>s, ShiftAgree
  <2> QED BY <1>h, <2>1, <2>2, <2>3 DEF x, y
<1>6. CASE i.op \in ShiftVOps
  <2> DEFINE s == a % WordBits
  <2>1. i.op \in SpecialOps /\ z = Write(m, i.rd, Shift32(i.op, b, s))
    BY <1>6, SpecialIs DEF SpecialOps, z, a, b
  <2>2. x = Write(m, i.rd, JitShiftV(i.op, a, b))
    BY <1>6, EmittedIs DEF x, a, b
  <2>4. s \in Nat
    <3>1. a \in Int /\ WordBits \in Nat \ {0}
      BY <1>0, ValueInt, IsaAssumption DEF WordBits
    <3> QED BY <3>1
  <2>5. a % WordBits = s
    OBVIOUS
  <2> HIDE DEF s
  <2>3. Shift32(i.op, b, s) = JitShiftV(i.op, a, b)
    BY <1>0, <1>6, <1>s, <2>4, <2>5, ShiftAgree
  <2> QED BY <1>h, <2>1, <2>2, <2>3 DEF x, y
<1>7. CASE i.op \in WordMulOps
  <2>1. i.op \in SpecialOps /\ z = MultDiv(m, i.op, a, b)
    BY <1>7, SpecialIs DEF SpecialOps, z, a, b
  <2>2. x = JitMultDiv(m, i.op, a, b)
    BY <1>7, EmittedIs DEF x, a, b
  <2>3. MultDiv(m, i.op, a, b) = JitMultDiv(m, i.op, a, b)
    BY <1>0, <1>7, MultDivAgrees
  <2> QED BY <1>h, <2>1, <2>2, <2>3 DEF x, y
<1>8. CASE i.op \in HiLoOps
  <2>1. i.op \in SpecialOps /\ z = HiLoMove(m, i)
    BY <1>8, SpecialIs DEF SpecialOps, z
  <2>2. x = HiLoMove(m, i)
    BY <1>8, EmittedIs DEF x
  <2> QED BY <1>h, <2>1, <2>2 DEF x, y
<1>9. CASE i.op \in {"JR", "JALR"}
  <2>1. i.op \in SpecialOps /\ z = JumpRegister(m, i)
    BY <1>9, SpecialIs DEF SpecialOps, z
  <2>2. x = JitJump(m, i)
    BY <1>9, EmittedIs DEF x
  <2> QED BY <1>9, <1>h, <2>1, <2>2, JumpAgrees DEF x, y
<1>10. CASE i.op = "SYNC"
  <2>1. i.op \in SpecialOps /\ z = m
    <3>1. i.op \notin (SpecialOps \ {"SYNC"}) /\ i.op \in SpecialOps
      BY <1>10 DEF SpecialOps
    <3> QED BY <3>1, SpecialIs DEF z
  <2>2. x = m
    BY <1>10, EmittedIs DEF x
  <2> QED BY <1>h, <2>1, <2>2 DEF x, y
<1>11. CASE i.op \in {"J", "JAL"}
  <2>1. y = Jump(m, i)
    BY <1>11, ExecuteIs DEF y
  <2>2. x = JitJump(m, i)
    BY <1>11, EmittedIs DEF x
  <2> QED BY <1>11, <2>1, <2>2, JumpAgrees DEF x, y
<1>12. CASE i.op \in AnyBranch
  <2>1. y = IF i.op \in {"BLTZAL", "BGEZAL"} THEN Link(Branched(m, i), RA) ELSE Branched(m, i)
    BY <1>12, ExecuteIs DEF y
  <2>2. x = JitBranch(m, i)
    BY <1>12, EmittedIs DEF x
  <2> QED BY <1>12, <2>1, <2>2, BranchAgrees DEF x, y
<1>13. CASE i.op \in ImmOps
  <2>1. y = Write(m, i.rt, Immediate(i.op, a, i.imm))
    BY <1>13, ExecuteIs DEF y, a
  <2>2. x = Write(m, i.rt, JitImm(Kind(i.op), a, i.imm))
    BY <1>13, EmittedIs DEF x, a
  <2>3. i.imm \in 0 .. B(2) - 1
    BY <1>13 DEF Encoded, ImmOps
  <2>4. Immediate(i.op, a, i.imm) = JitImm(Kind(i.op), a, i.imm)
    BY <1>0, <1>13, <2>3, ImmAgrees
  <2> QED BY <2>1, <2>2, <2>4 DEF x, y
<1>14. CASE i.op = "LUI"
  <2>1. y = Write(m, i.rt, Upper(i.imm))
    BY <1>14, ExecuteIs DEF y
  <2>2. x = Write(m, i.rt, JitImm(Kind(i.op), a, i.imm))
    BY <1>14, EmittedIs DEF x, a
  <2>3. i.imm \in 0 .. B(2) - 1
    BY <1>14 DEF Encoded
  <2>4. Upper(i.imm) = JitImm(Kind(i.op), a, i.imm)
    BY <1>0, <1>14, <2>3, ImmAgrees
  <2> QED BY <2>1, <2>2, <2>4 DEF x, y
<1>15. CASE i.op = "CACHE"
  <2>1. OpOf(i.op) = "other"
    BY <1>15 DEF OpOf, SpecialOps, AddOps, LogicOps, LessOps, ShiftOps, ShiftVOps, LongShiftOps, WordMulOps, LongMulOps,
            HiLoOps, TrapOps, ZeroOps, EqualOps, LoadOps, StoreOps, ImmOps, Cop0Ops, AnyBranch, LoadPartOps, StorePartOps
  <2>2. y = m /\ x = m
    BY <1>15, <2>1, ExecuteIs, EmittedIs DEF x, y
  <2> QED BY <2>2 DEF x, y
<1>16. CASE i.op \in Cop0Ops
  <2>1. y = Cop0Move(m, i) /\ x = JitCop0(m, i)
    BY <1>16, ExecuteIs, EmittedIs DEF x, y
  <2> QED BY <2>1, Cop0Agrees DEF x, y
<1>17. CASE i.op \in LoadOps
  <2>1. y = Load(m, i) /\ x = JitMemory(m, i, soft)
    BY <1>17, ExecuteIs, EmittedIs DEF x, y
  <2> QED BY <1>17, <2>1, LoadAgrees DEF x, y
<1>18. CASE i.op \in StoreOps
  <2>1. y = Store(m, i) /\ x = JitMemory(m, i, soft)
    BY <1>18, ExecuteIs, EmittedIs DEF x, y
  <2> QED BY <1>18, <2>1, StoreAgrees DEF x, y
<1>19. CASE i.op \in WordPartOps
  <2>1. x = JitMemory(m, i, soft)
    BY <1>19, EmittedIs DEF x
  <2> QED BY <1>19, <2>1, PartsAgree DEF x
<1> QED BY <1>1, <1>2, <1>3, <1>4, <1>5, <1>6, <1>7, <1>8, <1>9, <1>10, <1>11, <1>12, <1>13, <1>14, <1>15, <1>16, <1>17, <1>18, <1>19
        DEF Translated, TranslatedSpecial, SpecialOps, AnyBranch, x, y

(***************************************************************************)
(* The specification                                                       *)
(***************************************************************************)

\* The interpreter's machine is well-formed and the address mapping is one of those
\* considered; the dynarec's machine is a record of the same kind.
IsaTypeInv == Typed(st["interp"]) /\ tlbNow \in Tlb
IsaInv == IsaTypeInv /\ EnginesAgree

\* The mappings considered are mappings.
LEMMA TlbIsOK == tlbNow \in Tlb => TlbOK(tlbNow)
  BY IsaAssumption DEF TlbOK

\* The machine a program starts on is well-formed.
LEMMA StartType ==
  ASSUME NEW ram \in StartRam, NEW v \in StartValue, NEW w \in StartValue
  PROVE  Typed(Start(ram, v, w))
<1>1. v \in Values /\ w \in Values /\ 0 \in Values /\ ram \in ByteMem(Cells)
  BY IsaAssumption, Bits DEF Values, ByteMem, Cells, Byte
<1>2. [r \in 1 .. LastReg |-> CASE r = 1 -> v [] r = 2 -> w [] OTHER -> 0] \in [1 .. LastReg -> Values]
  BY <1>1
<1>3. [j \in 0 .. 3 |-> 0] \in ByteMem(0 .. 3)
  <2>1. 0 \in Byte
    BY UnitAt DEF Byte
  <2> QED BY <2>1 DEF ByteMem
<1> QED BY <1>1, <1>2, <1>3 DEF Start, Typed, Machine

\* The invariant holds at the start.
LEMMA IsaInitOK == IsaInit => IsaInv
<1> SUFFICES ASSUME IsaInit PROVE IsaInv
  OBVIOUS
<1>1. PICK ram \in StartRam, v \in StartValue, w \in StartValue : st = [engine \in {"interp", "jit"} |-> Start(ram, v, w)]
  BY DEF IsaInit
<1>2. Typed(Start(ram, v, w))
  BY StartType
<1>3. st["interp"] = Start(ram, v, w) /\ st["jit"] = Start(ram, v, w)
  BY <1>1
<1> QED BY <1>2, <1>3 DEF IsaInv, IsaTypeInv, IsaInit, EnginesAgree

\* One step: what the interpreter does and what the dynarec does, on the machine with
\* the last branch and exception served.
Served(m) == [m EXCEPT !.next = "on", !.exc = "none"]

\* Both engines run one instruction on the same machine.
LEMMA StepOfBoth ==
  ASSUME IsaTypeInv, RunBoth
  PROVE  \E i \in Instruction, soft \in BOOLEAN :
           /\ Encoded(i) /\ Typed(Served(st["interp"])) /\ TlbOK(tlbNow) /\ Sensible(Served(st["interp"]), i)
           /\ st'["interp"] = Execute(Served(st["interp"]), i)
           /\ st'["jit"] = IF i.op \in Translated THEN Emitted(Served(st["jit"]), i, soft) ELSE Execute(Served(st["jit"]), i)
<1>1. PICK i \in Instruction, soft \in BOOLEAN :
         LET from(e) == [st[e] EXCEPT !.next = "on", !.exc = "none"]
         IN /\ Sensible(st["interp"], i)
            /\ st' = [interp |-> Execute(from("interp"), i),
                      jit |-> IF i.op \in Translated THEN Emitted(from("jit"), i, soft)
                                                     ELSE Execute(from("jit"), i)]
  BY DEF RunBoth
<1> DEFINE m0 == st["interp"]
           m == Served(m0)
<1>2. Typed(m0) /\ TlbOK(tlbNow)
  BY TlbIsOK DEF IsaTypeInv
<1>3. /\ st'["interp"] = Execute(m, i)
      /\ st'["jit"] = IF i.op \in Translated THEN Emitted(Served(st["jit"]), i, soft) ELSE Execute(Served(st["jit"]), i)
  BY <1>1 DEF Served
<1>4. Sensible(m0, i)
  BY <1>1
<1> HIDE DEF m0
<1>5. Typed(m) /\ m.gpr = m0.gpr
  BY <1>2 DEF Served, Typed, Machine
<1>6. Sensible(m, i)
  <2>1. \A r : Read(m, r) = Read(m0, r)
    BY <1>5 DEF Read
  <2>2. Vaddr(m, i) = Vaddr(m0, i)
    BY <2>1 DEF Vaddr
  <2> QED BY <1>4, <2>1, <2>2 DEF Sensible
<1>7. Encoded(i)
  BY IsaAssumption DEF Encoded
<1> QED BY <1>2, <1>3, <1>5, <1>6, <1>7 DEF m0

\* A step keeps the machines well-formed.
LEMMA TypesKept ==
  ASSUME IsaTypeInv, RunBoth
  PROVE  IsaTypeInv'
<1>1. PICK i \in Instruction :
           /\ Encoded(i) /\ Typed(Served(st["interp"])) /\ TlbOK(tlbNow) /\ Sensible(Served(st["interp"]), i)
           /\ st'["interp"] = Execute(Served(st["interp"]), i)
  BY StepOfBoth, Zenon
<1>2. Typed(Execute(Served(st["interp"]), i))
  BY <1>1, ExecuteType
<1>3. Typed(st'["interp"])
  BY <1>1, <1>2, Zenon
<1> QED BY <1>3 DEF IsaTypeInv, RunBoth, Typed

\* A step keeps the engines in agreement.
LEMMA AgreementKept ==
  ASSUME IsaInv, RunBoth, ~WideSra
  PROVE  EnginesAgree'
<1>0. IsaTypeInv /\ st["jit"] = st["interp"]
  BY DEF IsaInv, EnginesAgree
<1>1. PICK i \in Instruction, soft \in BOOLEAN :
           /\ Encoded(i) /\ Typed(Served(st["interp"])) /\ TlbOK(tlbNow) /\ Sensible(Served(st["interp"]), i)
           /\ st'["interp"] = Execute(Served(st["interp"]), i)
           /\ st'["jit"] = IF i.op \in Translated THEN Emitted(Served(st["jit"]), i, soft) ELSE Execute(Served(st["jit"]), i)
  BY <1>0, StepOfBoth, Zenon
<1>2. i.op \in Translated => Emitted(Served(st["interp"]), i, soft) = Execute(Served(st["interp"]), i)
  BY <1>1, EnginesAgreeOn
<1>3. st'["interp"] = st'["jit"]
  BY <1>0, <1>1, <1>2, Zenon
<1> QED BY <1>3 DEF EnginesAgree

\* The interpreter's machine is always well-formed.
LEMMA TypesInvariant == IsaSpec => []IsaTypeInv
<1>1. IsaTypeInv /\ [IsaNext]_isaVars => IsaTypeInv'
  <2> SUFFICES ASSUME IsaTypeInv, [IsaNext]_isaVars PROVE IsaTypeInv'
    OBVIOUS
  <2>1. CASE RunBoth
    BY <2>1, TypesKept
  <2>2. CASE UNCHANGED isaVars
    BY <2>2 DEF isaVars, IsaTypeInv, Typed
  <2> QED BY <2>1, <2>2 DEF IsaNext
<1>2. IsaInit => IsaTypeInv
  BY IsaInitOK DEF IsaInv
<1> QED BY <1>1, <1>2, PTL DEF IsaSpec

\* The interpreter (instruction_impl.cpp, mmu.cpp, bus.cpp, cop0.cpp) and the code
\* translate.cpp emits do the same, instruction by instruction, to registers, HI, LO,
\* memory, the next address and the pending exception. WideSra stands for the one known
\* exception (SRA of a register that is no sign-extended word), so it is assumed away.
THEOREM EnginesInterchangeable ==
  ASSUME ~WideSra
  PROVE  IsaSpec => []EnginesAgree
<1>1. IsaInv /\ [IsaNext]_isaVars => IsaInv'
  <2> SUFFICES ASSUME IsaInv, [IsaNext]_isaVars PROVE IsaInv'
    OBVIOUS
  <2>1. CASE RunBoth
    BY <2>1, TypesKept, AgreementKept DEF IsaInv
  <2>2. CASE UNCHANGED isaVars
    BY <2>2 DEF isaVars, IsaInv, IsaTypeInv, EnginesAgree, Typed
  <2> QED BY <2>1, <2>2 DEF IsaNext
<1>2. IsaInv => EnginesAgree
  BY DEF IsaInv
<1> QED BY <1>1, <1>2, IsaInitOK, PTL DEF IsaSpec

(***************************************************************************)
(* RDRAM as big-endian memory                                              *)
(***************************************************************************)

\* What a single-byte read returns.
LEMMA BytesAreNat ==
  ASSUME NEW n, NEW byte, AreBytes(n, byte), NEW k \in 0 .. n - 1
  PROVE  byte[k] \in Nat
  BY ByteIsNat DEF AreBytes

\* Partial sums of bytes are numbers.
LEMMA PartsAreNat ==
  ASSUME NEW n \in Nat, NEW byte, NEW part, AreBytes(n, byte), Parts(n, byte, part)
  PROVE  \A k \in 0 .. n : part[k] \in Nat
<1> DEFINE S == {k \in Nat : k <= n => part[k] \in Nat}
<1>1. 0 \in S
  BY DEF Parts
<1>2. ASSUME NEW k \in Nat, k \in S PROVE k + 1 \in S
  <2> SUFFICES ASSUME k + 1 <= n PROVE part[k + 1] \in Nat
    OBVIOUS
  <2>1. k \in 0 .. n - 1 /\ part[k] \in Nat
    BY <1>2
  <2>2. byte[k] \in Nat
    BY <2>1, ByteIsNat DEF AreBytes
  <2>3. part[k + 1] = part[k] * B(1) + byte[k]
    BY <2>1 DEF Parts
  <2> HIDE DEF S
  <2> QED BY <2>1, <2>2, <2>3, ByteIsNat
<1> HIDE DEF S
<1>3. \A k \in Nat : k \in S
  BY <1>1, <1>2, InductionOn
<1> QED BY <1>3 DEF S

\* Bytes in a row are the first ones and the rest.
LEMMA Joining ==
  ASSUME NEW a \in Nat, NEW b \in Nat, NEW byte, AreBytes(a + b, byte)
  PROVE  Joined(a + b, byte) = Joined(a, [k \in 0 .. a - 1 |-> byte[k]]) * B(b) + Joined(b, [k \in 0 .. b - 1 |-> byte[a + k]])
<1> DEFINE f == [k \in 0 .. a - 1 |-> byte[k]]
           g == [k \in 0 .. b - 1 |-> byte[a + k]]
<1>1. AreBytes(a, f) /\ AreBytes(b, g)
  BY DEF AreBytes
<1>2. PICK whole : Parts(a + b, byte, whole)
  BY PartsExist
<1>3. PICK first : Parts(a, f, first)
  BY <1>1, PartsExist
<1>4. PICK last : Parts(b, g, last)
  BY <1>1, PartsExist
<1>5. \A k \in 0 .. a + b : whole[k] \in Nat
  BY <1>2, PartsAreNat
<1>6. \A k \in 0 .. b : last[k] \in Nat
  BY <1>1, <1>4, PartsAreNat
<1>7. first[a] = whole[a]
  <2> DEFINE S == {k \in Nat : k <= a => first[k] = whole[k]}
  <2>1. 0 \in S
    BY <1>2, <1>3 DEF Parts
  <2>2. ASSUME NEW k \in Nat, k \in S PROVE k + 1 \in S
    <3> SUFFICES ASSUME k + 1 <= a PROVE first[k + 1] = whole[k + 1]
      OBVIOUS
    <3>1. k \in 0 .. a - 1 /\ k \in 0 .. a + b - 1 /\ first[k] = whole[k]
      BY <2>2
    <3>2. first[k + 1] = first[k] * B(1) + f[k]
      BY <1>3, <3>1 DEF Parts
    <3>3. whole[k + 1] = whole[k] * B(1) + byte[k]
      BY <1>2, <3>1 DEF Parts
    <3>4. f[k] = byte[k]
      BY <3>1
    <3> QED BY <3>1, <3>2, <3>3, <3>4, Zenon
  <2> HIDE DEF S
  <2>3. a \in S
    BY <2>1, <2>2, InductionOn
  <2> QED BY <2>3 DEF S
<1>8. whole[a + b] = whole[a] * B(b) + last[b]
  <2> DEFINE S == {k \in Nat : k <= b => whole[a + k] = whole[a] * B(k) + last[k]}
  <2>1. 0 \in S
    <3>1. last[0] = 0 /\ whole[a] \in Nat /\ B(0) = 1
      BY <1>4, <1>5, Units DEF Parts
    <3> QED BY <3>1
  <2>2. ASSUME NEW k \in Nat, k \in S PROVE k + 1 \in S
    <3> SUFFICES ASSUME k + 1 <= b PROVE whole[a + (k + 1)] = whole[a] * B(k + 1) + last[k + 1]
      OBVIOUS
    <3>1. k \in 0 .. b - 1 /\ a + k \in 0 .. a + b - 1 /\ whole[a + k] = whole[a] * B(k) + last[k]
      BY <2>2
    <3>2. last[k + 1] = last[k] * B(1) + byte[a + k]
      <4>1. g[k] = byte[a + k]
        BY <3>1
      <4> QED BY <1>4, <3>1, <4>1 DEF Parts
    <3>3. whole[(a + k) + 1] = whole[a + k] * B(1) + byte[a + k]
      BY <1>2, <3>1 DEF Parts
    <3>4. B(k + 1) = B(k) * B(1)
      BY Units
    <3> DEFINE w == whole[a]  p == B(k)  q == B(1)  l == last[k]  y == byte[a + k]
    <3>5. p \in Nat /\ q \in Nat
      BY UnitAt
    <3>6. w \in Nat /\ l \in Nat
      BY <1>5, <1>6, <3>1
    <3>7. y \in Nat
      BY <3>1, BytesAreNat
    <3>8. (a + k) + 1 = a + (k + 1)
      OBVIOUS
    <3>9. whole[a + (k + 1)] = (w * p + l) * q + y /\ w * B(k + 1) + last[k + 1] = w * (p * q) + (l * q + y)
      BY <3>1, <3>2, <3>3, <3>4, <3>8, Zenon
    <3> HIDE DEF w, p, q, l, y
    <3>10. (w * p + l) * q + y = w * (p * q) + (l * q + y)
      BY <3>5, <3>6, <3>7
    <3>11. whole[a + (k + 1)] = w * B(k + 1) + last[k + 1]
      BY <3>9, <3>10, Zenon
    <3> QED BY <3>11 DEF w
  <2> HIDE DEF S
  <2>3. b \in S
    BY <2>1, <2>2, InductionOn
  <2> QED BY <2>3 DEF S
<1>9. Joined(a + b, byte) = whole[a + b] /\ Joined(a, f) = first[a] /\ Joined(b, g) = last[b]
  BY <1>2, <1>3, <1>4 DEF Parts
<1> QED BY <1>7, <1>8, <1>9, Zenon

ByteAt(mem, p) == RamRead(mem, p, 1)
BytesAt(mem, p, n) == Joined(n, [k \in 0 .. n - 1 |-> ByteAt(mem, p + k)])

\* Where the host keeps the byte of an address.
LEMMA CellOf ==
  ASSUME NEW p \in Cells
  PROVE  /\ p \in Nat /\ p + (3 - 2 * (p % 4)) \in Cells
         /\ p ^^ 3 = p + (3 - 2 * (p % 4))
<1>1. p \in Nat
  BY IsaAssumption DEF Cells
<1>2. p ^^ 3 = p + (3 - 2 * (p % 4))
  BY <1>1, LaneXor
<1>3. p + (3 - 2 * (p % 4)) \in Cells
  BY <1>1, IsaAssumption DEF Cells
<1> QED BY <1>1, <1>2, <1>3

\* A single-byte read finds it.
LEMMA ByteAtIs ==
  ASSUME NEW mem \in ByteMem(Cells), NEW p \in Cells
  PROVE  ByteAt(mem, p) = mem[p + (3 - 2 * (p % 4))] /\ ByteAt(mem, p) \in Byte
<1> DEFINE x == p ^^ 3
<1>1. x \in Cells /\ x \in Int
  BY CellOf, IsaAssumption DEF Cells
<1>2. ByteAt(mem, p) = Host(mem, x, 1)
  BY DEF ByteAt, RamRead, HostIndex
<1>3. Host(mem, x, 1) = mem[x]
  <2> HIDE DEF x
  <2> QED BY <1>1, HostOne
<1>4. mem[x] \in Byte
  <2> HIDE DEF x
  <2> QED BY <1>1 DEF ByteMem
<1> QED BY <1>2, <1>3, <1>4, CellOf

\* Bytes read one by one, as a number.
LEMMA BytesAtJoined ==
  ASSUME NEW mem \in ByteMem(Cells), NEW p \in Nat, NEW a \in Nat, NEW b \in Nat, p + (a + b) <= RamSize
  PROVE  /\ BytesAt(mem, p, a + b) = BytesAt(mem, p, a) * B(b) + BytesAt(mem, p + a, b)
         /\ BytesAt(mem, p, a) \in 0 .. B(a) - 1
         /\ BytesAt(mem, p + a, b) \in 0 .. B(b) - 1
<1> DEFINE y(q) == ByteAt(mem, q)
           byte == [k \in 0 .. a + b - 1 |-> y(p + k)]
           f == [k \in 0 .. a - 1 |-> y(p + k)]
           g == [k \in 0 .. b - 1 |-> y((p + a) + k)]
<1>1. \A q \in p .. p + (a + b) - 1 : y(q) \in Byte
  <2> SUFFICES ASSUME NEW q \in p .. p + (a + b) - 1 PROVE y(q) \in Byte
    OBVIOUS
  <2>1. q \in Cells
    BY IsaAssumption DEF Cells
  <2> QED BY <2>1, ByteAtIs
<1> HIDE DEF y
<1>2. \A k \in 0 .. a + b - 1 : p + k \in p .. p + (a + b) - 1
  OBVIOUS
<1>3. AreBytes(a + b, byte)
  BY <1>1, <1>2 DEF AreBytes
<1>4. f = [k \in 0 .. a - 1 |-> byte[k]]
  OBVIOUS
<1>5. g = [k \in 0 .. b - 1 |-> byte[a + k]]
  OBVIOUS
<1>6. AreBytes(a, f) /\ AreBytes(b, g)
  <2>1. \A k \in 0 .. a - 1 : p + k \in p .. p + (a + b) - 1
    OBVIOUS
  <2>2. \A k \in 0 .. b - 1 : (p + a) + k \in p .. p + (a + b) - 1
    OBVIOUS
  <2> QED BY <1>1, <2>1, <2>2 DEF AreBytes
<1>7. Joined(a, f) \in 0 .. B(a) - 1 /\ Joined(b, g) \in 0 .. B(b) - 1
  BY <1>6, JoinedType
<1>8. Joined(a + b, byte) = Joined(a, f) * B(b) + Joined(b, g)
  <2> HIDE DEF f, g, byte
  <2> QED BY <1>3, <1>4, <1>5, Joining
<1> QED BY <1>7, <1>8 DEF BytesAt, y

\* The host's word is the four bytes in the console's order, from the highest address down.
LEMMA WordAt ==
  ASSUME NEW mem \in ByteMem(Cells), NEW p \in Nat, p % 4 = 0, p + 4 <= RamSize
  PROVE  Host(mem, p, 4) = BytesAt(mem, p, 4) /\ BytesAt(mem, p, 4) \in 0 .. B(4) - 1
<1> DEFINE f == [k \in 0 .. 4 - 1 |-> mem[p + 4 - 1 - k]]
           g == [k \in 0 .. 4 - 1 |-> ByteAt(mem, p + k)]
<1>1. ASSUME NEW k \in 0 .. 4 - 1 PROVE ByteAt(mem, p + k) = mem[p + 4 - 1 - k] /\ ByteAt(mem, p + k) \in Byte
  <2>1. p + k \in Cells
    BY IsaAssumption DEF Cells
  <2>2. (p + k) % 4 = k
    OBVIOUS
  <2>3. (p + k) + (3 - 2 * ((p + k) % 4)) = p + 4 - 1 - k
    BY <2>2
  <2> QED BY <2>1, <2>3, ByteAtIs
<1>2. f = g
  BY <1>1
<1>3. AreBytes(4, g)
  BY <1>1 DEF AreBytes
<1>4. Joined(4, g) \in 0 .. B(4) - 1
  <2> HIDE DEF g
  <2> QED BY <1>3, JoinedType
<1> QED BY <1>2, <1>4 DEF Host, BytesAt

\* The same for half a word.
LEMMA HalfAt ==
  ASSUME NEW mem \in ByteMem(Cells), NEW p \in Nat, p % 2 = 0, p + 2 <= RamSize
  PROVE  Host(mem, p ^^ 2, 2) = BytesAt(mem, p, 2)
<1> DEFINE x == IF p % 4 < 2 THEN p + 2 ELSE p - 2
           f == [k \in 0 .. 2 - 1 |-> mem[x + 2 - 1 - k]]
           g == [k \in 0 .. 2 - 1 |-> ByteAt(mem, p + k)]
<1>1. ASSUME NEW k \in 0 .. 2 - 1 PROVE ByteAt(mem, p + k) = mem[x + 2 - 1 - k]
  <2>1. p + k \in Cells
    BY IsaAssumption DEF Cells
  <2>2. (p + k) + (3 - 2 * ((p + k) % 4)) = x + 2 - 1 - k
    <3>1. CASE p % 4 = 0
      <4>1. (p + k) % 4 = k
        BY <3>1
      <4> QED BY <3>1, <4>1
    <3>2. CASE p % 4 = 2
      <4>1. (p + k) % 4 = k + 2
        BY <3>2
      <4> QED BY <3>2, <4>1
    <3>3. p % 4 = 0 \/ p % 4 = 2
      OBVIOUS
    <3> QED BY <3>1, <3>2, <3>3
  <2> QED BY <2>1, <2>2, ByteAtIs
<1>2. f = g
  BY <1>1
<1>3. p ^^ 2 = x
  BY LaneXor
<1> QED BY <1>2, <1>3 DEF Host, BytesAt

\* Aligned loads of every width.
LEMMA AlignedReads ==
  ASSUME NEW mem \in ByteMem(Cells), NEW n \in {2, 4, 8}, NEW p \in Cells, p % n = 0
  PROVE  RamRead(mem, p, n) = BytesAt(mem, p, n)
<1>1. p \in Nat /\ RamSize \in Nat /\ RamSize % 8 = 0 /\ p < RamSize
  BY IsaAssumption DEF Cells
<1>2. CASE n = 2
  <2>1. p + 2 <= RamSize
    BY <1>1, <1>2
  <2> QED BY <1>1, <1>2, <2>1, HalfAt DEF RamRead, HostIndex
<1>3. CASE n = 4
  <2>1. p + 4 <= RamSize
    BY <1>1, <1>3
  <2> QED BY <1>1, <1>3, <2>1, WordAt DEF RamRead, HostIndex
<1>4. CASE n = 8
  <2>1. p + 8 <= RamSize /\ p % 4 = 0 /\ (p + 4) % 4 = 0 /\ p + 4 <= RamSize /\ (p + 4) + 4 <= RamSize /\ p + 4 \in Nat
    BY <1>1, <1>4
  <2>2. Host(mem, p, 4) = BytesAt(mem, p, 4) /\ Host(mem, p + 4, 4) = BytesAt(mem, p + 4, 4)
    BY <1>1, <2>1, WordAt
  <2>3. BytesAt(mem, p, 4 + 4) = BytesAt(mem, p, 4) * B(4) + BytesAt(mem, p + 4, 4)
    <3>1. p + (4 + 4) <= RamSize
      BY <2>1
    <3> QED BY <1>1, <3>1, BytesAtJoined
  <2>4. 4 + 4 = 8
    OBVIOUS
  <2>5. RamRead(mem, p, 8) = Host(mem, p, 4) * B(4) + Host(mem, p + 4, 4)
    BY DEF RamRead
  <2> QED BY <1>4, <2>2, <2>3, <2>4, <2>5, Zenon
<1> QED BY <1>2, <1>3, <1>4

(***************************************************************************)
(* The two parts of an unaligned word                                      *)
(***************************************************************************)

\* Two aligned words, the first from its byte o on and the second before it.
LEMMA TwoParts ==
  ASSUME NEW mem \in ByteMem(Cells), NEW u \in Nat, u % 4 = 0, NEW o \in 1 .. 3, u + 8 <= RamSize, NEW old \in Nat
  PROVE  /\ KeepLow(old, BytesAt(mem, u, 4), ByteBits * o, 4) \in 0 .. B(4) - 1
         /\ KeepHigh(KeepLow(old, BytesAt(mem, u, 4), ByteBits * o, 4), BytesAt(mem, u + 4, 4), ByteBits * (4 - o), 4)
              = BytesAt(mem, u + o, 4)
<1> DEFINE c == 4 - o
           w == BytesAt(mem, u, 4)  w2 == BytesAt(mem, u + 4, 4)
           h == BytesAt(mem, u, o)  r == BytesAt(mem, u + o, c)
           h2 == BytesAt(mem, u + 4, o)  r2 == BytesAt(mem, (u + 4) + o, c)
           bo == B(o)  bc == B(c)  b4 == B(4)
<1>1. o \in Nat /\ c \in Nat /\ o + c = 4 /\ c + o = 4 /\ o # 0 /\ c # 0 /\ (u + o) + c = u + 4
  OBVIOUS
<1>2. w = h * bc + r /\ h \in 0 .. bo - 1 /\ r \in 0 .. bc - 1
  <2>1. u + (o + c) <= RamSize
    BY IsaAssumption
  <2> HIDE DEF c
  <2>2. /\ BytesAt(mem, u, o + c) = BytesAt(mem, u, o) * B(c) + BytesAt(mem, u + o, c)
        /\ BytesAt(mem, u, o) \in 0 .. B(o) - 1 /\ BytesAt(mem, u + o, c) \in 0 .. B(c) - 1
    BY <1>1, <2>1, BytesAtJoined
  <2> QED BY <1>1, <2>2
<1>3. w2 = h2 * bc + r2 /\ h2 \in 0 .. bo - 1 /\ r2 \in 0 .. bc - 1
  <2> DEFINE v == u + 4
  <2>1. v \in Nat /\ v + (o + c) <= RamSize
    BY IsaAssumption
  <2> HIDE DEF c, v
  <2>2. /\ BytesAt(mem, v, o + c) = BytesAt(mem, v, o) * B(c) + BytesAt(mem, v + o, c)
        /\ BytesAt(mem, v, o) \in 0 .. B(o) - 1 /\ BytesAt(mem, v + o, c) \in 0 .. B(c) - 1
    BY <1>1, <2>1, BytesAtJoined
  <2> QED BY <1>1, <2>2 DEF v
<1>4. BytesAt(mem, u + o, 4) = r * bo + h2
  <2>1. u + o \in Nat /\ (u + o) + (c + o) <= RamSize
    BY IsaAssumption
  <2> HIDE DEF c
  <2>2. BytesAt(mem, u + o, c + o) = BytesAt(mem, u + o, c) * B(o) + BytesAt(mem, (u + o) + c, o)
    BY <1>1, <2>1, BytesAtJoined
  <2> QED BY <1>1, <2>2
<1>5. bo \in Nat \ {0} /\ bc \in Nat \ {0} /\ b4 \in Nat \ {0} /\ b4 = bo * bc /\ b4 = bc * bo
  <2> HIDE DEF c
  <2>1. B(o + c) = B(o) * B(c) /\ B(c + o) = B(c) * B(o)
    BY <1>1, Units
  <2> QED BY <1>1, <2>1, UnitAt
<1>6. Pow2[ByteBits * o] = bo /\ Pow2[ByteBits * c] = bc /\ Pow2[4 * ByteBits - ByteBits * c] = bo /\ Pow2[4 * ByteBits - ByteBits * o] = bc
  <2>1. ByteBits \in Nat
    BY IsaAssumption
  <2>2. 4 * ByteBits - ByteBits * c = ByteBits * o /\ 4 * ByteBits - ByteBits * o = ByteBits * c
    BY <2>1
  <2>3. ByteBits * o = o * ByteBits /\ ByteBits * c = c * ByteBits
    BY <2>1
  <2> QED BY <2>2, <2>3, Zenon DEF B
<1> DEFINE k == KeepLow(old, w, ByteBits * o, 4)  z == KeepHigh(k, w2, ByteBits * c, 4)
<1>7. k = (old % bo) + Low(w * bo, 4)
  BY <1>6, Zenon DEF KeepLow
<1>8. z = (k \div bo) * bo + Low(w2, 4) \div bc
  BY <1>6, Zenon DEF KeepHigh
<1>9. w2 \in 0 .. b4 - 1
  <2>1. u + 4 \in Nat /\ (u + 4) % 4 = 0 /\ (u + 4) + 4 <= RamSize
    BY IsaAssumption
  <2> QED BY <2>1, WordAt
<1> HIDE DEF w, w2, h, r, h2, r2, bo, bc, k, z, c
<1>10. Low(w2, 4) = w2
  BY <1>9, LowIs DEF b4
<1>11. w2 \div bc = h2
  BY <1>3, <1>5, RemainderIs
<1>12. Low(w * bo, 4) = r * bo /\ r * bo + bo <= b4
  <2>1. w * bo = h * b4 + r * bo
    <3>1. (h * bc + r) * bo = h * (bc * bo) + r * bo
      BY <1>2, <1>3, <1>5
    <3> QED BY <1>2, <1>5, <3>1
  <2>2. (r + 1) * bo <= bc * bo /\ (r + 1) * bo = r * bo + bo /\ r * bo \in Nat
    BY <1>2, <1>5
  <2> DEFINE x == w * bo  y == r * bo
  <2>3. x \in Int /\ y \in 0 .. b4 - 1 /\ h \in Int /\ x = h * b4 + y
    BY <1>2, <1>5, <2>1, <2>2
  <2> HIDE DEF b4, x, y
  <2>4. x % b4 = y
    BY <1>5, <2>3, RemainderIs
  <2> QED BY <1>5, <2>2, <2>4 DEF Low, b4, x, y
<1>13. old % bo \in 0 .. bo - 1
  BY <1>5
<1>14. k = r * bo + (old % bo)
  BY <1>2, <1>5, <1>7, <1>12, <1>13
<1>15. k \in 0 .. b4 - 1
  BY <1>2, <1>5, <1>12, <1>13, <1>14
<1>16. k \div bo = r
  <2> DEFINE y == old % bo
  <2>1. k = r * bo + y /\ y \in 0 .. bo - 1 /\ r \in Int /\ k \in Int
    BY <1>2, <1>5, <1>13, <1>14, <1>15
  <2> HIDE DEF y
  <2> QED BY <1>5, <2>1, RemainderIs
<1>17. z = r * bo + h2
  BY <1>8, <1>10, <1>11, <1>16
<1> QED BY <1>4, <1>15, <1>17 DEF k, z, w, w2, b4, c

\* The instruction LWL or LWR on r2 at the address in r1, and r1 aimed at a cell of RDRAM.
PartAt(op) == [op |-> op, rs |-> 1, rt |-> 2, rd |-> 0, sa |-> 0, imm |-> 0]
Aimed(m, p) == [m EXCEPT !.gpr[1] = p + B(4) \div 2]

\* The lower half of the address space holds RDRAM.
LEMMA HalfOfSpace ==
  /\ B(4) \div 2 \in Nat \ {0} /\ (B(4) \div 2) % 4 = 0 /\ B(4) = 2 * (B(4) \div 2)
  /\ B(4) <= B(8)
<1> DEFINE k == 4 * ByteBits - 3  e == Pow2[k]
<1>1. k \in Nat /\ 3 + k = 4 * ByteBits
  BY IsaAssumption
<1>2. Pow2[3] = 8
  <2>1. Pow2[0] = 1 /\ Pow2[0 + 1] = 2 * Pow2[0] /\ Pow2[1 + 1] = 2 * Pow2[1] /\ Pow2[2 + 1] = 2 * Pow2[2]
    BY Pow2Step
  <2> QED BY <2>1
<1>3. B(4) = 8 * e
  <2> HIDE DEF k
  <2>1. Pow2[3 + k] = Pow2[3] * Pow2[k]
    BY <1>1, Pow2Sum
  <2> QED BY <1>1, <1>2, <2>1, Zenon DEF B
<1>4. e \in Nat \ {0}
  BY <1>1, Pow2Type
<1>5. B(4) <= B(8)
  BY Units
<1> DEFINE b4 == B(4)
<1>6. b4 = 8 * e
  BY <1>3
<1> HIDE DEF b4, e
<1>7. b4 \div 2 = 4 * e
  BY <1>4, <1>6
<1>8. (4 * e) % 4 = 0
  BY <1>4
<1>9. b4 \div 2 \in Nat \ {0} /\ (b4 \div 2) % 4 = 0 /\ b4 = 2 * (b4 \div 2)
  BY <1>4, <1>6, <1>7, <1>8
<1> QED BY <1>5, <1>9 DEF b4

\* An unaligned load at the cell that r1 is aimed at.
LEMMA AimedAt ==
  ASSUME NEW m, Typed(m), NEW p \in Cells, NEW op
  PROVE  /\ Typed(Aimed(m, p)) /\ Aimed(m, p).ram = m.ram /\ Aimed(m, p).gpr[2] = m.gpr[2]
         /\ Read(Aimed(m, p), 2) = m.gpr[2] /\ m.gpr[2] \in Values
         /\ Resolve(Vaddr(Aimed(m, p), PartAt(op))) = p
         /\ Vaddr(Aimed(m, p), PartAt(op)) % 4 = p % 4
<1> DEFINE x == Aimed(m, p)  h == B(4) \div 2  i == PartAt(op)
<1>0. 1 \in 1 .. LastReg /\ 2 \in 1 .. LastReg
  BY IsaAssumption
<1>1. p \in Nat /\ p < h /\ h \in Nat \ {0} /\ h % 4 = 0 /\ B(4) = 2 * h /\ B(4) <= B(8) /\ B(4) \in Nat
  BY HalfOfSpace, IsaAssumption DEF Cells
<1> HIDE DEF h
<1>2. p + h \in 0 .. B(4) - 1
  BY <1>1
<1>3. p + h \in Values
  BY <1>1, <1>2, UnitAt DEF Values
<1>4. x = [m EXCEPT !.gpr[1] = p + h]
  BY DEF Aimed, h
<1>5. m.gpr \in [1 .. LastReg -> Values]
  BY Fields
<1>6. Typed(x) /\ x.ram = m.ram /\ x.gpr[2] = m.gpr[2] /\ x.gpr[1] = p + h /\ m.gpr[2] \in Values
  <2> DEFINE v == p + h
  <2> HIDE DEF v
  <2>1. x = Write(m, 1, v) /\ 1 \in 0 .. LastReg /\ v \in Values
    BY <1>0, <1>3, <1>4 DEF Write, v
  <2>2. Typed(x)
    BY <2>1, WriteType
  <2>3. m \in Machine(m.next, m.exc) /\ x = [m EXCEPT !.gpr[1] = v]
    BY <1>4 DEF Typed, v
  <2> HIDE DEF x
  <2>4. x.ram = m.ram /\ x.gpr = [m.gpr EXCEPT ![1] = v]
    BY <2>3 DEF Machine
  <2>5. x.gpr[2] = m.gpr[2] /\ x.gpr[1] = v /\ m.gpr[2] \in Values
    <3>1. \A g \in [1 .. LastReg -> Values] : [g EXCEPT ![1] = v][2] = g[2] /\ [g EXCEPT ![1] = v][1] = v /\ g[2] \in Values
      BY <1>0
    <3> QED BY <1>5, <2>4, <3>1
  <2> QED BY <2>2, <2>4, <2>5 DEF v
<1>7. Sext(0, 2) = 0
  <2>1. 0 \in -(B(2) \div 2) .. B(2) \div 2 - 1 /\ 2 \in Nat \ {0}
    <3>1. 2 \in Nat \ {0}
      OBVIOUS
    <3>2. B(2) \div 2 \in Nat \ {0}
      BY <3>1, Units
    <3> QED BY <3>2
  <2>2. Sign(0, 2) = 0
    BY <2>1, SignIs
  <2>3. 0 \in 0 .. B(8) - 1 /\ 8 \in Nat
    BY Bits DEF Values
  <2>4. Low(0, 8) = 0
    BY <2>3, LowIs
  <2> QED BY <2>2, <2>4 DEF Sext
<1>8. Vaddr(x, i) = p + h
  <2> HIDE DEF x
  <2>1. i.rs = 1 /\ i.imm = 0
    BY DEF PartAt
  <2>2. Read(x, i.rs) = p + h
    BY <1>6, <2>1 DEF Read
  <2>3. Vaddr(x, i) = Low((p + h) + 0, 4)
    BY <1>7, <2>1, <2>2 DEF Vaddr
  <2>4. (p + h) + 0 = p + h
    BY <1>1
  <2>5. Low(p + h, 4) = p + h
    <3> DEFINE y == p + h
    <3>1. y \in 0 .. B(4) - 1 /\ 4 \in Nat
      BY <1>2
    <3> HIDE DEF y
    <3>2. Low(y, 4) = y
      BY <3>1, LowIs
    <3> QED BY <3>2 DEF y
  <2> QED BY <2>3, <2>4, <2>5
<1>9. Resolve(p + h) = p
  <2>1. Direct(p + h)
    BY <1>1 DEF Direct, h
  <2>2. Resolve(p + h) = (p + h) - h
    BY <2>1 DEF Resolve, h
  <2> QED BY <1>1, <2>2
<1>10. (p + h) % 4 = p % 4
  BY <1>1
<1>11. Read(x, 2) = x.gpr[2]
  BY DEF Read
<1> HIDE DEF x, i
<1> QED BY <1>6, <1>8, <1>9, <1>10, <1>11 DEF x, i

\* What LWL and LWR leave in r2.
LEMMA LoadPartAt ==
  ASSUME NEW m, Typed(m), NEW p \in Cells, NEW op \in {"LWL", "LWR"}
  PROVE  LET o == p % 4
             w == BytesAt(m.ram, p - o, 4)
             old == Low(m.gpr[2], 4)
             y == Sext(IF op = "LWL" THEN KeepLow(old, w, ByteBits * o, 4) ELSE KeepHigh(old, w, ByteBits * (3 - o), 4), 4)
         IN LoadPart(Aimed(m, p), PartAt(op)) = [Aimed(m, p) EXCEPT !.gpr[2] = y]
<1> DEFINE o == p % 4
           w == BytesAt(m.ram, p - o, 4)
           old == Low(m.gpr[2], 4)
           z == IF op = "LWL" THEN KeepLow(old, w, ByteBits * o, 4) ELSE KeepHigh(old, w, ByteBits * (3 - o), 4)
           x == Aimed(m, p)  i == PartAt(op)  va == Vaddr(x, i)
<1>1. x.ram = m.ram /\ Read(x, 2) = m.gpr[2] /\ Resolve(va) = p /\ va % 4 = o
  BY AimedAt
<1>2. i.op = op /\ i.rt = 2 /\ Bytes(op) = 4 /\ (i.op \in {"LWL", "LDL"} <=> op = "LWL")
  BY DEF PartAt, Bytes
<1>3. p \in Nat /\ p - o \in Nat /\ (p - o) % 4 = 0 /\ (p - o) + 4 <= RamSize /\ 4 \in Widths
  BY IsaAssumption DEF Cells, Widths
<1>4. p # NoPage
  BY <1>3, IsaAssumption
<1>5. BusRead(x, p - o, 4) = w
  <2> DEFINE u == p - o
  <2> HIDE DEF o
  <2>1. u \in Nat /\ u % 4 = 0 /\ u + 4 <= RamSize
    BY <1>3
  <2> HIDE DEF u
  <2>2. m.ram \in ByteMem(Cells)
    BY Fields
  <2>3. InRdram(u, 4)
    BY <2>1 DEF InRdram
  <2>4. BusRead(x, u, 4) = RamRead(x.ram, u, 4)
    BY <1>3, <2>1, <2>3, InRdramIs
  <2>5. RamRead(m.ram, u, 4) = Host(m.ram, u, 4)
    BY DEF RamRead, HostIndex
  <2>6. Host(m.ram, u, 4) = BytesAt(m.ram, u, 4)
    BY <2>1, <2>2, WordAt
  <2> QED BY <1>1, <2>4, <2>5, <2>6 DEF u
<1> HIDE DEF x, i, va, w, o
<1>6. LoadPart(x, i) = Write(x, 2, Sext(z, 4))
  <2>1. Unit(p, 4) = p - o
    BY DEF Unit, o
  <2>2. LeftShift(va, 4) = ByteBits * o /\ RightShift(va, 4) = ByteBits * (3 - o)
    BY <1>1 DEF LeftShift, RightShift
  <2> QED BY <1>1, <1>2, <1>4, <1>5, <2>1, <2>2, Zenon DEF LoadPart, va
<1> HIDE DEF z
<1>7. Write(x, 2, Sext(z, 4)) = [x EXCEPT !.gpr[2] = Sext(z, 4)]
  BY DEF Write
<1> QED BY <1>6, <1>7, Zenon DEF x, i, z, w, o, old

\* LWL and LWR in turn leave the word at the address.
LEMMA PartPair ==
  ASSUME NEW m, Typed(m), NEW p \in 0 .. RamSize - 4
  PROVE  LoadPart(Aimed(LoadPart(Aimed(m, p), PartAt("LWL")), p + 3), PartAt("LWR")).gpr[2] = Word(BytesAt(m.ram, p, 4))
<1> DEFINE o == p % 4
           w == BytesAt(m.ram, p - o, 4)
           old == Low(m.gpr[2], 4)
           k == KeepLow(old, w, ByteBits * o, 4)
           x == Aimed(m, p)
           left == LoadPart(x, PartAt("LWL"))
           q == p + 3  oq == q % 4
           wq == BytesAt(m.ram, q - oq, 4)
           z == KeepHigh(k, wq, ByteBits * (3 - oq), 4)
<1>1. p \in Cells /\ q \in Cells /\ p \in Nat
  BY IsaAssumption DEF Cells
<1>2. left = [x EXCEPT !.gpr[2] = Sext(k, 4)]
  <2>1. "LWL" \in {"LWL", "LWR"}
    OBVIOUS
  <2> QED BY <1>1, <2>1, LoadPartAt
<1>3. Typed(x) /\ x.ram = m.ram /\ m.gpr[2] \in Values
  BY <1>1, AimedAt
<1>4. m.ram \in ByteMem(Cells)
  BY Fields
<1>5. old \in Nat
  <2>1. m.gpr[2] \in Int /\ 4 \in Nat \ {0}
    BY <1>3, ValueInt
  <2> QED BY <2>1, Parts4
<1>6. k \in 0 .. B(4) - 1 /\ z = BytesAt(m.ram, p, 4)
  <2>1. CASE o = 0
    <3>1. p - o = p /\ oq = 3 /\ 3 - oq = 0 /\ q - oq = p /\ p % 4 = 0 /\ p + 4 <= RamSize
      BY <1>1, <2>1, IsaAssumption
    <3>2. w \in 0 .. B(4) - 1 /\ w = BytesAt(m.ram, p, 4) /\ wq = w
      BY <1>1, <1>4, <3>1, WordAt
    <3>3. Pow2[0] = 1 /\ ByteBits * 0 = 0 /\ 4 * ByteBits - 0 = 4 * ByteBits
      BY Pow2Step, IsaAssumption
    <3> DEFINE b4 == B(4)
    <3>4. k = (old % 1) + Low(w * 1, 4)
      BY <2>1, <3>3, Zenon DEF KeepLow
    <3>5. z = (k \div b4) * b4 + Low(w, 4) \div 1
      BY <3>1, <3>2, <3>3, Zenon DEF KeepHigh, B
    <3> HIDE DEF w, wq, k, z, old, o, oq
    <3>6. Low(w, 4) = w
      BY <3>2, LowIs
    <3>7. b4 \in Nat \ {0} /\ w \in 0 .. b4 - 1
      BY <3>2, UnitAt
    <3> HIDE DEF b4
    <3>8. w * 1 = w /\ old % 1 = 0 /\ w \div 1 = w
      BY <1>5, <3>7
    <3>9. k = w
      BY <3>4, <3>6, <3>7, <3>8
    <3>10. k \div b4 = 0
      BY <3>7, <3>9
    <3>11. z = w
      BY <3>5, <3>6, <3>7, <3>8, <3>10
    <3> QED BY <3>2, <3>9, <3>11
  <2>2. CASE o # 0
    <3> DEFINE u == p - o
    <3>1. o \in 1 .. 3 /\ u \in Nat /\ u % 4 = 0 /\ u + 8 <= RamSize /\ u + o = p
      BY <1>1, <2>2, IsaAssumption
    <3>2. oq = o - 1 /\ 3 - oq = 4 - o /\ q - oq = u + 4
      BY <1>1, <2>2
    <3>3. k = KeepLow(old, BytesAt(m.ram, u, 4), ByteBits * o, 4)
      OBVIOUS
    <3>4. z = KeepHigh(k, BytesAt(m.ram, u + 4, 4), ByteBits * (4 - o), 4)
      BY <3>2, Zenon
    <3> HIDE DEF w, wq, k, z, old, o, oq, u, q
    <3>5. /\ KeepLow(old, BytesAt(m.ram, u, 4), ByteBits * o, 4) \in 0 .. B(4) - 1
          /\ KeepHigh(KeepLow(old, BytesAt(m.ram, u, 4), ByteBits * o, 4), BytesAt(m.ram, u + 4, 4), ByteBits * (4 - o), 4)
               = BytesAt(m.ram, u + o, 4)
      BY <1>4, <1>5, <3>1, TwoParts
    <3> QED BY <3>1, <3>3, <3>4, <3>5
  <2> QED BY <2>1, <2>2
<1> HIDE DEF k, z, x, left, q
<1>7. k \in Int /\ 4 \in Nat \ {0} /\ 4 <= 8
  BY <1>6, UnitAt
<1>8. Sext(k, 4) \in Values /\ Low(Sext(k, 4), 4) = k
  <2>1. Low(k, 4) = k
    BY <1>6, LowIs
  <2> QED BY <1>7, <2>1, SextValue, SextRules
<1>9. 2 \in 1 .. LastReg /\ x.gpr \in [1 .. LastReg -> Values]
  BY <1>3, Fields, IsaAssumption
<1>10. Typed(left) /\ left.ram = m.ram /\ left.gpr[2] = Sext(k, 4)
  <2>1. left = Write(x, 2, Sext(k, 4)) /\ 2 \in 0 .. LastReg
    BY <1>2, <1>9 DEF Write
  <2>2. Typed(left)
    BY <1>3, <1>8, <2>1, WriteType
  <2> QED BY <1>2, <1>3, <1>9, <2>2 DEF Typed, Machine
<1>11. LoadPart(Aimed(left, q), PartAt("LWR")) = [Aimed(left, q) EXCEPT !.gpr[2] = Sext(z, 4)]
  <2>1. "LWR" \in {"LWL", "LWR"} /\ "LWR" # "LWL"
    OBVIOUS
  <2>2. Low(left.gpr[2], 4) = k /\ left.ram = m.ram
    BY <1>8, <1>10
  <2>3. LoadPart(Aimed(left, q), PartAt("LWR")) =
          [Aimed(left, q) EXCEPT !.gpr[2] = Sext(KeepHigh(Low(left.gpr[2], 4), BytesAt(left.ram, q - (q % 4), 4), ByteBits * (3 - (q % 4)), 4), 4)]
    BY <1>1, <1>10, <2>1, LoadPartAt
  <2> QED BY <2>2, <2>3, Zenon DEF z
<1>12. Typed(Aimed(left, q))
  BY <1>1, <1>10, AimedAt
<1>13. Aimed(left, q).gpr \in [1 .. LastReg -> Values] /\ Typed(Aimed(left, q))
  BY <1>12, Fields
<1>14. LoadPart(Aimed(left, q), PartAt("LWR")).gpr[2] = Sext(z, 4)
  <2> DEFINE a == Aimed(left, q)
  <2> HIDE DEF a
  <2>1. a.gpr \in [1 .. LastReg -> Values] /\ a \in Machine(a.next, a.exc)
    BY <1>13 DEF a, Typed
  <2>2. [a EXCEPT !.gpr[2] = Sext(z, 4)].gpr[2] = Sext(z, 4)
    BY <1>9, <2>1 DEF Machine
  <2> QED BY <1>11, <2>2 DEF a
<1> QED BY <1>6, <1>14 DEF left, x, q, Word

\* Storing a double word is storing its bytes.
LEMMA DoubleBytes ==
  ASSUME NEW v \in Values, NEW j \in 0 .. 3
  PROVE  (v \div B(4)) \div B(j) = v \div B(4 + j)
<1>1. v \in Int /\ j \in Nat /\ 4 \in Nat
  BY ValueInt
<1>2. B(4 + j) = B(4) * B(j)
  BY <1>1, Units
<1> DEFINE a == B(4)  b == B(j)
<1>3. a \in Nat \ {0} /\ b \in Nat \ {0}
  BY <1>1, UnitAt
<1> HIDE DEF a, b
<1>4. (v \div a) \div b = v \div (a * b)
  BY <1>1, <1>3, QuotientOfQuotient
<1> QED BY <1>2, <1>4 DEF a, b

\* The host's cell of an address.
Cell(q) == q + (3 - 2 * (q % 4))

\* Where a store puts what.
LEMMA StoredCells ==
  ASSUME NEW n \in {1, 2, 4}, NEW p \in Cells, p % n = 0, NEW q \in Cells
  PROVE  LET x == HostIndex(p, n)
         IN /\ Cell(q) \in x .. x + n - 1 <=> q \in p .. p + n - 1
            /\ q \in p .. p + n - 1 => Cell(q) - x = p + n - 1 - q
<1>1. p \in Nat /\ q \in Nat
  BY IsaAssumption DEF Cells
<1>2. CASE n = 1
  <2>1. HostIndex(p, n) = Cell(p)
    BY <1>1, <1>2, CellOf DEF HostIndex, Cell
  <2>2. Cell(q) = Cell(p) <=> q = p
    BY <1>1 DEF Cell
  <2>3. Cell(p) \in Int /\ Cell(q) \in Int
    BY <1>1 DEF Cell
  <2> HIDE DEF Cells
  <2> QED BY <1>1, <1>2, <2>1, <2>2, <2>3
<1>3. CASE n = 2
  <2>1. HostIndex(p, n) = IF p % 4 < 2 THEN p + 2 ELSE p - 2
    BY <1>1, <1>3, LaneXor DEF HostIndex
  <2>2. p % 4 = 0 \/ p % 4 = 2
    BY <1>1, <1>3
  <2>3. CASE p % 4 = 0
    <3>1. HostIndex(p, n) = p + 2
      BY <2>1, <2>3
    <3>2. Cell(q) \in p + 2 .. p + 3 <=> q \in p .. p + 1
      BY <1>1, <2>3 DEF Cell
    <3>3. q \in p .. p + 1 => Cell(q) - (p + 2) = p + 1 - q
      BY <1>1, <2>3 DEF Cell
    <3> QED BY <1>1, <1>3, <3>1, <3>2, <3>3
  <2>4. CASE p % 4 = 2
    <3>1. HostIndex(p, n) = p - 2
      BY <2>1, <2>4
    <3>2. Cell(q) \in p - 2 .. p - 1 <=> q \in p .. p + 1
      BY <1>1, <2>4 DEF Cell
    <3>3. q \in p .. p + 1 => Cell(q) - (p - 2) = p + 1 - q
      BY <1>1, <2>4 DEF Cell
    <3> QED BY <1>1, <1>3, <3>1, <3>2, <3>3
  <2> QED BY <2>2, <2>3, <2>4
<1>4. CASE n = 4
  <2>1. HostIndex(p, n) = p
    BY <1>4 DEF HostIndex
  <2>2. p % 4 = 0
    BY <1>4
  <2>3. Cell(q) \in p .. p + 3 <=> q \in p .. p + 3
    BY <1>1, <2>2 DEF Cell
  <2>4. q \in p .. p + 3 => Cell(q) - p = p + 3 - q
    BY <1>1, <2>2 DEF Cell
  <2> QED BY <1>1, <1>4, <2>1, <2>3, <2>4
<1> QED BY <1>2, <1>3, <1>4

\* A byte read back after up to a word has been stored.
LEMMA StoredBytes ==
  ASSUME NEW mem \in ByteMem(Cells), NEW n \in {1, 2, 4}, NEW p \in Cells, p % n = 0, NEW v \in Int, NEW q \in Cells
  PROVE  LET after == Stored(mem, HostIndex(p, n), n, v)
         IN /\ after \in ByteMem(Cells)
            /\ ByteAt(after, q) = IF q \in p .. p + n - 1 THEN (v \div B(p + n - 1 - q)) % B(1) ELSE ByteAt(mem, q)
<1> DEFINE x == HostIndex(p, n)
           after == Stored(mem, x, n, v)
<1>1. x \in Int /\ n \in Nat
  <2>1. p \in Nat /\ n \in Widths
    BY IsaAssumption DEF Cells, Widths
  <2> QED BY <2>1, HostIndexType
<1>2. after \in ByteMem(Cells)
  <2> HIDE DEF x
  <2> QED BY <1>1, StoredType
<1>3. ByteAt(after, q) = after[Cell(q)] /\ ByteAt(mem, q) = mem[Cell(q)]
  <2> HIDE DEF after
  <2> QED BY <1>2, ByteAtIs DEF Cell
<1>4. Cell(q) \in DOMAIN mem
  BY CellOf DEF Cell, ByteMem
<1>5. after[Cell(q)] = IF Cell(q) \in x .. x + n - 1 THEN (v \div B(Cell(q) - x)) % B(1) ELSE mem[Cell(q)]
  <2> HIDE DEF x
  <2> QED BY <1>4 DEF Stored
<1>6. /\ Cell(q) \in x .. x + n - 1 <=> q \in p .. p + n - 1
      /\ q \in p .. p + n - 1 => Cell(q) - x = p + n - 1 - q
  BY StoredCells
<1> HIDE DEF after, x
<1>7. ByteAt(after, q) = IF q \in p .. p + n - 1 THEN (v \div B(p + n - 1 - q)) % B(1) ELSE ByteAt(mem, q)
  BY <1>3, <1>5, <1>6, Zenon
<1> QED BY <1>2, <1>7 DEF after, x

\* The same for a store of any width.
LEMMA AlignedWrites ==
  ASSUME NEW mem \in ByteMem(Cells), NEW n \in Widths, NEW p \in Cells, p % n = 0, NEW v \in Values, NEW q \in Cells
  PROVE  ByteAt(RamWrite(mem, p, n, v), q) =
           IF q \in p .. p + n - 1 THEN (v \div B(p + n - 1 - q)) % B(1) ELSE ByteAt(mem, q)
<1>1. p \in Nat /\ q \in Nat /\ v \in Int /\ v \in Nat
  BY ValueInt, IsaAssumption DEF Cells
<1>2. CASE n # 8
  <2>1. n \in {1, 2, 4}
    BY <1>2 DEF Widths
  <2>2. RamWrite(mem, p, n, v) = Stored(mem, HostIndex(p, n), n, v)
    BY <1>2 DEF RamWrite
  <2> QED BY <1>1, <2>1, <2>2, StoredBytes
<1>3. CASE n = 8
  <2> DEFINE h == v \div B(4)
             half == Stored(mem, p, 4, h)
             r == p + 4
             after == Stored(half, r, 4, v)
  <2>1. RamWrite(mem, p, n, v) = after
    BY <1>3 DEF RamWrite
  <2>2. h \in Int
    <3> DEFINE b == B(4)
    <3>1. b \in Nat \ {0}
      BY UnitAt
    <3> HIDE DEF b
    <3>2. v \div b \in Int
      BY <1>1, <3>1
    <3> QED BY <3>2 DEF b
  <2>3. p % 4 = 0 /\ r % 4 = 0 /\ r \in Cells /\ r \in Nat
    BY <1>1, <1>3, IsaAssumption DEF Cells
  <2>4. HostIndex(p, 4) = p /\ HostIndex(r, 4) = r /\ 4 \in {1, 2, 4}
    BY DEF HostIndex
  <2>5. /\ half \in ByteMem(Cells)
        /\ ByteAt(half, q) = IF q \in p .. p + 4 - 1 THEN (h \div B(p + 4 - 1 - q)) % B(1) ELSE ByteAt(mem, q)
    <3> HIDE DEF h, r
    <3> QED BY <2>2, <2>3, <2>4, StoredBytes
  <2>6. ByteAt(after, q) = IF q \in r .. r + 4 - 1 THEN (v \div B(r + 4 - 1 - q)) % B(1) ELSE ByteAt(half, q)
    <3> HIDE DEF half, r
    <3> QED BY <1>1, <2>3, <2>4, <2>5, StoredBytes
  <2>7. q \in p .. p + 4 - 1 => h \div B(p + 4 - 1 - q) = v \div B(p + 8 - 1 - q)
    <3> SUFFICES ASSUME q \in p .. p + 4 - 1 PROVE h \div B(p + 4 - 1 - q) = v \div B(p + 8 - 1 - q)
      OBVIOUS
    <3> DEFINE j == p + 4 - 1 - q
    <3>1. j \in 0 .. 3 /\ 4 + j = p + 8 - 1 - q
      BY <1>1
    <3> HIDE DEF j
    <3>2. (v \div B(4)) \div B(j) = v \div B(4 + j)
      BY <3>1, DoubleBytes
    <3> QED BY <3>1, <3>2 DEF j
  <2>8. r + 4 - 1 - q = p + 8 - 1 - q
    BY <1>1
  <2>9. q \in p .. p + 8 - 1 <=> q \in p .. p + 4 - 1 \/ q \in r .. r + 4 - 1
    BY <1>1
  <2>10. ~(q \in p .. p + 4 - 1 /\ q \in r .. r + 4 - 1)
    BY <1>1
  <2> HIDE DEF h, half, after, r
  <2> QED BY <1>3, <2>1, <2>5, <2>6, <2>7, <2>8, <2>9, <2>10, Zenon
<1> QED BY <1>2, <1>3

\* A store instruction at the cell that r1 is aimed at.
LEMMA StoreAt ==
  ASSUME NEW m, Typed(m), NEW op \in StoreOps, NEW p \in Cells, p % Bytes(op) = 0
  PROVE  Store(Aimed(m, p), PartAt(op)).ram = RamWrite(m.ram, p, Bytes(op), m.gpr[2])
<1> DEFINE x == Aimed(m, p)  i == PartAt(op)  n == Bytes(op)
<1>1. x.ram = m.ram /\ Read(x, 2) = m.gpr[2] /\ m.gpr[2] \in Values /\ Resolve(Vaddr(x, i)) = p /\ Typed(x)
  BY AimedAt
<1>2. i.op = op /\ i.rt = 2
  BY DEF PartAt
<1>3. p \in Nat /\ p # NoPage /\ n \in Widths
  BY IsaAssumption, BytesType DEF Cells
<1>4. InRdram(p, n)
  BY <1>3, IsaAssumption DEF Cells, Widths, InRdram
<1> HIDE DEF x, i, n
<1>5. Store(x, i) = BusWrite(x, p, n, Low(m.gpr[2], n))
  BY <1>1, <1>2, <1>3 DEF Store, n
<1>6. BusWrite(x, p, n, Low(m.gpr[2], n)) = [x EXCEPT !.ram = RamWrite(@, p, n, Low(m.gpr[2], n))]
  BY <1>3, <1>4, InRdramIs
<1>7. RamWrite(x.ram, p, n, Low(m.gpr[2], n)) = RamWrite(m.ram, p, n, m.gpr[2])
  BY <1>1, <1>3, RamWriteLow
<1>8. Store(x, i).ram = RamWrite(m.ram, p, n, m.gpr[2])
  BY <1>1, <1>5, <1>6, <1>7 DEF Typed, Machine
<1> QED BY <1>8 DEF x, i, n

\* Every well-formed machine keeps RDRAM as a big-endian console does.
LEMMA BigEndian == IsaTypeInv => RdramIsBigEndian
<1> DEFINE m == st["interp"]
<1> SUFFICES ASSUME Typed(m) PROVE RdramIsBigEndian
  BY DEF IsaTypeInv
<1>1. m.ram \in ByteMem(Cells) /\ m.gpr[2] \in Values
  BY Fields, IsaAssumption
<1>2. \A n \in {2, 4, 8}, p \in 0 .. RamSize - 1 : p % n = 0 => RamRead(m.ram, p, n) = BytesAt(m.ram, p, n)
  BY <1>1, AlignedReads DEF Cells
<1>3. \A p \in 0 .. RamSize - 4 :
         LoadPart(Aimed(LoadPart(Aimed(m, p), PartAt("LWL")), p + 3), PartAt("LWR")).gpr[2] = Word(BytesAt(m.ram, p, 4))
  BY PartPair
<1>4. \A op \in StoreOps, p \in 0 .. RamSize - 1 : p % Bytes(op) = 0 =>
         \A q \in 0 .. RamSize - 1 :
            ByteAt(Store(Aimed(m, p), PartAt(op)).ram, q) =
              IF q \in p .. p + Bytes(op) - 1 THEN (m.gpr[2] \div B(p + Bytes(op) - 1 - q)) % B(1) ELSE ByteAt(m.ram, q)
  <2> SUFFICES ASSUME NEW op \in StoreOps, NEW p \in Cells, p % Bytes(op) = 0, NEW q \in Cells
               PROVE  ByteAt(Store(Aimed(m, p), PartAt(op)).ram, q) =
                        IF q \in p .. p + Bytes(op) - 1 THEN (m.gpr[2] \div B(p + Bytes(op) - 1 - q)) % B(1) ELSE ByteAt(m.ram, q)
    BY DEF Cells
  <2>1. Store(Aimed(m, p), PartAt(op)).ram = RamWrite(m.ram, p, Bytes(op), m.gpr[2])
    BY StoreAt
  <2> HIDE DEF m
  <2> QED BY <1>1, <2>1, BytesType, AlignedWrites
<1> HIDE DEF m
<1> QED BY <1>2, <1>3, <1>4, Zenon DEF RdramIsBigEndian, BytesAt, ByteAt, Aimed, PartAt, m

\* RDRAM is kept in words of the host, yet stores and aligned loads of every width and
\* LWL with LWR meet it in the order of the console's addresses (mmu.h, bus.cpp).
THEOREM RdramBigEndianMemory == IsaSpec => []RdramIsBigEndian
  BY TypesInvariant, BigEndian, PTL
==============================================================================

---------------------------------- MODULE Vu ----------------------------------
(* The RSP vector unit's computations, written twice in the code: one lane at a   *)
(* time on integers (rsp_vector.cpp), and on whole registers with the carries and *)
(* clamps rebuilt out of lane-sized pieces (rsp_vector_simd.cpp).  Both execute   *)
(* the same instruction from equal states.  A lane has LaneBits bits, the         *)
(* accumulator three lanes; what a lane depends on is gathered in one record.     *)
EXTENDS Integers, Sequences, BitOps

CONSTANTS LaneBits,             \* 16 in the code
          Quantum,              \* step of the VMULQ rounding, 32 in the code
          VuRegs,               \* numbers of the vector registers, 0 .. 31 in the code
          Reciprocal(_, _),     \* the tables: root or not, input -> two lanes
          VuStart,              \* register files considered at the start
          VuProgram             \* sequences of instructions considered

VARIABLES vu,          \* engine -> its registers, accumulator and flags
          vuProgram,   \* the sequence being executed
          vuPc         \* how many of its instructions are done

vuVars == <<vu, vuProgram, vuPc>>

VuEngines == {"scalar", "simd"}
VuLanes == 0 .. 7
Full == Pow2[LaneBits]
Ones == Full - 1
Half == Full \div 2

\* What the registers, and a program's instructions, can hold.
LaneValue == 0 .. Ones
LaneStates == [s : LaneValue, t : LaneValue, d : LaneValue, h : LaneValue, m : LaneValue, l : LaneValue,
               cl : BOOLEAN, ch : BOOLEAN, ol : BOOLEAN, oh : BOOLEAN, e : BOOLEAN]
VuMachines == [v : [VuRegs -> [VuLanes -> LaneValue]], lane : [VuLanes -> LaneStates],
               divin : LaneValue, divout : LaneValue, loaded : BOOLEAN]
VuInstructions == [op : STRING, d : VuRegs, s : VuRegs, t : VuRegs, e : 0 .. 15]

ASSUME VuAssumption ==
    /\ LaneBits \in Nat \ {0, 1} /\ Quantum \in Nat \ {0, 1} /\ VuRegs \subseteq Nat
    /\ VuStart \subseteq VuMachines
    /\ VuProgram \subseteq Seq(VuInstructions)
    /\ \A root \in BOOLEAN, n \in -(Half * Full) .. Half * Full - 1 :
         Reciprocal(root, n).hi \in LaneValue /\ Reciprocal(root, n).lo \in LaneValue

LaneOf(n) == n % Full
IntOf(x) == IF x >= Half THEN x - Full ELSE x
SignMask(x) == IF x >= Half THEN Ones ELSE 0
Inverted(x) == Ones - x

BroadcastLane(e, i) == CASE e < 2 -> i
                         [] e \in 2 .. 3 -> (i - (i % 2)) + (e % 2)
                         [] e \in 4 .. 7 -> (i - (i % 4)) + (e % 4)
                         [] OTHER -> e % 8

-----------------------------------------------------------------------------
(* One lane: sources s and t, destination d, the accumulator's slices h, m and l, *)
(* the VCC pair cl and ch, the VCO pair ol and oh, and VCE e.                      *)

Acc(c) == (IntOf(c.h) * Full + c.m) * Full + c.l
SetAcc(c, n) == [c EXCEPT !.h = LaneOf(n \div (Full * Full)), !.m = LaneOf(n \div Full), !.l = LaneOf(n)]
Both(c, x) == [c EXCEPT !.d = LaneOf(x), !.l = LaneOf(x)]
NoCarry(c) == [c EXCEPT !.ol = FALSE, !.oh = FALSE]

ClampSigned(n) == IF n >= Half THEN Half - 1 ELSE IF n < -Half THEN -Half ELSE n
ClampUnsigned(n) == IF n < 0 THEN 0 ELSE IF n >= Half THEN Ones ELSE n
ClampAccLow(c) == CASE c.h = 0 /\ c.m < Half -> c.l
                    [] c.h = Ones /\ c.m >= Half -> c.l
                    [] OTHER -> IF IntOf(c.h) < 0 THEN 0 ELSE Ones

FractionOps == {"VMULF", "VMULU", "VMACF", "VMACU"}
LowOps == {"VMUDL", "VMADL", "VMUDN", "VMADN"}
AddingOps == {"VMACF", "VMACU", "VMADL", "VMADM", "VMADN", "VMADH"}
MultiplyOps == FractionOps \cup LowOps \cup AddingOps \cup {"VMUDM", "VMUDH"}
RoundOps == {"VRNDP", "VRNDN"}
CompareOps == {"VLT", "VEQ", "VNE", "VGE"}
LogicalOps == {"VAND", "VNAND", "VOR", "VNOR", "VXOR", "VNXOR"}
SingleOps == {"VRCP", "VRCPL", "VRCPH", "VRSQ", "VRSQL", "VRSQH", "VMOV"}

Multiply(op, c) ==
    LET s == IntOf(c.s)
        t == IntOf(c.t)
        product == CASE op \in FractionOps -> 2 * s * t
                     [] op \in {"VMUDL", "VMADL"} -> (c.s * c.t) \div Full
                     [] op \in {"VMUDM", "VMADM"} -> s * c.t
                     [] op \in {"VMUDN", "VMADN"} -> c.s * t
                     [] OTHER -> s * t * Full
        base == IF op \in AddingOps THEN Acc(c) ELSE IF op \in FractionOps THEN Half ELSE 0
        a == SetAcc(c, base + product)
        high == Acc(a) \div Full
    IN [a EXCEPT !.d = CASE op \in {"VMULU", "VMACU"} -> ClampUnsigned(high)
                         [] op \in LowOps -> ClampAccLow(a)
                         [] OTHER -> LaneOf(ClampSigned(high))]

\* shifted: the number of the source register is odd.
RoundLane(op, shifted, c) ==
    LET n == Acc(c)
        product == IF shifted THEN IntOf(c.t) * Full ELSE IntOf(c.t)
        a == SetAcc(c, IF (op = "VRNDP") = (n >= 0) THEN n + product ELSE n)
    IN [a EXCEPT !.d = LaneOf(ClampSigned(Acc(a) \div Full))]

Quantized(c, n) ==
    LET half == ClampSigned(n \div 2)
    IN [c EXCEPT !.d = LaneOf(half - (half % (Quantum \div 2)))]
Mulq(c) ==
    LET n == IntOf(c.s) * IntOf(c.t)
        rounded == IF n < 0 THEN n + Quantum - 1 ELSE n
    IN Quantized(SetAcc(c, rounded * Full), rounded)
Macq(c) ==
    LET n == Acc(c) \div Full
        even == (n \div Quantum) % 2 = 0
        next == CASE n < 0 /\ even -> n + Quantum [] n >= Quantum /\ even -> n - Quantum [] OTHER -> n
    IN Quantized(SetAcc(c, next * Full + c.l), next)

VuCarry(c) == IF c.ol THEN 1 ELSE 0
AddLane(c, n) == NoCarry([c EXCEPT !.l = LaneOf(n), !.d = LaneOf(ClampSigned(n))])
AbsLane(c) ==
    CASE IntOf(c.s) < 0 /\ c.t = Half -> [c EXCEPT !.d = Half - 1, !.l = Half]
      [] IntOf(c.s) < 0 /\ c.t # Half -> Both(c, -c.t)
      [] c.s = 0 -> Both(c, 0)
      [] OTHER -> Both(c, c.t)

CompareHolds(op, c) ==
    LET s == IntOf(c.s)
        t == IntOf(c.t)
    IN CASE op = "VLT" -> s < t \/ (s = t /\ c.ol /\ c.oh)
         [] op = "VEQ" -> s = t /\ ~c.oh
         [] op = "VNE" -> s # t \/ c.oh
         [] OTHER -> s > t \/ (s = t /\ (~c.ol \/ ~c.oh))
CompareLane(op, c) ==
    LET holds == CompareHolds(op, c)
    IN NoCarry([Both(c, IF holds THEN c.s ELSE c.t) EXCEPT !.cl = holds, !.ch = FALSE])
MergeLane(c) == NoCarry(Both(c, IF c.cl THEN c.s ELSE c.t))
LogicalLane(op, c) ==
    LET both == c.s & c.t
        either == c.s | c.t
    IN Both(c, CASE op = "VAND" -> both [] op = "VNAND" -> Inverted(both)
                 [] op = "VOR" -> either [] op = "VNOR" -> Inverted(either)
                 [] op = "VXOR" -> c.s ^^ c.t [] OTHER -> Inverted(c.s ^^ c.t))

ChLane(c) ==
    LET s == IntOf(c.s)
        t == IntOf(c.t)
        differ == (s < 0) # (t < 0)
        result == IntOf(LaneOf(IF differ THEN s + t ELSE s - t))
    IN [Both(c, CASE differ /\ result <= 0 -> -t [] ~differ /\ result >= 0 -> t [] OTHER -> s)
           EXCEPT !.cl = IF differ THEN result <= 0 ELSE t < 0,
                  !.ch = IF differ THEN t < 0 ELSE result >= 0,
                  !.ol = differ,
                  !.oh = result # 0 /\ c.s # Inverted(c.t),
                  !.e = differ /\ result = -1]

\* Mutant: VCL takes VCE for its absence.
MutClLane(c) ==
    LET sum == c.s + c.t
        lower == IF c.oh THEN c.cl
                 ELSE IF c.e THEN LaneOf(sum) = 0 /\ sum < Full ELSE LaneOf(sum) = 0 \/ sum < Full
        upper == IF c.oh THEN c.ch ELSE c.s >= c.t
        a == IF c.ol THEN [Both(c, IF lower THEN -c.t ELSE c.s) EXCEPT !.cl = lower]
             ELSE [Both(c, IF upper THEN c.t ELSE c.s) EXCEPT !.ch = upper]
    IN [NoCarry(a) EXCEPT !.e = FALSE]

\* The lower halves of what VCH compared: where VCH found the upper halves decisive
\* (VCO's high bit) its answer stands.
ClLane(c) ==
    LET sum == c.s + c.t
        lower == IF c.oh THEN c.cl
                 ELSE IF c.e THEN LaneOf(sum) = 0 \/ sum < Full ELSE LaneOf(sum) = 0 /\ sum < Full
        upper == IF c.oh THEN c.ch ELSE c.s >= c.t
        a == IF c.ol THEN [Both(c, IF lower THEN -c.t ELSE c.s) EXCEPT !.cl = lower]
             ELSE [Both(c, IF upper THEN c.t ELSE c.s) EXCEPT !.ch = upper]
    IN [NoCarry(a) EXCEPT !.e = FALSE]

CrLane(c) ==
    LET differ == SignMask(c.s) # SignMask(c.t)
        atLeast == IntOf(c.t) <= IF differ THEN -1 ELSE IntOf(c.s)
        atMost == LaneOf((IF differ THEN c.s ELSE 0) + c.t) >= Half
        magnitude == IF differ THEN Inverted(c.t) ELSE c.t
        clipped == IF differ THEN atMost ELSE atLeast
    IN [NoCarry(Both(c, IF clipped THEN magnitude ELSE c.s))
           EXCEPT !.cl = atMost, !.ch = atLeast, !.e = FALSE]

\* Instructions the unit does not document clear the destination.
ReservedLane(c) == [c EXCEPT !.l = LaneOf(c.s + c.t), !.d = 0]

ScalarLane(i, c) ==
    CASE i.op \in MultiplyOps -> Multiply(i.op, c)
      [] i.op \in RoundOps -> RoundLane(i.op, i.s % 2 = 1, c)
      [] i.op = "VMULQ" -> Mulq(c)
      [] i.op = "VMACQ" -> Macq(c)
      [] i.op = "VADD" -> AddLane(c, IntOf(c.s) + IntOf(c.t) + VuCarry(c))
      [] i.op = "VSUB" -> AddLane(c, IntOf(c.s) - IntOf(c.t) - VuCarry(c))
      [] i.op = "VABS" -> AbsLane(c)
      [] i.op = "VADDC" -> [Both(c, c.s + c.t) EXCEPT !.ol = c.s + c.t >= Full, !.oh = FALSE]
      [] i.op = "VSUBC" -> [Both(c, c.s - c.t) EXCEPT !.ol = c.s < c.t, !.oh = c.s # c.t]
      [] i.op = "VSAR" -> [c EXCEPT !.d = CASE i.e = 8 -> c.h [] i.e = 9 -> c.m [] i.e = 10 -> c.l [] OTHER -> 0]
      [] i.op \in CompareOps -> CompareLane(i.op, c)
      [] i.op = "VCH" -> ChLane(c)
      [] i.op = "VCL" -> ClLane(c)
      [] i.op = "VCR" -> CrLane(c)
      [] i.op = "VMRG" -> MergeLane(c)
      [] i.op \in LogicalOps -> LogicalLane(i.op, c)
      [] i.op = "VNOP" -> c
      [] OTHER -> ReservedLane(c)

-----------------------------------------------------------------------------
(* The same on whole registers; every piece is one lane wide.                     *)

MulLow(a, b) == LaneOf(a * b)
MulHighSigned(a, b) == LaneOf((IntOf(a) * IntOf(b)) \div Full)
MulHigh(a, b) == (a * b) \div Full
TopBit(x) == x \div Half
Saturating(a, b) == IF a + b > Ones THEN Ones ELSE a + b
\* All ones where the sum wraps.
CarryMask(a, b) == IF Saturating(a, b) = LaneOf(a + b) THEN 0 ELSE Ones
\* The two slices packed with signed saturation.
SignedPack(m, h) == LaneOf(ClampSigned(IntOf(h) * Full + m))
LowOrBound(l, m, h) ==
    IF SignMask(h) = h /\ SignMask(h) = SignMask(m) THEN l ELSE Inverted(SignMask(h))
Accumulated(c, l, m, h, d) == [c EXCEPT !.l = l, !.m = m, !.h = h, !.d = d]

SimdVmulf(op, c) ==
    LET low == MulLow(c.s, c.t)
        twice == LaneOf(2 * low)
        m == LaneOf(2 * MulHighSigned(c.s, c.t) + TopBit(low) + TopBit(twice))
        square == c.s = c.t
        negative == SignMask(m)
        h == IF square THEN 0 ELSE negative
    IN Accumulated(c, LaneOf(Half + twice), m, h,
           IF op = "VMULU" THEN Inverted(h) & (m | negative)
           ELSE LaneOf(m + IF square THEN negative ELSE 0))

\* Mutant: the carry out of the middle slice is missed when the product fills it.
MutSimdVmacf(op, c) ==
    LET low == MulLow(c.s, c.t)
        high == MulHighSigned(c.s, c.t)
        ov == CarryMask(c.l, LaneOf(2 * low))
        md == LaneOf((LaneOf(2 * high) | TopBit(low)) - ov)
        m == LaneOf(c.m + md)
        h == LaneOf(c.h + SignMask(high) - CarryMask(c.m, md))
    IN Accumulated(c, LaneOf(c.l + 2 * low), m, h,
           IF op = "VMACU" THEN (IF IntOf(h) > 0 THEN Ones ELSE 0) | (Inverted(SignMask(h)) & (SignMask(m) | m))
           ELSE SignedPack(m, h))

SimdVmacf(op, c) ==
    LET low == MulLow(c.s, c.t)
        high == MulHighSigned(c.s, c.t)
        ov == CarryMask(c.l, LaneOf(2 * low))
        md == LaneOf((LaneOf(2 * high) | TopBit(low)) - ov)
        wrapped == IF md = 0 /\ ov = Ones THEN Ones ELSE 0
        m == LaneOf(c.m + md)
        h == LaneOf(c.h + SignMask(high) - wrapped - CarryMask(c.m, md))
    IN Accumulated(c, LaneOf(c.l + 2 * low), m, h,
           IF op = "VMACU" THEN (IF IntOf(h) > 0 THEN Ones ELSE 0) | (Inverted(SignMask(h)) & (SignMask(m) | m))
           ELSE SignedPack(m, h))

SimdVmudl(op, c) ==
    LET high == MulHigh(c.s, c.t)
        l == LaneOf(c.l + high)
        carry == LaneOf(-CarryMask(c.l, high))
        m == LaneOf(c.m + carry)
        h == LaneOf(c.h - CarryMask(c.m, carry))
    IN IF op = "VMUDL" THEN Accumulated(c, high, 0, 0, high)
       ELSE Accumulated(c, l, m, h, LowOrBound(l, m, h))

\* VMUDM and VMUDN: of one factor only the sign counts, and the product is taken of
\* the bare lanes and corrected.
SimdMixed(op, c) ==
    LET low == MulLow(c.s, c.t)
        middle == op \in {"VMUDM", "VMADM"}
        correction == IF middle THEN c.t & SignMask(c.s) ELSE c.s & SignMask(c.t)
        high == LaneOf(MulHigh(c.s, c.t) - correction)
        l == LaneOf(c.l + low)
        carried == LaneOf(high - CarryMask(c.l, low))
        m == LaneOf(c.m + carried)
        h == LaneOf(c.h + SignMask(carried) - CarryMask(c.m, carried))
    IN IF op \in {"VMUDM", "VMUDN"}
       THEN Accumulated(c, low, high, SignMask(high), IF middle THEN high ELSE low)
       ELSE Accumulated(c, l, m, h, IF middle THEN SignedPack(m, h) ELSE LowOrBound(l, m, h))

SimdVmudh(op, c) ==
    LET low == MulLow(c.s, c.t)
        high == MulHighSigned(c.s, c.t)
        m == LaneOf(c.m + low)
        h == LaneOf(c.h + high - CarryMask(c.m, low))
    IN IF op = "VMUDH" THEN Accumulated(c, 0, low, high, SignedPack(low, high))
       ELSE Accumulated(c, c.l, m, h, SignedPack(m, h))

SimdVabs(c) ==
    LET least == c.t = Half
        negated == LaneOf(-IntOf(c.t))
        chosen(negative) == IF IntOf(c.s) < 0 THEN negative ELSE IF c.s = 0 THEN 0 ELSE c.t
    IN [c EXCEPT !.d = chosen(IF least THEN Half - 1 ELSE negated), !.l = chosen(IF least THEN Half ELSE negated)]

SimdVch(c) ==
    LET sign == SignMask(c.s ^^ c.t)
        differ == sign = Ones
        signNegVt == LaneOf((c.t ^^ sign) - sign)
        diff == IntOf(LaneOf(c.s - signNegVt))
        ge == IF differ THEN IntOf(c.t) < 0 ELSE diff >= 0
        le == IF differ THEN diff <= 0 ELSE IntOf(c.t) < 0
        vce == differ /\ diff = -1
        chosen == IF differ THEN le ELSE ge
    IN [Both(c, IF chosen THEN signNegVt ELSE c.s)
           EXCEPT !.cl = le, !.ch = ge, !.ol = differ, !.oh = ~(diff = 0 \/ vce), !.e = vce]

\* The sums, comparisons, merges, logical instructions and VSAR of this engine have the
\* formulas of the scalar one, on eight lanes at a time; VCL, VCR and what it has no case
\* for it leaves to the scalar engine.
SimdLane(i, c) ==
    CASE i.op \in {"VMULF", "VMULU"} -> SimdVmulf(i.op, c)
      [] i.op \in {"VMACF", "VMACU"} -> SimdVmacf(i.op, c)
      [] i.op \in {"VMUDL", "VMADL"} -> SimdVmudl(i.op, c)
      [] i.op \in {"VMUDM", "VMADM", "VMUDN", "VMADN"} -> SimdMixed(i.op, c)
      [] i.op \in {"VMUDH", "VMADH"} -> SimdVmudh(i.op, c)
      [] i.op = "VABS" -> SimdVabs(c)
      [] i.op = "VCH" -> SimdVch(c)
      [] OTHER -> ScalarLane(i, c)

-----------------------------------------------------------------------------
(* Whole instructions.  The operands are copied before the destination is written. *)

VmovSource(e, s) == CASE e < 2 -> s % 8 [] e \in 2 .. 3 -> (s % 8) - (s % 2) + (e % 2)
                      [] e \in 4 .. 7 -> (s % 8) - (s % 4) + (e % 4) [] OTHER -> e % 8

Divided1(m, i, x) ==
    LET joined == m.loaded /\ i.op \in {"VRCPL", "VRSQL"}
        input == IF joined THEN IntOf(m.divin) * Full + x ELSE IntOf(x)
        result == Reciprocal(i.op \in {"VRSQ", "VRSQL"}, input)
    IN [m EXCEPT !.divin = 0, !.loaded = FALSE, !.divout = result.hi, !.v[i.d][i.s % 8] = result.lo]
SingleLane(m, i) ==
    LET x == m.v[i.t][i.e % 8]
    IN CASE i.op = "VMOV" -> [m EXCEPT !.v[i.d][i.s % 8] = m.v[i.t][VmovSource(i.e, i.s)]]
         [] i.op \in {"VRCPH", "VRSQH"} ->
                [m EXCEPT !.divin = x, !.loaded = TRUE, !.v[i.d][i.s % 8] = m.divout]
         [] OTHER -> Divided1(m, i, x)

Operand(m, i, k) == m.v[i.t][BroadcastLane(i.e, k)]
LaneState(m, i, k) == [m.lane[k] EXCEPT !.s = m.v[i.s][k], !.t = Operand(m, i, k), !.d = m.v[i.d][k]]
AllLanes(engine, m, i) ==
    LET done == [k \in VuLanes |-> IF engine = "simd" THEN SimdLane(i, LaneState(m, i, k))
                                                      ELSE ScalarLane(i, LaneState(m, i, k))]
    IN [m EXCEPT !.v[i.d] = [k \in VuLanes |-> done[k].d],
                 !.lane = [k \in VuLanes |-> [done[k] EXCEPT !.s = 0, !.t = 0, !.d = 0]]]
Compute(engine, m, i) ==
    IF i.op \in SingleOps
    THEN [SingleLane(m, i) EXCEPT !.lane = [k \in VuLanes |-> [m.lane[k] EXCEPT !.l = Operand(m, i, k)]]]
    ELSE AllLanes(engine, m, i)

VuInit ==
    /\ vuProgram \in VuProgram
    /\ vuPc = 0
    /\ \E m \in VuStart : vu = [engine \in VuEngines |-> m]

ExecuteCompute ==
    /\ vuPc < Len(vuProgram)
    /\ vuPc' = vuPc + 1
    /\ vu' = [engine \in VuEngines |-> Compute(engine, vu[engine], vuProgram[vuPc + 1])]
    /\ UNCHANGED vuProgram

VuSpec == VuInit /\ [][ExecuteCompute]_vuVars

-----------------------------------------------------------------------------
(* Both engines leave the same registers, accumulator and flags after every       *)
(* instruction: the rebuilt carries, rounding and clamps of the whole-register    *)
(* code are those of the integers.                                                *)
VuEnginesAgree == vu["simd"] = vu["scalar"]

\* Two registers as one number per lane: the first holds the upper half.
PairOf(h, l, k) == IntOf(vu["simd"].v[h][k]) * Full + vu["simd"].v[l][k]
\* Both lower halves into 5, both upper halves into 4.
OnLow(op) == [op |-> op, d |-> 5, s |-> 1, t |-> 3, e |-> 0]
OnHigh(op) == [op |-> op, d |-> 4, s |-> 0, t |-> 2, e |-> 0]
MultiplyPairs == <<OnLow("VMUDL"), [OnLow("VMADM") EXCEPT !.s = 0], [OnLow("VMADN") EXCEPT !.t = 2], OnHigh("VMADH")>>
Ran(program) == vuProgram = program /\ vuPc = Len(program)
InPair(n) == n \in -(Half * Full) .. Half * Full - 1

(* Microcode computes on numbers of two lanes by sequences that hand the carry,   *)
(* the comparison or the accumulator from one instruction to the next.  With the  *)
(* numbers in registers 0:1 and 2:3 and the result in 4:5, a sequence does what   *)
(* one instruction on the whole numbers would: add, subtract, compare, multiply,  *)
(* and the two clip tests.                                                        *)
PairsAreWords ==
    \A k \in VuLanes :
        LET x == PairOf(0, 1, k)
            y == PairOf(2, 3, k)
            result == PairOf(4, 5, k)
            lane == vu["simd"].lane[k]
        IN /\ Ran(<<OnLow("VADDC"), OnHigh("VADD")>>) /\ InPair(x + y) => result = x + y
           /\ Ran(<<OnLow("VSUBC"), OnHigh("VSUB")>>) /\ InPair(x - y) => result = x - y
           /\ Ran(<<OnLow("VSUBC"), OnHigh("VLT")>>) => (lane.cl <=> x < y)
           /\ Ran(<<OnLow("VSUBC"), OnHigh("VGE")>>) => (lane.cl <=> x >= y)
           /\ Ran(<<OnLow("VSUBC"), OnHigh("VEQ")>>) => (lane.cl <=> x = y)
           /\ Ran(<<OnLow("VSUBC"), OnHigh("VNE")>>) => (lane.cl <=> x # y)
           /\ Ran(MultiplyPairs) => Acc(lane) = (x * y) \div Full
           /\ Ran(<<OnHigh("VCH"), OnLow("VCL")>>) /\ y >= 0 => (lane.ch <=> x >= y) /\ (lane.cl <=> x < 0 /\ x <= -y)
=============================================================================

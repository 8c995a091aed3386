--------------------------------- MODULE Fpu ---------------------------------
(* The floating-point unit: the register file in both of its modes (Status.FR),   *)
(* moves, loads and stores, compares, conversions and the branches on the         *)
(* condition.  A word holds an integer or a single in steps of a half, the lower  *)
(* word of a double adds a quarter; what arithmetic computes is left open.        *)
EXTENDS Integers, Sequences

CONSTANTS FpuRegs,       \* number of registers, even
          MaxWord,       \* words are 0 .. MaxWord
          FpuSample,     \* words that arithmetic and undefined conversions may leave
          FpuImage,      \* memory contents: <<word at the address, the next word>>
          FpuProgram,    \* the instructions considered
          MaxFpuOps      \* bound on the length of a program

FpuRegister == 0 .. FpuRegs - 1
FpuWord == 0 .. MaxWord

ToWordOps == {"ROUND.W", "TRUNC.W", "CEIL.W", "FLOOR.W", "CVT.W"}
OpenOps == {"ADD", "SUB", "MUL", "DIV", "SQRT"}
MoveOps == {"MFC1", "MTC1", "DMFC1", "DMTC1", "CFC1", "CTC1"}
TransferOps == {"LWC1", "SWC1", "LDC1", "SDC1"}
BranchOps == {"BC1F", "BC1T", "BC1FL", "BC1TL"}
FpuInstruction ==
    [op : ToWordOps \cup OpenOps \cup MoveOps \cup TransferOps \cup BranchOps
            \cup {"C", "ABS", "NEG", "MOV", "CVT.S", "CVT.D"},
     fmt : {"S", "D", "W"}, fd : FpuRegister, fs : FpuRegister, ft : FpuRegister, cond : 0 .. 7]

ASSUME FpuAssumption ==
    /\ FpuRegs \in Nat /\ FpuRegs % 2 = 0 /\ FpuRegs > 2
    /\ MaxWord \in Nat /\ MaxWord % 2 = 1 /\ MaxWord >= 7    \* FCR31 fits
    /\ FpuSample \subseteq FpuWord /\ FpuImage \subseteq FpuWord \X FpuWord
    /\ FpuProgram \subseteq FpuInstruction
    /\ MaxFpuOps \in Nat

VARIABLES fpu,      \* the register file, the condition, the rounding mode and Status
          fpuSteps

fpuVars == <<fpu, fpuSteps>>

NaN == 16 * (MaxWord + 1)    \* out of the range of the values
Middle == MaxWord \div 2

-----------------------------------------------------------------------------
(* Register access.  With FR clear there are half as many registers, each even.   *)

Even(r) == r - (r % 2)
FgrWord(m, r) == IF ~m.fr /\ r % 2 = 1 THEN m.fgr[Even(r)].hi ELSE m.fgr[r].lo
SetFgrWord(m, r, w) == IF ~m.fr /\ r % 2 = 1 THEN [m EXCEPT !.fgr[Even(r)].hi = w]
                                             ELSE [m EXCEPT !.fgr[r].lo = w]
Paired(m, r) == IF m.fr THEN r ELSE Even(r)
FgrDword(m, r) == m.fgr[Paired(m, r)]

\* Mutant: a double is stored at the register number as it stands.
MutSetFgrDword(m, r, d) == [m EXCEPT !.fgr[r] = d]

SetFgrDword(m, r, d) == [m EXCEPT !.fgr[Paired(m, r)] = d]
FgrArith(m, r) == m.fgr[Paired(m, r)].lo
SetFgrArith(m, r, w) == [m EXCEPT !.fgr[Paired(m, r)].lo = w]

-----------------------------------------------------------------------------
(* Values, in quarters.                                                           *)

Signed(w) == IF w > Middle THEN w - (MaxWord + 1) ELSE w
WordOf(i) == i % (MaxWord + 1)
Quiet == Middle + 1
AsSingle(w) == IF w = Quiet THEN NaN ELSE 2 * Signed(w)
AsDouble(d) == IF d.hi = Quiet THEN NaN ELSE 2 * Signed(d.hi) + (IF d.lo = 0 THEN 0 ELSE 1)
Dword(h, l) == [hi |-> h, lo |-> l]
Fits(v) == v = NaN \/ v \in -2 * Middle .. 2 * Middle
\* Nearest single, ties to even.
OfSingle(v) ==
    LET half == v \div 2
        near == IF v % 2 = 1 /\ half % 2 = 1 THEN half + 1 ELSE half
    IN IF v = NaN THEN Quiet ELSE WordOf(near)
OfDouble(v) == IF v = NaN THEN Dword(Quiet, 0) ELSE Dword(WordOf(v \div 2), v % 2)

Value(m, fmt, r) == IF fmt = "S" THEN AsSingle(FgrArith(m, r)) ELSE AsDouble(FgrDword(m, r))

Floor(v) == v \div 4
Ceil(v) == -((-v) \div 4)
Trunc(v) == IF v >= 0 THEN Floor(v) ELSE Ceil(v)
NearbyInt(v) == IF v % 4 < 2 \/ (v % 4 = 2 /\ Floor(v) % 2 = 0) THEN Floor(v) ELSE Floor(v) + 1
RoundedBy(mode, v) == CASE mode = 1 -> Trunc(v) [] mode = 2 -> Ceil(v)
                        [] mode = 3 -> Floor(v) [] OTHER -> NearbyInt(v)
ModeOf(op, rm) == CASE op = "ROUND.W" -> 0 [] op = "TRUNC.W" -> 1
                    [] op = "CEIL.W" -> 2 [] op = "FLOOR.W" -> 3 [] OTHER -> rm

\* The words a conversion to an integer may leave: any, where C++ leaves it undefined.
Converted(mode, v) == IF v = NaN THEN FpuSample ELSE {WordOf(RoundedBy(mode, v))}

Bit(cond, b) == (cond \div b) % 2 = 1
Holds(cond, a, b) ==
    LET unordered == a = NaN \/ b = NaN
    IN \/ Bit(cond, 4) /\ ~unordered /\ a < b
       \/ Bit(cond, 2) /\ ~unordered /\ a = b
       \/ Bit(cond, 1) /\ unordered

\* Mutant: the double compare takes NaN for a number that equals itself.
MutHoldsDouble(cond, a, b) ==
    \/ Bit(cond, 4) /\ NaN \notin {a, b} /\ a < b
    \/ Bit(cond, 2) /\ a = b
    \/ Bit(cond, 1) /\ NaN \in {a, b}

\* The compare of doubles is written out a second time.
HoldsDouble(cond, a, b) ==
    LET ordered == NaN \notin {a, b}
    IN \/ Bit(cond, 4) /\ ordered /\ a < b
       \/ Bit(cond, 2) /\ ordered /\ a = b
       \/ Bit(cond, 1) /\ ~ordered

-----------------------------------------------------------------------------
(* The instructions: the states each may lead to.                                 *)

Negated(v) == IF v = NaN THEN NaN ELSE -v
Absolute(v) == IF v = NaN \/ v >= 0 THEN v ELSE -v

SetValue(m, fmt, r, v) == IF fmt = "S" THEN SetFgrArith(m, r, OfSingle(v))
                                       ELSE SetFgrDword(m, r, OfDouble(v))
OpenResult(m, fmt, r) == IF fmt = "S" THEN {SetFgrArith(m, r, w) : w \in FpuSample}
                                     ELSE {SetFgrDword(m, r, Dword(h, 0)) : h \in FpuSample}
\* A result of so few bits is known where it is exact.
Result(m, fmt, r, v) == IF Fits(v) THEN {SetValue(m, fmt, r, v)} ELSE OpenResult(m, fmt, r)
Moved(m, i) == IF i.fmt = "S" THEN SetFgrArith(m, i.fd, FgrArith(m, i.fs))
                              ELSE SetFgrDword(m, i.fd, FgrDword(m, i.fs))
Compare1(m, i) == [m EXCEPT !.c = IF i.fmt = "S"
                                  THEN Holds(i.cond, Value(m, "S", i.fs), Value(m, "S", i.ft))
                                  ELSE HoldsDouble(i.cond, Value(m, "D", i.fs), Value(m, "D", i.ft))]
Cop1Arith(m, i) ==
    LET v == IF i.fmt = "W" THEN 4 * Signed(FgrArith(m, i.fs)) ELSE Value(m, i.fmt, i.fs)
    IN CASE i.op = "C" -> {Compare1(m, i)}
         [] i.op \in OpenOps -> OpenResult(m, i.fmt, i.fd)
         [] i.op = "MOV" -> {Moved(m, i)}
         [] i.op = "ABS" -> Result(m, i.fmt, i.fd, Absolute(v))
         [] i.op = "NEG" -> Result(m, i.fmt, i.fd, Negated(v))
         [] i.op = "CVT.S" -> Result(m, "S", i.fd, v)
         [] i.op = "CVT.D" -> Result(m, "D", i.fd, v)
         [] OTHER -> {SetFgrArith(m, i.fd, w) : w \in Converted(ModeOf(i.op, m.rm), v)}

\* gpr is the general register of the moves.
Moves(m, i) ==
    CASE i.op = "MFC1" -> [m EXCEPT !.gpr = Dword(IF Signed(FgrWord(m, i.fs)) < 0 THEN MaxWord ELSE 0,
                                                  FgrWord(m, i.fs))]
      [] i.op = "MTC1" -> SetFgrWord(m, i.fs, m.gpr.lo)
      [] i.op = "DMFC1" -> [m EXCEPT !.gpr = FgrDword(m, i.fs)]
      [] i.op = "DMTC1" -> SetFgrDword(m, i.fs, m.gpr)
      [] i.op = "CFC1" -> [m EXCEPT !.gpr = Dword(0, m.rm + (IF m.c THEN 4 ELSE 0))]
      [] OTHER -> [m EXCEPT !.rm = m.gpr.lo % 4, !.c = (m.gpr.lo \div 4) % 2 = 1]

\* Memory: words at addresses 0 and 1; a miss raises a TLB exception.
LoadStore(m, i, mapped) ==
    IF ~mapped THEN [m EXCEPT !.exc = IF i.op \in {"LWC1", "LDC1"} THEN "load" ELSE "store"]
    ELSE CASE i.op = "LWC1" -> SetFgrWord(m, i.ft, m.mem[i.fd % 2])
           [] i.op = "SWC1" -> [m EXCEPT !.mem[i.fd % 2] = FgrWord(m, i.ft)]
           [] i.op = "LDC1" -> SetFgrDword(m, i.ft, Dword(m.mem[0], m.mem[1]))
           [] OTHER -> LET d == FgrDword(m, i.ft) IN [m EXCEPT !.mem = [a \in {0, 1} |-> IF a = 0 THEN d.hi ELSE d.lo]]

Bc1(m, i) == LET taken == m.c = (i.op \in {"BC1T", "BC1TL"})
             IN [m EXCEPT !.next = IF taken THEN "branch"
                                   ELSE IF i.op \in {"BC1FL", "BC1TL"} THEN "skip" ELSE "on"]

FpuStep(m, i, mapped) ==
    IF ~m.cu1 THEN {[m EXCEPT !.exc = "cop1"]}
    ELSE CASE i.op \in MoveOps -> {Moves(m, i)}
           [] i.op \in TransferOps -> {LoadStore(m, i, mapped)}
           [] i.op \in BranchOps -> {Bc1(m, i)}
           [] OTHER -> Cop1Arith(m, i)

-----------------------------------------------------------------------------

FpuInit ==
    /\ \E image \in FpuImage, mode \in BOOLEAN, w \in FpuSample :
         fpu = [fgr |-> [r \in FpuRegister |-> Dword(0, 0)], c |-> FALSE, rm |-> 0,
                fr |-> mode, cu1 |-> TRUE, gpr |-> Dword(w, w),
                mem |-> [a \in {0, 1} |-> image[a + 1]], exc |-> "none", next |-> "on"]
    /\ fpuSteps = 0

Operate ==
    /\ fpuSteps < MaxFpuOps
    /\ \E i \in FpuProgram, mapped \in BOOLEAN :
         fpu' \in FpuStep([fpu EXCEPT !.exc = "none", !.next = "on"], i, mapped)
    /\ fpuSteps' = fpuSteps + 1

\* MTC0 to Status: another thread's mode, or the FPU taken away.
WriteStatus ==
    /\ fpuSteps < MaxFpuOps
    /\ \E mode, usable \in BOOLEAN : fpu' = [fpu EXCEPT !.fr = mode, !.cu1 = usable]
    /\ fpuSteps' = fpuSteps + 1

FpuNext == Operate \/ WriteStatus
FpuSpec == FpuInit /\ [][FpuNext]_fpuVars

-----------------------------------------------------------------------------

\* Code of either kind shares the registers: with FR clear a pair of word loads leaves
\* what one doubleword load leaves, a pair of word stores writes what one doubleword
\* store writes, and a thread with FR clear, whatever it executes, never changes an odd
\* register, which holds the upper half of the file of a thread with FR set.
HalvesMakeDoubles ==
    LET m == [fpu EXCEPT !.fr = FALSE, !.cu1 = TRUE]
        on(op, r, a) == [op |-> op, fmt |-> "W", fd |-> a, fs |-> r, ft |-> r, cond |-> 0]
        run(x, op, r, a) == LoadStore(x, on(op, r, a), TRUE)
    IN fpuSteps > 0 => \A r \in {k \in 0 .. FpuRegs - 1 : k % 2 = 0} :
         /\ run(run(m, "LWC1", r + 1, 0), "LWC1", r, 1) = run(m, "LDC1", r, 0)
         /\ run(run(m, "SWC1", r + 1, 0), "SWC1", r, 1) = run(m, "SDC1", r, 0)
         /\ \A i \in FpuProgram : \A x \in FpuStep(m, i, TRUE) : x.fgr[r + 1] = fpu.fgr[r + 1]

\* A single and the double it converts to compare alike under every condition, unordered
\* operands included, and convert to the same integers; CVT.W under each rounding mode of
\* FCR31 is the operation that has this mode in its name.
FormatsAgree ==
    LET m == [fpu EXCEPT !.cu1 = TRUE]
        i(op, fmt, d, s, t, k) == [op |-> op, fmt |-> fmt, fd |-> d, fs |-> s, ft |-> t, cond |-> k]
        wide(x, r) == CHOOSE y \in Cop1Arith(x, i("CVT.D", "S", r, r, r, 0)) : TRUE
        both == wide(wide(m, 0), 2)
        words(x, op, fmt) == {FgrArith(y, 0) : y \in Cop1Arith(x, i(op, fmt, 0, 0, 0, 0))}
    IN fpuSteps > 0 =>
       /\ \A k \in 0 .. 7 : Compare1(m, i("C", "S", 0, 0, 2, k)).c = Compare1(both, i("C", "D", 0, 0, 2, k)).c
       /\ \A op \in ToWordOps : words(m, op, "S") = words(wide(m, 0), op, "D")
       /\ \A op \in ToWordOps \ {"CVT.W"}, mode \in 0 .. 3 :
            ModeOf(op, mode) = mode =>
              \A fmt \in {"S", "D"} : words(m, op, fmt) = words([m EXCEPT !.rm = mode], "CVT.W", fmt)

=============================================================================

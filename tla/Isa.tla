--------------------------------- MODULE Isa ---------------------------------
(* The integer instructions, as the interpreter's handlers and as the code the    *)
(* dynarec emits for them, run side by side from equal states.  A byte has ByteBits *)
(* bits (8 in the code); a word has 4 bytes, an immediate operand 2.              *)
EXTENDS Integers, BitOps

CONSTANTS ByteBits,      \* bits of a byte
          LastReg,       \* number of the last general register, 31 in the code
          RamSize,       \* bytes of RDRAM; SP DMEM and a device register follow
          PageBytes,     \* bytes of a TLB page
          Tlb,           \* the TLB contents considered: virtual page -> page or NoPage
          NoPage,
          StartValue,    \* initial values of the registers
          StartRam,      \* initial contents of RDRAM
          Instruction,   \* the instructions a program is made of
          WideSra,       \* TRUE: SRA may meet a register that is not a sign-extended word
          MaxSteps       \* bound on the length of a program

B(n) == Pow2[n * ByteBits]

\* The fields of an instruction have the widths of the encoding; J and JAL have their
\* target in imm.
Encoded(i) == /\ i.rs \in 0 .. LastReg /\ i.rt \in 0 .. LastReg /\ i.rd \in 0 .. LastReg
              /\ i.sa \in Nat /\ i.imm \in Nat
              /\ i.op \in {"J", "JAL"} \/ i.imm \in 0 .. B(2) - 1

\* Tlb maps the pages of the lower half of the address space.
ASSUME IsaAssumption ==
    /\ ByteBits \in Nat \ {0} /\ LastReg \in Nat \ {0, 1}
    /\ RamSize \in Nat /\ RamSize % 8 = 0 /\ RamSize <= B(4) \div 2
    /\ PageBytes \in Nat \ {0} /\ NoPage \notin Nat
    /\ Tlb \subseteq [0 .. (B(4) \div 2 - 1) \div PageBytes -> Nat \cup {NoPage}]
    /\ StartValue \subseteq 0 .. B(8) - 1
    /\ StartRam \subseteq [0 .. RamSize - 1 -> 0 .. B(1) - 1]
    /\ \A i \in Instruction : Encoded(i)

VARIABLES st,      \* engine -> machine state
          tlbNow,
          steps

isaVars == <<st, tlbNow, steps>>

Low(v, n) == v % B(n)
Sign(v, n) == IF Low(v, n) >= B(n) \div 2 THEN Low(v, n) - B(n) ELSE Low(v, n)
Sext(v, n) == Low(Sign(v, n), 8)
Word(v) == Sext(v, 4)
WordBits == 4 * ByteBits
One(b) == IF b THEN 1 ELSE 0
Complement(v) == B(8) - 1 - v

\* Register 0 reads 0 and ignores writes.
Read(m, r) == IF r = 0 THEN 0 ELSE m.gpr[r]
Write(m, r, v) == IF r = 0 THEN m ELSE [m EXCEPT !.gpr[r] = v]
SetHiLo(m, h, l) == [m EXCEPT !.hi = h, !.lo = l]
Except(m, code) == [m EXCEPT !.exc = code]

-----------------------------------------------------------------------------
(* Memory.  RDRAM holds words in the host's (little-endian) order.                *)

DmemBase == RamSize
RegBase == RamSize + 4
PAddrs == 0 .. RamSize + 7

\* n bytes as one number, most significant first.
Joined(n, byte) == LET part[k \in 0 .. n] ==
                         IF k = 0 THEN 0 ELSE part[k - 1] * B(1) + byte[k - 1]
                   IN part[n]

\* The host's view: n bytes from index x, least significant first.
Host(mem, x, n) == Joined(n, [k \in 0 .. n - 1 |-> mem[x + n - 1 - k]])
Stored(mem, x, n, v) ==
    [i \in DOMAIN mem |-> IF i \in x .. x + n - 1 THEN (v \div B(i - x)) % B(1) ELSE mem[i]]

HostIndex(p, n) == CASE n = 1 -> p ^^ 3 [] n = 2 -> p ^^ 2 [] OTHER -> p

RamRead(mem, p, n) ==
    IF n = 8 THEN Host(mem, p, 4) * B(4) + Host(mem, p + 4, 4)
             ELSE Host(mem, HostIndex(p, n), n)

\* Mutant: a store forgets that halfwords lie the other way round in the host's word.
MutRamWrite(mem, p, n, v) ==
    IF n = 8 THEN Stored(Stored(mem, p, 4, v \div B(4)), p + 4, 4, v)
             ELSE Stored(mem, IF n = 1 THEN p ^^ 3 ELSE p, n, v)

RamWrite(mem, p, n, v) ==
    IF n = 8 THEN Stored(Stored(mem, p, 4, v \div B(4)), p + 4, 4, v)
             ELSE Stored(mem, HostIndex(p, n), n, v)

Region(p) == IF p < DmemBase THEN "rdram" ELSE IF p < RegBase THEN "dmem" ELSE "device"

\* DMEM holds bytes in the console's order, and takes every store as a whole word.
DmemRead(mem, o, n) == Joined(n, [k \in 0 .. n - 1 |-> mem[(o + k) % 4]])
DmemWord(o, n, v) == CASE n = 1 -> v * B(3 - (o % 4))
                       [] n = 2 -> IF (o \div 2) % 2 = 0 THEN v * B(2) ELSE v
                       [] OTHER -> v

BusRead(m, p, n) == CASE Region(p) = "rdram" -> RamRead(m.ram, p, n)
                      [] Region(p) = "dmem" -> DmemRead(m.dmem, p - DmemBase, n)
                      [] OTHER -> m.reg
BusWrite(m, p, n, v) ==
    CASE Region(p) = "rdram" -> [m EXCEPT !.ram = RamWrite(@, p, n, v)]
      [] Region(p) = "dmem" ->
           LET w == DmemWord(p - DmemBase, n, Low(v, n))
           IN [m EXCEPT !.dmem = [i \in 0 .. 3 |-> (w \div B(3 - i)) % B(1)]]
      [] OTHER -> [m EXCEPT !.reg = Low(v, n)]

\* Devices answer whole words only, the scaled DMEM has no room for two.
BusTakes(p, n) == CASE Region(p) = "rdram" -> /\ p + n <= RamSize
                                              /\ HostIndex(p, n) + n <= RamSize
                    [] Region(p) = "dmem" -> n < 8 /\ p % n = 0
                    [] OTHER -> n = 4 /\ p = RegBase

\* The upper half of the address space is direct-mapped, the lower goes through the TLB.
Direct(va) == va >= B(4) \div 2
Resolve(va) ==
    IF Direct(va) THEN va - B(4) \div 2
    ELSE LET page == tlbNow[va \div PageBytes]
         IN IF page = NoPage THEN NoPage ELSE page * PageBytes + (va % PageBytes)

-----------------------------------------------------------------------------
(* The interpreter.                                                               *)

AddSub(op, a, b) ==
    CASE op \in {"ADD", "ADDU"} -> Word(Low(a, 4) + Low(b, 4))
      [] op \in {"SUB", "SUBU"} -> Word(Low(a, 4) - Low(b, 4))
      [] op \in {"DADD", "DADDU"} -> Low(a + b, 8)
      [] OTHER -> Low(a - b, 8)

\* C++ division rounds towards zero.
Quot(a, b) == LET q == (IF a < 0 THEN -a ELSE a) \div (IF b < 0 THEN -b ELSE b)
              IN IF (a < 0) = (b < 0) THEN q ELSE -q
Rest(a, b) == a - b * Quot(a, b)
Divided(m, a, b) == SetHiLo(m, Word(Rest(a, b)), Word(Quot(a, b)))
Product(m, p) == SetHiLo(m, Word(p \div B(4)), Word(p))
DProduct(m, p) == SetHiLo(m, Low(p \div B(8), 8), Low(p, 8))

MultDiv(m, op, a, b) ==
    CASE op = "MULT" -> Product(m, Sign(a, 4) * Sign(b, 4))
      [] op = "MULTU" -> Product(m, Low(a, 4) * Low(b, 4))
      [] op = "DMULT" -> DProduct(m, Sign(a, 8) * Sign(b, 8))
      [] op = "DMULTU" -> DProduct(m, a * b)
      [] op = "DIV" -> IF Low(b, 4) = 0 THEN SetHiLo(m, Word(a), IF Sign(a, 4) >= 0 THEN B(8) - 1 ELSE 1)
                       ELSE Divided(m, Sign(a, 4), Sign(b, 4))
      [] op = "DIVU" -> IF Low(b, 4) = 0 THEN SetHiLo(m, Word(a), B(8) - 1)
                        ELSE Divided(m, Low(a, 4), Low(b, 4))
      [] op = "DDIV" -> SetHiLo(m, Low(Rest(Sign(a, 8), Sign(b, 8)), 8), Low(Quot(Sign(a, 8), Sign(b, 8)), 8))
      [] OTHER -> IF b = 0 THEN SetHiLo(m, a, B(8) - 1) ELSE SetHiLo(m, a % b, a \div b)

\* DDIV stops the emulator where the quotient is undefined.
DdivStops(a, b) == b = 0 \/ (Sign(b, 8) = -1 /\ a = B(8) \div 2)

Shift32(op, v, s) ==
    CASE op \in {"SLL", "SLLV"} -> Word(v * Pow2[s])
      [] op \in {"SRL", "SRLV"} -> Word(Low(v, 4) \div Pow2[s])
      [] OTHER -> Word(Sign(v, 8) \div Pow2[s])

Shift64(op, v, s) ==
    CASE op = "DSLL" -> Low(v * Pow2[s], 8)
      [] op = "DSRL" -> v \div Pow2[s]
      [] op = "DSRA" -> Low(Sign(v, 8) \div Pow2[s], 8)
      [] op = "DSLL32" -> Low(v * Pow2[s + WordBits], 8)
      [] op = "DSRL32" -> v \div Pow2[s + WordBits]
      [] OTHER -> Low(Sign(v, 8) \div Pow2[s + WordBits], 8)

SetLess(op, a, b) == One(IF op \in {"SLT", "SLTI"} THEN Sign(a, 8) < Sign(b, 8) ELSE a < b)

Logic(op, a, b) == CASE op = "AND" -> a & b [] op = "OR" -> a | b
                     [] op = "XOR" -> a ^^ b [] OTHER -> Complement(a | b)

Immediate(op, a, imm) ==
    CASE op \in {"ADDI", "ADDIU"} -> Word(Low(a, 4) + Sext(imm, 2))
      [] op \in {"DADDI", "DADDIU"} -> Low(a + Sext(imm, 2), 8)
      [] op \in {"SLTI", "SLTIU"} -> SetLess(op, a, Sext(imm, 2))
      [] op = "ANDI" -> a & imm
      [] op = "ORI" -> a | imm
      [] OTHER -> a ^^ imm
Upper(imm) == Low(Sign(imm, 2) * B(2), 8)

Traps(op, a, b) ==
    CASE op = "TGE" -> Sign(a, 8) >= Sign(b, 8) [] op = "TGEU" -> a >= b
      [] op = "TLT" -> Sign(a, 8) < Sign(b, 8)  [] op = "TLTU" -> a < b
      [] op = "TEQ" -> a = b                    [] OTHER -> a # b

\* next_pc, the delay slot being at pc: go on, leave the slot out, or where to.
Branch(m, taken, likely, to) ==
    [m EXCEPT !.next = IF taken THEN to ELSE IF likely THEN "skip" ELSE "on"]
\* link() stores the address behind the delay slot.
Link(m, r) == Write(m, r, 4)
RA == LastReg

Zeros(op, a) == CASE op \in {"BLTZ", "BLTZL", "BLTZAL"} -> Sign(a, 8) < 0
                  [] op \in {"BGEZ", "BGEZL", "BGEZAL"} -> Sign(a, 8) >= 0
                  [] op \in {"BLEZ", "BLEZL"} -> Sign(a, 8) <= 0
                  [] OTHER -> Sign(a, 8) > 0
Equals(op, a, b) == (a = b) = (op \in {"BEQ", "BEQL"})

LikelyOps == {"BLTZL", "BGEZL", "BLEZL", "BGTZL", "BEQL", "BNEL"}
ZeroOps == {"BLTZ", "BLTZL", "BLTZAL", "BGEZ", "BGEZL", "BGEZAL", "BLEZ", "BLEZL", "BGTZ", "BGTZL"}
EqualOps == {"BEQ", "BEQL", "BNE", "BNEL"}

Bytes(op) == CASE op \in {"LB", "LBU", "SB"} -> 1
               [] op \in {"LH", "LHU", "SH"} -> 2
               [] op \in {"LD", "LLD", "SD", "SCD", "LDL", "LDR", "SDL", "SDR"} -> 8
               [] OTHER -> 4
Extend(op, v) == IF op \in {"LBU", "LHU", "LWU"} THEN v ELSE Sext(v, Bytes(op))
Vaddr(m, i) == Low(Read(m, i.rs) + Sext(i.imm, 2), 4)

Load(m, i) ==
    LET p == Resolve(Vaddr(m, i))
    IN IF p = NoPage THEN Except(m, "load")
       ELSE Write(m, i.rt, Extend(i.op, BusRead(m, p, Bytes(i.op))))
Store(m, i) ==
    LET p == Resolve(Vaddr(m, i))
    IN IF p = NoPage THEN Except(m, "store")
       ELSE BusWrite(m, p, Bytes(i.op), Low(Read(m, i.rt), Bytes(i.op)))

\* LWL and friends: new bytes are merged into old ones, one side or the other is kept.
KeepLow(old, new, s, n) == (old % Pow2[s]) + Low(new * Pow2[s], n)
KeepHigh(old, new, s, n) ==
    LET u == Pow2[n * ByteBits - s] IN (old \div u) * u + Low(new, n) \div Pow2[s]
LeftShift(va, n) == ByteBits * (va % n)
RightShift(va, n) == ByteBits * (n - 1 - (va % n))
Unit(p, n) == p - (p % n)

LoadPart(m, i) ==
    LET va == Vaddr(m, i)  p == Resolve(va)  n == Bytes(i.op)
        old == Low(Read(m, i.rt), n)  data == BusRead(m, Unit(p, n), n)
    IN IF p = NoPage THEN Except(m, "load")
       ELSE Write(m, i.rt, Sext(IF i.op \in {"LWL", "LDL"} THEN KeepLow(old, data, LeftShift(va, n), n)
                                ELSE KeepHigh(old, data, RightShift(va, n), n), n))
StorePart(m, i) ==
    LET va == Vaddr(m, i)  p == Resolve(va)  n == Bytes(i.op)
        reg == Low(Read(m, i.rt), n)  data == BusRead(m, Unit(p, n), n)
    IN IF p = NoPage THEN Except(m, "store")
       ELSE BusWrite(m, Unit(p, n), n,
                     IF i.op \in {"SWL", "SDL"} THEN KeepHigh(data, reg, LeftShift(va, n), n)
                     ELSE KeepLow(data, reg, RightShift(va, n), n))

LoadLinked(m, i) ==
    LET x == Load(m, i) IN IF x.exc = "none" THEN [x EXCEPT !.ll = TRUE] ELSE x
StoreConditional(m, i) ==
    LET x == Store([m EXCEPT !.ll = FALSE], i)
    IN IF ~m.ll THEN Write(m, i.rt, 0)
       ELSE IF x.exc # "none" THEN x ELSE Write(x, i.rt, 1)

\* COP0 moves; c0 stands for a register that keeps what is written.
Cop0Move(m, i) == CASE i.op = "MFC0" -> Write(m, i.rt, Word(m.c0))
                    [] i.op = "MTC0" -> [m EXCEPT !.c0 = Low(Read(m, i.rt), 4)]
                    [] i.op = "DMFC0" -> Write(m, i.rt, m.c0)
                    [] OTHER -> [m EXCEPT !.c0 = Read(m, i.rt)]

HiLoMove(m, i) == CASE i.op = "MFHI" -> Write(m, i.rd, m.hi)
                    [] i.op = "MFLO" -> Write(m, i.rd, m.lo)
                    [] i.op = "MTHI" -> [m EXCEPT !.hi = Read(m, i.rs)]
                    [] OTHER -> [m EXCEPT !.lo = Read(m, i.rs)]

Jump(m, i) == CASE i.op = "J" -> Branch(m, TRUE, FALSE, <<"region", i.imm>>)
                [] OTHER -> Branch(Link(m, RA), TRUE, FALSE, <<"region", i.imm>>)
JumpRegister(m, i) ==
    LET x == Branch(m, TRUE, FALSE, <<"at", Read(m, i.rs)>>)
    IN IF i.op = "JR" THEN x ELSE Link(x, i.rd)
Eret(m) == [m EXCEPT !.ll = FALSE, !.next = "epc"]

-----------------------------------------------------------------------------
(* Decoding.                                                                      *)

AddOps == {"ADD", "ADDU", "SUB", "SUBU", "DADD", "DADDU", "DSUB", "DSUBU"}
LogicOps == {"AND", "OR", "XOR", "NOR"}
LessOps == {"SLT", "SLTU"}
ShiftOps == {"SLL", "SRL", "SRA"}
ShiftVOps == {"SLLV", "SRLV", "SRAV"}
LongShiftOps == {"DSLL", "DSRL", "DSRA", "DSLL32", "DSRL32", "DSRA32"}
HiLoOps == {"MFHI", "MFLO", "MTHI", "MTLO"}
WordMulOps == {"MULT", "MULTU", "DIV", "DIVU"}
LongMulOps == {"DMULT", "DMULTU", "DDIV", "DDIVU"}
TrapOps == {"TGE", "TGEU", "TLT", "TLTU", "TEQ", "TNE"}
ImmOps == {"ADDI", "ADDIU", "DADDI", "DADDIU", "SLTI", "SLTIU", "ANDI", "ORI", "XORI"}
LoadOps == {"LB", "LBU", "LH", "LHU", "LW", "LWU", "LD"}
StoreOps == {"SB", "SH", "SW", "SD"}
WordPartOps == {"LWL", "LWR", "SWL", "SWR"}
LongPartOps == {"LDL", "LDR", "SDL", "SDR"}
Cop0Ops == {"MFC0", "MTC0", "DMFC0", "DMTC0"}

ExecuteSpecial(m, i) ==
    LET a == Read(m, i.rs)  b == Read(m, i.rt)  sv == a % WordBits
    IN CASE i.op \in AddOps -> Write(m, i.rd, AddSub(i.op, a, b))
         [] i.op \in LogicOps -> Write(m, i.rd, Logic(i.op, a, b))
         [] i.op \in LessOps -> Write(m, i.rd, SetLess(i.op, a, b))
         [] i.op \in ShiftOps -> Write(m, i.rd, Shift32(i.op, b, i.sa))
         [] i.op \in ShiftVOps -> Write(m, i.rd, Shift32(i.op, b, sv))
         [] i.op \in LongShiftOps -> Write(m, i.rd, Shift64(i.op, b, i.sa))
         [] i.op \in WordMulOps \cup LongMulOps -> MultDiv(m, i.op, a, b)
         [] i.op \in HiLoOps -> HiLoMove(m, i)
         [] i.op \in TrapOps -> IF Traps(i.op, a, b) THEN Except(m, "trap") ELSE m
         [] i.op \in {"JR", "JALR"} -> JumpRegister(m, i)
         [] i.op \in {"SYSCALL", "BREAK"} -> Except(m, i.op)
         [] OTHER -> m
SpecialOps == AddOps \cup LogicOps \cup LessOps \cup ShiftOps \cup ShiftVOps \cup LongShiftOps
              \cup WordMulOps \cup LongMulOps \cup HiLoOps \cup TrapOps
              \cup {"JR", "JALR", "SYSCALL", "BREAK", "SYNC"}

Execute(m, i) ==
    LET a == Read(m, i.rs)  b == Read(m, i.rt)  to == <<"offset", Sign(i.imm, 2)>>
        x == Branch(m, IF i.op \in ZeroOps THEN Zeros(i.op, a) ELSE Equals(i.op, a, b),
                    i.op \in LikelyOps, to)
    IN CASE i.op \in SpecialOps -> ExecuteSpecial(m, i)
         [] i.op \in ZeroOps \cup EqualOps -> IF i.op \in {"BLTZAL", "BGEZAL"} THEN Link(x, RA) ELSE x
         [] i.op \in {"J", "JAL"} -> Jump(m, i)
         [] i.op \in LoadOps -> Load(m, i)
         [] i.op \in StoreOps -> Store(m, i)
         [] i.op \in {"LWL", "LWR", "LDL", "LDR"} -> LoadPart(m, i)
         [] i.op \in {"SWL", "SWR", "SDL", "SDR"} -> StorePart(m, i)
         [] i.op \in {"LL", "LLD"} -> LoadLinked(m, i)
         [] i.op \in {"SC", "SCD"} -> StoreConditional(m, i)
         [] i.op = "LUI" -> Write(m, i.rt, Upper(i.imm))
         [] i.op \in ImmOps -> Write(m, i.rt, Immediate(i.op, a, i.imm))
         [] i.op \in Cop0Ops -> Cop0Move(m, i)
         [] i.op = "ERET" -> Eret(m)
         [] OTHER -> m    \* CACHE

-----------------------------------------------------------------------------
(* The dynarec.                                                                   *)

\* What translate.cpp makes of an instruction; the rest is left to the interpreter.
SpecialKind(op) == CASE op = "DADD" -> "DADDU" [] op = "DSUB" -> "DSUBU"
                     [] op = "SYNC" -> "NOP" [] OTHER -> op
TranslatedSpecial == SpecialOps \ (LongMulOps \cup TrapOps \cup {"SYSCALL", "BREAK"})
Kind(op) == CASE op = "ADDI" -> "ADDIU" [] op = "DADDI" -> "DADDIU"
              [] op = "CACHE" -> "NOP" [] OTHER -> SpecialKind(op)
Translated == TranslatedSpecial \cup ZeroOps \cup EqualOps \cup {"J", "JAL", "LUI", "CACHE"}
              \cup ImmOps \cup LoadOps \cup StoreOps \cup WordPartOps \cup Cop0Ops

\* eax is the low word of rax; writing it clears the rest; cdqe extends its sign.
Cdqe(eax) == Sext(eax, 4)

JitAlu32(k, rax, rcx) == Cdqe(IF k \in {"ADD", "ADDU"} THEN Low(rax, 4) + Low(rcx, 4)
                                                       ELSE Low(rax, 4) - Low(rcx, 4))
JitLogic(k, rax, r12) == CASE k = "AND" -> rax & r12 [] k = "OR" -> rax | r12
                           [] k = "XOR" -> rax ^^ r12 [] OTHER -> Complement(rax | r12)
JitLess(k, r12, rax) == One(IF k = "SLT" THEN Sign(r12, 8) < Sign(rax, 8) ELSE r12 < rax)
\* Mutant: SRL is shifted in the 64-bit register.
MutShiftSa(k, rax, cl) == CASE k = "SLL" -> Cdqe(Low(rax, 4) * Pow2[cl])
                            [] k = "SRL" -> Cdqe(rax \div Pow2[cl])
                            [] k = "SRA" -> Shift32(k, rax, cl)
                            [] OTHER -> Shift64(k, rax, cl)
JitShiftSa(k, rax, cl) ==
    CASE k = "SLL" -> Cdqe(Low(rax, 4) * Pow2[cl])
      [] k = "SRL" -> Cdqe(Low(rax, 4) \div Pow2[cl])
      [] k = "SRA" -> Cdqe(Low(Sign(rax, 4) \div Pow2[cl], 4))
      [] k \in {"DSLL", "DSLL32"} -> Low(rax * Pow2[IF k = "DSLL" THEN cl ELSE cl + WordBits], 8)
      [] k \in {"DSRL", "DSRL32"} -> rax \div Pow2[IF k = "DSRL" THEN cl ELSE cl + WordBits]
      [] OTHER -> Low(Sign(rax, 8) \div Pow2[IF k = "DSRA" THEN cl ELSE cl + WordBits], 8)
JitShiftV(k, ecx, rax) ==
    LET cl == ecx % WordBits
    IN CASE k = "SLLV" -> Cdqe(Low(rax, 4) * Pow2[cl])
         [] k = "SRLV" -> Cdqe(Low(rax, 4) \div Pow2[cl])
         [] OTHER -> Cdqe(Low(Sign(rax, 4) \div Pow2[cl], 4))
JitImm(k, rax, imm) ==
    CASE k = "ADDIU" -> Cdqe(Low(rax + Sext(imm, 2), 4))
      [] k = "DADDIU" -> Low(rax + Sext(imm, 2), 8)
      [] k = "ANDI" -> rax & imm [] k = "ORI" -> rax | imm [] k = "XORI" -> rax ^^ imm
      [] k = "LUI" -> Cdqe(imm * B(2))
      [] k = "SLTI" -> One(Sign(rax, 8) < Sign(Sext(imm, 2), 8))
      [] OTHER -> One(rax < Sext(imm, 2))

JitMultDiv(m, k, s, t) ==
    CASE k = "MULT" -> LET res == Sign(s, 4) * Sign(t, 4) IN SetHiLo(m, Word(res \div B(4)), Word(res))
      [] k = "MULTU" -> LET res == Low(s, 4) * Low(t, 4) IN SetHiLo(m, Word(res \div B(4)), Word(res))
      [] OTHER -> IF Low(t, 4) = 0
                  THEN SetHiLo(m, Word(s), IF k = "DIVU" \/ Sign(s, 4) >= 0 THEN B(8) - 1 ELSE 1)
                  ELSE IF k = "DIV"
                  THEN SetHiLo(m, Word(Rest(Sign(s, 4), Sign(t, 4))), Word(Quot(Sign(s, 4), Sign(t, 4))))
                  ELSE SetHiLo(m, Word(Low(s, 4) % Low(t, 4)), Word(Low(s, 4) \div Low(t, 4)))

JitTaken(k, rax, rcx) ==
    CASE k \in {"BEQ", "BEQL"} -> rax = rcx
      [] k \in {"BNE", "BNEL"} -> rax # rcx
      [] k \in {"BLEZ", "BLEZL"} -> Sign(rax, 8) <= 0
      [] k \in {"BGTZ", "BGTZL"} -> Sign(rax, 8) > 0
      [] k \in {"BLTZ", "BLTZL", "BLTZAL"} -> Sign(rax, 8) < 0
      [] OTHER -> Sign(rax, 8) >= 0
\* A branch to itself goes through the helper, the others are inlined.
JitInlineBranch(m, taken, off) == [m EXCEPT !.next = IF taken THEN <<"offset", off>> ELSE "on"]
JitBranch(m, i) ==
    LET off == Sign(i.imm, 2)
        taken == JitTaken(i.op, Read(m, i.rs), Read(m, i.rt))
        x == IF i.op \in LikelyOps \/ off = -1
             THEN Branch(m, taken, i.op \in LikelyOps, <<"offset", off>>)
             ELSE JitInlineBranch(m, taken, off)
    IN IF i.op \in {"BLTZAL", "BGEZAL"} THEN Link(x, RA) ELSE x
JitJump(m, i) ==
    CASE i.op = "JR" -> Branch(m, TRUE, FALSE, <<"at", Read(m, i.rs)>>)
      [] i.op = "JALR" -> Link(Branch(m, TRUE, FALSE, <<"at", Read(m, i.rs)>>), i.rd)
      [] i.op = "J" -> Branch(m, TRUE, FALSE, <<"region", i.imm>>)
      [] OTHER -> Branch(Link(m, RA), TRUE, FALSE, <<"region", i.imm>>)

\* The emitted access to RDRAM, on the host's words.
RdramLoad(m, k, eax) ==
    CASE k = "LB" -> Sext(m.ram[eax ^^ 3], 1)
      [] k = "LBU" -> m.ram[eax ^^ 3]
      [] k = "LH" -> Sext(Host(m.ram, eax ^^ 2, 2), 2)
      [] k = "LHU" -> Host(m.ram, eax ^^ 2, 2)
      [] k = "LW" -> Cdqe(Host(m.ram, eax, 4))
      [] k = "LWU" -> Host(m.ram, eax, 4)
      [] OTHER -> Host(m.ram, eax, 4) * B(4) + Host(m.ram, eax + 4, 4)
RdramStore(m, k, eax, v) ==
    [m EXCEPT !.ram = CASE k = "SB" -> Stored(@, eax ^^ 3, 1, v)
                        [] k = "SH" -> Stored(@, eax ^^ 2, 2, v)
                        [] k = "SW" -> Stored(@, eax, 4, v)
                        [] OTHER -> Stored(Stored(@, eax, 4, v \div B(4)), eax + 4, 4, v)]

InRdram(p, n) == p + n <= RamSize
\* The helpers behind the emitted accesses; reads and writes outside RDRAM take the bus.
HelperLoad(m, op, p, n) ==
    Extend(op, IF InRdram(p, n) THEN RamRead(m.ram, p, n) ELSE BusRead(m, p, n))
DoLoad(m, i) ==
    LET p == Resolve(Vaddr(m, i))
    IN IF p = NoPage THEN Except(m, "load")
                     ELSE Write(m, i.rt, HelperLoad(m, i.op, p, Bytes(i.op)))
HelperStore(m, p, n, v) ==
    IF InRdram(p, n) THEN [m EXCEPT !.ram = RamWrite(@, p, n, v)]
                     ELSE BusWrite(m, p, n, Low(v, n))
DoStore(m, i) ==
    LET p == Resolve(Vaddr(m, i))
    IN IF p = NoPage THEN Except(m, "store")
                     ELSE HelperStore(m, p, Bytes(i.op), Read(m, i.rt))
DoLoadPart(m, i) ==
    LET va == Vaddr(m, i)  p == Resolve(va)  aligned == Unit(p, 4)
        data == IF InRdram(aligned, 4) THEN RamRead(m.ram, aligned, 4) ELSE BusRead(m, aligned, 4)
        old == Low(Read(m, i.rt), 4)
    IN IF p = NoPage THEN Except(m, "load")
       ELSE Write(m, i.rt, Word(IF i.op = "LWL" THEN KeepLow(old, data, LeftShift(va, 4), 4)
                                ELSE KeepHigh(old, data, RightShift(va, 4), 4)))
DoStorePart(m, i) ==
    LET va == Vaddr(m, i)  p == Resolve(va)  aligned == Unit(p, 4)
        data == IF InRdram(aligned, 4) THEN RamRead(m.ram, aligned, 4) ELSE BusRead(m, aligned, 4)
        reg == Low(Read(m, i.rt), 4)
        out == IF i.op = "SWL" THEN KeepHigh(data, reg, LeftShift(va, 4), 4)
                               ELSE KeepLow(data, reg, RightShift(va, 4), 4)
    IN IF p = NoPage THEN Except(m, "store")
       ELSE IF InRdram(aligned, 4) THEN [m EXCEPT !.ram = RamWrite(@, aligned, 4, out)]
       ELSE BusWrite(m, aligned, 4, out)

\* soft: the page is in the soft TLB, which holds pages of RDRAM only.
JitMemory(m, i, soft) ==
    LET va == Vaddr(m, i)  n == Bytes(i.op)  p == Resolve(va)
        inline == /\ Direct(va) \/ (soft /\ (va % PageBytes) + n <= PageBytes /\ p # NoPage)
                  /\ InRdram(p, n)
    IN CASE i.op \in {"LWL", "LWR"} -> DoLoadPart(m, i)
         [] i.op \in {"SWL", "SWR"} -> DoStorePart(m, i)
         [] i.op \in LoadOps -> IF inline THEN Write(m, i.rt, RdramLoad(m, i.op, p)) ELSE DoLoad(m, i)
         [] OTHER -> IF inline THEN RdramStore(m, i.op, p, Read(m, i.rt)) ELSE DoStore(m, i)

JitCop0(m, i) == CASE i.op = "MFC0" -> Write(m, i.rt, Sext(m.c0, 4))
                   [] i.op = "MTC0" -> [m EXCEPT !.c0 = Low(Read(m, i.rt), 4)]
                   [] i.op = "DMFC0" -> Write(m, i.rt, m.c0)
                   [] OTHER -> [m EXCEPT !.c0 = Read(m, i.rt)]

Emitted(m, i, soft) ==
    LET k == Kind(i.op)  a == Read(m, i.rs)  b == Read(m, i.rt)
    IN CASE k = "NOP" -> m
         [] k \in {"ADD", "ADDU", "SUB", "SUBU"} -> Write(m, i.rd, JitAlu32(k, a, b))
         [] k = "DADDU" -> Write(m, i.rd, Low(a + b, 8))
         [] k = "DSUBU" -> Write(m, i.rd, Low(a - b, 8))
         [] k \in LogicOps -> Write(m, i.rd, JitLogic(k, b, a))
         [] k \in LessOps -> Write(m, i.rd, JitLess(k, a, b))
         [] k \in ShiftOps \cup LongShiftOps -> Write(m, i.rd, JitShiftSa(k, b, i.sa))
         [] k \in ShiftVOps -> Write(m, i.rd, JitShiftV(k, a, b))
         [] k \in ImmOps \cup {"LUI"} -> Write(m, i.rt, JitImm(k, a, i.imm))
         [] k \in WordMulOps -> JitMultDiv(m, k, a, b)
         [] k \in HiLoOps -> HiLoMove(m, i)
         [] k \in {"JR", "JALR", "J", "JAL"} -> JitJump(m, i)
         [] k \in ZeroOps \cup EqualOps -> JitBranch(m, i)
         [] k \in Cop0Ops -> JitCop0(m, i)
         [] OTHER -> JitMemory(m, i, soft)

-----------------------------------------------------------------------------

MemoryOps == LoadOps \cup StoreOps \cup WordPartOps \cup LongPartOps \cup {"LL", "LLD", "SC", "SCD"}
PartOps == WordPartOps \cup LongPartOps

\* Programs keep to what the bus answers and the emulator does not stop at.
Sensible(m, i) ==
    LET p == Resolve(Vaddr(m, i))  n == Bytes(i.op)
    IN /\ i.op = "DDIV" => ~DdivStops(Read(m, i.rs), Read(m, i.rt))
       /\ i.op \in {"SRA", "SRAV"} => WideSra \/ Read(m, i.rt) = Word(Read(m, i.rt))
       /\ (i.op \in MemoryOps /\ p # NoPage) => BusTakes(IF i.op \in PartOps THEN Unit(p, n) ELSE p, n)

Start(ram, v, w) ==
    [gpr |-> [r \in 1 .. LastReg |-> CASE r = 1 -> v [] r = 2 -> w [] OTHER -> 0], hi |-> 0, lo |-> 0, ram |-> ram, dmem |-> [i \in 0 .. 3 |-> 0],
     reg |-> 0, c0 |-> v, ll |-> FALSE, next |-> "on", exc |-> "none"]

IsaInit ==
    /\ \E ram \in StartRam, v, w \in StartValue :
         st = [engine \in {"interp", "jit"} |-> Start(ram, v, w)]
    /\ tlbNow \in Tlb
    /\ steps = 0

\* One instruction; exceptions and branches have been served before the next.
RunBoth ==
    /\ steps < MaxSteps
    /\ steps' = steps + 1
    /\ \E i \in Instruction, soft \in BOOLEAN :
         LET from(e) == [st[e] EXCEPT !.next = "on", !.exc = "none"]
         IN /\ Sensible(st["interp"], i)
            /\ st' = [interp |-> Execute(from("interp"), i),
                      jit |-> IF i.op \in Translated THEN Emitted(from("jit"), i, soft)
                                                     ELSE Execute(from("jit"), i)]
    /\ UNCHANGED tlbNow

IsaNext == RunBoth
IsaSpec == IsaInit /\ [][IsaNext]_isaVars

-----------------------------------------------------------------------------

\* The dynarec and the interpreter are interchangeable: a dispatch may take either
\* (jit.cpp falls back to single steps whenever a block cannot be had), so after the
\* same instructions registers, HI and LO, memory, COP0, the LL bit, the exception
\* and the way the program goes on are the same in both.
EnginesAgree == st["interp"] = st["jit"]

\* RDRAM is kept in words of the host and is big-endian memory to a program: SB, SH, SW
\* and SD put the bytes of the register, most significant first, at the address and the
\* following ones and leave every other byte alone; a load of any width at an aligned
\* address is the bytes there that byte loads give; and LWL followed by LWR leaves the
\* word that starts at any address, aligned or not.
RdramIsBigEndian ==
    LET m == st["interp"]
        cells == 0 .. RamSize - 1
        byte(ram, p) == RamRead(ram, p, 1)
        bytes(p, n) == Joined(n, [k \in 0 .. n - 1 |-> byte(m.ram, p + k)])
        at(op) == [op |-> op, rs |-> 1, rt |-> 2, rd |-> 0, sa |-> 0, imm |-> 0]
        aimed(x, p) == [x EXCEPT !.gpr[1] = p + B(4) \div 2]
    IN steps > 0 =>
       /\ \A op \in StoreOps, p \in cells : p % Bytes(op) = 0 =>
            LET after == Store(aimed(m, p), at(op))
            IN \A q \in cells :
                 byte(after.ram, q) = IF q \in p .. p + Bytes(op) - 1
                                      THEN (m.gpr[2] \div B(p + Bytes(op) - 1 - q)) % B(1)
                                      ELSE byte(m.ram, q)
       /\ \A n \in {2, 4, 8}, p \in cells : p % n = 0 => RamRead(m.ram, p, n) = bytes(p, n)
       /\ \A p \in 0 .. RamSize - 4 :
            LET left == LoadPart(aimed(m, p), at("LWL"))
            IN LoadPart(aimed(left, p + 3), at("LWR")).gpr[2] = Word(bytes(p, 4))

=============================================================================

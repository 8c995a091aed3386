-------------------------------- MODULE RspCore --------------------------------
(* The RSP's scalar unit: it executes predecoded instructions, which the CPU, a    *)
(* DMA of the CPU and a DMA of the RSP itself overwrite.  The instructions it has *)
(* in common with the CPU are stated a second time, on 32-bit registers; vector   *)
(* and system instructions are in Vu, VuMem and RspTask.                          *)
EXTENDS Isa

CONSTANTS SpSize,            \* bytes of DMEM and of IMEM, 4096 in the code
          RspRam,            \* bytes of RDRAM a DMA reaches
          DramSpan,          \* bytes of its address space, 16 MB in the code
          RspDecode(_),      \* word -> instruction
          RspRegister,       \* initial values of the registers
          RspImage,          \* initial contents of RDRAM
          RspTransfer,       \* DMA descriptors: [imem, dram, mem, length, count, skip]
          MaxRspSteps        \* bound on the length of a behaviour

ASSUME RspCoreAssumption ==
    /\ SpSize \in Nat \ {0} /\ SpSize % 8 = 0
    /\ RspRam \in Nat /\ RspRam % 8 = 0
    /\ DramSpan \in Nat \ {0} /\ DramSpan % 8 = 0
    /\ \A w \in 0 .. B(4) - 1 : Encoded(RspDecode(w))
    /\ B(4) % WordBits = 0      \* the last bits of a word are a shift amount
    /\ RspRegister \subseteq 0 .. B(4) - 1
    /\ RspImage \subseteq [0 .. RspRam - 1 -> 0 .. B(1) - 1]
    /\ \A t \in RspTransfer : t.imem \in BOOLEAN /\ {t.dram, t.mem, t.length, t.count, t.skip} \subseteq Nat

VARIABLES rsp,        \* registers, memories and predecoded instructions
          rspSteps

rspCoreVars == <<rsp, rspSteps>>

RspReg(m, r) == IF r = 0 THEN 0 ELSE m.gpr[r]
SetRspReg(m, r, v) == IF r = 0 THEN m ELSE [m EXCEPT !.gpr[r] = Low(v, 4)]

\* DMEM access at any address, most significant byte first, round its end.
DmemLoad(m, a, n) == Joined(n, [k \in 0 .. n - 1 |-> m.dmem[(a + k) % SpSize]])
DmemStore(m, a, n, v) ==
    [m EXCEPT !.dmem = [c \in DOMAIN m.dmem |->
        IF (c - a) % SpSize < n THEN (v \div B(n - 1 - ((c - a) % SpSize))) % B(1) ELSE m.dmem[c]]]

-----------------------------------------------------------------------------
(* Instructions.                                                                  *)

RspPlainOps == {"ADD", "ADDU", "SUB", "SUBU"} \cup LogicOps \cup LessOps \cup ShiftOps \cup ShiftVOps
RspImmOps == {"ADDI", "ADDIU", "SLTI", "SLTIU", "ANDI", "ORI", "XORI", "LUI"}
RspZeroOps == {"BLTZ", "BGEZ", "BLTZAL", "BGEZAL", "BLEZ", "BGTZ"}
RspBranchOps == RspZeroOps \cup {"BEQ", "BNE"}
RspMemOps == {"LB", "LBU", "LH", "LHU", "LW", "SB", "SH", "SW"}

RspShifted(op, v, s) == CASE op \in {"SLL", "SLLV"} -> v * Pow2[s]
                          [] op \in {"SRL", "SRLV"} -> v \div Pow2[s]
                          [] OTHER -> Sign(v, 4) \div Pow2[s]
RspPlainOp(i, a, b) ==
    CASE i.op \in {"ADD", "ADDU"} -> a + b
      [] i.op \in {"SUB", "SUBU"} -> a - b
      [] i.op = "AND" -> a & b
      [] i.op = "OR" -> a | b
      [] i.op = "XOR" -> a ^^ b
      [] i.op = "NOR" -> B(4) - 1 - (a | b)
      [] i.op = "SLT" -> One(Sign(a, 4) < Sign(b, 4))
      [] i.op = "SLTU" -> One(a < b)
      [] OTHER -> RspShifted(i.op, b, IF i.op \in ShiftOps THEN i.sa ELSE a % WordBits)

\* Mutant: SLTIU compares with the zero-extended operand.
MutRspImmOp(i, a) ==
    CASE i.op \in {"ADDI", "ADDIU"} -> a + Sign(i.imm, 2)
      [] i.op = "SLTI" -> One(Sign(a, 4) < Sign(i.imm, 2))
      [] i.op = "SLTIU" -> One(a < i.imm)
      [] i.op = "ANDI" -> a & i.imm
      [] i.op = "ORI" -> a | i.imm
      [] i.op = "XORI" -> a ^^ i.imm
      [] OTHER -> i.imm * B(2)

RspImmOp(i, a) ==
    CASE i.op \in {"ADDI", "ADDIU"} -> a + Sign(i.imm, 2)
      [] i.op = "SLTI" -> One(Sign(a, 4) < Sign(i.imm, 2))
      [] i.op = "SLTIU" -> One(a < Low(Sign(i.imm, 2), 4))
      [] i.op = "ANDI" -> a & i.imm
      [] i.op = "ORI" -> a | i.imm
      [] i.op = "XORI" -> a ^^ i.imm
      [] OTHER -> i.imm * B(2)

RspTaken(i, a, b) ==
    CASE i.op \in {"BLTZ", "BLTZAL"} -> Sign(a, 4) < 0
      [] i.op \in {"BGEZ", "BGEZAL"} -> Sign(a, 4) >= 0
      [] i.op = "BLEZ" -> Sign(a, 4) <= 0
      [] i.op = "BGTZ" -> Sign(a, 4) > 0
      [] i.op = "BEQ" -> a = b
      [] OTHER -> a # b

InImem(a) == (a - (a % 4)) % SpSize
\* pc is already the address of the delay slot.
RspJump(m, to) == [m EXCEPT !.next = InImem(to)]
RspLink(m, r) == SetRspReg(m, r, InImem(m.pc + 4))
RspBranch(m, i) ==
    LET x == IF i.op \in {"BLTZAL", "BGEZAL"} THEN RspLink(m, RA) ELSE m
    IN IF RspTaken(i, RspReg(m, i.rs), RspReg(m, i.rt)) THEN RspJump(x, m.pc + 4 * Sign(i.imm, 2)) ELSE x
RspMemory(m, i) ==
    LET a == Low(RspReg(m, i.rs) + Sign(i.imm, 2), 4)
        n == Bytes(i.op)
    IN IF i.op \in {"SB", "SH", "SW"} THEN DmemStore(m, a, n, Low(RspReg(m, i.rt), n))
       ELSE SetRspReg(m, i.rt, Extend(i.op, DmemLoad(m, a, n)))
RspExecute(m, i) ==
    LET a == RspReg(m, i.rs)
        b == RspReg(m, i.rt)
    IN CASE i.op \in RspPlainOps -> SetRspReg(m, i.rd, RspPlainOp(i, a, b))
         [] i.op \in RspImmOps -> SetRspReg(m, i.rt, RspImmOp(i, a))
         [] i.op \in RspBranchOps -> RspBranch(m, i)
         [] i.op \in RspMemOps -> RspMemory(m, i)
         [] i.op = "J" -> RspJump(m, 4 * i.imm)
         [] i.op = "JAL" -> RspJump(RspLink(m, RA), 4 * i.imm)
         [] i.op = "JR" -> RspJump(m, a)
         [] i.op = "JALR" -> RspLink(RspJump(m, a), i.rd)
         [] OTHER -> m

-----------------------------------------------------------------------------
(* The predecoded instructions.                                                   *)

ImemWord(m, a) == Joined(4, [k \in 0 .. 3 |-> m.imem[a + k]])
RefreshImemWord(m, a) == [m EXCEPT !.insns[a \div 4] = RspDecode(ImemWord(m, a))]

\* Mutant: the words past the end of IMEM are not looked for at its beginning.
MutNoteImemWritten(m, offset, length) ==
    [m EXCEPT !.insns = [w \in DOMAIN m.insns |->
        IF 4 * w \in offset .. offset + length - 1 THEN RspDecode(ImemWord(m, 4 * w)) ELSE m.insns[w]]]

NoteImemWritten(m, offset, length) ==
    [m EXCEPT !.insns = [w \in DOMAIN m.insns |->
        IF \E k \in 0 .. (length \div 4) - 1 : (offset + 4 * k) % SpSize = 4 * w
        THEN RspDecode(ImemWord(m, 4 * w)) ELSE m.insns[w]]]

\* A store to IMEM takes a whole word, or two.
BusImemWrite(m, o, n, v) ==
    LET at == o - (o % (IF n = 8 THEN 8 ELSE 4))
        size == IF n = 8 THEN 8 ELSE 4
        word == IF n = 8 THEN v ELSE Low(DmemWord(o, n, v), 4)
        x == [m EXCEPT !.imem = [c \in DOMAIN m.imem |->
                IF c \in at .. at + size - 1 THEN (word \div B(size - 1 - (c - at))) % B(1) ELSE m.imem[c]]]
    IN NoteImemWritten(x, at, size)

-----------------------------------------------------------------------------
(* DMA between RDRAM and one of the memories, row by row; both addresses are cut  *)
(* to multiples of eight and wrap.                                                *)

RowLength(t) == t.length + 8 - (t.length % 8)
Granule(a) == a - (a % 8)
DramByte(m, a) == IF a < RspRam THEN m.ram[a] ELSE 0
DramRow(t) == LET at[k \in 0 .. t.count + 1] ==
                    IF k = 0 THEN Granule(t.dram)
                    ELSE Granule((at[k - 1] + RowLength(t) + (IF k = t.count + 1 THEN 0 ELSE t.skip)) % DramSpan)
              IN at
SpRow(t) == [k \in 0 .. t.count + 1 |-> (Granule(t.mem) + k * RowLength(t)) % SpSize]
DmaRead(m, t) ==
    LET len == RowLength(t)
        row[k \in 0 .. t.count + 1] ==
          IF k = 0 THEN m
          ELSE LET x == row[k - 1]
                   from == DramRow(t)[k - 1]
                   to == SpRow(t)[k - 1]
                   old == IF t.imem THEN x.imem ELSE x.dmem
                   \* Where a row is longer than the memory the last byte written stays.
                   last(c) == CHOOSE j \in 0 .. len - 1 : (to + j) % SpSize = c /\ j + SpSize >= len
                   new == [c \in DOMAIN old |->
                             IF \E j \in 0 .. len - 1 : (to + j) % SpSize = c THEN DramByte(x, from + last(c)) ELSE old[c]]
               IN IF t.imem THEN NoteImemWritten([x EXCEPT !.imem = new], to, len) ELSE [x EXCEPT !.dmem = new]
    IN row[t.count + 1]
DmaWrite(m, t) ==
    LET len == RowLength(t)
        mem == IF t.imem THEN m.imem ELSE m.dmem
        row[k \in 0 .. t.count + 1] ==
          IF k = 0 THEN m.ram
          ELSE LET to == DramRow(t)[k - 1]
               IN [c \in DOMAIN m.ram |->
                    IF c \in to .. to + len - 1 THEN mem[(SpRow(t)[k - 1] + c - to) % SpSize] ELSE row[k - 1][c]]
    IN [m EXCEPT !.ram = row[t.count + 1]]

-----------------------------------------------------------------------------
RspCoreInit ==
    /\ \E a, b \in RspRegister, image \in RspImage :
         rsp = [gpr |-> [r \in 1 .. LastReg |-> CASE r = 1 -> a [] r = 2 -> b [] OTHER -> 0], pc |-> 0, next |-> 4, ram |-> image,
                dmem |-> [c \in 0 .. SpSize - 1 |-> 0], imem |-> [c \in 0 .. SpSize - 1 |-> 0],
                insns |-> [w \in 0 .. (SpSize \div 4) - 1 |-> RspDecode(0)]]
    /\ rspSteps = 0

RspGoes == rspSteps < MaxRspSteps /\ rspSteps' = rspSteps + 1

RspStep ==
    /\ RspGoes
    /\ LET m == [rsp EXCEPT !.pc = rsp.next, !.next = InImem(rsp.next + 4)]
       IN rsp' = RspExecute(m, rsp.insns[rsp.pc \div 4])
CpuWritesImem ==
    /\ RspGoes
    /\ \E o \in {0, 5, SpSize - 4}, n \in {1, 2, 4, 8}, v \in RspRegister :
         o % n = 0 /\ rsp' = BusImemWrite(rsp, o, n, Low(v, n))
Transfer ==
    /\ RspGoes
    /\ \E t \in RspTransfer : rsp' = DmaRead(rsp, t) \/ rsp' = DmaWrite(rsp, t)
SetRspPc ==
    /\ RspGoes
    /\ \E a \in {4} : rsp' = [rsp EXCEPT !.pc = InImem(a), !.next = InImem(InImem(a) + 4)]

RspCoreNext == RspStep \/ CpuWritesImem \/ Transfer \/ SetRspPc
RspCoreSpec == RspCoreInit /\ [][RspCoreNext]_rspCoreVars

-----------------------------------------------------------------------------
(* The RSP executes what IMEM holds: whatever the CPU stored, a DMA brought or    *)
(* wrapped round its end, and whichever row came last.                            *)
DecodedIsImem == \A w \in DOMAIN rsp.insns : rsp.insns[w] = RspDecode(ImemWord(rsp, 4 * w))

\* The CPU with the RSP's registers, and the instruction as the CPU spells it.
CpuWith(gpr) == [Start([c \in PAddrs |-> 0], 0, 0) EXCEPT !.gpr = [r \in 1 .. LastReg |-> Word(gpr[r])],
                                                           !.next = "on", !.exc = "none"]
(* The arithmetic, logic, shifts, comparisons and branch conditions written again *)
(* for the RSP are the CPU's on the lower words.                                  *)
RspAluIsCpuAlu ==
    rspSteps > 0 => \A i \in {j \in Instruction : j.op \in RspPlainOps \cup RspImmOps \cup RspBranchOps} :
        LET r == RspExecute(rsp, i)
            c == Execute(CpuWith(rsp.gpr), i)
        IN IF i.op \in RspBranchOps
           THEN c.next = IF RspTaken(i, RspReg(rsp, i.rs), RspReg(rsp, i.rt)) THEN <<"offset", Sign(i.imm, 2)>> ELSE "on"
           ELSE r.gpr = [k \in 1 .. LastReg |-> Low(c.gpr[k], 4)]
=============================================================================

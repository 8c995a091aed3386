---------------------------- MODULE MC_Algorithms ----------------------------
EXTENDS RspCore, Fpu, Vu, VuMem

VARIABLE part

I(op, rs, rt, rd, sa, imm) == [op |-> op, rs |-> rs, rt |-> rt, rd |-> rd, sa |-> sa, imm |-> imm]
Programs ==
    {I(op, 1, 2, d, 0, 0) : op \in AddOps \cup LogicOps \cup LessOps \cup ShiftVOps, d \in {0, 1}}
    \cup {I(op, 1, 2, 1, s, 0) : op \in ShiftOps \cup LongShiftOps, s \in {0, 1, 3}}
    \cup {I(op, 1, 2, 2, 0, 0) : op \in WordMulOps \cup LongMulOps \cup TrapOps \cup HiLoOps
                                        \cup {"JR", "JALR", "SYSCALL", "BREAK", "SYNC", "ERET", "CACHE"}}
    \cup {I(op, 1, 2, 0, 0, m) : op \in ImmOps \cup {"LUI", "J", "JAL"} \cup ZeroOps \cup EqualOps \cup Cop0Ops, m \in 0 .. 3}
    \cup {I(op, 1, t, 0, 0, m) : op \in MemoryOps, t \in {0, 2}, m \in 0 .. 3}
Tlbs == { <<2, 0>>, <<3, NoPage>>, <<1, 2>> }
TlbSet == { [v \in 0 .. 1 |-> t[v + 1]] : t \in Tlbs }
Rams == { [i \in 0 .. 7 |-> IF i \in {0, 3, 5, 6} THEN 1 ELSE 0] }

F(op, fmt, d, r, t, k) == [op |-> op, fmt |-> fmt, fd |-> d, fs |-> r, ft |-> t, cond |-> k]
FpuPrograms ==
    {F("C", fmt, 0, 0, r, k) : fmt \in {"S", "D"}, r \in {1, 2}, k \in {1, 2, 4, 6}}
    \cup {F(op, fmt, 2, 0, 1, 0) : op \in OpenOps \cup ToWordOps \cup {"ABS", "NEG", "MOV"}, fmt \in {"S", "D"}}
    \cup {F("CVT.D", "S", d, 0, 0, 0) : d \in {1, 2}} \cup {F("CVT.S", "D", 3, 0, 0, 0)}
    \cup {F(op, "W", 2, 0, 0, 0) : op \in {"CVT.S", "CVT.D"}}
    \cup {F(op, "W", 0, r, r, 0) : op \in MoveOps \cup TransferOps, r \in {0, 1}}
    \cup {F(op, "W", 0, 0, 0, 0) : op \in BranchOps}
FpuImages == {<<1, 6>>, <<5, 13>>, <<8, 3>>, <<15, 0>>}


\* Words of IMEM as instructions.
Decoded(w) ==
    <<I("NOP", 0, 0, 0, 0, 0), I("ADD", 1, 2, 1, 0, 0), I("SUB", 2, 1, 2, 0, 0), I("SW", 1, 2, 0, 0, 1),
      I("LB", 1, 2, 0, 0, 0), I("BLTZAL", 2, 0, 0, 0, 3), I("BNE", 1, 2, 0, 0, 1), I("JAL", 0, 0, 0, 0, 3),
      I("JR", 2, 0, 0, 0, 0), I("JALR", 1, 0, 2, 0, 0), I("NOR", 1, 2, 1, 0, 0), I("LHU", 2, 1, 0, 0, 3),
      I("SB", 2, 1, 0, 0, 2), I("SLTI", 1, 2, 0, 0, 2), I("SRAV", 1, 2, 2, 0, 0), I("J", 0, 0, 0, 0, 1)>>[w + 1]
RspImages == {[a \in 0 .. 15 |-> IF a \in s THEN 1 ELSE 0] : s \in {{0, 3, 5, 6, 8, 13, 14}, {1, 4, 7, 8, 10, 15}}}
X(im, d, m, l, c, s) == [imem |-> im, dram |-> d, mem |-> m, length |-> l, count |-> c, skip |-> s]
RspTransfers == {X(TRUE, 0, 8, 11, 0, 0), X(TRUE, 4, 0, 7, 1, 8), X(FALSE, 8, 8, 15, 0, 0),
                 X(TRUE, 24, 8, 0, 2, 3), X(FALSE, 0, 0, 20, 0, 0)}

\* Registers as rotations of 0 .. 7, so that between them the eight lanes meet every
\* pair of operands, and every pair of two-lane numbers.
Rotation(k) == [i \in VuLanes |-> (i + k) % Full]
Rotated(a, b, c) ==
    [v |-> [r \in 0 .. 5 |-> CASE r = 1 -> Rotation(a) [] r = 2 -> Rotation(b) [] r = 3 -> Rotation(c) [] OTHER -> Rotation(0)],
     lane |-> [i \in VuLanes |->
        [s |-> 0, t |-> 0, d |-> 0, h |-> (i + a) % Full, m |-> (i + b) % Full, l |-> (i + c) % Full,
         cl |-> (i + b) % 2 = 0, ch |-> (i + c) % 2 = 0, ol |-> ((i + b) \div 2) % 2 = 0,
         oh |-> ((i + c) \div 2) % 2 = 0, e |-> ((i + c) \div 4) % 2 = 0]],
     divin |-> a, divout |-> b, loaded |-> c % 2 = 0]
RotatedStarts == {Rotated(a, b, c) : a \in 0 .. Full - 1, b \in 0 .. Full - 1, c \in 0 .. Full - 1}
\* Stands for the tables: tells apart the two of them and their inputs.
Tables(root, n) == [hi |-> (IF root THEN n + 1 ELSE n + 3) % Full, lo |-> (n \div Full) % Full]
V(op, d, s, t, e) == [op |-> op, d |-> d, s |-> s, t |-> t, e |-> e]
LaneOps == MultiplyOps \cup RoundOps \cup CompareOps \cup LogicalOps
           \cup {"VMULQ", "VMACQ", "VADD", "VSUB", "VABS", "VADDC", "VSUBC", "VCH", "VCL", "VCR", "VMRG", "VNOP", "VSUM"}
VuPrograms ==
    {<<V(op, 4, 0, 2, 0)>> : op \in LaneOps}
    \cup {<<V(op, d, 1, 2, e)>> : op \in {"VADD", "VSAR"} \cup SingleOps, d \in {1, 2}, e \in {0, 3, 6, 8, 9, 10}}
    \cup {<<OnLow("VADDC"), OnHigh("VADD")>>, <<OnHigh("VCH"), OnLow("VCL")>>, MultiplyPairs}
    \cup {<<OnLow("VSUBC"), OnHigh(op)>> : op \in CompareOps \cup {"VSUB"}}

M(op, vt, e, base, off) == [op |-> op, vt |-> vt, e |-> e, base |-> base, offset |-> off]
VuMemImages == {[v |-> [r \in VuGroup |-> [b \in VuBytes |-> 128 + 16 * r + b]],
                 dmem |-> [a \in 0 .. DmemSize - 1 |-> a % 256]]}
Stored1 == {"SBV", "SSV", "SLV", "SDV", "SQV", "SRV", "SPV", "SUV", "SHV", "SFV", "SWV", "STV"}
VuMemPrograms ==
    {<<M(op, 3, e, b, 1)>> : op \in VuLoads \cup Stored1 \cup {"LTV", "MTC2"}, e \in {0, 1, 4, 8, 15}, b \in {5, DmemSize - 3}}
    \cup {<<M(p[1], 2, 0, b, 0), M(p[2], 2, 0, b, 1)>> : p \in {<<"LQV", "LRV">>, <<"SQV", "SRV">>}, b \in 0 .. DmemSize - 1}
    \cup {<<M(p[1], 2, 0, b, 0), M(p[2], 2, 0, b, 0)>> : p \in {<<"SPV", "LPV">>, <<"SUV", "LUV">>}, b \in 0 .. DmemSize - 1}
    \cup {[k \in 1 .. 14 |-> IF k <= 7 THEN M("STV", 0, 2 * k, 0, k) ELSE M("LTV", 0, 16 - 2 * (k - 7), 0, k - 7)]}

algorithmVars == <<part, isaVars, fpuVars, vuVars, vuMemVars, rspCoreVars>>

\* One part runs; the others rest.
IsaRests == st = [engine \in {"interp", "jit"} |-> Start(CHOOSE r \in StartRam : TRUE, 1, 1)] /\ tlbNow \in {CHOOSE t \in Tlb : TRUE} /\ steps = 0
FpuRests ==
    /\ fpu = [fgr |-> [r \in 0 .. FpuRegs - 1 |-> Dword(0, 0)], c |-> FALSE, rm |-> 0, fr |-> TRUE, cu1 |-> TRUE,
              gpr |-> Dword(0, 0), mem |-> [a \in {0, 1} |-> 0], exc |-> "none", next |-> "on"]
    /\ fpuSteps = 0
VuRests == vuProgram = <<>> /\ vuPc = 0 /\ vu = [engine \in VuEngines |-> Rotation(0)]
VuMemRests ==
    /\ vuMemProgram = <<M("LBV", 3, 0, 5, 1)>>
    /\ vuMemPc = 0
    /\ vuMem = [v |-> [r \in VuGroup |-> r], dmem |-> {}]
    /\ vuMemStart = vuMem
RspRests ==
    /\ rsp = [gpr |-> <<2, 2, 0>>, pc |-> 0, next |-> 4, ram |-> [a \in 0 .. RspRam - 1 |-> 0],
              dmem |-> [c \in 0 .. SpSize - 1 |-> 0], imem |-> [c \in 0 .. SpSize - 1 |-> 0],
              insns |-> [w \in 0 .. (SpSize \div 4) - 1 |-> RspDecode(0)]]
    /\ rspSteps = 0
AlgorithmsInit ==
    /\ part \in {"isa", "fpu", "vu", "vumem", "rsp"}
    /\ IF part = "isa" THEN IsaInit ELSE IsaRests
    /\ IF part = "fpu" THEN FpuInit ELSE FpuRests
    /\ IF part = "vu" THEN VuInit ELSE VuRests
    /\ IF part = "vumem" THEN VuMemInit ELSE VuMemRests
    /\ IF part = "rsp" THEN RspCoreInit ELSE RspRests
AlgorithmsNext ==
    /\ UNCHANGED part
    /\ \/ part = "isa" /\ IsaNext /\ UNCHANGED <<fpuVars, vuVars, vuMemVars, rspCoreVars>>
       \/ part = "fpu" /\ FpuNext /\ UNCHANGED <<isaVars, vuVars, vuMemVars, rspCoreVars>>
       \/ part = "vu" /\ ExecuteCompute /\ UNCHANGED <<isaVars, fpuVars, vuMemVars, rspCoreVars>>
       \/ part = "vumem" /\ ExecuteMove /\ UNCHANGED <<isaVars, fpuVars, vuVars, rspCoreVars>>
       \/ part = "rsp" /\ RspCoreNext /\ UNCHANGED <<isaVars, fpuVars, vuVars, vuMemVars>>
AlgorithmsSpec == AlgorithmsInit /\ [][AlgorithmsNext]_algorithmVars
=============================================================================

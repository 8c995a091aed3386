--------------------------------- MODULE VuMem ---------------------------------
(* Loads and stores of the RSP vector unit: a register is sixteen bytes, lane i   *)
(* its bytes 2*i and 2*i+1; the data memory wraps at its end.                     *)
EXTENDS Integers, Sequences

CONSTANTS DmemSize,         \* bytes of data memory; 4096 in the code
          VuMemImage,       \* contents of registers and memory considered
          VuMemProgram      \* sequences of instructions considered

VARIABLES vuMem,          \* the vector registers and the data memory
          vuMemProgram,   \* the sequence being executed
          vuMemPc,        \* how many of its instructions are done
          vuMemStart      \* registers and memory when it began

vuMemVars == <<vuMem, vuMemProgram, vuMemPc, vuMemStart>>

VuBytes == 0 .. 15
VuGroup == 0 .. 7      \* registers of a transposed block, and lanes of a register

\* Registers and memory hold bytes; the memory has whole quadwords, and room for eight.
ASSUME VuMemAssumption ==
    /\ DmemSize \in Nat /\ DmemSize % 16 = 0 /\ DmemSize >= 128
    /\ VuMemImage \subseteq [v : [VuGroup -> [VuBytes -> 0 .. 255]], dmem : [0 .. DmemSize - 1 -> 0 .. 255]]
    /\ VuMemProgram \subseteq Seq([op : STRING, vt : VuGroup, e : VuBytes, base : Int, offset : Int])

Dmem8(m, a) == m.dmem[a % DmemSize]
LaneAt(v, k) == v[2 * k] * 256 + v[2 * k + 1]
AllSet(x) == [b \in VuBytes |-> IF b % 2 = 0 THEN (x[b \div 2] \div 256) % 256 ELSE x[b \div 2] % 256]
\* n bytes of memory from a on go to the register from byte e on.
FromMemory(m, v, e, a, n) ==
    [b \in VuBytes |-> IF b \in e .. e + n - 1 THEN Dmem8(m, a + b - e) ELSE v[b]]
\* x[0], x[1], .. x[n - 1] go to memory from a on.
ToMemory(m, a, n, x) ==
    [m EXCEPT !.dmem = [c \in 0 .. DmemSize - 1 |->
        IF (c - a) % DmemSize < n THEN x[(c - a) % DmemSize] ELSE m.dmem[c]]]

Aligned(a, n) == a - (a % n)
Least(a, b) == IF a < b THEN a ELSE b
Scale(op) == CASE op \in {"LBV", "SBV"} -> 1 [] op \in {"LSV", "SSV"} -> 2 [] op \in {"LLV", "SLV"} -> 4
              [] op \in {"LDV", "SDV", "LPV", "SPV", "LUV", "SUV"} -> 8 [] OTHER -> 16
Address(i) == i.base + i.offset * Scale(i.op)
Register(i, k) == i.vt - (i.vt % 8) + (k % 8)

\* Bytes spread over the lanes, each at the given distance in the window of sixteen
\* from the aligned address.
Spread(m, a, distance, scale) == AllSet([k \in VuGroup |-> Dmem8(m, a + (distance[k] % 16)) * scale])

LoadRight(m, v, e, a) ==
    LET first == 16 - ((a % 16) - e)
        start == IF first < 0 THEN 0 ELSE first
    IN IF start >= 16 THEN v ELSE FromMemory(m, v, start, Aligned(a, 16), 16 - start)
LoadFourths(m, v, e, a) ==
    LET from == Aligned(a, 8)
        t == Spread(m, from, [k \in VuGroup |-> (a % 8) - e + (k % 4) * 4 + (IF k < 4 THEN 0 ELSE 8)], 128)
    IN [b \in VuBytes |-> IF b \in e .. e + 7 THEN t[b] ELSE v[b]]

VuLoad1(m, i) ==
    LET a == Address(i)
        e == i.e
        v == m.v[i.vt]
        packed == [k \in VuGroup |-> 16 - e + k + (a % 8)]
    IN CASE i.op = "LBV" -> FromMemory(m, v, e, a, 1)
         [] i.op = "LSV" -> FromMemory(m, v, e, a, 2)
         [] i.op = "LLV" -> FromMemory(m, v, e, a, 4)
         [] i.op = "LDV" -> FromMemory(m, v, e, a, 8)
         [] i.op = "LQV" -> FromMemory(m, v, e, a, 16 - (a % 16))
         [] i.op = "LRV" -> LoadRight(m, v, e, a)
         [] i.op = "LPV" -> Spread(m, Aligned(a, 8), packed, 256)
         [] i.op = "LUV" -> Spread(m, Aligned(a, 8), packed, 128)
         [] i.op = "LHV" -> Spread(m, Aligned(a, 8), [k \in VuGroup |-> 16 - e + 2 * k + (a % 8)], 128)
         [] OTHER -> LoadFourths(m, v, e, a)

\* Mutant: the rotation of the registers is left out of the memory side.
MutLoadTransposed(m, i) ==
    LET a == Aligned(Address(i), 8)
        at(k) == 2 * k + (a % 16)
    IN [m EXCEPT !.v = [r \in DOMAIN m.v |->
           IF Register(i, r) # r THEN m.v[r]
           ELSE LET k == (r - (i.e \div 2)) % 8
                IN [m.v[r] EXCEPT ![2 * k] = Dmem8(m, a + (at(k) % 16)), ![2 * k + 1] = Dmem8(m, a + ((at(k) + 1) % 16))]]]

\* Lane k of register k + e/2, round the group of eight.
LoadTransposed(m, i) ==
    LET a == Aligned(Address(i), 8)
        at(k) == 2 * k + i.e + (a % 16)
    IN [m EXCEPT !.v = [r \in DOMAIN m.v |->
           IF Register(i, r) # r THEN m.v[r]
           ELSE LET k == (r - (i.e \div 2)) % 8
                IN [m.v[r] EXCEPT ![2 * k] = Dmem8(m, a + (at(k) % 16)), ![2 * k + 1] = Dmem8(m, a + ((at(k) + 1) % 16))]]]

StoreRight(m, v, e, a) == ToMemory(m, Aligned(a, 16), a % 16, [k \in VuBytes |-> v[(e + k + 16 - (a % 16)) % 16]])

\* The lanes SFV stores for each element it knows.
FourthLanes == [e \in {0, 1, 4, 5, 8, 11, 12, 15} |->
    CASE e \in {0, 15} -> <<0, 1, 2, 3>> [] e = 1 -> <<6, 7, 4, 5>> [] e = 4 -> <<1, 2, 3, 0>> [] e = 5 -> <<7, 4, 5, 6>>
      [] e = 8 -> <<4, 5, 6, 7>> [] e = 11 -> <<3, 0, 1, 2>> [] e = 12 -> <<5, 6, 7, 4>>]
Stores(m, f) ==    \* f: address in memory -> byte
    [m EXCEPT !.dmem = [c \in 0 .. DmemSize - 1 |-> IF c \in DOMAIN f THEN f[c] ELSE m.dmem[c]]]
StoreFourths(m, v, e, a) ==
    LET at(k) == (Aligned(a, 8) + (((a % 8) + 4 * k) % 16)) % DmemSize
        byte(k) == IF e \in DOMAIN FourthLanes THEN (LaneAt(v, FourthLanes[e][k + 1]) \div 128) % 256 ELSE 0
    IN Stores(m, [c \in {at(k) : k \in 0 .. 3} |-> byte(CHOOSE k \in 0 .. 3 : at(k) = c)])
\* Sixteen bytes, two per lane or one, round the window of sixteen.
StoreRound(m, a, n, stride, x) ==
    LET at(k) == (Aligned(a, 8) + (((a % 8) + stride * k) % 16)) % DmemSize
    IN Stores(m, [c \in {at(k) : k \in 0 .. n - 1} |-> x[CHOOSE k \in 0 .. n - 1 : at(k) = c]])

VuStore1(m, i) ==
    LET a == Address(i)
        e == i.e
        v == m.v[i.vt]
        byte == [k \in VuBytes |-> v[(e + k) % 16]]
        top(k) == v[2 * (k % 8)]
        middle(k) == (LaneAt(v, k % 8) \div 128) % 256
    IN CASE i.op = "SBV" -> ToMemory(m, a, 1, byte)
         [] i.op = "SSV" -> ToMemory(m, a, 2, byte)
         [] i.op = "SLV" -> ToMemory(m, a, 4, byte)
         [] i.op = "SDV" -> ToMemory(m, a, 8, byte)
         [] i.op = "SQV" -> ToMemory(m, a, 16 - (a % 16), byte)
         [] i.op = "SRV" -> StoreRight(m, v, e, a)
         [] i.op = "SPV" -> ToMemory(m, a, 8, [k \in VuGroup |-> IF (e + k) % 16 < 8 THEN top(e + k) ELSE middle(e + k)])
         [] i.op = "SUV" -> ToMemory(m, a, 8, [k \in VuGroup |-> IF (e + k) % 16 < 8 THEN middle(e + k) ELSE top(e + k)])
         [] i.op = "SHV" -> StoreRound(m, a, 8, 2, [k \in VuGroup |-> ((byte[2 * k] * 2) + (byte[2 * k + 1] \div 128)) % 256])
         [] i.op = "SFV" -> StoreFourths(m, v, e, a)
         [] i.op = "SWV" -> StoreRound(m, a, 16, 1, byte)
         [] OTHER -> StoreRound(m, a, 16, 1,
                [k \in VuBytes |-> m.v[Register(i, (k \div 2) + (e \div 2))][k]])

VuLoads == {"LBV", "LSV", "LLV", "LDV", "LQV", "LRV", "LPV", "LUV", "LHV", "LFV"}
\* The moves between a general register, here i.value, and a vector register.
MoveTo(m, i) == [m EXCEPT !.v[i.vt] = [b \in VuBytes |->
    CASE b = i.e -> (i.base \div 256) % 256 [] b = i.e + 1 -> i.base % 256 [] OTHER -> m.v[i.vt][b]]]
VuAccess(m, i) == CASE i.op \in VuLoads -> [m EXCEPT !.v[i.vt] = VuLoad1(m, i)]
                    [] i.op = "LTV" -> LoadTransposed(m, i)
                    [] i.op = "MTC2" -> MoveTo(m, i)
                    [] OTHER -> VuStore1(m, i)

VuMemInit ==
    /\ vuMemProgram \in VuMemProgram
    /\ vuMemPc = 0
    /\ vuMem \in VuMemImage
    /\ vuMemStart = vuMem

ExecuteMove ==
    /\ vuMemPc < Len(vuMemProgram)
    /\ vuMemPc' = vuMemPc + 1
    /\ vuMem' = VuAccess(vuMem, vuMemProgram[vuMemPc + 1])
    /\ UNCHANGED <<vuMemProgram, vuMemStart>>

VuMemSpec == VuMemInit /\ [][ExecuteMove]_vuMemVars

-----------------------------------------------------------------------------
MovesDone(ops) == vuMemPc = Len(vuMemProgram) /\ [k \in DOMAIN vuMemProgram |-> vuMemProgram[k].op] = ops
FirstMove == vuMemProgram[1]
LastMove == vuMemProgram[Len(vuMemProgram)]

\* Two moves of one register, the second so many bytes further on.
PairDone(ops, gap) ==
    /\ MovesDone(ops)
    /\ FirstMove.vt = LastMove.vt /\ FirstMove.e = 0 /\ LastMove.e = 0
    /\ Address(LastMove) = Address(FirstMove) + gap

\* Seven STV, each of the next diagonal to the next quadword, and seven LTV back, each
\* by the opposite rotation.
TransposeOps == [k \in 1 .. 14 |-> IF k <= 7 THEN "STV" ELSE "LTV"]
Transposing(p) ==
    /\ Address(p[1]) % 16 = 0
    /\ \A k \in 1 .. 7 :
         /\ p[k].e = 2 * k /\ p[k + 7].e = 16 - 2 * k
         /\ Address(p[k]) = Address(p[1]) + 16 * (k - 1) /\ Address(p[k + 7]) = Address(p[k])

\* The pair LQV and LRV reads the sixteen bytes at any address, across the end of the
\* memory too; SQV and SRV write exactly those sixteen; what SPV or SUV packs, LPV or LUV
\* unpacks; STV and LTV by the diagonals transpose the eight by eight block of lanes.
PairedMoves ==
    LET v == vuMem.v[FirstMove.vt]
        old == vuMemStart.v[FirstMove.vt]
        a == Address(FirstMove)
    IN  /\ PairDone(<<"LQV", "LRV">>, 16) => \A b \in VuBytes : v[b] = Dmem8(vuMemStart, a + b)
        /\ PairDone(<<"SQV", "SRV">>, 16) => vuMem.dmem = ToMemory(vuMemStart, a, 16, v).dmem
        /\ PairDone(<<"SPV", "LPV">>, 0) /\ a % 8 = 0 =>
               \A k \in VuGroup : LaneAt(v, k) = LaneAt(old, k) - (LaneAt(old, k) % 256)
        /\ PairDone(<<"SUV", "LUV">>, 0) /\ a % 8 = 0 =>
               \A k \in VuGroup : LaneAt(v, k) \div 128 = (LaneAt(old, k) \div 128) % 256
        /\ MovesDone(TransposeOps) /\ Transposing(vuMemProgram) =>
               \A r, c \in VuGroup : LaneAt(vuMem.v[r], c) = LaneAt(vuMemStart.v[c], r)
=============================================================================

----------------------------- MODULE VectorProofs -----------------------------
(***************************************************************************)
(* Theorems about the RSP's vector unit: its moves (VuMem) and its         *)
(* computations (Vu).                                                      *)
(*                                                                         *)
(* PairsOfMovesAddUp: the moves that programs use in pairs, or in rounds   *)
(* of fourteen, do together what one move of any alignment, or a           *)
(* transposition, would do.  Every address wraps at the end of the memory, *)
(* so the proofs count distances from the first byte moved.                *)
(*                                                                         *)
(* ComputationsAgree, for any width of a lane and any program: the scalar  *)
(* and the whole-register engine compute the same.  The proof goes lane by *)
(* lane.  A multiplication is reduced to the digits of its sum             *)
(* (MultiplyIs); AddedResult and FreshResult say when slices with their    *)
(* carries are those digits, and each group of multiplications gives its   *)
(* product in that form.                                                   *)
(*                                                                         *)
(* SequencesComputeOnWords: the sequences by which microcode computes on   *)
(* numbers of two lanes do what one instruction on the whole numbers       *)
(* would.  The invariant (PairInv) says what each step leaves for the next *)
(* one: the carry, the comparison, the clip flags or the partial sum.      *)
(***************************************************************************)
EXTENDS Vu, VuMem, BitOpsProofs, TLAPS

-----------------------------------------------------------------------------
(***************************************************************************)
(* The moves of the vector unit.                                           *)
(***************************************************************************)

\* Registers and memory, and the instructions on them.
VuContents == [v : [VuGroup -> [VuBytes -> 0 .. 255]], dmem : [0 .. DmemSize - 1 -> 0 .. 255]]
VuMove == [op : STRING, vt : VuGroup, e : VuBytes, base : Int, offset : Int]

\* Every address wraps to a cell of the memory.
LEMMA CellInMemory ==
  ASSUME NEW a \in Int
  PROVE  a % DmemSize \in 0 .. DmemSize - 1
BY VuMemAssumption

\* The distance of a cell from an address is found again round the end of the memory: cells
\* less than the memory's size apart differ.
LEMMA PlaceOfCell ==
  ASSUME NEW a \in Int, NEW k \in Nat, k < DmemSize
  PROVE  (((a + k) % DmemSize) - a) % DmemSize = k
<1>1. DmemSize \in Nat \ {0} /\ k \in 0 .. DmemSize - 1
  BY VuMemAssumption
<1>2. PICK t \in Int, q \in Int : t = (a + k) % DmemSize /\ a + k = q * DmemSize + t
  <2>1. (a + k) % DmemSize \in Int /\ \E q \in Int : a + k = q * DmemSize + ((a + k) % DmemSize)
    <3>1. PICK s \in Int : s = a + k
      OBVIOUS
    <3>2. s % DmemSize \in 0 .. DmemSize - 1 /\ \E q \in Int : s = q * DmemSize + (s % DmemSize)
      BY <1>1, DividedBy
    <3>3. s % DmemSize \in Int
      BY <1>1, <3>2
    <3>4. QED
      BY <3>1, <3>2, <3>3, Zenon
  <2>2. QED
    BY <2>1, Zenon
<1>3. PICK p \in Int : p = -q
  BY <1>2
<1>4. p * DmemSize = -(q * DmemSize) /\ q * DmemSize \in Int
  BY <1>1, <1>3
<1>5. t - a = p * DmemSize + k /\ t - a \in Int
  BY <1>1, <1>2, <1>4
<1>6. (t - a) % DmemSize = k
  BY <1>1, <1>5, RemainderIs
<1>7. QED
  BY <1>2, <1>6

\* Moving the origin h bytes on takes h off the distance, or goes round.
LEMMA PlaceMoved ==
  ASSUME NEW x \in Int, NEW h \in 0 .. DmemSize - 1
  PROVE  (x - h) % DmemSize = IF x % DmemSize < h THEN (x % DmemSize) - h + DmemSize ELSE (x % DmemSize) - h
<1>1. DmemSize \in Nat \ {0}
  BY VuMemAssumption
<1>2. PICK t \in 0 .. DmemSize - 1, q \in Int : t = x % DmemSize /\ x = q * DmemSize + t
  BY <1>1, DividedBy
<1>3. CASE t < h
  <2>1. PICK p \in Int : p = q - 1
    BY <1>2
  <2>2. p * DmemSize = q * DmemSize - DmemSize
    BY <1>1, <2>1
  <2>3. x - h = p * DmemSize + (t - h + DmemSize) /\ t - h + DmemSize \in 0 .. DmemSize - 1
    BY <1>1, <1>2, <1>3, <2>2
  <2>4. QED
    <3>1. PICK y \in Int, k \in 0 .. DmemSize - 1 : y = x - h /\ k = t - h + DmemSize
      BY <1>1, <2>3
    <3>2. y = p * DmemSize + k
      BY <2>3, <3>1
    <3>3. y % DmemSize = k
      BY <1>1, <3>2, RemainderIs
    <3>4. QED
      BY <1>2, <1>3, <3>1, <3>3
<1>4. CASE t >= h
  <2>1. x - h = q * DmemSize + (t - h) /\ t - h \in 0 .. DmemSize - 1
    BY <1>1, <1>2, <1>4
  <2>2. QED
    <3>1. PICK y \in Int, k \in 0 .. DmemSize - 1 : y = x - h /\ k = t - h
      BY <1>1, <2>1
    <3>2. y = q * DmemSize + k
      BY <2>1, <3>1
    <3>3. y % DmemSize = k
      BY <1>1, <3>2, RemainderIs
    <3>4. (x - h) % DmemSize = (x % DmemSize) - h /\ ~(x % DmemSize < h)
      <4>1. x % DmemSize = t /\ x - h = y /\ (x - h) % DmemSize = t - h
        BY <1>2, <3>1, <3>3
      <4>2. ~(t < h)
        BY <1>1, <1>4
      <4>3. QED
        BY <4>1, <4>2, Zenon
    <3>5. QED
      BY <3>4
<1>5. QED
  BY <1>1, <1>2, <1>3, <1>4

\* The bytes up to the boundary and those behind it (vu_load, LQV and LRV) are sixteen bytes.
LEMMA LoadedQuad ==
  ASSUME NEW m \in VuContents, NEW v \in [VuBytes -> 0 .. 255], NEW a \in Int
  PROVE  LoadRight(m, FromMemory(m, v, 0, a, 16 - (a % 16)), 0, a + 16) = [b \in VuBytes |-> Dmem8(m, a + b)]
<1> DEFINE r == a % 16
           u == FromMemory(m, v, 0, a, 16 - r)
<1>1. r \in 0 .. 15 /\ (a + 16) % 16 = r
  OBVIOUS
<1>2. u = [b \in VuBytes |-> IF b < 16 - r THEN Dmem8(m, a + b) ELSE v[b]]
  BY <1>1 DEF FromMemory, VuBytes
<1> HIDE DEF r, u
<1>3. CASE r = 0
  <2>1. LoadRight(m, u, 0, a + 16) = u
    BY <1>1, <1>3 DEF LoadRight
  <2>2. QED
    BY <1>1, <1>2, <1>3, <2>1 DEF VuBytes, r, u
<1>4. CASE r > 0
  <2>1. LoadRight(m, u, 0, a + 16) = FromMemory(m, u, 16 - r, a + 16 - r, r)
    <3>1. Aligned(a + 16, 16) = a + 16 - r
      BY <1>1 DEF Aligned
    <3>2. 16 - (((a + 16) % 16) - 0) = 16 - r /\ ~(16 - r < 0) /\ ~(16 - r >= 16) /\ 16 - (16 - r) = r
      BY <1>1, <1>4
    <3>3. QED
      BY <3>1, <3>2 DEF LoadRight
  <2>2. ASSUME NEW b \in VuBytes
        PROVE  (IF b \in (16 - r) .. (16 - r) + r - 1 THEN Dmem8(m, a + 16 - r + b - (16 - r)) ELSE u[b])
                 = Dmem8(m, a + b)
    <3>1. CASE b < 16 - r
      BY <1>1, <1>2, <2>2, <3>1 DEF VuBytes
    <3>2. CASE b >= 16 - r
      <4>1. b \in (16 - r) .. (16 - r) + r - 1 /\ a + 16 - r + b - (16 - r) = a + b
        BY <1>1, <2>2, <3>2 DEF VuBytes
      <4>2. QED
        BY <4>1
    <3>3. QED
      BY <1>1, <2>2, <3>1, <3>2 DEF VuBytes
  <2>3. FromMemory(m, u, 16 - r, a + 16 - r, r) = [b \in VuBytes |-> Dmem8(m, a + b)]
    BY <2>2 DEF FromMemory
  <2>4. QED
    BY <2>1, <2>3 DEF r, u
<1>5. QED
  BY <1>1, <1>3, <1>4

\* The bytes stored up to the boundary and those behind it (vu_store, SQV and SRV) are the
\* sixteen bytes of the register and nothing else.
LEMMA StoredQuad ==
  ASSUME NEW m \in VuContents, NEW v, NEW x, x = [k \in VuBytes |-> v[(0 + k) % 16]], NEW a \in Int
  PROVE  LET n == ToMemory(m, a, 16 - (a % 16), x) IN
         /\ n.v = m.v
         /\ StoreRight(n, v, 0, a + 16).v = m.v
         /\ StoreRight(n, v, 0, a + 16).dmem = ToMemory(m, a, 16, v).dmem
<1> DEFINE r == a % 16
           n == ToMemory(m, a, 16 - r, x)
           y == [k \in VuBytes |-> v[(0 + k + 16 - ((a + 16) % 16)) % 16]]
           s == ToMemory(n, a + 16 - r, r, y)
<1>1. r \in 0 .. 15 /\ (a + 16) % 16 = r
  OBVIOUS
<1>2. StoreRight(n, v, 0, a + 16) = s
  <2>1. Aligned(a + 16, 16) = a + 16 - r
    BY <1>1 DEF Aligned
  <2>2. QED
    BY <1>1, <2>1 DEF StoreRight
<1>3. n.v = m.v /\ n.dmem = [c \in 0 .. DmemSize - 1 |->
             IF (c - a) % DmemSize < 16 - r THEN x[(c - a) % DmemSize] ELSE m.dmem[c]]
  BY <1>1 DEF ToMemory, VuContents
<1>4. s.v = n.v /\ s.dmem = [c \in 0 .. DmemSize - 1 |->
             IF (c - (a + 16 - r)) % DmemSize < r THEN y[(c - (a + 16 - r)) % DmemSize] ELSE n.dmem[c]]
  <2>1. n = [m EXCEPT !.dmem = n.dmem]
    BY <1>3 DEF ToMemory, VuContents
  <2> HIDE DEF n
  <2>2. s = [n EXCEPT !.dmem = [c \in 0 .. DmemSize - 1 |->
             IF (c - (a + 16 - r)) % DmemSize < r THEN y[(c - (a + 16 - r)) % DmemSize] ELSE n.dmem[c]]]
    BY DEF ToMemory
  <2>3. QED
    BY <2>1, <2>2 DEF VuContents
<1> HIDE DEF r, n, s
<1>5. ASSUME NEW c \in 0 .. DmemSize - 1
      PROVE  s.dmem[c] = (IF (c - a) % DmemSize < 16 THEN v[(c - a) % DmemSize] ELSE m.dmem[c])
  <2> DEFINE t == (c - a) % DmemSize
             z == (c - (a + 16 - r)) % DmemSize
  <2>1. t \in 0 .. DmemSize - 1
    BY VuMemAssumption
  <2>2. z = (IF t < 16 - r THEN t - (16 - r) + DmemSize ELSE t - (16 - r))
    <3>1. 16 - r \in 0 .. DmemSize - 1 /\ c - a \in Int /\ c - (a + 16 - r) = (c - a) - (16 - r)
      BY <1>1, VuMemAssumption
    <3>2. QED
      BY <3>1, PlaceMoved
  <2>3. s.dmem[c] = IF z < r THEN y[z] ELSE n.dmem[c]
    BY <1>4
  <2>4. n.dmem[c] = IF t < 16 - r THEN x[t] ELSE m.dmem[c]
    BY <1>3
  <2> HIDE DEF t, z
  <2>5. CASE t < 16 - r
    <3>1. ~(z < r)
      BY <1>1, <2>1, <2>2, <2>5, VuMemAssumption
    <3>2. t \in VuBytes /\ (0 + t) % 16 = t /\ t < 16
      BY <1>1, <2>1, <2>5 DEF VuBytes
    <3>3. x[t] = v[t]
      BY <3>2
    <3>4. QED
      BY <2>3, <2>4, <2>5, <3>1, <3>2, <3>3 DEF t
  <2>6. CASE t >= 16 - r /\ t < 16
    <3>1. z \in VuBytes /\ z < r /\ z = t - (16 - r)
      BY <1>1, <2>1, <2>2, <2>6 DEF VuBytes
    <3>2. y[z] = v[(0 + z + 16 - ((a + 16) % 16)) % 16]
      BY <3>1
    <3>3. (0 + z + 16 - ((a + 16) % 16)) % 16 = t
      BY <1>1, <2>1, <2>6, <3>1
    <3>4. QED
      BY <2>3, <2>6, <3>1, <3>2, <3>3 DEF t
  <2>7. CASE t >= 16
    <3>1. ~(z < r) /\ ~(t < 16 - r) /\ ~(t < 16)
      BY <1>1, <2>1, <2>2, <2>7
    <3>2. QED
      BY <2>3, <2>4, <3>1 DEF t
  <2>8. QED
    BY <1>1, <2>1, <2>5, <2>6, <2>7
<1>6. ToMemory(m, a, 16, v).dmem = [c \in 0 .. DmemSize - 1 |->
             IF (c - a) % DmemSize < 16 THEN v[(c - a) % DmemSize] ELSE m.dmem[c]]
  BY DEF ToMemory, VuContents
<1>7. s.dmem = ToMemory(m, a, 16, v).dmem
  <2>1. s.dmem = [c \in 0 .. DmemSize - 1 |-> s.dmem[c]]
    BY <1>4
  <2>2. QED
    BY <1>5, <1>6, <2>1
<1>8. QED
  BY <1>2, <1>3, <1>4, <1>7 DEF r, n

\* Eight bytes stored at an aligned address and spread over the lanes again (LPV, LUV).
LEMMA PackedBytes ==
  ASSUME NEW m \in VuContents, NEW a \in Int, a % 8 = 0, NEW x \in [VuGroup -> 0 .. 255],
         NEW scale \in {128, 256}, NEW e, e = 0
  PROVE  LET n == ToMemory(m, a, 8, x)
             w == Spread(n, Aligned(a, 8), [k \in VuGroup |-> 16 - e + k + (a % 8)], scale)
         IN /\ n.v = m.v
            /\ \A k \in VuGroup : LaneAt(w, k) = x[k] * scale
<1> DEFINE n == ToMemory(m, a, 8, x)
           d == [k \in VuGroup |-> 16 - e + k + (a % 8)]
           z == [k \in VuGroup |-> Dmem8(n, a + (d[k] % 16)) * scale]
<1>1. n.v = m.v /\ n.dmem = [c \in 0 .. DmemSize - 1 |->
             IF (c - a) % DmemSize < 8 THEN x[(c - a) % DmemSize] ELSE m.dmem[c]]
  BY DEF ToMemory, VuContents
<1>2. Aligned(a, 8) = a
  BY DEF Aligned
<1> HIDE DEF n
<1>3. ASSUME NEW k \in VuGroup
      PROVE  Dmem8(n, a + (d[k] % 16)) = x[k]
  <2>1. d[k] % 16 = k /\ k \in Nat /\ k < DmemSize /\ k < 8
    BY VuMemAssumption DEF VuGroup
  <2>2. (((a + k) % DmemSize) - a) % DmemSize = k
    BY <2>1, PlaceOfCell, VuMemAssumption
  <2>3. (a + k) % DmemSize \in 0 .. DmemSize - 1
    BY <2>1, CellInMemory
  <2>4. n.dmem[(a + k) % DmemSize] = x[k]
    BY <1>1, <2>1, <2>2, <2>3
  <2>5. QED
    BY <2>1, <2>4 DEF Dmem8
<1>4. z = [k \in VuGroup |-> x[k] * scale]
  BY <1>3
<1>5. Spread(n, Aligned(a, 8), d, scale) = AllSet(z)
  BY <1>2 DEF Spread
<1> HIDE DEF d, z
<1>6. ASSUME NEW k \in VuGroup
      PROVE  LaneAt(AllSet(z), k) = x[k] * scale
  <2>1. /\ 2 * k \in VuBytes /\ 2 * k + 1 \in VuBytes /\ (2 * k) % 2 = 0 /\ (2 * k + 1) % 2 # 0
        /\ (2 * k) \div 2 = k /\ (2 * k + 1) \div 2 = k
    BY DEF VuGroup, VuBytes
  <2>2. AllSet(z)[2 * k] = (z[k] \div 256) % 256 /\ AllSet(z)[2 * k + 1] = z[k] % 256
    BY <2>1 DEF AllSet
  <2>3. z[k] = x[k] * scale /\ x[k] \in 0 .. 255
    BY <1>4
  <2>4. (((x[k] * scale) \div 256) % 256) * 256 + ((x[k] * scale) % 256) = x[k] * scale
    <3>1. PICK y \in 0 .. 255 : y = x[k]
      BY <2>3
    <3>2. (((y * 128) \div 256) % 256) * 256 + ((y * 128) % 256) = y * 128
      <4>1. PICK h \in 0 .. 127, b \in 0 .. 1 : y = 2 * h + b
        BY <3>1
      <4>2. y * 128 = 256 * h + 128 * b
        BY <4>1
      <4>3. (y * 128) \div 256 = h /\ (y * 128) % 256 = 128 * b /\ h % 256 = h
        BY <4>1, <4>2
      <4>4. QED
        BY <4>2, <4>3
    <3>3. (((y * 256) \div 256) % 256) * 256 + ((y * 256) % 256) = y * 256
      <4>1. (y * 256) \div 256 = y /\ (y * 256) % 256 = 0 /\ y % 256 = y
        BY <3>1
      <4>2. QED
        BY <4>1
    <3>4. QED
      BY <3>1, <3>2, <3>3
  <2>5. QED
    BY <2>2, <2>3, <2>4 DEF LaneAt
<1>7. QED
  BY <1>1, <1>5, <1>6 DEF n, d

\* A load replaces one register.
LEMMA RegisterIsWritten ==
  ASSUME NEW m \in VuContents, NEW r \in VuGroup, NEW x
  PROVE  /\ [m EXCEPT !.v[r] = x].dmem = m.dmem
         /\ [m EXCEPT !.v[r] = x].v = [m.v EXCEPT ![r] = x]
         /\ [m EXCEPT !.v[r] = x].v[r] = x
BY DEF VuContents

\* LQV and LRV one after the other.
LEMMA QuadIsLoaded ==
  ASSUME NEW m \in VuContents, NEW i \in VuMove, NEW j \in VuMove, i.op = "LQV", j.op = "LRV",
         i.vt = j.vt, i.e = 0, j.e = 0, Address(j) = Address(i) + 16, Address(i) \in Int
  PROVE  VuAccess(VuAccess(m, i), j).v[i.vt] = [b \in VuBytes |-> Dmem8(m, Address(i) + b)]
<1> DEFINE a == Address(i)
           u == FromMemory(m, m.v[i.vt], 0, a, 16 - (a % 16))
           n == [m EXCEPT !.v[i.vt] = u]
<1>1. i.vt \in VuGroup /\ m.v[i.vt] \in [VuBytes -> 0 .. 255]
  BY DEF VuMove, VuContents
<1>2. VuAccess(m, i) = n
  BY DEF VuAccess, VuLoad1, VuLoads
<1>3. n.dmem = m.dmem /\ n.v[i.vt] = u /\ n.v = [m.v EXCEPT ![i.vt] = u] /\ DOMAIN m.v = VuGroup
  BY <1>1, RegisterIsWritten DEF VuContents
<1> HIDE DEF n
<1>4. VuAccess(n, j) = [n EXCEPT !.v[i.vt] = LoadRight(n, u, 0, a + 16)]
  BY <1>3 DEF VuAccess, VuLoad1, VuLoads
<1>5. LoadRight(n, u, 0, a + 16) = LoadRight(m, u, 0, a + 16)
  BY <1>3 DEF LoadRight, FromMemory, Dmem8
<1>6. LoadRight(m, u, 0, a + 16) = [b \in VuBytes |-> Dmem8(m, a + b)]
  BY <1>1, LoadedQuad
<1>7. [n EXCEPT !.v[i.vt] = LoadRight(n, u, 0, a + 16)].v[i.vt] = LoadRight(n, u, 0, a + 16)
  <2>1. n = [m EXCEPT !.v = [m.v EXCEPT ![i.vt] = u]]
    BY DEF n
  <2>2. QED
    BY <1>1, <1>3, <2>1 DEF VuContents
<1>8. QED
  BY <1>2, <1>4, <1>5, <1>6, <1>7

\* SQV and SRV one after the other.
LEMMA QuadIsStored ==
  ASSUME NEW m \in VuContents, NEW i \in VuMove, NEW j \in VuMove, i.op = "SQV", j.op = "SRV",
         i.vt = j.vt, i.e = 0, j.e = 0, Address(j) = Address(i) + 16, Address(i) \in Int
  PROVE  /\ VuAccess(VuAccess(m, i), j).v = m.v
         /\ VuAccess(VuAccess(m, i), j).dmem = ToMemory(m, Address(i), 16, m.v[i.vt]).dmem
<1> DEFINE a == Address(i)
           x == [k \in VuBytes |-> m.v[i.vt][(0 + k) % 16]]
           n == ToMemory(m, a, 16 - (a % 16), x)
<1>1. VuAccess(m, i) = n
  BY DEF VuAccess, VuStore1, VuLoads
<1>2. n.v = m.v /\ StoreRight(n, m.v[i.vt], 0, a + 16).v = m.v
      /\ StoreRight(n, m.v[i.vt], 0, a + 16).dmem = ToMemory(m, a, 16, m.v[i.vt]).dmem
  BY StoredQuad
<1> HIDE DEF n
<1>3. VuAccess(n, j) = StoreRight(n, m.v[i.vt], 0, a + 16)
  BY <1>2 DEF VuAccess, VuStore1, VuLoads
<1>4. QED
  BY <1>1, <1>2, <1>3

\* What SPV or SUV packs and LPV or LUV unpacks of the same register.
LEMMA HalvesArePacked ==
  ASSUME NEW m \in VuContents, NEW i \in VuMove, NEW j \in VuMove,
         i.vt = j.vt, i.e = 0, j.e = 0, Address(j) = Address(i), Address(i) \in Int, Address(i) % 8 = 0
  PROVE  /\ i.op = "SPV" /\ j.op = "LPV" => \A k \in VuGroup :
              LaneAt(VuAccess(VuAccess(m, i), j).v[i.vt], k) = m.v[i.vt][2 * k] * 256
         /\ i.op = "SUV" /\ j.op = "LUV" => \A k \in VuGroup :
              LaneAt(VuAccess(VuAccess(m, i), j).v[i.vt], k) = ((LaneAt(m.v[i.vt], k) \div 128) % 256) * 128
<1> DEFINE a == Address(i)
           v == m.v[i.vt]
           d == [k \in VuGroup |-> 16 - 0 + k + (a % 8)]
<1>1. i.vt \in VuGroup /\ v \in [VuBytes -> 0 .. 255] /\ DOMAIN m.v = VuGroup
  BY DEF VuMove, VuContents
<1>2. ASSUME NEW x \in [VuGroup -> 0 .. 255], NEW scale \in {128, 256}, NEW n, n = ToMemory(m, a, 8, x),
             VuAccess(m, i) = n,
             VuAccess(n, j) = [n EXCEPT !.v[i.vt] = Spread(n, Aligned(a, 8), d, scale)]
      PROVE  \A k \in VuGroup : LaneAt(VuAccess(VuAccess(m, i), j).v[i.vt], k) = x[k] * scale
  <2>1. n.v = m.v /\ \A k \in VuGroup : LaneAt(Spread(n, Aligned(a, 8), d, scale), k) = x[k] * scale
    BY <1>2, PackedBytes
  <2>2. [n EXCEPT !.v[i.vt] = Spread(n, Aligned(a, 8), d, scale)].v[i.vt] = Spread(n, Aligned(a, 8), d, scale)
    <3>1. n = [m EXCEPT !.dmem = [c \in 0 .. DmemSize - 1 |->
                 IF (c - a) % DmemSize < 8 THEN x[(c - a) % DmemSize] ELSE m.dmem[c]]]
      BY <1>2 DEF ToMemory
    <3>2. QED
      BY <1>1, <3>1 DEF VuContents
  <2> DEFINE w == Spread(n, Aligned(a, 8), d, scale)
  <2> HIDE DEF w
  <2>3. VuAccess(VuAccess(m, i), j) = [n EXCEPT !.v[i.vt] = w]
    BY <1>2, Zenon DEF w
  <2>4. VuAccess(VuAccess(m, i), j).v[i.vt] = w
    BY <2>2, <2>3, Zenon DEF w
  <2>5. \A k \in VuGroup : LaneAt(w, k) = x[k] * scale
    BY <2>1, Zenon DEF w
  <2>6. QED
    BY <2>4, <2>5, Zenon
<1>3. \A k \in VuGroup : 2 * k \in VuBytes /\ 2 * k + 1 \in VuBytes
  BY DEF VuGroup, VuBytes
<1> HIDE DEF v
<1>4. ASSUME i.op = "SPV", j.op = "LPV"
      PROVE  \A k \in VuGroup : LaneAt(VuAccess(VuAccess(m, i), j).v[i.vt], k) = v[2 * k] * 256
  <2> DEFINE x == [k \in VuGroup |-> v[2 * k]]
             n == ToMemory(m, a, 8, x)
  <2>1. x \in [VuGroup -> 0 .. 255]
    BY <1>1, <1>3
  <2>2. VuAccess(m, i) = n
    <3>1. \A k \in VuGroup : (0 + k) % 16 < 8 /\ (0 + k) % 8 = k
      BY DEF VuGroup
    <3>2. QED
      BY <1>4, <3>1 DEF VuAccess, VuStore1, VuLoads, v
  <2> HIDE DEF n
  <2>3. VuAccess(n, j) = [n EXCEPT !.v[i.vt] = Spread(n, Aligned(a, 8), d, 256)]
    BY <1>4 DEF VuAccess, VuLoad1, VuLoads
  <2> HIDE DEF x, a, d
  <2>4. \A k \in VuGroup : LaneAt(VuAccess(VuAccess(m, i), j).v[i.vt], k) = x[k] * 256
    <3>1. n = ToMemory(m, a, 8, x)
      BY DEF n
    <3>2. QED
      BY <1>2, <2>1, <2>2, <2>3, <3>1
  <2>5. QED
    BY <2>4 DEF x
<1>5. ASSUME i.op = "SUV", j.op = "LUV"
      PROVE  \A k \in VuGroup :
               LaneAt(VuAccess(VuAccess(m, i), j).v[i.vt], k) = ((LaneAt(v, k) \div 128) % 256) * 128
  <2> DEFINE x == [k \in VuGroup |-> (LaneAt(v, k) \div 128) % 256]
             n == ToMemory(m, a, 8, x)
  <2>1. x \in [VuGroup -> 0 .. 255]
    <3>1. \A k \in VuGroup : LaneAt(v, k) \in Int
      <4>1. ASSUME NEW k \in VuGroup PROVE LaneAt(v, k) \in Int
        <5>1. v[2 * k] \in 0 .. 255 /\ v[2 * k + 1] \in 0 .. 255
          BY <1>1, <1>3
        <5>2. QED
          <6>1. PICK y \in 0 .. 255, z \in 0 .. 255 : y = v[2 * k] /\ z = v[2 * k + 1]
            BY <5>1
          <6>2. LaneAt(v, k) = y * 256 + z
            BY <6>1, Zenon DEF LaneAt
          <6>3. QED
            BY <6>2
      <4>2. QED
        BY <4>1
    <3>2. QED
      BY <3>1
  <2>2. VuAccess(m, i) = n
    <3>1. \A k \in VuGroup : (0 + k) % 16 < 8 /\ (0 + k) % 8 = k
      BY DEF VuGroup
    <3>2. QED
      BY <1>5, <3>1 DEF VuAccess, VuStore1, VuLoads, v
  <2> HIDE DEF n
  <2>3. VuAccess(n, j) = [n EXCEPT !.v[i.vt] = Spread(n, Aligned(a, 8), d, 128)]
    BY <1>5 DEF VuAccess, VuLoad1, VuLoads
  <2> HIDE DEF x, a, d
  <2>4. \A k \in VuGroup : LaneAt(VuAccess(VuAccess(m, i), j).v[i.vt], k) = x[k] * 128
    <3>1. n = ToMemory(m, a, 8, x)
      BY DEF n
    <3>2. QED
      BY <1>2, <2>1, <2>2, <2>3, <3>1
  <2>5. QED
    BY <2>4 DEF x
<1>6. QED
  BY <1>4, <1>5 DEF v


\* Addresses are integers.
LEMMA AddressIsNumber ==
  ASSUME NEW i \in VuMove
  PROVE  Address(i) \in Int
BY DEF VuMove, Address, Scale

\* StoreRound at an aligned address writes sixteen consecutive cells.
LEMMA RowIsStored ==
  ASSUME NEW m \in VuContents, NEW a \in Int, a % 16 = 0, NEW x \in [VuBytes -> 0 .. 255]
  PROVE  LET n == StoreRound(m, a, 16, 1, x) IN
         /\ n \in VuContents /\ n.v = m.v
         /\ \A k \in VuBytes : n.dmem[(a + k) % DmemSize] = x[k]
         /\ \A c \in 0 .. DmemSize - 1 : (\A k \in VuBytes : c # (a + k) % DmemSize) => n.dmem[c] = m.dmem[c]
<1> DEFINE at(k) == (Aligned(a, 8) + (((a % 8) + 1 * k) % 16)) % DmemSize
           place(c) == CHOOSE k \in 0 .. 16 - 1 : at(k) = c
           D == {at(k) : k \in 0 .. 16 - 1}
           f == [c \in D |-> x[place(c)]]
           mem == [c \in 0 .. DmemSize - 1 |-> IF c \in DOMAIN f THEN f[c] ELSE m.dmem[c]]
           n == StoreRound(m, a, 16, 1, x)
<1>1. n = [m EXCEPT !.dmem = mem]
  BY DEF StoreRound, Stores
<1>2. VuBytes = 0 .. 16 - 1
  BY DEF VuBytes
<1>3. ASSUME NEW k \in VuBytes
      PROVE  at(k) = (a + k) % DmemSize /\ at(k) \in 0 .. DmemSize - 1
  <2>1. a % 8 = 0 /\ ((0 + 1 * k) % 16) = k
    BY DEF VuBytes
  <2>2. Aligned(a, 8) = a
    BY <2>1 DEF Aligned
  <2>3. k \in Int /\ a + k \in Int
    BY DEF VuBytes
  <2>4. QED
    BY <2>1, <2>2, <2>3, CellInMemory
<1>4. ASSUME NEW k \in VuBytes, NEW j \in VuBytes, at(k) = at(j)
      PROVE  k = j
  <2>1. (a + k) % DmemSize = (a + j) % DmemSize
    BY <1>3, <1>4
  <2>2. k \in Nat /\ j \in Nat /\ k < DmemSize /\ j < DmemSize
    BY VuMemAssumption DEF VuBytes
  <2>3. (((a + k) % DmemSize) - a) % DmemSize = k /\ (((a + j) % DmemSize) - a) % DmemSize = j
    BY <2>2, PlaceOfCell
  <2>4. QED
    BY <2>1, <2>3
<1> HIDE DEF at
<1>5. ASSUME NEW k \in VuBytes
      PROVE  place(at(k)) = k /\ at(k) \in D /\ f[at(k)] = x[k] /\ mem[at(k)] = x[k]
  <2>1. place(at(k)) \in VuBytes /\ at(place(at(k))) = at(k)
    BY <1>2
  <2>2. place(at(k)) = k
    BY <1>4, <2>1
  <2> HIDE DEF place
  <2>3. at(k) \in D /\ f[at(k)] = x[k]
    BY <1>2, <2>2
  <2>4. QED
    BY <1>3, <2>2, <2>3
<1>6. ASSUME NEW c \in 0 .. DmemSize - 1
      PROVE  mem[c] \in 0 .. 255 /\ ((\A k \in VuBytes : c # at(k)) => mem[c] = m.dmem[c])
  <2>1. CASE c \in D
    <3>1. PICK k \in VuBytes : c = at(k)
      BY <1>2, <2>1
    <3>2. QED
      BY <1>5, <3>1
  <2>2. CASE c \notin D
    <3>1. mem[c] = m.dmem[c]
      BY <2>2
    <3>2. QED
      BY <3>1 DEF VuContents
  <2>3. QED
    BY <2>1, <2>2
<1> HIDE DEF f, D, place
<1>7. mem \in [0 .. DmemSize - 1 -> 0 .. 255]
  BY <1>6
<1> HIDE DEF mem, n
<1>8. n \in VuContents /\ n.v = m.v /\ n.dmem = mem
  BY <1>1, <1>7 DEF VuContents
<1>9. QED
  BY <1>3, <1>5, <1>6, <1>8 DEF n

\* LTV at an aligned address writes one lane of each register, the next one in the next register.
LEMMA DiagonalIsLoaded ==
  ASSUME NEW m \in VuContents, NEW i \in VuMove, NEW a \in Int, a = Address(i), a % 16 = 0,
         NEW d \in 1 .. 7, i.e = 16 - 2 * d
  PROVE  LET n == LoadTransposed(m, i) IN
         /\ n \in VuContents /\ n.dmem = m.dmem
         /\ \A r \in VuGroup, b \in VuBytes :
              n.v[r][b] = IF b \div 2 = (r + d) % 8 THEN m.dmem[(a + (2 * r + (b % 2))) % DmemSize]
                                                    ELSE m.v[r][b]
<1> DEFINE n == LoadTransposed(m, i)
           lane(r) == (r + d) % 8
           row(r) == [m.v[r] EXCEPT ![2 * lane(r)] = Dmem8(m, a + 2 * r),
                                    ![2 * lane(r) + 1] = Dmem8(m, a + (2 * r + 1))]
           file == [r \in VuGroup |-> row(r)]
<1>1. ASSUME NEW r \in VuGroup
      PROVE  /\ Register(i, r) = r /\ (r - (i.e \div 2)) % 8 = lane(r)
             /\ (2 * lane(r) + i.e + (a % 16)) % 16 = 2 * r
             /\ ((2 * lane(r) + i.e + (a % 16)) + 1) % 16 = 2 * r + 1
             /\ lane(r) \in VuGroup /\ 2 * lane(r) \in VuBytes /\ 2 * lane(r) + 1 \in VuBytes
  <2>1. i.vt - (i.vt % 8) = 0 /\ r % 8 = r
    BY DEF VuMove, VuGroup
  <2>2. i.e \div 2 = 8 - d
    OBVIOUS
  <2>3. PICK q \in VuGroup : q = lane(r)
    BY DEF VuGroup
  <2>4. (q = r + d /\ r + d < 8) \/ (q = r + d - 8 /\ r + d >= 8)
    BY <2>3 DEF VuGroup
  <2>5. (r - (8 - d)) % 8 = q
    BY <2>4 DEF VuGroup
  <2>6. (2 * q + (16 - 2 * d) + 0) % 16 = 2 * r /\ ((2 * q + (16 - 2 * d) + 0) + 1) % 16 = 2 * r + 1
    BY <2>4 DEF VuGroup
  <2>7. 2 * q \in VuBytes /\ 2 * q + 1 \in VuBytes
    BY DEF VuGroup, VuBytes
  <2>8. Register(i, r) = r
    BY <2>1 DEF Register, VuGroup
  <2> HIDE DEF lane
  <2>9. QED
    BY <2>2, <2>3, <2>5, <2>6, <2>7, <2>8
<1>2. DOMAIN m.v = VuGroup
  BY DEF VuContents
<1> HIDE DEF lane
<1>3. n = [m EXCEPT !.v = file]
  <2> DEFINE at(k) == 2 * k + i.e + (a % 16)
             moved(r, k) == [m.v[r] EXCEPT ![2 * k] = Dmem8(m, a + (at(k) % 16)),
                                           ![2 * k + 1] = Dmem8(m, a + ((at(k) + 1) % 16))]
             to(r) == IF Register(i, r) # r THEN m.v[r] ELSE moved(r, (r - (i.e \div 2)) % 8)
  <2>1. Aligned(Address(i), 8) = a
    BY DEF Aligned
  <2>2. n = [m EXCEPT !.v = [r \in VuGroup |-> to(r)]]
    BY <1>2, <2>1 DEF LoadTransposed
  <2>3. ASSUME NEW r \in VuGroup PROVE to(r) = row(r)
    <3>1. to(r) = moved(r, lane(r))
      BY <1>1
    <3>2. at(lane(r)) % 16 = 2 * r /\ (at(lane(r)) + 1) % 16 = 2 * r + 1
      BY <1>1
    <3> HIDE DEF at
    <3>3. QED
      BY <3>1, <3>2
  <2> HIDE DEF to, row
  <2>4. [r \in VuGroup |-> to(r)] = file
    BY <2>3
  <2>5. QED
    BY <2>2, <2>4
<1>4. ASSUME NEW r \in VuGroup
      PROVE  /\ row(r) \in [VuBytes -> 0 .. 255]
             /\ \A b \in VuBytes : row(r)[b] = IF b \div 2 = lane(r) THEN m.dmem[(a + (2 * r + (b % 2))) % DmemSize]
                                                             ELSE m.v[r][b]
  <2>1. m.v[r] \in [VuBytes -> 0 .. 255] /\ 2 * r \in Int /\ 2 * r + 1 \in Int
    <3>1. m.v[r] \in [VuBytes -> 0 .. 255]
      BY DEF VuContents
    <3>2. 2 * r \in Int /\ 2 * r + 1 \in Int
      BY DEF VuGroup
    <3>3. QED
      BY <3>1, <3>2
  <2>2. \A c \in Int : (a + c) % DmemSize \in 0 .. DmemSize - 1
    BY CellInMemory
  <2>3. Dmem8(m, a + 2 * r) \in 0 .. 255 /\ Dmem8(m, a + (2 * r + 1)) \in 0 .. 255
    BY <2>1, <2>2 DEF Dmem8, VuContents
  <2>4. row(r) \in [VuBytes -> 0 .. 255]
    BY <1>1, <2>1, <2>3
  <2>5. ASSUME NEW b \in VuBytes
        PROVE  row(r)[b] = IF b \div 2 = lane(r) THEN m.dmem[(a + (2 * r + (b % 2))) % DmemSize] ELSE m.v[r][b]
    <3>1. PICK q \in VuGroup : q = lane(r)
      BY <1>1
    <3>2. row(r)[b] = IF b = 2 * q + 1 THEN Dmem8(m, a + (2 * r + 1))
                      ELSE IF b = 2 * q THEN Dmem8(m, a + 2 * r) ELSE m.v[r][b]
      BY <1>1, <2>1, <3>1
    <3>3. (b \div 2 = q) <=> (b = 2 * q \/ b = 2 * q + 1)
      BY DEF VuBytes, VuGroup
    <3>4. (b = 2 * q => b % 2 = 0 /\ 2 * r + (b % 2) = 2 * r) /\ (b = 2 * q + 1 => b % 2 = 1)
      BY DEF VuBytes, VuGroup
    <3> HIDE DEF row
    <3>5. QED
      BY <3>1, <3>2, <3>3, <3>4 DEF Dmem8
  <2>6. QED
    BY <2>4, <2>5
<1> HIDE DEF row
<1>5. file \in [VuGroup -> [VuBytes -> 0 .. 255]]
  BY <1>4
<1> HIDE DEF n
<1>6. n \in VuContents /\ n.dmem = m.dmem /\ n.v = file
  BY <1>3, <1>5 DEF VuContents
<1>7. QED
  BY <1>4, <1>6 DEF n, lane


\* The operations of a program.
OpsOf(p) == [k \in DOMAIN p |-> p[k].op]

\* How far the transposition of start has come after n moves, its block at address a: up to
\* seven diagonals are stored as quadwords, then n - 7 of them are loaded.
Transposed(m, start, a, n) ==
    /\ m \in VuContents
    /\ \A d \in 1 .. 7, b \in VuBytes :
         d <= n => m.dmem[(a + 16 * (d - 1) + b) % DmemSize] = start.v[((b \div 2) + d) % 8][b]
    /\ \A r \in VuGroup, b \in VuBytes :
         m.v[r][b] = IF \E d \in 1 .. 7 : d <= n - 7 /\ b \div 2 = (r + d) % 8
                     THEN start.v[b \div 2][2 * r + (b % 2)] ELSE start.v[r][b]

\* The next STV stores the next diagonal and leaves those stored before.
LEMMA StoreTransposes ==
  ASSUME NEW m, NEW start \in VuContents, NEW a \in Int, a % 16 = 0, NEW e \in 1 .. 7,
         Transposed(m, start, a, e - 1),
         NEW i \in VuMove, i.op = "STV", i.e = 2 * e, Address(i) = a + 16 * (e - 1)
  PROVE  Transposed(VuAccess(m, i), start, a, e)
<1> DEFINE s == a + 16 * (e - 1)
           x == [k \in VuBytes |-> m.v[Register(i, (k \div 2) + (i.e \div 2))][k]]
           y == [k \in VuBytes |-> start.v[((k \div 2) + e) % 8][k]]
           n == StoreRound(m, s, 16, 1, x)
<1>1. m \in VuContents /\ s \in Int /\ s % 16 = 0
  BY DEF Transposed
<1>2. VuAccess(m, i) = n
  BY DEF VuAccess, VuStore1, VuLoads
<1>3. \A r \in VuGroup, b \in VuBytes : m.v[r][b] = start.v[r][b]
  BY DEF Transposed
<1>4. ASSUME NEW k \in VuBytes
      PROVE  ((k \div 2) + e) % 8 \in VuGroup /\ Register(i, (k \div 2) + (i.e \div 2)) = ((k \div 2) + e) % 8
  <2>1. i.vt - (i.vt % 8) = 0 /\ i.e \div 2 = e
    BY DEF VuMove, VuGroup
  <2>2. PICK q \in VuGroup : q = ((k \div 2) + e) % 8
    BY DEF VuBytes, VuGroup
  <2>3. QED
    BY <2>1, <2>2 DEF Register, VuGroup
<1>5. x = y /\ y \in [VuBytes -> 0 .. 255]
  <2>1. ASSUME NEW k \in VuBytes PROVE x[k] = y[k] /\ y[k] \in 0 .. 255
    BY <1>3, <1>4 DEF VuContents
  <2>2. QED
    BY <2>1
<1> HIDE DEF x, n, s
<1>6. /\ n \in VuContents /\ n.v = m.v
      /\ \A k \in VuBytes : n.dmem[(s + k) % DmemSize] = x[k]
      /\ \A c \in 0 .. DmemSize - 1 : (\A k \in VuBytes : c # (s + k) % DmemSize) => n.dmem[c] = m.dmem[c]
  BY <1>1, <1>5, RowIsStored DEF n
<1>7. ASSUME NEW d \in 1 .. 7, NEW b \in VuBytes, d <= e
      PROVE  n.dmem[(a + 16 * (d - 1) + b) % DmemSize] = start.v[((b \div 2) + d) % 8][b]
  <2>1. CASE d = e
    BY <1>5, <1>6, <2>1 DEF s
  <2>2. CASE d # e
    <3>1. PICK p \in Nat : p = 16 * (d - 1) + b
      BY DEF VuBytes
    <3>2. p < DmemSize /\ a + p \in Int /\ a + 16 * (d - 1) + b = a + p
      BY <3>1, VuMemAssumption DEF VuBytes
    <3>3. ASSUME NEW k \in VuBytes PROVE (a + p) % DmemSize # (s + k) % DmemSize
      <4>1. PICK q \in Nat : q = 16 * (e - 1) + k
        BY DEF VuBytes
      <4>2. q < DmemSize /\ s + k = a + q
        BY <4>1, VuMemAssumption DEF VuBytes, s
      <4>3. p # q
        BY <1>7, <2>2, <3>1, <4>1 DEF VuBytes
      <4>4. (((a + p) % DmemSize) - a) % DmemSize = p /\ (((a + q) % DmemSize) - a) % DmemSize = q
        BY <3>2, <4>2, PlaceOfCell
      <4>5. QED
        BY <4>2, <4>3, <4>4
    <3>4. (a + p) % DmemSize \in 0 .. DmemSize - 1
      BY <3>2, CellInMemory
    <3>5. n.dmem[(a + p) % DmemSize] = m.dmem[(a + p) % DmemSize]
      BY <1>6, <3>3, <3>4
    <3>6. m.dmem[(a + 16 * (d - 1) + b) % DmemSize] = start.v[((b \div 2) + d) % 8][b]
      <4>1. d <= e - 1
        BY <1>7, <2>2
      <4>2. \A c \in 1 .. 7, k \in VuBytes : c <= e - 1 =>
              m.dmem[(a + 16 * (c - 1) + k) % DmemSize] = start.v[((k \div 2) + c) % 8][k]
        BY Zenon DEF Transposed
      <4>3. QED
        BY <4>1, <4>2, Zenon
    <3>7. QED
      BY <3>2, <3>5, <3>6
  <2>3. QED
    BY <2>1, <2>2
<1>8. QED
  BY <1>2, <1>3, <1>6, <1>7 DEF Transposed

\* The next LTV puts a diagonal where the transposed block has it, and no other lane.
LEMMA LoadTransposes ==
  ASSUME NEW m, NEW start \in VuContents, NEW a \in Int, a % 16 = 0, NEW e \in 1 .. 7,
         NEW q, q = e + 6, Transposed(m, start, a, q),
         NEW i \in VuMove, i.op = "LTV", i.e = 16 - 2 * e, Address(i) = a + 16 * (e - 1)
  PROVE  Transposed(VuAccess(m, i), start, a, e + 7)
<1> DEFINE s == a + 16 * (e - 1)
           n == LoadTransposed(m, i)
<1>1. m \in VuContents /\ s \in Int /\ s % 16 = 0
  BY DEF Transposed
<1>2. VuAccess(m, i) = n
  BY DEF VuAccess, VuLoads
<1>3. \A b \in VuBytes : m.dmem[(s + b) % DmemSize] = start.v[((b \div 2) + e) % 8][b]
  BY DEF Transposed
<1>4. \A r \in VuGroup, b \in VuBytes :
         m.v[r][b] = IF \E d \in 1 .. 7 : d <= q - 7 /\ b \div 2 = (r + d) % 8
                     THEN start.v[b \div 2][2 * r + (b % 2)] ELSE start.v[r][b]
  BY Zenon DEF Transposed
<1> HIDE DEF n, s
<1>5. /\ n \in VuContents /\ n.dmem = m.dmem
      /\ \A r \in VuGroup, b \in VuBytes :
           n.v[r][b] = IF b \div 2 = (r + e) % 8 THEN m.dmem[(s + (2 * r + (b % 2))) % DmemSize] ELSE m.v[r][b]
  BY <1>1, DiagonalIsLoaded DEF n, s
<1>6. ASSUME NEW r \in VuGroup, NEW b \in VuBytes
      PROVE  n.v[r][b] = IF \E d \in 1 .. 7 : d <= e + 7 - 7 /\ b \div 2 = (r + d) % 8
                         THEN start.v[b \div 2][2 * r + (b % 2)] ELSE start.v[r][b]
  <2>1. m.v[r][b] = IF \E d \in 1 .. 7 : d <= q - 7 /\ b \div 2 = (r + d) % 8
                    THEN start.v[b \div 2][2 * r + (b % 2)] ELSE start.v[r][b]
    BY <1>4
  <2>2. (\E d \in 1 .. 7 : d <= e + 7 - 7 /\ b \div 2 = (r + d) % 8)
          <=> (b \div 2 = (r + e) % 8 \/ \E d \in 1 .. 7 : d <= q - 7 /\ b \div 2 = (r + d) % 8)
    <3>1. \A d \in 1 .. 7 : d <= e + 7 - 7 <=> (d = e \/ d <= q - 7)
      OBVIOUS
    <3>2. QED
      BY <3>1
  <2>3. CASE b \div 2 = (r + e) % 8
    <3>1. 2 * r + (b % 2) \in VuBytes /\ (2 * r + (b % 2)) \div 2 = r
      BY DEF VuBytes, VuGroup
    <3>2. m.dmem[(s + (2 * r + (b % 2))) % DmemSize] = start.v[(r + e) % 8][2 * r + (b % 2)]
      BY <1>3, <3>1
    <3>3. QED
      BY <1>5, <2>2, <2>3, <3>2
  <2>4. CASE b \div 2 # (r + e) % 8
    BY <1>5, <2>1, <2>2, <2>4
  <2>5. QED
    BY <2>3, <2>4
<1>7. \A d \in 1 .. 7, b \in VuBytes :
         n.dmem[(a + 16 * (d - 1) + b) % DmemSize] = start.v[((b \div 2) + d) % 8][b]
  BY <1>5 DEF Transposed
<1>8. QED
  BY <1>2, <1>5, <1>6, <1>7 DEF Transposed

\* After all fourteen moves the block is transposed; its main diagonal was never moved.
LEMMA BlockIsTransposed ==
  ASSUME NEW m, NEW start \in VuContents, NEW a \in Int, Transposed(m, start, a, 14),
         NEW r \in VuGroup, NEW c \in VuGroup
  PROVE  LaneAt(m.v[r], c) = LaneAt(start.v[c], r)
<1>1. /\ 2 * c \in VuBytes /\ 2 * c + 1 \in VuBytes /\ (2 * c) \div 2 = c /\ (2 * c + 1) \div 2 = c
      /\ (2 * c) % 2 = 0 /\ (2 * c + 1) % 2 = 1 /\ 2 * r + 0 = 2 * r
  BY DEF VuGroup, VuBytes
<1>2. (\E d \in 1 .. 7 : d <= 14 - 7 /\ c = (r + d) % 8) <=> r # c
  <2>1. ASSUME NEW d \in 1 .. 7 PROVE (r + d) % 8 # r
    BY DEF VuGroup
  <2>2. ASSUME r < c PROVE c - r \in 1 .. 7 /\ c = (r + (c - r)) % 8
    BY <2>2 DEF VuGroup
  <2>3. ASSUME r > c PROVE c - r + 8 \in 1 .. 7 /\ c = (r + (c - r + 8)) % 8
    BY <2>3 DEF VuGroup
  <2>4. r < c \/ r = c \/ r > c
    BY DEF VuGroup
  <2>5. QED
    BY <2>1, <2>2, <2>3, <2>4
<1>3. \A b \in VuBytes :
         m.v[r][b] = IF \E d \in 1 .. 7 : d <= 14 - 7 /\ b \div 2 = (r + d) % 8
                     THEN start.v[b \div 2][2 * r + (b % 2)] ELSE start.v[r][b]
  BY DEF Transposed
<1>4. CASE r # c
  BY <1>1, <1>2, <1>3, <1>4 DEF LaneAt
<1>5. CASE r = c
  BY <1>1, <1>2, <1>3, <1>5 DEF LaneAt
<1>6. QED
  BY <1>4, <1>5

\* What the first two moves have done, and how far a transposition has come.
VuMemInv ==
    /\ vuMemProgram \in VuMemProgram /\ vuMemPc \in 0 .. Len(vuMemProgram) /\ vuMemStart \in VuContents
    /\ vuMemPc = 0 => vuMem = vuMemStart
    /\ vuMemPc = 1 => vuMem = VuAccess(vuMemStart, vuMemProgram[1])
    /\ vuMemPc = 2 => vuMem = VuAccess(VuAccess(vuMemStart, vuMemProgram[1]), vuMemProgram[2])
    /\ OpsOf(vuMemProgram) = TransposeOps /\ Transposing(vuMemProgram) =>
           Transposed(vuMem, vuMemStart, Address(vuMemProgram[1]), vuMemPc)

\* Programs are sequences of moves; one that transposes has fourteen.
LEMMA ProgramsAreMoves ==
  ASSUME NEW p \in VuMemProgram
  PROVE  /\ Len(p) \in Nat /\ DOMAIN p = 1 .. Len(p) /\ \A k \in 1 .. Len(p) : p[k] \in VuMove
         /\ OpsOf(p) = TransposeOps =>
              Len(p) = 14 /\ \A k \in 1 .. 7 : p[k].op = "STV" /\ p[k + 7].op = "LTV"
<1>1. p \in Seq(VuMove)
  BY VuMemAssumption DEF VuMove
<1>2. Len(p) \in Nat /\ DOMAIN p = 1 .. Len(p) /\ \A k \in 1 .. Len(p) : p[k] \in VuMove
  BY <1>1
<1>3. ASSUME OpsOf(p) = TransposeOps
      PROVE  Len(p) = 14 /\ \A k \in 1 .. 7 : p[k].op = "STV" /\ p[k + 7].op = "LTV"
  <2>1. DOMAIN OpsOf(p) = 1 .. Len(p) /\ \A k \in 1 .. Len(p) : OpsOf(p)[k] = p[k].op
    BY <1>2 DEF OpsOf
  <2>2. DOMAIN TransposeOps = 1 .. 14 /\ \A k \in 1 .. 7 : TransposeOps[k] = "STV" /\ TransposeOps[k + 7] = "LTV"
    BY DEF TransposeOps
  <2>3. 1 .. Len(p) = 1 .. 14
    BY <1>3, <2>1, <2>2
  <2>4. 14 \in 1 .. Len(p) /\ (Len(p) > 14 => 15 \in 1 .. Len(p))
    BY <1>2, <2>3
  <2>5. Len(p) = 14
    BY <1>2, <2>3, <2>4
  <2>6. QED
    BY <1>3, <2>1, <2>2, <2>5
<1>4. QED
  BY <1>2, <1>3

\* Nothing is done at the start.
LEMMA VuMemInvInit == VuMemInit => VuMemInv
<1> SUFFICES ASSUME VuMemInit PROVE VuMemInv
  OBVIOUS
<1>1. vuMemStart \in VuContents /\ vuMemPc = 0 /\ vuMem = vuMemStart /\ vuMemProgram \in VuMemProgram
  BY VuMemAssumption DEF VuMemInit, VuContents
<1>2. \A a : Transposed(vuMem, vuMemStart, a, 0)
  <2>1. ~\E d \in 1 .. 7 : d <= 0 - 7
    OBVIOUS
  <2>2. ~\E d \in 1 .. 7 : d <= 0
    OBVIOUS
  <2>3. QED
    BY <1>1, <2>1, <2>2 DEF Transposed
<1>3. Len(vuMemProgram) \in Nat
  BY <1>1, ProgramsAreMoves
<1>4. QED
  BY <1>1, <1>2, <1>3 DEF VuMemInv

\* Every move of execute_lwc2 and execute_swc2 keeps the account.
LEMMA VuMemInvKept == VuMemInv /\ [ExecuteMove]_vuMemVars => VuMemInv'
<1> SUFFICES ASSUME VuMemInv, [ExecuteMove]_vuMemVars PROVE VuMemInv'
  OBVIOUS
<1>1. CASE ExecuteMove
  <2> DEFINE p == vuMemProgram
             n == vuMemPc
  <2>1. /\ n < Len(p) /\ n' = n + 1 /\ vuMem' = VuAccess(vuMem, p[n + 1])
        /\ vuMemProgram' = p /\ vuMemStart' = vuMemStart
    BY <1>1 DEF ExecuteMove
  <2>2. p \in VuMemProgram /\ n \in 0 .. Len(p) /\ vuMemStart \in VuContents
    BY DEF VuMemInv
  <2>3. Len(p) \in Nat /\ \A k \in 1 .. Len(p) : p[k] \in VuMove
    BY <2>2, ProgramsAreMoves
  <2>4. n' \in 0 .. Len(p)
    BY <2>1, <2>2, <2>3
  <2>5. /\ n' = 0 => vuMem' = vuMemStart
        /\ n' = 1 => vuMem' = VuAccess(vuMemStart, p[1])
        /\ n' = 2 => vuMem' = VuAccess(VuAccess(vuMemStart, p[1]), p[2])
    <3>1. n' # 0 /\ (n' = 1 => n = 0) /\ (n' = 2 => n = 1)
      BY <2>1, <2>2, <2>3
    <3>2. QED
      BY <2>1, <3>1 DEF VuMemInv
  <2>6. ASSUME OpsOf(p) = TransposeOps, Transposing(p)
        PROVE  Transposed(vuMem', vuMemStart, Address(p[1]), n')
    <3> DEFINE a == Address(p[1])
    <3>1. Len(p) = 14 /\ \A k \in 1 .. 7 : p[k].op = "STV" /\ p[k + 7].op = "LTV"
      BY <2>2, <2>6, ProgramsAreMoves
    <3>2. a \in Int /\ a % 16 = 0
      <4>1. p[1] \in VuMove
        BY <2>3, <3>1
      <4>2. QED
        BY <2>6, <4>1, AddressIsNumber DEF Transposing
    <3>3. Transposed(vuMem, vuMemStart, a, n)
      BY <2>6 DEF VuMemInv
    <3>4. \A k \in 1 .. 7 : /\ p[k].e = 2 * k /\ p[k + 7].e = 16 - 2 * k
                            /\ Address(p[k]) = a + 16 * (k - 1) /\ Address(p[k + 7]) = a + 16 * (k - 1)
      BY <2>6, Zenon DEF Transposing
    <3> HIDE DEF p, a, n
    <3>5. CASE n < 7
      <4>1. PICK e \in 1 .. 7 : e = n + 1 /\ n = e - 1
        BY <2>2, <3>5
      <4>2. p[e] \in VuMove
        BY <2>3, <3>1, <4>1
      <4>3. Transposed(VuAccess(vuMem, p[e]), vuMemStart, a, e)
        BY <2>2, <3>1, <3>2, <3>3, <3>4, <4>1, <4>2, StoreTransposes
      <4>4. QED
        BY <2>1, <4>1, <4>3 DEF a
    <3>6. CASE n >= 7
      <4>1. PICK e \in 1 .. 7 : e + 7 = n + 1 /\ n = e + 6
        BY <2>1, <2>2, <3>1, <3>6
      <4>2. p[e + 7] \in VuMove
        BY <2>3, <3>1, <4>1
      <4>3. Transposed(VuAccess(vuMem, p[e + 7]), vuMemStart, a, e + 7)
        BY <2>2, <3>1, <3>2, <3>3, <3>4, <4>1, <4>2, LoadTransposes
      <4>4. QED
        BY <2>1, <4>1, <4>3 DEF a
    <3>7. QED
      BY <2>2, <2>3, <3>5, <3>6 DEF a
  <2>7. QED
    BY <2>1, <2>2, <2>4, <2>5, <2>6 DEF VuMemInv
<1>2. CASE UNCHANGED vuMemVars
  BY <1>2 DEF vuMemVars, VuMemInv
<1>3. QED
  BY <1>1, <1>2


\* What the invariant says when a pair, or a transposition, is done.
LEMMA PairsFollow ==
  ASSUME VuMemInv
  PROVE  /\ \A op1, op2, gap : PairDone(<<op1, op2>>, gap) =>
              /\ FirstMove \in VuMove /\ LastMove \in VuMove /\ FirstMove.op = op1 /\ LastMove.op = op2
              /\ FirstMove.vt = LastMove.vt /\ FirstMove.e = 0 /\ LastMove.e = 0
              /\ Address(FirstMove) \in Int /\ Address(LastMove) = Address(FirstMove) + gap
              /\ vuMemStart \in VuContents /\ vuMem = VuAccess(VuAccess(vuMemStart, FirstMove), LastMove)
         /\ MovesDone(TransposeOps) /\ Transposing(vuMemProgram) =>
              vuMemStart \in VuContents /\ \E a \in Int : Transposed(vuMem, vuMemStart, a, 14)
<1>1. vuMemProgram \in VuMemProgram /\ vuMemStart \in VuContents
  BY DEF VuMemInv
<1>2. /\ Len(vuMemProgram) \in Nat /\ DOMAIN vuMemProgram = 1 .. Len(vuMemProgram)
      /\ \A k \in 1 .. Len(vuMemProgram) : vuMemProgram[k] \in VuMove
  BY <1>1, ProgramsAreMoves
<1>3. ASSUME NEW op1, NEW op2, NEW gap, PairDone(<<op1, op2>>, gap)
      PROVE  /\ FirstMove \in VuMove /\ LastMove \in VuMove /\ FirstMove.op = op1 /\ LastMove.op = op2
             /\ FirstMove.vt = LastMove.vt /\ FirstMove.e = 0 /\ LastMove.e = 0
             /\ Address(FirstMove) \in Int /\ Address(LastMove) = Address(FirstMove) + gap
             /\ vuMemStart \in VuContents /\ vuMem = VuAccess(VuAccess(vuMemStart, FirstMove), LastMove)
  <2>1. vuMemPc = Len(vuMemProgram) /\ OpsOf(vuMemProgram) = <<op1, op2>>
    BY <1>3 DEF PairDone, MovesDone, OpsOf
  <2>2. DOMAIN OpsOf(vuMemProgram) = 1 .. Len(vuMemProgram)
        /\ \A k \in 1 .. Len(vuMemProgram) : OpsOf(vuMemProgram)[k] = vuMemProgram[k].op
    BY <1>2 DEF OpsOf
  <2>3. DOMAIN <<op1, op2>> = 1 .. 2 /\ <<op1, op2>>[1] = op1 /\ <<op1, op2>>[2] = op2
    OBVIOUS
  <2>4. 1 .. Len(vuMemProgram) = 1 .. 2
    BY <2>1, <2>2, <2>3, Zenon
  <2>5. 2 \in 1 .. Len(vuMemProgram) /\ (Len(vuMemProgram) > 2 => 3 \in 1 .. Len(vuMemProgram))
    BY <1>2, <2>4
  <2>6. Len(vuMemProgram) = 2
    BY <1>2, <2>4, <2>5
  <2>7. FirstMove = vuMemProgram[1] /\ LastMove = vuMemProgram[2]
    BY <2>6 DEF FirstMove, LastMove
  <2>8. FirstMove \in VuMove /\ LastMove \in VuMove /\ FirstMove.op = op1 /\ LastMove.op = op2
    BY <1>2, <2>1, <2>2, <2>3, <2>6, <2>7
  <2>9. vuMem = VuAccess(VuAccess(vuMemStart, FirstMove), LastMove)
    BY <2>1, <2>6, <2>7 DEF VuMemInv
  <2>10. QED
    BY <1>1, <1>3, <2>8, <2>9, AddressIsNumber DEF PairDone
<1>4. ASSUME MovesDone(TransposeOps), Transposing(vuMemProgram)
      PROVE  \E a \in Int : Transposed(vuMem, vuMemStart, a, 14)
  <2>1. vuMemPc = Len(vuMemProgram) /\ OpsOf(vuMemProgram) = TransposeOps
    BY <1>4 DEF MovesDone, OpsOf
  <2>2. Len(vuMemProgram) = 14
    BY <1>1, <2>1, ProgramsAreMoves
  <2>3. Address(vuMemProgram[1]) \in Int
    BY <1>2, <2>2, AddressIsNumber
  <2>4. Transposed(vuMem, vuMemStart, Address(vuMemProgram[1]), 14)
    BY <1>4, <2>1, <2>2 DEF VuMemInv
  <2>5. QED
    BY <2>3, <2>4
<1>5. QED
  BY <1>1, <1>3, <1>4

\* A lane loses its lower byte when its upper byte is scaled back, and nothing of bits 14 to 7
\* when these are.
LEMMA HalvesOfLanes ==
  ASSUME NEW x \in [VuBytes -> 0 .. 255], NEW k \in VuGroup
  PROVE  /\ x[2 * k] * 256 = LaneAt(x, k) - (LaneAt(x, k) % 256)
         /\ (((LaneAt(x, k) \div 128) % 256) * 128) \div 128 = (LaneAt(x, k) \div 128) % 256
<1>1. x[2 * k] \in 0 .. 255 /\ x[2 * k + 1] \in 0 .. 255
  <2>1. 2 * k \in VuBytes /\ 2 * k + 1 \in VuBytes
    BY DEF VuGroup, VuBytes
  <2>2. QED
    BY <2>1
<1>2. PICK y \in 0 .. 255, z \in 0 .. 255 : y = x[2 * k] /\ z = x[2 * k + 1]
  BY <1>1
<1>3. LaneAt(x, k) = y * 256 + z
  BY <1>2, Zenon DEF LaneAt
<1>4. (y * 256 + z) % 256 = z
  BY <1>2
<1>5. PICK l \in Int : l = y * 256 + z
  BY <1>2
<1>6. PICK h \in 0 .. 255 : h = (l \div 128) % 256
  BY <1>5
<1>7. (h * 128) \div 128 = h
  BY <1>6
<1>8. QED
  BY <1>2, <1>3, <1>4, <1>5, <1>6, <1>7

\* A lane without its lower byte, its bits 14 to 7 and what lies above bit 6.
TopOf(l) == l - (l % 256)
MiddleOf(l) == (l \div 128) % 256
UpperOf(l) == l \div 128

\* SPV and LPV leave the upper bytes.
LEMMA TopsArePacked ==
  ASSUME NEW m \in VuContents, NEW i \in VuMove, NEW j \in VuMove, i.op = "SPV", j.op = "LPV",
         i.vt = j.vt, i.e = 0, j.e = 0, Address(j) = Address(i), Address(i) \in Int, Address(i) % 8 = 0,
         NEW k \in VuGroup
  PROVE  LaneAt(VuAccess(VuAccess(m, i), j).v[i.vt], k) = TopOf(LaneAt(m.v[i.vt], k))
<1> DEFINE x == m.v[i.vt]
           y == VuAccess(VuAccess(m, i), j).v[i.vt]
<1>1. LaneAt(y, k) = x[2 * k] * 256
  BY HalvesArePacked
<1>2. x \in [VuBytes -> 0 .. 255]
  BY DEF VuMove, VuContents
<1> HIDE DEF x, y
<1>3. LaneAt(y, k) = LaneAt(x, k) - (LaneAt(x, k) % 256)
  BY <1>1, <1>2, HalvesOfLanes
<1>4. QED
  BY <1>3, Zenon DEF x, y, TopOf

\* SUV and LUV leave bits 14 to 7.
LEMMA MiddlesArePacked ==
  ASSUME NEW m \in VuContents, NEW i \in VuMove, NEW j \in VuMove, i.op = "SUV", j.op = "LUV",
         i.vt = j.vt, i.e = 0, j.e = 0, Address(j) = Address(i), Address(i) \in Int, Address(i) % 8 = 0,
         NEW k \in VuGroup
  PROVE  UpperOf(LaneAt(VuAccess(VuAccess(m, i), j).v[i.vt], k)) = MiddleOf(LaneAt(m.v[i.vt], k))
<1> DEFINE x == m.v[i.vt]
           y == VuAccess(VuAccess(m, i), j).v[i.vt]
<1>1. LaneAt(y, k) = ((LaneAt(x, k) \div 128) % 256) * 128
  BY HalvesArePacked
<1>2. x \in [VuBytes -> 0 .. 255]
  BY DEF VuMove, VuContents
<1> HIDE DEF x, y
<1>3. LaneAt(y, k) \div 128 = (LaneAt(x, k) \div 128) % 256
  BY <1>1, <1>2, HalvesOfLanes
<1>4. QED
  BY <1>3, Zenon DEF x, y, UpperOf, MiddleOf

\* For any image of registers and memory, any size of memory of whole quadwords and any
\* programs: LQV with LRV and SQV with SRV move sixteen bytes at any address, across the end of
\* the memory too, packing and unpacking are inverse, and seven STV with seven LTV transpose
\* (vu_load and vu_store of rcp/rsp_vector.cpp).
THEOREM PairsOfMovesAddUp == VuMemSpec => []PairedMoves
<1>1. VuMemInv => PairedMoves
  <2> SUFFICES ASSUME VuMemInv PROVE PairedMoves
    OBVIOUS
  <2> DEFINE v == vuMem.v[FirstMove.vt]
             old == vuMemStart.v[FirstMove.vt]
             a == Address(FirstMove)
  <2>1. ASSUME PairDone(<<"LQV", "LRV">>, 16)
        PROVE  \A b \in VuBytes : v[b] = Dmem8(vuMemStart, a + b)
    <3>1. v = [b \in VuBytes |-> Dmem8(vuMemStart, a + b)]
      BY <2>1, PairsFollow, QuadIsLoaded
    <3> HIDE DEF v, a
    <3>2. QED
      BY <3>1
  <2>2. ASSUME PairDone(<<"SQV", "SRV">>, 16)
        PROVE  vuMem.dmem = ToMemory(vuMemStart, a, 16, v).dmem
    BY <2>2, PairsFollow, QuadIsStored
  <2>3. ASSUME PairDone(<<"SPV", "LPV">>, 0), a % 8 = 0, NEW k \in VuGroup
        PROVE  LaneAt(v, k) = LaneAt(old, k) - (LaneAt(old, k) % 256)
    <3>1. /\ FirstMove \in VuMove /\ LastMove \in VuMove /\ FirstMove.op = "SPV" /\ LastMove.op = "LPV"
          /\ FirstMove.vt = LastMove.vt /\ FirstMove.e = 0 /\ LastMove.e = 0
          /\ a \in Int /\ Address(LastMove) = a + 0
          /\ vuMemStart \in VuContents /\ vuMem = VuAccess(VuAccess(vuMemStart, FirstMove), LastMove)
      BY <2>3, PairsFollow
    <3>2. Address(LastMove) = a
      BY <3>1
    <3>3. LaneAt(VuAccess(VuAccess(vuMemStart, FirstMove), LastMove).v[FirstMove.vt], k)
            = TopOf(LaneAt(vuMemStart.v[FirstMove.vt], k))
      BY <2>3, <3>1, <3>2, TopsArePacked
    <3>4. QED
      BY <3>1, <3>3, Zenon DEF TopOf
  <2>4. ASSUME PairDone(<<"SUV", "LUV">>, 0), a % 8 = 0, NEW k \in VuGroup
        PROVE  LaneAt(v, k) \div 128 = (LaneAt(old, k) \div 128) % 256
    <3>1. /\ FirstMove \in VuMove /\ LastMove \in VuMove /\ FirstMove.op = "SUV" /\ LastMove.op = "LUV"
          /\ FirstMove.vt = LastMove.vt /\ FirstMove.e = 0 /\ LastMove.e = 0
          /\ a \in Int /\ Address(LastMove) = a + 0
          /\ vuMemStart \in VuContents /\ vuMem = VuAccess(VuAccess(vuMemStart, FirstMove), LastMove)
      BY <2>4, PairsFollow
    <3>2. Address(LastMove) = a
      BY <3>1
    <3>3. UpperOf(LaneAt(VuAccess(VuAccess(vuMemStart, FirstMove), LastMove).v[FirstMove.vt], k))
            = MiddleOf(LaneAt(vuMemStart.v[FirstMove.vt], k))
      BY <2>4, <3>1, <3>2, MiddlesArePacked
    <3>4. QED
      BY <3>1, <3>3, Zenon DEF UpperOf, MiddleOf
  <2>5. ASSUME MovesDone(TransposeOps), Transposing(vuMemProgram), NEW r \in VuGroup, NEW c \in VuGroup
        PROVE  LaneAt(vuMem.v[r], c) = LaneAt(vuMemStart.v[c], r)
    <3>1. vuMemStart \in VuContents /\ \E s \in Int : Transposed(vuMem, vuMemStart, s, 14)
      BY <2>5, PairsFollow
    <3>2. QED
      BY <3>1, BlockIsTransposed
  <2> HIDE DEF v, old, a
  <2>6. QED
    BY <2>1, <2>2, <2>3, <2>4, <2>5, Zenon DEF PairedMoves, v, old, a
<1>2. QED
  BY <1>1, VuMemInvInit, VuMemInvKept, PTL DEF VuMemSpec

-----------------------------------------------------------------------------
(***************************************************************************)
(* Numbers of one lane                                                     *)
(***************************************************************************)

\* A lane holds the numbers below Full, which is twice Half.
LEMMA LaneSizes ==
  /\ Full \in Nat \ {0} /\ Half \in Nat /\ Half >= 2 /\ Full = 2 * Half
  /\ Ones = Full - 1 /\ Ones \in Int /\ LaneValue = 0 .. Full - 1
  /\ \A x \in LaneValue : x \in Nat /\ x \in Int
<1>1. LaneBits \in Nat \ {0, 1} /\ LaneBits - 1 \in Nat /\ LaneBits - 2 \in Nat
  BY VuAssumption
<1>2. Pow2[(LaneBits - 1) + 1] = 2 * Pow2[LaneBits - 1] /\ Pow2[(LaneBits - 2) + 1] = 2 * Pow2[LaneBits - 2]
  BY <1>1, Pow2Step
<1>3. Pow2[LaneBits] \in Nat \ {0} /\ Pow2[LaneBits - 1] \in Nat \ {0} /\ Pow2[LaneBits - 2] \in Nat \ {0}
  BY <1>1, Pow2Type
<1>4. (LaneBits - 1) + 1 = LaneBits /\ (LaneBits - 2) + 1 = LaneBits - 1
  BY <1>1
<1>5. Full = 2 * Pow2[LaneBits - 1] /\ Pow2[LaneBits - 1] = 2 * Pow2[LaneBits - 2]
  BY <1>2, <1>4 DEF Full
<1>6. Half = Pow2[LaneBits - 1] /\ Half >= 2
  BY <1>3, <1>5 DEF Half
<1>7. Full \in Nat \ {0} /\ Ones = Full - 1
  BY <1>3 DEF Full, Ones
<1> QED BY <1>3, <1>5, <1>6, <1>7 DEF LaneValue

\* Every integer cut to a lane is a lane.
LEMMA LaneOfType == \A x \in Int : LaneOf(x) \in LaneValue
BY LaneSizes DEF LaneOf

\* Cutting to a lane keeps a lane, and adds or takes off Full once when that is enough.
LEMMA LaneOfIs ==
  /\ \A x \in LaneValue : LaneOf(x) = x
  /\ \A x \in Int : x \in -Full .. -1 => LaneOf(x) = x + Full
  /\ \A x \in Int : x \in Full .. 2 * Full - 1 => LaneOf(x) = x - Full
<1> DEFINE d == Full
<1>1. d \in Nat \ {0} /\ LaneValue = 0 .. d - 1
  BY LaneSizes
<1> HIDE DEF d
<1>2. \A x \in LaneValue : x % d = x
  BY <1>1
<1>3. ASSUME NEW x \in Int, x \in -d .. -1 PROVE x % d = x + d
  <2> DEFINE r == x + d  q == -1
  <2>1. r \in 0 .. d - 1 /\ q \in Int /\ x = q * d + r
    BY <1>1, <1>3
  <2> HIDE DEF r, q
  <2> QED BY <1>1, <2>1, RemainderIs DEF r
<1>4. ASSUME NEW x \in Int, x \in d .. 2 * d - 1 PROVE x % d = x - d
  <2> DEFINE r == x - d  q == 1
  <2>1. r \in 0 .. d - 1 /\ q \in Int /\ x = q * d + r
    BY <1>1, <1>4
  <2> HIDE DEF r, q
  <2> QED BY <1>1, <2>1, RemainderIs DEF r
<1> QED BY <1>2, <1>3, <1>4 DEF LaneOf, d

\* Numbers that differ by a multiple of Full are the same lane.
LEMMA SameLane ==
  ASSUME NEW x \in Int, NEW y \in Int, Congruent(x, y, Full)
  PROVE  LaneOf(x) = LaneOf(y)
BY LaneSizes, SameRemainder DEF LaneOf

\* Cutting an operand first makes no difference to a sum, a difference or a product.
LEMMA LaneOfSum ==
  ASSUME NEW x \in Int, NEW y \in Int
  PROVE  /\ LaneOf(LaneOf(x) + y) = LaneOf(x + y)
         /\ LaneOf(y - LaneOf(x)) = LaneOf(y - x)
         /\ LaneOf(LaneOf(x) * y) = LaneOf(x * y)
<1>1. Full \in Nat \ {0}
  BY LaneSizes
<1>2. /\ ((x % Full) + y) % Full = (x + y) % Full
      /\ (y - (x % Full)) % Full = (y - x) % Full
      /\ ((x % Full) * y) % Full = (x * y) % Full
  BY ONLY <1>1, x \in Int, y \in Int, RemainderOfSum
<1> QED BY <1>2, Zenon DEF LaneOf

\* The signed number a lane stands for.
LEMMA IntOfIs ==
  ASSUME NEW x \in LaneValue
  PROVE  /\ IntOf(x) \in Int /\ -Half <= IntOf(x) /\ IntOf(x) < Half
         /\ x >= Half => IntOf(x) = x - Full /\ IntOf(x) < 0
         /\ x < Half => IntOf(x) = x /\ IntOf(x) >= 0
         /\ LaneOf(IntOf(x)) = x
<1>1. x \in Nat /\ x < Full /\ Full = 2 * Half /\ Half \in Nat /\ Full \in Nat
  BY LaneSizes
<1>2. IntOf(x) = IF x >= Half THEN x - Full ELSE x
  BY DEF IntOf
<1>3. /\ IntOf(x) \in Int /\ -Half <= IntOf(x) /\ IntOf(x) < Half
      /\ x >= Half => IntOf(x) = x - Full /\ IntOf(x) < 0
      /\ x < Half => IntOf(x) = x /\ IntOf(x) >= 0
  BY <1>1, <1>2
<1>4. LaneOf(IntOf(x)) = x
  <2>1. CASE x >= Half
    <3>1. x - Full \in Int /\ x - Full \in -Full .. -1 /\ (x - Full) + Full = x
      BY <1>1, <2>1
    <3> QED BY <1>3, <2>1, <3>1, LaneOfIs
  <2>2. CASE x < Half
    BY <1>3, <2>2, LaneOfIs
  <2> QED BY <1>1, <2>1, <2>2
<1> QED BY <1>3, <1>4

\* A signed number that fits comes back from its lane, and the mask tells its sign.
LEMMA IntOfLane ==
  ASSUME NEW n \in Int, -Half <= n, n < Half
  PROVE  IntOf(LaneOf(n)) = n /\ (SignMask(LaneOf(n)) = IF n < 0 THEN Ones ELSE 0)
<1>1. Full = 2 * Half /\ Half \in Nat /\ Full \in Nat /\ LaneValue = 0 .. Full - 1
  BY LaneSizes
<1>2. LaneOf(n) = IF n < 0 THEN n + Full ELSE n
  <2>1. CASE n < 0
    <3>1. n \in -Full .. -1
      BY <1>1, <2>1
    <3> QED BY <2>1, <3>1, LaneOfIs
  <2>2. CASE ~(n < 0)
    <3>1. n \in LaneValue
      BY <1>1, <2>2
    <3> QED BY <2>2, <3>1, LaneOfIs
  <2> QED BY <2>1, <2>2
<1>3. LaneOf(n) >= Half <=> n < 0
  BY <1>1, <1>2
<1> QED BY <1>1, <1>2, <1>3 DEF IntOf, SignMask

\* The clamps return numbers that fit a lane.
LEMMA ClampType == \A n \in Int : ClampSigned(n) \in Int /\ LaneOf(ClampSigned(n)) \in LaneValue /\ ClampUnsigned(n) \in LaneValue
<1> SUFFICES ASSUME NEW n \in Int PROVE ClampSigned(n) \in Int /\ LaneOf(ClampSigned(n)) \in LaneValue /\ ClampUnsigned(n) \in LaneValue
  OBVIOUS
<1>1. Full = 2 * Half /\ Half \in Nat /\ Half >= 2 /\ Full \in Nat /\ LaneValue = 0 .. Full - 1 /\ Ones = Full - 1
  BY LaneSizes
<1>2. ClampSigned(n) \in Int
  BY <1>1 DEF ClampSigned
<1>3. ClampUnsigned(n) \in LaneValue
  BY <1>1 DEF ClampUnsigned
<1> QED BY <1>2, <1>3, LaneOfType

\* Masks and complements are lanes.
LEMMA MaskType == \A x \in LaneValue : SignMask(x) \in {0, Ones} /\ SignMask(x) \in LaneValue /\ Inverted(x) \in LaneValue
<1>1. Full \in Nat \ {0} /\ LaneValue = 0 .. Full - 1 /\ Ones = Full - 1
  BY LaneSizes
<1> QED BY <1>1 DEF SignMask, Inverted

\* Saturation shows a carry.
LEMMA CarryIs ==
  ASSUME NEW a \in LaneValue, NEW b \in LaneValue
  PROVE  /\ CarryMask(a, b) = IF a + b >= Full THEN Ones ELSE 0
         /\ LaneOf(a + b) = IF a + b >= Full THEN a + b - Full ELSE a + b
<1>1. Full \in Nat \ {0} /\ LaneValue = 0 .. Full - 1 /\ Ones = Full - 1 /\ a \in 0 .. Full - 1 /\ b \in 0 .. Full - 1
  BY LaneSizes
<1>2. ASSUME NEW n \in Int, n = a + b
      PROVE  /\ CarryMask(a, b) = IF n >= Full THEN Ones ELSE 0
             /\ LaneOf(n) = IF n >= Full THEN n - Full ELSE n
  <2>1. LaneOf(n) = IF n >= Full THEN n - Full ELSE n
    <3>1. CASE n >= Full
      <4>1. n \in Full .. 2 * Full - 1
        BY <1>1, <1>2, <3>1
      <4> QED BY <1>2, <3>1, <4>1, LaneOfIs
    <3>2. CASE ~(n >= Full)
      <4>1. n \in LaneValue
        BY <1>1, <1>2, <3>2
      <4> QED BY <3>2, <4>1, LaneOfIs
    <3> QED BY <3>1, <3>2
  <2>2. CarryMask(a, b) = IF (IF n > Ones THEN Ones ELSE n) = LaneOf(n) THEN 0 ELSE Ones
    BY <1>2 DEF CarryMask, Saturating
  <2>3. CarryMask(a, b) = IF n >= Full THEN Ones ELSE 0
    BY <1>1, <1>2, <2>1, <2>2
  <2> QED BY <2>1, <2>3
<1>3. \E n \in Int : n = a + b
  BY <1>1
<1>4. PICK n \in Int : n = a + b
  BY <1>3
<1>5. /\ CarryMask(a, b) = IF n >= Full THEN Ones ELSE 0
      /\ LaneOf(n) = IF n >= Full THEN n - Full ELSE n
  BY <1>2, <1>4
<1>6. CASE n >= Full
  BY <1>1, <1>4, <1>5, <1>6
<1>7. CASE ~(n >= Full)
  BY <1>1, <1>4, <1>5, <1>7
<1> QED BY <1>6, <1>7

-----------------------------------------------------------------------------
(***************************************************************************)
(* The accumulator's slices                                                *)
(***************************************************************************)

\* What the record of one lane holds.
LEMMA LaneFields ==
  ASSUME NEW c \in LaneStates
  PROVE  /\ c.s \in LaneValue /\ c.t \in LaneValue /\ c.d \in LaneValue /\ c.h \in LaneValue /\ c.m \in LaneValue /\ c.l \in LaneValue
         /\ c.cl \in BOOLEAN /\ c.ch \in BOOLEAN /\ c.ol \in BOOLEAN /\ c.oh \in BOOLEAN /\ c.e \in BOOLEAN
BY DEF LaneStates

\* The accumulator's slices replaced.
WithAcc(c, h, m, l) == [c EXCEPT !.h = h, !.m = m, !.l = l]

\* A number written as three digits leaves its digits in the accumulator's slices.
LEMMA SetAccIs ==
  ASSUME NEW c \in LaneStates, NEW n \in Int, NEW x \in Int, NEW y \in LaneValue, NEW z \in LaneValue, n = (x * Full + y) * Full + z
  PROVE  SetAcc(c, n) = WithAcc(c, LaneOf(x), y, z)
<1> DEFINE d == Full  w == x * d + y
<1>1. d \in Nat \ {0} /\ LaneValue = 0 .. d - 1
  BY LaneSizes
<1> HIDE DEF d
<1>2. w \in Int /\ y \in 0 .. d - 1 /\ z \in 0 .. d - 1
  BY <1>1
<1>3. w % d = y /\ w \div d = x
  BY <1>1, <1>2, RemainderIs
<1>4. n % d = z /\ n \div d = w
  <2> HIDE DEF w
  <2>1. n = w * d + z
    BY DEF w, d
  <2> QED BY <1>1, <1>2, <2>1, RemainderIs
<1>5. n \div (d * d) = x
  <2>1. (n \div d) \div d = n \div (d * d)
    BY <1>1, QuotientOfQuotient
  <2> QED BY <1>3, <1>4, <2>1
<1> HIDE DEF w
<1>6. n \div (Full * Full) = x /\ LaneOf(n \div Full) = y /\ LaneOf(n) = z
  BY <1>3, <1>4, <1>5 DEF LaneOf, d
<1> QED BY <1>6 DEF SetAcc, WithAcc

\* The upper two slices are the accumulator divided by one lane.
LEMMA AccHigh ==
  ASSUME NEW c \in LaneStates
  PROVE  /\ Acc(c) \div Full = IntOf(c.h) * Full + c.m /\ Acc(c) \in Int /\ Acc(c) = (IntOf(c.h) * Full + c.m) * Full + c.l
         /\ IntOf(c.h) * Full + c.m \in Int
<1> DEFINE d == Full  x == IntOf(c.h)  w == x * d + c.m
<1>1. d \in Nat \ {0} /\ c.m \in Int /\ c.l \in 0 .. d - 1 /\ c.l \in Int /\ x \in Int
  BY LaneSizes, LaneFields, IntOfIs
<1>2. Acc(c) = w * d + c.l
  BY DEF Acc
<1> HIDE DEF d, x
<1>3. w \in Int
  BY <1>1
<1> DEFINE n == w * d + c.l  z == c.l
<1>4. n \in Int /\ z \in 0 .. d - 1
  <2> HIDE DEF w
  <2> QED BY <1>1, <1>3
<1> HIDE DEF w, z
<1>5. n = w * d + z
  BY DEF z
<1> HIDE DEF n
<1>6. n \div d = w
  BY <1>1, <1>3, <1>4, <1>5, RemainderIs
<1>7. n = w * d + c.l
  BY DEF n
<1> QED BY <1>2, <1>3, <1>4, <1>6, <1>7 DEF w, d, x

\* The carry into the highest slice, given the wrapped number added to the middle one.
LEMMA HighSlice ==
  ASSUME NEW h \in LaneValue, NEW m \in LaneValue, NEW u \in Int, NEW x \in Int, Congruent(x, u \div Full, Full)
  PROVE  /\ LaneOf(m + LaneOf(u)) = LaneOf(m + u)
         /\ LaneOf(h + x - CarryMask(m, LaneOf(u))) = LaneOf(IntOf(h) + ((m + u) \div Full))
<1> DEFINE d == Full  r == LaneOf(u)  q == u \div d
<1>1. d \in Nat \ {0} /\ LaneValue = 0 .. d - 1 /\ Ones = d - 1 /\ m \in 0 .. d - 1 /\ h \in 0 .. d - 1 /\ r \in 0 .. d - 1 /\ r \in LaneValue
  BY LaneSizes, LaneOfType
<1>2. q \in Int /\ u = q * d + r
  <2> HIDE DEF d
  <2>1. r = u % d
    BY DEF r, LaneOf, d
  <2>2. u % d \in 0 .. d - 1 /\ \E k \in Int : u \div d = k /\ u = k * d + (u % d)
    BY <1>1, DividedBy, Zenon
  <2> QED BY <2>1, <2>2
<1>3. CarryMask(m, r) = (IF m + r >= d THEN d - 1 ELSE 0) /\ (LaneOf(m + r) = IF m + r >= d THEN m + r - d ELSE m + r)
  BY <1>1, CarryIs
<1> HIDE DEF r, q, d
<1> DEFINE k == IF m + r >= d THEN 1 ELSE 0
           z == IF m + r >= d THEN m + r - d ELSE m + r
<1>4. z \in 0 .. d - 1 /\ k \in Int /\ m + r = k * d + z
  BY <1>1
<1>5. m + u = (q + k) * d + z /\ m + u \in Int /\ q + k \in Int
  <2> DEFINE qd == q * d
  <2>1. qd \in Int /\ u = qd + r
    BY <1>1, <1>2
  <2>2. (q + k) * d = qd + k * d
    BY <1>1, <1>2, <1>4
  <2> HIDE DEF qd
  <2>3. k * d \in Int /\ r \in Int /\ m \in Int
    BY <1>1, <1>4
  <2> HIDE DEF k, z
  <2> QED BY <1>1, <1>2, <1>4, <2>1, <2>2, <2>3
<1>6. (m + u) % d = z /\ (m + u) \div d = q + k
  <2> DEFINE n == m + u  j == q + k
  <2> HIDE DEF k, z
  <2>1. n \in Int /\ j \in Int /\ n = j * d + z
    BY <1>5
  <2> HIDE DEF n, j
  <2>2. n % d = z /\ n \div d = j
    BY <1>1, <1>4, <2>1, RemainderIs
  <2> QED BY <2>2 DEF n, j
<1>7. LaneOf(m + r) = LaneOf(m + u)
  BY <1>3, <1>6 DEF LaneOf, d
<1> DEFINE i == IntOf(h)
<1>8. i \in Int /\ (i = h \/ i = h - d)
  <2>1. i = IF h >= Half THEN h - d ELSE h
    BY DEF IntOf, d
  <2>2. i \in Int
    BY IntOfIs
  <2> QED BY <2>1, <2>2
<1> HIDE DEF i
<1>9. PICK p \in Int : x = q + p * d
  <2>1. Congruent(x, q, d)
    BY DEF q, d
  <2>2. \E p \in Int : x = q + p * d
    BY <2>1 DEF Congruent
  <2> QED BY <2>2
<1> DEFINE a == h + x - CarryMask(m, r)  b == i + (q + k)
<1>10. a \in Int /\ b \in Int
  BY <1>1, <1>2, <1>3, <1>8
<1>11. Congruent(a, b, d)
  <2> DEFINE pd == p * d
  <2>1. pd \in Int /\ x = q + pd
    BY <1>1, <1>9
  <2> HIDE DEF pd
  <2>2. a = h + q + pd - (k * d - k)
    <3>1. CASE m + r >= d
      <4>1. k = 1 /\ k * d = d /\ CarryMask(m, r) = d - 1
        BY <1>1, <1>3, <3>1
      <4> HIDE DEF k
      <4> QED BY <1>1, <1>2, <2>1, <4>1
    <3>2. CASE ~(m + r >= d)
      <4>1. k = 0 /\ k * d = 0 /\ CarryMask(m, r) = 0
        BY <1>1, <1>3, <3>2
      <4> HIDE DEF k
      <4> QED BY <1>1, <1>2, <2>1, <4>1
    <3> QED BY <3>1, <3>2
  <2>3. \E g \in {0, 1} : i = h - g * d
    BY <1>1, <1>8
  <2>4. PICK g \in {0, 1} : i = h - g * d
    BY <2>3
  <2>5. a = b + pd + g * d - k * d
    BY <1>1, <1>2, <2>1, <2>2, <2>4
  <2>6. a = b + (p + g - k) * d
    <3>1. (p + g - k) * d = pd + g * d - k * d
      <4> HIDE DEF k
      <4> QED BY <1>1, <1>4, <2>4 DEF pd
    <3> HIDE DEF a, b
    <3> QED BY <1>10, <2>5, <3>1, <2>1, <1>1, <1>4, <2>4
  <2>7. p + g - k \in Int
    BY <1>4, <2>4
  <2> HIDE DEF a, b
  <2> QED BY <2>6, <2>7 DEF Congruent
<1> HIDE DEF a, b
<1>12. LaneOf(a) = LaneOf(b)
  BY <1>10, <1>11, SameLane DEF d
<1> QED BY <1>6, <1>7, <1>12 DEF a, b, d, r, i

-----------------------------------------------------------------------------
(***************************************************************************)
(* Multiplications                                                         *)
(***************************************************************************)

\* The parts of a multiplication: the product, what it is added to, and the destination.
ProductOf(op, c) ==
    CASE op \in FractionOps -> 2 * IntOf(c.s) * IntOf(c.t)
      [] op \in {"VMUDL", "VMADL"} -> (c.s * c.t) \div Full
      [] op \in {"VMUDM", "VMADM"} -> IntOf(c.s) * c.t
      [] op \in {"VMUDN", "VMADN"} -> c.s * IntOf(c.t)
      [] OTHER -> IntOf(c.s) * IntOf(c.t) * Full
BaseOf(op, c) == IF op \in AddingOps THEN Acc(c) ELSE IF op \in FractionOps THEN Half ELSE 0
DestOf(op, l, m, h) ==
    CASE op \in {"VMULU", "VMACU"} -> ClampUnsigned(IntOf(h) * Full + m)
      [] op \in LowOps -> LowOrBound(l, m, h)
      [] OTHER -> SignedPack(m, h)

\* The record the whole-register engine builds out of slices.
LEMMA Rebuilt ==
  ASSUME NEW c \in LaneStates, NEW l, NEW m, NEW h, NEW d, NEW a, a = WithAcc(c, h, m, l)
  PROVE  [a EXCEPT !.d = d] = Accumulated(c, l, m, h, d)
<1>1. [[c EXCEPT !.h = h, !.m = m, !.l = l] EXCEPT !.d = d] = [c EXCEPT !.l = l, !.m = m, !.h = h, !.d = d]
  BY DEF LaneStates
<1> QED BY <1>1 DEF Accumulated, WithAcc

\* The clamp of the low slice, as the whole-register engine tests it.
LEMMA LowBound ==
  ASSUME NEW a \in LaneStates
  PROVE  ClampAccLow(a) = LowOrBound(a.l, a.m, a.h)
<1>1. /\ a.h \in 0 .. Full - 1 /\ a.m \in 0 .. Full - 1 /\ Full \in Nat /\ Half \in Nat /\ Half >= 2 /\ Full = 2 * Half /\ Ones = Full - 1
  BY LaneSizes, LaneFields
<1>2. IntOf(a.h) < 0 <=> a.h >= Half
  BY <1>1, LaneFields, IntOfIs
<1>3. /\ SignMask(a.h) = IF a.h >= Half THEN Ones ELSE 0
      /\ SignMask(a.m) = IF a.m >= Half THEN Ones ELSE 0
  BY DEF SignMask
<1>4. Inverted(SignMask(a.h)) = IF a.h >= Half THEN 0 ELSE Ones
  BY <1>1, <1>3 DEF Inverted
<1>5. SignMask(a.h) = a.h <=> a.h \in {0, Ones}
  BY <1>1, <1>3
<1>6. SignMask(a.h) = SignMask(a.m) <=> (a.h >= Half <=> a.m >= Half)
  BY <1>1, <1>3
<1>7. LowOrBound(a.l, a.m, a.h) = IF a.h \in {0, Ones} /\ (a.h >= Half <=> a.m >= Half) THEN a.l ELSE IF a.h >= Half THEN 0 ELSE Ones
  BY <1>4, <1>5, <1>6 DEF LowOrBound
<1>8. CASE a.h = 0 /\ a.m < Half
  <2>1. ClampAccLow(a) = a.l
    BY <1>1, <1>8 DEF ClampAccLow
  <2> QED BY <1>1, <1>7, <1>8, <2>1
<1>9. CASE a.h = Ones /\ a.m >= Half
  <2>1. ClampAccLow(a) = a.l
    BY <1>1, <1>9 DEF ClampAccLow
  <2> QED BY <1>1, <1>7, <1>9, <2>1
<1>10. CASE ~(a.h = 0 /\ a.m < Half) /\ ~(a.h = Ones /\ a.m >= Half)
  <2>1. ClampAccLow(a) = IF IntOf(a.h) < 0 THEN 0 ELSE Ones
    BY <1>10 DEF ClampAccLow
  <2> QED BY <1>1, <1>2, <1>7, <1>10, <2>1
<1> QED BY <1>8, <1>9, <1>10

\* A multiplication is known once the slices of its sum are: the base and the product added.
LEMMA MultiplyIs ==
  ASSUME NEW op, NEW c \in LaneStates, NEW l \in LaneValue, NEW m \in LaneValue, NEW h \in LaneValue,
         SetAcc(c, BaseOf(op, c) + ProductOf(op, c)) = WithAcc(c, h, m, l)
  PROVE  Multiply(op, c) = Accumulated(c, l, m, h, DestOf(op, l, m, h))
<1> DEFINE a == SetAcc(c, BaseOf(op, c) + ProductOf(op, c))
           d == CASE op \in {"VMULU", "VMACU"} -> ClampUnsigned(Acc(a) \div Full)
                  [] op \in LowOps -> ClampAccLow(a)
                  [] OTHER -> LaneOf(ClampSigned(Acc(a) \div Full))
<1>1. Multiply(op, c) = [a EXCEPT !.d = d]
  BY Zenon DEF Multiply, ProductOf, BaseOf
<1>2. a = WithAcc(c, h, m, l)
  OBVIOUS
<1> HIDE DEF a
<1>3. a \in LaneStates /\ a.h = h /\ a.m = m /\ a.l = l
  BY <1>2 DEF LaneStates, WithAcc
<1>4. Acc(a) \div Full = IntOf(h) * Full + m
  BY <1>3, AccHigh
<1>5. ClampAccLow(a) = LowOrBound(l, m, h)
  BY <1>3, LowBound
<1>6. d = DestOf(op, l, m, h)
  BY <1>4, <1>5, Zenon DEF DestOf, SignedPack
<1> HIDE DEF d
<1>7. [a EXCEPT !.d = d] = Accumulated(c, l, m, h, d)
  BY <1>2, Rebuilt
<1>8. Multiply(op, c) = Accumulated(c, l, m, h, d)
  BY <1>1, <1>7, Zenon
<1> QED BY <1>6, <1>8, Zenon

\* Adding a number given as a lane and the rest.
LEMMA AccumulateIs ==
  ASSUME NEW c \in LaneStates, NEW v \in Int, NEW low \in LaneValue, NEW u \in Int,
         u = v + IF c.l + low >= Full THEN 1 ELSE 0
  PROVE  SetAcc(c, Acc(c) + (v * Full + low)) =
           WithAcc(c, LaneOf(IntOf(c.h) + ((c.m + u) \div Full)), LaneOf(c.m + u), LaneOf(c.l + low))
<1> DEFINE d == Full  i == IntOf(c.h)  n == c.m + u  q == n \div d  y == n % d  z == LaneOf(c.l + low)
           k == IF c.l + low >= d THEN 1 ELSE 0
<1>1. /\ d \in Nat \ {0} /\ LaneValue = 0 .. d - 1 /\ c.m \in 0 .. d - 1 /\ c.l \in 0 .. d - 1 /\ low \in 0 .. d - 1
      /\ i \in Int
  BY LaneSizes, LaneFields, IntOfIs
<1>2. z = c.l + low - k * d /\ z \in 0 .. d - 1
  <2>1. LaneOf(c.l + low) = IF c.l + low >= Full THEN c.l + low - Full ELSE c.l + low
    BY CarryIs, LaneFields
  <2> QED BY <1>1, <2>1
<1>3. Acc(c) = (i * d + c.m) * d + c.l
  BY DEF Acc
<1>4. u = v + k /\ k \in {0, 1} /\ c.l \in Int /\ c.m \in Int /\ low \in Int /\ z \in Int
  BY <1>1, <1>2
<1>5. LaneOf(n) = y
  BY DEF LaneOf
<1> HIDE DEF d, i, z, k, n
<1>6. n \in Int /\ n = c.m + u
  BY <1>4 DEF n
<1>7. y \in 0 .. d - 1 /\ \E p \in Int : n \div d = p /\ n = p * d + (n % d)
  BY <1>1, <1>6, DividedBy, Zenon
<1>8. q \in Int /\ n = q * d + y
  BY <1>7
<1> HIDE DEF q, y
<1> DEFINE x == i + q  acc == Acc(c) + (v * Full + low)
<1>9. x \in Int
  BY <1>1, <1>8
<1>10. acc \in Int /\ acc = (x * d + y) * d + z
  <2> DEFINE id == i * d  qd == q * d  w == id + c.m
  <2>1. id \in Int /\ qd \in Int /\ x * d = id + qd
    BY <1>1, <1>8
  <2>2. acc = w * d + c.l + v * d + low
    <3>1. w * d \in Int /\ v * d \in Int
      BY <1>1, <1>4, <2>1
    <3>2. Acc(c) = w * d + c.l
      BY <1>3
    <3>3. acc = Acc(c) + (v * d + low)
      BY DEF d
    <3> DEFINE wd == w * d  vd == v * d
    <3>4. wd \in Int /\ vd \in Int /\ Acc(c) = wd + c.l /\ acc = Acc(c) + (vd + low)
      BY <3>1, <3>2, <3>3
    <3> HIDE DEF wd, vd, acc
    <3>5. acc = wd + c.l + vd + low
      BY <1>4, <3>4
    <3> QED BY <3>5 DEF wd, vd
  <2>3. w * d + v * d + k * d = (x * d + y) * d
    <3>1. w \in Int /\ x * d + y \in Int
      BY <1>1, <1>4, <1>7, <2>1
    <3>2. w + v + k = x * d + y
      <4> HIDE DEF id, qd
      <4>1. n = qd + y
        BY <1>8 DEF qd
      <4> DEFINE xd == x * d
      <4>2. xd = id + qd
        BY <2>1
      <4> HIDE DEF xd, x
      <4>5. id \in Int /\ qd \in Int
        BY <2>1
      <4>6. y \in Int
        BY <1>1, <1>7
      <4>7. k \in Int
        BY <1>4
      <4>8. n = c.m + v + k
        BY <1>4, <1>6
      <4>9. w = id + c.m
        BY DEF w
      <4>3. /\ id \in Int /\ qd \in Int /\ y \in Int /\ k \in Int /\ c.m \in Int /\ n = c.m + v + k
            /\ w = id + c.m /\ xd = id + qd /\ n = qd + y
        BY <1>4, <4>5, <4>6, <4>7, <4>8, <4>9, <4>1, <4>2, Zenon
      <4> HIDE DEF w
      <4>4. w + v + k = xd + y
        BY <4>3
      <4> QED BY <4>4 DEF xd
    <3> DEFINE s == x * d + y
    <3> HIDE DEF s, w
    <3>3. w + v + k = s
      BY <3>2 DEF s
    <3>4. w * d + v * d + k * d = (w + v + k) * d
      BY <1>1, <1>4, <3>1
    <3>5. w * d + v * d + k * d = s * d
      BY <3>3, <3>4
    <3> QED BY <3>5 DEF s
  <2> DEFINE wd == w * d  vd == v * d  kd == k * d  sd == (x * d + y) * d
  <2>4. wd \in Int /\ vd \in Int /\ kd \in Int /\ sd \in Int /\ wd + vd + kd = sd /\ acc = wd + c.l + vd + low /\ z = c.l + low - kd
    <3>1. w \in Int /\ x * d + y \in Int
      BY <1>1, <1>4, <1>7, <2>1
    <3> DEFINE s == x * d + y
    <3>2. s \in Int
      BY <3>1
    <3> HIDE DEF w, s, acc
    <3>3. w * d \in Int /\ v * d \in Int /\ k * d \in Int /\ s * d \in Int
      BY <1>1, <1>4, <3>1, <3>2
    <3> QED BY <1>2, <2>2, <2>3, <3>3 DEF s
  <2> HIDE DEF wd, vd, kd, sd, acc
  <2>5. acc \in Int /\ acc = sd + z
    BY <1>4, <2>4
  <2> QED BY <2>5 DEF sd
<1> HIDE DEF x, acc
<1>11. SetAcc(c, acc) = WithAcc(c, LaneOf(x), y, z)
  <2>1. acc = (x * Full + y) * Full + z /\ y \in LaneValue /\ z \in LaneValue
    BY <1>1, <1>2, <1>7, <1>10 DEF d
  <2>2. SetAcc(c, acc) = WithAcc(c, LaneOf(x), y, z)
    <3>1. acc \in Int /\ x \in Int /\ y \in LaneValue /\ z \in LaneValue
      BY <1>9, <1>10, <2>1
    <3>2. acc = (x * Full + y) * Full + z
      BY <2>1
    <3> QED BY <3>1, <3>2, SetAccIs, SMT
  <2> QED BY <2>2
<1>12. LaneOf(x) = LaneOf(IntOf(c.h) + ((c.m + u) \div Full)) /\ y = LaneOf(c.m + u) /\ z = LaneOf(c.l + low)
  BY <1>5 DEF x, i, q, n, d, y, z
<1> QED BY <1>11, <1>12 DEF acc

\* A multiplication that replaces the accumulator.
LEMMA FreshIs ==
  ASSUME NEW op, NEW c \in LaneStates, NEW x \in Int, NEW y \in LaneValue, NEW z \in LaneValue,
         NEW n \in Int, n = BaseOf(op, c) + ProductOf(op, c), n = (x * Full + y) * Full + z
  PROVE  Multiply(op, c) = Accumulated(c, z, y, LaneOf(x), DestOf(op, z, y, LaneOf(x)))
<1>1. SetAcc(c, n) = WithAcc(c, LaneOf(x), y, z)
  BY SetAccIs, SMT
<1>2. LaneOf(x) \in LaneValue
  BY LaneOfType
<1>3. SetAcc(c, BaseOf(op, c) + ProductOf(op, c)) = WithAcc(c, LaneOf(x), y, z)
  BY <1>1
<1> QED BY <1>2, <1>3, MultiplyIs

\* A multiplication that adds to it; x stands for the sign of what is added to the middle slice.
LEMMA AddedIs ==
  ASSUME NEW op \in AddingOps, NEW c \in LaneStates, NEW v \in Int, NEW low \in LaneValue, NEW u \in Int, NEW x \in Int,
         ProductOf(op, c) = v * Full + low, u = v + IF c.l + low >= Full THEN 1 ELSE 0,
         Congruent(x, u \div Full, Full)
  PROVE  LET l == LaneOf(c.l + low)
             m == LaneOf(c.m + LaneOf(u))
             h == LaneOf(c.h + x - CarryMask(c.m, LaneOf(u)))
         IN Multiply(op, c) = Accumulated(c, l, m, h, DestOf(op, l, m, h)) /\ l \in LaneValue /\ m \in LaneValue /\ h \in LaneValue
<1> DEFINE l == LaneOf(c.l + low)
           m == LaneOf(c.m + u)
           h == LaneOf(IntOf(c.h) + ((c.m + u) \div Full))
<1>1. BaseOf(op, c) = Acc(c)
  BY DEF BaseOf
<1>2. SetAcc(c, Acc(c) + (v * Full + low)) = WithAcc(c, h, m, l)
  BY AccumulateIs
<1>3. /\ LaneOf(c.m + LaneOf(u)) = m
      /\ LaneOf(c.h + x - CarryMask(c.m, LaneOf(u))) = h
  BY LaneFields, HighSlice
<1>4. l \in LaneValue /\ m \in LaneValue /\ h \in LaneValue
  <2>1. c.l + low \in Int /\ c.m + u \in Int /\ c.m \in Int /\ Full \in Nat \ {0} /\ IntOf(c.h) \in Int
    <3>1. c.l \in Int /\ low \in Int /\ c.m \in Int /\ Full \in Nat \ {0}
      BY LaneFields, LaneSizes
    <3>2. IntOf(c.h) \in Int
      BY LaneFields, IntOfIs
    <3> QED BY <3>1, <3>2
  <2>2. (c.m + u) \div Full \in Int
    <3> DEFINE n == c.m + u
    <3>1. n \in Int
      BY <2>1
    <3> HIDE DEF n
    <3>2. n \div Full \in Int
      BY <2>1, <3>1
    <3> QED BY <3>2 DEF n
  <2>3. IntOf(c.h) + ((c.m + u) \div Full) \in Int
    BY <2>1, <2>2
  <2> QED BY <2>1, <2>3, LaneOfType
<1> HIDE DEF l, m, h
<1>5. SetAcc(c, BaseOf(op, c) + ProductOf(op, c)) = WithAcc(c, h, m, l)
  BY <1>1, <1>2
<1>6. Multiply(op, c) = Accumulated(c, l, m, h, DestOf(op, l, m, h))
  BY <1>4, <1>5, MultiplyIs
<1> QED BY <1>3, <1>4, <1>6 DEF l

\* Products of unsigned lanes and of signed ones have the same low half.
LEMMA Halves ==
  ASSUME NEW x \in Int
  PROVE  x \div Full \in Int /\ LaneOf(x) \in LaneValue /\ x = (x \div Full) * Full + LaneOf(x)
<1> DEFINE d == Full
<1>1. d \in Nat \ {0} /\ LaneValue = 0 .. d - 1
  BY LaneSizes
<1> HIDE DEF d
<1>2. x % d \in 0 .. d - 1 /\ \E k \in Int : x \div d = k /\ x = k * d + (x % d)
  BY <1>1, DividedBy, Zenon
<1>3. x \div d \in Int /\ x = (x \div d) * d + (x % d)
  BY <1>2
<1> QED BY <1>1, <1>2, <1>3 DEF LaneOf, d

\* Products by one positive number order what is multiplied.
LEMMA Cancel ==
  ASSUME NEW a \in Int, NEW b \in Int, NEW d \in Nat \ {0}, a * d < b * d
  PROVE  a < b
<1> SUFFICES ASSUME a >= b PROVE FALSE
  OBVIOUS
<1>1. PICK k \in Nat : a = b + k
  OBVIOUS
<1>2. a * d = b * d + k * d /\ k * d >= 0 /\ k * d \in Int /\ b * d \in Int
  BY <1>1
<1> QED BY <1>2

\* The low and the high half make up the product of two bare lanes.
LEMMA UnsignedProduct ==
  ASSUME NEW a \in LaneValue, NEW b \in LaneValue
  PROVE  /\ MulLow(a, b) \in LaneValue /\ MulHigh(a, b) \in LaneValue
         /\ a * b = MulHigh(a, b) * Full + MulLow(a, b)
<1> DEFINE d == Full  p == a * b  q == MulHigh(a, b)  r == MulLow(a, b)
<1>1. d \in Nat \ {0} /\ LaneValue = 0 .. d - 1 /\ a \in 0 .. d - 1 /\ b \in 0 .. d - 1
  BY LaneSizes
<1>2. p \in Nat /\ p <= a * d /\ a * d < d * d
  <2> HIDE DEF d
  <2>1. p \in Nat /\ p <= a * d
    BY <1>1
  <2>2. a * d < d * d
    BY <1>1
  <2> QED BY <2>1, <2>2
<1>3. q \in Int /\ r \in 0 .. d - 1 /\ p = q * d + r
  <2>1. q = p \div Full /\ r = LaneOf(p)
    BY DEF MulHigh, MulLow
  <2>2. p \in Int
    BY <1>2
  <2> HIDE DEF p
  <2> QED BY <1>1, <2>1, <2>2, Halves
<1> HIDE DEF d, p, q, r
<1>4. q < d
  <2>1. q * d < d * d
    <3>1. q * d \in Int /\ a * d \in Int /\ d * d \in Int /\ r \in Nat
      BY <1>1, <1>3
    <3> DEFINE qd == q * d  ad == a * d  dd == d * d
    <3> HIDE DEF qd, ad, dd
    <3>2. qd < dd
      BY <1>2, <1>3, <3>1 DEF qd, ad, dd
    <3> QED BY <3>2 DEF qd, dd
  <2> QED BY <1>1, <1>3, <2>1, Cancel
<1>5. q >= 0
  <2>1. (-1) * d < q * d
    <3> DEFINE qd == q * d
    <3>1. qd \in Int
      BY <1>1, <1>3
    <3> HIDE DEF qd
    <3>2. -d < qd
      BY <1>1, <1>2, <1>3, <3>1 DEF qd
    <3> QED BY <1>1, <3>2 DEF qd
  <2>2. -1 < q
    BY <1>1, <1>3, <2>1, Cancel
  <2> QED BY <1>3, <2>2
<1> QED BY <1>1, <1>3, <1>4, <1>5 DEF d, p, q, r

\* What a multiplication that replaces the accumulator is given by: its product in slices.
FreshTerms(op, c, x, y, z, h) ==
  BaseOf(op, c) + ProductOf(op, c) = (x * Full + y) * Full + z /\ h = LaneOf(x)

\* What is left by a multiplication that replaces the accumulator.
LEMMA FreshResult ==
  ASSUME NEW op, NEW c \in LaneStates, NEW x \in Int, NEW y \in LaneValue, NEW z \in LaneValue, NEW h,
         FreshTerms(op, c, x, y, z, h)
  PROVE  Multiply(op, c) = Accumulated(c, z, y, h, DestOf(op, z, y, h))
<1> DEFINE n == BaseOf(op, c) + ProductOf(op, c)
<1>1. n = (x * Full + y) * Full + z /\ h = LaneOf(x)
  BY DEF FreshTerms
<1>2. n \in Int
  <2>1. Full \in Int /\ y \in Int /\ z \in Int
    BY LaneSizes
  <2> HIDE DEF n
  <2> QED BY <1>1, <2>1
<1> HIDE DEF n
<1>3. n = BaseOf(op, c) + ProductOf(op, c)
  BY DEF n
<1> QED BY <1>1, <1>2, <1>3, FreshIs, SMT

\* And one that adds to it: v and low are its product, u what is added to the middle slice,
\* r the lane of u and x its sign.
AddedTerms(op, c, v, low, u, r, x, l, m, h) ==
  /\ ProductOf(op, c) = v * Full + low
  /\ u = v + IF c.l + low >= Full THEN 1 ELSE 0
  /\ Congruent(x, u \div Full, Full)
  /\ r = LaneOf(u) /\ l = LaneOf(c.l + low) /\ m = LaneOf(c.m + r) /\ h = LaneOf(c.h + x - CarryMask(c.m, r))

\* What is left by one that adds to it: three sums with their carries are the digits of the sum.
LEMMA AddedResult ==
  ASSUME NEW op \in AddingOps, NEW c \in LaneStates, NEW v \in Int, NEW low \in LaneValue, NEW u \in Int, NEW x \in Int,
         NEW r, NEW l, NEW m, NEW h, AddedTerms(op, c, v, low, u, r, x, l, m, h)
  PROVE  /\ Multiply(op, c) = Accumulated(c, l, m, h, DestOf(op, l, m, h))
         /\ l \in LaneValue /\ m \in LaneValue /\ h \in LaneValue
<1>1. /\ ProductOf(op, c) = v * Full + low
      /\ u = v + IF c.l + low >= Full THEN 1 ELSE 0
      /\ Congruent(x, u \div Full, Full)
      /\ r = LaneOf(u) /\ l = LaneOf(c.l + low) /\ m = LaneOf(c.m + r) /\ h = LaneOf(c.h + x - CarryMask(c.m, r))
  BY DEF AddedTerms
<1> QED BY <1>1, AddedIs, SMT

\* The sign extended into the next slice.
LEMMA Extended ==
  ASSUME NEW n \in Int, -Half <= n, n < Half
  PROVE  /\ LaneOf(n) \in LaneValue
         /\ n = (IF n < 0 THEN -1 ELSE 0) * Full + LaneOf(n)
         /\ SignMask(LaneOf(n)) = LaneOf(IF n < 0 THEN -1 ELSE 0)
         /\ IntOf(SignMask(LaneOf(n))) = IF n < 0 THEN -1 ELSE 0
         /\ n \div Full = IF n < 0 THEN -1 ELSE 0
         /\ SignedPack(LaneOf(n), SignMask(LaneOf(n))) = LaneOf(n)
<1> DEFINE d == Full  k == IF n < 0 THEN -1 ELSE 0  r == LaneOf(n)
<1>1. d \in Nat \ {0} /\ LaneValue = 0 .. d - 1 /\ d = 2 * Half /\ Half \in Nat /\ Half >= 2 /\ Ones = d - 1
  BY LaneSizes
<1>2. r = IF n < 0 THEN n + d ELSE n
  <2>1. CASE n < 0
    <3>1. n \in -Full .. -1
      BY <1>1, <2>1
    <3> QED BY <2>1, <3>1, LaneOfIs
  <2>2. CASE ~(n < 0)
    <3>1. n \in LaneValue
      BY <1>1, <2>2
    <3> QED BY <2>2, <3>1, LaneOfIs
  <2> QED BY <2>1, <2>2
<1> HIDE DEF r
<1>3. r \in 0 .. d - 1 /\ n = k * d + r /\ k \in Int
  <2>1. CASE n < 0
    <3>1. k = -1 /\ k * d = -d
      BY <1>1, <2>1
    <3> HIDE DEF k
    <3> QED BY <1>1, <1>2, <2>1, <3>1
  <2>2. CASE ~(n < 0)
    <3>1. k = 0 /\ k * d = 0
      BY <1>1, <2>2
    <3> HIDE DEF k
    <3> QED BY <1>1, <1>2, <2>2, <3>1
  <2> QED BY <2>1, <2>2
<1>4. SignMask(r) = IF n < 0 THEN Ones ELSE 0
  BY IntOfLane DEF r
<1>5. LaneOf(k) = SignMask(r)
  <2>1. CASE n < 0
    <3>1. -1 \in -Full .. -1 /\ -1 \in Int /\ -1 + Full = Ones
      BY <1>1
    <3>2. LaneOf(-1) = -1 + Full
      BY <3>1, LaneOfIs
    <3> QED BY <1>4, <2>1, <3>1, <3>2
  <2>2. CASE ~(n < 0)
    <3>1. LaneOf(0) = 0
      BY <1>1, LaneOfIs
    <3> QED BY <1>4, <2>2, <3>1
  <2> QED BY <2>1, <2>2
<1>6. IntOf(SignMask(r)) = k
  BY <1>1, <1>4 DEF IntOf
<1>7. n \div d = k
  <2> HIDE DEF k, d
  <2> QED BY <1>1, <1>3, RemainderIs
<1>8. SignedPack(r, SignMask(r)) = r
  <2>1. k * Full + r = n
    BY <1>3
  <2>2. SignedPack(r, SignMask(r)) = LaneOf(ClampSigned(n))
    BY <1>6, <2>1 DEF SignedPack
  <2>3. ClampSigned(n) = n
    BY <1>1 DEF ClampSigned
  <2> QED BY <2>2, <2>3 DEF r
<1> QED BY <1>1, <1>3, <1>4, <1>5, <1>6, <1>7, <1>8 DEF r

\* Nought and all ones, as lanes and as masks.
LEMMA ZeroLane == 0 \in LaneValue /\ LaneOf(0) = 0 /\ SignMask(0) = 0 /\ IntOf(0) = 0 /\ Ones \in LaneValue /\ SignMask(Ones) = Ones
<1>1. 0 \in LaneValue /\ Ones \in LaneValue /\ Half >= 2 /\ Half \in Nat /\ Full = 2 * Half /\ Ones = Full - 1
  BY LaneSizes
<1>2. LaneOf(0) = 0
  BY <1>1, LaneOfIs
<1> QED BY <1>1, <1>2 DEF SignMask, IntOf

\* The extension of a sign mask is the mask.
LEMMA MaskOfMask == \A x \in LaneValue : SignMask(SignMask(x)) = SignMask(x)
BY ZeroLane, MaskType

\* The carry as a number: -CarryMask is 1 or 0, modulo a lane.
LEMMA CarryNumber ==
  ASSUME NEW a \in LaneValue, NEW b \in LaneValue, NEW y \in Int
  PROVE  LaneOf(y - CarryMask(a, b)) = LaneOf(y + IF a + b >= Full THEN 1 ELSE 0)
<1> DEFINE d == Full
<1>1. d \in Nat \ {0} /\ Ones = d - 1
  BY LaneSizes
<1>2. CarryMask(a, b) = IF a + b >= d THEN d - 1 ELSE 0
  BY <1>1, CarryIs
<1>3. CASE a + b >= d
  <2> DEFINE x == y - (d - 1)  z == y + 1
  <2>1. x \in Int /\ z \in Int /\ -1 \in Int /\ x = z + (-1) * d
    BY <1>1
  <2> HIDE DEF x, z, d
  <2>2. Congruent(x, z, d)
    BY <2>1 DEF Congruent
  <2>3. LaneOf(x) = LaneOf(z)
    BY <2>1, <2>2, SameLane DEF d
  <2> QED BY <1>2, <1>3, <2>3 DEF x, z, d
<1>4. CASE ~(a + b >= d)
  BY <1>2, <1>4
<1> QED BY <1>3, <1>4

\* The carry out of a sum of lanes is a mask.
LEMMA CarryType == \A a, b \in LaneValue : CarryMask(a, b) \in {0, Ones} /\ CarryMask(a, b) \in Int
<1>1. Ones \in Int /\ 0 \in Int
  BY LaneSizes
<1>2. ASSUME NEW a, NEW b PROVE CarryMask(a, b) \in {0, Ones}
  BY DEF CarryMask
<1> QED BY <1>1, <1>2

\* VMUDL and VMADL: the engines agree.
LEMMA LowAgrees ==
  ASSUME NEW c \in LaneStates, NEW op \in {"VMUDL", "VMADL"}
  PROVE  Multiply(op, c) = SimdVmudl(op, c)
<1> DEFINE p == c.s * c.t  high == MulHigh(c.s, c.t)
<1>1. /\ c.s \in LaneValue /\ c.t \in LaneValue /\ c.l \in LaneValue /\ c.m \in LaneValue /\ c.h \in LaneValue
      /\ c.l \in Int /\ c.h \in Int /\ Full \in Nat \ {0}
  BY LaneFields, LaneSizes
<1>2. high \in LaneValue /\ high \in Int /\ ProductOf(op, c) = high
  <2>1. ProductOf(op, c) = high
    BY DEF ProductOf, FractionOps, MulHigh
  <2> HIDE DEF high
  <2>2. high \in LaneValue
    BY <1>1, UnsignedProduct DEF high
  <2> QED BY <2>1, <2>2, LaneSizes
<1> HIDE DEF high
<1>3. CASE op = "VMUDL"
  <2>1. BaseOf(op, c) = 0
    BY <1>3 DEF BaseOf, AddingOps, FractionOps
  <2> DEFINE zero == 0
  <2>2. zero \in Int /\ zero \in LaneValue /\ LaneOf(zero) = zero
    BY ZeroLane
  <2>3. FreshTerms(op, c, zero, zero, high, zero)
    BY <1>1, <1>2, <2>1, <2>2 DEF FreshTerms
  <2>4. DestOf(op, high, 0, 0) = high
    BY <1>3, ZeroLane DEF DestOf, LowOps, LowOrBound
  <2>5. SimdVmudl(op, c) = Accumulated(c, high, 0, 0, high)
    BY <1>3 DEF SimdVmudl, high
  <2> HIDE DEF zero
  <2>6. Multiply(op, c) = Accumulated(c, high, zero, zero, DestOf(op, high, zero, zero))
    BY <1>2, <2>2, <2>3, FreshResult
  <2> QED BY <2>4, <2>5, <2>6 DEF zero
<1>4. CASE op = "VMADL"
  <2> DEFINE u == IF c.l + high >= Full THEN 1 ELSE 0
             v == 0
             mask == CarryMask(c.l, high)
             carry == LaneOf(-mask)
  <2>1. u \in Int /\ u = v + u /\ u \in {0, 1} /\ v \in Int
    OBVIOUS
  <2>3. mask \in Int
    BY <1>1, <1>2, CarryType
  <2>2. LaneOf(v - mask) = LaneOf(v + IF c.l + high >= Full THEN 1 ELSE 0)
    <3> HIDE DEF v
    <3> QED BY <1>1, <1>2, <2>1, CarryNumber
  <2>4. carry = LaneOf(u)
    <3> HIDE DEF mask
    <3>1. v - mask = -mask
      BY <2>3
    <3> QED BY <2>1, <2>2, <3>1
  <2> HIDE DEF u, mask, carry
  <2>5. u \div Full = 0
    <3>1. Full \in Nat \ {0} /\ u \in 0 .. Full - 1 /\ u = 0 * Full + u
      BY <2>1, LaneSizes
    <3> QED BY <3>1, RemainderIs
  <2>6. Congruent(v, u \div Full, Full)
    <3>1. 0 = 0 + 0 * Full
      BY LaneSizes
    <3> QED BY <2>5, <3>1 DEF Congruent
  <2>7. ProductOf(op, c) = v * Full + high /\ u = v + IF c.l + high >= Full THEN 1 ELSE 0
    <3>1. 0 * Full + high = high
      BY <1>2, LaneSizes
    <3> QED BY <1>2, <2>1, <3>1 DEF u
  <2>8. op \in AddingOps
    BY <1>4 DEF AddingOps
  <2> DEFINE l == LaneOf(c.l + high)
             m == LaneOf(c.m + carry)
             h == LaneOf(c.h - CarryMask(c.m, carry))
  <2>10. h = LaneOf(c.h + v - CarryMask(c.m, carry))
    <3> DEFINE k == CarryMask(c.m, carry)
    <3>1. k \in Int
      <4>1. carry \in LaneValue
        BY <2>1, <2>4, LaneOfType
      <4> QED BY <1>1, <4>1, CarryType
    <3> HIDE DEF k
    <3>2. c.h + v - k = c.h - k
      BY <1>1, <3>1
    <3> QED BY <3>2 DEF k
  <2> HIDE DEF l, m, h, v
  <2>9. AddedTerms(op, c, v, high, u, carry, v, l, m, h)
    BY <2>4, <2>6, <2>7, <2>10 DEF AddedTerms, l, m
  <2>11. Multiply(op, c) = Accumulated(c, l, m, h, DestOf(op, l, m, h))
    BY <1>2, <2>1, <2>8, <2>9, AddedResult
  <2>12. DestOf(op, l, m, h) = LowOrBound(l, m, h)
    BY <1>4 DEF DestOf, LowOps
  <2>13. SimdVmudl(op, c) = Accumulated(c, l, m, h, LowOrBound(l, m, h))
    BY <1>4 DEF SimdVmudl, high, l, m, h, carry, mask
  <2> QED BY <2>11, <2>12, <2>13
<1> QED BY <1>3, <1>4

\* The product of a signed lane and an unsigned one, out of the product of the bare lanes.
LEMMA SignedTimes ==
  ASSUME NEW a \in LaneValue, NEW b \in LaneValue, NEW v \in Int, v = MulHigh(a, b) - IF a >= Half THEN b ELSE 0
  PROVE  IntOf(a) * b = v * Full + MulLow(a, b) /\ -Half <= v /\ v < Half - 1
<1> DEFINE d == Full  q == MulHigh(a, b)  r == MulLow(a, b)  i == IntOf(a)  g == IF a >= Half THEN 1 ELSE 0  p == i * b
           H == Half
<1>1. /\ d \in Nat \ {0} /\ a \in 0 .. d - 1 /\ b \in 0 .. d - 1 /\ H \in Nat /\ H >= 2 /\ d = 2 * H
      /\ q \in Int /\ r \in 0 .. d - 1 /\ a * b = q * d + r
  BY LaneSizes, UnsignedProduct
<1>2. i = a - g * d /\ i \in Int /\ g \in {0, 1} /\ -H <= i /\ i < H /\ (g = 1 => i < 0) /\ (g = 0 => i >= 0)
  <2>1. /\ i \in Int /\ -Half <= i /\ i < Half
        /\ a >= Half => i = a - Full /\ i < 0
        /\ a < Half => i = a /\ i >= 0
    BY IntOfIs
  <2> HIDE DEF i
  <2>2. CASE a >= Half
    <3>1. g = 1 /\ g * d = d
      BY <1>1, <2>2
    <3> HIDE DEF g
    <3> QED BY <2>1, <2>2, <3>1
  <2>3. CASE ~(a >= Half)
    <3>1. g = 0 /\ g * d = 0 /\ a < Half
      BY <1>1, <2>3
    <3> HIDE DEF g
    <3> QED BY <1>1, <2>1, <3>1
  <2> QED BY <2>2, <2>3
<1>3. v = q - g * b
  <2>1. CASE a >= Half
    <3>1. g = 1 /\ g * b = b
      BY <1>1, <2>1
    <3> HIDE DEF g, q
    <3> QED BY <2>1, <3>1 DEF q
  <2>2. CASE ~(a >= Half)
    <3>1. g = 0 /\ g * b = 0
      BY <1>1, <2>2
    <3> HIDE DEF g, q
    <3> QED BY <2>2, <3>1 DEF q
  <2> QED BY <2>1, <2>2
<1> HIDE DEF d, q, r, i, g, H
<1>4. p \in Int /\ p = v * d + r
  <2>1. p = a * b - (g * d) * b
    BY <1>1, <1>2
  <2>2. v * d = q * d - (g * b) * d
    BY <1>1, <1>2, <1>3
  <2>3. (g * d) * b = (g * b) * d /\ (g * d) * b \in Int /\ q * d \in Int /\ v * d \in Int /\ a * b \in Int
    BY <1>1, <1>2
  <2> DEFINE gdb == (g * d) * b  gbd == (g * b) * d  qd == q * d  vd == v * d  ab == a * b
  <2> HIDE DEF p
  <2>4. p = ab - gdb /\ vd = qd - gbd /\ gdb = gbd /\ gdb \in Int /\ qd \in Int /\ vd \in Int /\ ab \in Int /\ ab = qd + r /\ r \in Int
    BY <1>1, <2>1, <2>2, <2>3
  <2> HIDE DEF gdb, gbd, qd, vd, ab
  <2>5. p \in Int /\ p = vd + r
    BY <2>4
  <2> QED BY <2>5 DEF vd
<1>5. p >= -(H * d) + H /\ p <= (H - 1) * d - (H - 1)
  <2> DEFINE k == d - 1
  <2>1. k \in Nat /\ b \in 0 .. k /\ d = k + 1
    BY <1>1
  <2>2. (-H) * b <= i * b /\ i * b <= (H - 1) * b
    BY <1>1, <1>2
  <2> HIDE DEF k
  <2>3. (-H) * k <= (-H) * b /\ (H - 1) * b <= (H - 1) * k
    BY <1>1, <2>1
  <2>4. (-H) * k = -(H * d) + H /\ (H - 1) * k = (H - 1) * d - (H - 1) /\ (-H) * b \in Int /\ (H - 1) * b \in Int /\ H * d \in Int /\ (H - 1) * d \in Int
    BY <1>1, <2>1
  <2> DEFINE x1 == (-H) * k  x2 == (-H) * b  x3 == (H - 1) * b  x4 == (H - 1) * k  x5 == H * d  x6 == (H - 1) * d
  <2>5. /\ x2 <= p /\ p <= x3 /\ x1 <= x2 /\ x3 <= x4 /\ x1 = -x5 + H /\ x4 = x6 - (H - 1)
        /\ x2 \in Int /\ x3 \in Int /\ x5 \in Int /\ x6 \in Int /\ H \in Int /\ p \in Int
    BY <1>1, <1>4, <2>2, <2>3, <2>4
  <2> HIDE DEF x1, x2, x3, x4, x5, x6, p
  <2>6. p >= -x5 + H /\ p <= x6 - (H - 1)
    BY <2>5
  <2> QED BY <2>6 DEF x5, x6
<1> HIDE DEF p
<1>6. v < H - 1
  <2> DEFINE vd == v * d  t == (H - 1) * d
  <2>1. vd \in Int /\ t \in Int
    BY <1>1
  <2> HIDE DEF vd, t
  <2>2. vd < t
    BY <1>1, <1>4, <1>5, <2>1 DEF vd, t
  <2>3. H - 1 \in Int
    BY <1>1
  <2> DEFINE j == H - 1
  <2>4. j \in Int /\ v * d < j * d
    BY <2>2, <2>3 DEF vd, t
  <2> HIDE DEF j
  <2>5. v < j
    BY <1>1, <2>4, Cancel
  <2> QED BY <2>5 DEF j
<1>7. -H <= v
  <2> DEFINE vd == v * d  hd == H * d  j == -H - 1
  <2>1. vd \in Int /\ hd \in Int /\ j * d = -hd - d /\ j \in Int
    BY <1>1
  <2> HIDE DEF vd, hd, j
  <2>2. -hd - d < vd
    BY <1>1, <1>4, <1>5, <2>1 DEF vd, hd
  <2>3. j * d < v * d
    BY <2>1, <2>2 DEF vd
  <2>4. j < v
    BY <1>1, <2>1, <2>3, Cancel
  <2> QED BY <1>1, <2>4 DEF j
<1> QED BY <1>4, <1>6, <1>7 DEF p, i, d, r, H

\* The sign of a number of one lane stands for its quotient.
LEMMA SignIsHigh ==
  ASSUME NEW n \in Int, -Half <= n, n < Half
  PROVE  Congruent(SignMask(LaneOf(n)), n \div Full, Full) /\ SignMask(LaneOf(n)) \in Int
<1> DEFINE d == Full  k == IF n < 0 THEN -1 ELSE 0  s == SignMask(LaneOf(n))
<1>1. d \in Nat \ {0} /\ Ones = d - 1
  BY LaneSizes
<1>2. n \div d = k
  BY Extended
<1>3. s = IF n < 0 THEN Ones ELSE 0
  BY IntOfLane
<1> HIDE DEF s
<1>4. \E j \in {0, 1} : s = k + j * d
  <2>1. CASE n < 0
    <3>1. s = -1 + 1 * d
      BY <1>1, <1>3, <2>1
    <3> QED BY <2>1, <3>1
  <2>2. CASE ~(n < 0)
    <3>1. s = 0 + 0 * d
      BY <1>1, <1>3, <2>2
    <3> QED BY <2>2, <3>1
  <2> QED BY <2>1, <2>2
<1>5. s \in Int
  BY <1>1, <1>3
<1> HIDE DEF k
<1> QED BY <1>2, <1>4, <1>5 DEF Congruent, s, d

\* A product whose upper part fits a lane replaces the accumulator by its sign, that lane and its low half.
LEMMA SmallFresh ==
  ASSUME NEW c \in LaneStates, NEW op, BaseOf(op, c) = 0, NEW v \in Int, -Half <= v, v < Half,
         NEW low \in LaneValue, ProductOf(op, c) = v * Full + low,
         NEW m, m = LaneOf(v)
  PROVE  Multiply(op, c) = Accumulated(c, low, m, SignMask(m), DestOf(op, low, m, SignMask(m)))
<1> DEFINE x == IF v < 0 THEN -1 ELSE 0  h == SignMask(m)
<1>1. x \in Int /\ m \in LaneValue /\ h = LaneOf(x) /\ v = x * Full + m
  BY Extended
<1> HIDE DEF x, h
<1>2. FreshTerms(op, c, x, m, low, h)
  <2> DEFINE n == v * Full + low
  <2>1. n \in Int
    BY LaneSizes
  <2> HIDE DEF n
  <2>2. ProductOf(op, c) = n
    BY DEF n
  <2>3. BaseOf(op, c) + ProductOf(op, c) = n
    BY <2>1, <2>2
  <2>4. n = (x * Full + m) * Full + low
    BY <1>1 DEF n
  <2> QED BY <1>1, <2>3, <2>4 DEF FreshTerms
<1>3. Multiply(op, c) = Accumulated(c, low, m, h, DestOf(op, low, m, h))
  BY <1>1, <1>2, FreshResult
<1> QED BY <1>3 DEF h

\* Adding such a product: the carry out of the low slice joins the middle addend before its sign is taken.
LEMMA SmallAdded ==
  ASSUME NEW c \in LaneStates, NEW op \in AddingOps, NEW v \in Int, -Half <= v, v < Half - 1,
         NEW low \in LaneValue, ProductOf(op, c) = v * Full + low,
         NEW carried, carried = LaneOf(LaneOf(v) - CarryMask(c.l, low)),
         NEW l, NEW m, NEW h, l = LaneOf(c.l + low), m = LaneOf(c.m + carried),
         h = LaneOf(c.h + SignMask(carried) - CarryMask(c.m, carried))
  PROVE  Multiply(op, c) = Accumulated(c, l, m, h, DestOf(op, l, m, h))
<1> DEFINE k == IF c.l + low >= Full THEN 1 ELSE 0
           u == v + k
           mask == CarryMask(c.l, low)
           x == SignMask(carried)
<1>1. c.l \in LaneValue /\ mask \in Int /\ -mask \in Int
  BY LaneFields, CarryType
<1>2. u \in Int /\ -Half <= u /\ u < Half /\ k \in Int
  <2>1. k \in {0, 1}
    OBVIOUS
  <2> HIDE DEF k
  <2> QED BY <2>1, LaneSizes
<1>3. carried = LaneOf(u)
  <2>1. LaneOf(v - mask) = LaneOf(u)
    BY <1>1, CarryNumber
  <2> HIDE DEF u, k
  <2> DEFINE y == -mask
  <2>2. y \in Int /\ v + y = v - mask /\ LaneOf(v) + y = LaneOf(v) - mask
    <3>1. LaneOf(v) \in Int
      BY LaneOfType, LaneSizes
    <3> DEFINE z == LaneOf(v)
    <3> HIDE DEF z, mask
    <3> QED BY <1>1, <3>1 DEF z
  <2>3. carried = LaneOf(LaneOf(v) + y)
    BY <2>2
  <2> HIDE DEF y, mask
  <2>4. LaneOf(LaneOf(v) + y) = LaneOf(v + y)
    BY <2>2, LaneOfSum
  <2> QED BY <2>1, <2>2, <2>3, <2>4
<1>4. Congruent(x, u \div Full, Full) /\ x \in Int
  <2> HIDE DEF u
  <2> QED BY <1>2, <1>3, SignIsHigh
<1>5. u = v + IF c.l + low >= Full THEN 1 ELSE 0
  OBVIOUS
<1> HIDE DEF u, k, x
<1>6. AddedTerms(op, c, v, low, u, carried, x, l, m, h)
  BY <1>3, <1>4, <1>5 DEF AddedTerms, x
<1> QED BY <1>2, <1>4, <1>6, AddedResult

\* VMUDM, VMADM, VMUDN and VMADN, one operand signed and one not: the engines agree.
LEMMA MixedAgrees ==
  ASSUME NEW c \in LaneStates, NEW op \in {"VMUDM", "VMADM", "VMUDN", "VMADN"}
  PROVE  Multiply(op, c) = SimdMixed(op, c)
<1> DEFINE middle == op \in {"VMUDM", "VMADM"}
           a == IF middle THEN c.s ELSE c.t
           b == IF middle THEN c.t ELSE c.s
           correction == IF middle THEN c.t & SignMask(c.s) ELSE c.s & SignMask(c.t)
           v == MulHigh(c.s, c.t) - correction
           low == MulLow(c.s, c.t)
           high == LaneOf(v)
<1>1. c.s \in LaneValue /\ c.t \in LaneValue /\ c.l \in LaneValue /\ c.m \in LaneValue /\ c.h \in LaneValue
  BY LaneFields
<1>2. a \in LaneValue /\ b \in LaneValue /\ correction = b & SignMask(a)
  BY <1>1
<1>3. MulHigh(a, b) = MulHigh(c.s, c.t) /\ MulLow(a, b) = low
  <2>1. c.s * c.t = c.t * c.s
    BY <1>1, LaneSizes
  <2> QED BY <2>1 DEF MulHigh, MulLow
<1>4. correction = (IF a >= Half THEN b ELSE 0) /\ correction \in Int
  <2> HIDE DEF a, b, correction
  <2>1. LaneBits \in Nat /\ LaneValue = 0 .. Pow2[LaneBits] - 1 /\ Ones = Pow2[LaneBits] - 1
    BY VuAssumption, LaneSizes DEF Full
  <2>2. b & 0 = 0 /\ b & Ones = b
    BY <1>2, <2>1, MaskRules
  <2>3. b \in Int
    BY <1>2, LaneSizes
  <2> QED BY <1>2, <2>2, <2>3 DEF SignMask
<1>5. ProductOf(op, c) = IntOf(a) * b
  <2>1. CASE middle
    <3>1. op \notin FractionOps /\ op \notin {"VMUDL", "VMADL"}
      BY <2>1 DEF FractionOps
    <3> QED BY <2>1, <3>1 DEF ProductOf
  <2>2. CASE ~middle
    <3>1. op \notin FractionOps /\ op \notin {"VMUDL", "VMADL"} /\ op \in {"VMUDN", "VMADN"}
      BY <2>2 DEF FractionOps
    <3>2. ProductOf(op, c) = c.s * IntOf(c.t)
      BY <2>2, <3>1 DEF ProductOf
    <3>3. c.s \in Int /\ IntOf(c.t) \in Int
      BY <1>1, IntOfIs, LaneSizes
    <3>4. c.s * IntOf(c.t) = IntOf(c.t) * c.s
      BY <3>3
    <3> QED BY <2>2, <3>2, <3>4
  <2> QED BY <2>1, <2>2
<1>6. low \in LaneValue /\ v \in Int
  <2>1. MulHigh(c.s, c.t) \in LaneValue /\ low \in LaneValue
    BY <1>1, UnsignedProduct
  <2>2. MulHigh(c.s, c.t) \in Int
    BY <2>1, LaneSizes
  <2> HIDE DEF correction
  <2> QED BY <1>4, <2>1, <2>2
<1> HIDE DEF a, b, low
<1>7. IntOf(a) * b = v * Full + low /\ -Half <= v /\ v < Half - 1
  <2> HIDE DEF v, correction
  <2>1. v = MulHigh(a, b) - IF a >= Half THEN b ELSE 0
    BY <1>3, <1>4 DEF v
  <2> QED BY <1>2, <1>3, <1>6, <2>1, SignedTimes
<1> HIDE DEF v
<1>8. v < Half
  BY <1>6, <1>7, LaneSizes
<1>9. CASE op \in {"VMUDM", "VMUDN"}
  <2>1. BaseOf(op, c) = 0
    BY <1>9 DEF BaseOf, AddingOps, FractionOps
  <2>2. Multiply(op, c) = Accumulated(c, low, high, SignMask(high), DestOf(op, low, high, SignMask(high)))
    <3> DEFINE m == high
    <3> HIDE DEF m
    <3>1. m = LaneOf(v)
      BY DEF m
    <3>2. Multiply(op, c) = Accumulated(c, low, m, SignMask(m), DestOf(op, low, m, SignMask(m)))
      BY <1>5, <1>6, <1>7, <1>8, <2>1, <3>1, SmallFresh
    <3> QED BY <3>2 DEF m
  <2>3. DestOf(op, low, high, SignMask(high)) = IF middle THEN high ELSE low
    <3>1. CASE middle
      <4>1. SignedPack(high, SignMask(high)) = high
        BY <1>6, <1>7, <1>8, Extended
      <4>2. op \notin LowOps /\ op \notin {"VMULU", "VMACU"}
        BY <3>1 DEF LowOps
      <4> QED BY <3>1, <4>1, <4>2 DEF DestOf
    <3>2. CASE ~middle
      <4>1. op \in LowOps /\ op \notin {"VMULU", "VMACU"}
        BY <3>2 DEF LowOps
      <4>2. SignMask(SignMask(high)) = SignMask(high)
        BY <1>6, MaskOfMask, LaneOfType
      <4>3. LowOrBound(low, high, SignMask(high)) = low
        BY <4>2 DEF LowOrBound
      <4> QED BY <3>2, <4>1, <4>3 DEF DestOf
    <3> QED BY <3>1, <3>2
  <2>4. SimdMixed(op, c) = Accumulated(c, low, high, SignMask(high), IF middle THEN high ELSE low)
    BY <1>9 DEF SimdMixed, low, v
  <2> QED BY <2>2, <2>3, <2>4
<1>10. CASE op \in {"VMADM", "VMADN"}
  <2> DEFINE carried == LaneOf(high - CarryMask(c.l, low))
             l == LaneOf(c.l + low)
             m == LaneOf(c.m + carried)
             h == LaneOf(c.h + SignMask(carried) - CarryMask(c.m, carried))
  <2>1. op \in AddingOps
    BY <1>10 DEF AddingOps
  <2>2. SimdMixed(op, c) = Accumulated(c, l, m, h, IF middle THEN SignedPack(m, h) ELSE LowOrBound(l, m, h))
    BY <1>10 DEF SimdMixed, low, v
  <2>3. carried = LaneOf(LaneOf(v) - CarryMask(c.l, low)) /\ l = LaneOf(c.l + low) /\ m = LaneOf(c.m + carried)
        /\ h = LaneOf(c.h + SignMask(carried) - CarryMask(c.m, carried))
    OBVIOUS
  <2> HIDE DEF carried, l, m, h, high
  <2>4. ProductOf(op, c) = v * Full + low
    BY <1>5, <1>7
  <2>5. Multiply(op, c) = Accumulated(c, l, m, h, DestOf(op, l, m, h))
    BY <1>6, <1>7, <2>1, <2>3, <2>4, SmallAdded
  <2>6. DestOf(op, l, m, h) = IF middle THEN SignedPack(m, h) ELSE LowOrBound(l, m, h)
    BY <1>10 DEF DestOf, LowOps
  <2> QED BY <2>2, <2>5, <2>6
<1> QED BY <1>9, <1>10

\* Masks and the bitwise operators.
LEMMA LaneBitRules ==
  ASSUME NEW x \in LaneValue
  PROVE  /\ x & 0 = 0 /\ 0 & x = 0 /\ x & Ones = x /\ Ones & x = x
         /\ x | 0 = x /\ 0 | x = x /\ x | Ones = Ones /\ Ones | x = Ones
         /\ x ^^ 0 = x /\ x ^^ Ones = Inverted(x)
<1>1. LaneBits \in Nat /\ LaneValue = 0 .. Pow2[LaneBits] - 1 /\ Ones = Pow2[LaneBits] - 1 /\ Ones \in Nat /\ x \in Nat /\ 0 \in Nat
  BY VuAssumption, LaneSizes DEF Full
<1>2. x & 0 = 0 /\ x & Ones = x /\ x | 0 = x /\ x | Ones = Ones /\ x ^^ 0 = x /\ x ^^ Ones = Ones - x
  BY <1>1, MaskRules
<1>3. 0 & x = x & 0 /\ Ones & x = x & Ones /\ 0 | x = x | 0 /\ Ones | x = x | Ones
  BY <1>1, BitsCommute
<1> QED BY <1>2, <1>3 DEF Inverted

\* The bitwise operators return lanes.
LEMMA LaneBitTypes == \A x, y \in LaneValue : x & y \in LaneValue /\ x | y \in LaneValue /\ x ^^ y \in LaneValue
<1>1. LaneBits \in Nat /\ LaneValue = 0 .. Pow2[LaneBits] - 1
  BY VuAssumption, LaneSizes DEF Full
<1> QED BY <1>1, BitTypes

\* The signed product: its low half is that of the bare lanes.
LEMMA SignedProduct ==
  ASSUME NEW a \in LaneValue, NEW b \in LaneValue, NEW p, p = IntOf(a) * IntOf(b), NEW q, q = p \div Full
  PROVE  /\ p \in Int /\ q \in Int /\ p = q * Full + MulLow(a, b)
         /\ MulLow(a, b) = LaneOf(p) /\ MulLow(a, b) \in LaneValue
         /\ MulHighSigned(a, b) = LaneOf(q) /\ MulHighSigned(a, b) \in LaneValue
<1> DEFINE i == IntOf(a)  j == IntOf(b)
<1>1. i \in Int /\ j \in Int /\ LaneOf(i) = a /\ LaneOf(j) = b /\ a \in Int /\ b \in Int
  BY IntOfIs, LaneSizes
<1> HIDE DEF i, j
<1>2. p = i * j /\ p \in Int
  BY <1>1 DEF i, j
<1>3. LaneOf(a * b) = LaneOf(p)
  <2>1. LaneOf(a * j) = LaneOf(i * j)
    BY <1>1, LaneOfSum
  <2>2. LaneOf(b * a) = LaneOf(j * a)
    BY <1>1, LaneOfSum
  <2>3. b * a = a * b /\ j * a = a * j
    BY <1>1
  <2> QED BY <1>2, <2>1, <2>2, <2>3
<1>4. q \in Int /\ LaneOf(p) \in LaneValue /\ p = q * Full + LaneOf(p)
  BY <1>2, Halves
<1>5. MulHighSigned(a, b) = LaneOf(q)
  BY DEF MulHighSigned
<1>6. LaneOf(q) \in LaneValue
  BY <1>4, LaneOfType
<1> QED BY <1>2, <1>3, <1>4, <1>5, <1>6 DEF MulLow

\* VMUDH and VMADH, whose product starts at the middle slice: the engines agree.
LEMMA HighAgrees ==
  ASSUME NEW c \in LaneStates, NEW op \in {"VMUDH", "VMADH"}
  PROVE  Multiply(op, c) = SimdVmudh(op, c)
<1> DEFINE p == IntOf(c.s) * IntOf(c.t)  q == p \div Full  low == MulLow(c.s, c.t)  high == MulHighSigned(c.s, c.t)
           zero == 0
<1>1. /\ c.s \in LaneValue /\ c.t \in LaneValue /\ c.l \in LaneValue /\ c.m \in LaneValue /\ c.h \in LaneValue
      /\ c.l \in Int /\ Full \in Nat \ {0} /\ c.l < Full
  BY LaneFields, LaneSizes
<1>2. /\ p \in Int /\ q \in Int /\ p = q * Full + low /\ low = LaneOf(p) /\ low \in LaneValue /\ high = LaneOf(q) /\ high \in LaneValue
  BY <1>1, SignedProduct
<1>3. ProductOf(op, c) = p * Full
  <2>1. op \notin FractionOps /\ op \notin {"VMUDL", "VMADL", "VMUDM", "VMADM", "VMUDN", "VMADN"}
    BY DEF FractionOps
  <2> QED BY <2>1 DEF ProductOf
<1>4. zero \in Int /\ zero \in LaneValue /\ LaneOf(zero) = zero /\ high \in Int
  BY <1>2, ZeroLane, LaneSizes
<1>5. p * Full \in Int /\ p * Full = p * Full + zero /\ zero + p * Full = p * Full /\ c.l + zero = c.l
  <2> HIDE DEF p
  <2> QED BY <1>1, <1>2
<1>6. \A l, m, h : DestOf(op, l, m, h) = SignedPack(m, h)
  BY DEF DestOf, LowOps
<1>7. CASE op = "VMUDH"
  <2>1. BaseOf(op, c) = zero
    BY <1>7 DEF BaseOf, AddingOps, FractionOps
  <2> HIDE DEF p, q, low, high
  <2>2. BaseOf(op, c) + ProductOf(op, c) = (q * Full + low) * Full + zero
    BY <1>2, <1>3, <1>5, <2>1
  <2> HIDE DEF zero
  <2>3. FreshTerms(op, c, q, low, zero, high)
    BY <1>2, <2>2 DEF FreshTerms
  <2>4. Multiply(op, c) = Accumulated(c, zero, low, high, SignedPack(low, high))
    <3>0. q \in Int /\ low \in LaneValue /\ zero \in LaneValue
      BY <1>2, <1>4
    <3>1. Multiply(op, c) = Accumulated(c, zero, low, high, DestOf(op, zero, low, high))
      BY <2>3, <3>0, FreshResult
    <3> QED BY <1>6, <3>1
  <2>5. SimdVmudh(op, c) = Accumulated(c, zero, low, high, SignedPack(low, high))
    BY <1>7 DEF SimdVmudh, low, high, zero
  <2> QED BY <2>4, <2>5
<1>8. CASE op = "VMADH"
  <2> DEFINE m == LaneOf(c.m + low)
             h == LaneOf(c.h + high - CarryMask(c.m, low))
  <2>1. op \in AddingOps
    BY <1>8 DEF AddingOps
  <2>2. SimdVmudh(op, c) = Accumulated(c, c.l, m, h, SignedPack(m, h))
    BY <1>8 DEF SimdVmudh
  <2>3. LaneOf(c.l + zero) = c.l
    BY <1>1, <1>5, LaneOfIs
  <2>4. Congruent(high, q, Full)
    <3>1. PICK k \in Int : k = q \div Full /\ q = k * Full + LaneOf(q)
      BY <1>2, Halves
    <3> DEFINE j == -k
    <3>2. j \in Int /\ j * Full = -(k * Full) /\ k * Full \in Int
      BY <1>1, <3>1
    <3> HIDE DEF j, high, q
    <3>3. high = q + j * Full
      BY <1>2, <1>4, <3>1, <3>2
    <3> QED BY <3>2, <3>3 DEF Congruent
  <2> HIDE DEF p, low, high
  <2>5. p = p + IF c.l + zero >= Full THEN 1 ELSE 0
    BY <1>1, <1>2, <1>5
  <2>6. AddedTerms(op, c, p, zero, p, low, high, c.l, m, h)
    <3> HIDE DEF zero
    <3> QED BY <1>2, <1>3, <1>5, <2>3, <2>4, <2>5 DEF AddedTerms
  <2> HIDE DEF m, h, zero
  <2>7. Multiply(op, c) = Accumulated(c, c.l, m, h, DestOf(op, c.l, m, h))
    BY <1>2, <1>4, <2>1, <2>6, AddedResult
  <2> QED BY <1>6, <2>2, <2>7
<1> QED BY <1>7, <1>8

\* Greater factors make a greater product.
LEMMA Monotone ==
  ASSUME NEW x \in Nat, NEW y \in Nat, NEW z \in Nat, NEW w \in Nat, x <= z, y <= w
  PROVE  x * y <= z * w /\ x * y \in Nat /\ z * w \in Nat
<1>1. x * y <= z * y /\ z * y <= z * w
  OBVIOUS
<1>2. x * y \in Nat /\ z * y \in Nat /\ z * w \in Nat
  OBVIOUS
<1> DEFINE a == x * y  b == z * y  e == z * w
<1> HIDE DEF a, b, e
<1>3. a <= b /\ b <= e /\ a \in Nat /\ b \in Nat /\ e \in Nat
  BY <1>1, <1>2 DEF a, b, e
<1>4. a <= e
  BY <1>3
<1> QED BY <1>2, <1>4 DEF a, e

\* How large a product of signed lanes is: only the square of the least number leaves the range.
LEMMA ProductRange ==
  ASSUME NEW a \in LaneValue, NEW b \in LaneValue, NEW p, p = IntOf(a) * IntOf(b), NEW sq, sq = Half * Half
  PROVE  /\ sq \in Nat /\ p \in Int /\ p >= -sq + Half
         /\ p <= sq - Half \/ (a = Half /\ b = Half /\ p = sq)
         /\ a = b => p >= 0
<1> DEFINE i == IntOf(a)  j == IntOf(b)  H == Half  g == H - 1
<1>1. i \in Int /\ j \in Int /\ -H <= i /\ i < H /\ -H <= j /\ j < H /\ (a = b => i = j)
      /\ (i < 0 => i = a - Full) /\ (j < 0 => j = b - Full)
  BY IntOfIs, LaneSizes
<1>2. H \in Nat /\ g \in Nat /\ H = g + 1 /\ g <= H /\ Full = 2 * H /\ a \in Int /\ b \in Int
  BY LaneSizes
<1>3. sq = H * H /\ sq \in Nat /\ sq - H = H * g /\ g * H = H * g /\ H * g \in Nat
  BY <1>2
<1>4. p = i * j
  OBVIOUS
<1> DEFINE hg == H * g
<1>5. hg \in Nat /\ sq - H = hg /\ g * H = hg /\ -sq + H = -hg
  <2> HIDE DEF H, g
  <2> DEFINE x == H * g  y == g * H
  <2>1. x \in Nat /\ sq - H = x /\ y = x
    BY <1>3
  <2> HIDE DEF x, y
  <2>2. -sq + H = -x
    BY <1>2, <1>3, <2>1
  <2> QED BY <2>1, <2>2 DEF x, y
<1> HIDE DEF i, j, H, g
<1>6. CASE i >= 0 /\ j >= 0
  <2>1. i \in Nat /\ j \in Nat /\ i <= H /\ j <= g
    BY <1>1, <1>2, <1>6
  <2>2. i * j <= hg /\ i * j \in Nat
    BY <1>2, <2>1, Monotone
  <2> DEFINE ij == i * j
  <2>3. p = ij /\ ij <= hg /\ ij \in Nat
    BY <1>4, <2>2
  <2> HIDE DEF hg, ij
  <2>4. p \in Int /\ p >= -hg /\ p <= hg /\ p >= 0
    BY <1>5, <2>3
  <2> QED BY <1>3, <1>5, <2>4 DEF H
<1>7. CASE i < 0 /\ j >= 0
  <2> DEFINE n == -i
  <2>1. n \in Nat /\ j \in Nat /\ n <= H /\ j <= g
    BY <1>1, <1>2, <1>7
  <2>2. n * j <= hg /\ n * j \in Nat
    BY <1>2, <2>1, Monotone
  <2>3. i * j = -(n * j)
    BY <1>1
  <2> DEFINE ij == n * j
  <2>4. p = -ij /\ ij <= hg /\ ij \in Nat
    BY <1>4, <2>2, <2>3
  <2> HIDE DEF hg, ij
  <2>5. p \in Int /\ p >= -hg /\ p <= hg
    BY <1>5, <2>4
  <2>6. ~(a = b)
    BY <1>1, <1>7
  <2> QED BY <1>3, <1>5, <2>5, <2>6 DEF H
<1>8. CASE i >= 0 /\ j < 0
  <2> DEFINE n == -j
  <2>1. n \in Nat /\ i \in Nat /\ n <= H /\ i <= g
    BY <1>1, <1>2, <1>8
  <2>2. n * i <= hg /\ n * i \in Nat
    BY <1>2, <2>1, Monotone
  <2>3. i * j = -(n * i)
    BY <1>1
  <2> DEFINE ij == n * i
  <2>4. p = -ij /\ ij <= hg /\ ij \in Nat
    BY <1>4, <2>2, <2>3
  <2> HIDE DEF hg, ij
  <2>5. p \in Int /\ p >= -hg /\ p <= hg
    BY <1>5, <2>4
  <2>6. ~(a = b)
    BY <1>1, <1>8
  <2> QED BY <1>3, <1>5, <2>5, <2>6 DEF H
<1>9. CASE i < 0 /\ j < 0
  <2> DEFINE n == -i  k == -j
  <2>1. n \in Nat /\ k \in Nat /\ n <= H /\ k <= H /\ i * j = n * k
    BY <1>1, <1>2, <1>9
  <2>2. CASE n <= g
    <3>1. n * k <= g * H /\ n * k \in Nat
      BY <1>2, <2>1, <2>2, Monotone
    <3> DEFINE ij == n * k
    <3>2. p = ij /\ ij <= hg /\ ij \in Nat
      BY <1>4, <1>5, <2>1, <3>1
    <3> HIDE DEF hg, ij
    <3>3. p \in Int /\ p >= -hg /\ p <= hg /\ p >= 0
      BY <1>5, <3>2
    <3> QED BY <1>3, <1>5, <3>3 DEF H
  <2>3. CASE k <= g
    <3>1. n * k <= H * g /\ n * k \in Nat
      BY <1>2, <2>1, <2>3, Monotone
    <3> DEFINE ij == n * k
    <3>2. p = ij /\ ij <= hg /\ ij \in Nat
      BY <1>4, <1>5, <2>1, <3>1
    <3> HIDE DEF hg, ij
    <3>3. p \in Int /\ p >= -hg /\ p <= hg /\ p >= 0
      BY <1>5, <3>2
    <3> QED BY <1>3, <1>5, <3>3 DEF H
  <2>4. CASE ~(n <= g) /\ ~(k <= g)
    <3>1. n = H /\ k = H
      BY <1>2, <2>1, <2>4
    <3>2. p = sq
      BY <1>3, <1>4, <2>1, <3>1
    <3>3. i = -H /\ j = -H
      BY <1>1, <1>2, <3>1
    <3>4. a = H /\ b = H
      BY <1>1, <1>2, <1>9, <3>3
    <3>5. p \in Int /\ p >= -sq + H /\ p >= 0
      BY <1>2, <1>3, <1>5, <3>2
    <3> QED BY <1>3, <3>2, <3>4, <3>5 DEF H
  <2> QED BY <2>2, <2>3, <2>4
<1> QED BY <1>1, <1>6, <1>7, <1>8, <1>9

\* A number that is not below half a lane gives its top bit when doubled.
LEMMA Doubled ==
  ASSUME NEW x \in LaneValue
  PROVE  /\ TopBit(x) \in {0, 1} /\ (TopBit(x) = IF x >= Half THEN 1 ELSE 0)
         /\ LaneOf(2 * x) \in LaneValue /\ 2 * x = TopBit(x) * Full + LaneOf(2 * x)
         /\ LaneOf(Half + x) \in LaneValue /\ Half + x = TopBit(x) * Full + LaneOf(Half + x)
<1> DEFINE d == Full  H == Half  k == IF x >= H THEN 1 ELSE 0
<1>1. d \in Nat \ {0} /\ H \in Nat /\ H \in Nat \ {0} /\ d = 2 * H /\ x \in 0 .. d - 1 /\ LaneValue = 0 .. d - 1
  BY LaneSizes
<1>2. TopBit(x) = k
  <2> DEFINE r == x - k * H
  <2>1. k \in {0, 1} /\ r \in 0 .. H - 1 /\ x = k * H + r /\ r \in Int
    BY <1>1
  <2> HIDE DEF k, r, H
  <2>2. x \div H = k
    BY <1>1, <2>1, RemainderIs
  <2> QED BY <2>2 DEF TopBit, H
<1> DEFINE y == 2 * x  z == H + x  kd == k * d
<1>3. kd = (IF x >= H THEN d ELSE 0) /\ k \in {0, 1}
  BY <1>1
<1>4. y \in Int /\ y - kd \in 0 .. d - 1 /\ z \in Int /\ z - kd \in 0 .. d - 1
  <2> HIDE DEF d, H, kd
  <2> QED BY <1>1, <1>3
<1>5. ASSUME NEW n \in Int, n - kd \in 0 .. d - 1 PROVE LaneOf(n) = n - kd /\ n = kd + LaneOf(n)
  <2> DEFINE r == n - kd
  <2>1. n = k * d + r /\ r \in 0 .. d - 1 /\ k \in Int
    <3>1. kd \in Int
      BY <1>1, <1>3
    <3> HIDE DEF kd
    <3>2. n = kd + r
      BY <3>1
    <3> QED BY <1>3, <1>5, <3>2 DEF kd
  <2> HIDE DEF r, k, d
  <2>2. n % d = r
    BY <1>1, <2>1, RemainderIs
  <2> QED BY <2>1, <2>2 DEF LaneOf, d, r
<1> HIDE DEF y, z, kd
<1>6. LaneOf(y) = y - kd /\ y = kd + LaneOf(y) /\ LaneOf(z) = z - kd /\ z = kd + LaneOf(z)
  BY <1>4, <1>5
<1>7. LaneOf(y) \in LaneValue /\ LaneOf(z) \in LaneValue
  BY <1>4, LaneOfType
<1> QED BY <1>2, <1>3, <1>6, <1>7 DEF y, z, kd, d, H

\* Twice the signed product in slices.
FractionTerms(a, b, p, q, low, twice, v) ==
  /\ p = IntOf(a) * IntOf(b) /\ q = p \div Full /\ low = MulLow(a, b) /\ twice = LaneOf(2 * low)
  /\ v = 2 * q + TopBit(low)

\* Twice the signed product in slices; the upper part fits a lane except for the square of the least number.
LEMMA FractionIs ==
  ASSUME NEW a \in LaneValue, NEW b \in LaneValue, NEW p, NEW q, NEW low, NEW twice, NEW v,
         FractionTerms(a, b, p, q, low, twice, v)
  PROVE  /\ p \in Int /\ q \in Int /\ low \in LaneValue /\ twice \in LaneValue /\ v \in Int /\ TopBit(low) \in {0, 1}
         /\ 2 * p = v * Full + twice
         /\ -Half < v /\ v <= Half
         /\ v = Half => a = Half /\ b = Half /\ twice = 0
<1> DEFINE d == Full  H == Half  sq == H * H  b1 == TopBit(low)
<1>0. /\ p = IntOf(a) * IntOf(b) /\ q = p \div Full /\ low = MulLow(a, b) /\ twice = LaneOf(2 * low)
      /\ v = 2 * q + TopBit(low)
  BY DEF FractionTerms
<1>1. /\ p \in Int /\ q \in Int /\ p = q * d + low /\ low \in LaneValue
  BY <1>0, SignedProduct
<1>2. b1 \in {0, 1} /\ twice \in LaneValue /\ 2 * low = b1 * d + twice
  BY <1>0, <1>1, Doubled
<1>3. sq \in Nat /\ p >= -sq + H /\ (p <= sq - H \/ (a = H /\ b = H /\ p = sq))
  BY <1>0, ProductRange
<1>4. d \in Nat \ {0} /\ H \in Nat /\ H >= 2 /\ d = 2 * H /\ twice \in 0 .. d - 1 /\ low \in Int /\ v = 2 * q + b1
  BY <1>0, <1>1, <1>2, LaneSizes
<1>5. H * d = 2 * sq
  BY <1>4
<1> HIDE DEF d, sq, H, b1
<1>6. v \in Int /\ v * d \in Int /\ 2 * p = v * d + twice
  <2>0. v \in Int /\ v * d \in Int /\ q * d \in Int /\ b1 * d \in Int
    BY <1>1, <1>2, <1>4
  <2>1. v * d = 2 * (q * d) + b1 * d
    BY <1>1, <1>2, <1>4
  <2> DEFINE vd == v * d  qd == q * d  bd == b1 * d
  <2>2. /\ vd \in Int /\ qd \in Int /\ bd \in Int /\ twice \in Int /\ p \in Int /\ low \in Int
        /\ vd = 2 * qd + bd /\ p = qd + low /\ 2 * low = bd + twice
    BY <1>1, <1>2, <1>4, <2>0, <2>1
  <2> HIDE DEF vd, qd, bd
  <2>3. 2 * p = vd + twice
    BY <2>2
  <2> QED BY <2>0, <2>3 DEF vd
<1> DEFINE vd == v * d  hd == H * d
<1>7. vd \in Int /\ 2 * p = vd + twice /\ hd = 2 * sq /\ twice \in Int /\ 0 <= twice /\ twice < d
  BY <1>4, <1>5, <1>6
<1> HIDE DEF vd, hd
<1>8. v <= H
  <2> DEFINE j == H + 1
  <2>1. j \in Int /\ j * d = hd + d
    BY <1>4 DEF hd
  <2> HIDE DEF j
  <2>2. vd < hd + d
    BY <1>1, <1>3, <1>4, <1>7
  <2>3. v * d < j * d
    BY <2>1, <2>2 DEF vd
  <2>4. v < j
    BY <1>4, <1>6, <2>1, <2>3, Cancel
  <2> QED BY <1>4, <1>6, <2>4 DEF j
<1>9. -H < v
  <2> DEFINE j == -H
  <2>1. j \in Int /\ j * d = -hd
    BY <1>4 DEF hd
  <2> HIDE DEF j
  <2>2. -hd < vd
    BY <1>1, <1>3, <1>4, <1>7
  <2>3. j * d < v * d
    BY <2>1, <2>2 DEF vd
  <2>4. j < v
    BY <1>4, <1>6, <2>1, <2>3, Cancel
  <2> QED BY <2>4 DEF j
<1>10. ASSUME v = H PROVE a = H /\ b = H /\ twice = 0
  <2>1. vd = hd
    BY <1>10 DEF vd, hd
  <2>2. p = sq /\ twice = 0
    BY <1>1, <1>3, <1>4, <1>7, <2>1
  <2>3. ~(p <= sq - H)
    BY <1>3, <1>4, <2>2
  <2> QED BY <1>3, <2>2, <2>3
<1> QED BY <1>1, <1>2, <1>6, <1>8, <1>9, <1>10 DEF d, H, b1

\* With half a lane added, as the multiplications that round do.
RoundedTerms(a, b, p, q, low, twice, l, w) ==
  /\ p = IntOf(a) * IntOf(b) /\ q = p \div Full /\ low = MulLow(a, b) /\ twice = LaneOf(2 * low)
  /\ l = LaneOf(Half + twice) /\ w = 2 * q + TopBit(low) + TopBit(twice)

\* The rounded fraction in slices, and where its upper part fits a lane.
LEMMA RoundedIs ==
  ASSUME NEW a \in LaneValue, NEW b \in LaneValue, NEW p, NEW q, NEW low, NEW twice, NEW l, NEW w,
         RoundedTerms(a, b, p, q, low, twice, l, w)
  PROVE  /\ l \in LaneValue /\ w \in Int /\ Half + 2 * p = w * Full + l /\ -Half < w
         /\ w < Half \/ (w = Half /\ a = Half /\ b = Half)
         /\ a = b => w >= 0
<1> DEFINE d == Full  H == Half  sq == H * H  v == 2 * q + TopBit(low)  b2 == TopBit(twice)
<1>0. /\ p = IntOf(a) * IntOf(b) /\ q = p \div Full /\ low = MulLow(a, b) /\ twice = LaneOf(2 * low)
      /\ l = LaneOf(Half + twice) /\ w = 2 * q + TopBit(low) + TopBit(twice)
  BY DEF RoundedTerms
<1>1. /\ p \in Int /\ q \in Int /\ twice \in LaneValue /\ v \in Int /\ 2 * p = v * d + twice /\ -H < v /\ v <= H
      /\ TopBit(low) \in {0, 1}
  <2> DEFINE u == v
  <2>1. u = 2 * q + TopBit(low)
    OBVIOUS
  <2> HIDE DEF u
  <2>2. /\ p \in Int /\ q \in Int /\ twice \in LaneValue /\ u \in Int /\ 2 * p = u * Full + twice /\ -Half < u /\ u <= Half
        /\ TopBit(low) \in {0, 1}
    <3>1. FractionTerms(a, b, p, q, low, twice, u)
      BY <1>0, <2>1 DEF FractionTerms
    <3> QED BY <3>1, FractionIs
  <2> QED BY <2>2 DEF u
<1>2. b2 \in {0, 1} /\ l \in LaneValue /\ H + twice = b2 * d + l
  BY <1>0, <1>1, Doubled
<1>3. sq \in Nat /\ p >= -sq + H /\ (p <= sq - H \/ (a = H /\ b = H /\ p = sq)) /\ (a = b => p >= 0)
  BY <1>0, ProductRange
<1>4. d \in Nat \ {0} /\ H \in Nat /\ H >= 2 /\ d = 2 * H /\ twice \in Int /\ l \in 0 .. d - 1 /\ w = v + b2
  BY <1>0, <1>1, <1>2, LaneSizes
<1>5. H * d = 2 * sq
  BY <1>4
<1> HIDE DEF d, sq, H, v, b2
<1>6. w \in Int /\ w * d \in Int /\ H + 2 * p = w * d + l /\ -H < w
  <2>0. w \in Int /\ w * d \in Int /\ v * d \in Int /\ b2 * d \in Int
    BY <1>1, <1>2, <1>4
  <2>1. w * d = v * d + b2 * d
    <3>1. v \in Int /\ b2 \in Int /\ d \in Int /\ w = v + b2
      BY <1>1, <1>2, <1>4
    <3>2. (v + b2) * d = v * d + b2 * d
      BY <3>1
    <3> QED BY <3>1, <3>2
  <2> DEFINE vd == v * d  wd == w * d  bd == b2 * d
  <2>2. /\ vd \in Int /\ wd \in Int /\ bd \in Int /\ l \in Int /\ p \in Int /\ H \in Int /\ twice \in Int
        /\ wd = vd + bd /\ 2 * p = vd + twice /\ H + twice = bd + l
    BY <1>1, <1>2, <1>4, <2>0, <2>1
  <2> HIDE DEF vd, wd, bd
  <2>3. H + 2 * p = wd + l
    BY <2>2
  <2>4. -H < w
    BY <1>1, <1>2, <1>4
  <2> QED BY <2>0, <2>3, <2>4 DEF wd
<1> DEFINE wd == w * d  hd == H * d
<1>7. wd \in Int /\ H + 2 * p = wd + l /\ hd = 2 * sq /\ l \in Int /\ 0 <= l /\ l < d
  BY <1>4, <1>5, <1>6
<1> HIDE DEF wd, hd
<1>8. ASSUME p <= sq - H PROVE w < H
  <2>1. wd < hd
    BY <1>1, <1>3, <1>4, <1>7, <1>8
  <2>2. w < H
    BY <1>4, <1>6, <2>1, Cancel DEF wd, hd
  <2> QED BY <2>2
<1>9. ASSUME a = H, b = H, p = sq PROVE w = H
  <2>1. H + 2 * p = hd + H
    BY <1>1, <1>4, <1>7, <1>9
  <2> DEFINE n == hd + H
  <2>2. n \in Int /\ n = w * d + l /\ n = H * d + H /\ H \in Int /\ H \in 0 .. d - 1
    BY <1>3, <1>4, <1>7, <2>1 DEF wd, hd
  <2> HIDE DEF n
  <2>3. n \div d = w /\ n \div d = H
    <3>1. d \in Nat \ {0} /\ w \in Int /\ l \in 0 .. d - 1
      BY <1>4, <1>6
    <3>2. n \div d = w
      BY <2>2, <3>1, RemainderIs
    <3>3. n \div d = H
      BY <2>2, <3>1, RemainderIs
    <3> QED BY <3>2, <3>3
  <2> QED BY <2>3
<1>10. ASSUME a = b PROVE w >= 0
  <2> DEFINE j == -1
  <2>1. j * d < w * d
    <3>1. p >= 0
      BY <1>3, <1>10
    <3>2. -d < wd
      BY <1>1, <1>4, <1>7, <3>1
    <3> QED BY <1>4, <3>2 DEF wd
  <2>2. j \in Int
    OBVIOUS
  <2> HIDE DEF j
  <2>3. j < w
    BY <1>4, <1>6, <2>1, <2>2, Cancel
  <2> QED BY <1>6, <2>3 DEF j
<1>11. w < H \/ (w = H /\ a = H /\ b = H)
  BY <1>3, <1>8, <1>9
<1> QED BY <1>2, <1>6, <1>10, <1>11 DEF d, H

\* VMULF and VMULU: the engines agree, the square of the least number included.
LEMMA RoundedAgrees ==
  ASSUME NEW c \in LaneStates, NEW op \in {"VMULF", "VMULU"}
  PROVE  Multiply(op, c) = SimdVmulf(op, c)
<1> DEFINE p == IntOf(c.s) * IntOf(c.t)  q == p \div Full  low == MulLow(c.s, c.t)  high == MulHighSigned(c.s, c.t)
           twice == LaneOf(2 * low)  b1 == TopBit(low)  b2 == TopBit(twice)
           w == 2 * q + b1 + b2
           l == LaneOf(Half + twice)
           m == LaneOf(2 * high + b1 + b2)
           square == c.s = c.t
           negative == SignMask(m)
           h == IF square THEN 0 ELSE negative
<1>1. c.s \in LaneValue /\ c.t \in LaneValue
  BY LaneFields
<1>2. p \in Int /\ q \in Int /\ low \in LaneValue /\ high = LaneOf(q) /\ high \in LaneValue
  BY <1>1, SignedProduct
<1>3. twice \in LaneValue /\ b1 \in {0, 1} /\ b2 \in {0, 1} /\ b1 \in Int /\ b2 \in Int
  <2>1. twice \in LaneValue /\ b1 \in {0, 1}
    BY <1>2, Doubled
  <2>2. b2 \in {0, 1}
    BY <2>1, Doubled
  <2> QED BY <2>1, <2>2
<1>4. /\ l \in LaneValue /\ w \in Int /\ Half + 2 * p = w * Full + l /\ -Half < w
      /\ w < Half \/ (w = Half /\ c.s = Half /\ c.t = Half)
      /\ c.s = c.t => w >= 0
  <2> DEFINE u == w
  <2>1. u = 2 * q + TopBit(low) + TopBit(twice)
    OBVIOUS
  <2> HIDE DEF u, l, p, q, low, twice
  <2>2. RoundedTerms(c.s, c.t, p, q, low, twice, l, u)
    BY <2>1 DEF RoundedTerms, p, q, low, twice, l
  <2>3. /\ l \in LaneValue /\ u \in Int /\ Half + 2 * p = u * Full + l /\ -Half < u
        /\ u < Half \/ (u = Half /\ c.s = Half /\ c.t = Half)
        /\ c.s = c.t => u >= 0
    BY <1>1, <2>2, RoundedIs
  <2> QED BY <2>3 DEF u
<1>5. m = LaneOf(w) /\ m \in LaneValue
  <2> HIDE DEF q, b1, b2, high
  <2> DEFINE y == q + b1 + b2
  <2>1. y \in Int /\ LaneOf(q) + y = LaneOf(q) + y
    BY <1>2, <1>3
  <2> HIDE DEF y
  <2>2. LaneOf(LaneOf(q) + y) = LaneOf(q + y)
    BY <1>2, <2>1, LaneOfSum
  <2>3. LaneOf(q + y) = LaneOf(w)
    <3>1. q + y = w
      BY <1>2, <1>3 DEF y
    <3> QED BY <3>1
  <2> DEFINE z == high + b1 + b2
  <2>4. high \in Int /\ z \in Int
    BY <1>2, <1>3, LaneSizes
  <2>5. high + y = q + z /\ 2 * high + b1 + b2 = high + z
    BY <1>2, <1>3, <2>4 DEF y
  <2> HIDE DEF z
  <2>6. LaneOf(LaneOf(q) + z) = LaneOf(q + z)
    BY <1>2, <2>4, LaneOfSum
  <2>7. LaneOf(2 * high + b1 + b2) = LaneOf(q + y)
    BY <1>2, <2>2, <2>5, <2>6
  <2>8. w \in Int
    BY <1>2, <1>3
  <2> QED BY <2>3, <2>7, <2>8, LaneOfType
<1>6. SimdVmulf(op, c) = Accumulated(c, l, m, h,
           IF op = "VMULU" THEN Inverted(h) & (m | negative) ELSE LaneOf(m + IF square THEN negative ELSE 0))
  BY DEF SimdVmulf
<1>7. BaseOf(op, c) + ProductOf(op, c) = w * Full + l
  <2>1. BaseOf(op, c) = Half /\ ProductOf(op, c) = 2 * IntOf(c.s) * IntOf(c.t)
    BY DEF BaseOf, ProductOf, AddingOps, FractionOps
  <2>2. 2 * IntOf(c.s) * IntOf(c.t) = 2 * p
    <3>1. IntOf(c.s) \in Int /\ IntOf(c.t) \in Int
      BY <1>1, IntOfIs
    <3> DEFINE i == IntOf(c.s)  j == IntOf(c.t)
    <3> HIDE DEF i, j
    <3>2. 2 * i * j = 2 * (i * j)
      BY <3>1 DEF i, j
    <3> QED BY <3>2 DEF i, j
  <2> HIDE DEF w, l, p
  <2> QED BY <1>4, <2>1, <2>2
<1> HIDE DEF p, q, low, high, twice, b1, b2, w, l, m
<1> DEFINE x == IF w < 0 THEN -1 ELSE 0
<1>8. x \in Int /\ h = LaneOf(x) /\ w = x * Full + m /\ IntOf(h) * Full + m = w
  <2>1. CASE w < Half
    <3>0. -Half <= w
      BY <1>4, LaneSizes
    <3>1. w = x * Full + m /\ negative = LaneOf(x) /\ IntOf(negative) = x
      BY <1>4, <1>5, <2>1, <3>0, Extended
    <3>2. h = negative
      <4>1. CASE square
        <5>1. x = 0 /\ LaneOf(0) = 0
          BY <1>4, <4>1, ZeroLane
        <5> QED BY <3>1, <4>1, <5>1
      <4>2. CASE ~square
        BY <4>2
      <4> QED BY <4>1, <4>2
    <3>3. IntOf(h) * Full + m = w
      BY <3>1, <3>2
    <3> QED BY <3>1, <3>2, <3>3
  <2>2. CASE w = Half /\ c.s = Half /\ c.t = Half
    <3>1. h = 0 /\ x = 0
      BY <1>4, <2>2, LaneSizes
    <3>2. m = Half /\ 0 * Full + m = m
      <4>1. Half \in LaneValue /\ Half \in Int /\ Full \in Int
        BY LaneSizes
      <4> QED BY <1>5, <2>2, <4>1, LaneOfIs
    <3> QED BY <2>2, <3>1, <3>2, ZeroLane
  <2> QED BY <1>4, <2>1, <2>2
<1> HIDE DEF x, h
<1>9. Multiply(op, c) = Accumulated(c, l, m, h, DestOf(op, l, m, h))
  <2>1. FreshTerms(op, c, x, m, l, h)
    BY <1>7, <1>8 DEF FreshTerms
  <2> QED BY <1>4, <1>5, <1>8, <2>1, FreshResult
<1>10. DestOf(op, l, m, h) = IF op = "VMULU" THEN ClampUnsigned(w) ELSE LaneOf(ClampSigned(w))
  BY <1>8 DEF DestOf, LowOps, SignedPack
<1>11. m \in 0 .. Full - 1 /\ Half \in Nat /\ Half >= 2 /\ Full = 2 * Half /\ Full \in Nat /\ Ones = Full - 1 /\ Ones \in LaneValue
  BY <1>5, LaneSizes, ZeroLane
<1>12. ClampUnsigned(w) = Inverted(h) & (m | negative)
  <2>1. CASE w < 0
    <3>1. ~square /\ ~(w >= Half) /\ -Half <= w /\ w < Half
      BY <1>4, <1>11, <2>1
    <3>2. negative = Ones
      BY <1>4, <1>5, <2>1, <3>1, IntOfLane
    <3>3. Inverted(h) = 0
      BY <1>11, <3>1, <3>2 DEF h, Inverted
    <3>4. m | negative \in LaneValue
      BY <1>5, <1>11, <3>2, LaneBitTypes
    <3>5. 0 & (m | negative) = 0
      BY <3>4, LaneBitRules
    <3> QED BY <2>1, <3>3, <3>5 DEF ClampUnsigned
  <2>2. CASE w >= 0 /\ w < Half
    <3>1. negative = 0 /\ m = w
      <4>1. -Half <= w /\ ~(w < 0) /\ w \in LaneValue
        BY <1>4, <1>11, <2>2, LaneSizes
      <4> QED BY <1>4, <1>5, <2>2, <4>1, IntOfLane, LaneOfIs
    <3>2. Inverted(h) = Ones
      BY <1>11, <3>1 DEF h, Inverted
    <3>3. m | 0 = m /\ Ones & m = m
      BY <1>5, LaneBitRules
    <3>4. ClampUnsigned(w) = w
      BY <1>4, <1>11, <2>2 DEF ClampUnsigned
    <3> QED BY <3>1, <3>2, <3>3, <3>4
  <2>3. CASE w = Half /\ square
    <3>1. m = Half /\ negative = Ones
      <4>1. Half \in LaneValue
        BY <1>11, LaneSizes
      <4>2. m = Half
        BY <1>5, <2>3, <4>1, LaneOfIs
      <4> QED BY <1>11, <4>2 DEF SignMask
    <3>2. Inverted(h) = Ones
      BY <1>11, <2>3 DEF h, Inverted
    <3>3. m | Ones = Ones /\ Ones & Ones = Ones
      BY <1>5, <1>11, LaneBitRules
    <3>4. ClampUnsigned(w) = Ones
      BY <1>11, <2>3 DEF ClampUnsigned
    <3> QED BY <3>1, <3>2, <3>3, <3>4
  <2> QED BY <1>4, <1>11, <2>1, <2>2, <2>3
<1>13. LaneOf(ClampSigned(w)) = LaneOf(m + IF square THEN negative ELSE 0)
  <2>1. CASE w < Half
    <3>1. ClampSigned(w) = w
      BY <1>4, <1>11, <2>1 DEF ClampSigned
    <3>2. (IF square THEN negative ELSE 0) = 0
      <4>1. CASE square
        <5>1. ~(w < 0) /\ -Half <= w
          BY <1>4, <1>11, <4>1
        <5>2. negative = 0
          BY <1>4, <1>5, <2>1, <5>1, IntOfLane
        <5> QED BY <5>2
      <4>2. CASE ~square
        BY <4>2
      <4> QED BY <4>1, <4>2
    <3>3. m + 0 = m
      BY <1>11
    <3>4. LaneOf(m) = m
      BY <1>5, LaneOfIs
    <3> QED BY <1>5, <3>1, <3>2, <3>3, <3>4
  <2>2. CASE w = Half /\ square
    <3>1. m = Half /\ negative = Ones
      <4>1. Half \in LaneValue
        BY <1>11, LaneSizes
      <4>2. m = Half
        BY <1>5, <2>2, <4>1, LaneOfIs
      <4> QED BY <1>11, <4>2 DEF SignMask
    <3>2. ClampSigned(w) = Half - 1
      BY <1>11, <2>2 DEF ClampSigned
    <3>3. LaneOf(Half - 1) = Half - 1
      <4>1. Half - 1 \in LaneValue
        BY <1>11, LaneSizes
      <4> QED BY <4>1, LaneOfIs
    <3>4. LaneOf(Half + Ones) = Half - 1
      <4>1. Half \in LaneValue /\ Half + Ones >= Full /\ Half + Ones - Full = Half - 1
        BY <1>11, LaneSizes
      <4>2. LaneOf(Half + Ones) = IF Half + Ones >= Full THEN Half + Ones - Full ELSE Half + Ones
        BY <1>11, <4>1, CarryIs
      <4> QED BY <4>1, <4>2
    <3> QED BY <2>2, <3>1, <3>2, <3>3, <3>4
  <2> QED BY <1>4, <2>1, <2>2
<1> QED BY <1>6, <1>9, <1>10, <1>12, <1>13

\* Twice a lane is even, so a bit fits below it.
LEMMA EvenLane ==
  ASSUME NEW x \in LaneValue, NEW b \in {0, 1}
  PROVE  LaneOf(2 * x) | b = LaneOf(2 * x) + b
<1> DEFINE k == TopBit(x)  y == x - k * Half  n == LaneOf(2 * x)
<1>1. k \in {0, 1} /\ (k = IF x >= Half THEN 1 ELSE 0) /\ 2 * x = k * Full + n /\ n \in LaneValue
  BY Doubled
<1>2. Full = 2 * Half /\ Half \in Nat /\ x \in Nat /\ n \in Nat
  BY <1>1, LaneSizes
<1> HIDE DEF k, n
<1>3. y \in Nat /\ n = 2 * y
  <2>1. CASE k = 1
    <3>1. y = x - Half /\ 2 * x = Full + n /\ x >= Half
      BY <1>1, <1>2, <2>1
    <3> HIDE DEF y
    <3> QED BY <1>2, <3>1
  <2>2. CASE k = 0
    <3>1. y = x /\ 2 * x = n
      BY <1>1, <1>2, <2>2
    <3> HIDE DEF y
    <3> QED BY <1>2, <3>1
  <2> QED BY <1>1, <2>1, <2>2
<1> HIDE DEF y
<1>4. (2 * y) | b = 2 * y + b
  BY <1>3, EvenOrBit
<1>5. n | b = n + b
  BY <1>3, <1>4
<1> QED BY <1>5 DEF n

\* Doubling a lane that was cut is cutting twice the number.
LEMMA LaneTwice ==
  ASSUME NEW q \in Int, NEW y \in Int
  PROVE  LaneOf(LaneOf(2 * LaneOf(q)) + y) = LaneOf(2 * q + y)
<1> DEFINE r == LaneOf(q)  t == 2 * r
<1>1. r \in Int /\ t \in Int
  BY LaneOfType, LaneSizes
<1> HIDE DEF t
<1>2. LaneOf(LaneOf(t) + y) = LaneOf(t + y)
  BY <1>1, LaneOfSum
<1> DEFINE z == r + y  w == q + y
<1>3. z \in Int /\ w \in Int
  BY <1>1
<1> HIDE DEF z, w
<1>4. LaneOf(LaneOf(q) + z) = LaneOf(q + z) /\ LaneOf(LaneOf(q) + w) = LaneOf(q + w)
  BY <1>3, LaneOfSum
<1> HIDE DEF r
<1>5. t + y = r + z /\ q + z = r + w /\ q + w = 2 * q + y
  BY <1>1 DEF t, z, w
<1>6. LaneOf(r + z) = LaneOf(q + z) /\ LaneOf(r + w) = LaneOf(q + w)
  BY <1>4 DEF r
<1>7. LaneOf(LaneOf(t) + y) = LaneOf(2 * q + y)
  BY <1>2, <1>5, <1>6
<1> QED BY <1>7 DEF t, r

\* The unsigned clamp of the accumulator's upper slices, by masks.
LEMMA ClampedAcc ==
  ASSUME NEW h \in LaneValue, NEW m \in LaneValue
  PROVE  ClampUnsigned(IntOf(h) * Full + m) =
           (IF IntOf(h) > 0 THEN Ones ELSE 0) | (Inverted(SignMask(h)) & (SignMask(m) | m))
<1> DEFINE i == IntOf(h)  n == i * Full + m  either == SignMask(m) | m
<1>1. /\ i \in Int /\ Full \in Nat /\ Half \in Nat /\ Half >= 2 /\ Full = 2 * Half /\ m \in 0 .. Full - 1 /\ Ones = Full - 1 /\ Ones \in Int
      /\ 0 \in LaneValue /\ Ones \in LaneValue
  BY IntOfIs, LaneSizes, ZeroLane
<1>2. (i < 0 <=> h >= Half) /\ h \in Int
  BY IntOfIs, LaneSizes
<1>3. either \in LaneValue /\ SignMask(m) \in LaneValue
  BY MaskType, LaneBitTypes
<1>4. either = IF m >= Half THEN Ones ELSE m
  <2>1. CASE m >= Half
    BY <2>1, LaneBitRules DEF SignMask
  <2>2. CASE ~(m >= Half)
    BY <2>2, LaneBitRules DEF SignMask
  <2> QED BY <2>1, <2>2
<1>5. Inverted(SignMask(h)) = IF i < 0 THEN 0 ELSE Ones
  <2>1. Ones - 0 = Ones /\ Ones - Ones = 0
    BY <1>1
  <2> QED BY <1>2, <2>1 DEF Inverted, SignMask
<1>6. Inverted(SignMask(h)) & either = IF i < 0 THEN 0 ELSE either
  <2> HIDE DEF either, i
  <2> QED BY <1>3, <1>5, LaneBitRules
<1>7. CASE i > 0
  <2>1. n >= Half
    <3> DEFINE g == i * Full
    <3>1. g >= Full /\ g \in Int
      BY <1>1, <1>7
    <3> HIDE DEF g
    <3>2. g + m >= Half
      BY <1>1, <3>1
    <3> QED BY <3>2 DEF g
  <2>2. n \in Int /\ ~(n < 0)
    <3>1. n \in Int
      BY <1>1
    <3> HIDE DEF n
    <3> QED BY <1>1, <2>1, <3>1
  <2> HIDE DEF n
  <2>3. ClampUnsigned(n) = Ones
    BY <2>1, <2>2 DEF ClampUnsigned
  <2>4. Ones | either = Ones
    BY <1>3, LaneBitRules
  <2>5. ~(i < 0)
    BY <1>1, <1>7
  <2> HIDE DEF i, either
  <2>6. Inverted(SignMask(h)) & either = either
    BY <1>6, <2>5
  <2> QED BY <1>7, <2>3, <2>4, <2>6 DEF n, i, either
<1>8. CASE i = 0
  <2>1. n = m
    BY <1>1, <1>8
  <2>2. ClampUnsigned(m) = either
    BY <1>1, <1>4 DEF ClampUnsigned
  <2>3. 0 | either = either
    BY <1>3, LaneBitRules
  <2>4. ~(i < 0) /\ ~(i > 0)
    BY <1>8
  <2> HIDE DEF i, either
  <2>5. Inverted(SignMask(h)) & either = either
    BY <1>6, <2>4
  <2> QED BY <2>1, <2>2, <2>3, <2>4, <2>5 DEF i, either, n
<1>9. CASE i < 0
  <2>1. n < 0
    <3> DEFINE g == i * Full
    <3>1. g <= -Full /\ g \in Int
      BY <1>1, <1>9
    <3> HIDE DEF g
    <3>2. g + m < 0
      BY <1>1, <3>1
    <3> QED BY <3>2 DEF g
  <2> HIDE DEF n
  <2>2. ClampUnsigned(n) = 0
    BY <2>1 DEF ClampUnsigned
  <2>3. 0 | 0 = 0
    BY <1>1, LaneBitRules
  <2>4. ~(i > 0)
    BY <1>1, <1>9
  <2> HIDE DEF i, either
  <2>5. Inverted(SignMask(h)) & either = 0
    BY <1>6, <1>9
  <2> QED BY <2>2, <2>3, <2>4, <2>5 DEF i, either, n
<1> QED BY <1>1, <1>7, <1>8, <1>9

\* VMACF and VMACU: the engines agree.
LEMMA AccumulatedAgrees ==
  ASSUME NEW c \in LaneStates, NEW op \in {"VMACF", "VMACU"}
  PROVE  Multiply(op, c) = SimdVmacf(op, c)
<1> DEFINE p == IntOf(c.s) * IntOf(c.t)  q == p \div Full  low == MulLow(c.s, c.t)  high == MulHighSigned(c.s, c.t)
           twice == LaneOf(2 * low)  b1 == TopBit(low)  v == 2 * q + b1
           ov == CarryMask(c.l, LaneOf(2 * low))
           md == LaneOf((LaneOf(2 * high) | TopBit(low)) - ov)
           wrapped == IF md = 0 /\ ov = Ones THEN Ones ELSE 0
           l == LaneOf(c.l + 2 * low)
           m == LaneOf(c.m + md)
           h == LaneOf(c.h + SignMask(high) - wrapped - CarryMask(c.m, md))
           k == IF c.l + twice >= Full THEN 1 ELSE 0
           u == v + k
           x == SignMask(high) - wrapped
<1>1. /\ c.s \in LaneValue /\ c.t \in LaneValue /\ c.l \in LaneValue /\ c.m \in LaneValue /\ c.h \in LaneValue
      /\ c.l \in Int /\ c.h \in Int /\ c.l \in 0 .. Full - 1 /\ Full \in Nat \ {0} /\ Half \in Nat /\ Half >= 2 /\ Full = 2 * Half
      /\ Ones = Full - 1 /\ Ones \in Int
  BY LaneFields, LaneSizes
<1>2. high = LaneOf(q) /\ high \in LaneValue
  BY <1>1, SignedProduct
<1>3. /\ p \in Int /\ q \in Int /\ low \in LaneValue /\ twice \in LaneValue /\ v \in Int /\ b1 \in {0, 1}
      /\ 2 * p = v * Full + twice
      /\ -Half < v /\ v <= Half
      /\ v = Half => twice = 0
  <2> DEFINE w == v
  <2>1. FractionTerms(c.s, c.t, p, q, low, twice, w)
    BY DEF FractionTerms
  <2> HIDE DEF w, twice, low, q, p
  <2>2. /\ p \in Int /\ q \in Int /\ low \in LaneValue /\ twice \in LaneValue /\ w \in Int /\ TopBit(low) \in {0, 1}
        /\ 2 * p = w * Full + twice
        /\ -Half < w /\ w <= Half
        /\ w = Half => twice = 0
    BY <1>1, <2>1, FractionIs
  <2> QED BY <2>2 DEF w
<1>4. SimdVmacf(op, c) = Accumulated(c, l, m, h,
        IF op = "VMACU" THEN (IF IntOf(h) > 0 THEN Ones ELSE 0) | (Inverted(SignMask(h)) & (SignMask(m) | m)) ELSE SignedPack(m, h))
  BY DEF SimdVmacf
<1>5. ProductOf(op, c) = 2 * p
  <2>1. ProductOf(op, c) = 2 * IntOf(c.s) * IntOf(c.t)
    BY DEF ProductOf, FractionOps
  <2>2. IntOf(c.s) \in Int /\ IntOf(c.t) \in Int
    BY <1>1, IntOfIs
  <2> DEFINE i == IntOf(c.s)  j == IntOf(c.t)
  <2> HIDE DEF i, j
  <2>3. 2 * i * j = 2 * (i * j)
    BY <2>2 DEF i, j
  <2> QED BY <2>1, <2>3 DEF i, j
<1>6. ov \in {0, Ones} /\ ov \in Int /\ (ov = IF c.l + twice >= Full THEN Ones ELSE 0)
  <2> HIDE DEF low
  <2> DEFINE w == twice
  <2>1. w \in LaneValue /\ ov = CarryMask(c.l, w)
    BY <1>3
  <2> HIDE DEF w
  <2>2. CarryMask(c.l, w) = (IF c.l + w >= Full THEN Ones ELSE 0) /\ CarryMask(c.l, w) \in {0, Ones} /\ CarryMask(c.l, w) \in Int
    BY <1>1, <2>1, CarryIs, CarryType
  <2> QED BY <2>1, <2>2 DEF w
<1> HIDE DEF p, q, low, high, twice, b1
<1>7. k \in {0, 1} /\ u \in Int /\ -Half < u /\ u <= Half
  <2>1. k \in {0, 1} /\ (twice = 0 => k = 0)
    <3>1. c.l + 0 < Full
      BY <1>1
    <3>2. twice \in Int
      BY <1>3, LaneSizes
    <3> QED BY <1>1, <3>1, <3>2
  <2> HIDE DEF k, v
  <2> QED BY <1>1, <1>3, <2>1
<1>8. md = LaneOf(u)
  <2> DEFINE y == b1 - ov  e == LaneOf(2 * high)
  <2>1. y \in Int /\ e \in Int /\ b1 \in Int
    <3>1. e \in LaneValue
      BY <1>2, Doubled
    <3> HIDE DEF ov
    <3> QED BY <1>3, <1>6, <3>1, LaneSizes
  <2>2. (e | b1) - ov = e + y
    <3>1. e | b1 = e + b1
      BY <1>2, <1>3, EvenLane
    <3> HIDE DEF e, ov
    <3> QED BY <1>6, <2>1, <3>1
  <2>3. md = LaneOf((e | b1) - ov)
    BY DEF b1
  <2>4. LaneOf(e + y) = LaneOf(2 * q + y)
    <3> HIDE DEF y
    <3> QED BY <1>2, <1>3, <2>1, LaneTwice
  <2>5. 2 * q + y = v - ov
    <3> HIDE DEF ov
    <3> QED BY <1>3, <1>6, <2>1
  <2>6. LaneOf(v - ov) = LaneOf(u)
    <3>1. ov = CarryMask(c.l, twice)
      BY DEF twice
    <3> HIDE DEF v, ov
    <3>2. LaneOf(v - CarryMask(c.l, twice)) = LaneOf(v + IF c.l + twice >= Full THEN 1 ELSE 0)
      BY <1>1, <1>3, CarryNumber
    <3> QED BY <3>1, <3>2
  <2> HIDE DEF md, e, y, v, u, ov
  <2> QED BY <2>2, <2>3, <2>4, <2>5, <2>6
<1>9. SignMask(high) = IF q < 0 THEN Ones ELSE 0
  <2>1. -Half <= q /\ q < Half
    <3> HIDE DEF Half
    <3> QED BY <1>1, <1>3
  <2> QED BY <1>2, <1>3, <2>1, IntOfLane
<1>10. u \div Full = (IF u < 0 THEN -1 ELSE 0) /\ (md = IF u < 0 THEN u + Full ELSE u)
  <2> HIDE DEF u, md
  <2>1. CASE u < 0
    <3> DEFINE r == u + Full  g == -1
    <3>1. r \in 0 .. Full - 1 /\ g \in Int /\ u = g * Full + r
      BY <1>1, <1>7, <2>1
    <3>2. u \in -Full .. -1
      BY <1>1, <1>7, <2>1
    <3> HIDE DEF r, g
    <3>3. u \div Full = g
      BY <1>1, <1>7, <3>1, RemainderIs
    <3>4. md = u + Full
      BY <1>7, <1>8, <3>2, LaneOfIs
    <3> QED BY <2>1, <3>3, <3>4 DEF g
  <2>2. CASE ~(u < 0)
    <3> DEFINE g == 0
    <3>1. u \in 0 .. Full - 1 /\ g \in Int /\ u = g * Full + u /\ u \in LaneValue
      BY <1>1, <1>7, <2>2, LaneSizes
    <3> HIDE DEF g
    <3>2. u \div Full = g
      BY <1>1, <1>7, <3>1, RemainderIs
    <3>3. md = u
      BY <1>8, <3>1, LaneOfIs
    <3> QED BY <2>2, <3>2, <3>3 DEF g
  <2> QED BY <2>1, <2>2
<1>11. x = IF u < 0 THEN Ones ELSE 0
  <2>1. md = 0 <=> u = 0
    <3> HIDE DEF u, md
    <3> QED BY <1>1, <1>7, <1>10
  <2>2. ov = Ones <=> k = 1
    <3> HIDE DEF ov
    <3> QED BY <1>1, <1>6
  <2>3. v < 0 <=> q < 0
    <3>1. b1 \in {0, 1} /\ q \in Int
      BY <1>3
    <3> QED BY <3>1
  <2> HIDE DEF md, ov, k
  <2>4. wrapped = IF u = 0 /\ k = 1 THEN Ones ELSE 0
    BY <2>1, <2>2
  <2>5. v \in Int
    BY <1>3
  <2> HIDE DEF v, wrapped
  <2>6. CASE k = 1 /\ v = -1
    BY <1>1, <1>9, <2>3, <2>4, <2>6
  <2>7. CASE k = 1 /\ v # -1
    <3>1. u # 0 /\ (u < 0 <=> v < 0)
      BY <2>5, <2>7
    <3> HIDE DEF u
    <3> QED BY <1>1, <1>9, <2>3, <2>4, <3>1
  <2>8. CASE k = 0
    <3>1. u < 0 <=> v < 0
      BY <2>5, <2>8
    <3> HIDE DEF u
    <3> QED BY <1>1, <1>9, <2>3, <2>4, <2>8, <3>1
  <2> QED BY <1>7, <2>6, <2>7, <2>8
<1>12. Congruent(x, u \div Full, Full) /\ x \in Int
  <2> HIDE DEF x, u
  <2>1. CASE u < 0
    <3>1. x = -1 + 1 * Full /\ x \in Int
      BY <1>1, <1>11, <2>1
    <3> QED BY <1>10, <2>1, <3>1 DEF Congruent
  <2>2. CASE ~(u < 0)
    <3>1. x = 0 + 0 * Full /\ x \in Int
      BY <1>1, <1>11, <2>2
    <3> QED BY <1>10, <2>2, <3>1 DEF Congruent
  <2> QED BY <2>1, <2>2
<1>13. h = LaneOf(c.h + x - CarryMask(c.m, md))
  <2> DEFINE s == SignMask(high)  j == CarryMask(c.m, md)
  <2>1. s \in Int /\ wrapped \in Int /\ j \in Int
    <3>1. s \in Int
      BY <1>1, <1>9
    <3>2. wrapped \in Int
      BY <1>1
    <3>3. j \in Int
      <4>1. md \in LaneValue
        BY <1>7, <1>8, LaneOfType
      <4> QED BY <1>1, <4>1, CarryType
    <3> QED BY <3>1, <3>2, <3>3
  <2> HIDE DEF s, j, wrapped
  <2>2. c.h + s - wrapped - j = c.h + (s - wrapped) - j
    BY <1>1, <2>1
  <2> QED BY <2>2 DEF s, j
<1>14. l = LaneOf(c.l + twice)
  <2> DEFINE n == 2 * low
  <2>1. n \in Int
    BY <1>3, LaneSizes
  <2> HIDE DEF n
  <2>2. LaneOf(LaneOf(n) + c.l) = LaneOf(n + c.l)
    BY <1>1, <2>1, LaneOfSum
  <2>3. LaneOf(n) \in Int
    BY <2>1, LaneOfType, LaneSizes
  <2>4. LaneOf(n) + c.l = c.l + LaneOf(n) /\ n + c.l = c.l + n
    BY <1>1, <2>1, <2>3
  <2>5. twice = LaneOf(n)
    BY DEF n, twice
  <2>6. LaneOf(c.l + n) = LaneOf(c.l + twice)
    BY <2>2, <2>4, <2>5
  <2> QED BY <2>6 DEF n
<1>15. u = v + IF c.l + twice >= Full THEN 1 ELSE 0
  OBVIOUS
<1>16. m = LaneOf(c.m + md)
  OBVIOUS
<1> HIDE DEF v, ov, md, wrapped, l, m, h, k, u, x
<1>17. AddedTerms(op, c, v, twice, u, md, x, l, m, h)
  BY <1>3, <1>5, <1>8, <1>12, <1>13, <1>14, <1>15, <1>16 DEF AddedTerms
<1>18. Multiply(op, c) = Accumulated(c, l, m, h, DestOf(op, l, m, h)) /\ m \in LaneValue /\ h \in LaneValue
  <2>1. v \in Int /\ twice \in LaneValue /\ u \in Int /\ x \in Int /\ op \in AddingOps
    BY <1>3, <1>7, <1>12 DEF AddingOps
  <2> QED BY <1>17, <2>1, AddedResult
<1>19. DestOf(op, l, m, h) = IF op = "VMACU" THEN ClampUnsigned(IntOf(h) * Full + m) ELSE SignedPack(m, h)
  BY DEF DestOf, LowOps
<1>20. ClampUnsigned(IntOf(h) * Full + m) = (IF IntOf(h) > 0 THEN Ones ELSE 0) | (Inverted(SignMask(h)) & (SignMask(m) | m))
  BY <1>18, ClampedAcc
<1> QED BY <1>4, <1>18, <1>19, <1>20

\* The negated number and the negated lane are the same lane.
LEMMA NegatedLane ==
  ASSUME NEW x \in LaneValue
  PROVE  LaneOf(-IntOf(x)) = LaneOf(-x)
<1> DEFINE i == IntOf(x)  a == -i  b == -x
<1>1. x \in Int /\ i \in Int /\ Full \in Nat \ {0}
  BY IntOfIs, LaneSizes
<1>2. a \in Int /\ b \in Int /\ \E k \in {0, 1} : a = b + k * Full
  <2>1. CASE x >= Half
    <3>1. i = x - Full
      BY <2>1 DEF IntOf
    <3> HIDE DEF i
    <3>2. a = b + 1 * Full
      BY <1>1, <3>1
    <3> QED BY <1>1, <3>2
  <2>2. CASE ~(x >= Half)
    <3>1. i = x
      BY <2>2 DEF IntOf
    <3> HIDE DEF i
    <3>2. a = b + 0 * Full
      BY <1>1, <3>1
    <3> QED BY <1>1, <3>2
  <2> QED BY <2>1, <2>2
<1> HIDE DEF a, b
<1>3. Congruent(a, b, Full)
  BY <1>2 DEF Congruent
<1>4. LaneOf(a) = LaneOf(b)
  BY <1>2, <1>3, SameLane
<1> QED BY <1>4 DEF a, b

\* VABS, which saturates the least number in the destination only: the engines agree.
LEMMA AbsAgrees ==
  ASSUME NEW c \in LaneStates
  PROVE  AbsLane(c) = SimdVabs(c)
<1> DEFINE negated == LaneOf(-IntOf(c.t))  other == LaneOf(-c.t)
<1>1. c.s \in LaneValue /\ c.t \in LaneValue /\ IntOf(c.s) \in Int /\ (IntOf(c.s) < 0 <=> c.s >= Half) /\ c.s \in Int /\ Half >= 2 /\ Half \in Nat
  BY LaneFields, IntOfIs, LaneSizes
<1>2. negated = other
  BY <1>1, NegatedLane
<1>3. LaneOf(0) = 0 /\ LaneOf(c.t) = c.t
  BY <1>1, ZeroLane, LaneOfIs
<1>4. SimdVabs(c) = [c EXCEPT !.d = IF IntOf(c.s) < 0 THEN (IF c.t = Half THEN Half - 1 ELSE negated) ELSE IF c.s = 0 THEN 0 ELSE c.t,
                              !.l = IF IntOf(c.s) < 0 THEN (IF c.t = Half THEN Half ELSE negated) ELSE IF c.s = 0 THEN 0 ELSE c.t]
  BY DEF SimdVabs
<1>5. Both(c, -c.t) = [c EXCEPT !.d = other, !.l = other]
  BY DEF Both
<1>6. Both(c, 0) = [c EXCEPT !.d = 0, !.l = 0] /\ Both(c, c.t) = [c EXCEPT !.d = c.t, !.l = c.t]
  BY <1>3 DEF Both
<1> HIDE DEF negated, other
<1>7. CASE IntOf(c.s) < 0 /\ c.t = Half
  <2>1. AbsLane(c) = [c EXCEPT !.d = Half - 1, !.l = Half]
    <3>1. c.s # 0
      BY <1>1, <1>7
    <3> QED BY <1>7, <3>1 DEF AbsLane
  <2> QED BY <1>4, <1>7, <2>1
<1>8. CASE IntOf(c.s) < 0 /\ c.t # Half
  <2>1. AbsLane(c) = Both(c, -c.t)
    <3>1. c.s # 0
      BY <1>1, <1>8
    <3> QED BY <1>8, <3>1 DEF AbsLane
  <2> QED BY <1>2, <1>4, <1>5, <1>8, <2>1
<1>9. CASE ~(IntOf(c.s) < 0) /\ c.s = 0
  <2>1. AbsLane(c) = Both(c, 0)
    BY <1>9 DEF AbsLane
  <2> QED BY <1>4, <1>6, <1>9, <2>1
<1>10. CASE ~(IntOf(c.s) < 0) /\ c.s # 0
  <2>1. AbsLane(c) = Both(c, c.t)
    BY <1>10 DEF AbsLane
  <2> QED BY <1>4, <1>6, <1>10, <2>1
<1> QED BY <1>7, <1>8, <1>9, <1>10

\* Only the lane of a result counts.
LEMMA BothSame ==
  ASSUME NEW c, NEW x, NEW y, LaneOf(x) = LaneOf(y)
  PROVE  Both(c, x) = Both(c, y)
BY DEF Both

\* Sums and differences of signed lanes, as lanes.
LEMMA SignedSums ==
  ASSUME NEW a \in LaneValue, NEW b \in LaneValue
  PROVE  LaneOf(IntOf(a) + IntOf(b)) = LaneOf(a + b) /\ LaneOf(IntOf(a) - IntOf(b)) = LaneOf(a - b)
<1> DEFINE i == IntOf(a)  j == IntOf(b)  n == -j
<1>1. i \in Int /\ j \in Int /\ n \in Int /\ LaneOf(i) = a /\ LaneOf(j) = b /\ a \in Int /\ b \in Int
  BY IntOfIs, LaneSizes
<1> HIDE DEF i, j, n
<1>2. LaneOf(LaneOf(i) + j) = LaneOf(i + j) /\ LaneOf(LaneOf(j) + a) = LaneOf(j + a)
  BY <1>1, LaneOfSum
<1>3. j + a = a + j /\ b + a = a + b
  BY <1>1
<1>4. LaneOf(i + j) = LaneOf(a + b)
  BY <1>1, <1>2, <1>3
<1>5. LaneOf(LaneOf(i) + n) = LaneOf(i + n) /\ LaneOf(a - LaneOf(j)) = LaneOf(a - j)
  BY <1>1, LaneOfSum
<1>6. i + n = i - j /\ a + n = a - j
  BY <1>1 DEF n
<1>7. LaneOf(i - j) = LaneOf(a - b)
  BY <1>1, <1>5, <1>6
<1> QED BY <1>4, <1>7 DEF i, j

\* The sign of the exclusive or tells whether the signs of two lanes differ.
LEMMA SignsDiffer ==
  ASSUME NEW a \in LaneValue, NEW b \in LaneValue
  PROVE  /\ SignMask(a ^^ b) \in {0, Ones}
         /\ SignMask(a ^^ b) = Ones <=> (IntOf(a) < 0 /\ IntOf(b) >= 0) \/ (IntOf(a) >= 0 /\ IntOf(b) < 0)
<1> DEFINE w == LaneBits - 1
<1>1. w \in Nat /\ w + 1 = LaneBits
  BY VuAssumption
<1>2. Pow2[w + 1] = 2 * Pow2[w] /\ Pow2[w] \in Nat
  BY <1>1, Pow2Step, Pow2Type
<1>3. Full = Pow2[w + 1] /\ Half = Pow2[w] /\ LaneValue = 0 .. Pow2[w + 1] - 1 /\ Ones # 0
  BY <1>1, <1>2, LaneSizes DEF Full, Half
<1> HIDE DEF w
<1>4. (a ^^ b >= Half) <=> ((a >= Half) # (b >= Half))
  BY <1>1, <1>3, XorTopBit
<1>5. /\ IntOf(a) < 0 <=> a >= Half
      /\ IntOf(b) < 0 <=> b >= Half
      /\ IntOf(a) \in Int /\ IntOf(b) \in Int /\ a \in Int /\ b \in Int /\ Half \in Int
  BY IntOfIs, LaneSizes
<1>6. SignMask(a ^^ b) = IF a ^^ b >= Half THEN Ones ELSE 0
  BY DEF SignMask
<1>7. CASE a >= Half /\ b >= Half
  BY <1>3, <1>4, <1>5, <1>6, <1>7
<1>8. CASE a >= Half /\ ~(b >= Half)
  BY <1>3, <1>4, <1>5, <1>6, <1>8
<1>9. CASE ~(a >= Half) /\ b >= Half
  BY <1>3, <1>4, <1>5, <1>6, <1>9
<1>10. CASE ~(a >= Half) /\ ~(b >= Half)
  BY <1>3, <1>4, <1>5, <1>6, <1>10
<1> QED BY <1>7, <1>8, <1>9, <1>10

\* A lane is the complement of another exactly when their signs differ and their sum is -1.
LEMMA Complement ==
  ASSUME NEW a \in LaneValue, NEW b \in LaneValue
  PROVE  a = Inverted(b) <=> ((a >= Half /\ ~(b >= Half)) \/ (~(a >= Half) /\ b >= Half)) /\ IntOf(LaneOf(a + b)) = -1
<1>1. /\ Full \in Nat /\ Half \in Nat /\ Half >= 2 /\ Full = 2 * Half /\ Ones = Full - 1
      /\ a \in 0 .. Full - 1 /\ b \in 0 .. Full - 1
  BY LaneSizes
<1> DEFINE n == a + b  r == LaneOf(n)
<1>2. n \in Int /\ n >= 0 /\ n <= 2 * Full - 2 /\ (a = Inverted(b) <=> n = Ones)
  BY <1>1 DEF Inverted
<1>3. r = (IF n >= Full THEN n - Full ELSE n) /\ r \in Int
  <2>1. LaneOf(a + b) = IF a + b >= Full THEN a + b - Full ELSE a + b
    BY CarryIs
  <2> QED BY <1>1, <2>1
<1>4. IntOf(r) = IF r >= Half THEN r - Full ELSE r
  BY DEF IntOf
<1>5. IntOf(r) = -1 <=> n = Ones
  <2> HIDE DEF r, n
  <2> QED BY <1>1, <1>2, <1>3, <1>4
<1>6. n = Ones => ((a >= Half /\ ~(b >= Half)) \/ (~(a >= Half) /\ b >= Half))
  <2> SUFFICES ASSUME n = Ones PROVE ((a >= Half /\ ~(b >= Half)) \/ (~(a >= Half) /\ b >= Half))
    OBVIOUS
  <2>1. CASE a >= Half
    <3>1. ~(b >= Half)
      BY <1>1, <2>1
    <3> QED BY <2>1, <3>1
  <2>2. CASE ~(a >= Half)
    <3>1. b >= Half
      BY <1>1, <2>2
    <3> QED BY <2>2, <3>1
  <2> QED BY <2>1, <2>2
<1> HIDE DEF r
<1> QED BY <1>2, <1>5, <1>6 DEF r

\* VCH: the engines agree on the result and on every flag.
LEMMA ClipAgrees ==
  ASSUME NEW c \in LaneStates
  PROVE  ChLane(c) = SimdVch(c)
<1> DEFINE S == IntOf(c.s)  T == IntOf(c.t)
           differ == (S < 0) # (T < 0)
           result == IntOf(LaneOf(IF differ THEN S + T ELSE S - T))
           x == CASE differ /\ result <= 0 -> -T [] ~differ /\ result >= 0 -> T [] OTHER -> S
           sign == SignMask(c.s ^^ c.t)
           differs == sign = Ones
           signNegVt == LaneOf((c.t ^^ sign) - sign)
           diff == IntOf(LaneOf(c.s - signNegVt))
           ge == IF differs THEN T < 0 ELSE diff >= 0
           le == IF differs THEN diff <= 0 ELSE T < 0
           vce == differs /\ diff = -1
           chosen == IF differs THEN le ELSE ge
           y == IF chosen THEN signNegVt ELSE c.s
<1>1. ChLane(c) = [Both(c, x) EXCEPT !.cl = IF differ THEN result <= 0 ELSE T < 0, !.ch = IF differ THEN T < 0 ELSE result >= 0,
                     !.ol = differ, !.oh = result # 0 /\ c.s # Inverted(c.t), !.e = differ /\ result = -1]
  BY DEF ChLane
<1>2. SimdVch(c) = [Both(c, y) EXCEPT !.cl = le, !.ch = ge, !.ol = differs, !.oh = ~(diff = 0 \/ vce), !.e = vce]
  BY DEF SimdVch
<1>3. /\ c.s \in LaneValue /\ c.t \in LaneValue /\ c.s \in Int /\ c.t \in Int /\ S \in Int /\ T \in Int
      /\ (S < 0 <=> c.s >= Half) /\ (T < 0 <=> c.t >= Half) /\ LaneOf(S) = c.s /\ LaneOf(T) = c.t /\ LaneOf(c.t) = c.t /\ LaneOf(c.s) = c.s
      /\ Ones \in Int /\ Ones # 0 /\ Ones \in LaneValue
  <2>1. c.s \in LaneValue /\ c.t \in LaneValue /\ Ones \in LaneValue
    BY LaneFields, ZeroLane
  <2>2. c.s \in Int /\ c.t \in Int /\ Ones \in Int /\ Ones # 0 /\ Half \in Int
    BY <2>1, LaneSizes
  <2>3. S \in Int /\ (S < 0 <=> c.s >= Half) /\ LaneOf(S) = c.s
    BY <2>1, <2>2, IntOfIs
  <2>4. T \in Int /\ (T < 0 <=> c.t >= Half) /\ LaneOf(T) = c.t
    BY <2>1, <2>2, IntOfIs
  <2>5. LaneOf(c.t) = c.t /\ LaneOf(c.s) = c.s
    BY <2>1, LaneOfIs
  <2> QED BY <2>1, <2>2, <2>3, <2>4, <2>5
<1> DEFINE apart == (S < 0 /\ ~(T < 0)) \/ (~(S < 0) /\ T < 0)
<1>4. (differ <=> apart) /\ (differs <=> apart) /\ (differ = differs) /\ sign \in {0, Ones}
  <2>1. /\ sign \in {0, Ones}
        /\ differs <=> (S < 0 /\ T >= 0) \/ (S >= 0 /\ T < 0)
    BY <1>3, SignsDiffer
  <2> HIDE DEF S, T, sign
  <2>2. differs <=> apart
    BY <1>3, <2>1
  <2>3. CASE S < 0
    BY <1>3, <2>1, <2>2, <2>3
  <2>4. CASE ~(S < 0)
    BY <1>3, <2>1, <2>2, <2>4
  <2> QED BY <2>3, <2>4
<1>5. /\ LaneOf(S + T) = LaneOf(c.s + c.t) /\ LaneOf(S - T) = LaneOf(c.s - c.t)
  BY <1>3, SignedSums
<1>6. LaneOf(-T) = LaneOf(-c.t)
  BY <1>3, NegatedLane
<1>7. CASE differs
  <2>1. differ /\ sign = Ones
    BY <1>4, <1>7
  <2>2. signNegVt = LaneOf(-c.t)
    <3>1. c.t ^^ Ones = Ones - c.t
      BY <1>3, LaneBitRules DEF Inverted
    <3>2. (Ones - c.t) - Ones = -c.t
      BY <1>3
    <3> QED BY <2>1, <3>1, <3>2
  <2>3. LaneOf(c.s - signNegVt) = LaneOf(c.s + c.t)
    <3> DEFINE n == -c.t
    <3>1. n \in Int /\ c.s - n = c.s + c.t
      BY <1>3
    <3> HIDE DEF n
    <3>2. LaneOf(c.s - LaneOf(n)) = LaneOf(c.s - n)
      BY <1>3, <3>1, LaneOfSum
    <3> QED BY <2>2, <3>1, <3>2 DEF n
  <2>4. result = diff
    BY <1>5, <2>1, <2>3
  <2>5. c.s = Inverted(c.t) <=> result = -1
    <3>1. c.s = Inverted(c.t) <=> ((c.s >= Half /\ ~(c.t >= Half)) \/ (~(c.s >= Half) /\ c.t >= Half)) /\ IntOf(LaneOf(c.s + c.t)) = -1
      BY <1>3, Complement
    <3>2. ((c.s >= Half /\ ~(c.t >= Half)) \/ (~(c.s >= Half) /\ c.t >= Half))
      <4>1. apart
        BY <1>4, <1>7
      <4> HIDE DEF S, T, sign, differ
      <4> QED BY <1>3, <4>1
    <3> HIDE DEF S, T, sign
    <3> QED BY <1>5, <2>1, <3>1, <3>2
  <2>6. LaneOf(x) = LaneOf(y)
    <3>1. CASE result <= 0
      <4>1. x = -T /\ y = signNegVt
        BY <1>7, <2>1, <2>4, <3>1
      <4>2. LaneOf(LaneOf(-c.t)) = LaneOf(-c.t)
        <5>1. -c.t \in Int
          BY <1>3
        <5>2. LaneOf(-c.t) \in LaneValue
          BY <5>1, LaneOfType
        <5> QED BY <5>2, LaneOfIs
      <4> QED BY <1>6, <2>2, <4>1, <4>2
    <3>2. CASE ~(result <= 0)
      <4>1. x = S /\ y = c.s
        BY <1>7, <2>1, <2>4, <3>2
      <4> QED BY <1>3, <4>1
    <3> QED BY <3>1, <3>2
  <2>7. Both(c, x) = Both(c, y)
    BY <2>6, BothSame
  <2> HIDE DEF x, y, sign, signNegVt, result, diff, S, T
  <2>8. (IF differ THEN result <= 0 ELSE T < 0) = le /\ (IF differ THEN T < 0 ELSE result >= 0) = ge
    BY <1>7, <2>1, <2>4
  <2>9. (differ /\ result = -1) = vce
    BY <1>7, <2>1, <2>4
  <2>10. (result # 0 /\ c.s # Inverted(c.t)) = ~(diff = 0 \/ vce)
    BY <1>7, <2>4, <2>5
  <2> HIDE DEF differ, differs, le, ge, vce
  <2> QED BY <1>1, <1>2, <1>4, <2>7, <2>8, <2>9, <2>10
<1>8. CASE ~differs
  <2>1. ~differ /\ sign = 0
    BY <1>4, <1>8
  <2>2. signNegVt = c.t
    <3>1. c.t ^^ 0 = c.t
      BY <1>3, LaneBitRules
    <3>2. c.t - 0 = c.t
      BY <1>3
    <3> QED BY <1>3, <2>1, <3>1, <3>2
  <2>4. result = diff
    BY <1>5, <2>1, <2>2
  <2>5. c.s # Inverted(c.t)
    <3>1. c.s = Inverted(c.t) => ((c.s >= Half /\ ~(c.t >= Half)) \/ (~(c.s >= Half) /\ c.t >= Half))
      BY <1>3, Complement
    <3> HIDE DEF S, T, sign, differ
    <3> QED BY <1>3, <1>4, <1>8, <3>1
  <2>6. LaneOf(x) = LaneOf(y)
    <3>1. CASE result >= 0
      <4>1. x = T /\ y = c.t
        BY <1>8, <2>1, <2>2, <2>4, <3>1
      <4> QED BY <1>3, <4>1
    <3>2. CASE ~(result >= 0)
      <4>1. x = S /\ y = c.s
        BY <1>8, <2>1, <2>4, <3>2
      <4> QED BY <1>3, <4>1
    <3> QED BY <3>1, <3>2
  <2>7. Both(c, x) = Both(c, y)
    BY <2>6, BothSame
  <2> HIDE DEF x, y, sign, signNegVt, result, diff, S, T
  <2>8. (IF differ THEN result <= 0 ELSE T < 0) = le /\ (IF differ THEN T < 0 ELSE result >= 0) = ge
    BY <1>8, <2>1, <2>4
  <2>9. (differ /\ result = -1) = vce
    BY <1>8, <2>1, <2>4
  <2>10. (result # 0 /\ c.s # Inverted(c.t)) = ~(diff = 0 \/ vce)
    BY <1>8, <2>4, <2>5
  <2> HIDE DEF differ, differs, le, ge, vce
  <2> QED BY <1>1, <1>2, <1>4, <2>7, <2>8, <2>9, <2>10
<1> QED BY <1>7, <1>8

\* One lane of both engines.
LEMMA LanesAgree ==
  ASSUME NEW i, NEW c \in LaneStates
  PROVE  SimdLane(i, c) = ScalarLane(i, c)
<1> DEFINE op == i.op
           Fractions == {"VMULF", "VMULU"}  Added == {"VMACF", "VMACU"}  Low == {"VMUDL", "VMADL"}
           Mixed == {"VMUDM", "VMADM", "VMUDN", "VMADN"}  High == {"VMUDH", "VMADH"}
<1>1. CASE op \in Fractions \cup Added \cup Low \cup Mixed \cup High
  <2>1. op \in MultiplyOps
    BY <1>1 DEF MultiplyOps, FractionOps, LowOps, AddingOps
  <2>2. ScalarLane(i, c) = Multiply(op, c)
    <3>1. /\ op \notin RoundOps /\ op \notin CompareOps /\ op \notin LogicalOps
          /\ op \notin {"VMULQ", "VMACQ", "VADD", "VSUB", "VABS", "VADDC", "VSUBC", "VSAR", "VCH", "VCL", "VCR", "VMRG", "VNOP"}
      BY <1>1 DEF RoundOps, CompareOps, LogicalOps
    <3> QED BY <2>1, <3>1 DEF ScalarLane
  <2>3. CASE op \in Fractions
    <3>1. SimdLane(i, c) = SimdVmulf(op, c)
      BY <2>3 DEF SimdLane
    <3> QED BY <2>2, <2>3, <3>1, RoundedAgrees
  <2>4. CASE op \in Added
    <3>1. SimdLane(i, c) = SimdVmacf(op, c)
      BY <2>4 DEF SimdLane
    <3> QED BY <2>2, <2>4, <3>1, AccumulatedAgrees
  <2>5. CASE op \in Low
    <3>1. SimdLane(i, c) = SimdVmudl(op, c)
      BY <2>5 DEF SimdLane
    <3> QED BY <2>2, <2>5, <3>1, LowAgrees
  <2>6. CASE op \in Mixed
    <3>1. SimdLane(i, c) = SimdMixed(op, c)
      BY <2>6 DEF SimdLane
    <3> QED BY <2>2, <2>6, <3>1, MixedAgrees
  <2>7. CASE op \in High
    <3>1. SimdLane(i, c) = SimdVmudh(op, c)
      BY <2>7 DEF SimdLane
    <3> QED BY <2>2, <2>7, <3>1, HighAgrees
  <2> QED BY <1>1, <2>3, <2>4, <2>5, <2>6, <2>7
<1>2. CASE op = "VABS"
  <2>1. SimdLane(i, c) = SimdVabs(c)
    BY <1>2 DEF SimdLane
  <2>2. ScalarLane(i, c) = AbsLane(c)
    BY <1>2 DEF ScalarLane, MultiplyOps, FractionOps, LowOps, AddingOps, RoundOps, CompareOps, LogicalOps
  <2> QED BY <2>1, <2>2, AbsAgrees
<1>3. CASE op = "VCH"
  <2>1. SimdLane(i, c) = SimdVch(c)
    BY <1>3 DEF SimdLane
  <2>2. ScalarLane(i, c) = ChLane(c)
    BY <1>3 DEF ScalarLane, MultiplyOps, FractionOps, LowOps, AddingOps, RoundOps, CompareOps, LogicalOps
  <2> QED BY <2>1, <2>2, ClipAgrees
<1>4. CASE op \notin Fractions \cup Added \cup Low \cup Mixed \cup High \cup {"VABS", "VCH"}
  BY <1>4 DEF SimdLane
<1> QED BY <1>1, <1>2, <1>3, <1>4

-----------------------------------------------------------------------------
(***************************************************************************)
(* What a lane can hold stays a lane                                       *)
(***************************************************************************)

\* The accumulator takes any integer.
LEMMA SetAccType == \A c \in LaneStates, n \in Int : SetAcc(c, n) \in LaneStates
<1> TAKE c \in LaneStates, n \in Int
<1> DEFINE ff == Full * Full  x == n \div ff  y == n \div Full
<1>1. Full \in Nat \ {0} /\ ff \in Nat \ {0}
  BY LaneSizes
<1>2. x \in Int /\ y \in Int
  <2> HIDE DEF ff
  <2> QED BY <1>1
<1> HIDE DEF x, y
<1>3. LaneOf(x) \in LaneValue /\ LaneOf(y) \in LaneValue /\ LaneOf(n) \in LaneValue
  BY <1>2, LaneOfType
<1>4. SetAcc(c, n) = [c EXCEPT !.h = LaneOf(x), !.m = LaneOf(y), !.l = LaneOf(n)]
  BY DEF SetAcc, x, y, ff
<1> HIDE DEF ff
<1> QED BY <1>3, <1>4 DEF LaneStates

\* So do destination and low slice together.
LEMMA BothType == \A c \in LaneStates, x \in Int : Both(c, x) \in LaneStates
<1> TAKE c \in LaneStates, x \in Int
<1>1. LaneOf(x) \in LaneValue
  BY LaneOfType
<1> QED BY <1>1 DEF Both, LaneStates

\* A multiplication of lanes leaves lanes.
LEMMA MultiplyType ==
  ASSUME NEW op, NEW c \in LaneStates
  PROVE  Multiply(op, c) \in LaneStates
<1> DEFINE i == IntOf(c.s)  j == IntOf(c.t)  n == BaseOf(op, c) + ProductOf(op, c)
           a == SetAcc(c, n)
           d == CASE op \in {"VMULU", "VMACU"} -> ClampUnsigned(Acc(a) \div Full)
                  [] op \in LowOps -> ClampAccLow(a)
                  [] OTHER -> LaneOf(ClampSigned(Acc(a) \div Full))
<1>1. Multiply(op, c) = [a EXCEPT !.d = d]
  BY Zenon DEF Multiply, ProductOf, BaseOf
<1>2. c.s \in Int /\ c.t \in Int /\ i \in Int /\ j \in Int /\ Full \in Nat \ {0} /\ Half \in Int
  <2>1. c.s \in LaneValue /\ c.t \in LaneValue
    BY LaneFields
  <2> QED BY <2>1, IntOfIs, LaneSizes
<1>3. ProductOf(op, c) \in Int
  <2> HIDE DEF i, j
  <2>1. 2 * i * j \in Int /\ c.s * c.t \in Int /\ i * c.t \in Int /\ c.s * j \in Int /\ i * j * Full \in Int
    BY <1>2
  <2>2. (c.s * c.t) \div Full \in Int
    <3> DEFINE p == c.s * c.t
    <3> HIDE DEF p
    <3>1. p \in Int
      BY <2>1 DEF p
    <3>2. p \div Full \in Int
      BY <1>2, <3>1
    <3> QED BY <3>2 DEF p
  <2>3. ProductOf(op, c) \in {2 * i * j, (c.s * c.t) \div Full, i * c.t, c.s * j, i * j * Full}
    BY Zenon DEF ProductOf, i, j
  <2> QED BY <2>1, <2>2, <2>3
<1>4. BaseOf(op, c) \in Int
  <2>1. Acc(c) \in Int
    BY AccHigh
  <2> QED BY <1>2, <2>1 DEF BaseOf
<1>5. n \in Int
  BY <1>3, <1>4
<1> HIDE DEF n
<1>6. a \in LaneStates
  BY <1>5, SetAccType
<1> HIDE DEF a
<1>7. Acc(a) \div Full \in Int
  BY <1>6, AccHigh
<1>8. ClampAccLow(a) \in LaneValue
  <2>1. a.l \in LaneValue /\ 0 \in LaneValue /\ Ones \in LaneValue
    BY <1>6, LaneFields, ZeroLane
  <2> QED BY <2>1 DEF ClampAccLow
<1> DEFINE w == Acc(a) \div Full
<1> HIDE DEF w
<1>9. ClampUnsigned(w) \in LaneValue /\ LaneOf(ClampSigned(w)) \in LaneValue
  BY <1>7, ClampType DEF w
<1>10. d \in LaneValue
  BY <1>8, <1>9 DEF w
<1> HIDE DEF d
<1> QED BY <1>1, <1>6, <1>10 DEF LaneStates

\* So does the rounding of VMULQ and VMACQ.
LEMMA QuantizedType ==
  ASSUME NEW c \in LaneStates, NEW n \in Int
  PROVE  Quantized(c, n) \in LaneStates
<1> DEFINE half == ClampSigned(n \div 2)  q == Quantum \div 2  x == half - (half % q)
<1>1. q \in Nat \ {0}
  BY VuAssumption
<1>2. n \div 2 \in Int
  OBVIOUS
<1>3. half \in Int
  BY <1>2, ClampType
<1> HIDE DEF half, q
<1>4. x \in Int
  BY <1>1, <1>3
<1>5. LaneOf(x) \in LaneValue
  BY <1>4, LaneOfType
<1>6. Quantized(c, n) = [c EXCEPT !.d = LaneOf(x)]
  BY DEF Quantized, half, q
<1> HIDE DEF x
<1> QED BY <1>5, <1>6 DEF LaneStates

\* So do VRNDP and VRNDN.
LEMMA RoundType ==
  ASSUME NEW op, NEW shifted, NEW c \in LaneStates
  PROVE  RoundLane(op, shifted, c) \in LaneStates
<1> DEFINE n == Acc(c)
           product == IF shifted THEN IntOf(c.t) * Full ELSE IntOf(c.t)
           k == IF (op = "VRNDP") = (n >= 0) THEN n + product ELSE n
           a == SetAcc(c, k)
           w == Acc(a) \div Full
<1>1. RoundLane(op, shifted, c) = [a EXCEPT !.d = LaneOf(ClampSigned(w))]
  BY Zenon DEF RoundLane
<1>2. n \in Int
  BY AccHigh
<1>3. product \in Int
  <2>1. IntOf(c.t) \in Int /\ Full \in Int
    BY LaneFields, IntOfIs, LaneSizes
  <2> QED BY <2>1
<1> HIDE DEF n, product
<1>4. k \in Int
  BY <1>2, <1>3
<1> HIDE DEF k
<1>5. a \in LaneStates
  BY <1>4, SetAccType
<1> HIDE DEF a
<1>6. w \in Int
  BY <1>5, AccHigh
<1> HIDE DEF w
<1>7. LaneOf(ClampSigned(w)) \in LaneValue
  BY <1>6, ClampType
<1> QED BY <1>1, <1>5, <1>7 DEF LaneStates

\* VMULQ and VMACQ leave lanes.
LEMMA MulqType ==
  ASSUME NEW c \in LaneStates
  PROVE  Mulq(c) \in LaneStates /\ Macq(c) \in LaneStates
<1>1. IntOf(c.s) \in Int /\ IntOf(c.t) \in Int /\ c.l \in Int /\ Full \in Int /\ Quantum \in Int /\ Quantum \in Nat \ {0}
  BY LaneFields, IntOfIs, LaneSizes, VuAssumption
<1>2. Mulq(c) \in LaneStates
  <2> DEFINE n == IntOf(c.s) * IntOf(c.t)
             rounded == IF n < 0 THEN n + Quantum - 1 ELSE n
             w == rounded * Full
  <2>1. Mulq(c) = Quantized(SetAcc(c, w), rounded)
    BY DEF Mulq
  <2>2. n \in Int
    BY <1>1
  <2> HIDE DEF n
  <2>3. rounded \in Int
    BY <1>1, <2>2
  <2> HIDE DEF rounded
  <2>4. w \in Int
    BY <1>1, <2>3
  <2> HIDE DEF w
  <2> QED BY <2>1, <2>3, <2>4, SetAccType, QuantizedType
<1>3. Macq(c) \in LaneStates
  <2> DEFINE n == Acc(c) \div Full
             even == (n \div Quantum) % 2 = 0
             next == CASE n < 0 /\ even -> n + Quantum [] n >= Quantum /\ even -> n - Quantum [] OTHER -> n
             w == next * Full + c.l
  <2>1. Macq(c) = Quantized(SetAcc(c, w), next)
    BY DEF Macq
  <2>2. n \in Int
    BY AccHigh
  <2> HIDE DEF n, even
  <2>3. next \in Int
    BY <1>1, <2>2
  <2> HIDE DEF next
  <2>4. w \in Int
    BY <1>1, <2>3
  <2> HIDE DEF w
  <2> QED BY <2>1, <2>3, <2>4, SetAccType, QuantizedType
<1> QED BY <1>2, <1>3

\* Sums, comparisons, merges and logical operations leave lanes.
LEMMA SumsType ==
  ASSUME NEW c \in LaneStates, NEW op
  PROVE  /\ AddLane(c, IntOf(c.s) + IntOf(c.t) + VuCarry(c)) \in LaneStates
         /\ AddLane(c, IntOf(c.s) - IntOf(c.t) - VuCarry(c)) \in LaneStates
         /\ [Both(c, c.s + c.t) EXCEPT !.ol = c.s + c.t >= Full, !.oh = FALSE] \in LaneStates
         /\ [Both(c, c.s - c.t) EXCEPT !.ol = c.s < c.t, !.oh = c.s # c.t] \in LaneStates
         /\ AbsLane(c) \in LaneStates
         /\ MergeLane(c) \in LaneStates
         /\ CompareLane(op, c) \in LaneStates
         /\ LogicalLane(op, c) \in LaneStates
         /\ ReservedLane(c) \in LaneStates
<1> DEFINE s == c.s  t == c.t  S == IntOf(c.s)  T == IntOf(c.t)  k == VuCarry(c)
<1>1. s \in Int /\ t \in Int /\ s \in LaneValue /\ t \in LaneValue
  BY LaneFields, LaneSizes
<1>2. S \in Int /\ T \in Int
  BY <1>1, IntOfIs
<1>3. k \in Int
  BY DEF VuCarry
<1> HIDE DEF S, T, k
<1>4. ASSUME NEW n \in Int PROVE AddLane(c, n) \in LaneStates
  <2>1. LaneOf(n) \in LaneValue /\ LaneOf(ClampSigned(n)) \in LaneValue
    BY LaneOfType, ClampType
  <2> QED BY <2>1 DEF AddLane, NoCarry, LaneStates
<1>5. S + T + k \in Int /\ S - T - k \in Int
  BY <1>2, <1>3
<1>6. s + t \in Int /\ s - t \in Int /\ -t \in Int /\ 0 \in Int
  BY <1>1
<1>7. AddLane(c, S + T + k) \in LaneStates /\ AddLane(c, S - T - k) \in LaneStates
  <2> DEFINE x == S + T + k  y == S - T - k
  <2>1. x \in Int /\ y \in Int
    BY <1>5
  <2> HIDE DEF x, y
  <2>2. AddLane(c, x) \in LaneStates /\ AddLane(c, y) \in LaneStates
    BY <1>4, <2>1
  <2> QED BY <2>2 DEF x, y
<1>8. Both(c, s + t) \in LaneStates /\ Both(c, s - t) \in LaneStates /\ Both(c, -t) \in LaneStates
  <2> DEFINE x == s + t  y == s - t  z == -t
  <2>1. x \in Int /\ y \in Int /\ z \in Int
    BY <1>6
  <2> HIDE DEF x, y, z
  <2>2. Both(c, x) \in LaneStates /\ Both(c, y) \in LaneStates /\ Both(c, z) \in LaneStates
    BY <2>1, BothType
  <2> QED BY <2>2 DEF x, y, z
<1>9. Both(c, s) \in LaneStates /\ Both(c, t) \in LaneStates /\ Both(c, 0) \in LaneStates
  BY <1>1, <1>6, BothType
<1>10. ASSUME NEW a \in LaneStates, NEW p \in BOOLEAN, NEW q \in BOOLEAN
       PROVE  [a EXCEPT !.ol = p, !.oh = q] \in LaneStates /\ [a EXCEPT !.cl = p, !.ch = q] \in LaneStates /\ NoCarry(a) \in LaneStates
  BY DEF LaneStates, NoCarry
<1>11. /\ [Both(c, s + t) EXCEPT !.ol = s + t >= Full, !.oh = FALSE] \in LaneStates
       /\ [Both(c, s - t) EXCEPT !.ol = s < t, !.oh = s # t] \in LaneStates
  <2> DEFINE p == s + t >= Full  q == s < t  r == s # t  x == Both(c, s + t)  y == Both(c, s - t)
  <2>1. p \in BOOLEAN /\ q \in BOOLEAN /\ r \in BOOLEAN /\ FALSE \in BOOLEAN
    OBVIOUS
  <2>2. x \in LaneStates /\ y \in LaneStates
    BY <1>8
  <2> HIDE DEF p, q, r, x, y
  <2>3. [x EXCEPT !.ol = p, !.oh = FALSE] \in LaneStates /\ [y EXCEPT !.ol = q, !.oh = r] \in LaneStates
    BY <1>10, <2>1, <2>2
  <2> QED BY <2>3 DEF p, q, r, x, y
<1>12. AbsLane(c) \in LaneStates
  <2>1. Half \in LaneValue /\ Half - 1 \in LaneValue
    BY LaneSizes
  <2>2. [c EXCEPT !.d = Half - 1, !.l = Half] \in LaneStates
    BY <2>1 DEF LaneStates
  <2>3. AbsLane(c) \in {[c EXCEPT !.d = Half - 1, !.l = Half], Both(c, -t), Both(c, 0), Both(c, t)}
    <3>1. CASE IntOf(c.s) < 0 /\ c.t = Half
      <4>1. c.s # 0
        <5>1. ~(IntOf(0) < 0)
          BY ZeroLane
        <5> QED BY <3>1, <5>1
      <4> QED BY <3>1, <4>1, Zenon DEF AbsLane
    <3>2. CASE IntOf(c.s) < 0 /\ c.t # Half
      <4>1. c.s # 0
        <5>1. ~(IntOf(0) < 0)
          BY ZeroLane
        <5> QED BY <3>2, <5>1
      <4> QED BY <3>2, <4>1 DEF AbsLane
    <3>3. CASE ~(IntOf(c.s) < 0) /\ c.s = 0
      BY <3>3 DEF AbsLane
    <3>4. CASE ~(IntOf(c.s) < 0) /\ c.s # 0
      BY <3>4 DEF AbsLane
    <3> QED BY <3>1, <3>2, <3>3, <3>4
  <2> QED BY <1>8, <1>9, <2>2, <2>3
<1>13. MergeLane(c) \in LaneStates
  <2> DEFINE a == Both(c, IF c.cl THEN c.s ELSE c.t)
  <2>1. a \in LaneStates
    BY <1>9
  <2> HIDE DEF a
  <2>2. NoCarry(a) \in LaneStates
    BY <2>1 DEF LaneStates, NoCarry
  <2> QED BY <2>2 DEF MergeLane, a
<1>14. CompareLane(op, c) \in LaneStates
  <2> DEFINE holds == CompareHolds(op, c)
             a == Both(c, IF holds THEN c.s ELSE c.t)
             b == [a EXCEPT !.cl = holds, !.ch = FALSE]
  <2>1. holds \in BOOLEAN
    BY DEF CompareHolds
  <2> HIDE DEF holds
  <2>2. a \in LaneStates
    BY <1>9, <2>1
  <2> HIDE DEF a
  <2>3. b \in LaneStates
    BY <2>1, <2>2 DEF LaneStates
  <2> HIDE DEF b
  <2>4. NoCarry(b) \in LaneStates
    BY <2>3 DEF LaneStates, NoCarry
  <2> QED BY <2>4 DEF CompareLane, a, b, holds
<1>15. LogicalLane(op, c) \in LaneStates
  <2> DEFINE both == c.s & c.t  either == c.s | c.t  differ == c.s ^^ c.t
             x == CASE op = "VAND" -> both [] op = "VNAND" -> Inverted(both)
                 [] op = "VOR" -> either [] op = "VNOR" -> Inverted(either)
                 [] op = "VXOR" -> differ [] OTHER -> Inverted(differ)
  <2>1. both \in LaneValue /\ either \in LaneValue /\ differ \in LaneValue
    BY <1>1, LaneBitTypes
  <2>2. LogicalLane(op, c) = Both(c, x)
    BY DEF LogicalLane
  <2> HIDE DEF both, either, differ
  <2>3. Inverted(both) \in LaneValue /\ Inverted(either) \in LaneValue /\ Inverted(differ) \in LaneValue
    BY <2>1, MaskType
  <2>4. x \in LaneValue
    BY <2>1, <2>3
  <2> HIDE DEF x
  <2>5. x \in Int
    BY <2>4, LaneSizes
  <2> QED BY <2>2, <2>5, BothType
<1>16. ReservedLane(c) \in LaneStates
  <2>1. LaneOf(c.s + c.t) \in LaneValue /\ 0 \in LaneValue
    BY <1>6, LaneOfType, ZeroLane
  <2> QED BY <2>1 DEF ReservedLane, LaneStates
<1> QED BY <1>7, <1>11, <1>12, <1>13, <1>14, <1>15, <1>16 DEF S, T, k

\* So do the clip instructions.
LEMMA ClipType ==
  ASSUME NEW c \in LaneStates
  PROVE  ChLane(c) \in LaneStates /\ ClLane(c) \in LaneStates /\ CrLane(c) \in LaneStates
<1> DEFINE S == IntOf(c.s)  T == IntOf(c.t)
<1>1. c.s \in Int /\ c.t \in Int /\ c.s \in LaneValue /\ c.t \in LaneValue /\ c.cl \in BOOLEAN /\ c.ch \in BOOLEAN
  BY LaneFields, LaneSizes
<1>2. S \in Int /\ T \in Int /\ -T \in Int /\ -c.t \in Int
  BY <1>1, IntOfIs
<1>3. Inverted(c.t) \in LaneValue /\ Inverted(c.t) \in Int
  BY <1>1, MaskType, LaneSizes
<1>4. ChLane(c) \in LaneStates
  <2> DEFINE differ == (S < 0) # (T < 0)
             result == IntOf(LaneOf(IF differ THEN S + T ELSE S - T))
             x == CASE differ /\ result <= 0 -> -T [] ~differ /\ result >= 0 -> T [] OTHER -> S
             a == Both(c, x)
             p1 == IF differ THEN result <= 0 ELSE T < 0
             p2 == IF differ THEN T < 0 ELSE result >= 0
             p3 == result # 0 /\ c.s # Inverted(c.t)
             p4 == differ /\ result = -1
  <2>1. ChLane(c) = [a EXCEPT !.cl = p1, !.ch = p2, !.ol = differ, !.oh = p3, !.e = p4]
    BY DEF ChLane
  <2>2. differ \in BOOLEAN /\ p1 \in BOOLEAN /\ p2 \in BOOLEAN /\ p3 \in BOOLEAN /\ p4 \in BOOLEAN
    <3>1. (S < 0) \in BOOLEAN /\ (T < 0) \in BOOLEAN /\ (result <= 0) \in BOOLEAN /\ (result >= 0) \in BOOLEAN
          /\ (result # 0) \in BOOLEAN /\ (result = -1) \in BOOLEAN /\ (c.s # Inverted(c.t)) \in BOOLEAN
      OBVIOUS
    <3>2. differ \in BOOLEAN
      OBVIOUS
    <3>3. p3 \in BOOLEAN
      OBVIOUS
    <3> HIDE DEF differ
    <3>4. p1 \in BOOLEAN
      BY <3>1, Zenon
    <3>5. p2 \in BOOLEAN
      BY <3>1, Zenon
    <3>6. p4 \in BOOLEAN
      OBVIOUS
    <3> QED BY <3>2, <3>3, <3>4, <3>5, <3>6
  <2> HIDE DEF p1, p2, p3, p4, result, differ, S, T
  <2>3. x \in Int
    BY <1>2
  <2> HIDE DEF x
  <2>4. a \in LaneStates
    BY <2>3, BothType
  <2> HIDE DEF a
  <2> QED BY <2>1, <2>2, <2>4 DEF LaneStates
<1>5. ClLane(c) \in LaneStates
  <2> DEFINE sum == c.s + c.t
             lower == IF c.oh THEN c.cl
                      ELSE IF c.e THEN LaneOf(sum) = 0 \/ sum < Full ELSE LaneOf(sum) = 0 /\ sum < Full
             upper == IF c.oh THEN c.ch ELSE c.s >= c.t
             x == Both(c, IF lower THEN -c.t ELSE c.s)
             y == Both(c, IF upper THEN c.t ELSE c.s)
             a == IF c.ol THEN [x EXCEPT !.cl = lower] ELSE [y EXCEPT !.ch = upper]
  <2>1. ClLane(c) = [NoCarry(a) EXCEPT !.e = FALSE]
    BY DEF ClLane
  <2>2. lower \in BOOLEAN /\ upper \in BOOLEAN
    <3>1. lower \in BOOLEAN
      <4> DEFINE q == LaneOf(sum) = 0 \/ sum < Full  z == LaneOf(sum) = 0 /\ sum < Full
      <4>1. q \in BOOLEAN /\ z \in BOOLEAN
        OBVIOUS
      <4>2. lower = IF c.oh THEN c.cl ELSE IF c.e THEN q ELSE z
        OBVIOUS
      <4> HIDE DEF q, z, lower
      <4> QED BY <1>1, <4>1, <4>2, Zenon
    <3>2. upper \in BOOLEAN
      <4> DEFINE q == c.s >= c.t
      <4>1. q \in BOOLEAN
        OBVIOUS
      <4>2. upper = IF c.oh THEN c.ch ELSE q
        OBVIOUS
      <4> HIDE DEF q, upper
      <4> QED BY <1>1, <4>1, <4>2, Zenon
    <3> QED BY <3>1, <3>2
  <2> HIDE DEF lower, upper
  <2>3. x \in LaneStates
    <3> DEFINE n == IF lower THEN -c.t ELSE c.s
    <3>1. n \in Int
      BY <1>1, <1>2
    <3> HIDE DEF n
    <3>2. Both(c, n) \in LaneStates
      BY <3>1, BothType
    <3> QED BY <3>2 DEF n
  <2>4. y \in LaneStates
    <3> DEFINE n == IF upper THEN c.t ELSE c.s
    <3>1. n \in Int
      BY <1>1
    <3> HIDE DEF n
    <3>2. Both(c, n) \in LaneStates
      BY <3>1, BothType
    <3> QED BY <3>2 DEF n
  <2> HIDE DEF x, y
  <2>5. a \in LaneStates
    <3>1. [x EXCEPT !.cl = lower] \in LaneStates /\ [y EXCEPT !.ch = upper] \in LaneStates
      BY <2>2, <2>3, <2>4 DEF LaneStates
    <3> QED BY <3>1
  <2> HIDE DEF a
  <2> QED BY <2>1, <2>5 DEF LaneStates, NoCarry
<1>6. CrLane(c) \in LaneStates
  <2> DEFINE differ == SignMask(c.s) # SignMask(c.t)
             atLeast == IntOf(c.t) <= IF differ THEN -1 ELSE IntOf(c.s)
             atMost == LaneOf((IF differ THEN c.s ELSE 0) + c.t) >= Half
             magnitude == IF differ THEN Inverted(c.t) ELSE c.t
             clipped == IF differ THEN atMost ELSE atLeast
             n == IF clipped THEN magnitude ELSE c.s
             a == NoCarry(Both(c, n))
  <2>1. CrLane(c) = [a EXCEPT !.cl = atMost, !.ch = atLeast, !.e = FALSE]
    BY DEF CrLane
  <2>2. n \in Int
    BY <1>1, <1>3
  <2>3. atMost \in BOOLEAN /\ atLeast \in BOOLEAN
    OBVIOUS
  <2> HIDE DEF n, atMost, atLeast
  <2>4. a \in LaneStates
    <3>1. Both(c, n) \in LaneStates
      BY <2>2, BothType
    <3> QED BY <3>1 DEF NoCarry, LaneStates
  <2> HIDE DEF a
  <2> QED BY <2>1, <2>3, <2>4 DEF LaneStates
<1> QED BY <1>4, <1>5, <1>6

\* Every instruction executed one lane at a time leaves lanes.
LEMMA ScalarType ==
  ASSUME NEW i, NEW c \in LaneStates
  PROVE  ScalarLane(i, c) \in LaneStates
<1> DEFINE x == CASE i.e = 8 -> c.h [] i.e = 9 -> c.m [] i.e = 10 -> c.l [] OTHER -> 0
           sar == [c EXCEPT !.d = x]
           addc == [Both(c, c.s + c.t) EXCEPT !.ol = c.s + c.t >= Full, !.oh = FALSE]
           subc == [Both(c, c.s - c.t) EXCEPT !.ol = c.s < c.t, !.oh = c.s # c.t]
           add == AddLane(c, IntOf(c.s) + IntOf(c.t) + VuCarry(c))
           sub == AddLane(c, IntOf(c.s) - IntOf(c.t) - VuCarry(c))
           rnd == RoundLane(i.op, i.s % 2 = 1, c)
<1>1. sar \in LaneStates
  <2>1. x \in LaneValue
    BY LaneFields, ZeroLane
  <2> HIDE DEF x
  <2> QED BY <2>1 DEF LaneStates
<1>2. addc \in LaneStates /\ subc \in LaneStates /\ add \in LaneStates /\ sub \in LaneStates
      /\ AbsLane(c) \in LaneStates /\ MergeLane(c) \in LaneStates
  BY SumsType
<1>3. rnd \in LaneStates /\ Multiply(i.op, c) \in LaneStates
  <2> DEFINE odd == i.s % 2 = 1
  <2> HIDE DEF odd
  <2>1. RoundLane(i.op, odd, c) \in LaneStates
    BY RoundType
  <2>2. Multiply(i.op, c) \in LaneStates
    BY MultiplyType
  <2> QED BY <2>1, <2>2 DEF odd
<1>4. CompareLane(i.op, c) \in LaneStates /\ LogicalLane(i.op, c) \in LaneStates /\ ReservedLane(c) \in LaneStates
  BY SumsType
<1>5. ChLane(c) \in LaneStates /\ ClLane(c) \in LaneStates /\ CrLane(c) \in LaneStates /\ Mulq(c) \in LaneStates /\ Macq(c) \in LaneStates
  BY ClipType, MulqType
<1> HIDE DEF sar, addc, subc, add, sub, rnd
<1>6. ScalarLane(i, c) =
    CASE i.op \in MultiplyOps -> Multiply(i.op, c)
      [] i.op \in RoundOps -> rnd
      [] i.op = "VMULQ" -> Mulq(c)
      [] i.op = "VMACQ" -> Macq(c)
      [] i.op = "VADD" -> add
      [] i.op = "VSUB" -> sub
      [] i.op = "VABS" -> AbsLane(c)
      [] i.op = "VADDC" -> addc
      [] i.op = "VSUBC" -> subc
      [] i.op = "VSAR" -> sar
      [] i.op \in CompareOps -> CompareLane(i.op, c)
      [] i.op = "VCH" -> ChLane(c)
      [] i.op = "VCL" -> ClLane(c)
      [] i.op = "VCR" -> CrLane(c)
      [] i.op = "VMRG" -> MergeLane(c)
      [] i.op \in LogicalOps -> LogicalLane(i.op, c)
      [] i.op = "VNOP" -> c
      [] OTHER -> ReservedLane(c)
  BY DEF ScalarLane, sar, addc, subc, add, sub, rnd
<1> QED BY <1>1, <1>2, <1>3, <1>4, <1>5, <1>6

\* The broadcast of an element names a lane.
LEMMA LaneNumbers ==
  ASSUME NEW e \in 0 .. 15, NEW k \in VuLanes
  PROVE  BroadcastLane(e, k) \in VuLanes
BY DEF BroadcastLane, VuLanes

\* So do the sources and the destination of VMOV.
LEMMA VmovLane ==
  ASSUME NEW e \in 0 .. 15, NEW s \in Nat
  PROVE  VmovSource(e, s) \in VuLanes /\ s % 8 \in VuLanes /\ e % 8 \in VuLanes
<1>1. s % 8 \in 0 .. 7 /\ e % 8 \in 0 .. 7
  OBVIOUS
<1>2. (s % 8) - (s % 2) + (e % 2) \in 0 .. 7
  OBVIOUS
<1>3. (s % 8) - (s % 4) + (e % 4) \in 0 .. 7
  OBVIOUS
<1>4. CASE e < 2
  BY <1>1, <1>4 DEF VmovSource, VuLanes
<1>5. CASE e \in 2 .. 3
  <2>1. VmovSource(e, s) = (s % 8) - (s % 2) + (e % 2)
    BY <1>5 DEF VmovSource
  <2> QED BY <1>1, <1>2, <2>1 DEF VuLanes
<1>6. CASE e \in 4 .. 7
  <2>1. VmovSource(e, s) = (s % 8) - (s % 4) + (e % 4)
    BY <1>6 DEF VmovSource
  <2> QED BY <1>1, <1>3, <2>1 DEF VuLanes
<1>7. CASE e > 7
  <2>1. VmovSource(e, s) = e % 8
    BY <1>7 DEF VmovSource
  <2> QED BY <1>1, <2>1 DEF VuLanes
<1> QED BY <1>4, <1>5, <1>6, <1>7

\* The tables are asked for numbers of two lanes only.
LEMMA DividedType ==
  ASSUME NEW m \in VuMachines, NEW i \in VuInstructions, NEW x \in LaneValue
  PROVE  Divided1(m, i, x) \in VuMachines
<1> DEFINE root == i.op \in {"VRSQ", "VRSQL"}
           joined == m.loaded /\ i.op \in {"VRCPL", "VRSQL"}
           input == IF joined THEN IntOf(m.divin) * Full + x ELSE IntOf(x)
           result == Reciprocal(root, input)
<1>1. /\ Full \in Nat \ {0} /\ Half \in Nat /\ Half >= 2 /\ Full = 2 * Half /\ x \in 0 .. Full - 1
      /\ m.divin \in LaneValue
  BY LaneSizes DEF VuMachines
<1>2. IntOf(m.divin) \in Int /\ -Half <= IntOf(m.divin) /\ IntOf(m.divin) < Half /\ IntOf(x) \in Int /\ -Half <= IntOf(x) /\ IntOf(x) < Half
  BY <1>1, IntOfIs
<1>3. input \in -(Half * Full) .. Half * Full - 1
  <2> DEFINE d == Full  H == Half  q == IntOf(m.divin)  hd == H * d  qd == q * d  g == H - 1
  <2>1. hd \in Int /\ qd \in Int /\ -hd <= qd /\ qd <= hd - d /\ H <= hd
    <3> HIDE DEF d, H, q
    <3>1. d \in Nat \ {0} /\ H \in Nat /\ q \in Int /\ -H <= q /\ q <= H - 1 /\ H >= 2
      BY <1>1, <1>2 DEF d, H, q
    <3>2. (-H) * d <= q * d /\ q * d <= (H - 1) * d
      BY <3>1
    <3>3. (-H) * d = -hd /\ (H - 1) * d = hd - d /\ hd \in Int /\ qd \in Int /\ H <= hd
      BY <3>1
    <3> DEFINE x1 == (-H) * d  x2 == (H - 1) * d
    <3>4. x1 <= qd /\ qd <= x2 /\ x1 = -hd /\ x2 = hd - d
      BY <3>2, <3>3
    <3> HIDE DEF x1, x2, hd, qd
    <3> QED BY <3>3, <3>4
  <2> HIDE DEF d, H, q, hd, qd
  <2>2. q * d = qd /\ hd = H * d
    BY DEF hd, qd
  <2>3. qd + x \in -hd .. hd - 1
    <3>1. d \in Nat /\ x \in Int /\ 0 <= x /\ x < d
      BY <1>1 DEF d
    <3> QED BY <2>1, <3>1
  <2>4. IntOf(x) \in -hd .. hd - 1
    <3>1. -H <= IntOf(x) /\ IntOf(x) < H /\ IntOf(x) \in Int /\ H \in Int
      BY <1>1, <1>2 DEF H
    <3> QED BY <2>1, <3>1
  <2>5. IntOf(m.divin) * Full + x = qd + x /\ Half * Full = hd
    BY DEF qd, hd, q, d, H
  <2> QED BY <2>3, <2>4, <2>5
<1>4. root \in BOOLEAN
  OBVIOUS
<1> HIDE DEF input, root
<1>5. result.hi \in LaneValue /\ result.lo \in LaneValue
  BY <1>3, <1>4, VuAssumption
<1>6. Divided1(m, i, x) = [m EXCEPT !.divin = 0, !.loaded = FALSE, !.divout = result.hi, !.v[i.d][i.s % 8] = result.lo]
  BY DEF Divided1, input, root
<1> HIDE DEF result
<1>7. i.d \in VuRegs /\ i.s % 8 \in VuLanes /\ 0 \in LaneValue
  <2>1. i.s \in Nat /\ i.d \in VuRegs /\ i.e \in 0 .. 15
    BY VuAssumption DEF VuInstructions
  <2> QED BY <2>1, VmovLane, ZeroLane
<1> DEFINE j == i.s % 8
<1>8. j \in VuLanes
  BY <1>7
<1> HIDE DEF j
<1>9. [m EXCEPT !.divin = 0, !.loaded = FALSE, !.divout = result.hi, !.v[i.d][j] = result.lo] \in VuMachines
  <2>1. [m.v EXCEPT ![i.d] = [m.v[i.d] EXCEPT ![j] = result.lo]] \in [VuRegs -> [VuLanes -> LaneValue]]
    <3>1. m.v \in [VuRegs -> [VuLanes -> LaneValue]]
      BY DEF VuMachines
    <3>2. [m.v[i.d] EXCEPT ![j] = result.lo] \in [VuLanes -> LaneValue]
      BY <1>5, <1>7, <1>8, <3>1
    <3> QED BY <1>7, <3>1, <3>2
  <2> QED BY <1>5, <1>7, <1>8, <2>1 DEF VuMachines
<1> QED BY <1>6, <1>9 DEF j

\* The instructions on a single lane keep the registers well formed.
LEMMA SingleType ==
  ASSUME NEW m \in VuMachines, NEW i \in VuInstructions
  PROVE  SingleLane(m, i) \in VuMachines
<1> DEFINE x == m.v[i.t][i.e % 8]  j == i.s % 8  src == VmovSource(i.e, i.s)
<1>1. i.d \in VuRegs /\ i.t \in VuRegs /\ i.s \in Nat /\ i.e \in 0 .. 15
  BY VuAssumption DEF VuInstructions
<1>2. j \in VuLanes /\ src \in VuLanes /\ i.e % 8 \in VuLanes
  BY <1>1, VmovLane
<1>3. m.v \in [VuRegs -> [VuLanes -> LaneValue]] /\ m.divout \in LaneValue
  BY DEF VuMachines
<1>4. x \in LaneValue /\ m.v[i.t][src] \in LaneValue
  <2> DEFINE n == i.e % 8
  <2> HIDE DEF n, src
  <2>1. m.v[i.t] \in [VuLanes -> LaneValue]
    BY <1>1, <1>3
  <2>2. n \in VuLanes
    BY <1>2 DEF n
  <2>3. m.v[i.t][n] \in LaneValue /\ m.v[i.t][src] \in LaneValue
    BY <1>2, <2>1, <2>2
  <2> QED BY <2>3 DEF n
<1>5. ASSUME NEW y \in LaneValue
      PROVE  [m.v EXCEPT ![i.d] = [m.v[i.d] EXCEPT ![j] = y]] \in [VuRegs -> [VuLanes -> LaneValue]]
  <2> HIDE DEF j
  <2>1. [m.v[i.d] EXCEPT ![j] = y] \in [VuLanes -> LaneValue]
    BY <1>1, <1>2, <1>3
  <2> QED BY <1>1, <1>3, <2>1
<1>6. CASE i.op = "VMOV"
  <2> HIDE DEF src
  <2>1. SingleLane(m, i) = [m EXCEPT !.v[i.d][j] = m.v[i.t][src]]
    BY <1>6 DEF SingleLane, src
  <2> DEFINE y == m.v[i.t][src]
  <2>2. y \in LaneValue
    BY <1>4
  <2> HIDE DEF y, j
  <2>3. [m EXCEPT !.v[i.d][j] = y] \in VuMachines
    BY <1>5, <2>2 DEF VuMachines
  <2> QED BY <2>1, <2>3 DEF y
<1>7. CASE i.op \in {"VRCPH", "VRSQH"}
  <2>1. SingleLane(m, i) = [m EXCEPT !.divin = x, !.loaded = TRUE, !.v[i.d][j] = m.divout]
    BY <1>7 DEF SingleLane
  <2> HIDE DEF x, j
  <2>2. [m EXCEPT !.divin = x, !.loaded = TRUE, !.v[i.d][j] = m.divout] \in VuMachines
    BY <1>3, <1>4, <1>5 DEF VuMachines
  <2> QED BY <2>1, <2>2
<1>8. CASE i.op # "VMOV" /\ i.op \notin {"VRCPH", "VRSQH"}
  <2>1. SingleLane(m, i) = Divided1(m, i, x)
    BY <1>8 DEF SingleLane
  <2> HIDE DEF x
  <2> QED BY <1>4, <2>1, DividedType
<1> QED BY <1>6, <1>7, <1>8

\* The record gathered for a lane is one the lane lemmas apply to.
LEMMA LaneStateType ==
  ASSUME NEW m \in VuMachines, NEW i \in VuInstructions, NEW k \in VuLanes
  PROVE  Operand(m, i, k) \in LaneValue /\ LaneState(m, i, k) \in LaneStates
<1>1. i.d \in VuRegs /\ i.s \in VuRegs /\ i.t \in VuRegs /\ i.e \in 0 .. 15
  BY DEF VuInstructions
<1>2. m.v \in [VuRegs -> [VuLanes -> LaneValue]] /\ m.lane[k] \in LaneStates
  BY DEF VuMachines
<1>3. BroadcastLane(i.e, k) \in VuLanes
  BY <1>1, LaneNumbers
<1>4. Operand(m, i, k) \in LaneValue /\ m.v[i.s][k] \in LaneValue /\ m.v[i.d][k] \in LaneValue
  BY <1>1, <1>2, <1>3 DEF Operand
<1> QED BY <1>2, <1>4 DEF LaneState, LaneStates

\* An instruction executed by the two engines on the same registers: the same result in every lane.
LEMMA ComputeAgrees ==
  ASSUME NEW m \in VuMachines, NEW i \in VuInstructions
  PROVE  Compute("simd", m, i) = Compute("scalar", m, i)
<1>1. CASE i.op \in SingleOps
  BY <1>1 DEF Compute
<1>2. CASE i.op \notin SingleOps
  <2>1. \A k \in VuLanes : SimdLane(i, LaneState(m, i, k)) = ScalarLane(i, LaneState(m, i, k))
    BY LaneStateType, LanesAgree
  <2> DEFINE f == [k \in VuLanes |-> SimdLane(i, LaneState(m, i, k))]
             g == [k \in VuLanes |-> ScalarLane(i, LaneState(m, i, k))]
             With(done) == [m EXCEPT !.v[i.d] = [k \in VuLanes |-> done[k].d],
                                     !.lane = [k \in VuLanes |-> [done[k] EXCEPT !.s = 0, !.t = 0, !.d = 0]]]
  <2>2. f = g
    BY <2>1
  <2>3. AllLanes("simd", m, i) = With(f)
    <3>1. [k \in VuLanes |-> IF "simd" = "simd" THEN SimdLane(i, LaneState(m, i, k)) ELSE ScalarLane(i, LaneState(m, i, k))] = f
      OBVIOUS
    <3> QED BY <3>1 DEF AllLanes
  <2>4. AllLanes("scalar", m, i) = With(g)
    <3>1. [k \in VuLanes |-> IF "scalar" = "simd" THEN SimdLane(i, LaneState(m, i, k)) ELSE ScalarLane(i, LaneState(m, i, k))] = g
      OBVIOUS
    <3> QED BY <3>1 DEF AllLanes
  <2> HIDE DEF f, g
  <2>5. With(f) = With(g)
    BY <2>2
  <2> QED BY <1>2, <2>3, <2>4, <2>5 DEF Compute
<1> QED BY <1>1, <1>2

\* What an instruction leaves is again registers, an accumulator and flags.
LEMMA ComputeType ==
  ASSUME NEW m \in VuMachines, NEW i \in VuInstructions
  PROVE  Compute("scalar", m, i) \in VuMachines
<1>1. CASE i.op \in SingleOps
  <2> DEFINE a == SingleLane(m, i)
             lanes == [k \in VuLanes |-> [m.lane[k] EXCEPT !.l = Operand(m, i, k)]]
  <2>1. Compute("scalar", m, i) = [a EXCEPT !.lane = lanes]
    BY <1>1 DEF Compute
  <2>2. a \in VuMachines
    BY SingleType
  <2>3. lanes \in [VuLanes -> LaneStates]
    <3>1. ASSUME NEW k \in VuLanes PROVE [m.lane[k] EXCEPT !.l = Operand(m, i, k)] \in LaneStates
      <4>1. m.lane[k] \in LaneStates /\ Operand(m, i, k) \in LaneValue
        BY LaneStateType DEF VuMachines
      <4> DEFINE y == m.lane[k]  z == Operand(m, i, k)
      <4> HIDE DEF y, z
      <4>2. y \in LaneStates /\ z \in LaneValue
        BY <4>1 DEF y, z
      <4>3. [y EXCEPT !.l = z] \in LaneStates
        BY <4>2 DEF LaneStates
      <4> QED BY <4>3 DEF y, z
    <3> QED BY <3>1
  <2> HIDE DEF a, lanes
  <2> QED BY <2>1, <2>2, <2>3 DEF VuMachines
<1>2. CASE i.op \notin SingleOps
  <2> DEFINE g == [k \in VuLanes |-> ScalarLane(i, LaneState(m, i, k))]
             row == [k \in VuLanes |-> g[k].d]
             lanes == [k \in VuLanes |-> [g[k] EXCEPT !.s = 0, !.t = 0, !.d = 0]]
  <2>1. Compute("scalar", m, i) = [m EXCEPT !.v[i.d] = row, !.lane = lanes]
    <3>1. [k \in VuLanes |-> IF "scalar" = "simd" THEN SimdLane(i, LaneState(m, i, k)) ELSE ScalarLane(i, LaneState(m, i, k))] = g
      OBVIOUS
    <3> HIDE DEF g
    <3> QED BY <1>2, <3>1 DEF Compute, AllLanes
  <2>2. \A k \in VuLanes : g[k] \in LaneStates
    BY LaneStateType, ScalarType
  <2> HIDE DEF g
  <2>3. row \in [VuLanes -> LaneValue]
    BY <2>2 DEF LaneStates
  <2>4. lanes \in [VuLanes -> LaneStates]
    <3>1. ASSUME NEW k \in VuLanes PROVE [g[k] EXCEPT !.s = 0, !.t = 0, !.d = 0] \in LaneStates
      <4>1. g[k] \in LaneStates /\ 0 \in LaneValue
        BY <2>2, ZeroLane
      <4> DEFINE y == g[k]
      <4> HIDE DEF y
      <4>2. y \in LaneStates
        BY <4>1 DEF y
      <4>3. [y EXCEPT !.s = 0, !.t = 0, !.d = 0] \in LaneStates
        BY <4>1, <4>2 DEF LaneStates
      <4> QED BY <4>3 DEF y
    <3> QED BY <3>1
  <2> HIDE DEF row, lanes
  <2>5. [m.v EXCEPT ![i.d] = row] \in [VuRegs -> [VuLanes -> LaneValue]]
    BY <2>3 DEF VuMachines, VuInstructions
  <2> QED BY <2>1, <2>4, <2>5 DEF VuMachines
<1> QED BY <1>1, <1>2

\* The invariant: types, and that the engines agree.
VuInv ==
  /\ vu \in [VuEngines -> VuMachines]
  /\ vuProgram \in VuProgram
  /\ vuPc \in Nat
  /\ VuEnginesAgree

\* The registers, the accumulator and the flags stay well formed under every program, and the
\* two engines' stay equal: the induction behind the theorem below.
THEOREM VuInvariance == VuSpec => []VuInv
<1>1. VuInit => VuInv
  BY VuAssumption DEF VuInit, VuInv, VuEnginesAgree, VuEngines
<1>2. VuInv /\ [ExecuteCompute]_vuVars => VuInv'
  <2> SUFFICES ASSUME VuInv, [ExecuteCompute]_vuVars PROVE VuInv'
    OBVIOUS
  <2>1. CASE ExecuteCompute
    <3> DEFINE i == vuProgram[vuPc + 1]  m == vu["scalar"]
    <3>1. i \in VuInstructions
      <4>1. vuProgram \in Seq(VuInstructions) /\ vuPc \in Nat /\ vuPc < Len(vuProgram)
        BY <2>1, VuAssumption DEF VuInv, ExecuteCompute
      <4> QED BY <4>1
    <3>2. m \in VuMachines /\ vu["simd"] = m
      BY DEF VuInv, VuEngines, VuEnginesAgree
    <3>3. vu' = [engine \in VuEngines |-> Compute(engine, vu[engine], i)]
      BY <2>1 DEF ExecuteCompute
    <3> HIDE DEF i, m
    <3>4. vu'["simd"] = Compute("simd", m, i) /\ vu'["scalar"] = Compute("scalar", m, i)
      BY <3>2, <3>3 DEF VuEngines, m
    <3>5. vu'["simd"] = vu'["scalar"] /\ vu'["scalar"] \in VuMachines
      BY <3>1, <3>2, <3>4, ComputeAgrees, ComputeType
    <3>6. vu' \in [VuEngines -> VuMachines]
      <4>1. \A engine \in VuEngines : vu'[engine] \in VuMachines
        BY <3>5 DEF VuEngines
      <4>2. vu' = [engine \in VuEngines |-> vu'[engine]]
        BY <3>3
      <4> QED BY <4>1, <4>2
    <3>7. vuProgram' \in VuProgram /\ vuPc' \in Nat
      BY <2>1 DEF ExecuteCompute, VuInv
    <3> QED BY <3>5, <3>6, <3>7 DEF VuInv, VuEnginesAgree
  <2>2. CASE UNCHANGED vuVars
    BY <2>2 DEF VuInv, VuEnginesAgree, vuVars
  <2> QED BY <2>1, <2>2
<1> QED BY <1>1, <1>2, PTL DEF VuSpec

\* Started on the same registers and given the same program, the engine that works lane by
\* lane (rsp_vector.cpp) and the one that works on whole registers (rsp_vector_simd.cpp) hold
\* the same registers, accumulator slices and flags after every instruction: rebuilding
\* carries, signs and saturations out of lane-sized pieces loses nothing.  It holds for every
\* width of a lane and every program, not only for the operands a test would try.
THEOREM ComputationsAgree == VuSpec => []VuEnginesAgree
<1>1. VuInv => VuEnginesAgree
  BY DEF VuInv
<1> QED BY <1>1, VuInvariance, PTL

-----------------------------------------------------------------------------
(***************************************************************************)
(* Numbers of two lanes                                                    *)
(***************************************************************************)

\* What an instruction that works lane by lane leaves in a lane, in terms of what was there.
LaneDone(m, i, n, k, c) ==
    /\ c.s = m.v[i.s][k] /\ c.t = m.v[i.t][k]
    /\ c.h = m.lane[k].h /\ c.m = m.lane[k].m /\ c.l = m.lane[k].l
    /\ c.cl = m.lane[k].cl /\ c.ch = m.lane[k].ch /\ c.ol = m.lane[k].ol /\ c.oh = m.lane[k].oh /\ c.e = m.lane[k].e
    /\ n.v[i.d][k] = ScalarLane(i, c).d
    /\ n.lane[k] = [ScalarLane(i, c) EXCEPT !.s = 0, !.t = 0, !.d = 0]
    /\ \A r \in VuRegs \ {i.d} : n.v[r] = m.v[r]

\* Without broadcasting, a lane is computed from the same lanes of the registers named.
LEMMA LaneStep ==
  ASSUME NEW m \in VuMachines, NEW i \in VuInstructions, i.op \notin SingleOps, i.e = 0, NEW k \in VuLanes
  PROVE  \E c \in LaneStates : LaneDone(m, i, Compute("scalar", m, i), k, c)
<1> DEFINE c == LaneState(m, i, k)
           g == [j \in VuLanes |-> ScalarLane(i, LaneState(m, i, j))]
           n == Compute("scalar", m, i)
<1>1. c \in LaneStates /\ m.lane[k] \in LaneStates /\ m.v \in [VuRegs -> [VuLanes -> LaneValue]] /\ i.d \in VuRegs
  BY LaneStateType DEF VuMachines, VuInstructions
<1>2. Operand(m, i, k) = m.v[i.t][k]
  <2>1. BroadcastLane(i.e, k) = k
    BY DEF BroadcastLane
  <2> QED BY <2>1 DEF Operand
<1>3. c = [m.lane[k] EXCEPT !.s = m.v[i.s][k], !.t = m.v[i.t][k], !.d = m.v[i.d][k]]
  BY <1>2 DEF LaneState
<1>4. n = [m EXCEPT !.v[i.d] = [j \in VuLanes |-> g[j].d],
                    !.lane = [j \in VuLanes |-> [g[j] EXCEPT !.s = 0, !.t = 0, !.d = 0]]]
  <2>1. n = AllLanes("scalar", m, i)
    BY DEF Compute
  <2> QED BY <2>1 DEF AllLanes
<1>5. g[k] = ScalarLane(i, c)
  OBVIOUS
<1> HIDE DEF g, n
<1>6. c.s = m.v[i.s][k] /\ c.t = m.v[i.t][k]
      /\ c.h = m.lane[k].h /\ c.m = m.lane[k].m /\ c.l = m.lane[k].l
      /\ c.cl = m.lane[k].cl /\ c.ch = m.lane[k].ch /\ c.ol = m.lane[k].ol /\ c.oh = m.lane[k].oh /\ c.e = m.lane[k].e
  <2>1. m.lane[k] \in LaneStates
    BY <1>1
  <2> HIDE DEF c
  <2> QED BY <1>3, <2>1 DEF LaneStates
<1> HIDE DEF c
<1>7. n.v[i.d][k] = g[k].d /\ n.lane[k] = [g[k] EXCEPT !.s = 0, !.t = 0, !.d = 0] /\ \A r \in VuRegs \ {i.d} : n.v[r] = m.v[r]
  <2> DEFINE row == [j \in VuLanes |-> g[j].d]  lanes == [j \in VuLanes |-> [g[j] EXCEPT !.s = 0, !.t = 0, !.d = 0]]
  <2>1. row[k] = g[k].d /\ lanes[k] = [g[k] EXCEPT !.s = 0, !.t = 0, !.d = 0]
    OBVIOUS
  <2> HIDE DEF row, lanes
  <2>2. n = [m EXCEPT !.v[i.d] = row, !.lane = lanes]
    BY <1>4 DEF row, lanes
  <2>3. n.v = [m.v EXCEPT ![i.d] = row] /\ n.lane = lanes
    BY <2>2 DEF VuMachines
  <2> QED BY <1>1, <2>1, <2>3
<1> QED BY <1>1, <1>5, <1>6, <1>7 DEF LaneDone, n

\* The pairs of the sequences name registers that exist.
LEMMA PairRegisters ==
  ASSUME NEW op, OnLow(op) \in VuInstructions \/ OnHigh(op) \in VuInstructions
  PROVE  /\ OnLow(op) \in VuInstructions => {1, 3, 5} \subseteq VuRegs
         /\ OnHigh(op) \in VuInstructions => {0, 2, 4} \subseteq VuRegs
BY DEF VuInstructions, OnLow, OnHigh

\* Numbers of two lanes are ordered by their upper halves, then by their lower ones.
LEMMA PairOrder ==
  ASSUME NEW a \in Int, NEW c \in Int, NEW b \in LaneValue, NEW d \in LaneValue
  PROVE  /\ a * Full + b < c * Full + d <=> a < c \/ (a = c /\ b < d)
         /\ a * Full + b = c * Full + d <=> a = c /\ b = d
<1> DEFINE f == Full  p == a * f  q == c * f
<1>1. f \in Nat \ {0} /\ b \in 0 .. f - 1 /\ d \in 0 .. f - 1
  BY LaneSizes
<1> HIDE DEF f
<1>2. p \in Int /\ q \in Int
  BY <1>1
<1>3. a < c => p + f <= q
  <2> SUFFICES ASSUME a < c PROVE p + f <= q
    OBVIOUS
  <2>1. a + 1 <= c /\ (a + 1) * f = p + f
    BY <1>1
  <2>2. (a + 1) * f <= q
    BY <1>1, <2>1
  <2> QED BY <2>1, <2>2
<1>4. c < a => q + f <= p
  <2> SUFFICES ASSUME c < a PROVE q + f <= p
    OBVIOUS
  <2>1. c + 1 <= a /\ (c + 1) * f = q + f
    BY <1>1
  <2>2. (c + 1) * f <= p
    BY <1>1, <2>1
  <2> QED BY <2>1, <2>2
<1>5. a = c => p = q
  OBVIOUS
<1>6. a < c \/ a = c \/ c < a
  OBVIOUS
<1> HIDE DEF p, q
<1>7. /\ p + b < q + d <=> a < c \/ (a = c /\ b < d)
      /\ p + b = q + d <=> a = c /\ b = d
  BY <1>1, <1>2, <1>3, <1>4, <1>5, <1>6
<1> QED BY <1>7 DEF p, q, f

\* A number of one lane survives the clamp.
LEMMA ClampKeeps ==
  ASSUME NEW s \in Int, -Half <= s, s < Half
  PROVE  ClampSigned(s) = s /\ IntOf(LaneOf(ClampSigned(s))) = s
<1>1. ClampSigned(s) = s
  BY LaneSizes DEF ClampSigned
<1> QED BY <1>1, IntOfLane

\* A number of two lanes has an upper half of one lane.
LEMMA UpperFits ==
  ASSUME NEW s \in Int, NEW w \in LaneValue, InPair(s * Full + w)
  PROVE  -Half <= s /\ s < Half
<1>1. Half \in Int /\ -Half \in Int /\ 0 \in LaneValue
  BY LaneSizes
<1>2. s * Full + w < Half * Full + 0
  <2>1. s * Full + w \in -(Half * Full) .. Half * Full - 1 /\ Half * Full \in Int
    BY LaneSizes DEF InPair
  <2> QED BY <2>1
<1>3. s < Half
  <2>1. s < Half \/ (s = Half /\ w < 0)
    BY <1>1, <1>2, PairOrder
  <2>2. ~(w < 0)
    BY LaneSizes
  <2> QED BY <2>1, <2>2
<1>4. ~(s * Full + w < (-Half) * Full + 0)
  <2>1. s * Full + w \in -(Half * Full) .. Half * Full - 1 /\ Half * Full \in Int /\ (-Half) * Full = -(Half * Full)
    BY LaneSizes DEF InPair
  <2> QED BY <2>1
<1>5. ~(s < -Half)
  BY <1>1, <1>4, PairOrder
<1> QED BY <1>1, <1>3, <1>5

\* What the first instruction of a sum or a difference leaves: the lower half and the carry.
LowAdded(m, k) ==
    LET b == m.v[1][k]
        d == m.v[3][k]
    IN m.v[5][k] = LaneOf(b + d) /\ (m.lane[k].ol <=> b + d >= Full)
LowTaken(m, k) ==
    LET b == m.v[1][k]
        d == m.v[3][k]
    IN m.v[5][k] = LaneOf(b - d) /\ (m.lane[k].ol <=> b < d) /\ (m.lane[k].oh <=> b # d)
PairIn(m, h, l, k) == IntOf(m.v[h][k]) * Full + m.v[l][k]

\* A lane of a register is a lane.
LEMMA RegisterLane ==
  ASSUME NEW m \in VuMachines, NEW r \in VuRegs, NEW k \in VuLanes
  PROVE  m.v[r][k] \in LaneValue /\ m.v[r][k] \in Int /\ IntOf(m.v[r][k]) \in Int /\ m.lane[k] \in LaneStates
<1>1. m.v[r][k] \in LaneValue /\ m.lane[k] \in LaneStates
  BY DEF VuMachines
<1> QED BY <1>1, IntOfIs, LaneSizes

\* The formulas of the instructions that pairs begin and end with.
LEMMA PairLanes ==
  ASSUME NEW c \in LaneStates, NEW i
  PROVE  /\ i.op = "VADDC" => ScalarLane(i, c) = [Both(c, c.s + c.t) EXCEPT !.ol = c.s + c.t >= Full, !.oh = FALSE]
         /\ i.op = "VSUBC" => ScalarLane(i, c) = [Both(c, c.s - c.t) EXCEPT !.ol = c.s < c.t, !.oh = c.s # c.t]
         /\ i.op = "VADD" => ScalarLane(i, c) = AddLane(c, IntOf(c.s) + IntOf(c.t) + VuCarry(c))
         /\ i.op = "VSUB" => ScalarLane(i, c) = AddLane(c, IntOf(c.s) - IntOf(c.t) - VuCarry(c))
         /\ i.op \in CompareOps => ScalarLane(i, c) = CompareLane(i.op, c)
         /\ i.op = "VCH" => ScalarLane(i, c) = ChLane(c)
         /\ i.op = "VCL" => ScalarLane(i, c) = ClLane(c)
         /\ i.op \in MultiplyOps => ScalarLane(i, c) = Multiply(i.op, c)
<1> DEFINE sar == [c EXCEPT !.d = CASE i.e = 8 -> c.h [] i.e = 9 -> c.m [] i.e = 10 -> c.l [] OTHER -> 0]
           addc == [Both(c, c.s + c.t) EXCEPT !.ol = c.s + c.t >= Full, !.oh = FALSE]
           subc == [Both(c, c.s - c.t) EXCEPT !.ol = c.s < c.t, !.oh = c.s # c.t]
           add == AddLane(c, IntOf(c.s) + IntOf(c.t) + VuCarry(c))
           sub == AddLane(c, IntOf(c.s) - IntOf(c.t) - VuCarry(c))
           rnd == RoundLane(i.op, i.s % 2 = 1, c)
<1>h. /\ addc = [Both(c, c.s + c.t) EXCEPT !.ol = c.s + c.t >= Full, !.oh = FALSE]
      /\ subc = [Both(c, c.s - c.t) EXCEPT !.ol = c.s < c.t, !.oh = c.s # c.t]
      /\ add = AddLane(c, IntOf(c.s) + IntOf(c.t) + VuCarry(c))
      /\ sub = AddLane(c, IntOf(c.s) - IntOf(c.t) - VuCarry(c))
  OBVIOUS
<1> HIDE DEF sar, addc, subc, add, sub, rnd
<1>1. ScalarLane(i, c) =
    CASE i.op \in MultiplyOps -> Multiply(i.op, c)
      [] i.op \in RoundOps -> rnd
      [] i.op = "VMULQ" -> Mulq(c)
      [] i.op = "VMACQ" -> Macq(c)
      [] i.op = "VADD" -> add
      [] i.op = "VSUB" -> sub
      [] i.op = "VABS" -> AbsLane(c)
      [] i.op = "VADDC" -> addc
      [] i.op = "VSUBC" -> subc
      [] i.op = "VSAR" -> sar
      [] i.op \in CompareOps -> CompareLane(i.op, c)
      [] i.op = "VCH" -> ChLane(c)
      [] i.op = "VCL" -> ClLane(c)
      [] i.op = "VCR" -> CrLane(c)
      [] i.op = "VMRG" -> MergeLane(c)
      [] i.op \in LogicalOps -> LogicalLane(i.op, c)
      [] i.op = "VNOP" -> c
      [] OTHER -> ReservedLane(c)
  BY DEF ScalarLane, sar, addc, subc, add, sub, rnd
<1> DEFINE x == ScalarLane(i, c)
<1> HIDE DEF x
<1>2. /\ i.op = "VADDC" => x = addc
      /\ i.op = "VSUBC" => x = subc
      /\ i.op = "VADD" => x = add
      /\ i.op = "VSUB" => x = sub
      /\ i.op \in CompareOps => x = CompareLane(i.op, c)
      /\ i.op = "VCH" => x = ChLane(c)
      /\ i.op = "VCL" => x = ClLane(c)
      /\ i.op \in MultiplyOps => x = Multiply(i.op, c)
  <2>1. ASSUME i.op \in {"VADDC", "VSUBC", "VADD", "VSUB", "VLT", "VEQ", "VNE", "VGE", "VCH", "VCL"}
        PROVE  i.op \notin MultiplyOps /\ i.op \notin RoundOps /\ i.op \notin LogicalOps
    BY <2>1 DEF MultiplyOps, FractionOps, LowOps, AddingOps, RoundOps, LogicalOps
  <2>2. CompareOps = {"VLT", "VEQ", "VNE", "VGE"}
    BY DEF CompareOps
  <2>3. x = ScalarLane(i, c)
    BY DEF x
  <2>4. i.op = "VADDC" => x = addc
    BY <1>1, <2>1, <2>2, <2>3
  <2>5. i.op = "VSUBC" => x = subc
    BY <1>1, <2>1, <2>2, <2>3
  <2>6. i.op = "VADD" => x = add
    BY <1>1, <2>1, <2>2, <2>3
  <2>7. i.op = "VSUB" => x = sub
    BY <1>1, <2>1, <2>2, <2>3
  <2>8. i.op \in CompareOps => x = CompareLane(i.op, c)
    BY <1>1, <2>1, <2>2, <2>3
  <2>9. i.op = "VCH" => x = ChLane(c)
    BY <1>1, <2>1, <2>2, <2>3
  <2>10. i.op = "VCL" => x = ClLane(c)
    BY <1>1, <2>1, <2>2, <2>3
  <2>11. i.op \in MultiplyOps => x = Multiply(i.op, c)
    BY <1>1, <2>3 DEF MultiplyOps, FractionOps, LowOps, AddingOps, RoundOps, CompareOps, LogicalOps
  <2> QED BY <2>4, <2>5, <2>6, <2>7, <2>8, <2>9, <2>10, <2>11
<1> QED BY <1>h, <1>2, Zenon DEF x

\* VADDC and VSUBC.
LEMMA PairsBegin ==
  ASSUME NEW m \in VuMachines, NEW k \in VuLanes
  PROVE  /\ OnLow("VADDC") \in VuInstructions => LowAdded(Compute("scalar", m, OnLow("VADDC")), k)
         /\ OnLow("VSUBC") \in VuInstructions => LowTaken(Compute("scalar", m, OnLow("VSUBC")), k)
<1>1. ASSUME NEW op \in {"VADDC", "VSUBC"}, OnLow(op) \in VuInstructions, NEW n, n = Compute("scalar", m, OnLow(op))
      PROVE  (op = "VADDC" => LowAdded(n, k)) /\ (op = "VSUBC" => LowTaken(n, k))
  <2> DEFINE i == OnLow(op)
  <2>1. i.op \notin SingleOps /\ i.e = 0 /\ i.d = 5 /\ i.s = 1 /\ i.t = 3 /\ {1, 3, 5} \subseteq VuRegs
    BY <1>1, PairRegisters DEF OnLow, SingleOps
  <2>2. i \in VuInstructions /\ n = Compute("scalar", m, i)
    BY <1>1
  <2>h. i = OnLow(op)
    OBVIOUS
  <2> HIDE DEF i
  <2>3. PICK c \in LaneStates : LaneDone(m, i, n, k, c)
    BY <2>1, <2>2, LaneStep
  <2> DEFINE a == ScalarLane(i, c)
  <2>4. c.s = n.v[1][k] /\ c.t = n.v[3][k] /\ n.v[5][k] = a.d /\ n.lane[k] = [a EXCEPT !.s = 0, !.t = 0, !.d = 0]
    BY <2>1, <2>3 DEF LaneDone
  <2>5. op = "VADDC" => a = [Both(c, c.s + c.t) EXCEPT !.ol = c.s + c.t >= Full, !.oh = FALSE]
    BY <2>h, PairLanes DEF OnLow
  <2>6. op = "VSUBC" => a = [Both(c, c.s - c.t) EXCEPT !.ol = c.s < c.t, !.oh = c.s # c.t]
    BY <2>h, PairLanes DEF OnLow
  <2> HIDE DEF a
  <2>7. CASE op = "VADDC"
    <3>1. a.d = LaneOf(c.s + c.t) /\ (a.ol <=> c.s + c.t >= Full) /\ [a EXCEPT !.s = 0, !.t = 0, !.d = 0].ol = a.ol
      BY <2>5, <2>7 DEF Both, LaneStates
    <3> QED BY <2>4, <2>7, <3>1 DEF LowAdded
  <2>8. CASE op = "VSUBC"
    <3>1. /\ a.d = LaneOf(c.s - c.t) /\ (a.ol <=> c.s < c.t) /\ (a.oh <=> c.s # c.t)
          /\ [a EXCEPT !.s = 0, !.t = 0, !.d = 0].ol = a.ol /\ [a EXCEPT !.s = 0, !.t = 0, !.d = 0].oh = a.oh
      BY <2>6, <2>8 DEF Both, LaneStates
    <3> QED BY <2>4, <2>8, <3>1 DEF LowTaken
  <2> QED BY <2>7, <2>8
<1> QED BY <1>1

\* The sum of the upper halves and the carry, over the sum of the lower halves, is the sum of
\* the numbers if that has a place; so is the difference.
LEMMA WholeSums ==
  ASSUME NEW a \in LaneValue, NEW b \in LaneValue, NEW c \in LaneValue, NEW d \in LaneValue
  PROVE  LET x == IntOf(a) * Full + b
             y == IntOf(c) * Full + d
             p == IntOf(a) + IntOf(c) + IF b + d >= Full THEN 1 ELSE 0
             q == IntOf(a) - IntOf(c) - IF b < d THEN 1 ELSE 0
         IN /\ InPair(x + y) => IntOf(LaneOf(ClampSigned(p))) * Full + LaneOf(b + d) = x + y
            /\ InPair(x - y) => IntOf(LaneOf(ClampSigned(q))) * Full + LaneOf(b - d) = x - y
<1> DEFINE f == Full  g == IntOf(a)  h == IntOf(c)
           x == g * f + b  y == h * f + d
           u == IF b + d >= f THEN 1 ELSE 0  v == IF b < d THEN 1 ELSE 0
           p == g + h + u  q == g - h - v
<1>1. f \in Nat \ {0} /\ a \in 0 .. f - 1 /\ b \in 0 .. f - 1 /\ c \in 0 .. f - 1 /\ d \in 0 .. f - 1 /\ g \in Int /\ h \in Int
  BY LaneSizes, IntOfIs
<1>2. b + d = u * f + LaneOf(b + d) /\ LaneOf(b + d) \in LaneValue /\ b - d = (-v) * f + LaneOf(b - d) /\ LaneOf(b - d) \in LaneValue
  <2>1. LaneOf(b + d) \in LaneValue /\ LaneOf(b - d) \in LaneValue
    BY <1>1, LaneOfType
  <2>2. b + d = u * f + LaneOf(b + d)
    <3>1. CASE b + d >= f
      <4>1. b + d \in f .. 2 * f - 1 /\ b + d \in Int
        BY <1>1, <3>1
      <4>2. LaneOf(b + d) = (b + d) - f
        <5>1. \A e \in Int : e \in f .. 2 * f - 1 => LaneOf(e) = e - f
          BY LaneOfIs, Zenon
        <5> QED BY <4>1, <5>1, Zenon
      <4> QED BY <1>1, <3>1, <4>2
    <3>2. CASE ~(b + d >= f)
      <4>1. b + d \in LaneValue
        BY <1>1, <3>2, LaneSizes
      <4>2. LaneOf(b + d) = b + d
        BY <4>1, LaneOfIs
      <4> QED BY <1>1, <3>2, <4>2
    <3> QED BY <3>1, <3>2
  <2>3. b - d = (-v) * f + LaneOf(b - d)
    <3>1. CASE b < d
      <4>1. b - d \in -f .. -1 /\ b - d \in Int
        BY <1>1, <3>1
      <4>2. LaneOf(b - d) = b - d + f
        BY <4>1, LaneOfIs
      <4> QED BY <1>1, <3>1, <4>2
    <3>2. CASE ~(b < d)
      <4>1. b - d \in LaneValue
        BY <1>1, <3>2, LaneSizes
      <4>2. LaneOf(b - d) = b - d
        BY <4>1, LaneOfIs
      <4> QED BY <1>1, <3>2, <4>2
    <3> QED BY <3>1, <3>2
  <2> QED BY <2>1, <2>2, <2>3
<1> DEFINE w == LaneOf(b + d)  z == LaneOf(b - d)
<1>3. u \in Int /\ v \in Int /\ b + d = u * f + w /\ b - d = (-v) * f + z /\ w \in Int /\ z \in Int /\ w \in LaneValue /\ z \in LaneValue
  BY <1>1, <1>2, LaneSizes
<1> HIDE DEF f, g, h, u, v, w, z
<1>4. x + y = p * f + w /\ x - y = q * f + z /\ p \in Int /\ q \in Int
  <2>1. p * f = g * f + h * f + u * f /\ q * f = g * f - h * f - v * f
    BY <1>1, <1>3
  <2>2. g * f \in Int /\ h * f \in Int /\ u * f \in Int /\ v * f \in Int /\ (-v) * f = -(v * f)
    BY <1>1, <1>3
  <2>3. p \in Int /\ q \in Int
    BY <1>1, <1>3
  <2> DEFINE gf == g * f  hf == h * f  uf == u * f  vf == v * f
  <2> HIDE DEF gf, hf, uf, vf
  <2>4. p * f = gf + hf + uf /\ q * f = gf - hf - vf /\ gf \in Int /\ hf \in Int /\ uf \in Int /\ vf \in Int
        /\ b + d = uf + w /\ b - d = z - vf
    BY <1>3, <2>1, <2>2 DEF gf, hf, uf, vf
  <2>5. x = gf + b /\ y = hf + d
    BY DEF gf, hf
  <2> HIDE DEF x, y, p, q
  <2> QED BY <1>1, <1>3, <2>3, <2>4, <2>5
<1>5. InPair(x + y) => IntOf(LaneOf(ClampSigned(p))) = p
  <2> SUFFICES ASSUME InPair(x + y) PROVE IntOf(LaneOf(ClampSigned(p))) = p
    OBVIOUS
  <2> HIDE DEF p
  <2>1. InPair(p * Full + w)
    BY <1>4 DEF f
  <2> QED BY <1>3, <1>4, <2>1, UpperFits, ClampKeeps
<1>6. InPair(x - y) => IntOf(LaneOf(ClampSigned(q))) = q
  <2> SUFFICES ASSUME InPair(x - y) PROVE IntOf(LaneOf(ClampSigned(q))) = q
    OBVIOUS
  <2> HIDE DEF q
  <2>1. InPair(q * Full + z)
    BY <1>4 DEF f
  <2> QED BY <1>3, <1>4, <2>1, UpperFits, ClampKeeps
<1>7. /\ InPair(x + y) => IntOf(LaneOf(ClampSigned(p))) * f + w = x + y
      /\ InPair(x - y) => IntOf(LaneOf(ClampSigned(q))) * f + z = x - y
  <2> HIDE DEF x, y, p, q
  <2> QED BY <1>4, <1>5, <1>6
<1> QED BY <1>7 DEF f, g, h, u, v, w, z

\* The registers of the two operands and of the result.
PairRegs == {0, 1, 2, 3, 4, 5}

\* VADD and VSUB take the carry that the lower halves left.
LEMMA SumsEnd ==
  ASSUME NEW m \in VuMachines, NEW k \in VuLanes, NEW op \in {"VADD", "VSUB"}, OnHigh(op) \in VuInstructions,
         PairRegs \subseteq VuRegs, NEW n, n = Compute("scalar", m, OnHigh(op)), op = "VADD" => LowAdded(m, k), op = "VSUB" => LowTaken(m, k)
  PROVE  LET x == PairIn(n, 0, 1, k)
             y == PairIn(n, 2, 3, k)
         IN /\ op = "VADD" /\ InPair(x + y) => PairIn(n, 4, 5, k) = x + y
            /\ op = "VSUB" /\ InPair(x - y) => PairIn(n, 4, 5, k) = x - y
<1> DEFINE i == OnHigh(op)
<1>1. i.op = op /\ i.op \notin SingleOps /\ i.e = 0 /\ i.d = 4 /\ i.s = 0 /\ i.t = 2
  BY DEF OnHigh, SingleOps
<1> HIDE DEF i
<1>2. PICK c \in LaneStates : LaneDone(m, i, n, k, c)
  BY <1>1, LaneStep DEF i
<1> DEFINE a == m.v[0][k]  b == m.v[1][k]  g == m.v[2][k]  d == m.v[3][k]  r == ScalarLane(i, c)
<1>3. a \in LaneValue /\ b \in LaneValue /\ g \in LaneValue /\ d \in LaneValue
  BY RegisterLane DEF PairRegs
<1>4. /\ c.s = a /\ c.t = g /\ c.ol = m.lane[k].ol /\ n.v[4][k] = r.d
      /\ n.v[0][k] = a /\ n.v[1][k] = b /\ n.v[2][k] = g /\ n.v[3][k] = d /\ n.v[5][k] = m.v[5][k]
  BY <1>1, <1>2 DEF LaneDone, PairRegs
<1> HIDE DEF a, b, g, d
<1>5. op = "VADD" => r = AddLane(c, IntOf(a) + IntOf(g) + VuCarry(c))
  BY <1>1, <1>4, PairLanes
<1>6. op = "VSUB" => r = AddLane(c, IntOf(a) - IntOf(g) - VuCarry(c))
  BY <1>1, <1>4, PairLanes
<1> HIDE DEF r
<1>7. \A v : AddLane(c, v).d = LaneOf(ClampSigned(v))
  BY DEF AddLane, NoCarry, LaneStates
<1>8. CASE op = "VADD"
  <2>1. VuCarry(c) = (IF b + d >= Full THEN 1 ELSE 0) /\ n.v[5][k] = LaneOf(b + d)
    BY <1>4, <1>8 DEF LowAdded, VuCarry, b, d
  <2>2. n.v[4][k] = LaneOf(ClampSigned(IntOf(a) + IntOf(g) + IF b + d >= Full THEN 1 ELSE 0))
    BY <1>4, <1>5, <1>7, <1>8, <2>1
  <2>3. LET x == IntOf(a) * Full + b
            y == IntOf(g) * Full + d
        IN InPair(x + y) => IntOf(n.v[4][k]) * Full + n.v[5][k] = x + y
    BY <1>3, <2>1, <2>2, WholeSums
  <2> QED BY <1>4, <1>8, <2>3 DEF PairIn
<1>9. CASE op = "VSUB"
  <2>1. VuCarry(c) = (IF b < d THEN 1 ELSE 0) /\ n.v[5][k] = LaneOf(b - d)
    BY <1>4, <1>9 DEF LowTaken, VuCarry, b, d
  <2>2. n.v[4][k] = LaneOf(ClampSigned(IntOf(a) - IntOf(g) - IF b < d THEN 1 ELSE 0))
    BY <1>4, <1>6, <1>7, <1>9, <2>1
  <2>3. LET x == IntOf(a) * Full + b
            y == IntOf(g) * Full + d
        IN InPair(x - y) => IntOf(n.v[4][k]) * Full + n.v[5][k] = x - y
    BY <1>3, <2>1, <2>2, WholeSums
  <2> QED BY <1>4, <1>9, <2>3 DEF PairIn
<1> QED BY <1>8, <1>9

\* The comparisons take what the lower halves' difference left.
LEMMA ComparesEnd ==
  ASSUME NEW m \in VuMachines, NEW k \in VuLanes, NEW op \in CompareOps, OnHigh(op) \in VuInstructions,
         PairRegs \subseteq VuRegs, NEW n, n = Compute("scalar", m, OnHigh(op)), LowTaken(m, k)
  PROVE  LET x == PairIn(n, 0, 1, k)
             y == PairIn(n, 2, 3, k)
         IN /\ op = "VLT" => (n.lane[k].cl <=> x < y)
            /\ op = "VGE" => (n.lane[k].cl <=> x >= y)
            /\ op = "VEQ" => (n.lane[k].cl <=> x = y)
            /\ op = "VNE" => (n.lane[k].cl <=> x # y)
<1> DEFINE i == OnHigh(op)
<1>1. i.op = op /\ i.op \notin SingleOps /\ i.e = 0 /\ i.d = 4 /\ i.s = 0 /\ i.t = 2
  BY DEF OnHigh, SingleOps, CompareOps
<1> HIDE DEF i
<1>2. PICK c \in LaneStates : LaneDone(m, i, n, k, c)
  BY <1>1, LaneStep DEF i
<1> DEFINE a == m.v[0][k]  b == m.v[1][k]  g == m.v[2][k]  d == m.v[3][k]  r == ScalarLane(i, c)
<1>3. a \in LaneValue /\ b \in LaneValue /\ g \in LaneValue /\ d \in LaneValue
  BY RegisterLane DEF PairRegs
<1>4. /\ c.s = a /\ c.t = g /\ c.ol = m.lane[k].ol /\ c.oh = m.lane[k].oh
      /\ n.lane[k] = [r EXCEPT !.s = 0, !.t = 0, !.d = 0]
      /\ n.v[0][k] = a /\ n.v[1][k] = b /\ n.v[2][k] = g /\ n.v[3][k] = d
  BY <1>1, <1>2 DEF LaneDone, PairRegs
<1> HIDE DEF a, b, g, d
<1>5. r = CompareLane(op, c)
  BY <1>1, PairLanes
<1>6. r \in LaneStates
  BY ScalarType
<1> HIDE DEF r
<1>7. n.lane[k].cl = r.cl
  BY <1>4, <1>6 DEF LaneStates
<1>8. r.cl = CompareHolds(op, c)
  <2> DEFINE h == CompareHolds(op, c)  z == IF h THEN c.s ELSE c.t
  <2>1. CompareLane(op, c) = NoCarry([Both(c, z) EXCEPT !.cl = h, !.ch = FALSE])
    BY DEF CompareLane
  <2> HIDE DEF h, z
  <2>2. CompareLane(op, c).cl = h
    BY <2>1 DEF NoCarry, Both, LaneStates
  <2> QED BY <1>5, <2>2 DEF h
<1>9. (c.ol <=> b < d) /\ (c.oh <=> b # d)
  BY <1>4 DEF LowTaken, b, d
<1> DEFINE p == IntOf(a)  q == IntOf(g)
<1>10. p \in Int /\ q \in Int
  BY <1>3, IntOfIs
<1>11. CompareHolds(op, c) <=> CASE op = "VLT" -> p < q \/ (p = q /\ c.ol /\ c.oh)
                                 [] op = "VEQ" -> p = q /\ ~c.oh
                                 [] op = "VNE" -> p # q \/ c.oh
                                 [] OTHER -> p > q \/ (p = q /\ (~c.ol \/ ~c.oh))
  BY <1>4 DEF CompareHolds
<1> HIDE DEF p, q
<1>12. b \in Int /\ d \in Int
  BY <1>3, LaneSizes
<1>13. /\ p * Full + b < q * Full + d <=> p < q \/ (p = q /\ b < d)
       /\ p * Full + b = q * Full + d <=> p = q /\ b = d
  BY <1>3, <1>10, PairOrder
<1> DEFINE x == p * Full + b  y == q * Full + d
<1>14. x \in Int /\ y \in Int
  BY <1>10, <1>12, LaneSizes
<1>15. PairIn(n, 0, 1, k) = x /\ PairIn(n, 2, 3, k) = y
  BY <1>4 DEF PairIn, p, q
<1>16. (x < y <=> p < q \/ (p = q /\ b < d)) /\ (x = y <=> p = q /\ b = d)
  BY <1>13
<1> HIDE DEF x, y
<1>17. op \in {"VLT", "VEQ", "VNE", "VGE"}
  BY DEF CompareOps
<1>18. n.lane[k].cl <=> CompareHolds(op, c)
  BY <1>7, <1>8
<1>19. op = "VLT" => (CompareHolds(op, c) <=> p < q \/ (p = q /\ b < d))
  BY <1>9, <1>11, <1>12
<1>20. op = "VGE" => (CompareHolds(op, c) <=> p > q \/ (p = q /\ ~(b < d)))
  BY <1>9, <1>11, <1>12
<1>21. op = "VEQ" => (CompareHolds(op, c) <=> p = q /\ b = d)
  BY <1>9, <1>11
<1>22. op = "VNE" => (CompareHolds(op, c) <=> ~(p = q /\ b = d))
  BY <1>9, <1>11
<1>23. op = "VLT" => (n.lane[k].cl <=> x < y)
  BY <1>16, <1>18, <1>19
<1>24. op = "VGE" => (n.lane[k].cl <=> x >= y)
  BY <1>10, <1>12, <1>14, <1>16, <1>18, <1>20
<1>25. op = "VEQ" => (n.lane[k].cl <=> x = y)
  BY <1>16, <1>18, <1>21
<1>26. op = "VNE" => (n.lane[k].cl <=> x # y)
  BY <1>16, <1>18, <1>22
<1> QED BY <1>15, <1>23, <1>24, <1>25, <1>26

\* What VCH leaves of the upper halves, p and q, if q is not negative: by which sign the
\* number is clipped, whether the upper halves decide, and their answer.
ClipFlags(l, p, q) ==
    q >= 0 =>
      /\ p < 0 => l.ol /\ ~l.ch /\ (l.cl <=> p + q <= 0) /\ (l.oh <=> p + q \notin {-1, 0}) /\ (l.e <=> p + q = -1)
      /\ p >= 0 => ~l.ol /\ ~l.cl /\ (l.ch <=> p >= q) /\ (l.oh <=> p # q)
ClipBegun(m, k) == ClipFlags(m.lane[k], IntOf(m.v[0][k]), IntOf(m.v[2][k]))

\* VCH of one lane.
LEMMA ChFlags ==
  ASSUME NEW c \in LaneStates
  PROVE  ClipFlags(ChLane(c), IntOf(c.s), IntOf(c.t))
<1> DEFINE p == IntOf(c.s)  q == IntOf(c.t)  f == Full  h == Half
<1>1. f = 2 * h /\ h \in Nat /\ h >= 2 /\ c.s \in 0 .. f - 1 /\ c.t \in 0 .. f - 1 /\ Ones = f - 1
  BY LaneSizes, LaneFields
<1>2. /\ p \in Int /\ -h <= p /\ p < h /\ q \in Int /\ -h <= q /\ q < h
      /\ (c.s >= h => p = c.s - f) /\ (c.s < h => p = c.s)
      /\ (c.t >= h => q = c.t - f) /\ (c.t < h => q = c.t)
  BY LaneFields, IntOfIs
<1> SUFFICES ASSUME q >= 0
             PROVE  LET l == ChLane(c)
                    IN /\ p < 0 => l.ol /\ ~l.ch /\ (l.cl <=> p + q <= 0) /\ (l.oh <=> p + q \notin {-1, 0}) /\ (l.e <=> p + q = -1)
                       /\ p >= 0 => ~l.ol /\ ~l.cl /\ (l.ch <=> p >= q) /\ (l.oh <=> p # q)
  BY DEF ClipFlags
<1> DEFINE differ == (p < 0) # (q < 0)
           x == IF differ THEN p + q ELSE p - q
           result == IntOf(LaneOf(x))
           z == CASE differ /\ result <= 0 -> -q [] ~differ /\ result >= 0 -> q [] OTHER -> p
           cl == IF differ THEN result <= 0 ELSE q < 0
           ch == IF differ THEN q < 0 ELSE result >= 0
           oh == result # 0 /\ c.s # Inverted(c.t)
           e == differ /\ result = -1
<1>3. ChLane(c) = [Both(c, z) EXCEPT !.cl = cl, !.ch = ch, !.ol = differ, !.oh = oh, !.e = e]
  BY DEF ChLane
<1> HIDE DEF p, q, f, h
<1>4. x \in Int /\ -h <= x /\ x < h /\ (differ <=> p < 0)
  BY <1>1, <1>2
<1>5. result = x
  <2> HIDE DEF x
  <2> QED BY <1>4, IntOfLane DEF h
<1>6. c.s # Inverted(c.t) <=> c.s + c.t # f - 1
  BY <1>1 DEF Inverted
<1> HIDE DEF result, differ
<1>7. p < 0 => result = p + q /\ (oh <=> p + q \notin {-1, 0})
  BY <1>1, <1>2, <1>4, <1>5, <1>6
<1>8. p >= 0 => result = p - q /\ (oh <=> p # q)
  BY <1>1, <1>2, <1>4, <1>5, <1>6
<1>9. p < 0 => differ /\ ~ch /\ (cl <=> p + q <= 0) /\ (e <=> p + q = -1)
  BY <1>1, <1>2, <1>4, <1>7
<1>10. p >= 0 => ~differ /\ ~cl /\ (ch <=> p >= q)
  BY <1>1, <1>2, <1>4, <1>8
<1> HIDE DEF z, cl, ch, oh, e
<1>11. LET l == ChLane(c) IN l.cl = cl /\ l.ch = ch /\ l.ol = differ /\ l.oh = oh /\ l.e = e
  BY <1>3 DEF Both, LaneStates
<1> QED BY <1>2, <1>7, <1>8, <1>9, <1>10, <1>11

\* VCL of one lane: where the upper halves decide their answer stands.
LEMMA ClFlags ==
  ASSUME NEW c \in LaneStates
  PROVE  LET l == ClLane(c)
         IN /\ c.ol => l.ch = c.ch
                       /\ (l.cl <=> IF c.oh THEN c.cl
                                    ELSE IF c.e THEN c.s + c.t <= Full ELSE c.s + c.t = 0)
            /\ ~c.ol => l.cl = c.cl /\ (l.ch <=> IF c.oh THEN c.ch ELSE c.s >= c.t)
<1> DEFINE sum == c.s + c.t
           lower == IF c.oh THEN c.cl
                    ELSE IF c.e THEN LaneOf(sum) = 0 \/ sum < Full ELSE LaneOf(sum) = 0 /\ sum < Full
           upper == IF c.oh THEN c.ch ELSE c.s >= c.t
           u == IF lower THEN -c.t ELSE c.s
           w == IF upper THEN c.t ELSE c.s
           a == IF c.ol THEN [Both(c, u) EXCEPT !.cl = lower] ELSE [Both(c, w) EXCEPT !.ch = upper]
<1>1. ClLane(c) = [NoCarry(a) EXCEPT !.e = FALSE]
  BY DEF ClLane
<1>2. Full \in Nat \ {0} /\ c.s \in 0 .. Full - 1 /\ c.t \in 0 .. Full - 1 /\ sum \in Int /\ sum <= 2 * Full - 2 /\ sum >= 0
  BY LaneSizes, LaneFields
<1> HIDE DEF sum
<1>3. (sum < Full => LaneOf(sum) = sum) /\ (sum >= Full => LaneOf(sum) = sum - Full)
  <2>1. ASSUME sum < Full PROVE LaneOf(sum) = sum
    <3>1. sum \in LaneValue
      BY <1>2, <2>1, LaneSizes
    <3> QED BY <3>1, LaneOfIs
  <2>2. ASSUME sum >= Full PROVE LaneOf(sum) = sum - Full
    <3>1. sum \in Full .. 2 * Full - 1
      BY <1>2, <2>2
    <3> QED BY <1>2, <3>1, LaneOfIs
  <2> QED BY <2>1, <2>2
<1>4. lower <=> IF c.oh THEN c.cl ELSE IF c.e THEN sum <= Full ELSE sum = 0
  BY <1>2, <1>3
<1> HIDE DEF lower, upper, u, w
<1>5. c.ol => a.cl = lower /\ a.ch = c.ch
  BY DEF Both, LaneStates
<1>6. ~c.ol => a.cl = c.cl /\ a.ch = upper
  BY DEF Both, LaneStates
<1>7. DOMAIN a = DOMAIN c
  BY DEF Both, LaneStates
<1> HIDE DEF a
<1>8. ClLane(c).cl = a.cl /\ ClLane(c).ch = a.ch
  BY <1>1, <1>7 DEF NoCarry, LaneStates
<1>9. upper = IF c.oh THEN c.ch ELSE c.s >= c.t
  BY DEF upper
<1>10. c.ol \in BOOLEAN
  BY LaneFields
<1> QED BY <1>4, <1>5, <1>6, <1>8, <1>9, <1>10 DEF sum

\* VCH.
LEMMA ClipBegins ==
  ASSUME NEW m \in VuMachines, NEW k \in VuLanes, OnHigh("VCH") \in VuInstructions
  PROVE  ClipBegun(Compute("scalar", m, OnHigh("VCH")), k)
<1> DEFINE i == OnHigh("VCH")  n == Compute("scalar", m, i)
<1>1. i.op = "VCH" /\ i.op \notin SingleOps /\ i.e = 0 /\ i.d = 4 /\ i.s = 0 /\ i.t = 2 /\ {0, 2, 4} \subseteq VuRegs
  BY PairRegisters DEF OnHigh, SingleOps
<1>h. n = Compute("scalar", m, i) /\ i \in VuInstructions
  OBVIOUS
<1> HIDE DEF i, n
<1>2. PICK c \in LaneStates : LaneDone(m, i, n, k, c)
  BY <1>1, <1>h, LaneStep
<1> DEFINE r == ScalarLane(i, c)
<1>3. n.v[0][k] = c.s /\ n.v[2][k] = c.t /\ n.lane[k] = [r EXCEPT !.s = 0, !.t = 0, !.d = 0]
  BY <1>1, <1>2 DEF LaneDone
<1>4. r = ChLane(c) /\ r \in LaneStates
  BY <1>1, PairLanes, ScalarType
<1> HIDE DEF r
<1>5. LET l == n.lane[k] IN l.cl = r.cl /\ l.ch = r.ch /\ l.ol = r.ol /\ l.oh = r.oh /\ l.e = r.e
  BY <1>3, <1>4 DEF LaneStates
<1>6. ClipFlags(r, IntOf(c.s), IntOf(c.t))
  BY <1>4, ChFlags
<1>7. ClipFlags(n.lane[k], IntOf(c.s), IntOf(c.t))
  BY <1>5, <1>6 DEF ClipFlags
<1> QED BY <1>3, <1>7 DEF ClipBegun, n, i

\* VCL completes what VCH began on the upper halves.
LEMMA ClipEnds ==
  ASSUME NEW m \in VuMachines, NEW k \in VuLanes, OnLow("VCL") \in VuInstructions,
         PairRegs \subseteq VuRegs, NEW n, n = Compute("scalar", m, OnLow("VCL")), ClipBegun(m, k)
  PROVE  LET x == PairIn(n, 0, 1, k)
             y == PairIn(n, 2, 3, k)
         IN y >= 0 => (n.lane[k].ch <=> x >= y) /\ (n.lane[k].cl <=> x < 0 /\ x <= -y)
<1> DEFINE i == OnLow("VCL")
<1>1. i.op = "VCL" /\ i.op \notin SingleOps /\ i.e = 0 /\ i.d = 5 /\ i.s = 1 /\ i.t = 3
  BY DEF OnLow, SingleOps
<1> HIDE DEF i
<1>2. PICK c \in LaneStates : LaneDone(m, i, n, k, c)
  BY <1>1, LaneStep DEF i
<1> DEFINE a == m.v[0][k]  b == m.v[1][k]  g == m.v[2][k]  d == m.v[3][k]  r == ScalarLane(i, c)
<1>3. a \in LaneValue /\ b \in LaneValue /\ g \in LaneValue /\ d \in LaneValue
  BY RegisterLane DEF PairRegs
<1>4. /\ c.s = b /\ c.t = d
      /\ n.lane[k] = [r EXCEPT !.s = 0, !.t = 0, !.d = 0]
      /\ n.v[0][k] = a /\ n.v[1][k] = b /\ n.v[2][k] = g /\ n.v[3][k] = d
  BY <1>1, <1>2 DEF LaneDone, PairRegs
<1>5. c.cl = m.lane[k].cl /\ c.ch = m.lane[k].ch /\ c.ol = m.lane[k].ol /\ c.oh = m.lane[k].oh /\ c.e = m.lane[k].e
  BY <1>2 DEF LaneDone
<1>6. r = ClLane(c) /\ r \in LaneStates
  BY <1>1, PairLanes, ScalarType
<1> DEFINE p == IntOf(a)  q == IntOf(g)
<1>7. ClipFlags(c, p, q)
  BY <1>5 DEF ClipBegun, ClipFlags
<1> HIDE DEF a, b, g, d, r
<1>8. n.lane[k].cl = r.cl /\ n.lane[k].ch = r.ch
  BY <1>4, <1>6 DEF LaneStates
<1>9. p \in Int /\ q \in Int /\ Full \in Nat \ {0} /\ b \in 0 .. Full - 1 /\ d \in 0 .. Full - 1
  BY <1>3, IntOfIs, LaneSizes
<1> HIDE DEF p, q
<1> DEFINE x == p * Full + b  y == q * Full + d
<1>10. PairIn(n, 0, 1, k) = x /\ PairIn(n, 2, 3, k) = y /\ x \in Int /\ y \in Int
  BY <1>4, <1>9 DEF PairIn, p, q
<1>11. (x < y <=> p < q \/ (p = q /\ b < d)) /\ (x < 0 <=> p < 0) /\ (y < 0 <=> q < 0)
  <2>1. x < y <=> p < q \/ (p = q /\ b < d)
    BY <1>3, <1>9, PairOrder
  <2>2. \A s \in Int, t \in LaneValue : s * Full + t < 0 * Full + 0 <=> s < 0 \/ (s = 0 /\ t < 0)
    BY PairOrder, ZeroLane
  <2>3. 0 * Full + 0 = 0 /\ \A t \in LaneValue : ~(t < 0)
    BY LaneSizes
  <2> QED BY <1>3, <1>9, <2>1, <2>2, <2>3
<1> DEFINE f == Full  w == (p + q) * f
<1>12. x + y = w + (b + d) /\ w \in Int
  <2>1. w = p * f + q * f /\ p * f \in Int /\ q * f \in Int
    BY <1>9
  <2> DEFINE pf == p * f  qf == q * f
  <2>2. w = pf + qf /\ pf \in Int /\ qf \in Int /\ x = pf + b /\ y = qf + d
    BY <2>1
  <2> HIDE DEF w, pf, qf, x, y
  <2> QED BY <1>9, <2>2
<1>13. (p + q >= 1 => w >= f) /\ (p + q = 0 => w = 0) /\ (p + q = -1 => w = -f) /\ (p + q <= -2 => w <= (-2) * f)
  <2> DEFINE s == p + q
  <2>1. s \in Int /\ f \in Nat
    BY <1>9
  <2> HIDE DEF s, f
  <2>2. (s >= 1 => s * f >= f) /\ (s <= -2 => s * f <= (-2) * f)
    BY <2>1
  <2>3. (s = 0 => s * f = 0) /\ (s = -1 => s * f = -f)
    BY <2>1
  <2> QED BY <2>2, <2>3 DEF s
<1> HIDE DEF x, y, w
<1>14. p < 0 => (x <= -y <=> p + q <= -2 \/ (p + q = -1 /\ b + d <= f) \/ (p + q = 0 /\ b + d = 0))
  BY <1>9, <1>10, <1>12, <1>13
<1> HIDE DEF f
<1>15. SUFFICES ASSUME q >= 0
                PROVE  (r.ch <=> x >= y) /\ (r.cl <=> x < 0 /\ x <= -y)
  BY <1>8, <1>9, <1>10, <1>11
<1>16. CASE p < 0
  <2>1. c.ol /\ ~c.ch /\ (c.cl <=> p + q <= 0) /\ (c.oh <=> p + q \notin {-1, 0}) /\ (c.e <=> p + q = -1)
    BY <1>7, <1>15, <1>16 DEF ClipFlags
  <2>2. r.ch = c.ch /\ (r.cl <=> IF c.oh THEN c.cl ELSE IF c.e THEN b + d <= f ELSE b + d = 0)
    BY <1>4, <1>6, <2>1, ClFlags DEF f
  <2>3. r.cl <=> x <= -y
    BY <1>9, <1>14, <1>16, <2>1, <2>2
  <2>4. x < y
    BY <1>9, <1>11, <1>15, <1>16
  <2> QED BY <1>10, <1>11, <1>16, <2>1, <2>2, <2>3, <2>4
<1>17. CASE p >= 0
  <2>1. ~c.ol /\ ~c.cl /\ (c.ch <=> p >= q) /\ (c.oh <=> p # q)
    BY <1>7, <1>15, <1>17 DEF ClipFlags
  <2>2. r.cl = c.cl /\ (r.ch <=> IF c.oh THEN c.ch ELSE b >= d)
    BY <1>4, <1>6, <2>1, ClFlags
  <2>3. r.ch <=> ~(x < y)
    BY <1>9, <1>11, <2>1, <2>2
  <2> QED BY <1>9, <1>10, <1>11, <1>17, <2>1, <2>2, <2>3
<1> QED BY <1>9, <1>16, <1>17

\* A number of three lanes comes back from the accumulator.
LEMMA AccOf ==
  ASSUME NEW c \in LaneStates, NEW n \in Int, -(Half * Full) * Full <= n, n < (Half * Full) * Full
  PROVE  Acc(SetAcc(c, n)) = n
<1> DEFINE f == Full  z == n % f  q == n \div f  y == q % f  x == q \div f
<1>1. f \in Nat \ {0} /\ LaneValue = 0 .. f - 1 /\ Half \in Int
  BY LaneSizes
<1> HIDE DEF f
<1>2. z \in LaneValue /\ \E j \in Int : q = j /\ n = j * f + z
  BY <1>1, DividedBy, Zenon
<1>3. q \in Int /\ n = q * f + z
  BY <1>2
<1> HIDE DEF q, z
<1>4. y \in LaneValue /\ \E j \in Int : x = j /\ q = j * f + y
  BY <1>1, <1>3, DividedBy, Zenon
<1>5. x \in Int /\ q = x * f + y
  BY <1>4
<1> HIDE DEF x, y
<1>6. n = (x * Full + y) * Full + z
  BY <1>3, <1>5 DEF f
<1>7. SetAcc(c, n) = WithAcc(c, LaneOf(x), y, z)
  BY <1>2, <1>4, <1>5, <1>6, SetAccIs
<1> DEFINE hf == Half * Full
<1>8. hf \in Int /\ -hf = (-Half) * Full /\ 0 \in LaneValue
  BY <1>1, LaneSizes, ZeroLane
<1>9. q < hf
  <2>1. q * Full + z < hf * Full + 0
    <3> HIDE DEF hf
    <3>1. hf * Full \in Int /\ q * Full \in Int /\ z \in Int
      BY <1>1, <1>2, <1>3, <1>8, LaneSizes
    <3>2. n < hf * Full
      BY DEF hf
    <3> QED BY <1>3, <3>1, <3>2 DEF f
  <2> HIDE DEF hf
  <2>2. q < hf \/ (q = hf /\ z < 0)
    BY <1>2, <1>3, <1>8, <2>1, PairOrder
  <2> QED BY <1>1, <1>2, <2>2
<1>10. ~(q < -hf)
  <2>1. ~(q * Full + z < (-hf) * Full + 0)
    <3> HIDE DEF hf
    <3>1. (-hf) * Full \in Int /\ q * Full \in Int /\ z \in Int
      BY <1>1, <1>2, <1>3, <1>8, LaneSizes
    <3>2. (-hf) * Full = -(hf * Full)
      BY <1>1, <1>8 DEF f
    <3>3. (-hf) * Full <= n
      BY <3>2 DEF hf
    <3> QED BY <1>3, <3>1, <3>3 DEF f
  <2> HIDE DEF hf
  <2> QED BY <1>2, <1>3, <1>8, <2>1, PairOrder
<1>11. x < Half
  <2>1. x * Full + y < Half * Full + 0
    BY <1>5, <1>8, <1>9 DEF f
  <2>2. x < Half \/ (x = Half /\ y < 0)
    BY <1>1, <1>4, <1>5, <1>8, <2>1, PairOrder
  <2> QED BY <1>1, <1>4, <2>2
<1>12. ~(x < -Half)
  <2>1. ~(x * Full + y < (-Half) * Full + 0)
    BY <1>5, <1>8, <1>10 DEF f
  <2>2. -Half \in Int
    BY <1>1
  <2> QED BY <1>4, <1>5, <1>8, <2>1, <2>2, PairOrder
<1>13. IntOf(LaneOf(x)) = x
  BY <1>1, <1>5, <1>11, <1>12, IntOfLane
<1>14. Acc(WithAcc(c, LaneOf(x), y, z)) = (IntOf(LaneOf(x)) * Full + y) * Full + z
  BY DEF Acc, WithAcc, LaneStates
<1> QED BY <1>6, <1>7, <1>13, <1>14

\* What a multiplication leaves in the accumulator, as long as it has a place there.
LEMMA MultiplyAcc ==
  ASSUME NEW c \in LaneStates, NEW op, NEW n \in Int, n = BaseOf(op, c) + ProductOf(op, c),
         -(Half * Full) * Full <= n, n < (Half * Full) * Full
  PROVE  Acc(Multiply(op, c)) = n
<1> DEFINE a == SetAcc(c, BaseOf(op, c) + ProductOf(op, c))
           d == CASE op \in {"VMULU", "VMACU"} -> ClampUnsigned(Acc(a) \div Full)
                  [] op \in LowOps -> ClampAccLow(a)
                  [] OTHER -> LaneOf(ClampSigned(Acc(a) \div Full))
<1>1. Multiply(op, c) = [a EXCEPT !.d = d]
  BY Zenon DEF Multiply, ProductOf, BaseOf
<1>2. a = SetAcc(c, n)
  OBVIOUS
<1> HIDE DEF a, d
<1>3. Acc(a) = n /\ a \in LaneStates
  BY <1>2, AccOf, SetAccType
<1>4. Acc([a EXCEPT !.d = d]) = Acc(a)
  BY <1>3 DEF Acc, LaneStates
<1> QED BY <1>1, <1>3, <1>4

\* The bounds of the terms that the four multiplications add.
LEMMA TermBounds ==
  ASSUME NEW p \in Int, NEW q \in Int, -Half <= p, p < Half, -Half <= q, q < Half, NEW b \in LaneValue, NEW d \in LaneValue
  PROVE  LET low == (b * d) \div Full
             big == (Half * Full) * Full
         IN /\ low \in Int /\ p * d \in Int /\ b * q \in Int /\ p * q * Full \in Int /\ big \in Int
            /\ -big <= low /\ low < big
            /\ -big <= low + p * d /\ low + p * d < big
            /\ -big <= low + p * d + b * q /\ low + p * d + b * q < big
            /\ -big <= low + p * d + b * q + p * q * Full /\ low + p * d + b * q + p * q * Full < big
<1> DEFINE f == Full  h == Half  low == (b * d) \div f  u == p * d  v == b * q  w == p * q * f
           hf == h * f  big == hf * f  hhf == h * hf
<1>1. f \in Nat \ {0} /\ h \in Nat /\ h >= 2 /\ f = 2 * h /\ b \in 0 .. f - 1 /\ d \in 0 .. f - 1 /\ b \in Nat /\ d \in Nat
  BY LaneSizes
<1>2. low \in 0 .. f - 1
  <2>1. MulHigh(b, d) \in LaneValue /\ LaneValue = 0 .. Full - 1
    BY UnsignedProduct, LaneSizes
  <2> QED BY <2>1 DEF MulHigh
<1> HIDE DEF f, h, low
<1>3. -h <= p /\ p <= h - 1 /\ -h <= q /\ q <= h - 1
  BY <1>1 DEF h
<1>4. hf \in Int /\ hf >= 2 * f /\ hhf \in Int /\ hhf >= 2 * hf /\ big = 2 * hhf /\ big \in Int
  <2>1. hf \in Int /\ hf >= 2 * f
    BY <1>1
  <2> DEFINE g == hf
  <2>2. g \in Int /\ g >= 0
    BY <1>1, <2>1
  <2> HIDE DEF g
  <2>3. h * g \in Int /\ h * g >= 2 * g /\ g * f = 2 * (h * g)
    BY <1>1, <2>2
  <2> QED BY <2>1, <2>3 DEF g
<1>5. ASSUME NEW i \in Int, NEW e \in Nat, -h <= i, i <= h - 1, e <= f
      PROVE  i * e \in Int /\ -hf <= i * e /\ i * e <= hf - f
  <2>1. i * e \in Int
    BY <1>5
  <2>2. i * e <= (h - 1) * f
    <3>1. i * e <= (h - 1) * e
      BY <1>1, <1>5
    <3>2. (h - 1) * e <= (h - 1) * f
      BY <1>1, <1>5
    <3>3. (h - 1) * e \in Int /\ (h - 1) * f \in Int
      BY <1>1, <1>5
    <3> QED BY <2>1, <3>1, <3>2, <3>3
  <2>3. -(h * f) <= i * e
    <3>1. (-h) * e <= i * e
      BY <1>1, <1>5
    <3>2. h * e <= h * f /\ (-h) * e = -(h * e) /\ h * e \in Int /\ h * f \in Int
      BY <1>1, <1>5
    <3> QED BY <2>1, <3>1, <3>2
  <2>4. (h - 1) * f = hf - f
    BY <1>1
  <2> QED BY <2>1, <2>2, <2>3, <2>4
<1>6. u \in Int /\ -hf <= u /\ u <= hf - f /\ v \in Int /\ -hf <= v /\ v <= hf - f
  <2>1. p * d \in Int /\ -hf <= p * d /\ p * d <= hf - f
    BY <1>1, <1>3, <1>5
  <2>2. q * b \in Int /\ -hf <= q * b /\ q * b <= hf - f
    BY <1>1, <1>3, <1>5
  <2>3. b * q = q * b
    BY <1>1
  <2> QED BY <2>1, <2>2, <2>3
<1>7. w \in Int /\ -hhf <= w /\ w <= hhf
  <2> DEFINE g == p * q  hh == h * h
  <2>1. g \in Int /\ hh \in Int /\ -hh <= g /\ g <= hh
    <3>1. g \in Int /\ hh \in Int
      BY <1>1
    <3> DEFINE s == IF p < 0 THEN -p ELSE p  t == IF q < 0 THEN -q ELSE q
    <3>2. s \in Nat /\ t \in Nat /\ s <= h /\ t <= h /\ (p = s \/ p = -s) /\ (q = t \/ q = -t)
      BY <1>1, <1>3
    <3> HIDE DEF s, t
    <3>3. s * t \in Nat /\ s * t <= h * h
      BY <1>1, <3>2, Monotone
    <3>4. g = s * t \/ g = -(s * t)
      BY <3>2
    <3> QED BY <3>1, <3>3, <3>4
  <2>2. hhf = hh * f /\ w = g * f
    BY <1>1
  <2> HIDE DEF g, hh
  <2>3. g * f \in Int /\ hh * f \in Int /\ -(hh * f) <= g * f /\ g * f <= hh * f
    BY <1>1, <2>1
  <2> QED BY <2>2, <2>3
<1> HIDE DEF u, v, w, hf, big, hhf
<1>8. /\ -big <= low /\ low < big
      /\ -big <= low + u /\ low + u < big
      /\ -big <= low + u + v /\ low + u + v < big
      /\ low \in Int
  BY <1>1, <1>2, <1>4, <1>6
<1>9. -big <= low + u + v + w
  BY <1>1, <1>2, <1>4, <1>6, <1>7
<1>10. low + u + v + w < big
  BY <1>1, <1>2, <1>4, <1>6, <1>7
<1> QED BY <1>4, <1>6, <1>7, <1>8, <1>9, <1>10 DEF u, v, w, hf, big, f, h, low

\* The product of two numbers of two lanes, without its lowest lane, out of four products of lanes.
LEMMA WholeProduct ==
  ASSUME NEW p \in Int, NEW q \in Int, NEW b \in LaneValue, NEW d \in LaneValue
  PROVE  ((p * Full + b) * (q * Full + d)) \div Full = ((b * d) \div Full) + p * d + b * q + p * q * Full
<1> DEFINE f == Full  x == p * f + b  y == q * f + d  bd == b * d  u == p * d  v == b * q  w == p * q * f  k == u + v + w
<1>1. f \in Nat \ {0} /\ b \in Int /\ d \in Int
  BY LaneSizes
<1> HIDE DEF f
<1>2. x * y = bd + k * f
  <2>1. x * y = (p * f) * (q * f) + (p * f) * d + b * (q * f) + b * d
    BY <1>1
  <2>2. (p * f) * (q * f) = w * f /\ (p * f) * d = u * f /\ b * (q * f) = v * f
    BY <1>1
  <2>3. u \in Int /\ v \in Int /\ w \in Int /\ bd \in Int
    BY <1>1
  <2> DEFINE z == x * y
  <2>h. z = w * f + u * f + v * f + bd
    BY <2>1, <2>2
  <2> HIDE DEF u, v, w, bd, z
  <2>4. (u + v + w) * f = u * f + v * f + w * f /\ u * f \in Int /\ v * f \in Int /\ w * f \in Int
    BY <1>1, <2>3
  <2>5. z = bd + (u + v + w) * f
    BY <2>3, <2>4, <2>h
  <2> QED BY <2>5 DEF z
<1>3. bd \in Int /\ u \in Int /\ v \in Int /\ w \in Int /\ k \in Int
  BY <1>1
<1> HIDE DEF x, y, bd, k
<1>4. (bd + k * f) \div f = (bd \div f) + k
  BY <1>1, <1>3, QuotientOfMultiple
<1>5. bd \div f \in Int
  BY <1>1, <1>3
<1>6. (x * y) \div f = (bd \div f) + k
  BY <1>2, <1>4
<1>7. k = u + v + w
  BY DEF k
<1> DEFINE low == bd \div f
<1>8. low \in Int /\ (x * y) \div f = low + k
  BY <1>5, <1>6
<1> HIDE DEF low, u, v, w
<1>9. (x * y) \div f = low + u + v + w
  BY <1>3, <1>7, <1>8
<1> QED BY <1>9 DEF x, y, f, low, bd, u, v, w

\* The accumulator after j of the four multiplications.
PartialSum(m, k, j) ==
    LET p == IntOf(m.v[0][k])
        b == m.v[1][k]
        q == IntOf(m.v[2][k])
        d == m.v[3][k]
        low == (b * d) \div Full
    IN CASE j = 1 -> low
         [] j = 2 -> low + p * d
         [] j = 3 -> low + p * d + b * q
         [] j = 4 -> low + p * d + b * q + p * q * Full
MultipliedBy(m, k, j) == Acc(m.lane[k]) = PartialSum(m, k, j)

\* Each of the four adds its product to what the ones before it left.
LEMMA MultipliesOn ==
  ASSUME NEW m \in VuMachines, NEW k \in VuLanes, NEW j \in 1 .. 4, MultiplyPairs[j] \in VuInstructions, PairRegs \subseteq VuRegs,
         j > 1 => MultipliedBy(m, k, j - 1), NEW n, n = Compute("scalar", m, MultiplyPairs[j])
  PROVE  MultipliedBy(n, k, j)
<1> DEFINE i == MultiplyPairs[j]
<1>1. /\ i.op \in {"VMUDL", "VMADM", "VMADN", "VMADH"} /\ i.op \notin SingleOps /\ i.e = 0 /\ i.d \in {4, 5} /\ i.op \in MultiplyOps
      /\ i.s = (IF j \in {1, 3} THEN 1 ELSE 0) /\ i.t = (IF j \in {1, 2} THEN 3 ELSE 2)
      /\ i.op = (CASE j = 1 -> "VMUDL" [] j = 2 -> "VMADM" [] j = 3 -> "VMADN" [] j = 4 -> "VMADH")
  BY DEF MultiplyPairs, OnLow, OnHigh, SingleOps, MultiplyOps, FractionOps, LowOps, AddingOps
<1> HIDE DEF i
<1>2. PICK c \in LaneStates : LaneDone(m, i, n, k, c)
  BY <1>1, LaneStep DEF i
<1> DEFINE a == m.v[0][k]  b == m.v[1][k]  g == m.v[2][k]  d == m.v[3][k]  r == ScalarLane(i, c)
<1>3. a \in LaneValue /\ b \in LaneValue /\ g \in LaneValue /\ d \in LaneValue
  BY RegisterLane DEF PairRegs
<1>4. /\ c.s = (IF j \in {1, 3} THEN b ELSE a) /\ c.t = (IF j \in {1, 2} THEN d ELSE g)
      /\ c.h = m.lane[k].h /\ c.m = m.lane[k].m /\ c.l = m.lane[k].l
      /\ n.lane[k] = [r EXCEPT !.s = 0, !.t = 0, !.d = 0]
      /\ n.v[0][k] = a /\ n.v[1][k] = b /\ n.v[2][k] = g /\ n.v[3][k] = d
  BY <1>1, <1>2 DEF LaneDone, PairRegs
<1>5. r = Multiply(i.op, c) /\ r \in LaneStates
  BY <1>1, PairLanes, ScalarType
<1> DEFINE p == IntOf(a)  q == IntOf(g)  low == (b * d) \div Full
<1>6. j > 1 => Acc(c) = (CASE j = 2 -> low [] j = 3 -> low + p * d [] j = 4 -> low + p * d + b * q)
  BY <1>4 DEF MultipliedBy, PartialSum, Acc
<1> HIDE DEF a, b, g, d, r
<1>7. Acc(n.lane[k]) = Acc(r)
  BY <1>4, <1>5 DEF Acc, LaneStates
<1>8. p \in Int /\ q \in Int /\ -Half <= p /\ p < Half /\ -Half <= q /\ q < Half
  BY <1>3, IntOfIs
<1> DEFINE big == (Half * Full) * Full
<1>9. /\ low \in Int /\ p * d \in Int /\ b * q \in Int /\ p * q * Full \in Int /\ big \in Int
      /\ -big <= low /\ low < big
      /\ -big <= low + p * d /\ low + p * d < big
      /\ -big <= low + p * d + b * q /\ low + p * d + b * q < big
      /\ -big <= low + p * d + b * q + p * q * Full /\ low + p * d + b * q + p * q * Full < big
  <2> HIDE DEF p, q
  <2> QED BY <1>3, <1>8, TermBounds
<1>10. BaseOf(i.op, c) = IF j = 1 THEN 0 ELSE Acc(c)
  BY <1>1 DEF BaseOf, AddingOps, FractionOps
<1>11. ProductOf(i.op, c) = CASE j = 1 -> low [] j = 2 -> p * d [] j = 3 -> b * q [] j = 4 -> p * q * Full
  <2>1. CASE j = 1
    <3>1. i.op = "VMUDL" /\ c.s = b /\ c.t = d
      BY <1>1, <1>4, <2>1
    <3> QED BY <2>1, <3>1 DEF ProductOf, FractionOps
  <2>2. CASE j = 2
    <3>1. i.op = "VMADM" /\ c.s = a /\ c.t = d
      BY <1>1, <1>4, <2>2
    <3> QED BY <2>2, <3>1 DEF ProductOf, FractionOps
  <2>3. CASE j = 3
    <3>1. i.op = "VMADN" /\ c.s = b /\ c.t = g
      BY <1>1, <1>4, <2>3
    <3> QED BY <2>3, <3>1 DEF ProductOf, FractionOps
  <2>4. CASE j = 4
    <3>1. i.op = "VMADH" /\ c.s = a /\ c.t = g
      BY <1>1, <1>4, <2>4
    <3> QED BY <2>4, <3>1 DEF ProductOf, FractionOps
  <2> QED BY <2>1, <2>2, <2>3, <2>4
<1> DEFINE u == p * d  v == b * q  w == p * q * Full
<1>12. /\ low \in Int /\ u \in Int /\ v \in Int /\ w \in Int /\ big \in Int
       /\ -big <= low /\ low < big /\ -big <= low + u /\ low + u < big
       /\ -big <= low + u + v /\ low + u + v < big /\ -big <= low + u + v + w /\ low + u + v + w < big
  BY <1>9
<1>13. BaseOf(i.op, c) + ProductOf(i.op, c) = CASE j = 1 -> 0 + low [] j = 2 -> low + u [] j = 3 -> (low + u) + v [] j = 4 -> (low + u + v) + w
  BY <1>6, <1>10, <1>11
<1>14. PartialSum(n, k, j) = CASE j = 1 -> low [] j = 2 -> low + u [] j = 3 -> low + u + v [] j = 4 -> low + u + v + w
  BY <1>4 DEF PartialSum
<1>h. big = (Half * Full) * Full
  OBVIOUS
<1> HIDE DEF low, u, v, w, big, p, q
<1> DEFINE s == BaseOf(i.op, c) + ProductOf(i.op, c)
<1>15. s = PartialSum(n, k, j) /\ s \in Int /\ -big <= s /\ s < big
  BY <1>12, <1>13, <1>14
<1>16. Acc(Multiply(i.op, c)) = s
  <2> DEFINE o == i.op
  <2>1. s = BaseOf(o, c) + ProductOf(o, c)
    OBVIOUS
  <2> HIDE DEF s, o
  <2>2. s \in Int /\ -((Half * Full) * Full) <= s /\ s < (Half * Full) * Full
    BY <1>15, <1>h
  <2>3. Acc(Multiply(o, c)) = s
    BY <2>1, <2>2, MultiplyAcc
  <2> QED BY <2>3 DEF o
<1> QED BY <1>5, <1>7, <1>15, <1>16 DEF MultipliedBy

\* After the fourth it is the product of the whole numbers.
LEMMA ProductEnds ==
  ASSUME NEW m \in VuMachines, NEW k \in VuLanes, PairRegs \subseteq VuRegs, MultipliedBy(m, k, 4)
  PROVE  Acc(m.lane[k]) = (PairIn(m, 0, 1, k) * PairIn(m, 2, 3, k)) \div Full
<1> DEFINE p == IntOf(m.v[0][k])  b == m.v[1][k]  q == IntOf(m.v[2][k])  d == m.v[3][k]
<1>1. p \in Int /\ q \in Int /\ b \in LaneValue /\ d \in LaneValue
  BY RegisterLane DEF PairRegs
<1>2. Acc(m.lane[k]) = ((b * d) \div Full) + p * d + b * q + p * q * Full
  BY DEF MultipliedBy, PartialSum
<1>3. PairIn(m, 0, 1, k) = p * Full + b /\ PairIn(m, 2, 3, k) = q * Full + d
  BY DEF PairIn
<1> HIDE DEF p, b, q, d
<1> QED BY <1>1, <1>2, <1>3, WholeProduct

\* What the program's steps so far have left in lane k for the ones to come, and what the
\* whole program leaves.
PairStages(program, pc, m, k) ==
  /\ program = <<OnLow("VADDC"), OnHigh("VADD")>> /\ pc = 1 => LowAdded(m, k)
  /\ \A op \in CompareOps \cup {"VSUB"} : program = <<OnLow("VSUBC"), OnHigh(op)>> /\ pc = 1 => LowTaken(m, k)
  /\ program = <<OnHigh("VCH"), OnLow("VCL")>> /\ pc = 1 => ClipBegun(m, k)
  /\ program = MultiplyPairs /\ pc \in 1 .. 4 => MultipliedBy(m, k, pc)
PairEnds(program, pc, m, k) ==
  LET x == PairIn(m, 0, 1, k)
      y == PairIn(m, 2, 3, k)
      result == PairIn(m, 4, 5, k)
      lane == m.lane[k]
  IN pc = Len(program) =>
       /\ program = <<OnLow("VADDC"), OnHigh("VADD")>> /\ InPair(x + y) => result = x + y
       /\ program = <<OnLow("VSUBC"), OnHigh("VSUB")>> /\ InPair(x - y) => result = x - y
       /\ program = <<OnLow("VSUBC"), OnHigh("VLT")>> => (lane.cl <=> x < y)
       /\ program = <<OnLow("VSUBC"), OnHigh("VGE")>> => (lane.cl <=> x >= y)
       /\ program = <<OnLow("VSUBC"), OnHigh("VEQ")>> => (lane.cl <=> x = y)
       /\ program = <<OnLow("VSUBC"), OnHigh("VNE")>> => (lane.cl <=> x # y)
       /\ program = MultiplyPairs => Acc(lane) = (x * y) \div Full
       /\ program = <<OnHigh("VCH"), OnLow("VCL")>> /\ y >= 0 => (lane.ch <=> x >= y) /\ (lane.cl <=> x < 0 /\ x <= -y)

\* A program that names both halves names the six registers.
LEMMA PairPrograms ==
  ASSUME NEW op, NEW low, OnLow(low) \in VuInstructions, OnHigh(op) \in VuInstructions
  PROVE  PairRegs \subseteq VuRegs
BY PairRegisters DEF PairRegs

\* One step of a sum of pairs.
LEMMA AddStep ==
  ASSUME NEW m \in VuMachines, NEW k \in VuLanes, NEW program \in Seq(VuInstructions), NEW pc \in Nat, pc < Len(program),
         program = <<OnLow("VADDC"), OnHigh("VADD")>>, PairStages(program, pc, m, k),
         NEW n, n = Compute("scalar", m, program[pc + 1])
  PROVE  /\ pc + 1 = 1 => LowAdded(n, k)
         /\ LET x == PairIn(n, 0, 1, k)
                y == PairIn(n, 2, 3, k)
            IN pc + 1 = 2 /\ InPair(x + y) => PairIn(n, 4, 5, k) = x + y
<1>1. OnLow("VADDC") \in VuInstructions /\ OnHigh("VADD") \in VuInstructions
  <2>1. program[1] \in VuInstructions /\ program[2] \in VuInstructions
    OBVIOUS
  <2> QED BY <2>1
<1>2. pc = 0 => LowAdded(n, k)
  <2>1. pc = 0 => n = Compute("scalar", m, OnLow("VADDC"))
    OBVIOUS
  <2> QED BY <1>1, <2>1, PairsBegin
<1>3. ASSUME pc = 1, InPair(PairIn(n, 0, 1, k) + PairIn(n, 2, 3, k))
      PROVE  PairIn(n, 4, 5, k) = PairIn(n, 0, 1, k) + PairIn(n, 2, 3, k)
  <2>1. n = Compute("scalar", m, OnHigh("VADD"))
    BY <1>3
  <2>2. LowAdded(m, k)
    BY <1>3 DEF PairStages
  <2>3. PairRegs \subseteq VuRegs
    BY <1>1, PairPrograms
  <2> DEFINE op == "VADD"
  <2>4. op \in {"VADD", "VSUB"} /\ op = "VADD" /\ op # "VSUB" /\ OnHigh(op) \in VuInstructions /\ n = Compute("scalar", m, OnHigh(op))
    BY <1>1, <2>1
  <2> HIDE DEF op
  <2> QED BY <1>3, <2>2, <2>3, <2>4, SumsEnd
<1> QED BY <1>2, <1>3

\* What the second instruction leaves after VSUBC.
TakeEnds(op, n, k) ==
  LET x == PairIn(n, 0, 1, k)
      y == PairIn(n, 2, 3, k)
  IN /\ op = "VSUB" /\ InPair(x - y) => PairIn(n, 4, 5, k) = x - y
     /\ op = "VLT" => (n.lane[k].cl <=> x < y)
     /\ op = "VGE" => (n.lane[k].cl <=> x >= y)
     /\ op = "VEQ" => (n.lane[k].cl <=> x = y)
     /\ op = "VNE" => (n.lane[k].cl <=> x # y)

\* One step of a difference or a comparison of pairs.
LEMMA TakeStep ==
  ASSUME NEW m \in VuMachines, NEW k \in VuLanes, NEW program \in Seq(VuInstructions), NEW pc \in Nat, pc < Len(program),
         NEW op \in CompareOps \cup {"VSUB"}, program = <<OnLow("VSUBC"), OnHigh(op)>>, PairStages(program, pc, m, k),
         NEW n, n = Compute("scalar", m, program[pc + 1])
  PROVE  (pc + 1 = 1 => LowTaken(n, k)) /\ (pc + 1 = 2 => TakeEnds(op, n, k))
<1>1. OnLow("VSUBC") \in VuInstructions /\ OnHigh(op) \in VuInstructions
  <2>1. program[1] \in VuInstructions /\ program[2] \in VuInstructions
    OBVIOUS
  <2> QED BY <2>1
<1>2. pc = 0 => LowTaken(n, k)
  <2>1. pc = 0 => n = Compute("scalar", m, OnLow("VSUBC"))
    OBVIOUS
  <2> QED BY <1>1, <2>1, PairsBegin
<1> DEFINE x == PairIn(n, 0, 1, k)  y == PairIn(n, 2, 3, k)
<1>3. ASSUME pc = 1
      PROVE  /\ op = "VSUB" /\ InPair(x - y) => PairIn(n, 4, 5, k) = x - y
             /\ op = "VLT" => (n.lane[k].cl <=> x < y)
             /\ op = "VGE" => (n.lane[k].cl <=> x >= y)
             /\ op = "VEQ" => (n.lane[k].cl <=> x = y)
             /\ op = "VNE" => (n.lane[k].cl <=> x # y)
  <2>1. n = Compute("scalar", m, OnHigh(op))
    BY <1>3
  <2>2. LowTaken(m, k)
    BY <1>3 DEF PairStages
  <2>3. PairRegs \subseteq VuRegs
    BY <1>1, PairPrograms
  <2>4. CASE op \in CompareOps
    <3>1. op # "VSUB"
      BY <2>4 DEF CompareOps
    <3> QED BY <1>1, <2>1, <2>2, <2>3, <2>4, <3>1, ComparesEnd
  <2>5. CASE op = "VSUB"
    <3> DEFINE sub == op
    <3>1. sub \in {"VADD", "VSUB"} /\ sub # "VADD" /\ sub = "VSUB" /\ OnHigh(sub) \in VuInstructions /\ n = Compute("scalar", m, OnHigh(sub))
      BY <1>1, <2>1, <2>5
    <3> HIDE DEF sub
    <3>2. InPair(x - y) => PairIn(n, 4, 5, k) = x - y
      BY <2>2, <2>3, <3>1, SumsEnd
    <3> QED BY <2>5, <3>2
  <2> QED BY <2>4, <2>5
<1> HIDE DEF x, y
<1>4. pc + 1 = 2 => pc = 1
  OBVIOUS
<1>5. pc + 1 = 1 => pc = 0
  OBVIOUS
<1> QED BY <1>2, <1>3, <1>4, <1>5 DEF TakeEnds, x, y

\* One step of the clip tests of pairs.
LEMMA ClipStep ==
  ASSUME NEW m \in VuMachines, NEW k \in VuLanes, NEW program \in Seq(VuInstructions), NEW pc \in Nat, pc < Len(program),
         program = <<OnHigh("VCH"), OnLow("VCL")>>, PairStages(program, pc, m, k),
         NEW n, n = Compute("scalar", m, program[pc + 1])
  PROVE  /\ pc + 1 = 1 => ClipBegun(n, k)
         /\ LET x == PairIn(n, 0, 1, k)
                y == PairIn(n, 2, 3, k)
            IN pc + 1 = 2 /\ y >= 0 => (n.lane[k].ch <=> x >= y) /\ (n.lane[k].cl <=> x < 0 /\ x <= -y)
<1>1. OnLow("VCL") \in VuInstructions /\ OnHigh("VCH") \in VuInstructions
  <2>1. program[1] \in VuInstructions /\ program[2] \in VuInstructions
    OBVIOUS
  <2> QED BY <2>1
<1>2. pc = 0 => ClipBegun(n, k)
  <2>1. pc = 0 => n = Compute("scalar", m, OnHigh("VCH"))
    OBVIOUS
  <2> QED BY <1>1, <2>1, ClipBegins
<1> DEFINE x == PairIn(n, 0, 1, k)  y == PairIn(n, 2, 3, k)
<1>3. ASSUME pc = 1
      PROVE  y >= 0 => (n.lane[k].ch <=> x >= y) /\ (n.lane[k].cl <=> x < 0 /\ x <= -y)
  <2>1. n = Compute("scalar", m, OnLow("VCL"))
    BY <1>3
  <2>2. ClipBegun(m, k)
    BY <1>3 DEF PairStages
  <2>3. PairRegs \subseteq VuRegs
    BY <1>1, PairPrograms
  <2> QED BY <1>1, <2>1, <2>2, <2>3, ClipEnds
<1> HIDE DEF x, y
<1>4. pc + 1 = 2 => pc = 1
  OBVIOUS
<1>5. pc + 1 = 1 => pc = 0
  OBVIOUS
<1> QED BY <1>2, <1>3, <1>4, <1>5 DEF x, y

\* One step of a product of pairs.
LEMMA ProductStep ==
  ASSUME NEW m \in VuMachines, NEW k \in VuLanes, NEW program \in Seq(VuInstructions), NEW pc \in Nat, pc < Len(program),
         program = MultiplyPairs, PairStages(program, pc, m, k),
         NEW n, n = Compute("scalar", m, program[pc + 1])
  PROVE  /\ MultipliedBy(n, k, pc + 1)
         /\ pc + 1 = 4 => Acc(n.lane[k]) = (PairIn(n, 0, 1, k) * PairIn(n, 2, 3, k)) \div Full
<1>1. Len(program) = 4 /\ MultiplyPairs[1] = OnLow("VMUDL") /\ MultiplyPairs[4] = OnHigh("VMADH")
  BY DEF MultiplyPairs
<1>2. program[1] \in VuInstructions /\ program[4] \in VuInstructions /\ program[pc + 1] \in VuInstructions
  <2>1. 1 \in 1 .. Len(program) /\ 4 \in 1 .. Len(program) /\ pc + 1 \in 1 .. Len(program)
    BY <1>1
  <2>2. \A p \in 1 .. Len(program) : program[p] \in VuInstructions
    OBVIOUS
  <2> QED BY <2>1, <2>2
<1>3. PairRegs \subseteq VuRegs
  BY <1>1, <1>2, PairPrograms
<1> DEFINE j == pc + 1
<1>4. j \in 1 .. 4 /\ j - 1 = pc /\ (j > 1 => pc \in 1 .. 4)
  BY <1>1
<1>5. j > 1 => MultipliedBy(m, k, j - 1)
  BY <1>4 DEF PairStages
<1>6. MultiplyPairs[j] \in VuInstructions /\ n = Compute("scalar", m, MultiplyPairs[j])
  BY <1>2
<1> HIDE DEF j
<1>7. MultipliedBy(n, k, j)
  BY <1>3, <1>4, <1>5, <1>6, MultipliesOn
<1>8. n \in VuMachines
  BY <1>6, ComputeType
<1>9. j = 4 => Acc(n.lane[k]) = (PairIn(n, 0, 1, k) * PairIn(n, 2, 3, k)) \div Full
  BY <1>3, <1>7, <1>8, ProductEnds
<1> QED BY <1>7, <1>9 DEF j

\* Every step of a program leaves what the next ones need, and the last one the result.
LEMMA PairsGoOn ==
  ASSUME NEW m \in VuMachines, NEW k \in VuLanes, NEW program \in Seq(VuInstructions), NEW pc \in Nat, pc < Len(program),
         PairStages(program, pc, m, k), NEW n, n = Compute("scalar", m, program[pc + 1])
  PROVE  PairStages(program, pc + 1, n, k) /\ PairEnds(program, pc + 1, n, k)
<1> DEFINE x == PairIn(n, 0, 1, k)  y == PairIn(n, 2, 3, k)  result == PairIn(n, 4, 5, k)  lane == n.lane[k]
<1>1. ASSUME program = <<OnLow("VADDC"), OnHigh("VADD")>>
      PROVE  (pc + 1 = 1 => LowAdded(n, k)) /\ (pc + 1 = Len(program) /\ InPair(x + y) => result = x + y)
  <2>1. Len(program) = 2
    BY <1>1
  <2> QED BY <1>1, <2>1, AddStep
<1>2. ASSUME NEW op \in CompareOps \cup {"VSUB"}, program = <<OnLow("VSUBC"), OnHigh(op)>>
      PROVE  /\ pc + 1 = 1 => LowTaken(n, k)
             /\ pc + 1 = Len(program) =>
                  /\ op = "VSUB" /\ InPair(x - y) => result = x - y
                  /\ op = "VLT" => (lane.cl <=> x < y)
                  /\ op = "VGE" => (lane.cl <=> x >= y)
                  /\ op = "VEQ" => (lane.cl <=> x = y)
                  /\ op = "VNE" => (lane.cl <=> x # y)
  <2>1. Len(program) = 2
    BY <1>2
  <2>2. (pc + 1 = 1 => LowTaken(n, k)) /\ (pc + 1 = 2 => TakeEnds(op, n, k))
    <3> HIDE DEF x, y, result, lane
    <3> QED BY <1>2, TakeStep, Zenon
  <2> QED BY <2>1, <2>2 DEF TakeEnds
<1>3. ASSUME program = <<OnHigh("VCH"), OnLow("VCL")>>
      PROVE  /\ pc + 1 = 1 => ClipBegun(n, k)
             /\ pc + 1 = Len(program) /\ y >= 0 => (lane.ch <=> x >= y) /\ (lane.cl <=> x < 0 /\ x <= -y)
  <2>1. Len(program) = 2
    BY <1>3
  <2> QED BY <1>3, <2>1, ClipStep
<1>4. ASSUME program = MultiplyPairs
      PROVE  MultipliedBy(n, k, pc + 1) /\ (pc + 1 = Len(program) => Acc(lane) = (x * y) \div Full)
  <2>1. Len(program) = 4
    BY <1>4 DEF MultiplyPairs
  <2> QED BY <1>4, <2>1, ProductStep
<1>5. {"VSUB", "VLT", "VGE", "VEQ", "VNE"} \subseteq CompareOps \cup {"VSUB"}
  BY DEF CompareOps
<1> HIDE DEF x, y, result, lane
<1>6. PairStages(program, pc + 1, n, k)
  <2>1. program = <<OnLow("VADDC"), OnHigh("VADD")>> /\ pc + 1 = 1 => LowAdded(n, k)
    BY ONLY <1>1
  <2>2. \A op \in CompareOps \cup {"VSUB"} : program = <<OnLow("VSUBC"), OnHigh(op)>> /\ pc + 1 = 1 => LowTaken(n, k)
    BY ONLY <1>2
  <2>3. program = <<OnHigh("VCH"), OnLow("VCL")>> /\ pc + 1 = 1 => ClipBegun(n, k)
    BY ONLY <1>3
  <2>4. program = MultiplyPairs /\ pc + 1 \in 1 .. 4 => MultipliedBy(n, k, pc + 1)
    BY ONLY <1>4
  <2> QED BY <2>1, <2>2, <2>3, <2>4, Zenon DEF PairStages
<1>7. pc + 1 = Len(program) =>
       /\ program = <<OnLow("VADDC"), OnHigh("VADD")>> /\ InPair(x + y) => result = x + y
       /\ program = <<OnLow("VSUBC"), OnHigh("VSUB")>> /\ InPair(x - y) => result = x - y
       /\ program = <<OnLow("VSUBC"), OnHigh("VLT")>> => (lane.cl <=> x < y)
       /\ program = <<OnLow("VSUBC"), OnHigh("VGE")>> => (lane.cl <=> x >= y)
       /\ program = <<OnLow("VSUBC"), OnHigh("VEQ")>> => (lane.cl <=> x = y)
       /\ program = <<OnLow("VSUBC"), OnHigh("VNE")>> => (lane.cl <=> x # y)
       /\ program = MultiplyPairs => Acc(lane) = (x * y) \div Full
       /\ program = <<OnHigh("VCH"), OnLow("VCL")>> /\ y >= 0 => (lane.ch <=> x >= y) /\ (lane.cl <=> x < 0 /\ x <= -y)
  BY <1>1, <1>2, <1>3, <1>4, <1>5
<1> QED BY <1>6, <1>7 DEF PairEnds, x, y, result, lane

\* The invariant: the engines agree, and every lane is where the program should have brought it.
PairInv ==
  /\ VuInv
  /\ \A k \in VuLanes : PairStages(vuProgram, vuPc, vu["scalar"], k) /\ PairEnds(vuProgram, vuPc, vu["scalar"], k)

\* The sequences by which microcode computes on numbers of two lanes compute what one
\* instruction on the whole numbers would, whatever the width of a lane.
THEOREM SequencesComputeOnWords == VuSpec => []PairsAreWords
<1>1. VuInit /\ VuInv => PairInv
  <2> SUFFICES ASSUME VuInit, VuInv, NEW k \in VuLanes
               PROVE  PairStages(vuProgram, vuPc, vu["scalar"], k) /\ PairEnds(vuProgram, vuPc, vu["scalar"], k)
    BY DEF PairInv
  <2>1. vuPc = 0
    BY DEF VuInit
  <2>2. PairStages(vuProgram, vuPc, vu["scalar"], k)
    BY <2>1 DEF PairStages
  <2>3. ASSUME vuPc = Len(vuProgram)
        PROVE  /\ \A i, j : vuProgram # <<i, j>>
               /\ vuProgram # MultiplyPairs
    BY <2>1, <2>3 DEF MultiplyPairs
  <2> QED BY <2>2, <2>3 DEF PairEnds
<1>2. PairInv /\ VuInv' /\ [ExecuteCompute]_vuVars => PairInv'
  <2> SUFFICES ASSUME PairInv, VuInv', [ExecuteCompute]_vuVars, NEW k \in VuLanes
               PROVE  PairStages(vuProgram', vuPc', vu'["scalar"], k) /\ PairEnds(vuProgram', vuPc', vu'["scalar"], k)
    BY DEF PairInv
  <2>1. CASE ExecuteCompute
    <3>1. /\ vuProgram \in Seq(VuInstructions) /\ vuPc \in Nat /\ vuPc < Len(vuProgram)
          /\ vuPc' = vuPc + 1 /\ vuProgram' = vuProgram /\ vu["scalar"] \in VuMachines
      BY <2>1, VuAssumption DEF PairInv, VuInv, ExecuteCompute, VuEngines
    <3>2. vu'["scalar"] = Compute("scalar", vu["scalar"], vuProgram[vuPc + 1])
      BY <2>1 DEF ExecuteCompute, VuEngines
    <3>3. PairStages(vuProgram, vuPc, vu["scalar"], k)
      BY DEF PairInv
    <3> QED BY <3>1, <3>2, <3>3, PairsGoOn
  <2>2. CASE UNCHANGED vuVars
    BY <2>2 DEF PairInv, vuVars
  <2> QED BY <2>1, <2>2
<1>3. PairInv => PairsAreWords
  <2> SUFFICES ASSUME PairInv, NEW k \in VuLanes
               PROVE  LET x == PairOf(0, 1, k)
                          y == PairOf(2, 3, k)
                          result == PairOf(4, 5, k)
                          lane == vu["simd"].lane[k]
                      IN /\ Ran(<<OnLow("VADDC"), OnHigh("VADD")>>) /\ InPair(x + y) => result = x + y
                         /\ Ran(<<OnLow("VSUBC"), OnHigh("VSUB")>>) /\ InPair(x - y) => result = x - y
                         /\ Ran(<<OnLow("VSUBC"), OnHigh("VLT")>>) => (lane.cl <=> x < y)
                         /\ Ran(<<OnLow("VSUBC"), OnHigh("VGE")>>) => (lane.cl <=> x >= y)
                         /\ Ran(<<OnLow("VSUBC"), OnHigh("VEQ")>>) => (lane.cl <=> x = y)
                         /\ Ran(<<OnLow("VSUBC"), OnHigh("VNE")>>) => (lane.cl <=> x # y)
                         /\ Ran(MultiplyPairs) => Acc(lane) = (x * y) \div Full
                         /\ Ran(<<OnHigh("VCH"), OnLow("VCL")>>) /\ y >= 0
                              => (lane.ch <=> x >= y) /\ (lane.cl <=> x < 0 /\ x <= -y)
    BY DEF PairsAreWords
  <2>1. vu["scalar"] = vu["simd"]
    BY DEF PairInv, VuInv, VuEnginesAgree
  <2>2. PairEnds(vuProgram, vuPc, vu["simd"], k)
    BY <2>1 DEF PairInv
  <2>3. \A h, l : PairOf(h, l, k) = PairIn(vu["simd"], h, l, k)
    BY DEF PairOf, PairIn
  <2>4. \A program : Ran(program) <=> vuProgram = program /\ vuPc = Len(vuProgram)
    BY DEF Ran
  <2> QED BY <2>2, <2>3, <2>4 DEF PairEnds
<1> QED BY <1>1, <1>2, <1>3, VuInvariance, PTL DEF VuSpec

=============================================================================

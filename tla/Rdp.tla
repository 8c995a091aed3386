-------------------------------- MODULE Rdp --------------------------------
(* The DPC registers take display lists (dpc.cpp), the bridge hands their         *)
(* commands to the renderer and tracks what it will draw (rdp_core.cpp), and the  *)
(* GPU draws in its own time.  One granule is eight bytes: the alignment of lists *)
(* and the unit of the dirty marks.                                               *)
EXTENDS Integers, Sequences, FiniteSets

CONSTANTS
    Rdram,           \* granule -> the command word it holds
    Dmem,            \* the same for SP DMEM
    DpcBufferUnits,  \* RDP_COMMAND_BUFFER_SIZE
    ListAddress,     \* values of DPC_START and DPC_END, in granules
    InlineAccess,    \* granules that loads and stores inlined by the dynarec reach
    WaitsForSync,    \* the CPU looks at memory only when no batch is open
    MaxWrites        \* writes to DPC registers

VARIABLES dpc, leftover, rdp, writes,
          stream, sent      \* history: units fed, commands handed on

rdpVars == <<dpc, leftover, rdp, writes, stream, sent>>

Granules == DOMAIN Rdram
RdramUnits == Cardinality(Granules)
DmemUnits == Cardinality(DOMAIN Dmem)
ASSUME RdpAssumption ==
    /\ RdramUnits \in Nat /\ Granules = 0 .. RdramUnits - 1
    /\ DmemUnits \in Nat \ {0} /\ DOMAIN Dmem = 0 .. DmemUnits - 1
    /\ {DpcBufferUnits, MaxWrites} \subseteq Nat
    /\ ListAddress \subseteq 0 .. RdramUnits /\ InlineAccess \subseteq Granules
    /\ WaitsForSync \in BOOLEAN

\* Units a command takes, a unit being two words.
CommandUnits(op) ==
    CASE op = "Triangle" -> 4
      [] op = "TextureRectangle" -> 2
      [] OTHER -> 1

-----------------------------------------------------------------------------
(* The bridge.  rdp.work is what the GPU has not finished: the granules each draw *)
(* writes and the timeline value that will cover it.                              *)

Bytes(size, area) == CASE size = 0 -> area \div 2 [] size = 1 -> area [] size = 2 -> 2 * area [] OTHER -> 4 * area
Least(a, b) == IF a < b THEN a ELSE b
Most(a, b) == IF a < b THEN b ELSE a
First(address) == address \div 8
Past(address, length) == Least((address + length + 7) \div 8, RdramUnits)
Range8(address, length) == IF length = 0 THEN {} ELSE First(address) .. Past(address, length) - 1

MutMarkDirty(r, address, length) ==
    IF Range8(address, length) = {} \/ First(address) \in r.dirty THEN r
    ELSE [r EXCEPT !.dirty = @ \cup Range8(address, length),
                   !.min = Least(@, First(address)), !.max = Most(@, Past(address, length) - 1)]
MarkDirty(r, address, length) ==
    IF Range8(address, length) = {} \/ First(address) \in r.dirty THEN r
    ELSE [r EXCEPT !.dirty = @ \cup Range8(address, length),
                   !.min = Least(@, First(address)), !.max = Most(@, Past(address, length))]

ColorAddress(i) == i.color + Bytes(i.size, i.top * i.width)
ColorLength(i) == Bytes(i.size, i.width * i.height)
DepthAddress(i) == i.depth + Bytes(2, i.top * i.width)
DepthLength(i) == Bytes(2, i.width * i.height)

MarkDrawn(r) ==
    LET c == MarkDirty(r, ColorAddress(r.info), ColorLength(r.info))
    IN IF r.info.z THEN MarkDirty(c, DepthAddress(r.info), DepthLength(r.info)) ELSE c

\* What the GPU will write for a draw: the scissored part of both images.
GpuWrites(i) ==
    Range8(ColorAddress(i), ColorLength(i)) \cup IF i.z THEN Range8(DepthAddress(i), DepthLength(i)) ELSE {}

DrawOps == {"Triangle", "TextureRectangle", "FillRectangle"}
LoadOps == {"LoadTile", "LoadBlock"}
\* Address and length of the texels that a load reads.
Loaded(i, c) ==
    IF c.op = "LoadTile"
    THEN <<i.texture + Bytes(i.tsize, c.a * i.twidth), Bytes(i.tsize, (c.b - c.a) * i.twidth)>>
    ELSE <<i.texture + Bytes(i.tsize, c.a + c.c * i.twidth), Bytes(i.tsize, Most(c.b - c.a, 0))>>
Images(i, c) ==
    CASE c.op = "SetColorImage" -> [i EXCEPT !.color = c.a, !.size = c.b, !.width = c.c]
      [] c.op = "SetMaskImage" -> [i EXCEPT !.depth = c.a]
      [] c.op = "SetTextureImage" -> [i EXCEPT !.texture = c.a, !.tsize = c.b, !.twidth = c.c]
      [] c.op = "SetScissor" -> [i EXCEPT !.top = c.a, !.height = Most(c.b - c.a, 0)]
      [] c.op = "SetOtherModes" -> [i EXCEPT !.z = (c.a = 1)]
      [] OTHER -> i
Track(r, c) ==
    CASE c.op \in DrawOps -> MarkDrawn(r)
      [] c.op \in LoadOps -> MarkDirty(r, Loaded(r.info, c)[1], Loaded(r.info, c)[2])
      [] OTHER -> [r EXCEPT !.info = Images(@, c)]

Enqueue(r, c) ==
    LET t == Track(r, c)
    IN IF c.op \in DrawOps THEN [t EXCEPT !.work = @ \cup {[at |-> r.timeline + 1, writes |-> GpuWrites(r.info)]}] ELSE t
OnFullSync(r) == [r EXCEPT !.timeline = @ + 1, !.signal = r.timeline + 1]

GpuReaches(r, value) == [r EXCEPT !.work = {w \in @ : w.at > value}]
FlushPendingSync(r) ==
    [GpuReaches(r, r.signal) EXCEPT !.dirty = {}, !.min = RdramUnits, !.max = 0, !.signal = 0]

CheckFramebuffers(r, from, past) ==
    LET range == from .. Least(past, RdramUnits) - 1
    IN IF r.signal # 0 /\ range # {} /\ r.min < r.max /\ from < r.max /\ past > r.min /\ range \cap r.dirty # {}
       THEN FlushPendingSync(r) ELSE r

NoInfo == [color |-> 0, size |-> 0, width |-> 0, height |-> 0, top |-> 0, depth |-> 0, z |-> FALSE,
           texture |-> 0, tsize |-> 0, twidth |-> 0]
FreshRdp == [signal |-> 0, timeline |-> 0, dirty |-> {}, min |-> RdramUnits, max |-> 0, info |-> NoInfo, work |-> {}]

-----------------------------------------------------------------------------
(* The DPC.                                                                       *)

\* The commands in a run of units that are handed on (not those under 8), and the units
\* of the command that is cut off.
Split(units) ==
    LET at[i \in 1 .. Len(units) + 1] ==
          IF i > Len(units) THEN [commands |-> <<>>, rest |-> <<>>]
          ELSE LET n == CommandUnits(units[i].op)
               IN IF i + n - 1 > Len(units) THEN [commands |-> <<>>, rest |-> SubSeq(units, i, Len(units))]
                  ELSE [commands |-> (IF units[i].op = "Nop" THEN <<>> ELSE <<units[i]>>) \o at[i + n].commands,
                           rest |-> at[i + n].rest]
    IN at[1]

\* State of the list: everything process_list may change.
Now == [dpc |-> dpc, leftover |-> leftover, rdp |-> rdp, stream |-> stream, sent |-> sent]
Run(s, c) ==
    LET e == [s EXCEPT !.rdp = Enqueue(@, c), !.sent = Append(@, c)]
    IN IF c.op = "FullSync"
       THEN [e EXCEPT !.rdp = OnFullSync(@), !.dpc.pipeBusy = FALSE, !.dpc.ready = FALSE, !.dpc.intr = TRUE]
       ELSE e
RunAll(s, commands) ==
    LET after[i \in 0 .. Len(commands)] == IF i = 0 THEN s ELSE Run(after[i - 1], commands[i])
    IN after[Len(commands)]

Fetched(d) ==
    [k \in 1 .. d.end - d.current |->
        IF d.xbus THEN Dmem[(d.current + k - 1) % DmemUnits] ELSE Rdram[d.current + k - 1]]

ProcessList(s) ==
    IF s.dpc.end - s.dpc.current + Len(s.leftover) > DpcBufferUnits
    THEN [s EXCEPT !.leftover = <<>>, !.stream = <<>>, !.sent = <<>>]
    ELSE LET list == Fetched(s.dpc)
             c == IF s.dpc.xbus THEN s
                  ELSE [s EXCEPT !.rdp = CheckFramebuffers(s.rdp, s.dpc.current, s.dpc.end)]
             split == Split(s.leftover \o list)
             done == RunAll(c, split.commands)
         IN [done EXCEPT !.leftover = split.rest, !.dpc.current = s.dpc.end, !.stream = @ \o list]

RunCommand(s) ==
    IF s.dpc.freeze THEN s
    ELSE LET busy == [s EXCEPT !.dpc.pipeBusy = TRUE]
             ran == IF s.dpc.end > s.dpc.current THEN ProcessList(busy) ELSE busy
         IN [ran EXCEPT !.dpc.ready = TRUE]

Becomes(s) ==
    /\ writes < MaxWrites /\ writes' = writes + 1
    /\ dpc' = s.dpc /\ leftover' = s.leftover /\ rdp' = s.rdp
    /\ stream' = s.stream /\ sent' = s.sent

WriteStart(a) ==
    Becomes([Now EXCEPT !.dpc.start = IF dpc.startValid THEN @ ELSE a, !.dpc.startValid = TRUE])

Latched(a) ==
    IF dpc.startValid THEN [dpc EXCEPT !.end = a, !.current = dpc.start, !.startValid = FALSE]
    ELSE [dpc EXCEPT !.end = a]
MutWriteEnd(a) ==
    Becomes(RunCommand([Now EXCEPT !.dpc = Latched(a), !.leftover = IF dpc.startValid THEN <<>> ELSE @]))
WriteEnd(a) ==
    Becomes(RunCommand([Now EXCEPT !.dpc = Latched(a)]))

\* The flush bit, the counters and their bits of STATUS are left out.
WriteStatus(xbus, freeze, clearPipe) ==
    LET d == [dpc EXCEPT !.xbus = IF xbus = "keep" THEN @ ELSE xbus = "set",
                         !.freeze = IF freeze = "keep" THEN @ ELSE freeze = "set",
                         !.pipeBusy = @ /\ ~clearPipe]
    IN Becomes(IF freeze = "clear" THEN RunCommand([Now EXCEPT !.dpc = d]) ELSE [Now EXCEPT !.dpc = d])

AckDp == dpc' = [dpc EXCEPT !.intr = FALSE] /\ UNCHANGED <<leftover, rdp, writes, stream, sent>>

\* The GPU finishes a batch on its own.
GpuFinishes ==
    /\ \E v \in 1 .. rdp.timeline : rdp' = GpuReaches(rdp, v)
    /\ UNCHANGED <<dpc, leftover, writes, stream, sent>>

-----------------------------------------------------------------------------
\* An access of the CPU or of a DMA to RDRAM: inlined in a compiled block it makes no check.
Accessed(g) ==
    {CheckFramebuffers(rdp, g, g + 1)} \cup (IF g \in InlineAccess THEN {rdp} ELSE {})
OpenBatch == \E w \in rdp.work : w.at > rdp.timeline
AccessRdram(g) ==
    /\ WaitsForSync => ~OpenBatch
    /\ rdp' \in Accessed(g)
    /\ UNCHANGED <<dpc, leftover, writes, stream, sent>>

FreshDpc == [start |-> 0, end |-> 0, current |-> 0, startValid |-> FALSE, freeze |-> FALSE, xbus |-> FALSE,
             pipeBusy |-> FALSE, ready |-> FALSE, intr |-> FALSE]

RdpInit ==
    /\ dpc = FreshDpc /\ leftover = <<>> /\ rdp = FreshRdp
    /\ writes = 0 /\ stream = <<>> /\ sent = <<>>
\* The game ends and another starts.  MI keeps its registers.
NextDisplay ==
    /\ dpc' = [FreshDpc EXCEPT !.intr = dpc.intr] /\ leftover' = <<>> /\ rdp' = FreshRdp
    /\ stream' = <<>> /\ sent' = <<>> /\ UNCHANGED writes

RdpNext ==
    \/ \E a \in ListAddress : WriteStart(a) \/ WriteEnd(a)
    \/ \E xbus, freeze \in {"keep", "clear", "set"}, clearPipe \in BOOLEAN : WriteStatus(xbus, freeze, clearPipe)
    \/ AckDp
    \/ GpuFinishes
    \/ \E g \in Granules : AccessRdram(g)
    \/ NextDisplay

RdpSpec == RdpInit /\ [][RdpNext]_rdpVars

-----------------------------------------------------------------------------
(* However a game cuts its command stream into lists, between RDRAM and DMEM,     *)
(* over freezes and new STARTs, the renderer gets the commands of the whole       *)
(* stream, each once and in order, and the DPC holds exactly the cut-off rest.    *)
CommandsAsStreamed ==
    LET whole == Split(stream)
    IN sent = whole.commands /\ leftover = whole.rest

(* Once a FULL_SYNC covers a draw, an access to memory that the draw writes waits *)
(* for the GPU: nothing unfinished is left under the granule afterwards.          *)
SyncedBeforeSeen ==
    \A g \in Granules : \A r \in Accessed(g) : \A w \in r.work :
        g \in w.writes => w.at > rdp.timeline

(* What the marks ask of a game: its lists and the data that compiled blocks access  *)
(* inline lie apart from what it draws and loads, and a range that starts within     *)
(* another one lies in it, since mark_dirty_range takes a range for marked when its  *)
(* first granule is.  Infos holds the images that the commands can set up.           *)
Units == {Rdram[g] : g \in Granules} \cup {Dmem[g] : g \in DOMAIN Dmem}
Touched(i, c) ==
    CASE c.op \in DrawOps -> {<<ColorAddress(i), ColorLength(i)>>}
                               \cup IF i.z THEN {<<DepthAddress(i), DepthLength(i)>>} ELSE {}
      [] c.op \in LoadOps -> {Loaded(i, c)}
      [] OTHER -> {}
AllTouched(Infos) == UNION {Touched(i, c) : i \in Infos, c \in Units}
Extent(range) == Range8(range[1], range[2])
Orderly(Infos) ==
    /\ NoInfo \in Infos
    /\ \A i \in Infos, c \in Units : Images(i, c) \in Infos
    /\ AllTouched(Infos) \subseteq Nat \X Int
    /\ \A p \in AllTouched(Infos) :
         /\ \A q \in AllTouched(Infos) : First(q[1]) \in Extent(p) => Extent(q) \subseteq Extent(p)
         /\ \A a, b \in ListAddress : (a .. b - 1) \cap Extent(p) = {}
         /\ InlineAccess \cap Extent(p) = {}
=============================================================================

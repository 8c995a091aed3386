# A verification of the machine core of n64-emu

This directory models, in TLA+, the emulated machine: *when* something happens
and *who* sees it (the event scheduler, interrupts, DMA engines, the RSP's
turns, display lists, the caches of translated guest code, time slices), *what*
instructions compute wherever the code says it twice (interpreter and dynarec,
scalar and SIMD vector unit), and what the machine hands to the host (pictures
and sound). Source paths below are relative to the repository's `src/`
directory (`mmio/pi.cpp` is `src/mmio/pi.cpp` there).

## 1. The system

### How it runs

One host thread runs the machine. `N64System::step` emulates one frame: for
every field and half-line of the video signal it gives the CPU a budget of
cycles, runs the interpreter or the dynarec, and calls
`advance_after_cpu`, which ends in `Scheduler::tick`. `tick` moves the clock
and runs every due event; the callbacks are the completions of DMAs and the
continuation of the RSP. So the CPU touches registers only *between* two
ticks and callbacks run only *inside* one; no lock protects this state. A
second thread belongs to the host's audio; the GPU works through command
batches in its own time, and the emulation thread waits for it before the CPU
may look at what it draws. A game can be stopped and another started in the
same process (`ui/app.cpp`), through `reset_all`.

### Inventory

| component | state | operations | interacts with | what makes it correct |
|---|---|---|---|---|
| scheduler (`n64_system/scheduler.cpp`) | clock, queue of one-shot events, two named slots | init, set_timer, schedule_named, cancel_named, tick, cycles_until_next_event | every device (callbacks), idle skip | nothing overdue between ticks, deadline order over both mechanisms, nothing lost or fired twice |
| MI and IP2 (`mmio/mi.cpp`, `n64_system/interrupt.cpp`) | pending and mask bits, Cause.IP2 | write MI_MODE, MI_MASK, check_interrupt | all devices, CPU | IP2 agrees with the registers; a line falls only by its own acknowledgement |
| PI (`mmio/pi.cpp`) | addresses, lengths, status | DMA both ways, status write, completion | scheduler, MI, RDRAM, code caches | pollers get out; PI_STATUS and MI agree; a stopped DMA is silent |
| AI (`mmio/ai.cpp`) | two buffers, carry, rate, start and duration | length, address, rate, status writes; completion; read of AI_LENGTH | scheduler, MI, host audio | a FIFO of two; exactly one completion pending while playing |
| SI and PIF (`mmio/si.cpp`, `pif.cpp`) | addresses, PIF RAM | DMA both ways, joybus commands | MI, RDRAM | one interrupt per DMA |
| VI (`mmio/vi.cpp`, main loop) | registers, half-line timing | register writes, compare per half-line | MI, main loop, presentation | the interrupt is set at V_INTR; timing changes in mid-field |
| main loop, idle skip (`n64_system/n64_system.cpp`, `cpu/idle_skip.cpp`) | slice budget, pending warp | step, begin_slice, consume, apply_pending | CPU, scheduler, VI | a slice neither overshoots nor skips an event |
| CPU core (`cpu/cpu.cpp`, `cop0.cpp`) | COUNT, COMPARE, Status, Cause, PC, delay slot | add_count, exceptions, branches, COP0 moves | MI, TLB | each COMPARE edge interrupts once; a handler returns to where the program was |
| instructions (`cpu/cpu_instruction_impl.cpp`, `fpu_instruction_impl.cpp`, `jit/emit_x64.cpp`) | registers, RDRAM in host words | one handler per instruction, one emitter per instruction | memory bus, TLB | both engines compute the same |
| dynarec (`cpu/jit/`) | blocks per page, page marks, last hit | lookup, compile, insert, invalidate, fallback | RDRAM writers, decode cache | no stale code runs; a block leaves the CPU as stepping would |
| cached interpreter (`cpu/cached_interp.cpp`) | decoded words | step, run, invalidate | same | same |
| TLB and soft TLB (`mmu/`) | 32 entries, two direct-mapped tables | TLBWI, TLBWR, TLBR, TLBP, translate | CPU, dynarec | a cached translation is the TLB's |
| RSP (`rcp/rsp.cpp`) | SP_STATUS, task flags, DMEM, IMEM, predecoded words | status writes, turns, on_sp_event, DMA | scheduler, MI, DPC | a running RSP is scheduled; a break is seen; it executes what IMEM holds |
| RSP vector unit (`rcp/rsp_vector.cpp`, `rsp_vector_simd.cpp`) | 32 vector registers, accumulator, flags, divider | computations, loads, stores, moves | DMEM | both implementations agree; sequences compute on two-lane numbers |
| DPC (`rcp/dpc.cpp`) | start, end, current, status, partial command | START, END, STATUS writes | RSP, RDP, MI | every command processed once, in order |
| RDP bridge (`rdp/rdp_core.cpp`) | pending sync, dirty granules and span | enqueue, full sync, framebuffer checks | DPC, RDRAM accesses, UI | the CPU sees what was rendered |
| presentation (`video/present.cpp`) | last origin, dirty flags | present_field | VI, RDP bridge | no changed picture is skipped |
| audio ring (`audio/audio.cpp`) | ring, indices, resampling position | push, pull, open, close, set frequency | AI, host audio thread | no frame lost, repeated or torn |
| UI, frame interpolation, debugger, boot, configuration | | | | not in scope (section 5) |

### What is hard here

* **Time.** An event is armed in one place and fires in another, with register
  writes, other events and restarts in between.
* **Two copies of one fact.** PI_STATUS and MI; MI and Cause.IP2; the AI slots
  and the pending completion; RDRAM and two caches of decoded code; the TLB and
  the soft TLB; IMEM and its predecoded words; the delay slot as a flag, as
  three program counters, and as a static property of compiled code. Each pair
  is kept in step by hand, by a call that must not be forgotten.
* **Everything is written twice.** Interpreter and dynarec; scalar and SIMD
  vector unit; the RSP's copy of the CPU's integer instructions.
* **Running ahead.** The RSP executes at once what should take time, and pays
  afterwards. The interpreter runs up to 1024 cycles before it tells the
  scheduler. Idle loops are warped over.
* **The GPU and the audio callback** work while the machine goes on.
* **Restarts** in one process.

`PROJECT.json` lists each hazard at its line with the properties that cover it.

## 2. The modules

| module | models | kind |
|---|---|---|
| `TimerService` | what a timer service promises: timers fire in deadline order, once, never early, and none is overdue at rest | abstract |
| `Scheduler` | `scheduler.cpp`, all of it | component |
| `Mi` | MI registers, `check_interrupt` | component, without a Next of its own: every device uses its operators |
| `Pi` | PI DMA and PI_STATUS, with Scheduler and Mi | component |
| `AudioFifo` | a FIFO of two buffers with the page-carry quirk | abstract |
| `Ai` | AI, with Scheduler and Mi | component |
| `Interfaces` | PI, AI, MI and the interrupt side of SI, VI, SP and DP over one scheduler, restarts | composition |
| `RspTask` | the RSP's turns, with Scheduler and Mi | component |
| `CodeCache` | dynarec blocks, decode cache and the writers of RDRAM | component |
| `MipsFlow` | the control flow a MIPS program sees: branch, slot, exception, return | abstract |
| `CpuFlow` | PC, delay slots, exceptions; step_one, compiled blocks and the dispatcher | component |
| `SoftTlb` | TLB, ASID, wired and random, and the soft TLB before it | component |
| `Slice` | slices, batches, COUNT and COMPARE, idle warps in both engines | component |
| `Fields` | fields, half-lines and the VI interrupt | component |
| `BitOps` | powers of two and `&`, `\|`, `^` of C++ on unsigned numbers of any width | operators |
| `Isa` | the integer instructions in both engines, memory, TLB faults | two implementations side by side |
| `Fpu` | register file in both modes, moves, conversions, compares, branches | algorithms |
| `Vu` | the vector unit's computations, scalar and SIMD | two implementations side by side |
| `VuMem` | vector loads, stores and moves | algorithms |
| `RspCore` | the scalar unit over predecoded IMEM, and the writers of IMEM; extends `Isa` | component |
| `Rdp` | DPC registers, command stream, dirty marks, the GPU | component |
| `Screen` | the choice between showing and skipping a field | component |
| `AudioQueue` | a stream of numbered frames between two threads | abstract |
| `AudioRing` | resampling, ring, latency limit, device open and close | component |
| `TimingProofs` | theorems about Scheduler, Slice and Fields | proofs |
| `InterfacesProofs` | theorems about Interfaces, Pi, Mi, Ai and AudioRing | proofs |
| `CpuProofs` | theorems about CodeCache, SoftTlb, CpuFlow and Fpu | proofs |
| `BitOpsProofs` | lemmas about powers of two, bitwise operators and remainders | proofs |
| `EngineProofs` | theorems about Isa | proofs |
| `RspProofs` | theorems about RspTask and RspCore | proofs |
| `VectorProofs` | theorems about Vu and VuMem | proofs |
| `VideoProofs` | theorems about Rdp and Screen | proofs |
| `MC_*` | instances for TLC | |

`MC_Interfaces`, `MC_Cpu`, `MC_Host` and `MC_Algorithms` hold several
components that share no state at the level they are modelled at (or whose
product is out of reach). A behaviour of such an instance picks one `part` at
the start and runs it; the variables of the others rest.

### Correspondence

*Scheduler.* `event_queue` is the priority queue as a set of records with a
storage cell (`EventId`) as identity; `QueueTop` is *any* event of least
deadline, since `std::priority_queue` is not stable. `named` is `named_`.
`tick` is three actions: `TickBegin`, one `Dispatch...` per pass of
`dispatch_one_due`, `TickEnd`; between them callbacks run. A client's callback
is conjoined with the dispatch that runs it (`PiCompleted`, `AiCompleted`,
`OnSpEvent`).

*Mi.* Registers are sets of device lines. `Raise` and `Ack` are a device's two
lines of code, the bit and the call of `check_interrupt`.

*Pi.* One action per register write; `StartDma` is the tail that `dma_write`
and `dma_read` share. `pi_past` is a history variable: the transfers begun and not
completed, and what RESET_DMA and restarts did to them and to PI_STATUS.

*Ai.* One action per register write; `BytesRemaining` is a read of AI_LENGTH.
`StartNextDma` takes the values its two callers have already assigned.

*Interfaces.* `SessionNext` is one game; `PowerCycle` is `reset_all`.

*RspTask.* `CpuWriteStatus` is the CPU's register write; it starts a turn in
place. The turn's instructions are actions of their own (`RspPlain`, `RspSync`,
`RspBreak`, `RspReadStatus`, `RspWriteStatus`) and nothing else is enabled
until `EndTurn`, as in the code. `OnSpEvent` is the callback.

*CodeCache.* `RunBlock`, `CompileBlock` and `Interpret` are the three ways of a
dispatch in `Dynarec::run`; `BusStore`, `HelperStore`, `InlineStore`, `Dma` and
`SiDma` are the writers of RDRAM and differ in which invalidation they call. A
word is reduced to what `decode_one` sees of it: translatable, a branch, or
neither.

*CpuFlow.* `mode` says where the host is: between steps, inside `step_one`,
inside a block. One step is one instruction, the service of an interrupt or one
decision of the dispatcher; an instruction is chosen freely, so a block is any
sequence of at most `MaxOps` of them. `opAt` is the address an operation was
compiled from, which the emitter knows statically and the interpreter reads
from `pc`.

*SoftTlb.* An address is its page. `Access` is `resolve_vaddr_cached`; `Probe`
is `TLB::probe`. The actions are the COP0 instructions.

*Slice.* Clocks are distances to the next event, so nothing is unbounded: `due`
is what the scheduler believes is left of a timer, `want` what really is, and
`error` what the last timer was off by. `Executed` lets the instructions of a
block arm a timer, write COMPARE and queue an idle warp. `Fallback` is the
dispatcher's single step that is taken before it looks for overdue events (a pending
delay slot), and the instruction fetch that misses and does not count.

*Fields.* `step()` with its two compares per field; the guest writes registers
only while a half-line runs.

*Isa.* `st` is one machine per engine; a step executes the same instruction in
both, once by the handler's formula and once by what the emitted code does,
with `ByteBits` bits to a byte. RDRAM is an array of host bytes in words, so
that the `^ 3` and `^ 2` of the byte accesses are modelled by what they do.

*BitOps.* The bitwise operators are recursive functions over pairs of numbers, a
truth table for the last bits and the same operation on the halves, so that
theorems can be proved about them for numbers of any width.

*Fpu.* A value is a multiple of a quarter; words hold integers or singles in
halves, so conversions round and overflow as in the code, and what arithmetic
computes is left open.

*Vu, VuMem.* `Compute` executes a lane by a record of what the lane depends on.
`ScalarLane` has the integer formulas of `rsp_vector.cpp`; `SimdLane` has the
carries, masks and clamps that `rsp_vector_simd.cpp` rebuilds from lane-sized
pieces. Where both files write the same formula, `SimdLane` refers to the
scalar one. A vector register is sixteen bytes in `VuMem`. `OnLow`, `OnHigh` and
`MultiplyPairs` are the instructions of the sequences that microcode uses on numbers
of two lanes, with the first number in registers 0 and 1, the second in 2 and 3 and
the result in 4 and 5.

*RspCore.* `insns` is the array of predecoded words; every writer of IMEM
(store of the CPU, both DMAs) updates both.

*Rdp.* One granule of eight bytes is the unit of memory, of lists and of dirty
marks. `rdp.work` is what the GPU still has to write, and by which timeline
value; `stream` and `sent` are histories of what was fed and handed on. `Split`
cuts a buffer into its complete commands and what is left over, and drops the
commands below 8, which `process_list` does not hand on; `Run` is one command in
the bridge and `RunAll` all commands of a list. `Accessed` is an access with its
check, or without one where a compiled block accesses memory inline (`InlineAccess`).
`Orderly` names the lists a game
may submit for the marks to work (below).

*Screen.* One record. Its `vi` stands for the fourteen registers that a scan-out
reads: origin, type, width and the number of lines decide which memory is read, and
`other` is what the rest say about how it is shown. `drawn`, `written` and `scanned`
are histories: what was drawn and written since the last scan-out and which
registers it was made with. `Watched` is `maybe_mark_vi_fb_dirty` with its early
returns; `StoreInline` is a store that does not reach it.

*AudioRing.* Frames are numbered instead of sampled; a push is two steps, the
resampling without the lock and the write under it, so that the callback can
come between. A position is counted in parts of a guest frame, and each addition of
a step to it may be off by `Rounding` parts, as the additions of doubles are.

`PROJECT.json` ("map") names the lines of each definition.

## 3. What is checked

| run | asks | answer |
|---|---|---|
| `scheduler` | do the queue and the slots implement `TimerService`; is anything ever overdue; may idle skip warp to the next event? | holds |
| `ai` | do slots, count and carry implement `AudioFifo`, with one completion pending and AI_LENGTH counting down to 0 exactly when idle? | holds |
| `power_cycle` | all sources on one line over several games, and PI alone with overlapping transfers of several lengths: no interrupt without a cause, an owner for every event and none in an earlier game, PI_STATUS in step with MI, no line lowered as a side effect, and does a poller of DMA_BUSY get out? | holds |
| `rsp_task` | is a running RSP always scheduled, does the event that is left over leave a halted one idle, does a break reach the CPU, does tick() return? | holds |
| `cpu` | *code:* with every writer of code calling the whole hook, does any cache hold a stale word of a block's own page, does the hint or the page mark ever lie? *flow:* do interpreter, blocks and dispatcher together implement `MipsFlow`? *tlb:* is the soft TLB the TLB, does a refill cure its miss? *slice:* do timers and COMPARE keep time? *fields:* is the VI interrupt of an untouched field set at V_INTR: once, twice if V_INTR names the last half-line, never if it names none? | holds |
| `host` | *rdp:* are commands handed on as streamed, does the CPU never see memory the GPU has yet to write? *screen:* is a changed picture, or one shown by changed registers, ever skipped? *audio:* does the ring implement `AudioQueue`? | holds |
| `algorithms` | *isa:* do both engines agree, is RDRAM big-endian to the guest's stores and loads? *fpu:* do the register modes and formats agree? *vu, vumem:* do both vector units agree, do sequences compute on two-lane numbers, do paired moves add up? *rsp:* does the RSP execute what IMEM holds, and like the CPU? | holds |
| `pi_stop` | does RESET_DMA stop the transfer, as the comment says? | **no** |
| `code_inline` | is a block fresh when another block's inlined store writes code? | **no** |
| `cpu_likely` | does the interpreter forget the slot of a likely branch that is not taken? | **no** |
| `idle_budget` | do idle warps stay within the slice, as the header says? | **no** |
| `rdp_sync` | does the CPU wait for every draw it looks at, when it looks between a draw and its FULL_SYNC? | **no** |

The five answers "no" are in `PROJECT.json` ("findings"), each with the line of
the repository that says otherwise. Every property of a passing run has a
mutant, a plausible bug under which TLC finds it violated.

### Restrictions of the passing runs

Some passing runs restrict the guest on purpose; the result is then the
*discipline under which* the property holds, and the restriction is a constant,
so that one can drop it and look at the counterexample.

| constant | checked with | without it |
|---|---|---|
| `HelperAddr`, `InlineAddr`, `SiRange`, `DmaRange` (CodeCache) | the first three on data only; no DMA of up to 8 bytes crosses a page | stale blocks (`code_inline`), and stale words in the interpreter's cache after a store by a helper |
| `LikelyIn` (CpuFlow) | likely branches in compiled code only | `cpu_likely` |
| `LikelyFpu`, `NestedFpu` (CpuFlow) | FALSE | BC1xL annuls the slot before the unusable FPU is noticed; a second fault inside a handler does not change EXL and goes unseen by `do_fpu`: `BlockInStep` fails |
| `AnyRead` (SoftTlb) | TLBR of entries of the current ASID only | TLBR changes the ASID without emptying the soft TLB: `SoftTlbFresh` fails |
| `WideSra` (Isa) | SRA of sign-extended words only | the interpreter shifts 64 bits, the dynarec 32: `EnginesAgree` fails |
| `WaitsForSync` (Rdp) | the CPU looks at memory when no draw is without its FULL_SYNC | `rdp_sync` |
| `Orderly` (Rdp), an ASSUME of `MC_Host` | lists, and what compiled blocks access inline (`InlineAccess`), lie apart from what is drawn and loaded; a range that starts inside another lies in it | `mark_dirty` skips a range whose first granule is dirty, and an inlined access is never checked: `SyncedBeforeSeen` fails |
| `OncePerField`, `FramesFail` (Screen) | VI_ORIGIN changes once per field, the swapchain has an image | a picture drawn and left, or a field whose frame could not begin, counts as shown |
| `SettledMode` (Screen) | the registers other than VI_ORIGIN change before the first picture only | `present_field` compares the origin alone: a new width, scale or pixel size is not shown until something is drawn or written |
| `ViValues` (Screen) | VI_ORIGIN is not set to 0 or 0x280 | a field shown by force without a picture leaves a later one to count as a duplicate |
| `InlineStores`, `MarkedLines` (Screen) | the dynarec's inlined stores stay out of pictures, and pictures within the 480 lines that `maybe_mark_vi_fb_dirty` looks at | such stores mark nothing, and a picture drawn by the CPU is taken for a duplicate: `SkippedIsShown` fails |

Frame interpolation, with which no field is skipped, is off.

Two facts were checked as violations before and are now kept as notes of the
hazards: after a restart IP2 may be low although MI still shows an enabled line
(`MI::reset` is empty), and a delay slot on the next page is compiled into a
block whose page is not marked.

### Bounds

* *Scheduler.* Two queue cells and two slots are enough for a tie within the
  queue, a tie between slots and a tie between the two mechanisms; delays and
  ticks of 0 to 2 make events due at once, later, and passed by more than one
  tick. `MaxTime` only ends the behaviours.
* *Ai.* A page of 16 bytes with buffers of 8 and 16 makes ends on and off a
  page. The rates give durations of several cycles; ticks are shorter and
  longer than a buffer.
* *Interfaces and Pi.* With all devices, one aligned length per device: here the
  interleaving matters. With PI alone, misaligned addresses and lengths around
  the shortening rule give delays of 0 to 2 and overlapping transfers; DRAM
  wraps at 16 bytes. The cells of the queue are symmetric.
* *RspTask.* Turns of one or two instructions; every flag of SP_STATUS that the
  RSP's control depends on is written in some combination, among them the
  meaningless set-and-clear of halt.
* *CodeCache.* Two pages of code and one of data, two words each, blocks of up
  to two instructions: a block can end by a branch, by a full block between a
  branch and its delay slot, by an untranslatable word and by the page, and a
  delay slot can be on the next page.
* *CpuFlow.* Five words on a ring, two of them the vectors: a branch can aim at
  any word, its own slot and the vectors too; blocks of three operations hold a
  branch, its slot and one more.
* *SoftTlb.* Two entries, four pages of which two are kernel pages, one slot per
  soft table: every note displaces another, entries of 4 and 16 KiB overlap.
* *Slice.* A batch of 3, blocks of 2, warps of 2 to 7, slices of 2 and 6 and
  timers of 0 and 6 cycles: timers outlive a slice, fall due inside a batch and
  inside a warp; COUNT wraps at 10.
* *Fields.* Fields of 1, 2 and 3 half-lines and V_INTR even, odd, within and
  beyond the field.
* *Isa, RspCore.* One bit to a byte keeps the structure (four bytes to a word,
  eight to a register, sign extension at 1, 2 and 4 bytes) with 256 register
  values; programs of two instructions over all of them. RDRAM is two pages. Three
  registers beside register 0: two sources and a destination can all differ.
* *Fpu.* Words of four bits, four registers, programs of three instructions,
  with FR changed in between.
* *Vu.* Lanes of three bits. The six registers are those of the sequences on pairs;
  programs are single instructions, pairs whose second instruction takes a carry or a
  comparison, and the four multiplications of a product. The registers are rotations of 0 to 7, so that the
  eight lanes of one instruction meet every pair of operands, and over the
  instances every pair of two-lane numbers. The contents of the reciprocal
  tables are a parameter (`Reciprocal`), the same for both units as in the code.
* *VuMem.* The element sizes are those of the code; 128 bytes of memory, every
  address for the paired moves.
* *Rdp.* Lists of up to eight units in RDRAM and DMEM that cut a two-unit
  command, draw to two places and end in FULL_SYNC; five register writes, so
  that a draw is enqueued behind a FULL_SYNC that is still pending.
  Two granules are accessed inline.
* *Screen.* Pictures at two addresses, one or two lines of one pixel or of none, blank,
  in 16 and in 32 bits; hooked writes to either line and outside the pictures, inlined
  stores right before and right after them; `MarkedLines` is the greatest height.
* *AudioRing.* A ring of five frames wraps and overflows; rates above and below
  the device's; a step of 4 to 14 parts may be off by one (`Scale` 2, `Rounding` 1), far
  more than with doubles, so that pushes of one length make different numbers of
  frames; `MaxMade` ends the behaviours.

### Fairness

Only `rsp_task` checks liveness. `RspFairSpec` says that a turn goes on
(`WF(RspTurn)`: a loop on the host) and that `tick()`'s loop goes on
(`WF(OnSpEvent \/ TickEnd)`, the same). Nothing is assumed of the guest. That
`tick()` returns then rests on the cost of a turn: the shortest one, of one
instruction, still costs a cycle, so each event re-armed inside the loop is in
the future.

### Deadlock

Checked everywhere except in `MC_Algorithms` and `MC_Host`, whose behaviours are
programs, lists and streams of bounded length and really end.

## 4. What is proved

TLAPS checks the theorems below for every value of the constants that satisfies
the named ASSUMEs of the modules. Those say no more than that sizes are natural
numbers, that divisors are positive, that the CPU clock is at least the DAC
clock, that lengths written to AI are multiples of 8 (the code masks them), that
memories start at address 0 and that the callbacks used exist. `Isa` adds that
instructions and the start have their types, that there are registers 1 and 2, and
that RDRAM is no larger than the unmapped segment, half of what a word addresses
(8 MiB and 2 GiB in the code); `RspCore` that the RSP's memories are whole
doublewords, that its decoder yields instructions, and that the number of words is a
multiple of the number of bits in a word (2^32 and 32), so that cutting a register to
a shift amount does not see its upper half; `Vu` that a lane has two bits at least and
that the reciprocal tables hold lanes. Where a theorem
needs a discipline of the guest as well, it says so after its own ASSUME, and
the paragraph below names it. The bounds of TLC (`MaxTime`, `MaxTick`,
`EventId`) are constants like the others, so the theorems hold for any of them.

**`TimingProofs`.** For the scheduler: `SchedTypeCorrect`, `SchedNothingOverdue`,
`SchedIdleWarpIsSilent`, `SchedulerImplementsTimerService`. That nothing is
overdue is not visible from `TickEnd` alone, which only says that
`dispatch_one_due` found nothing: one must know that the minimum of the queue
and the minimum of the slots exist, and that one of them is then offered
(`QueueHasTop`, `ArmedHasBest`, `LoopEndsClean`). This rests on the
well-foundedness of the naturals and on `SchedTypeOK`, which is the inductive
invariant. The refinement is by cases on the operations.

For fields: `FieldsCorrect`, from an invariant that counts: after n
half-lines the interrupt was set once if V_INTR names one of them (`SetBy`), and
V_CURRENT is the last one's when the field ends.
For slices: `SliceKeepsTime` and `CompareNoticed`, from one invariant. What
scheduler time and machine time disagree by for an armed timer (`Lag`) is fixed
when it is armed, and passing cycles, flushing a batch and warping leave it
alone; that is why batches do not add up. A block is entered only with nothing
overdue (`NotOverdue`), so it is late by its own length at most; the dispatcher's single
steps, which do not look, are one cycle each, so that the batch is full and flushed
before they add up (`OneCycle`). A warp is
bounded by the distance to COMPARE except at distance 0, where the instruction
before it has raised the interrupt (`AddCountNotices`).

**`InterfacesProofs`.** `SessionIp2Coherent`, `PowerCycleIp2NeverSpurious`,
`PowerCycleOwners`, `PiBusyHasCompletion`, `PiStatusAgreesWithMi`,
`PowerCycleKeepsLines`. Every handler either leaves MI alone or establishes
`Ip2Coherent` whatever held before (`Settles`): so coherence is inductive by
itself, and a restart, the only step that does neither, can only lower IP2.
`EveryEventHasAnOwner` counts: AI's events are one while a buffer plays and none
otherwise (`OwnersInv`: popping the only one must leave none behind when the FIFO runs
empty), and PI's are the transfers of this game that have begun and not completed. A
transfer that RESET_DMA was to stop is among them, for the code completes it
(`pi_stop`); one of an earlier game is not. That DMA_BUSY is set while one is pending
holds until transfers overlap or are reset. `PiStatusAgreesWithMi` says that the two
copies of the PI interrupt agree in both directions, except that after RESET_DMA or a
restart MI may hold it alone, until CLR_INTR or the next completion. What there is to
show is that the other devices neither pop PI's events nor touch its line
(`OthersKeepPi`, `AiKeepsPi`).

For the AI: `AiTypeCorrect`, `AiTimerCorrect`,
`AiLengthCorrect`, `AiLengthFalls`, `AiImplementsAudioFifo`. The invariant
`AiInv` adds to `AiTimerMatchesFifo` that the buffers in the FIFO are not empty
and, for `AI_LENGTH`, that between ticks the completion lies strictly ahead
(`CompletionIsAhead`), which is `LoopEndsClean` again. `CyclesArePositive`
shows that a buffer always takes time and `BytesLeft`, `BytesLeftFall` do the
rounding of `bytes_remaining`. For the ring: `RingImplementsQueue`, with no
hypothesis on the guest or the device. `AudioInv` says where the resampling position
may be (`PositionInBounds`: as many steps after the start as frames were made since the
frequency was set, each of them right up to its rounding) and where the two ends of the
ring are in the sequence of frames (`RingInv`). It follows that however a sound is cut
into pushes, no more rounding adds up than that of its steps. The step that is not
obvious is the write under the lock when more frames arrive than the ring or the
latency limit holds: what is dropped are the newest frames of that push, and the
indices still name a contiguous stretch after wrapping.

**`RspProofs`.** `RspTypeCorrect`, `RspRunningHasEvent`, `RspHaltedStaysIdle`,
`RspBreakIsShown`. `RunningHasEvent` is inductive: every way out of a turn arms
the event, only halting cancels it, and the event halts the RSP or starts a
turn. The last two follow from the guards of the single steps; they are worth
stating because those guards are spread over four functions.

For the scalar unit: `RspExecutesImem` and `RspComputesAsTheCpu`, for memories of
any size, any decoder and any transfers. The invariant is that IMEM and the decoded
words have their types and agree. A DMA writes rows that wrap at the end of the
memory and decodes again, row by row, the words each row touched (`RowNoted`); a
store of the CPU decodes the one word it wrote. The second theorem compares
registers of one word with registers of two: the low word of what each of the CPU's
handlers leaves is the operation on low words, since sums, bitwise operators and
shifts to the left do not look at what lies above, and the others start from a
sign-extended word. A branch is taken in the same cases and to the same offset.

**`CpuProofs`.** For the code caches: `CacheTypeCorrect`, `HintCorrect` and
`MarksCorrect` need no assumption on the guest; their invariant is `CacheInv`, with
the bounds of `BlockLength` (`BlockInRdram`) for the type. `BlocksStayFresh` assumes
the discipline `CodePagesAreHooked` on the constants: what calls no hook keeps off
pages with entry points, and no DMA of at most two words crosses a page. `FreshInv`
adds that blocks start at entry points only. The interpreter's cache is treated word
by word: `StaleOnlyWhereUnhooked` has no assumption and says that a stale word is
one that a writer without the full hook writes; `InterpreterStaysFresh` is its
special case without such writers. The violation runs show that neither discipline
is enforced by the code.

For the TLB: `SoftTlbCorrect`, `RefillCorrect`. `SoftTlbCorrect` assumes `~AnyRead`
and nothing else of the guest. The TLB's answer depends on the entries and on the
ASID alone (`AnswerStays`); an access adds an answer of the moment (`NotedIsFresh`),
and every other step keeps both or empties the tables. The types that this needs
(`TlbShape`) are inductive by themselves. `RefillCorrect` says that a written entry
matches the page EntryHi names, because rounding VPN2 to the page size twice is
rounding it once (`RoundedQuotient`), and that a set of matching indices has a least
one (`MinIsMember`).

For the flow of control: `BlocksRunInStep` and `EnginesFollowMips`, for any number
of words, length of blocks, choice of instructions and place of interrupts.
`FlowInv` ties the three program counters to the flags in every mode: outside
a block `next_pc` follows `pc` except in a slot, and inside one the address an
operation was compiled from is `pc` and a slot is the block's last operation.
That is why the emitter may know statically what the interpreter reads from
`delay_slot`. The hypothesis `FpuFaultsAreSeen` (neither of the two FPU cases of
the table above) is needed by both, `"interp" \notin LikelyIn` by the refinement.
`CompiledLikelySkips` is the counterpart of the run `cpu_likely`: in compiled
code alone the annulled slot is never what an exception returns to; it needs two
words at least, since on a ring of one word the slot is the branch.

For the FPU: `HalvesShareRegisters` and `SinglesAreDoubles`, for any even number of
registers above two, words of any even number of values (eight at least, which FCR31
needs) and any program. The invariant `FpuInv` is that registers, control fields and
memory have their types; the properties speak of what the code does next in any
such state. The step behind the first is `StepKeepsRegisters`: with FR clear every
write goes through `Even` (`WritesKeep`), exceptions and compares included. Behind
the second are `WidenedValue` (a single is written and read back as a double without
loss, the quiet NaN by the same pattern) and `ComparesAgree` (the compare written
out a second time for doubles is the same). What arithmetic computes is left
open in the model and needs nothing here.

**`BitOpsProofs`.** No theorem of its own, but what the next two modules count with.
The library's theorems on recursive definitions and on induction take operators as
parameters, which the provers cannot instantiate. So induction is restated with the
*set* of the numbers that have a property (`InductionOn`), and that `Pow2` and the
bitwise operators are the functions their equations describe is proved from it,
through the functions on ever larger initial segments (`Recursion`). The rest are
ranges and bounds of the operators and laws of remainders.

**`EngineProofs`.** `EnginesInterchangeable`: for any width of a byte, number of
registers, RDRAM, TLB contents, start and program, the interpreter's handlers and
the emitted code leave the same machine after every instruction. The one hypothesis
is `~WideSra`: SRA of a register that is no sign-extended word is where the two
really differ (table in section 3). That the engines agree is an invariant only of
well-formed machines, and that the interpreter keeps by itself (`TypesInvariant`),
so the proof compares one instruction of both engines on one well-formed machine.
Interpreted code extends words and then operates on 64 bits, emitted code operates
on 32 and then extends; `Low` and `Sign` depend on a remainder only, so that either
order gives the same register (`PartsExtend`, `SextRules`, `LowOfSum`).
`RdramBigEndianMemory`: stores of every width put the bytes of the register at their
addresses and leave all others alone, loads of every width read them, and LWL with LWR
reads a word at every offset, across words too (`TwoParts`).

**`VectorProofs`.** For the moves: `PairsOfMovesAddUp`, for any contents of
registers and memory, any memory of whole quadwords with room for eight, and any
sequences of moves. The invariant `VuMemInv` keeps account of what the first two
moves have done and, for a transposition, how far it has come after n of its
fourteen moves (`Transposed`): the first seven store diagonals to quadwords that do
not meet, even round the end of the memory (`PlaceOfCell`), and the others load
them, each lane once. `PlaceMoved` does the arithmetic of an address that wraps
between LQV and LRV or between SQV and SRV.

For the computations: `ComputationsAgree`, for any width of a lane, any registers
and any program. The invariant `VuInv` adds the types. The proof goes lane by lane.
The scalar engine forms a sum on integers and cuts it into slices; the other one
never has more than a lane in hand. `MultiplyIs` reduces a multiplication to the
three digits of its sum; `AddedResult` says that slices with the carries of
`CarryMask` are those digits, and each group of multiplications supplies its product
in that form. The delicate cases have lemmas of their own: the square of the least
fraction (`RoundedAgrees`), the middle addend that wraps before its carry is taken
(`AccumulatedAgrees`), the least number in VABS, and the signs of VCH (`ClipAgrees`).

`SequencesComputeOnWords`: the sequences on numbers of two lanes compute what one
instruction on the whole numbers would, for any width of a lane. A sequence is
correct only by what its instructions hand on, so the invariant `PairInv` names that
for every step: the carry of the lower halves (`LowAdded`, `LowTaken`), which flags
VCH leaves for VCL (`ClipFlags`), or the partial sum of the products so far
(`PartialSum`). Sums are proved under the condition that the result fits, which the
property states; the accumulator holds the product of any two numbers
(`TermBounds`), and division by a lane distributes over the partial products
(`WholeProduct`).

**`VideoProofs`.** `StreamsAreWhole` has no hypotheses: for any memory, buffer
size and sequence of START, END, freeze and XBUS, the commands handed on are
those of the stream of units fed. `Split` may cut a buffer anywhere
(`SplitConcat`), so what the lists leave over joins up. `CoveredDrawsAreAwaited`
says that no access sees memory that a covered draw has still to write, if the
game waits for its FULL_SYNC before it looks (`WaitsForSync`) and its lists are
`Orderly`, which also keeps what compiled blocks access inline off what is drawn
(`InlineIsApart`). The marks are then `Lawful`: every unfinished draw lies in them, the
span of `dirty_min` and `dirty_max` holds them, they are closed (a range that
starts in them lies in them, which is what makes `mark_dirty`'s early return
harmless), and without a pending signal nothing covered is unfinished. `Placed` keeps
the list itself out of the marks, so that fetching it does not synchronise.
`MC_Host` satisfies `Orderly` by an ASSUME that TLC evaluates.
`SkippedFieldsAreShown` assumes `SteadyVi`, the four rows on `Screen` of the table
above; its invariant says that while the last field counts as presented, it was scanned
out with the registers as they are but for the origin and, if no dirty flag is set, that
nothing of the picture at the last origin has been drawn or written. Facts about sequences of any length are proved with a lemma
`Induction` that takes the *set* of the numbers with the property, since the library's
takes an operator; it rests on the well-foundedness of the naturals.

Checked by TLC only: `TickReturns`, the one liveness property, since fairness is out
of the provers' reach. Every other property of a passing run is a theorem. The type
invariants of Scheduler, Ai, RspTask and CodeCache are proved and not checked in a
run of their own.

## 5. What is not modelled

* The results of FPU arithmetic (left open in `Fpu`), register allocation and
  x64 encodings of the code generator, the reciprocal tables' contents.
* Direct block linking and the hot paths of the interpreter that repeat its
  decode tables: modelled once, by what the general path does.
* Supervisor and XKPHYS segments, cartridge and save-type decoding, the joybus
  protocol of PIF and controllers, boot code: sequential conversions of inputs.
* The SP semaphore and the double-buffered DMA registers of the RSP;
  `dma_busy` of SP_STATUS, which the code never sets, and with it
  `run_after_dma_`.
* Pixels, texels and samples. No control depends on them.
* Frame interpolation, swapchain and shaders, UI, debugger, configuration,
  vendored libraries: they show the machine and do not feed back into it.

## 6. Plan

All modules and theorems of the original plan are written: Scheduler, Mi, Pi,
Ai, Interfaces, RspTask, CodeCache, SoftTlb, Slice, Fields, Rdp, Screen,
AudioRing, and the instruction modules, which were not in it.

What could still be added, in the order of use: PIF and the joybus protocol with
its busy handshake; the SP semaphore; direct block linking with its unlink on
invalidation.

------------------------------- MODULE CpuFlow -------------------------------
(* PC, delay slots, exceptions and the two engines that run the R4300: step_one of *)
(* the interpreter (cpu/cached_interp.cpp, cpu/cpu.cpp) and compiled blocks with   *)
(* their dispatcher (cpu/jit/jit.cpp, emit_x64.cpp, helpers.cpp).                  *)
(*                                                                                *)
(* A word holds any instruction: what memory holds is not of interest here. One    *)
(* step is one instruction, the service of an interrupt, or one decision of the    *)
(* dispatcher. An instruction that is undefined in a delay slot (a branch, ERET)   *)
(* is not put there.                                                               *)
EXTENDS Naturals, FiniteSets

CONSTANTS NumWords, Refill, General, NoPc,
          MaxOps,     \* instructions in a block (128)
          LikelyIn,   \* engines that meet likely branches
          NestedFpu,  \* whether a handler running with EXL uses an unusable FPU in compiled code
          LikelyFpu   \* whether a likely FPU branch meets an unusable FPU in compiled code

ASSUME FlowAssumption ==
    /\ NumWords \in Nat \ {0} /\ Refill \in 0 .. NumWords - 1 /\ General \in 0 .. NumWords - 1
    /\ NoPc \notin Nat /\ MaxOps \in Nat \ {0}
    /\ LikelyIn \subseteq {"interp", "jit"}

VARIABLES pc, nextPc, prevPc,
          delaySlot, prevDelaySlot,
          exl, epc, bd,   \* Status.EXL, EPC and Cause.BD
          annul,          \* ExecState.annul_delay_slot
          mode,           \* out: between steps; fetch, handler: inside step_one, the latter
                          \* after an interrupt; block: inside compiled code
          opAt, left,     \* the word the next operation of the block was compiled from,
                          \* and the operations left
          skipped         \* history: the slot annulled by the last instruction, or NoPc

pcVars == <<pc, nextPc, prevPc>>
excVars == <<exl, epc, bd>>
blockVars == <<opAt, left>>
cpuVars == <<pc, nextPc, prevPc, delaySlot, prevDelaySlot, exl, epc, bd, annul, mode, opAt, left, skipped>>

PcWord == 0 .. NumWords - 1
After(w) == (w + 1) % NumWords
Before(w) == (w + NumWords - 1) % NumWords

----------------------------------------------------------------------------
\* Cpu::reset, and the PC the boot code starts at.
CpuInit ==
    /\ pc = 0 /\ nextPc = After(0) /\ prevPc = 0
    /\ delaySlot = FALSE /\ prevDelaySlot = FALSE
    /\ exl = FALSE /\ epc = 0 /\ bd = FALSE
    /\ annul = FALSE /\ mode = "out" /\ opAt = 0 /\ left = 0
    /\ skipped = NoPc

\* handle_exception, for the word at `from`, which is in a delay slot or not.
MutRaise(kind, from, inSlot, before) ==
    /\ epc' = IF exl THEN epc ELSE from
    /\ bd' = IF exl THEN bd ELSE inSlot
    /\ exl' = TRUE
    /\ LET vector == IF kind = "miss" /\ ~exl THEN Refill ELSE General IN
       pc' = vector /\ nextPc' = After(vector) /\ prevPc' = before
    /\ skipped' = NoPc

Raise(kind, from, inSlot, before) ==
    /\ epc' = IF exl THEN epc ELSE IF inSlot THEN Before(from) ELSE from
    /\ bd' = IF exl THEN bd ELSE inSlot
    /\ exl' = TRUE
    /\ LET vector == IF kind = "miss" /\ ~exl THEN Refill ELSE General IN
       pc' = vector /\ nextPc' = After(vector) /\ prevPc' = before
    /\ skipped' = NoPc

\* advance_pc_no_fetch without the flags: what every instruction starts with.
Advance == prevPc' = pc /\ pc' = nextPc /\ nextPc' = After(nextPc)

\* The instructions. `inSlot` is prev_delay_slot while the instruction runs.
Plain == Advance /\ delaySlot' = FALSE /\ skipped' = NoPc /\ UNCHANGED <<excVars, annul>>

\* branch_addr64, taken or not.
BranchTo(inSlot) ==
    /\ ~inSlot
    /\ prevPc' = pc /\ pc' = nextPc
    /\ \E t \in PcWord : nextPc' = t
    /\ delaySlot' = TRUE /\ skipped' = NoPc
    /\ UNCHANGED <<excVars, annul>>

\* branch_likely_addr64, not taken (taken, it is a branch). Compiled code marks the
\* slot as annulled, the interpreter does not.
LikelyNotTaken(engine, inSlot) ==
    /\ engine \in LikelyIn /\ ~inSlot
    /\ prevPc' = nextPc /\ pc' = After(nextPc) /\ nextPc' = After(After(nextPc))
    /\ delaySlot' = TRUE /\ skipped' = nextPc
    /\ annul' = (annul \/ engine = "jit")
    /\ UNCHANGED excVars

Likely(engine, inSlot) ==
    \/ LikelyNotTaken(engine, inSlot)
    \/ engine \in LikelyIn /\ BranchTo(inSlot)

\* A load, store, trap or unusable coprocessor: the exception names prev_pc.
Fault(kind, inSlot) == Raise(kind, pc, inSlot, nextPc) /\ delaySlot' = FALSE

Eret(inSlot) ==
    /\ ~inSlot
    /\ exl' = FALSE
    /\ pc' = epc /\ nextPc' = After(epc) /\ prevPc' = nextPc
    /\ delaySlot' = FALSE /\ skipped' = NoPc
    /\ UNCHANGED <<epc, bd, annul>>

----------------------------------------------------------------------------
(* step_one. A step inside compiled code or of the dispatcher never runs between   *)
(* its two halves.                                                                 *)

Interruptible == ~exl

StepBegin ==
    /\ mode = "out" /\ ~(delaySlot /\ annul)
    /\ prevDelaySlot' = delaySlot /\ delaySlot' = FALSE
    /\ \/ /\ Interruptible
          /\ Raise("other", pc, delaySlot, pc)
          /\ mode' = "handler"
       \/ mode' = "fetch" /\ UNCHANGED <<pcVars, excVars, skipped>>
    /\ UNCHANGED <<annul, blockVars>>

FetchMiss ==
    /\ mode \in {"fetch", "handler"}
    /\ \E k \in {"miss", "other"} : Raise(k, pc, prevDelaySlot, pc)
    /\ mode' = "out"
    /\ UNCHANGED <<delaySlot, prevDelaySlot, annul, blockVars>>

ExecuteOne ==
    /\ mode \in {"fetch", "handler"}
    /\ mode' = "out"
    /\ LET inSlot == mode = "fetch" /\ prevDelaySlot IN
       \/ Plain
       \/ BranchTo(inSlot)
       \/ Likely("interp", inSlot)
       \/ Eret(inSlot)
       \/ \E k \in {"miss", "other"} : Fault(k, prevDelaySlot) /\ UNCHANGED annul
    /\ UNCHANGED <<prevDelaySlot, blockVars>>

----------------------------------------------------------------------------
(* The dynarec. Its dispatcher may fall back on step_one at any point (a delay slot, *)
(* an unmapped PC, boot code in DMEM, an instruction it does not translate).         *)

DropAnnulled ==
    /\ mode = "out" /\ delaySlot /\ annul
    /\ delaySlot' = FALSE /\ annul' = FALSE
    /\ UNCHANGED <<pcVars, prevDelaySlot, excVars, mode, blockVars, skipped>>

DynaInterrupt ==
    /\ mode = "out" /\ ~delaySlot /\ Interruptible
    /\ prevDelaySlot' = FALSE
    /\ Raise("other", pc, FALSE, pc)
    /\ UNCHANGED <<delaySlot, annul, mode, blockVars>>

\* From the outer loop or by linking from the block before.
EnterBlock ==
    /\ mode = "out" /\ ~delaySlot
    /\ prevDelaySlot' = FALSE /\ annul' = FALSE
    /\ mode' = "block"
    /\ opAt' = pc /\ left' \in 1 .. MaxOps
    /\ UNCHANGED <<pcVars, delaySlot, excVars, skipped>>

Leave == mode' = "out"
Continue == mode' = IF left = 1 THEN "out" ELSE "block"

\* A branch is the last operation but its slot, or the very last of a full block.
EndsBlock == left <= 2

MutFpuFault ==
    /\ exl => NestedFpu
    /\ Fault("other", delaySlot) /\ UNCHANGED annul
    /\ Continue

\* do_fpu and do_bc1 leave the block if EXL has risen.
FpuFault ==
    /\ exl => NestedFpu
    /\ Fault("other", delaySlot)
    /\ \/ UNCHANGED annul
       \/ LikelyFpu /\ EndsBlock /\ annul' = TRUE
    /\ IF exl THEN Continue ELSE Leave

Operation ==
    /\ mode = "block"
    /\ prevDelaySlot' = delaySlot
    /\ opAt' = After(opAt) /\ left' = left - 1
    /\ \/ Plain /\ Continue
       \/ EndsBlock /\ BranchTo(delaySlot) /\ Continue
       \/ EndsBlock /\ LikelyNotTaken("jit", delaySlot) /\ Leave
       \/ \E k \in {"miss", "other"} : Fault(k, delaySlot) /\ UNCHANGED annul /\ Leave
       \/ FpuFault

CpuNext ==
    \/ StepBegin \/ FetchMiss \/ ExecuteOne
    \/ DropAnnulled \/ DynaInterrupt \/ EnterBlock \/ Operation

CpuSpec == CpuInit /\ [][CpuNext]_cpuVars

----------------------------------------------------------------------------
(* Properties.                                                              *)

\* An operation of a block runs at the PC it was compiled for, with the flag of the
\* branch before it and no other: exceptions, annulled slots, block ends and links
\* leave none behind. (cpu/jit/emit_x64.cpp emit, cpu/jit/jit.cpp Dynarec::run)
BlockInStep ==
    mode = "block" =>
        /\ opAt = pc /\ ~annul
        /\ ~delaySlot => nextPc = After(pc)

\* Through either engine, and through any alternation of both, a program sees the
\* control flow of a MIPS: after an exception it resumes at the faulting instruction,
\* or at the branch of its slot, and the slot of an untaken likely branch is not run.
\* (cpu/cpu.cpp handle_exception and branch_likely_addr64, cpu/cached_interp.cpp
\* step_one_core, cpu/jit/jit.cpp Dynarec::run)
Flow == INSTANCE MipsFlow WITH
    at <- pc, saved <- epc,
    slot <- IF \/ delaySlot /\ ~annul
               \/ mode = "fetch" /\ prevDelaySlot
            THEN nextPc ELSE NoPc,
    None <- NoPc, Words <- NumWords
ImplementsMipsFlow == Flow!FlowSpec

\* The slot of an untaken likely branch is not what an exception returns to: "Execute
\* the delay slot only when the branch is taken." (cpu/cpu.cpp:110, branch_likely_addr64)
AnnulledSlotStaysSkipped ==
    [][skipped # NoPc /\ exl' /\ ~exl => epc' # skipped]_cpuVars
=============================================================================

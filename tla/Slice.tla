-------------------------------- MODULE Slice --------------------------------
(* Time. A slice of CPU work (one half-line) runs in CachedInterp::run or in        *)
(* Dynarec::run; COUNT advances with the instructions, the scheduler in batches,    *)
(* and idle loops are warped over (cpu/cached_interp.cpp, cpu/jit/jit.cpp,          *)
(* cpu/idle_skip.cpp, cpu/cpu.cpp add_count).                                       *)
(*                                                                                 *)
(* Clocks are kept as distances. One timer stands for each of the scheduler's: the  *)
(* others only end a batch or a warp earlier, which a smaller one does as well.     *)
EXTENDS Integers

CONSTANTS AdvanceEvery,  \* cycles in a batch (kAdvanceEveryCycles, 1024)
          MinWarp,       \* the shortest warp (4)
          MaxWarp,       \* the longest warp (2^20)
          BlockMax,      \* cycles of a compiled block (MAX_BLOCK_INSNS, 128)
          Budget,        \* cycles of a slice: cycles_per_half_line, or what is left of one
          Delay,         \* delays of the timers the guest arms
          CountMod,      \* values of the PClock counter behind COUNT (2^33)
          CompareAt,     \* distances from COUNT at which the guest puts COMPARE
          NoTimer, Infinite

ASSUME SliceAssumption ==
    /\ {AdvanceEvery, MinWarp, MaxWarp, BlockMax, CountMod} \subseteq Nat \ {0}
    /\ Budget \subseteq Nat \ {0} /\ Delay \subseteq Nat
    /\ CompareAt \subseteq 0 .. CountMod - 1
    /\ Infinite \in Nat /\ \A n \in Budget \cup Delay \cup {MaxWarp, CountMod} : n < Infinite
    /\ NoTimer \notin Int

VARIABLES engine,   \* interp or jit
          running,  \* inside run()
          clk       \* total, budget, pending: the locals of run(); left, idle: the idle
                    \* budget and the queued warp; due: cycles of scheduler time to the
                    \* timer, want: cycles of machine time it should still take, error:
                    \* by how much the last one was late; toCompare, ip7: the CPU timer,
                    \* late: by how much the last step went past COMPARE, with IP7 not yet up

sliceVars == <<engine, running, clk>>

----------------------------------------------------------------------------
\* Cpu::add_count: the edge is where COUNT meets COMPARE, at either end of the step.
MutAddCount(c, n) ==
    [c EXCEPT !.toCompare = (@ - n) % CountMod, !.ip7 = @ \/ c.toCompare = n,
              !.late = IF ~c.ip7 /\ c.toCompare <= n THEN n - c.toCompare ELSE 0]

AddCount(c, n) ==
    [c EXCEPT !.toCompare = (@ - n) % CountMod, !.ip7 = @ \/ c.toCompare <= n,
              !.late = IF ~c.ip7 /\ c.toCompare <= n THEN n - c.toCompare ELSE 0]

\* advance_after_cpu and the scheduler's tick: what is due is dispatched.
Tick(c, n) ==
    IF c.due = NoTimer THEN c
    ELSE IF c.due > n THEN [c EXCEPT !.due = @ - n]
    ELSE [c EXCEPT !.due = NoTimer, !.want = 0, !.error = -c.want]

MutFlush(c) == Tick(c, c.pending)
Flush(c) == IF c.pending = 0 THEN c ELSE [Tick(c, c.pending) EXCEPT !.pending = 0]

\* Machine time passes: the instructions of n cycles were executed.
Pass(c, n) == IF c.due = NoTimer THEN c ELSE [c EXCEPT !.want = @ - n]

Consume(c, n) == [c EXCEPT !.left = IF n >= @ THEN 0 ELSE @ - n]

Lesser(a, b) == IF a < b THEN a ELSE b

\* cycles_until_next_event and cycles_until_compare.
UntilEvent(c) == IF c.due = NoTimer THEN Infinite ELSE c.due
UntilCompare(c) == IF c.toCompare = 0 THEN Infinite ELSE c.toCompare

\* The length of a warp, 0 for none. With no budget left the budget does not bound it.
Warp(c) ==
    LET quiet == Lesser(UntilEvent(c), UntilCompare(c))
        skip == IF c.left > 0 THEN Lesser(quiet, c.left) ELSE quiet
    IN IF skip < MinWarp \/ skip = Infinite THEN 0 ELSE Lesser(skip, MaxWarp)

\* idle_skip_apply_pending, behind the flush that comes first.
ApplyIdle(c) ==
    IF ~c.idle THEN c
    ELSE LET f == [Flush(c) EXCEPT !.idle = FALSE]
             n == Warp(f)
         IN IF n = 0 THEN f
            ELSE [Consume(Tick(AddCount(Pass(f, n), n), n), n) EXCEPT !.total = @ + n]

\* credit: n cycles were executed and counted.
Credit(c, n) ==
    LET d == Consume([c EXCEPT !.total = @ + n, !.pending = @ + n], n) IN
    ApplyIdle(IF d.pending >= AdvanceEvery THEN Flush(d) ELSE d)

----------------------------------------------------------------------------
(* What the instructions of n cycles do besides: a device register arms a timer    *)
(* (measured from the scheduler's time, which lags), COMPARE is written, an idle    *)
(* branch queues a warp. `at` is the cycle within the n at which they do it.        *)

Arms(c, at, n) ==
    {c} \cup {[c EXCEPT !.due = d, !.want = d + at] : d \in IF c.due = NoTimer THEN Delay ELSE {}}

WritesCompare(c) == {c} \cup {[c EXCEPT !.toCompare = d, !.ip7 = FALSE, !.late = 0] : d \in CompareAt}

Idles(c) == {c, [c EXCEPT !.idle = TRUE]}

Executed(c, n) ==
    UNION {UNION {{Pass(e, n) : e \in Idles(d)} : d \in WritesCompare(b)}
           : b \in UNION {Arms(c, at, n) : at \in 0 .. n - 1}}

----------------------------------------------------------------------------
SliceInit ==
    /\ engine \in {"interp", "jit"} /\ running = FALSE
    /\ clk = [total |-> 0, budget |-> 1, pending |-> 0, left |-> 0, idle |-> FALSE,
              due |-> NoTimer, want |-> 0, error |-> 0, toCompare |-> 0, ip7 |-> FALSE, late |-> 0]

\* idle_skip_begin_slice.
Begin ==
    /\ ~running /\ running' = TRUE
    /\ \E b \in Budget :
          clk' = [clk EXCEPT !.total = 0, !.budget = b, !.left = b, !.idle = FALSE]
    /\ UNCHANGED engine

\* One iteration of CachedInterp::run. The instruction runs, then COUNT advances.
InterpStep ==
    /\ engine = "interp" /\ running /\ clk.total < clk.budget
    /\ \E c \in Executed(clk, 1) : clk' = Credit(AddCount(c, 1), 1)
    /\ UNCHANGED <<engine, running>>

\* Overdue events are flushed before a block is entered, from the outer loop or linked.
FlushDue ==
    /\ engine = "jit" /\ running /\ clk.total < clk.budget
    /\ UntilEvent(clk) <= clk.pending
    /\ clk' = Tick(Flush(clk), 0)
    /\ UNCHANGED <<engine, running>>

\* An instruction left to the interpreter. One in a delay slot runs though an event be
\* overdue; where its fetch misses the TLB, COUNT stays.
Fallback ==
    /\ engine = "jit" /\ running /\ clk.total < clk.budget
    /\ \/ \E c \in Executed(clk, 1) : clk' = Credit(AddCount(c, 1), 1)
       \/ clk' = Credit(Pass(clk, 1), 1)
    /\ UNCHANGED <<engine, running>>

\* A compiled block; it may abort the run.
BlockStep ==
    /\ engine = "jit" /\ running /\ clk.total < clk.budget
    /\ UntilEvent(clk) > clk.pending
    /\ \E n \in 1 .. BlockMax : \E c \in Executed(clk, n) :
          LET d == Credit(AddCount(c, n), n) IN
          clk' = d \/ clk' = Flush([d EXCEPT !.budget = d.total])
    /\ UNCHANGED <<engine, running>>

\* The dispatcher services an interrupt: a cycle that COUNT does not see.
Service ==
    /\ engine = "jit" /\ running /\ clk.total < clk.budget
    /\ UntilEvent(clk) > clk.pending
    /\ clk' = Flush(Credit(Pass(clk, 1), 1))
    /\ UNCHANGED <<engine, running>>

\* What is pending is flushed when run() returns.
End ==
    /\ running /\ clk.total >= clk.budget
    /\ running' = FALSE
    /\ clk' = Flush(ApplyIdle(clk))
    /\ UNCHANGED engine

SliceNext == Begin \/ InterpStep \/ FlushDue \/ Fallback \/ BlockStep \/ Service \/ End

SliceSpec == SliceInit /\ [][SliceNext]_sliceVars

----------------------------------------------------------------------------
(* Properties.                                                              *)

\* A device timer fires at the time it was armed for, give or take a batch and a
\* block, though the scheduler's clock stands still during a batch: one armed in the
\* middle is early, one due in the middle is late, and batches do not add up.
\* (cpu/cached_interp.cpp run, cpu/jit/jit.cpp Dynarec::run, cpu/idle_skip.cpp)
TimersKeepTime ==
    LET slack == IF engine = "interp" THEN AdvanceEvery ELSE AdvanceEvery + BlockMax IN
    /\ -slack <= clk.error /\ clk.error <= slack
    /\ clk.due # NoTimer => clk.want >= -slack

\* COUNT does not pass COMPARE unnoticed, and goes on by less than a block before the
\* CPU timer's interrupt is pending, through blocks and warps of any length.
\* (cpu/cpu.cpp add_count, cpu/idle_skip.cpp idle_skip_apply_pending)
CpuTimerInTime == clk.late <= BlockMax /\ (clk.late > 0 => clk.ip7)

\* "Call at the start of a half-line / Dynarec::run slice so idle warps stay within the
\* remaining guest-cycle budget" (cpu/idle_skip.h:10): a slice exceeds its budget by
\* less than a block.
WarpWithinBudget ==
    running => clk.total < clk.budget + BlockMax
=============================================================================

------------------------------- MODULE RspTask -------------------------------
(***************************************************************************)
(* How the Reality Signal Processor gets its turns (src/rcp/rsp.cpp).      *)
(*                                                                         *)
(* Clearing SP_STATUS.halt runs RSP instructions at once, ahead of guest   *)
(* time, until something the CPU must answer (a sync point), a break, a    *)
(* self-halt or an instruction cap.  The turn is then paid for: the named  *)
(* event Sp fires after 3/2 cycles per instruction, makes a break or a     *)
(* halt visible to the CPU, or starts the next turn.  No CPU instruction   *)
(* and no other event runs during a turn.                                  *)
(*                                                                         *)
(* Vector and scalar computation, DMA contents and the seven other signal  *)
(* bits do not matter here.  dma_busy is never set in the code, so         *)
(* run_after_dma_ is left out.                                             *)
(***************************************************************************)
EXTENDS Scheduler, Mi

CONSTANTS MaxInsns,         \* kMaxInsns
          CpuStatusWrite,   \* what the CPU writes to SP_STATUS: sets of flags
          RspStatusWrite    \* what the RSP writes to it by MTC0

Flag == {"clear_halt", "set_halt", "clear_broke", "clear_intr", "set_intr",
         "clear_sstep", "set_sstep", "clear_intr_on_break",
         "set_intr_on_break", "clear_signal_0", "set_signal_0"}

ASSUME RspAssumption ==
  /\ MaxInsns \in Nat \ {0}
  /\ CpuStatusWrite \cup RspStatusWrite \subseteq SUBSET Flag
  /\ 0 \in NamedId
  /\ "on_sp_event" \in Callback

VARIABLES halt, broke, single_step, intr_on_break, signal_0,  \* status_reg
          broken, task_halted, running_task, sync_point,
          ran,            \* instructions in this turn
          last_signal     \* last_status_signals_

statusVars == <<halt, broke, single_step, intr_on_break, signal_0>>

rspVars == <<statusVars, broken, task_halted, running_task, sync_point, ran,
             last_signal>>

Sp == 0   \* NamedEventId::Sp

RspTypeOK ==
  /\ \A b \in {halt, broke, single_step, intr_on_break, signal_0, broken,
               task_halted, running_task, sync_point, last_signal} : b \in BOOLEAN
  /\ ran \in 0 .. MaxInsns

RspInit ==
  /\ halt = TRUE
  /\ broke = FALSE
  /\ single_step = FALSE
  /\ intr_on_break = FALSE
  /\ signal_0 = FALSE
  /\ broken = FALSE
  /\ task_halted = FALSE
  /\ running_task = FALSE
  /\ sync_point = FALSE
  /\ ran = 0
  /\ last_signal = FALSE

-----------------------------------------------------------------------------
(***************************************************************************)
(* A turn.                                                                 *)
(***************************************************************************)

\* do_task and the entry of run_until_sync.
StartTurn ==
  /\ sync_point' = FALSE
  /\ last_signal' = FALSE
  /\ broken' = FALSE
  /\ ran' = 0
  /\ running_task' = TRUE

TurnOver == sync_point \/ broken \/ task_halted \/ halt \/ ran = MaxInsns

\* Each instruction counts; with single-step set it leaves the RSP halted.
Step ==
  /\ running_task
  /\ ~TurnOver
  /\ ran' = ran + 1
  /\ halt' = single_step'
  /\ UNCHANGED running_task

RspPlain ==
  /\ UNCHANGED <<broke, single_step, intr_on_break, signal_0, broken,
                 task_halted, sync_point, last_signal>>
  /\ UNCHANGED miVars /\ UNCHANGED schedVars
  /\ Step

\* A DMA, or a poll of a taken semaphore or of a busy DPC.
RspSync ==
  /\ sync_point' = TRUE
  /\ UNCHANGED <<broke, single_step, intr_on_break, signal_0, broken,
                 task_halted, last_signal>>
  /\ UNCHANGED miVars /\ UNCHANGED schedVars
  /\ Step

\* take_break.
RspBreak ==
  /\ broken' = TRUE
  /\ sync_point' = TRUE
  /\ UNCHANGED <<broke, single_step, intr_on_break, signal_0, task_halted,
                 last_signal>>
  /\ UNCHANGED miVars /\ UNCHANGED schedVars
  /\ Step

\* MFC0 of SP_STATUS: seeing the same signal twice is a wait for the CPU.
RspReadStatus ==
  /\ sync_point' = (sync_point \/ (signal_0 /\ last_signal))
  /\ last_signal' = signal_0
  /\ UNCHANGED <<broke, single_step, intr_on_break, signal_0, broken,
                 task_halted>>
  /\ UNCHANGED miVars /\ UNCHANGED schedVars
  /\ Step

-----------------------------------------------------------------------------
(***************************************************************************)
(* Writes to SP_STATUS.                                                    *)
(***************************************************************************)

Chosen(flags, clear, set, old) ==
  IF clear \in flags THEN FALSE ELSE IF set \in flags THEN TRUE ELSE old

SetsHalt(flags) == "set_halt" \in flags /\ "clear_halt" \notin flags

HaltAfterWrite(flags) ==
  IF SetsHalt(flags) THEN TRUE
  ELSE IF "clear_halt" \in flags /\ "set_halt" \notin flags THEN FALSE
  ELSE halt

MutCancelOnSetHalt(flags) ==
  /\ broke' = (broke /\ "clear_broke" \notin flags)
  /\ single_step' = Chosen(flags, "clear_sstep", "set_sstep", single_step)
  /\ intr_on_break' = Chosen(flags, "clear_intr_on_break", "set_intr_on_break",
                             intr_on_break)
  /\ signal_0' = Chosen(flags, "clear_signal_0", "set_signal_0", signal_0)
  /\ IF "set_intr" \in flags THEN Raise("sp")
     ELSE IF "clear_intr" \in flags THEN Ack("sp")
     ELSE UNCHANGED miVars
  /\ IF "set_halt" \in flags THEN CancelNamed(Sp) ELSE UNCHANGED schedVars

\* What status_reg_write does besides the halt bit.  Halting the RSP cancels
\* its event.
WriteStatus(flags) ==
  /\ broke' = (broke /\ "clear_broke" \notin flags)
  /\ single_step' = Chosen(flags, "clear_sstep", "set_sstep", single_step)
  /\ intr_on_break' = Chosen(flags, "clear_intr_on_break", "set_intr_on_break",
                             intr_on_break)
  /\ signal_0' = Chosen(flags, "clear_signal_0", "set_signal_0", signal_0)
  /\ IF "set_intr" \in flags THEN Raise("sp")
     ELSE IF "clear_intr" \in flags THEN Ack("sp")
     ELSE UNCHANGED miVars
  /\ IF SetsHalt(flags) THEN CancelNamed(Sp) ELSE UNCHANGED schedVars

\* MTC0 to SP_STATUS.  A self-halt shows only when the event fires.
RspWriteStatus(flags) ==
  /\ WriteStatus(flags)
  /\ task_halted' = (task_halted \/ SetsHalt(flags))
  /\ sync_point' = (sync_point \/ SetsHalt(flags))
  /\ UNCHANGED <<broken, last_signal>>
  /\ Step

MutFreeTurn ==
  /\ running_task
  /\ TurnOver
  /\ ScheduleNamed(Sp, ran \div 2, "on_sp_event")
  /\ running_task' = FALSE
  /\ UNCHANGED <<statusVars, broken, task_halted, sync_point, ran, last_signal>>
  /\ UNCHANGED miVars

\* The end of run_until_sync and of do_task.
EndTurn ==
  /\ running_task
  /\ TurnOver
  /\ ScheduleNamed(Sp, (ran * 3) \div 2, "on_sp_event")
  /\ running_task' = FALSE
  /\ UNCHANGED <<statusVars, broken, task_halted, sync_point, ran, last_signal>>
  /\ UNCHANGED miVars

\* The CPU writes SP_STATUS; clearing halt starts a turn on the spot.
CpuWriteStatus(flags) ==
  /\ ~ticking
  /\ ~running_task
  /\ WriteStatus(flags)
  /\ halt' = HaltAfterWrite(flags)
  /\ IF halt /\ ~halt'
     THEN StartTurn /\ task_halted' = FALSE
     ELSE UNCHANGED <<broken, task_halted, running_task, sync_point, ran,
                      last_signal>>

-----------------------------------------------------------------------------
(***************************************************************************)
(* on_sp_event, the callback of the named event.                           *)
(***************************************************************************)

ShowBreak ==
  /\ broken
  /\ halt' = TRUE
  /\ broke' = TRUE
  /\ IF intr_on_break THEN Raise("sp") ELSE UNCHANGED miVars
  /\ UNCHANGED <<single_step, intr_on_break, signal_0, broken, task_halted,
                 running_task, sync_point, ran, last_signal>>

ShowHalt ==
  /\ ~broken
  /\ task_halted
  /\ halt' = TRUE
  /\ task_halted' = FALSE
  /\ UNCHANGED <<broke, single_step, intr_on_break, signal_0, broken,
                 running_task, sync_point, ran, last_signal>>
  /\ UNCHANGED miVars

MutIgnoresHalt ==
  /\ ~broken
  /\ ~task_halted
  /\ StartTurn
  /\ UNCHANGED statusVars
  /\ UNCHANGED task_halted
  /\ UNCHANGED miVars

MutForgetsBreak ==
  /\ ~task_halted
  /\ IF halt
     THEN UNCHANGED rspVars
     ELSE StartTurn /\ UNCHANGED statusVars /\ UNCHANGED task_halted
  /\ UNCHANGED miVars

NextTurn ==
  /\ ~broken
  /\ ~task_halted
  /\ IF halt
     THEN UNCHANGED rspVars
     ELSE StartTurn /\ UNCHANGED statusVars /\ UNCHANGED task_halted
  /\ UNCHANGED miVars

OnSpEvent ==
  /\ ~running_task
  /\ DispatchNamed(Sp)
  /\ ShowBreak \/ ShowHalt \/ NextTurn

RspTick ==
  /\ ~running_task
  /\ \/ \E n \in 0 .. MaxTick : TickBegin(n)
     \/ TickEnd
  /\ UNCHANGED rspVars /\ UNCHANGED miVars

RspTurn ==
  \/ RspPlain
  \/ RspSync
  \/ RspBreak
  \/ RspReadStatus
  \/ \E f \in RspStatusWrite : RspWriteStatus(f)
  \/ EndTurn

RspNext ==
  \/ \E f \in CpuStatusWrite : CpuWriteStatus(f)
  \/ RspTurn
  \/ OnSpEvent
  \/ RspTick

RspStart ==
  /\ RspInit
  /\ SchedInit
  /\ MiInit

RspSpec == RspStart /\ [][RspNext]_<<rspVars, schedVars, miVars>>

\* tick() is a loop of the host program: it and the turns inside it keep
\* running until they return.
RspFairSpec ==
  /\ RspSpec
  /\ WF_<<rspVars, schedVars, miVars>>(RspTurn)
  /\ WF_<<rspVars, schedVars, miVars>>(OnSpEvent \/ (TickEnd /\ RspTick))

-----------------------------------------------------------------------------
(***************************************************************************)
(* Properties.                                                             *)
(***************************************************************************)

\* An RSP that is not halted always gets another turn: between turns its
\* event is armed, whatever the CPU and the RSP itself wrote to SP_STATUS.
\* An RSP without one would spin in the CPU's polling loop for ever.
RunningHasEvent == ~halt /\ ~running_task => named[Sp].enabled

\* A halted RSP stays idle.  The event of the turn in which it was halted, by
\* single step or by a break, still fires, finds it halted and starts neither
\* a turn nor another event: only the CPU's clear_halt does.
HaltedStaysIdle ==
  [][halt /\ ~running_task
       => \/ ~running_task' /\ (named'[Sp].enabled => named[Sp].enabled)
          \/ ~halt' /\ ~ticking]_<<rspVars, schedVars>>

\* A break is not lost on its way to the CPU: from the turn that hit it to
\* the event that shows it no further RSP instruction runs, and the RSP stops
\* with `broke` set unless the CPU itself halted it first.
BreakIsShown ==
  [][broken /\ ~halt /\ ~running_task
       => \/ broken' /\ ~halt' /\ ~running_task'
          \/ halt' /\ (broke' \/ ~ticking)]_rspVars

\* tick() returns, although each turn re-arms the event from inside the
\* dispatch loop: a turn of one instruction already costs a cycle.
TickReturns == ticking ~> ~ticking

=============================================================================
